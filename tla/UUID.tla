-------------------------------- MODULE UUID --------------------------------
(***************************************************************************)
(* The UUIDv7 generator of src/uuid.go, shared by the goroutines of one    *)
(* process.  A caller reads the clock before it takes the mutex, so the    *)
(* reading may be old by then, and the clock itself may step back: a       *)
(* reading is any number.  The 62 random bits are left out; the order of   *)
(* ids is that of the 48 timestamp bits and the 12 counter bits above them.*)
(***************************************************************************)
EXTENDS Integers

CONSTANT Callers    \* goroutines inside NewUUIDv7

VARIABLES
    lastMS, counter,    \* uuidV7State
    nowMS               \* per caller: its reading of the clock, -1 before it has one

vars == <<lastMS, counter, nowMS>>

CounterMask == 4095                 \* uuidV7CounterMask
CounterSeedMask == 2047             \* uuidV7CounterSeedMask
TimestampLimit == 281474976710656   \* 2^48

Init ==
    /\ lastMS = 0 /\ counter = 0
    /\ nowMS = [c \in Callers |-> -1]

\* nowFn, ahead of the mutex.
nowMillisecond(c) ==
    /\ nowMS[c] = -1
    /\ \E t \in Nat : nowMS' = [nowMS EXCEPT ![c] = t]
    /\ UNCHANGED <<lastMS, counter>>

\* The clock moved past the last millisecond: resync, with a counter from random bits.
Resync(c, seed) ==
    /\ nowMS[c] > lastMS
    /\ lastMS' = nowMS[c] /\ counter' = seed

\* The same millisecond, or an older reading.
Increment(c) ==
    /\ nowMS[c] <= lastMS /\ counter + 1 <= CounterMask
    /\ counter' = counter + 1 /\ UNCHANGED lastMS

\* The counter is exhausted: read the clock again, and borrow a millisecond if need be.
Overflow(c, again) ==
    /\ nowMS[c] <= lastMS /\ counter + 1 > CounterMask
    /\ lastMS' = IF again > lastMS THEN again ELSE lastMS + 1
    /\ counter' = 0

\* The critical section of newUUIDv7At; what is stamped is the state it leaves.
newUUIDv7At(c) ==
    /\ nowMS[c] # -1
    /\ \/ \E seed \in 0..CounterSeedMask : Resync(c, seed)
       \/ Increment(c)
       \/ \E again \in Nat : Overflow(c, again)
    /\ nowMS' = [nowMS EXCEPT ![c] = -1]

Next == \E c \in Callers : nowMillisecond(c) \/ newUUIDv7At(c)

Spec == Init /\ [][Next]_vars

-----------------------------------------------------------------------------
\* The state of the generator is in range, and the counter fits its 12 bits, so that it
\* never reaches the version bits of byte 6.
CounterFits ==
    /\ lastMS \in Nat /\ counter \in 0..CounterMask
    /\ nowMS \in [Callers -> Nat \cup {-1}]

\* The leading 60 bits that are written: a 48-bit timestamp and the counter.
Bits(ms, count) == ms * 4096 + count
Stamp == Bits(lastMS % TimestampLimit, counter)

\* NewUUIDv7's promise, "strictly increasing even within a single millisecond and even if
\* the system clock moves backwards", as long as timestamps fit in 48 bits: each id is
\* above every id minted before it in the process, whatever the readings were.
StrictlyIncreasing ==
    [][(\E c \in Callers : newUUIDv7At(c)) /\ lastMS' < TimestampLimit => Stamp' > Stamp]_vars

=============================================================================
