--------------------------- MODULE PartsProofs ---------------------------
(***************************************************************************)
(* Theorems about four parts that stand alone: the UUIDv7 generator, the   *)
(* redelivery delay, the in-memory test double and the LISTEN/NOTIFY       *)
(* listener, the last for every number of calls, of channels and of        *)
(* notifications that fit into the buffer.                                 *)
(***************************************************************************)
EXTENDS Integers, Listener, TLAPS

(* The UUIDv7 generator *)

CONSTANT Callers
VARIABLES lastMS, counter, nowMS

U == INSTANCE UUID

\* A caller in the critical section has read the clock.
LEMMA ReadingKnown ==
    ASSUME U!CounterFits, NEW c \in Callers, U!newUUIDv7At(c)
    PROVE  nowMS[c] \in Nat
<1>1. nowMS[c] \in Nat \cup {-1} /\ nowMS[c] # -1
  BY Zenon DEF U!CounterFits, U!newUUIDv7At
<1> QED BY <1>1, Zenon

\* A later clock starts a counter from the seed.
LEMMA ResyncEffect ==
    ASSUME NEW c \in Callers, NEW seed \in 0..U!CounterSeedMask, nowMS[c] \in Nat, U!Resync(c, seed)
    PROVE  lastMS' \in Nat /\ lastMS' > lastMS /\ counter' \in 0..U!CounterMask
<1>1. lastMS' = nowMS[c] /\ nowMS[c] > lastMS /\ counter' = seed
  BY Zenon DEF U!Resync
<1>2. seed \in 0..U!CounterMask
  BY SMTT(30) DEF U!CounterMask, U!CounterSeedMask
<1> QED BY <1>1, <1>2, Zenon

\* A timestamp below 2^48 is written unchanged.
LEMMA StampFits ==
    ASSUME NEW t \in Nat, t < U!TimestampLimit
    PROVE  t % U!TimestampLimit = t
BY SMTT(30) DEF U!TimestampLimit

\* A later timestamp outweighs any counter.
LEMMA TimestampDecides ==
    ASSUME NEW s \in Nat, NEW t \in Nat, NEW x \in 0..U!CounterMask, NEW y \in 0..U!CounterMask,
           t > s \/ (t = s /\ y = x + 1)
    PROVE  U!Bits(t, y) > U!Bits(s, x)
BY SMT DEF U!Bits, U!CounterMask

\* Within a millisecond the counter goes up by one, as long as it fits.
LEMMA IncrementEffect ==
    ASSUME U!CounterFits, NEW c \in Callers, U!Increment(c)
    PROVE  lastMS' = lastMS /\ lastMS' \in Nat /\ counter' = counter + 1 /\ counter' \in 0..U!CounterMask
<1>1. lastMS' = lastMS /\ lastMS' \in Nat /\ counter' = counter + 1
  BY Zenon DEF U!Increment, U!CounterFits
<1>2. counter \in 0..U!CounterMask /\ counter + 1 <= U!CounterMask
  BY ZenonT(30) DEF U!Increment, U!CounterFits
<1>3. counter + 1 \in 0..U!CounterMask
  BY <1>2, SMTT(30) DEF U!CounterMask
<1> QED BY <1>1, <1>3, Zenon

\* A counter that does not fit moves the millisecond, with or without the clock.
LEMMA OverflowEffect ==
    ASSUME U!CounterFits, NEW c \in Callers, NEW again \in Nat, U!Overflow(c, again)
    PROVE  lastMS' \in Nat /\ lastMS' > lastMS /\ counter' \in 0..U!CounterMask
<1>1. /\ lastMS \in Nat /\ counter' = 0
      /\ lastMS' = IF again > lastMS THEN again ELSE lastMS + 1
  BY Zenon DEF U!Overflow, U!CounterFits
<1>2. lastMS' \in Nat /\ lastMS' > lastMS
  BY <1>1, SMTT(30)
<1>3. 0 \in 0..U!CounterMask
  BY SMTT(30) DEF U!CounterMask
<1> QED BY <1>1, <1>2, <1>3, Zenon

\* Whatever order callers get the mutex in, the 12-bit counter never overflows.
THEOREM CounterAlwaysFits == U!Spec => []U!CounterFits
<1>1. U!Init => U!CounterFits
  BY DEF U!Init, U!CounterFits, U!CounterMask
<1>2. U!CounterFits /\ [U!Next]_(U!vars) => U!CounterFits'
  <2> SUFFICES ASSUME U!CounterFits, [U!Next]_(U!vars) PROVE U!CounterFits'
    OBVIOUS
  <2>1. CASE UNCHANGED U!vars
    BY <2>1 DEF U!vars, U!CounterFits
  <2>2. ASSUME NEW c \in Callers, U!nowMillisecond(c) PROVE U!CounterFits'
    BY <2>2 DEF U!nowMillisecond, U!CounterFits
  <2>3. ASSUME NEW c \in Callers, U!newUUIDv7At(c) PROVE U!CounterFits'
    <3>1. nowMS' \in [Callers -> Nat \cup {-1}]
      BY <2>3 DEF U!newUUIDv7At, U!CounterFits
    <3>2. nowMS[c] \in Nat
      BY <2>3, ReadingKnown, Zenon
    <3>3. ASSUME NEW seed \in 0..U!CounterSeedMask, U!Resync(c, seed) PROVE U!CounterFits'
      BY <3>1, <3>2, <3>3, ResyncEffect, Zenon DEF U!CounterFits
    <3>4. CASE U!Increment(c)
      BY <3>1, <3>4, IncrementEffect, Zenon DEF U!CounterFits
    <3>5. ASSUME NEW again \in Nat, U!Overflow(c, again) PROVE U!CounterFits'
      BY <3>1, <3>5, OverflowEffect, Zenon DEF U!CounterFits
    <3>6. \/ \E seed \in 0..U!CounterSeedMask : U!Resync(c, seed)
          \/ U!Increment(c)
          \/ \E again \in Nat : U!Overflow(c, again)
      BY <2>3, Zenon DEF U!newUUIDv7At
    <3> QED BY <3>3, <3>4, <3>5, <3>6, Zenon
  <2> QED BY <2>1, <2>2, <2>3 DEF U!Next
<1> QED BY <1>1, <1>2, PTL DEF U!Spec

\* Ids increase for any number of goroutines and any behaviour of the clock.
THEOREM IdsIncrease == U!Spec => U!StrictlyIncreasing
<1>1. U!CounterFits /\ [U!Next]_(U!vars) =>
        [(\E c \in Callers : U!newUUIDv7At(c)) /\ lastMS' < U!TimestampLimit
           => U!Stamp' > U!Stamp]_(U!vars)
  <2> SUFFICES ASSUME U!CounterFits, NEW c \in Callers, U!newUUIDv7At(c), lastMS' < U!TimestampLimit
               PROVE  U!Stamp' > U!Stamp
    OBVIOUS
  <2>1. /\ lastMS \in Nat /\ counter \in 0..U!CounterMask /\ nowMS[c] \in Nat
    BY ReadingKnown, Zenon DEF U!CounterFits
  <2>2. /\ lastMS' \in Nat /\ counter' \in 0..U!CounterMask
        /\ \/ lastMS' > lastMS
           \/ lastMS' = lastMS /\ counter' = counter + 1
    <3> DEFINE Rises == /\ lastMS' \in Nat /\ counter' \in 0..U!CounterMask
                        /\ \/ lastMS' > lastMS
                           \/ lastMS' = lastMS /\ counter' = counter + 1
    <3>1. ASSUME NEW seed \in 0..U!CounterSeedMask, U!Resync(c, seed) PROVE Rises
      BY <2>1, <3>1, ResyncEffect, Zenon
    <3>2. ASSUME U!Increment(c) PROVE Rises
      BY <3>2, IncrementEffect, Zenon
    <3>3. ASSUME NEW again \in Nat, U!Overflow(c, again) PROVE Rises
      BY <3>3, OverflowEffect, Zenon
    <3> HIDE DEF Rises
    <3>4. Rises
      BY <3>1, <3>2, <3>3, Zenon DEF U!newUUIDv7At
    <3> QED BY <3>4 DEF Rises
  <2>3. /\ lastMS % U!TimestampLimit = lastMS
        /\ lastMS' % U!TimestampLimit = lastMS'
    <3>1. lastMS < U!TimestampLimit
      BY <2>1, <2>2, SMT DEF U!TimestampLimit
    <3> QED BY <2>1, <2>2, <3>1, StampFits
  <2>4. U!Bits(lastMS', counter') > U!Bits(lastMS, counter)
    BY <2>1, <2>2, TimestampDecides, Zenon
  <2> QED BY <2>3, <2>4 DEF U!Stamp
<1> QED BY <1>1, CounterAlwaysFits, PTL DEF U!Spec, U!StrictlyIncreasing

-----------------------------------------------------------------------------
(* The redelivery delay *)

VARIABLES policy, attempt, override, delay, passes, returned

B == INSTANCE Backoff WITH d <- delay, i <- passes

\* normalized makes any configured policy usable: 0 < BaseDelay <= MaxDelay, Multiplier >= 1.
LEMMA NormalizedUsable ==
    ASSUME NEW p \in B!Policies
    PROVE  /\ B!normalized(p) \in [base : Int, max : Int, mult : Int]
           /\ 0 < B!normalized(p).base /\ B!normalized(p).base <= B!normalized(p).max
           /\ B!normalized(p).mult >= 1000
<1>1. /\ B!NormalBase(p) \in Int /\ 0 < B!NormalBase(p)
      /\ B!NormalMax(p) \in Int /\ B!NormalBase(p) <= B!NormalMax(p)
      /\ B!NormalMult(p) \in Int /\ B!NormalMult(p) >= 1000
  BY SMT DEF B!Policies, B!NormalBase, B!NormalMax, B!NormalMult, B!defaultBackoffBase,
             B!defaultBackoffMax, B!defaultBackoffMultiplier, B!Second
<1> QED BY <1>1 DEF B!normalized

\* Delay's promise, "always within [BaseDelay, MaxDelay]", for every policy, every previous
\* delay, every jitter and both conversions of a product that does not fit an int64.
THEOREM DelayInRange ==
    ASSUME NEW p \in B!Policies, NEW prev \in Int, NEW x \in B!Delay(p, prev)
    PROVE  B!InRange(p, x)
<1> DEFINE pn == B!normalized(p)
<1>1. pn.base \in Int /\ pn.max \in Int /\ pn.base <= pn.max
  BY NormalizedUsable
<1>2. PICK y \in B!Converted(pn.base, B!High(pn, prev)) : x = B!Clamp(pn, y)
  BY Zenon DEF B!Delay, B!Draws
<1>3. B!MaxInt64 \in Int /\ B!MinInt64 \in Int
  BY SMT DEF B!MaxInt64, B!MinInt64
<1>4. y \in Int
  BY <1>2, <1>3, Zenon DEF B!Converted
<1> HIDE DEF pn
<1>5. x \in pn.base .. pn.max
  BY <1>1, <1>2, <1>4, SMT DEF B!Clamp
<1> QED BY <1>5 DEF pn, B!InRange

\* A redelivery is never due before the policy's base delay nor after its cap.
THEOREM RetryDelayAlwaysBounded == B!Spec => []B!RetryDelayBounded
<1>1. B!Init => B!LoopInv
  <2> SUFFICES ASSUME B!Init PROVE B!LoopInv
    OBVIOUS
  <2>1. CASE override > 0
    <3>1. B!maxRetryDelay \in Int /\ B!maxRetryDelay >= 1 /\ B!maxBackoffSteps \in Nat
      BY SMT DEF B!maxRetryDelay, B!maxBackoffSteps, B!Second
    <3>2. returned = TRUE /\ delay \in 1..B!maxRetryDelay /\ delay \in Int
      BY <2>1, <3>1, SMT DEF B!Init
    <3> QED BY <2>1, <3>1, <3>2, SMT DEF B!Init, B!LoopInv
  <2>2. CASE override <= 0
    BY <2>2, SMT DEF B!Init, B!LoopInv, B!maxBackoffSteps
  <2> QED BY <2>1, <2>2, SMT DEF B!Init
<1>2. B!LoopInv /\ [B!Next]_(B!vars) => B!LoopInv'
  <2> SUFFICES ASSUME B!LoopInv, [B!Next]_(B!vars) PROVE B!LoopInv'
    OBVIOUS
  <2>1. CASE UNCHANGED B!vars
    BY <2>1, SMT DEF B!LoopInv, B!vars, B!InRange, B!normalized, B!NormalBase, B!NormalMax, B!NormalMult, B!Again
  <2>2. CASE B!Advance
    <3>1. B!InRange(policy, delay')
      BY <2>2, DelayInRange DEF B!Advance, B!LoopInv
    <3>2. delay' \in Int
      BY <3>1, NormalizedUsable, SMT DEF B!InRange, B!LoopInv
    <3>3. override <= 0 /\ returned = FALSE
      BY <2>2, SMT DEF B!Advance, B!LoopInv
    <3> QED BY <2>2, <3>1, <3>2, <3>3, SMT DEF B!Advance, B!LoopInv, B!Again, B!maxBackoffSteps
  <2>3. CASE B!Return
    BY <2>3, SMT DEF B!Return, B!LoopInv, B!Again
  <2> QED BY <2>1, <2>2, <2>3 DEF B!Next
<1>3. B!LoopInv => B!RetryDelayBounded
  BY SMT DEF B!LoopInv, B!RetryDelayBounded, B!Again, B!maxBackoffSteps
<1> QED BY <1>1, <1>2, <1>3, PTL DEF B!Spec

-----------------------------------------------------------------------------
(* The test double *)

CONSTANTS Subs, Ids, Claims, NoClaim
VARIABLES maxRetries, queuesOf, paused, at, claimID, retryCount, used, deliv

F == INSTANCE Fake WITH subs <- queuesOf

\* The counting invariant is inductive.
THEOREM FakeCounts == F!Spec => []F!FakeInv
<1>1. F!Init => F!FakeInv
  BY DEF F!Init, F!FakeInv
<1>2. F!FakeInv /\ [F!Next]_(F!vars) => F!FakeInv'
  <2> SUFFICES ASSUME F!FakeInv, [F!Next]_(F!vars) PROVE F!FakeInv'
    OBVIOUS
  <2>1. CASE UNCHANGED F!vars
    BY <2>1 DEF F!vars, F!FakeInv
  <2>2. ASSUME NEW s \in Subs, F!Subscribe(s) PROVE F!FakeInv'
    BY <2>2 DEF F!Subscribe, F!entries, F!FakeInv
  <2>3. ASSUME NEW p \in BOOLEAN, F!setPaused(p) PROVE F!FakeInv'
    BY <2>3 DEF F!setPaused, F!entries, F!FakeInv
  <2>4. ASSUME NEW m \in Ids, F!Publish(m) PROVE F!FakeInv'
    BY <2>4 DEF F!Publish, F!FakeInv
  <2>5. ASSUME NEW u \in F!Units, NEW k \in Claims, F!claim(u, k) PROVE F!FakeInv'
    BY <2>5 DEF F!claim, F!FakeInv
  <2>6. ASSUME NEW u \in F!Units, NEW k \in Claims, F!Ack(u, k) PROVE F!FakeInv'
    BY <2>6 DEF F!Ack, F!Owns, F!FakeInv
  <2>7. ASSUME NEW u \in F!Units, NEW k \in Claims, F!Nack(u, k) PROVE F!FakeInv'
    BY <2>7 DEF F!Nack, F!Owns, F!FakeInv
  <2> QED BY <2>1, <2>2, <2>3, <2>4, <2>5, <2>6, <2>7 DEF F!Next
<1> QED BY <1>1, <1>2, PTL DEF F!Spec

\* Every method of the fake is, unit by unit, a step of the delivery contract.
THEOREM FakeRefinesDelivery == F!Spec => F!ImplementsContract
<1>1. F!Init => F!Contract!Init
  BY DEF F!Init, F!Contract!Init, F!Unit
<1>2. ASSUME F!FakeInv, [F!Next]_(F!vars), NEW u \in F!Units
      PROVE  F!Contract!Step(u)
  <2> USE DEF F!Contract!Move, F!Contract!Keeps, F!Unit, F!FakeInv
  <2>1. ASSUME at'[u] = at[u], deliv'[u] = deliv[u], maxRetries' = maxRetries
        PROVE  F!Contract!Rest(u)
    BY <1>2, <2>1 DEF F!Contract!Rest
  <2>2. CASE UNCHANGED F!vars
    BY <2>1, <2>2 DEF F!vars, F!Contract!Step
  <2>3. ASSUME NEW s \in Subs, F!Subscribe(s) PROVE F!Contract!Step(u)
    BY <2>1, <2>3 DEF F!Subscribe, F!entries, F!Contract!Step
  <2>4. ASSUME NEW p \in BOOLEAN, F!setPaused(p) PROVE F!Contract!Step(u)
    BY <2>1, <2>4 DEF F!setPaused, F!entries, F!Contract!Step
  <2>5. ASSUME NEW m \in Ids, F!Publish(m) PROVE F!Contract!Step(u)
    <3>1. CASE u[1] \in queuesOf /\ u[2] = m
      <4>1. at[u] \in {"absent", "acked"} /\ at'[u] = "pending" /\ deliv'[u] = 0
            /\ maxRetries' = maxRetries
        BY <1>2, <2>5, <3>1 DEF F!Publish, F!hasMessage
      <4>2. CASE at[u] = "absent"
        BY <1>2, <4>1, <4>2 DEF F!Contract!Step, F!Contract!Enqueue
      <4>3. CASE at[u] = "acked"
        BY <1>2, <4>1, <4>3 DEF F!Contract!Step, F!Contract!Replay
      <4> QED BY <4>1, <4>2, <4>3
    <3>2. CASE ~(u[1] \in queuesOf /\ u[2] = m)
      BY <1>2, <2>1, <2>5, <3>2 DEF F!Publish, F!Contract!Step
    <3> QED BY <3>1, <3>2
  <2>6. ASSUME NEW v \in F!Units, NEW k \in Claims, F!claim(v, k) PROVE F!Contract!Step(u)
    <3>1. CASE u = v
      BY <1>2, <2>6, <3>1 DEF F!claim, F!Contract!Step, F!Contract!Deliver
    <3>2. CASE u # v
      BY <1>2, <2>1, <2>6, <3>2 DEF F!claim, F!Contract!Step
    <3> QED BY <3>1, <3>2
  <2>7. ASSUME NEW v \in F!Units, NEW k \in Claims, F!Ack(v, k) PROVE F!Contract!Step(u)
    <3>1. CASE u = v
      BY <1>2, <2>7, <3>1 DEF F!Ack, F!Owns, F!Contract!Step, F!Contract!Finish
    <3>2. CASE u # v
      BY <1>2, <2>1, <2>7, <3>2 DEF F!Ack, F!Contract!Step
    <3> QED BY <3>1, <3>2
  <2>8. ASSUME NEW v \in F!Units, NEW k \in Claims, F!Nack(v, k) PROVE F!Contract!Step(u)
    <3>1. CASE u # v
      BY <1>2, <2>1, <2>8, <3>1 DEF F!Nack, F!Contract!Step
    <3>2. CASE u = v /\ retryCount[v] + 1 > maxRetries
      <4>1. at[u] = "claimed" /\ at'[u] = "dlq" /\ deliv[u] = maxRetries + 1
        BY <1>2, <2>8, <3>2 DEF F!Nack, F!Owns
      <4> QED BY <1>2, <4>1 DEF F!Contract!Step, F!Contract!Bury
    <3>3. CASE u = v /\ ~(retryCount[v] + 1 > maxRetries)
      <4>1. /\ at[u] = "claimed" /\ at'[u] = "pending" /\ deliv[u] <= maxRetries
            /\ deliv'[u] = deliv[u] /\ maxRetries' = maxRetries
        BY <1>2, <2>8, <3>3 DEF F!Nack, F!Owns
      <4> QED BY <1>2, <4>1 DEF F!Contract!Step, F!Contract!Release
    <3> QED BY <3>1, <3>2, <3>3
  <2> QED BY <1>2, <2>2, <2>3, <2>4, <2>5, <2>6, <2>7, <2>8 DEF F!Next
<1>3. F!FakeInv /\ [F!Next]_(F!vars) => [F!Contract!Next]_(F!Contract!vars)
  BY <1>2 DEF F!Contract!Next
<1> QED BY <1>1, <1>3, FakeCounts, PTL DEF F!Spec, F!ImplementsContract, F!Contract!Spec

-----------------------------------------------------------------------------
(* The listener.  None of its invariants is inductive alone: NudgeInv,     *)
(* HandsInv, KeepInv and RequestInv say what the loop still has to do at   *)
(* each place it can be interrupted at.                                    *)

\* Time for the provers: a leaf that names no method of its own gets these.
USE SMTT(30), ZenonT(30)

(* Sequences *)

\* A sequence is a function on its places, and the empty one has none.
LEMMA SeqParts ==
    ASSUME NEW S, NEW s \in Seq(S)
    PROVE  /\ Len(s) \in Nat /\ DOMAIN s = 1..Len(s) /\ s \in [1..Len(s) -> S]
           /\ \A i \in DOMAIN s : s[i] \in S
           /\ Len(s) = 0 <=> s = <<>>
OBVIOUS

\* A function on the first n numbers is a sequence.
LEMMA SeqOf ==
    ASSUME NEW S, NEW n \in Nat, NEW s \in [1..n -> S]
    PROVE  s \in Seq(S)
OBVIOUS

\* Two sequences with the same members at the same places are the same.
LEMMA SameSeq ==
    ASSUME NEW S, NEW s \in Seq(S), NEW t \in Seq(S), Len(s) = Len(t),
           \A i \in 1..Len(s) : s[i] = t[i]
    PROVE  s = t
OBVIOUS

\* Append leaves the places that were there and adds one.
LEMMA AppendParts ==
    ASSUME NEW S, NEW s \in Seq(S), NEW e \in S
    PROVE  /\ Append(s, e) \in Seq(S) /\ Len(Append(s, e)) = Len(s) + 1
           /\ \A i \in 1..Len(s) : Append(s, e)[i] = s[i]
           /\ Append(s, e)[Len(s) + 1] = e
OBVIOUS

\* Tail moves every place but the first forward.
LEMMA TailParts ==
    ASSUME NEW S, NEW s \in Seq(S), s # <<>>
    PROVE  /\ Len(s) > 0 /\ Head(s) = s[1] /\ 1 \in DOMAIN s /\ Head(s) \in S
           /\ Tail(s) \in Seq(S) /\ Len(Tail(s)) = Len(s) - 1
           /\ \A i \in 1..(Len(s) - 1) : Tail(s)[i] = s[i + 1]
OBVIOUS

\* The places of the second sequence come after those of the first.
LEMMA ConcatParts ==
    ASSUME NEW S, NEW s \in Seq(S), NEW t \in Seq(S)
    PROVE  /\ s \o t \in Seq(S) /\ Len(s \o t) = Len(s) + Len(t)
           /\ \A i \in 1..(Len(s) + Len(t)) :
                 (s \o t)[i] = IF i <= Len(s) THEN s[i] ELSE t[i - Len(s)]
OBVIOUS

\* Nothing in front, nothing behind.
LEMMA ConcatEmpty ==
    ASSUME NEW S, NEW s \in Seq(S)
    PROVE  <<>> \o s = s /\ s \o <<>> = s
OBVIOUS

(* Requests in a queue *)

OnePerCall(s) ==
  \A i, j \in DOMAIN s : s[i].call = s[j].call /\ s[i].call # NoCall => i = j

Asks(s, c) == \E i \in DOMAIN s : s[i].call = c

\* A request at the end is one more, and all the others.
LEMMA AppendAsks ==
  ASSUME NEW s \in Seq(Request), NEW r \in Request
  PROVE  /\ \A c : Asks(Append(s, r), c) <=> Asks(s, c) \/ c = r.call
         /\ OnePerCall(s) /\ (r.call = NoCall \/ ~Asks(s, r.call)) => OnePerCall(Append(s, r))
<1> DEFINE t == Append(s, r)
<1>1. /\ Len(s) \in Nat /\ DOMAIN s = 1..Len(s) /\ DOMAIN t = 1..(Len(s) + 1)
      /\ \A i \in 1..Len(s) : t[i] = s[i]
      /\ t[Len(s) + 1] = r
  BY AppendParts, SeqParts
<1> HIDE DEF t
<1>2. \A i \in DOMAIN t : i = Len(s) + 1 \/ i \in DOMAIN s
  BY <1>1
<1>3. /\ Len(s) + 1 \in DOMAIN t /\ Len(s) + 1 \notin DOMAIN s
      /\ \A i \in DOMAIN s : i \in DOMAIN t /\ t[i] = s[i]
  BY <1>1
<1>4. \A c : Asks(t, c) <=> Asks(s, c) \/ c = r.call
  BY <1>1, <1>2, <1>3, Zenon DEF Asks
<1>5. OnePerCall(s) /\ (r.call = NoCall \/ ~Asks(s, r.call)) => OnePerCall(t)
  BY <1>1, <1>2, <1>3, ZenonT(30) DEF OnePerCall, Asks
<1> QED BY <1>4, <1>5 DEF t

\* Without its first request a queue asks for all calls but that one.
LEMMA TailAsks ==
  ASSUME NEW s \in Seq(Request), s # <<>>, OnePerCall(s)
  PROVE  /\ OnePerCall(Tail(s))
         /\ \A c : c # NoCall => (Asks(Tail(s), c) <=> Asks(s, c) /\ c # Head(s).call)
<1>1. /\ Len(s) \in Nat /\ Len(s) > 0 /\ DOMAIN s = 1..Len(s)
      /\ Tail(s) \in Seq(Request) /\ Len(Tail(s)) = Len(s) - 1
      /\ Head(s) = s[1]
      /\ \A i \in 1..(Len(s) - 1) : Tail(s)[i] = s[i + 1]
  BY TailParts, SeqParts
<1>2. DOMAIN Tail(s) = 1..(Len(s) - 1)
  BY <1>1, SeqParts
<1>3. OnePerCall(Tail(s))
  <2> SUFFICES ASSUME NEW i \in DOMAIN Tail(s), NEW j \in DOMAIN Tail(s),
                      Tail(s)[i].call = Tail(s)[j].call, Tail(s)[i].call # NoCall
               PROVE  i = j
    BY Zenon DEF OnePerCall
  <2>1. i + 1 \in DOMAIN s /\ j + 1 \in DOMAIN s /\ i \in Nat /\ j \in Nat
    BY <1>1, <1>2
  <2>2. Tail(s)[i] = s[i + 1] /\ Tail(s)[j] = s[j + 1]
    BY <1>1, <1>2
  <2>3. i + 1 = j + 1
    BY <2>1, <2>2, Zenon DEF OnePerCall
  <2> QED BY <2>1, <2>3
<1>4. ASSUME NEW c, c # NoCall
      PROVE  Asks(Tail(s), c) <=> Asks(s, c) /\ c # Head(s).call
  <2>1. ASSUME Asks(Tail(s), c) PROVE Asks(s, c) /\ c # Head(s).call
    <3>1. PICK i \in DOMAIN Tail(s) : Tail(s)[i].call = c
      BY <2>1, Zenon DEF Asks
    <3>2. i + 1 \in DOMAIN s /\ i + 1 # 1 /\ 1 \in DOMAIN s /\ Tail(s)[i] = s[i + 1]
      BY <1>1, <1>2
    <3> QED BY <1>1, <1>4, <3>1, <3>2, Zenon DEF Asks, OnePerCall
  <2>2. ASSUME Asks(s, c), c # Head(s).call PROVE Asks(Tail(s), c)
    <3>1. PICK i \in DOMAIN s : s[i].call = c
      BY <2>2, Zenon DEF Asks
    <3>2. i # 1
      BY <1>1, <2>2, <3>1, Zenon
    <3>3. i - 1 \in DOMAIN Tail(s) /\ Tail(s)[i - 1] = s[i]
      BY <1>1, <1>2, <3>2
    <3> QED BY <3>1, <3>3, Zenon DEF Asks
  <2> QED BY <2>1, <2>2, Zenon
<1> QED BY <1>3, <1>4, Zenon

\* Taking the first of two queues off, or putting the rest back in front of the second.
LEMMA ConcatTail ==
  ASSUME NEW b \in Seq(Request), NEW p \in Seq(Request), b # <<>>
  PROVE  b \o p # <<>> /\ Head(b \o p) = Head(b) /\ Tail(b \o p) = Tail(b) \o p
<1>1. /\ Len(b) \in Nat /\ Len(b) > 0 /\ Len(p) \in Nat
      /\ Tail(b) \in Seq(Request) /\ Len(Tail(b)) = Len(b) - 1
      /\ Head(b) = b[1]
      /\ \A i \in 1..(Len(b) - 1) : Tail(b)[i] = b[i + 1]
  BY TailParts, SeqParts
<1>2. /\ b \o p \in Seq(Request) /\ Len(b \o p) = Len(b) + Len(p)
      /\ \A i \in 1..(Len(b) + Len(p)) :
            (b \o p)[i] = IF i <= Len(b) THEN b[i] ELSE p[i - Len(b)]
  BY ConcatParts
<1>3. b \o p # <<>>
  BY <1>1, <1>2, SeqParts
<1>4. /\ Tail(b \o p) \in Seq(Request) /\ Len(Tail(b \o p)) = Len(b) + Len(p) - 1
      /\ Head(b \o p) = (b \o p)[1]
      /\ \A i \in 1..(Len(b) + Len(p) - 1) : Tail(b \o p)[i] = (b \o p)[i + 1]
  BY <1>2, <1>3, TailParts
<1>5. /\ Tail(b) \o p \in Seq(Request) /\ Len(Tail(b) \o p) = Len(b) - 1 + Len(p)
      /\ \A i \in 1..(Len(b) - 1 + Len(p)) :
            (Tail(b) \o p)[i] = IF i <= Len(b) - 1 THEN Tail(b)[i] ELSE p[i - (Len(b) - 1)]
  BY <1>1, ConcatParts
<1>6. \A i \in 1..(Len(b) + Len(p) - 1) : Tail(b \o p)[i] = (Tail(b) \o p)[i]
  BY <1>1, <1>2, <1>4, <1>5
<1>7. Tail(b \o p) = Tail(b) \o p
  BY <1>1, <1>4, <1>5, <1>6, SameSeq
<1>8. Head(b \o p) = Head(b)
  BY <1>1, <1>2, <1>4
<1> QED BY <1>3, <1>7, <1>8, Zenon

\* Nothing in front or behind, and one more at the end.
LEMMA QueueEnds ==
  ASSUME NEW b \in Seq(Request), NEW p \in Seq(Request), NEW r \in Request
  PROVE  <<>> \o p = p /\ p \o <<>> = p /\ b \o Append(p, r) = Append(b \o p, r)
<1>1. <<>> \o p = p /\ p \o <<>> = p
  BY ConcatEmpty
<1>2. /\ Len(b) \in Nat /\ Len(p) \in Nat /\ b \o p \in Seq(Request)
      /\ Len(b \o p) = Len(b) + Len(p)
      /\ \A i \in 1..(Len(b) + Len(p)) :
            (b \o p)[i] = IF i <= Len(b) THEN b[i] ELSE p[i - Len(b)]
  BY ConcatParts, SeqParts
<1>3. /\ Append(p, r) \in Seq(Request) /\ Len(Append(p, r)) = Len(p) + 1
      /\ \A i \in 1..Len(p) : Append(p, r)[i] = p[i]
      /\ Append(p, r)[Len(p) + 1] = r
  BY AppendParts
<1>4. /\ b \o Append(p, r) \in Seq(Request) /\ Len(b \o Append(p, r)) = Len(b) + Len(p) + 1
      /\ \A i \in 1..(Len(b) + Len(p) + 1) :
            (b \o Append(p, r))[i] = IF i <= Len(b) THEN b[i] ELSE Append(p, r)[i - Len(b)]
  BY <1>2, <1>3, ConcatParts
<1>5. /\ Append(b \o p, r) \in Seq(Request) /\ Len(Append(b \o p, r)) = Len(b) + Len(p) + 1
      /\ \A i \in 1..(Len(b) + Len(p)) : Append(b \o p, r)[i] = (b \o p)[i]
      /\ Append(b \o p, r)[Len(b) + Len(p) + 1] = r
  BY <1>2, AppendParts
<1>6. ASSUME NEW i \in 1..(Len(b) + Len(p) + 1)
      PROVE  (b \o Append(p, r))[i] = Append(b \o p, r)[i]
  <2>1. CASE i <= Len(b)
    BY <1>2, <1>4, <1>5, <2>1
  <2>2. CASE i > Len(b) /\ i <= Len(b) + Len(p)
    BY <1>2, <1>3, <1>4, <1>5, <2>2
  <2>3. CASE i = Len(b) + Len(p) + 1
    BY <1>2, <1>3, <1>4, <1>5, <2>3
  <2> QED BY <1>2, <2>1, <2>2, <2>3
<1>7. b \o Append(p, r) = Append(b \o p, r)
  BY <1>4, <1>5, <1>6, SameSeq
<1> QED BY <1>1, <1>7, Zenon

-----------------------------------------------------------------------------
(* What a reconnect leaves in pending *)

Items == UNION {Requeued(ch) : ch \in channels}

\* A queue is made of requests for channels there are.
LEMMA PendingTyped ==
  ASSUME TypeOK
  PROVE  /\ Len(pending) \in Nat /\ DOMAIN pending = 1..Len(pending)
         /\ \A i \in DOMAIN pending : /\ pending[i] \in Request /\ i # 0
                                      /\ pending[i].channel \in Channels
                                      /\ pending[i].call \in Calls \cup {NoCall}
<1>1. pending \in Seq(Request)
  BY Zenon DEF TypeOK
<1>2. Len(pending) \in Nat /\ DOMAIN pending = 1..Len(pending)
  BY <1>1, SeqParts, Zenon
<1>3. \A i \in DOMAIN pending : pending[i] \in Request /\ i # 0
  BY <1>1, <1>2, SeqParts
<1>4. \A r \in Request : r.channel \in Channels /\ r.call \in Calls \cup {NoCall}
  BY DEF Request
<1> QED BY <1>2, <1>3, <1>4, Zenon

\* An item is a place with a waiter, or place 0 for a channel without one.
LEMMA ItemParts ==
  ASSUME TypeOK, NEW x \in Items
  PROVE  /\ x.channel \in channels /\ x = [channel |-> x.channel, place |-> x.place]
         /\ \/ x.place = 0 /\ Waiting(x.channel) = {}
            \/ x.place \in Waiting(x.channel)
<1>1. PICK ch \in channels : x \in Requeued(ch)
  BY Zenon DEF Items
<1>2. PICK i \in IF Waiting(ch) = {} THEN {0} ELSE Waiting(ch) : x = [channel |-> ch, place |-> i]
  BY <1>1, Zenon DEF Requeued
<1>3. x.channel = ch /\ x.place = i
  BY <1>2
<1> QED BY <1>2, <1>3, Zenon

\* Every channel and every place with a waiter on one has its item.
LEMMA ItemsCover ==
  /\ \A ch \in channels : \E x \in Items : x.channel = ch
  /\ \A ch \in channels : \A i \in Waiting(ch) : [channel |-> ch, place |-> i] \in Items
<1>1. ASSUME NEW ch \in channels, NEW i \in Waiting(ch)
      PROVE  [channel |-> ch, place |-> i] \in Items
  <2>1. i \in IF Waiting(ch) = {} THEN {0} ELSE Waiting(ch)
    BY <1>1, Zenon
  <2>2. [channel |-> ch, place |-> i] \in Requeued(ch)
    BY <2>1, Zenon DEF Requeued
  <2> QED BY <1>1, <2>2, Zenon DEF Items
<1>2. ASSUME NEW ch \in channels PROVE \E x \in Items : x.channel = ch
  <2>1. PICK i : i \in IF Waiting(ch) = {} THEN {0} ELSE Waiting(ch)
    BY Zenon
  <2>2. [channel |-> ch, place |-> i] \in Requeued(ch)
    BY <2>1, Zenon DEF Requeued
  <2>3. [channel |-> ch, place |-> i] \in Items
    BY <1>2, <2>2, Zenon DEF Items
  <2>4. [channel |-> ch, place |-> i].channel = ch
    OBVIOUS
  <2> QED BY <2>3, <2>4, Zenon
<1> QED BY <1>1, <1>2, Zenon

\* rebuildPendingForReconnect loses no channel and no waiter, and doubles none.
LEMMA Rebuilt ==
  ASSUME TypeOK, Cardinality(Items) \in Nat, Reconnected
  PROVE  /\ pending' \in Seq(Request)
         /\ \A ch \in channels : \E i \in DOMAIN pending' : pending'[i].channel = ch
         /\ OnePerCall(pending) => OnePerCall(pending')
         /\ \A c \in Calls : Asks(pending', c) <=>
               \E i \in DOMAIN pending : pending[i].call = c /\ pending[i].channel \in channels
<1> DEFINE n == Cardinality(Items)
<1>1. PICK order \in Bijection(1..n, Items) : pending' = [i \in 1..n |-> RequestOf(order[i])]
  BY Zenon DEF Reconnected, Items
<1>2. n \in Nat
  BY Zenon
<1> HIDE DEF n
<1>3. /\ \A i \in 1..n : order[i] \in Items
      /\ \A i, j \in 1..n : order[i] = order[j] => i = j
      /\ \A x \in Items : \E i \in 1..n : order[i] = x
  BY DEF Bijection, Injection, Surjection, IsInjective
<1>4. ASSUME NEW x \in Items
      PROVE  /\ RequestOf(x) \in Request /\ RequestOf(x).channel = x.channel
             /\ \/ RequestOf(x).call = NoCall
                \/ /\ x.place \in DOMAIN pending /\ RequestOf(x) = pending[x.place]
                   /\ RequestOf(x).call # NoCall
  <2>1. x.channel \in channels /\ x.channel \in Channels
    BY ItemParts, Zenon DEF TypeOK
  <2>2. CASE x.place = 0
    <3>1. RequestOf(x) = [channel |-> x.channel, call |-> NoCall]
      BY <2>2, Zenon DEF RequestOf
    <3> QED BY <2>1, <3>1 DEF Request
  <2>3. CASE x.place # 0
    <3>1. x.place \in Waiting(x.channel) /\ RequestOf(x) = pending[x.place]
      BY <2>3, ItemParts, Zenon DEF RequestOf
    <3> QED BY <3>1, PendingTyped, Zenon DEF Waiting
  <2> QED BY <2>2, <2>3, Zenon
<1>5. DOMAIN pending' = 1..n /\ \A i \in 1..n : pending'[i] = RequestOf(order[i])
  BY <1>1
<1>6. pending' \in Seq(Request)
  <2>1. pending' \in [1..n -> Request]
    BY <1>1, <1>3, <1>4
  <2> QED BY <1>2, <2>1, SeqOf
<1>7. ASSUME NEW ch \in channels PROVE \E i \in DOMAIN pending' : pending'[i].channel = ch
  <2>1. PICK x \in Items : x.channel = ch
    BY <1>7, ItemsCover, Zenon
  <2>2. PICK i \in 1..n : order[i] = x
    BY <1>3, Zenon
  <2>3. RequestOf(x).channel = ch
    BY <1>4, <2>1, Zenon
  <2> QED BY <1>5, <2>2, <2>3, Zenon
<1>8. ASSUME OnePerCall(pending) PROVE OnePerCall(pending')
  <2> SUFFICES ASSUME NEW i \in 1..n, NEW j \in 1..n,
                      pending'[i].call = pending'[j].call, pending'[i].call # NoCall
               PROVE  i = j
    BY <1>5, Zenon DEF OnePerCall
  <2>1. /\ order[i].place \in DOMAIN pending /\ pending'[i] = pending[order[i].place]
        /\ order[j].place \in DOMAIN pending /\ pending'[j] = pending[order[j].place]
    BY <1>3, <1>4, <1>5, Zenon
  <2>2. order[i].place = order[j].place
    BY <1>8, <2>1, Zenon DEF OnePerCall
  <2>3. order[i] \in Items /\ order[j] \in Items
    BY <1>3, Zenon
  <2>4. pending'[i].channel = order[i].channel /\ pending'[j].channel = order[j].channel
    BY <1>4, <1>5, <2>3, Zenon
  <2>5. order[i].channel = order[j].channel
    BY <2>1, <2>2, <2>4, Zenon
  <2>6. /\ order[i] = [channel |-> order[i].channel, place |-> order[i].place]
        /\ order[j] = [channel |-> order[j].channel, place |-> order[j].place]
    BY <2>3, ItemParts, Zenon
  <2>7. order[i] = order[j]
    BY <2>2, <2>5, <2>6
  <2> QED BY <1>3, <2>7, Zenon
<1>9. ASSUME NEW c \in Calls, Asks(pending', c)
      PROVE  \E i \in DOMAIN pending : pending[i].call = c /\ pending[i].channel \in channels
  <2>1. PICK i \in 1..n : RequestOf(order[i]).call = c
    BY <1>5, <1>9, Zenon DEF Asks
  <2>2. RequestOf(order[i]).call # NoCall
    BY <2>1, ListenerAssumption, Zenon
  <2>3. /\ order[i].place \in DOMAIN pending /\ RequestOf(order[i]) = pending[order[i].place]
        /\ pending[order[i].place].channel = order[i].channel
    BY <1>3, <1>4, <2>2, Zenon
  <2>4. order[i].channel \in channels
    BY <1>3, ItemParts, Zenon
  <2> QED BY <2>1, <2>3, <2>4, Zenon
<1>10. ASSUME NEW c \in Calls, NEW i \in DOMAIN pending, pending[i].call = c,
              pending[i].channel \in channels
       PROVE  Asks(pending', c)
  <2> DEFINE x == [channel |-> pending[i].channel, place |-> i]
  <2>1. i \in Waiting(pending[i].channel) /\ i # 0
    BY <1>10, ListenerAssumption, PendingTyped, Zenon DEF Waiting
  <2>2. x \in Items
    BY <1>10, <2>1, ItemsCover, Zenon
  <2>3. x.place = i
    OBVIOUS
  <2>4. RequestOf(x) = pending[i]
    BY <2>1, <2>3, Zenon DEF RequestOf
  <2> HIDE DEF x
  <2>5. PICK k \in 1..n : order[k] = x
    BY <1>3, <2>2, Zenon
  <2> QED BY <1>5, <1>10, <2>4, <2>5, Zenon DEF Asks
<1> QED BY <1>6, <1>7, <1>8, <1>9, <1>10, Zenon

-----------------------------------------------------------------------------
(* The steps, by what they do to the queues and the calls *)

\* Nothing the invariants speak about: Close, the network, the reader, no step at all.
Idles == UNCHANGED <<queues, loop, taken, nudges, subs, call, uncall, ghosts>>

\* The loop goes from one place to another with nothing in its hands.
Moves ==
  /\ loop \notin {"exited", "drain"} /\ loop' \in {"top", "deliver", "reconnect", "exited"}
  /\ UNCHANGED <<queues, taken, interruptPending, call, uncall, ghosts>>
  /\ canceled' = canceled \/ canceled' = FALSE
  /\ subs' = subs \/ (subs' = {} /\ loop' \in {"reconnect", "exited"})
  /\ loop = "reconnect" => loop' = "exited"

\* LeaveWait, whichever way the loop goes, moves the loop only.
LEMMA LeavingMoves ==
  ASSUME NEW next, loop = "wait", LeaveWait(next)
  PROVE  Moves
<1>1. \/ loop' = "exited" /\ subs' = {}
      \/ loop' = "reconnect" /\ subs' = {}
      \/ loop' = "top" /\ subs' = subs
  BY Zenon DEF LeaveWait, Exit, closeConn
<1>2. UNCHANGED <<queues, taken, interruptPending, call, uncall, ghosts>> /\ canceled' = FALSE
  BY Zenon DEF LeaveWait, calls
<1>3. loop' \in {"top", "deliver", "reconnect", "exited"}
  BY <1>1, Zenon
<1>4. loop' # "top" => loop' \in {"reconnect", "exited"}
  BY <1>1, Zenon
<1>5. loop \notin {"exited", "drain"} /\ loop # "reconnect"
  OBVIOUS
<1>6. subs' = subs \/ (subs' = {} /\ loop' \in {"reconnect", "exited"})
  BY <1>1, Zenon
<1> QED BY <1>2, <1>3, <1>5, <1>6, Zenon DEF Moves

\* Every step is one of these.
LEMMA StepCases ==
  ASSUME [Next]_vars
  PROVE  \/ Idles \/ Moves
         \/ \E c \in Calls : \/ Listen(c) \/ ListenNudges(c)
                             \/ ListenReturns(c) \/ ListenCanceled(c)
         \/ \E u \in Unlistens : UnlistenNudges(u) \/ \E ch \in Channels : Unlisten(u, ch)
         \/ CloseNudges \/ TakeQueued \/ IssueListen \/ ListenFails
         \/ IssueUnlisten \/ BeginWait \/ Reconnected
<1>1. CASE Close \/ ConnectionLost \/ Read \/ StopReading \/ UNCHANGED vars
  BY <1>1, Zenon DEF Close, ConnectionLost, Read, StopReading, Idles, vars, calls, server
<1>2. CASE ExitAtTop
  <2>1. loop' = "exited" /\ subs' = {} /\ loop = "top"
    BY <1>2, Zenon DEF ExitAtTop, Exit, closeConn
  <2>2. UNCHANGED <<queues, taken, nudges, call, uncall, ghosts>>
    BY <1>2, Zenon DEF ExitAtTop, calls
  <2> QED BY <2>1, <2>2 DEF Moves, nudges
<1>3. CASE DeliverBlocked
  <2>1. loop' = "exited" /\ subs' = {} /\ loop = "deliver"
    BY <1>3, Zenon DEF DeliverBlocked, Exit, closeConn
  <2>2. UNCHANGED <<queues, taken, nudges, call, uncall, ghosts>>
    BY <1>3, Zenon DEF DeliverBlocked, calls
  <2> QED BY <2>1, <2>2 DEF Moves, nudges
<1>4. CASE ReconnectAborted
  <2>1. loop' = "exited" /\ subs' = {} /\ loop = "reconnect"
    BY <1>4, Zenon DEF ReconnectAborted, Exit, closeConn
  <2>2. UNCHANGED <<queues, taken, nudges, call, uncall, ghosts>>
    BY <1>4, Zenon DEF ReconnectAborted, calls
  <2> QED BY <2>1, <2>2 DEF Moves, nudges
<1>5. CASE deliverNotification
  <2>1. loop' = "top" /\ loop = "deliver"
    BY <1>5, Zenon DEF deliverNotification
  <2>2. UNCHANGED <<queues, taken, nudges, subs, call, uncall, ghosts>>
    BY <1>5, Zenon DEF deliverNotification, calls, server
  <2> QED BY <2>1, <2>2 DEF Moves, nudges
<1>6. CASE WaitNotified
  <2>1. loop = "wait" /\ \/ loop' = "exited" /\ subs' = {}
                         \/ loop' = "deliver" /\ subs' = subs
    BY <1>6, Zenon DEF WaitNotified, Exit, closeConn
  <2>2. UNCHANGED <<queues, taken, interruptPending, call, uncall, ghosts>> /\ canceled' = FALSE
    BY <1>6, Zenon DEF WaitNotified, calls
  <2> QED BY <2>1, <2>2 DEF Moves
<1>7. CASE WaitCanceled \/ WaitFails \/ keepaliveProbe
  BY <1>7, LeavingMoves, Zenon DEF WaitCanceled, WaitFails, keepaliveProbe
<1> QED BY <1>1, <1>2, <1>3, <1>4, <1>5, <1>6, <1>7, ZenonT(30) DEF Next, Nudging, RunLoop

-----------------------------------------------------------------------------
(* Types *)

Answer == {"none", "nil", "error"}
CallRecord == [pc: {"never", "idle", "nudge", "wait"} \cup Answers, channel: Channels, done: Answer]

\* A call is queued under its channel and itself, taken requests are requests.
LEMMA QueueTypes ==
  ASSUME TypeOK, Cardinality(Items) \in Nat, [Next]_vars
  PROVE  /\ channels' \subseteq Channels /\ confirmed' \subseteq Channels
         /\ pending' \in Seq(Request) /\ batch' \in Seq(Request)
         /\ unpending' \in Seq(Channels) /\ unbatch' \in Seq(Channels)
         /\ subs' \subseteq Channels /\ wanted' \subseteq Channels
         /\ unlistened' \subseteq Channels
<1> DEFINE Goal ==
         /\ channels' \subseteq Channels /\ confirmed' \subseteq Channels
         /\ pending' \in Seq(Request) /\ batch' \in Seq(Request)
         /\ unpending' \in Seq(Channels) /\ unbatch' \in Seq(Channels)
         /\ subs' \subseteq Channels /\ wanted' \subseteq Channels
         /\ unlistened' \subseteq Channels
<1>0. /\ channels \subseteq Channels /\ confirmed \subseteq Channels
      /\ pending \in Seq(Request) /\ batch \in Seq(Request)
      /\ unpending \in Seq(Channels) /\ unbatch \in Seq(Channels)
      /\ subs \subseteq Channels /\ wanted \subseteq Channels /\ unlistened \subseteq Channels
      /\ \A c \in Calls : call[c].channel \in Channels
  <2>1. \A c \in Calls : call[c] \in CallRecord
    BY Zenon DEF TypeOK, CallRecord, Answer
  <2>2. \A r \in CallRecord : r.channel \in Channels
    BY DEF CallRecord
  <2> QED BY <2>1, <2>2, Zenon DEF TypeOK
<1>1. CASE Idles \/ CloseNudges \/ BeginWait
  BY <1>0, <1>1, Zenon DEF Idles, CloseNudges, BeginWait, queues, taken, ghosts, server
<1>2. CASE Moves
  BY <1>0, <1>2, Zenon DEF Moves, queues, taken, ghosts
<1>3. ASSUME NEW c \in Calls, ListenNudges(c) \/ ListenReturns(c) \/ ListenCanceled(c) PROVE Goal
  BY <1>0, <1>3, Zenon DEF ListenNudges, ListenReturns, ListenCanceled, queues, taken, ghosts, server
<1>4. ASSUME NEW c \in Calls, Listen(c) PROVE Goal
  <2>1. [channel |-> call[c].channel, call |-> c] \in Request
    BY <1>0 DEF Request
  <2>2. Append(pending, [channel |-> call[c].channel, call |-> c]) \in Seq(Request)
    BY <1>0, <2>1, AppendParts, Zenon
  <2>3. UNCHANGED <<batch, unbatch, subs>>
    BY <1>4, Zenon DEF Listen, taken, server
  <2>4. /\ pending' = pending \/ pending' = Append(pending, [channel |-> call[c].channel, call |-> c])
        /\ channels' = channels \/ channels' = channels \cup {call[c].channel}
        /\ wanted' = wanted \/ wanted' = wanted \cup {call[c].channel}
        /\ UNCHANGED <<confirmed, unpending, unlistened>>
    BY <1>4, Zenon DEF Listen, ListenClosed, ListenConfirmed, ListenQueued, queues, ghosts
  <2> QED BY <1>0, <2>2, <2>3, <2>4, Zenon
<1>5. ASSUME NEW u \in Unlistens, NEW ch \in Channels, Unlisten(u, ch) PROVE Goal
  <2>1. UNCHANGED <<batch, unbatch, subs, pending>>
    BY <1>5, Zenon DEF Unlisten, taken, server, queues
  <2>2. /\ unpending' = unpending \/ unpending' = Append(unpending, ch)
        /\ channels' = channels \/ channels' = channels \ {ch}
        /\ confirmed' = confirmed \/ confirmed' = confirmed \ {ch}
        /\ wanted' = wanted \/ wanted' = wanted \ {ch}
        /\ unlistened' = unlistened \/ unlistened' = unlistened \cup {ch}
    BY <1>5, Zenon DEF Unlisten, queues, ghosts
  <2>3. Append(unpending, ch) \in Seq(Channels)
    BY <1>0, <1>5, AppendParts, Zenon
  <2> QED BY <1>0, <1>5, <2>1, <2>2, <2>3, Zenon
<1>6. ASSUME NEW u \in Unlistens, UnlistenNudges(u) PROVE Goal
  BY <1>0, <1>6, Zenon DEF UnlistenNudges, queues, taken, ghosts, server
<1>7. CASE TakeQueued
  <2>1. <<>> \in Seq(Request) /\ <<>> \in Seq(Channels)
    OBVIOUS
  <2> QED BY <1>0, <1>7, <2>1, Zenon DEF TakeQueued, ghosts, server
<1>8. CASE IssueListen \/ ListenFails
  <2>1. batch # <<>>
    BY <1>8, Zenon DEF IssueListen, ListenFails
  <2>2. Head(batch) \in Request /\ Tail(batch) \in Seq(Request)
    BY <1>0, <2>1, TailParts, Zenon
  <2>3. Head(batch).channel \in Channels
    BY <2>2 DEF Request
  <2>4. /\ Tail(batch) \o pending \in Seq(Request)
        /\ <<>> \in Seq(Request) /\ <<>> \in Seq(Channels)
    BY <1>0, <2>2, ConcatParts
  <2>5. CASE IssueListen
    BY <1>0, <2>2, <2>3, <2>5, Zenon DEF IssueListen, ghosts
  <2>6. CASE ListenFails
    BY <1>0, <2>4, <2>6, Zenon DEF ListenFails, ghosts, closeConn
  <2> QED BY <1>8, <2>5, <2>6, Zenon
<1>9. CASE IssueUnlisten
  <2>1. Tail(unbatch) \in Seq(Channels)
    BY <1>0, <1>9, TailParts, Zenon DEF IssueUnlisten
  <2>2. subs' \subseteq subs
    BY <1>9, Zenon DEF IssueUnlisten
  <2> QED BY <1>0, <1>9, <2>1, <2>2, Zenon DEF IssueUnlisten, queues, ghosts
<1>10. CASE Reconnected
  <2>1. <<>> \in Seq(Channels)
    OBVIOUS
  <2> QED BY <1>0, <1>10, <2>1, Rebuilt, Zenon DEF Reconnected, taken, ghosts
<1> QED
  BY StepCases, <1>1, <1>2, <1>3, <1>4, <1>5, <1>6, <1>7, <1>8, <1>9, <1>10, Zenon

\* listenReq.signal sets the answer of the calls it is for, and nothing else.
LEMMA SignalEffect ==
  ASSUME call \in [Calls -> CallRecord], NEW reqs, NEW result \in {"nil", "error"},
         call' = Signalled(reqs, result)
  PROVE  /\ call' \in [Calls -> CallRecord]
         /\ \A c \in Calls :
               /\ call'[c].pc = call[c].pc
               /\ (\E r \in reqs : r.call = c) => call'[c].done = result
               /\ ~(\E r \in reqs : r.call = c) => call'[c] = call[c]
<1>1. \A c \in Calls : call[c] \in CallRecord
  BY Zenon
<1>2. ASSUME NEW x \in CallRecord
      PROVE  /\ [x EXCEPT !.done = result] \in CallRecord
             /\ [x EXCEPT !.done = result].pc = x.pc
             /\ [x EXCEPT !.done = result].done = result
  BY DEF CallRecord, Answer
<1>3. \A c \in Calls :
         /\ (\E r \in reqs : r.call = c) => call'[c] = [call[c] EXCEPT !.done = result]
         /\ ~(\E r \in reqs : r.call = c) => call'[c] = call[c]
  BY Zenon DEF Signalled
<1>4. ASSUME NEW c \in Calls PROVE call'[c] \in CallRecord
  <2>1. call[c] \in CallRecord /\ [call[c] EXCEPT !.done = result] \in CallRecord
    BY <1>1, <1>2, Zenon
  <2> QED BY <1>3, <2>1, Zenon
<1>5. call' = [c \in Calls |-> call'[c]]
  BY Zenon DEF Signalled
<1>6. call' \in [Calls -> CallRecord]
  BY <1>4, <1>5
<1>7. ASSUME NEW c \in Calls, \E r \in reqs : r.call = c
      PROVE  call'[c].pc = call[c].pc /\ call'[c].done = result
  <2>1. call'[c] = [call[c] EXCEPT !.done = result] /\ call[c] \in CallRecord
    BY <1>1, <1>3, <1>7, Zenon
  <2> QED BY <1>2, <2>1, Zenon
<1>8. ASSUME NEW c \in Calls, ~(\E r \in reqs : r.call = c)
      PROVE  call'[c] = call[c] /\ call'[c].pc = call[c].pc
  <2>1. call'[c] = call[c]
    BY <1>3, <1>8, Zenon
  <2> QED BY <2>1, Zenon
<1> QED BY <1>6, <1>7, <1>8, Zenon

\* A step of Listen changes its own call, and only where it is.
LEMMA CallEffect ==
  ASSUME call \in [Calls -> CallRecord], NEW c \in Calls,
         NEW p \in {"never", "idle", "nudge", "wait"} \cup Answers,
         call' = [call EXCEPT ![c].pc = p]
  PROVE  /\ call' \in [Calls -> CallRecord]
         /\ call'[c].pc = p /\ call'[c].done = call[c].done
         /\ \A b \in Calls : b # c => call'[b] = call[b]
  BY DEF CallRecord

\* ListenReturns also takes the answer out of the call's done channel.
LEMMA ReturnEffect ==
  ASSUME call \in [Calls -> CallRecord], NEW c \in Calls, call[c].done # "none",
         call' = [call EXCEPT ![c].pc = call[c].done, ![c].done = "none"]
  PROVE  /\ call' \in [Calls -> CallRecord]
         /\ call'[c].pc \in Answers /\ call'[c].done = "none"
         /\ \A b \in Calls : b # c => call'[b] = call[b]
<1>1. call[c].done \in Answers
  BY DEF CallRecord, Answer, Answers
<1> QED BY <1>1 DEF CallRecord, Answer, Answers

\* Which of these a step takes.
LEMMA CallTypes ==
  ASSUME TypeOK, [Next]_vars
  PROVE  call' \in [Calls -> CallRecord]
<1>0. call \in [Calls -> CallRecord]
  BY Zenon DEF TypeOK, CallRecord, Answer
<1>1. CASE UNCHANGED call
  BY <1>0, <1>1
<1>2. CASE \E reqs : \E result \in {"nil", "error"} : call' = Signalled(reqs, result)
  BY <1>0, <1>2, SignalEffect, Zenon
<1>3. CASE \E c \in Calls : \E p \in {"never", "idle", "nudge", "wait"} \cup Answers :
              call' = [call EXCEPT ![c].pc = p]
  BY <1>0, <1>3, CallEffect, Zenon
<1>4. CASE \E c \in Calls : /\ call[c].done # "none"
                            /\ call' = [call EXCEPT ![c].pc = call[c].done, ![c].done = "none"]
  BY <1>0, <1>4, ReturnEffect, Zenon
<1>5. Idles \/ Moves \/ CloseNudges \/ TakeQueued \/ IssueUnlisten \/ BeginWait => UNCHANGED call
  BY Zenon DEF Idles, Moves, CloseNudges, TakeQueued, IssueUnlisten, BeginWait, calls
<1>6. \A u \in Unlistens : UnlistenNudges(u) => UNCHANGED call
  BY Zenon DEF UnlistenNudges
<1>7. \A u \in Unlistens, ch \in Channels : Unlisten(u, ch) => UNCHANGED call
  BY Zenon DEF Unlisten
<1>8. IssueListen \/ ListenFails \/ Reconnected
         => \E reqs : \E result \in {"nil", "error"} : call' = Signalled(reqs, result)
  BY Zenon DEF IssueListen, ListenFails, Reconnected
<1>9. ASSUME NEW c \in Calls,
             Listen(c) \/ ListenNudges(c) \/ ListenCanceled(c) \/ ListenReturns(c)
      PROVE  \/ UNCHANGED call
             \/ \E p \in {"never", "idle", "nudge", "wait"} \cup Answers :
                   call' = [call EXCEPT ![c].pc = p]
             \/ /\ call[c].done # "none"
                /\ call' = [call EXCEPT ![c].pc = call[c].done, ![c].done = "none"]
  BY <1>9, Zenon DEF Listen, ListenClosed, ListenConfirmed, ListenQueued, ListenNudges,
     ListenCanceled, ListenReturns, Answers
<1> QED BY StepCases, <1>1, <1>2, <1>3, <1>4, <1>5, <1>6, <1>7, <1>8, <1>9, Zenon

\* The flags, the loop's place, the connection, the stream and the other calls.
LEMMA RestTypes ==
  ASSUME TypeOK, [Next]_vars
  PROVE  /\ closed' \in BOOLEAN /\ interruptPending' \in BOOLEAN /\ canceled' \in BOOLEAN
         /\ loop' \in {"top", "drain", "wait", "deliver", "reconnect", "exited"}
         /\ link' \in {"up", "dead", "none"}
         /\ notifs' \in 0..BufferCap /\ reading' \in {"yes", "maybe", "no"}
         /\ uncall' \in [Unlistens -> {"never", "idle", "nudge", "returned"}]
         /\ closing' \in {"never", "idle", "nudge", "returned"}
<1>0. /\ closed \in BOOLEAN /\ interruptPending \in BOOLEAN /\ canceled \in BOOLEAN
      /\ loop \in {"top", "drain", "wait", "deliver", "reconnect", "exited"}
      /\ link \in {"up", "dead", "none"}
      /\ notifs \in 0..BufferCap /\ reading \in {"yes", "maybe", "no"}
      /\ uncall \in [Unlistens -> {"never", "idle", "nudge", "returned"}]
      /\ closing \in {"never", "idle", "nudge", "returned"}
  BY Zenon DEF TypeOK
<1>1. notifs' \in 0..BufferCap
  <2>1. UNCHANGED notifs \/ deliverNotification \/ Read
    BY Zenon DEF Next, Nudging, RunLoop, vars, stream, Listen, ListenReturns, ListenCanceled, Unlisten,
       Close, ListenNudges, UnlistenNudges, CloseNudges, TakeQueued, ExitAtTop, IssueListen,
       ListenFails, IssueUnlisten, BeginWait, WaitCanceled, keepaliveProbe, WaitNotified,
       DeliverBlocked, Reconnected, ReconnectAborted, WaitFails, LeaveWait, ConnectionLost, StopReading
  <2> QED BY <1>0, <2>1, ListenerAssumption DEF deliverNotification, Read
<1>2. uncall' \in [Unlistens -> {"never", "idle", "nudge", "returned"}]
  <2>1. \/ UNCHANGED uncall
        \/ \E u \in Unlistens : \E p \in {"nudge", "returned"} : uncall' = [uncall EXCEPT ![u] = p]
    BY Zenon DEF Next, Nudging, RunLoop, vars, calls, Listen, ListenReturns, ListenCanceled, Unlisten,
       Close, ListenNudges, UnlistenNudges, CloseNudges, TakeQueued, ExitAtTop, IssueListen,
       ListenFails, IssueUnlisten, BeginWait, WaitCanceled, keepaliveProbe, WaitNotified,
       DeliverBlocked, deliverNotification, Reconnected, ReconnectAborted, WaitFails, LeaveWait,
       ConnectionLost, Read, StopReading
  <2> QED BY <1>0, <2>1
<1>3. closed' \in BOOLEAN /\ closing' \in {"never", "idle", "nudge", "returned"}
  <2>1. /\ closed' = closed \/ closed' = TRUE
        /\ closing' = closing \/ closing' \in {"nudge", "returned"}
    BY Zenon DEF Next, Nudging, RunLoop, vars, calls, Listen, ListenReturns, ListenCanceled, Unlisten,
       Close, ListenNudges, UnlistenNudges, CloseNudges, TakeQueued, ExitAtTop, IssueListen,
       ListenFails, IssueUnlisten, BeginWait, WaitCanceled, keepaliveProbe, WaitNotified,
       DeliverBlocked, deliverNotification, Reconnected, ReconnectAborted, WaitFails, LeaveWait,
       ConnectionLost, Read, StopReading
  <2> QED BY <1>0, <2>1, Zenon
<1>4. link' \in {"up", "dead", "none"} /\ reading' \in {"yes", "maybe", "no"}
  <2>1. /\ link' = link \/ link' \in {"up", "dead", "none"}
        /\ reading' = reading \/ reading' = "no"
    BY Zenon DEF Next, Nudging, RunLoop, vars, calls, Listen, ListenReturns, ListenCanceled, Unlisten,
       Close, ListenNudges, UnlistenNudges, CloseNudges, TakeQueued, ExitAtTop, IssueListen,
       ListenFails, IssueUnlisten, BeginWait, WaitCanceled, keepaliveProbe, WaitNotified,
       DeliverBlocked, deliverNotification, Reconnected, ReconnectAborted, WaitFails, LeaveWait,
       ConnectionLost, Read, StopReading, server, stream, Exit, closeConn
  <2> QED BY <1>0, <2>1, Zenon
<1>5. /\ interruptPending' \in BOOLEAN /\ canceled' \in BOOLEAN
      /\ loop' \in {"top", "drain", "wait", "deliver", "reconnect", "exited"}
  <2>1. Idles => UNCHANGED <<loop, interruptPending, canceled>>
    BY Zenon DEF Idles, nudges
  <2>2. /\ interruptPending' = interruptPending \/ interruptPending' \in BOOLEAN
        /\ \/ canceled' = canceled \/ canceled' = FALSE
           \/ canceled' = (canceled \/ loop = "wait")
        /\ loop' = loop \/ loop' \in {"top", "drain", "wait", "deliver", "reconnect", "exited"}
    BY <2>1, StepCases, Zenon DEF Moves, Listen, ListenNudges, ListenReturns, ListenCanceled, Unlisten,
       UnlistenNudges, CloseNudges, TakeQueued, IssueListen, ListenFails, IssueUnlisten, BeginWait,
       Reconnected, nudges, requestInterrupt
  <2> QED BY <1>0, <2>2, Zenon
<1> QED BY <1>1, <1>2, <1>3, <1>4, <1>5, Zenon

\* Types, all of them.
LEMMA TypeStep ==
  ASSUME TypeOK, Cardinality(Items) \in Nat, [Next]_vars
  PROVE  TypeOK'
  BY QueueTypes, CallTypes, RestTypes, Zenon DEF TypeOK, CallRecord, Answer

\* Calls have a place, a channel and an answer.
LEMMA CallTyped ==
  ASSUME TypeOK
  PROVE  call \in [Calls -> CallRecord]
  BY Zenon DEF TypeOK, CallRecord, Answer

-----------------------------------------------------------------------------
(* No missed nudge *)

Work == pending # <<>> \/ unpending # <<>>

Nudger == (\E c \in Calls : call[c].pc = "nudge") \/ (\E u \in Unlistens : uncall[u] = "nudge")

\* Whoever queued behind the loop's back is about to interrupt it, or did: the interrupt
\* is remembered until the wait, and has cancelled the wait from then on.
NudgeInv ==
  /\ loop = "drain" /\ Work => Nudger \/ interruptPending
  /\ loop = "wait" /\ Work => Nudger \/ canceled

\* Who is about to interrupt goes on to do so.
LEMMA NudgerStays ==
  ASSUME call' = call \/ \A c \in Calls : call'[c].pc = call[c].pc, uncall' = uncall, Nudger
  PROVE  Nudger'
  BY Zenon DEF Nudger

\* A caller that is not about to interrupt may move.
LEMMA NudgerOther ==
  ASSUME NEW c \in Calls, call[c].pc # "nudge",
         \A b \in Calls : b # c => call'[b] = call[b], uncall' = uncall, Nudger
  PROVE  Nudger'
  BY Zenon DEF Nudger

\* requestInterrupt, from whomever, leaves the loop interrupted.
LEMMA NudgedStep ==
  ASSUME requestInterrupt, UNCHANGED loop
  PROVE  NudgeInv'
  BY Zenon DEF requestInterrupt, NudgeInv

\* No step of the loop or of a call puts the loop to sleep on queued work.
LEMMA NudgeStep ==
  ASSUME TypeOK, NudgeInv, [Next]_vars
  PROVE  NudgeInv'
<1>0. call \in [Calls -> CallRecord]
  BY CallTyped, Zenon
<1>1. CASE Idles
  BY <1>1, Zenon DEF Idles, NudgeInv, Work, Nudger, queues, nudges
<1>2. CASE Moves
  BY <1>2, Zenon DEF Moves, NudgeInv
<1>3. ASSUME NEW c \in Calls, Listen(c) PROVE NudgeInv'
  <2>0. UNCHANGED <<loop, interruptPending, canceled, uncall>>
    BY <1>3, Zenon DEF Listen, nudges
  <2>1. CASE ListenQueued(c)
    <3>1. call'[c].pc = "nudge"
      BY <1>0, <2>1, CallEffect, Zenon DEF ListenQueued
    <3> QED BY <3>1, Zenon DEF NudgeInv, Nudger
  <2>2. CASE ListenClosed(c) \/ ListenConfirmed(c)
    <3>1. UNCHANGED <<pending, unpending>> /\ call[c].pc = "idle"
      BY <2>2, Zenon DEF ListenClosed, ListenConfirmed, queues
    <3>2. \A b \in Calls : b # c => call'[b] = call[b]
      BY <1>0, <2>2, CallEffect, Zenon DEF ListenClosed, ListenConfirmed, Answers
    <3>3. call[c].pc # "nudge"
      BY <3>1
    <3>4. Nudger => Nudger'
      BY <2>0, <3>2, <3>3, NudgerOther, Zenon
    <3> QED BY <2>0, <3>1, <3>4, Zenon DEF NudgeInv, Work
  <2> QED BY <1>3, <2>1, <2>2, Zenon DEF Listen
<1>4. ASSUME NEW c \in Calls, ListenReturns(c) \/ ListenCanceled(c) PROVE NudgeInv'
  <2>1. /\ call[c].pc = "wait"
        /\ UNCHANGED <<pending, unpending, loop, interruptPending, canceled, uncall>>
    BY <1>4, Zenon DEF ListenReturns, ListenCanceled, queues, nudges
  <2>2. \A b \in Calls : b # c => call'[b] = call[b]
    BY <1>0, <1>4, CallEffect, ReturnEffect, Zenon DEF ListenReturns, ListenCanceled, Answers
  <2>3. call[c].pc # "nudge"
    BY <2>1
  <2>4. Nudger => Nudger'
    BY <2>1, <2>2, <2>3, NudgerOther, Zenon
  <2> QED BY <2>1, <2>4, Zenon DEF NudgeInv, Work
<1>5. ASSUME NEW c \in Calls, ListenNudges(c) PROVE NudgeInv'
  BY <1>5, NudgedStep, Zenon DEF ListenNudges
<1>6. ASSUME NEW u \in Unlistens, UnlistenNudges(u) PROVE NudgeInv'
  BY <1>6, NudgedStep, Zenon DEF UnlistenNudges
<1>7. CASE CloseNudges
  BY <1>7, NudgedStep, Zenon DEF CloseNudges
<1>8. ASSUME NEW u \in Unlistens, NEW ch \in Channels, Unlisten(u, ch) PROVE NudgeInv'
  <2>0. /\ UNCHANGED <<loop, interruptPending, canceled, call, pending>>
        /\ uncall[u] = "idle" /\ uncall \in [Unlistens -> {"never", "idle", "nudge", "returned"}]
    BY <1>8, Zenon DEF Unlisten, nudges, queues, TypeOK
  <2>1. CASE uncall' = [uncall EXCEPT ![u] = "nudge"]
    <3>1. uncall'[u] = "nudge"
      BY <2>0, <2>1, Zenon
    <3> QED BY <3>1, Zenon DEF NudgeInv, Nudger
  <2>2. CASE uncall' = [uncall EXCEPT ![u] = "returned"] /\ UNCHANGED unpending
    <3>1. \A v \in Unlistens : uncall[v] = "nudge" => uncall'[v] = "nudge"
      BY <2>0, <2>2
    <3>2. Nudger => Nudger'
      BY <2>0, <3>1, Zenon DEF Nudger
    <3> QED BY <2>0, <2>2, <3>2, Zenon DEF NudgeInv, Work
  <2> QED BY <1>8, <2>1, <2>2, Zenon DEF Unlisten, queues
<1>9. CASE TakeQueued
  <2>1. loop' = "drain" /\ pending' = <<>> /\ unpending' = <<>>
    BY <1>9, Zenon DEF TakeQueued
  <2>2. ~Work' /\ loop' # "wait"
    BY <2>1 DEF Work
  <2> QED BY <2>2, Zenon DEF NudgeInv
<1>10. CASE IssueListen
  <2>1. \A c \in Calls : call'[c].pc = call[c].pc
    BY <1>0, <1>10, SignalEffect, Zenon DEF IssueListen
  <2>2. UNCHANGED <<pending, unpending, loop, interruptPending, canceled, uncall>>
    BY <1>10, Zenon DEF IssueListen, nudges
  <2>3. Nudger => Nudger'
    BY <2>1, <2>2, NudgerStays, Zenon
  <2> QED BY <2>2, <2>3, Zenon DEF NudgeInv, Work
<1>11. CASE ListenFails \/ Reconnected
  BY <1>11, Zenon DEF ListenFails, Reconnected, NudgeInv
<1>12. CASE IssueUnlisten
  BY <1>12, Zenon DEF IssueUnlisten, NudgeInv, Work, Nudger, queues, nudges, calls
<1>13. CASE BeginWait
  <2>1. /\ loop = "drain" /\ UNCHANGED <<pending, unpending, call, uncall>>
        /\ loop' = IF interruptPending THEN "top" ELSE "wait"
    BY <1>13, Zenon DEF BeginWait, queues, calls
  <2>2. loop' = "top" \/ (loop' = "wait" /\ ~interruptPending)
    BY <2>1, Zenon
  <2> QED BY <2>1, <2>2, Zenon DEF NudgeInv, Work, Nudger
<1> QED
  BY StepCases, <1>1, <1>2, <1>3, <1>4, <1>5, <1>6, <1>7, <1>8, <1>9, <1>10, <1>11, <1>12, <1>13, Zenon

-----------------------------------------------------------------------------
(* Channels kept *)

\* The loop holds requests only while it drains them.
HandsInv == loop # "drain" => batch = <<>> /\ unbatch = <<>>

\* drainPending takes at the top, and gives up nothing before it is through or puts it back.
LEMMA HandsStep ==
  ASSUME HandsInv, [Next]_vars
  PROVE  HandsInv'
<1>1. CASE Idles \/ CloseNudges
  BY <1>1, Zenon DEF Idles, CloseNudges, HandsInv, taken
<1>2. CASE Moves
  BY <1>2, Zenon DEF Moves, HandsInv, taken
<1>3. ASSUME NEW c \in Calls,
             Listen(c) \/ ListenNudges(c) \/ ListenReturns(c) \/ ListenCanceled(c)
      PROVE  HandsInv'
  BY <1>3, Zenon DEF Listen, ListenNudges, ListenReturns, ListenCanceled, HandsInv, taken
<1>4. ASSUME NEW u \in Unlistens, NEW ch \in Channels, Unlisten(u, ch) PROVE HandsInv'
  BY <1>4, Zenon DEF Unlisten, HandsInv, taken
<1>5. ASSUME NEW u \in Unlistens, UnlistenNudges(u) PROVE HandsInv'
  BY <1>5, Zenon DEF UnlistenNudges, HandsInv, taken
<1>6. CASE TakeQueued \/ IssueListen \/ ListenFails \/ IssueUnlisten \/ BeginWait
  BY <1>6, Zenon DEF TakeQueued, IssueListen, ListenFails, IssueUnlisten, BeginWait, HandsInv, taken
<1>7. CASE Reconnected
  <2>1. loop # "drain" /\ UNCHANGED <<batch, unbatch>>
    BY <1>7 DEF Reconnected, taken
  <2> QED BY <2>1, Zenon DEF HandsInv
<1> QED BY StepCases, <1>1, <1>2, <1>3, <1>4, <1>5, <1>6, <1>7, Zenon

Names(s, ch) == \E i \in DOMAIN s : s[i].channel = ch

\* A request at the end names its channel, and all the others are still named.
LEMMA AppendNames ==
  ASSUME NEW s \in Seq(Request), NEW r \in Request
  PROVE  \A ch : Names(s, ch) \/ ch = r.channel => Names(Append(s, r), ch)
<1> DEFINE t == Append(s, r)
<1>1. /\ Len(s) \in Nat /\ DOMAIN s = 1..Len(s) /\ DOMAIN t = 1..(Len(s) + 1)
      /\ \A i \in 1..Len(s) : t[i] = s[i]
      /\ t[Len(s) + 1] = r
  BY AppendParts, SeqParts
<1> HIDE DEF t
<1>2. /\ Len(s) + 1 \in DOMAIN t
      /\ \A i \in DOMAIN s : i \in DOMAIN t /\ t[i] = s[i]
  BY <1>1
<1>3. \A ch : Names(s, ch) \/ ch = r.channel => Names(t, ch)
  BY <1>1, <1>2, Zenon DEF Names
<1> QED BY <1>3 DEF t

\* Without its first request a queue names all channels but perhaps that one's.
LEMMA TailNames ==
  ASSUME NEW s \in Seq(Request), s # <<>>
  PROVE  \A ch : Names(s, ch) => ch = Head(s).channel \/ Names(Tail(s), ch)
<1>1. /\ Len(s) \in Nat /\ Len(s) > 0 /\ DOMAIN s = 1..Len(s)
      /\ Tail(s) \in Seq(Request) /\ Len(Tail(s)) = Len(s) - 1
      /\ Head(s) = s[1]
      /\ \A i \in 1..(Len(s) - 1) : Tail(s)[i] = s[i + 1]
  BY TailParts, SeqParts
<1>2. DOMAIN Tail(s) = 1..(Len(s) - 1)
  BY <1>1, SeqParts
<1>3. \A i \in DOMAIN s : i = 1 \/ (i - 1 \in DOMAIN Tail(s) /\ Tail(s)[i - 1] = s[i])
  BY <1>1, <1>2
<1> QED BY <1>1, <1>3, Zenon DEF Names

\* A list of members of a set is one of members of a larger set.
LEMMA SeqGrows ==
  ASSUME NEW S, NEW T, S \subseteq T, NEW s \in Seq(S)
  PROVE  s \in Seq(T)
<1>1. s \in [1..Len(s) -> S] /\ Len(s) \in Nat
  BY SeqParts
<1>2. s \in [1..Len(s) -> T]
  BY <1>1
<1> QED BY <1>1, <1>2, SeqOf

Kept ==
  \A ch \in channels \ unlistened :
     ch \in subs \/ Names(pending, ch) \/ Names(batch, ch) \/ loop \in {"reconnect", "exited"}

\* Only channels Unlisten was called for are on their way off the session.
KeepInv == unpending \in Seq(unlistened) /\ unbatch \in Seq(unlistened) /\ Kept

\* Queued as a set or as a sequence.
LEMMA KeptIsKept == Kept => KeptUnlessUnlistened
<1>1. \A ch : Names(pending, ch) \/ Names(batch, ch) => \E r \in Queued : r.channel = ch
  BY Zenon DEF Names, Queued, Range
<1> QED BY <1>1, Zenon DEF Kept, KeptUnlessUnlistened

\* What the callers, the loop and the network do to a channel nobody unlistened.
LEMMA KeepStep ==
  ASSUME TypeOK, Cardinality(Items) \in Nat, HandsInv, KeepInv, [Next]_vars
  PROVE  KeepInv'
<1>0. /\ pending \in Seq(Request) /\ batch \in Seq(Request)
      /\ \A c \in Calls : call[c].channel \in Channels
  <2>1. \A c \in Calls : call[c] \in CallRecord
    BY CallTyped, Zenon
  <2>2. \A r \in CallRecord : r.channel \in Channels
    BY DEF CallRecord
  <2> QED BY <2>1, <2>2, Zenon DEF TypeOK
<1> DEFINE Same == UNCHANGED <<channels, pending, unpending, batch, unbatch, subs, loop, unlistened>>
<1>1. ASSUME Same PROVE KeepInv'
  BY <1>1, Zenon DEF KeepInv, Kept
<1>2. Idles \/ CloseNudges => Same
  BY Zenon DEF Idles, CloseNudges, queues, taken, ghosts, server
<1>3. ASSUME NEW c \in Calls, ListenNudges(c) \/ ListenReturns(c) \/ ListenCanceled(c) PROVE Same
  BY <1>3, Zenon DEF ListenNudges, ListenReturns, ListenCanceled, queues, taken, ghosts, server
<1>4. ASSUME NEW u \in Unlistens, UnlistenNudges(u) PROVE Same
  BY <1>4, Zenon DEF UnlistenNudges, queues, taken, ghosts, server
<1> HIDE DEF Same
<1>5. CASE Moves
  <2>1. UNCHANGED <<channels, pending, unpending, batch, unbatch, unlistened>>
    BY <1>5, Zenon DEF Moves, queues, taken, ghosts
  <2>2. \/ loop' \in {"reconnect", "exited"}
        \/ subs' = subs /\ loop \notin {"reconnect", "exited"}
    BY <1>5 DEF Moves
  <2> QED BY <2>1, <2>2, Zenon DEF KeepInv, Kept
<1>6. ASSUME NEW c \in Calls, Listen(c) PROVE KeepInv'
  <2>1. UNCHANGED <<batch, unbatch, subs, loop, unpending, unlistened>>
    BY <1>6, Zenon DEF Listen, ListenClosed, ListenConfirmed, ListenQueued, taken, server, queues, ghosts
  <2>2. CASE ListenQueued(c)
    <3>1. [channel |-> call[c].channel, call |-> c] \in Request
      BY <1>0 DEF Request
    <3>2. [channel |-> call[c].channel, call |-> c].channel = call[c].channel
      OBVIOUS
    <3>3. \A ch : Names(pending, ch) \/ ch = call[c].channel => Names(pending', ch)
      BY <1>0, <2>2, <3>1, <3>2, AppendNames, Zenon DEF ListenQueued
    <3>4. channels' = channels \cup {call[c].channel}
      BY <2>2, Zenon DEF ListenQueued
    <3> QED BY <2>1, <3>3, <3>4, Zenon DEF KeepInv, Kept
  <2>3. CASE ListenClosed(c) \/ ListenConfirmed(c)
    <3>1. UNCHANGED <<channels, pending>>
      BY <2>3, Zenon DEF ListenClosed, ListenConfirmed, queues
    <3> QED BY <2>1, <3>1, Zenon DEF KeepInv, Kept
  <2> QED BY <1>6, <2>2, <2>3, Zenon DEF Listen
<1>7. ASSUME NEW u \in Unlistens, NEW ch \in Channels, Unlisten(u, ch) PROVE KeepInv'
  <2>1. UNCHANGED <<pending, batch, unbatch, subs, loop>>
    BY <1>7, Zenon DEF Unlisten, queues, taken, server
  <2>2. CASE UNCHANGED <<queues, ghosts>>
    BY <2>1, <2>2, Zenon DEF KeepInv, Kept, queues, ghosts
  <2>3. CASE /\ channels' = channels \ {ch} /\ unpending' = Append(unpending, ch)
             /\ unlistened' = unlistened \cup {ch}
    <3>1. unpending \in Seq(unlistened') /\ unbatch' \in Seq(unlistened')
      BY <2>1, <2>3, SeqGrows, Zenon DEF KeepInv
    <3>2. unpending' \in Seq(unlistened')
      BY <2>3, <3>1, AppendParts, Zenon
    <3> QED BY <2>1, <2>3, <3>1, <3>2, Zenon DEF KeepInv, Kept
  <2> QED BY <1>7, <2>2, <2>3, Zenon DEF Unlisten
<1>8. CASE TakeQueued
  <2>1. batch = <<>> /\ loop \notin {"reconnect", "exited"}
    BY <1>8 DEF TakeQueued, HandsInv
  <2>2. \A ch : ~Names(batch, ch)
    BY <2>1 DEF Names
  <2>3. /\ batch' = pending /\ unbatch' = unpending /\ unpending' = <<>>
        /\ UNCHANGED <<channels, subs, unlistened>>
    BY <1>8, Zenon DEF TakeQueued, server, ghosts
  <2>4. <<>> \in Seq(unlistened)
    OBVIOUS
  <2> QED BY <2>1, <2>2, <2>3, <2>4, Zenon DEF KeepInv, Kept
<1>9. CASE IssueListen
  <2>1. /\ batch # <<>> /\ batch' = Tail(batch) /\ subs' = subs \cup {Head(batch).channel}
        /\ UNCHANGED <<channels, pending, unpending, unbatch, loop, unlistened>>
    BY <1>9, Zenon DEF IssueListen, ghosts
  <2>2. \A ch : Names(batch, ch) => ch \in subs' \/ Names(batch', ch)
    BY <1>0, <2>1, TailNames, Zenon
  <2> QED BY <2>1, <2>2, Zenon DEF KeepInv, Kept
<1>10. CASE ListenFails
  <2>1. <<>> \in Seq(unlistened)
    OBVIOUS
  <2> QED BY <1>10, <2>1, Zenon DEF ListenFails, KeepInv, Kept, ghosts
<1>11. CASE IssueUnlisten
  <2>1. /\ unbatch # <<>> /\ unbatch' = Tail(unbatch)
        /\ subs' = subs \/ subs' = subs \ {Head(unbatch)}
        /\ UNCHANGED <<channels, pending, unpending, batch, loop, unlistened>>
    BY <1>11, Zenon DEF IssueUnlisten, queues, ghosts
  <2>2. Head(unbatch) \in unlistened /\ Tail(unbatch) \in Seq(unlistened)
    BY <2>1, TailParts, Zenon DEF KeepInv
  <2> QED BY <2>1, <2>2, Zenon DEF KeepInv, Kept
<1>12. CASE BeginWait
  <2>1. /\ UNCHANGED <<channels, pending, unpending, batch, unbatch, subs, unlistened>>
        /\ loop = "drain"
    BY <1>12, Zenon DEF BeginWait, queues, taken, server, ghosts
  <2>2. loop \notin {"reconnect", "exited"}
    BY <2>1
  <2> QED BY <2>1, <2>2, Zenon DEF KeepInv, Kept
<1>13. CASE Reconnected
  <2>1. \A ch \in channels : Names(pending', ch)
    BY <1>13, Rebuilt, Zenon DEF Names
  <2>2. <<>> \in Seq(unlistened)
    OBVIOUS
  <2>3. unpending' = <<>> /\ UNCHANGED <<channels, unbatch, unlistened>>
    BY <1>13, Zenon DEF Reconnected, taken, ghosts
  <2> QED BY <2>1, <2>2, <2>3, Zenon DEF KeepInv, Kept
<1> QED
  BY StepCases, <1>1, <1>2, <1>3, <1>4, <1>5, <1>6, <1>7, <1>8, <1>9, <1>10, <1>11, <1>12, <1>13, ZenonT(30)

-----------------------------------------------------------------------------
(* One request per waiter *)

Queue == batch \o pending

\* A call of Listen and the loop's queue: asked for means waiting or given up, unanswered.
Asked(c) ==
  /\ Asks(Queue, c) => call[c].done = "none" /\ call[c].pc \notin {"never", "idle"}
  /\ call[c].pc \in {"nudge", "wait"} /\ call[c].done = "none" /\ loop # "exited"
        => Asks(Queue, c)
  /\ call[c].pc \in {"never", "idle"} => call[c].done = "none"

RequestInv == OnePerCall(Queue) /\ \A c \in Calls : Asked(c)

\* The queue as it is, and the loop no further back than it was.
LEMMA AskedStays ==
  ASSUME RequestInv, UNCHANGED <<Queue, call>>, loop = "exited" => loop' = "exited"
  PROVE  RequestInv'
  BY Zenon DEF RequestInv, Asked

\* A call moves on its own, the queue is as it was.
LEMMA AskedOthers ==
  ASSUME RequestInv, UNCHANGED <<Queue, loop>>, NEW c \in Calls,
         \A b \in Calls : b # c => call'[b] = call[b], Asked(c)'
  PROVE  RequestInv'
<1>1. \A b \in Calls : b # c => Asked(b)'
  BY Zenon DEF RequestInv, Asked
<1> QED BY <1>1, Zenon DEF RequestInv

\* The first request is answered and gone: its call was asked for and is not any more.
LEMMA AskedAnswered ==
  ASSUME TypeOK, RequestInv, Queue \in Seq(Request), Queue # <<>>, Queue' = Tail(Queue),
         NEW result \in {"nil", "error"}, call' = Signalled({Head(Queue)}, result),
         loop # "exited"
  PROVE  RequestInv'
<1>1. /\ OnePerCall(Tail(Queue))
      /\ \A c : c # NoCall => (Asks(Tail(Queue), c) <=> Asks(Queue, c) /\ c # Head(Queue).call)
  BY TailAsks, Zenon DEF RequestInv
<1>2. ASSUME NEW c \in Calls PROVE Asked(c)'
  <2>1. c # NoCall
    BY ListenerAssumption, Zenon
  <2>2. Asks(Queue', c) <=> Asks(Queue, c) /\ c # Head(Queue).call
    BY <1>1, <2>1, Zenon
  <2>3. /\ call'[c].pc = call[c].pc
        /\ c = Head(Queue).call => call'[c].done = result
        /\ c # Head(Queue).call => call'[c] = call[c]
    <3> DEFINE reqs == {Head(Queue)}
    <3>1. (\E r \in reqs : r.call = c) <=> Head(Queue).call = c
      BY Zenon
    <3>2. call' = Signalled(reqs, result)
      BY Zenon
    <3> HIDE DEF reqs
    <3>3. /\ call'[c].pc = call[c].pc
          /\ (\E r \in reqs : r.call = c) => call'[c].done = result
          /\ ~(\E r \in reqs : r.call = c) => call'[c] = call[c]
      BY <3>2, CallTyped, SignalEffect, Zenon
    <3> QED BY <3>1, <3>3, Zenon
  <2>4. Asked(c)
    BY Zenon DEF RequestInv
  <2>5. CASE c # Head(Queue).call
    BY <2>2, <2>3, <2>4, <2>5, Zenon DEF Asked
  <2>6. CASE c = Head(Queue).call
    <3>1. Asks(Queue, c)
      <4>1. 1 \in DOMAIN Queue /\ Head(Queue) = Queue[1]
        BY TailParts, Zenon
      <4> QED BY <2>6, <4>1, Zenon DEF Asks
    <3>2. call'[c].done # "none" /\ ~Asks(Queue', c) /\ call'[c].pc \notin {"never", "idle"}
      BY <2>2, <2>3, <2>4, <2>6, <3>1 DEF Asked
    <3> QED BY <3>2, Zenon DEF Asked
  <2> QED BY <2>5, <2>6, Zenon
<1> QED BY <1>1, <1>2, Zenon DEF RequestInv

\* A reconnect answers the waiters whose channel was unlistened, and keeps the others.
LEMMA AskedRebuilt ==
  ASSUME TypeOK, Cardinality(Items) \in Nat, HandsInv, RequestInv, Reconnected
  PROVE  RequestInv'
<1>1. loop # "drain" /\ loop # "exited" /\ batch' = batch
  BY DEF Reconnected, taken
<1>2. batch = <<>> /\ pending \in Seq(Request) /\ pending' \in Seq(Request)
  BY <1>1, Rebuilt, Zenon DEF HandsInv, TypeOK
<1>3. Queue = pending /\ Queue' = pending'
  BY <1>1, <1>2, ConcatEmpty DEF Queue
<1>4. OnePerCall(pending) /\ OnePerCall(Queue')
  BY <1>3, Rebuilt, Zenon DEF RequestInv
<1>5. ASSUME NEW c \in Calls PROVE Asked(c)'
  <2> DEFINE reqs == {r \in Range(pending) : r.channel \notin channels}
             Lost == \E i \in DOMAIN pending : pending[i].call = c /\ pending[i].channel \notin channels
             Held == \E i \in DOMAIN pending : pending[i].call = c /\ pending[i].channel \in channels
  <2>1. call' = Signalled(reqs, "nil")
    BY Zenon DEF Reconnected
  <2>2. (\E r \in reqs : r.call = c) <=> Lost
    BY Zenon DEF Range
  <2> HIDE DEF reqs
  <2>3. /\ call'[c].pc = call[c].pc
        /\ (\E r \in reqs : r.call = c) => call'[c].done = "nil"
        /\ ~(\E r \in reqs : r.call = c) => call'[c] = call[c]
    BY <2>1, CallTyped, SignalEffect, Zenon
  <2>4. Asks(Queue', c) <=> Held
    BY <1>3, Rebuilt, Zenon
  <2>5. Asks(Queue, c) <=> Held \/ Lost
    BY <1>3, Zenon DEF Asks
  <2>6. ~(Held /\ Lost)
    <3>1. c # NoCall
      BY ListenerAssumption, Zenon
    <3> QED BY <1>4, <3>1, Zenon DEF OnePerCall
  <2>7. Asked(c)
    BY Zenon DEF RequestInv
  <2> HIDE DEF Held, Lost
  <2>8. CASE Lost
    <3>1. call'[c].done # "none" /\ ~Asks(Queue', c) /\ call'[c].pc \notin {"never", "idle"}
      BY <2>2, <2>3, <2>4, <2>5, <2>6, <2>7, <2>8 DEF Asked
    <3> QED BY <3>1, Zenon DEF Asked
  <2>9. CASE ~Lost
    <3>1. call'[c] = call[c] /\ (Asks(Queue', c) <=> Asks(Queue, c))
      BY <2>2, <2>3, <2>4, <2>5, <2>9, Zenon
    <3> QED BY <1>1, <2>7, <3>1, Zenon DEF Asked
  <2> QED BY <2>8, <2>9, Zenon
<1> QED BY <1>4, <1>5, Zenon DEF RequestInv

\* Listen queues itself once, and goes on to wait.
LEMMA AskedListens ==
  ASSUME TypeOK, RequestInv, NEW c \in Calls, Listen(c)
  PROVE  RequestInv'
<1>0. /\ call \in [Calls -> CallRecord] /\ UNCHANGED <<batch, loop>> /\ call[c].pc = "idle"
      /\ pending \in Seq(Request) /\ batch \in Seq(Request) /\ Asked(c)
  BY CallTyped, Zenon DEF Listen, ListenClosed, ListenConfirmed, ListenQueued, taken, TypeOK, RequestInv
<1>1. ~Asks(Queue, c) /\ call[c].done = "none"
  BY <1>0 DEF Asked
<1>2. CASE ListenClosed(c) \/ ListenConfirmed(c)
  <2>1. UNCHANGED Queue
    BY <1>0, <1>2, Zenon DEF ListenClosed, ListenConfirmed, queues, Queue
  <2>2. PICK p \in {"nil", "error"} : call' = [call EXCEPT ![c].pc = p]
    BY <1>2, Zenon DEF ListenClosed, ListenConfirmed
  <2>3. p \in {"never", "idle", "nudge", "wait"} \cup Answers
    BY Zenon DEF Answers
  <2>4. /\ call'[c].pc = p /\ call'[c].done = call[c].done
        /\ \A b \in Calls : b # c => call'[b] = call[b]
    BY <1>0, <2>2, <2>3, CallEffect, Zenon
  <2>5. call'[c].pc \notin {"never", "idle", "nudge", "wait"}
    BY <2>4
  <2>6. Asked(c)'
    BY <1>1, <2>1, <2>5, Zenon DEF Asked
  <2> QED BY <1>0, <2>1, <2>4, <2>6, AskedOthers, Zenon
<1>3. CASE ListenQueued(c)
  <2> DEFINE r == [channel |-> call[c].channel, call |-> c]
  <2>1. r \in Request /\ r.call = c
    BY <1>0 DEF Request, CallRecord
  <2>2. pending' = Append(pending, r) /\ call' = [call EXCEPT ![c].pc = "nudge"]
    BY <1>3, Zenon DEF ListenQueued
  <2> HIDE DEF r
  <2>3. Queue' = Append(Queue, r)
    BY <1>0, <2>1, <2>2, QueueEnds, Zenon DEF Queue
  <2>4. Queue \in Seq(Request)
    BY <1>0, ConcatParts, Zenon DEF Queue
  <2>5. /\ OnePerCall(Queue')
        /\ \A b : Asks(Queue', b) <=> Asks(Queue, b) \/ b = c
    BY <1>1, <2>1, <2>3, <2>4, AppendAsks, Zenon DEF RequestInv
  <2>6. /\ call'[c].pc = "nudge" /\ call'[c].done = call[c].done
        /\ \A b \in Calls : b # c => call'[b] = call[b]
    BY <1>0, <2>2, CallEffect, Zenon
  <2>7. call'[c].pc \notin {"never", "idle"}
    BY <2>6
  <2>8. Asked(c)'
    BY <1>1, <2>5, <2>6, <2>7, Zenon DEF Asked
  <2>9. ASSUME NEW b \in Calls, b # c PROVE Asked(b)'
    BY <1>0, <2>5, <2>6, <2>9, Zenon DEF Asked, RequestInv
  <2> QED BY <2>5, <2>8, <2>9, Zenon DEF RequestInv
<1> QED BY <1>2, <1>3, Zenon DEF Listen

\* Listen breaks the wait, or returns with an answer, because of Close, or of its context.
LEMMA AskedReturns ==
  ASSUME TypeOK, RequestInv, NEW c \in Calls,
         ListenNudges(c) \/ ListenReturns(c) \/ ListenCanceled(c)
  PROVE  RequestInv'
<1>0. call \in [Calls -> CallRecord] /\ Asked(c)
  BY CallTyped, Zenon DEF RequestInv
<1>1. UNCHANGED <<loop, Queue>> /\ call[c].pc \in {"nudge", "wait"}
  BY Zenon DEF ListenNudges, ListenReturns, ListenCanceled, queues, taken, Queue
<1>2. CASE call' = [call EXCEPT ![c].pc = "wait"]
  <2>1. /\ call'[c].pc = "wait" /\ call'[c].done = call[c].done
        /\ \A b \in Calls : b # c => call'[b] = call[b]
    BY <1>0, <1>2, CallEffect, ZenonT(30)
  <2>2. call'[c].pc \notin {"never", "idle"}
    BY <2>1
  <2>3. Asked(c)'
    BY <1>0, <1>1, <2>1, <2>2, Zenon DEF Asked
  <2> QED BY <1>1, <2>1, <2>3, AskedOthers, Zenon
<1>3. CASE call' = [call EXCEPT ![c].pc = "error"]
  <2>1. /\ call'[c].pc = "error" /\ call'[c].done = call[c].done
        /\ \A b \in Calls : b # c => call'[b] = call[b]
    BY <1>0, <1>3, CallEffect, Zenon DEF Answers
  <2>2. call'[c].pc \notin {"never", "idle", "nudge", "wait"}
    BY <2>1
  <2>3. Asked(c)'
    BY <1>0, <1>1, <2>1, <2>2, Zenon DEF Asked
  <2> QED BY <1>1, <2>1, <2>3, AskedOthers, Zenon
<1>4. CASE /\ call[c].done # "none"
           /\ call' = [call EXCEPT ![c].pc = call[c].done, ![c].done = "none"]
  <2>1. /\ call'[c].pc \in Answers /\ call'[c].done = "none"
        /\ \A b \in Calls : b # c => call'[b] = call[b]
    BY <1>0, <1>4, ReturnEffect, Zenon
  <2>2. call'[c].pc \notin {"never", "idle", "nudge", "wait"}
    BY <2>1 DEF Answers
  <2>3. Asked(c)'
    BY <1>0, <1>1, <1>4, <2>1, <2>2, Zenon DEF Asked
  <2> QED BY <1>1, <2>1, <2>3, AskedOthers, Zenon
<1> QED BY <1>2, <1>3, <1>4, Zenon DEF ListenNudges, ListenReturns, ListenCanceled

\* No step of the loop loses a request, answers one twice, or doubles one.
LEMMA RequestStep ==
  ASSUME TypeOK, Cardinality(Items) \in Nat, HandsInv, RequestInv, [Next]_vars
  PROVE  RequestInv'
<1>0. pending \in Seq(Request) /\ batch \in Seq(Request) /\ Queue \in Seq(Request)
  BY ConcatParts, Zenon DEF TypeOK, Queue
<1>1. ASSUME UNCHANGED <<batch, pending, call>>, loop = "exited" => loop' = "exited"
      PROVE  RequestInv'
  BY <1>1, AskedStays, Zenon DEF Queue
<1>2. CASE Idles \/ CloseNudges \/ IssueUnlisten
  BY <1>1, <1>2, Zenon DEF Idles, CloseNudges, IssueUnlisten, queues, taken, calls
<1>3. CASE Moves
  BY <1>1, <1>3, Zenon DEF Moves, queues, taken
<1>4. ASSUME NEW u \in Unlistens, UnlistenNudges(u) PROVE RequestInv'
  BY <1>1, <1>4, Zenon DEF UnlistenNudges, queues, taken
<1>5. ASSUME NEW u \in Unlistens, NEW ch \in Channels, Unlisten(u, ch) PROVE RequestInv'
  BY <1>1, <1>5, Zenon DEF Unlisten, queues, taken
<1>6. CASE BeginWait
  <2>1. loop # "exited" /\ UNCHANGED <<batch, pending, call>>
    BY <1>6 DEF BeginWait, queues, taken, calls
  <2> QED BY <1>1, <2>1, Zenon
<1>7. CASE TakeQueued
  <2>1. /\ loop # "exited" /\ batch = <<>> /\ UNCHANGED call
        /\ batch' = pending /\ pending' = <<>>
    BY <1>7 DEF TakeQueued, HandsInv, calls
  <2>2. UNCHANGED Queue
    BY <1>0, <2>1, ConcatEmpty DEF Queue
  <2> QED BY <2>1, <2>2, AskedStays, Zenon
<1>8. CASE IssueListen \/ ListenFails
  <2>1. batch # <<>> /\ loop # "exited"
    BY <1>8 DEF IssueListen, ListenFails
  <2>2. Queue # <<>> /\ Head(Queue) = Head(batch) /\ Tail(Queue) = Tail(batch) \o pending
    BY <1>0, <2>1, ConcatTail, Zenon DEF Queue
  <2>3. \E result \in {"nil", "error"} : call' = Signalled({Head(batch)}, result)
    BY <1>8, Zenon DEF IssueListen, ListenFails
  <2>4. CASE IssueListen
    <3>1. Queue' = Tail(Queue)
      BY <2>2, <2>4, Zenon DEF IssueListen, Queue
    <3> QED BY <1>0, <2>1, <2>2, <2>3, <3>1, AskedAnswered, Zenon
  <2>5. CASE ListenFails
    <3>1. Tail(batch) \o pending \in Seq(Request)
      BY <1>0, <2>1, TailParts, ConcatParts, Zenon
    <3>2. batch' = <<>> /\ pending' = Tail(batch) \o pending
      BY <2>5, Zenon DEF ListenFails
    <3>3. Queue' = Tail(Queue)
      BY <2>2, <3>1, <3>2, ConcatEmpty DEF Queue
    <3> QED BY <1>0, <2>1, <2>2, <2>3, <3>3, AskedAnswered, Zenon
  <2> QED BY <1>8, <2>4, <2>5, Zenon
<1>9. CASE Reconnected
  BY <1>9, AskedRebuilt, Zenon
<1>10. ASSUME NEW c \in Calls,
              Listen(c) \/ ListenNudges(c) \/ ListenReturns(c) \/ ListenCanceled(c)
       PROVE  RequestInv'
  BY <1>10, AskedListens, AskedReturns, Zenon
<1> QED BY StepCases, <1>2, <1>3, <1>4, <1>5, <1>6, <1>7, <1>8, <1>9, <1>10, Zenon

\* Places with the same call are one place, a place means unanswered, a waiter has a place.
LEMMA OneRequest == TypeOK /\ RequestInv => OneRequestPerWaiter
<1> SUFFICES ASSUME TypeOK, RequestInv, NEW c \in Calls
             PROVE  LET places == {i \in DOMAIN Queue : Queue[i].call = c} IN
                    /\ \A i, j \in places : i = j
                    /\ places # {} => call[c].done = "none"
                    /\ call[c].pc \in {"nudge", "wait"} /\ call[c].done = "none" /\ loop # "exited"
                          => places # {}
  BY Zenon DEF OneRequestPerWaiter, Queue
<1> DEFINE places == {i \in DOMAIN Queue : Queue[i].call = c}
<1>1. c # NoCall /\ OnePerCall(Queue) /\ Asked(c)
  BY ListenerAssumption, Zenon DEF RequestInv
<1>2. \A i, j \in places : i = j
  BY <1>1, Zenon DEF OnePerCall
<1>3. Asks(Queue, c) <=> places # {}
  BY Zenon DEF Asks
<1> QED BY <1>1, <1>2, <1>3, Zenon DEF Asked

-----------------------------------------------------------------------------
(* The theorems *)

ListenInv == TypeOK /\ NudgeInv /\ HandsInv /\ KeepInv /\ RequestInv

\* A new listener has queued nothing, and nobody called.
LEMMA ListenInit ==
  ASSUME Init
  PROVE  ListenInv
<1>1. PICK mix \in Mixes, to \in [Calls -> Channels] :
         /\ call = [c \in Calls |-> [pc |-> IF c \in mix THEN "idle" ELSE "never",
                                     channel |-> to[c], done |-> "none"]]
         /\ uncall = [u \in Unlistens |-> IF u \in mix THEN "idle" ELSE "never"]
         /\ closing = IF CloseCall \in mix THEN "idle" ELSE "never"
         /\ reading = IF StopCall \in mix THEN "maybe" ELSE "yes"
  BY Zenon DEF Init
<1>2. \A c \in Calls : call[c].pc \in {"never", "idle"} /\ call[c].done = "none"
  BY <1>1
<1>3. call \in [Calls -> CallRecord]
  BY <1>1 DEF CallRecord, Answer
<1>4. uncall \in [Unlistens -> {"never", "idle", "nudge", "returned"}]
  BY <1>1
<1>5. notifs \in 0..BufferCap
  BY ListenerAssumption DEF Init
<1>6. TypeOK
  <2>1. <<>> \in Seq(Request) /\ <<>> \in Seq(Channels)
    OBVIOUS
  <2>2. closing \in {"never", "idle", "nudge", "returned"} /\ reading \in {"yes", "maybe", "no"}
    BY <1>1, Zenon
  <2> QED BY <1>3, <1>4, <1>5, <2>1, <2>2, ZenonT(30) DEF Init, TypeOK, CallRecord, Answer
<1>7. loop = "top" /\ batch = <<>> /\ unbatch = <<>> /\ pending = <<>> /\ unpending = <<>> /\ channels = {}
  BY Zenon DEF Init
<1>8. NudgeInv /\ HandsInv
  BY <1>7 DEF NudgeInv, HandsInv
<1>9. KeepInv
  BY <1>7 DEF KeepInv, Kept
<1>10. RequestInv
  <2>1. Queue = <<>>
    BY <1>7, ConcatEmpty DEF Queue
  <2>2. OnePerCall(Queue) /\ \A c : ~Asks(Queue, c)
    BY <2>1 DEF OnePerCall, Asks
  <2>3. \A c \in Calls : call[c].pc \notin {"nudge", "wait"}
    BY <1>2
  <2> QED BY <1>2, <2>2, <2>3, Zenon DEF RequestInv, Asked
<1> QED BY <1>6, <1>8, <1>9, <1>10, Zenon DEF ListenInv

FS == INSTANCE FiniteSetTheorems

\* The library speaks of the same finite sets.
LEMMA SameFinite ==
    ASSUME NEW S
    PROVE  (IsFiniteSet(S) <=> FS!IsFiniteSet(S)) /\ Cardinality(S) = FS!Cardinality(S)
BY Zenon DEF IsFiniteSet, FS!IsFiniteSet, Cardinality, FS!Cardinality

\* There are finitely many, so pending is a sequence again.
LEMMA ItemsFinite ==
  ASSUME TypeOK
  PROVE  Cardinality(Items) \in Nat
<1> DEFINE P == Channels \X (0..Len(pending))
           T == {[channel |-> p[1], place |-> p[2]] : p \in P}
           f == [p \in P |-> [channel |-> p[1], place |-> p[2]]]
<1>1. FS!IsFiniteSet(P)
  <2>1. Len(pending) \in Int /\ 0 \in Int
    BY PendingTyped
  <2>2. FS!IsFiniteSet(0..Len(pending))
    BY <2>1, FS!FS_Interval, Zenon
  <2>3. FS!IsFiniteSet(Channels)
    BY ListenerAssumption, SameFinite, Zenon
  <2> QED BY <2>2, <2>3, FS!FS_Product, Zenon
<1>2. f \in FS!Surjection(P, T)
  BY Zenon DEF FS!Surjection
<1> HIDE DEF P, T, f
<1>3. FS!IsFiniteSet(T)
  BY <1>1, <1>2, FS!FS_Surjection, ZenonT(30)
<1> USE DEF P, T
<1>4. Items \subseteq T
  <2> SUFFICES ASSUME NEW x \in Items PROVE x \in T
    BY ZenonT(30)
  <2>1. x.channel \in Channels /\ x.place \in 0..Len(pending)
    BY ItemParts, PendingTyped DEF TypeOK, Waiting
  <2>2. <<x.channel, x.place>> \in P
    BY <2>1
  <2>3. x = [channel |-> x.channel, place |-> x.place]
    BY ItemParts, Zenon
  <2>4. x = [channel |-> <<x.channel, x.place>>[1], place |-> <<x.channel, x.place>>[2]]
    BY <2>3
  <2> QED BY <2>2, <2>4, Zenon
<1>5. FS!IsFiniteSet(Items)
  BY <1>3, <1>4, FS!FS_Subset, ZenonT(30)
<1>6. FS!Cardinality(Items) \in Nat
  BY <1>5, FS!FS_CardinalityType, Zenon
<1> QED BY <1>6, SameFinite, ZenonT(30)

\* Every step of a caller, of the run loop, of the network and of the reader keeps it.
LEMMA ListenStep == ListenInv /\ [Next]_vars => ListenInv'
  BY ItemsFinite, TypeStep, NudgeStep, HandsStep, KeepStep, RequestStep, Zenon DEF ListenInv

\* The invariant of the listener.
LEMMA ListenSafe == Spec => []ListenInv
  BY ListenInit, ListenStep, PTL DEF Spec

\* What Listener's type invariant says of the queues, the batch in the run loop's hands, the
\* calls and the notification buffer holds in every reachable state: the buffer never
\* exceeds notifyBuffer, and rebuildPendingForReconnect leaves a queue again.
THEOREM ListenerTypes == Spec => []TypeOK
<1>1. ListenInv => TypeOK
  BY Zenon DEF ListenInv
<1> QED BY <1>1, ListenSafe, PTL

\* The run loop never sleeps in WaitForNotification on queued work that nobody is about to
\* wake it for: requestInterrupt is remembered in interruptPending between drainPending and
\* the wait, and cancels the wait from then on.
THEOREM NudgesKept == Spec => []NoMissedNudge
<1>1. ListenInv => NoMissedNudge
  BY Zenon DEF ListenInv, NudgeInv, NoMissedNudge, Work, Nudger
<1> QED BY <1>1, ListenSafe, PTL

\* A channel in l.channels that was never unlistened is on the session or queued for it,
\* or the loop is on its way to a new session: no failed LISTEN and no reconnect drops one.
THEOREM ChannelsKept == Spec => []KeptUnlessUnlistened
<1>1. ListenInv => KeptUnlessUnlistened
  BY KeptIsKept, ZenonT(30) DEF ListenInv, KeepInv
<1> QED BY <1>1, ListenSafe, PTL

\* A waiting Listen has exactly one request in the run loop's hands, and a call that was
\* answered has none, so the second send that would block the loop never happens.
THEOREM RequestsKept == Spec => []OneRequestPerWaiter
<1>1. ListenInv => OneRequestPerWaiter
  BY OneRequest, Zenon DEF ListenInv
<1> QED BY <1>1, ListenSafe, PTL

=============================================================================
