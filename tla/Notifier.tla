------------------------------ MODULE Notifier ------------------------------
(***************************************************************************)
(* The in-process notifier of src/notify.go, for one notification channel: *)
(* the waker that consume loops select on, the confirmation of LISTEN in   *)
(* goroutines of its own, the pump that turns notifications into signals,  *)
(* and forget, which a queue deletion calls.                               *)
(*                                                                         *)
(* A waker's generation is a Go channel.  Here each worker holds the waker *)
(* it armed and whether that generation was closed since.  The Listener is *)
(* what its interface promises: Listen returns nil only once the channel   *)
(* is registered, Unlisten takes the registration away.                    *)
(***************************************************************************)
EXTENDS Naturals, FiniteSets

CONSTANTS
    Workers,        \* consume-loop workers that arm the waker
    Wakers,         \* addresses of waker objects; enough for all references
    NoWaker,        \* nil
    Confirmers,     \* confirmListen goroutines that can be live at once
    Forgets         \* calls of forget, one per member

\* There are more addresses than references to wakers, and a confirmation for the waker
\* that is installed and for each that a forget dropped.
ASSUME NotifierAssumption ==
    /\ NoWaker \notin Wakers
    /\ IsFiniteSet(Workers) /\ IsFiniteSet(Wakers)
    /\ IsFiniteSet(Confirmers) /\ IsFiniteSet(Forgets)
    /\ Cardinality(Workers) + Cardinality(Confirmers) + 2 < Cardinality(Wakers)
    /\ Cardinality(Forgets) < Cardinality(Confirmers)

VARIABLES
    waker,          \* n.wakers[channel]
    wake,           \* per worker: the generation it armed
    listening,      \* n.listening[channel]
    inFlight,       \* n.listenInFlight[channel]
    confirm,        \* confirmListen goroutines: state and capturedWaker
    pump,           \* the pump goroutine: state and the waker it looked up
    nclosed,        \* n.closed, n.ctx cancelled and the listener closed
    forgets,        \* forget calls: between their unlock and their Unlisten or not
    registered,     \* the listener's subscription for the channel
    stream,         \* notifications in listener.Notifications()
    confirmedBy     \* ghost: the waker whose confirmation succeeded last

notifierVars == <<waker, wake, listening, inFlight, confirm, pump, nclosed, forgets,
                  registered, stream, confirmedBy>>

Handle == [waker: Wakers \cup {NoWaker}, fired: BOOLEAN]
NilChan == [waker |-> NoWaker, fired |-> FALSE]
Idle == [pc |-> "idle", waker |-> NoWaker]

NotifierTypeOK ==
    /\ waker \in Wakers \cup {NoWaker} /\ confirmedBy \in Wakers \cup {NoWaker}
    /\ wake \in [Workers -> Handle]
    /\ listening \in BOOLEAN /\ inFlight \in BOOLEAN /\ nclosed \in BOOLEAN
    /\ registered \in BOOLEAN /\ stream \in Nat
    /\ confirm \in [Confirmers -> [pc: {"idle", "calling", "nil", "error"},
                                   waker: Wakers \cup {NoWaker}]]
    /\ pump \in [pc: {"none", "range", "signal", "last", "exited"}, waker: Wakers \cup {NoWaker}]
    /\ forgets \in [Forgets -> {"idle", "unlisten", "returned"}]

NotifierInit ==
    /\ waker = NoWaker /\ wake = [w \in Workers |-> NilChan]
    /\ listening = FALSE /\ inFlight = FALSE
    /\ confirm = [c \in Confirmers |-> Idle]
    /\ pump = [pc |-> "none", waker |-> NoWaker]
    /\ nclosed = FALSE /\ registered = FALSE /\ stream = 0
    /\ confirmedBy = NoWaker

-----------------------------------------------------------------------------
\* A new waker is an object no pointer refers to.
Referenced(k) ==
    \/ k = waker \/ k = pump.waker \/ k = confirmedBy
    \/ \E w \in Workers : wake[w].waker = k
    \/ \E c \in Confirmers : confirm[c].waker = k

newWaker == CHOOSE k \in Wakers : ~Referenced(k)

\* signal closes the current generation of k: whoever armed it is released.
signal(k) ==
    wake' = [w \in Workers |-> IF wake[w].waker = k /\ k # NoWaker
                                 THEN [wake[w] EXCEPT !.fired = TRUE] ELSE wake[w]]

\* Confirm LISTEN once per channel: spawn confirmListen unless confirmed or in flight.
SpawnConfirm(k) ==
    IF listening \/ inFlight
      THEN UNCHANGED <<inFlight, confirm>>
      ELSE LET c == CHOOSE c \in Confirmers : confirm[c] = Idle IN
           /\ inFlight' = TRUE
           /\ confirm' = [confirm EXCEPT ![c] = [pc |-> "calling", waker |-> k]]

\* One critical section: install the waker, start the pump once, arm the generation.
wakeChan(w) ==
    /\ IF nclosed
         THEN /\ wake' = [wake EXCEPT ![w] = NilChan]
              /\ UNCHANGED <<waker, pump, inFlight, confirm>>
         ELSE LET k == IF waker = NoWaker THEN newWaker ELSE waker IN
              /\ waker' = k
              /\ pump' = IF pump.pc = "none" THEN [pump EXCEPT !.pc = "range"] ELSE pump
              /\ SpawnConfirm(k)
              /\ wake' = [wake EXCEPT ![w] = [waker |-> k, fired |-> FALSE]]
    /\ UNCHANGED <<listening, nclosed, forgets, registered, stream, confirmedBy>>

\* listener.Listen, off the lock: registered, or an error (outage, panic, closed).
ListenAnswers(c) ==
    /\ confirm[c].pc = "calling"
    /\ \/ /\ ~nclosed
          /\ registered' = TRUE
          /\ confirm' = [confirm EXCEPT ![c].pc = "nil"]
       \/ /\ confirm' = [confirm EXCEPT ![c].pc = "error"]
          /\ UNCHANGED registered
    /\ UNCHANGED <<waker, wake, listening, inFlight, pump, nclosed, forgets, stream, confirmedBy>>

\* Fault: the bookkeeping is updated whoever owns it by now.
confirmListenUnguarded(c) ==
    /\ confirm[c].pc \in {"nil", "error"}
    /\ confirm' = [confirm EXCEPT ![c] = Idle]
    /\ inFlight' = FALSE
    /\ listening' = (listening \/ confirm[c].pc = "nil")
    /\ confirmedBy' = IF confirm[c].pc = "nil" THEN confirm[c].waker ELSE confirmedBy
    /\ UNCHANGED <<waker, wake, pump, nclosed, forgets, registered, stream>>

\* confirmListen after Listen: a confirmation whose waker was dropped changes nothing.
confirmListen(c) ==
    /\ confirm[c].pc \in {"nil", "error"}
    /\ confirm' = [confirm EXCEPT ![c] = Idle]
    /\ IF confirm[c].waker # waker
         THEN UNCHANGED <<inFlight, listening, confirmedBy>>
         ELSE /\ inFlight' = FALSE
              /\ listening' = (listening \/ confirm[c].pc = "nil")
              /\ confirmedBy' = IF confirm[c].pc = "nil" THEN waker ELSE confirmedBy
    /\ UNCHANGED <<waker, wake, pump, nclosed, forgets, registered, stream>>

\* forget: drop the bookkeeping under the lock, Unlisten after it unless closed.
forget(f) ==
    /\ forgets[f] = "idle"
    /\ waker' = NoWaker /\ listening' = FALSE /\ inFlight' = FALSE
    /\ confirmedBy' = NoWaker
    /\ forgets' = [forgets EXCEPT ![f] = IF nclosed THEN "returned" ELSE "unlisten"]
    /\ UNCHANGED <<wake, confirm, pump, nclosed, registered, stream>>

forgetUnlistens(f) ==
    /\ forgets[f] = "unlisten"
    /\ registered' = FALSE
    /\ forgets' = [forgets EXCEPT ![f] = "returned"]
    /\ UNCHANGED <<waker, wake, listening, inFlight, confirm, pump, nclosed, stream, confirmedBy>>

-----------------------------------------------------------------------------
\* The next notification and its waker, looked up under the lock.
PumpTakes ==
    /\ pump.pc = "range" /\ stream > 0
    /\ stream' = stream - 1
    /\ pump' = IF waker = NoWaker THEN pump ELSE [pc |-> "signal", waker |-> waker]
    /\ UNCHANGED <<waker, wake, listening, inFlight, confirm, nclosed, forgets, registered, confirmedBy>>

\* The signal, after the lock was released; wakeAll after a panic ends the pump.
PumpSignals ==
    /\ pump.pc \in {"signal", "last"}
    /\ signal(pump.waker)
    /\ pump' = [pc |-> IF pump.pc = "last" THEN "exited" ELSE "range", waker |-> NoWaker]
    /\ UNCHANGED <<waker, listening, inFlight, confirm, nclosed, forgets, registered, stream, confirmedBy>>

\* The listener panics: the pump is over, everybody is woken a last time.
PumpPanics ==
    /\ pump.pc = "range"
    /\ pump' = [pc |-> "last", waker |-> waker]
    /\ UNCHANGED <<waker, wake, listening, inFlight, confirm, nclosed, forgets, registered, stream, confirmedBy>>

\* The stream was closed and is drained.
PumpExits ==
    /\ pump.pc = "range" /\ nclosed /\ stream = 0
    /\ pump' = [pump EXCEPT !.pc = "exited"]
    /\ UNCHANGED <<waker, wake, listening, inFlight, confirm, nclosed, forgets, registered, stream, confirmedBy>>

\* close, its critical section, cancel and listener.Close.
notifierClose ==
    /\ nclosed' = TRUE /\ registered' = FALSE
    /\ UNCHANGED <<waker, wake, listening, inFlight, confirm, pump, forgets, stream, confirmedBy>>

\* close, its wakeAll.
notifierWakeAll ==
    /\ signal(waker)
    /\ UNCHANGED <<waker, listening, inFlight, confirm, pump, nclosed, forgets, registered,
                   stream, confirmedBy>>

\* What wg.Wait waits for.
NotifierJoined ==
    /\ pump.pc \in {"none", "exited"}
    /\ \A c \in Confirmers : confirm[c] = Idle

Confirming == \E c \in Confirmers : ListenAnswers(c) \/ confirmListen(c)
Forgetting == \E f \in Forgets : forget(f) \/ forgetUnlistens(f)
Pumping == PumpTakes \/ PumpSignals \/ PumpExits

-----------------------------------------------------------------------------
(* Properties. *)

\* While a waker is installed, inFlight says exactly whether a confirmation of its own is
\* running, there is never a second one, and listening is only ever set by one of its own:
\* a confirmation that outlived a forget touches nothing (staleness guard, no retry storm).
OneConfirmation ==
    LET own == {c \in Confirmers : confirm[c].pc # "idle" /\ confirm[c].waker = waker} IN
    /\ waker # NoWaker => (inFlight <=> own # {}) /\ Cardinality(own) <= 1
    /\ listening => waker # NoWaker /\ confirmedBy = waker

\* What wakeChan relies on and deleteQueue's comment promises ("a consumer's wakeChan call
\* re-registers the waker and LISTEN lazily"): once no forget is under way, a channel marked
\* as listening is registered with the listener.
ListeningIsRegistered ==
    listening /\ ~nclosed /\ (\A f \in Forgets : forgets[f] # "unlisten") => registered

=============================================================================
