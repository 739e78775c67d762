--------------------------- MODULE RuntimeProofs ---------------------------
(***************************************************************************)
(* Theorems about a Queue at run time, for every number of workers,        *)
(* messages, collector queues, callers of Close and forgets: no wake-up is *)
(* lost, one confirmation is in flight, what Close promises when it has    *)
(* returned, and what becomes of a handler's result.                       *)
(*                                                                         *)
(* Each part of the invariant RuntimeInv is about few of the variables.    *)
(* The families of steps, and what each leaves alone, come first.          *)
(***************************************************************************)
EXTENDS Runtime, FiniteSetTheorems, TLAPS

\* Time for the provers: a leaf that names no method of its own gets these.
USE SMTT(30), ZenonT(30)

(* A Queue at run time: the families of its steps, and what each leaves alone. *)

DbStep == (\E m \in Messages : Publish(m)) \/ Outage \/ setQueuePaused
LoopStep == ConsumeChannel \/ trackWorker \/ watchClose \/ CallerCancels \/ LoopReturns
CollectorStep == NewGarbageCollector \/ Start \/ Stop \/ GC
CloseStep == \E k \in Closers : Close(k) \/ Closing(k)

\* Every step of a Queue is of one of six families, or changes nothing.
LEMMA Families ==
  ASSUME [Next]_vars
  PROVE  \/ DbStep \/ LoopStep \/ CollectorStep \/ CloseStep \/ NotifierStep
         \/ \E w \in Workers : handlerWorker(w)
         \/ UNCHANGED vars
  BY Zenon DEF Next, DbStep, LoopStep, CollectorStep, CloseStep

\* The database and a pause touch messages and the stream only.
LEMMA DbFrame ==
  ASSUME DbStep
  PROVE  /\ UNCHANGED <<mix, consume, shutdown, collector>>
         /\ UNCHANGED <<waker, wake, listening, inFlight, confirm, pump, nclosed, forgets,
                        registered, confirmedBy>>
<1>1. ASSUME NEW m \in Messages, Publish(m)
      PROVE  /\ UNCHANGED <<mix, consume, shutdown, collector>>
             /\ UNCHANGED <<waker, wake, listening, inFlight, confirm, pump, nclosed, forgets,
                            registered, confirmedBy>>
  BY <1>1 DEF Publish
<1>2. ASSUME Outage
      PROVE  /\ UNCHANGED <<mix, consume, shutdown, collector>>
             /\ UNCHANGED <<waker, wake, listening, inFlight, confirm, pump, nclosed, forgets,
                            registered, confirmedBy>>
  BY <1>2 DEF Outage
<1>3. ASSUME setQueuePaused
      PROVE  /\ UNCHANGED <<mix, consume, shutdown, collector>>
             /\ UNCHANGED <<waker, wake, listening, inFlight, confirm, pump, nclosed, forgets,
                            registered, confirmedBy>>
  BY <1>3 DEF setQueuePaused, notifierVars
<1> QED BY <1>1, <1>2, <1>3, Zenon DEF DbStep

\* ConsumeChannel itself decides about the loop and the start of its workers.
LEMMA LoopFrame ==
  ASSUME LoopStep
  PROVE  UNCHANGED <<mix, messages, held, result, fails, lost, shutdown, collector,
                     notifierVars>>
<1> DEFINE Same == UNCHANGED <<mix, messages, held, result, fails, lost, shutdown, collector,
                               notifierVars>>
<1>1. ConsumeChannel => Same
  BY DEF ConsumeChannel
<1>2. trackWorker => Same
  BY DEF trackWorker
<1>3. watchClose => Same
  BY DEF watchClose
<1>4. CallerCancels => Same
  BY DEF CallerCancels
<1>5. LoopReturns => Same
  BY DEF LoopReturns
<1> QED BY <1>1, <1>2, <1>3, <1>4, <1>5, Zenon DEF LoopStep

\* The collector's goroutine touches nothing of the workers and the notifier.
LEMMA CollectorFrame ==
  ASSUME CollectorStep
  PROVE  UNCHANGED <<mix, messages, consume, closed, bgCanceled, closer, closedBy, notifierVars>>
<1> DEFINE Same == UNCHANGED <<mix, messages, consume, closed, bgCanceled, closer, closedBy,
                               notifierVars>>
<1>1. NewGarbageCollector => Same
  BY DEF NewGarbageCollector
<1>2. Start => Same
  BY DEF Start, shutdown
<1>3. Stop => Same
  BY DEF Stop, shutdown
<1>4. run => Same
  BY DEF run, shutdown
<1>5. runStops => Same
  BY DEF runStops, shutdown
<1>6. CollectEnds => Same
  BY DEF CollectEnds, shutdown
<1>7. ASSUME NEW q \in Queues PROVE dispatchCollect(q) \/ collectQueueWorker(q) => Same
  BY Zenon DEF dispatchCollect, collectQueueWorker, shutdown
<1> HIDE DEF Same
<1>8. GC => Same
  BY <1>4, <1>5, <1>6, <1>7, Zenon DEF GC
<1>9. Same
  BY <1>1, <1>2, <1>3, <1>8, Zenon DEF CollectorStep
<1> QED BY <1>9 DEF Same

\* Close touches its own progress, the stop channel and the notifier.
LEMMA CloseFrame ==
  ASSUME CloseStep
  PROVE  /\ UNCHANGED <<mix, messages, consume, gcs, gc, stopper, pass>>
         /\ notifierClose \/ notifierWakeAll \/ UNCHANGED notifierVars
<1> DEFINE Same == /\ UNCHANGED <<mix, messages, consume, gcs, gc, stopper, pass>>
                   /\ notifierClose \/ notifierWakeAll \/ UNCHANGED notifierVars
<1> SUFFICES ASSUME NEW k \in Closers, Close(k) \/ Closing(k) PROVE Same
  BY Zenon DEF CloseStep
<1>1. Close(k) => Same
  BY DEF Close, CloseAt
<1>2. CloseCancels(k) => Same
  BY DEF CloseCancels, CloseAt
<1>3. CloseStops(k) => Same
  BY DEF CloseStops, CloseAt
<1>4. CloseJoinsWorkers(k) => Same
  BY DEF CloseJoinsWorkers, CloseAt
<1>5. CloseNotifier(k) => Same
  BY DEF CloseNotifier, CloseAt
<1> QED BY <1>1, <1>2, <1>3, <1>4, <1>5, Zenon DEF Closing

\* A worker touches what it holds, and the notifier by arming or dropping its wake channel.
LEMMA WorkerFrame ==
  ASSUME NEW w \in Workers, handlerWorker(w)
  PROVE  /\ UNCHANGED <<mix, paused, loop, shutdown, collector>>
         /\ \/ armWake(w) /\ wakeChan(w)
            \/ Disarm(w)
            \/ UNCHANGED notifierVars
<1> DEFINE Same == /\ UNCHANGED <<mix, paused, loop, shutdown, collector>>
                   /\ \/ armWake(w) /\ wakeChan(w)
                      \/ Disarm(w)
                      \/ UNCHANGED notifierVars
<1>1. armWake(w) => Same
  BY DEF armWake, Goto, messages
<1>2. ReceiveEmpty(w) => Same
  BY DEF ReceiveEmpty
<1>3. ReceiveFails(w) => Same
  BY Zenon DEF ReceiveFails, StopsQuietly, setFatal, ReceiveLost, messages
<1>4. retryTransient(w) => Same
  BY Zenon DEF retryTransient, setFatal, ReceiveLost, messages
<1>5. WaitBegins(w) => Same
  BY DEF WaitBegins, Goto, messages
<1>6. waitForWork(w) => Same
  BY DEF waitForWork, Goto, messages
<1>7. callHandler(w) => Same
  BY DEF callHandler, messages
<1>8. dispatchToHandler(w) => Same
  BY DEF dispatchToHandler
<1>9. ASSUME NEW m \in Messages PROVE ReceiveMessage(w, m) => Same
  BY DEF ReceiveMessage
<1> HIDE DEF Same
<1>10. Same
  BY <1>1, <1>2, <1>3, <1>4, <1>5, <1>6, <1>7, <1>8, <1>9, Zenon DEF handlerWorker
<1> QED BY <1>10 DEF Same

-----------------------------------------------------------------------------
(* Types *)

\* Two finite sets together have at most as many elements as the sum of both.
LEMMA UnionBound ==
  ASSUME NEW S, NEW T, IsFiniteSet(S), IsFiniteSet(T)
  PROVE  /\ IsFiniteSet(S \cup T) /\ Cardinality(S \cup T) \in Nat
         /\ Cardinality(S \cup T) <= Cardinality(S) + Cardinality(T)
<1>1. /\ Cardinality(S) \in Nat /\ Cardinality(T) \in Nat /\ Cardinality(S \cap T) \in Nat
  BY FS_CardinalityType, FS_Intersection, Zenon
<1>2. /\ IsFiniteSet(S \cup T)
      /\ Cardinality(S \cup T) = Cardinality(S) + Cardinality(T) - Cardinality(S \cap T)
  BY FS_Union, Zenon
<1>3. Cardinality(S \cup T) \in Nat
  BY <1>2, FS_CardinalityType, Zenon
<1> QED BY <1>1, <1>2, <1>3, SMT

\* One element more makes a finite set larger by one at most.
LEMMA OneMore ==
  ASSUME NEW S, NEW x, IsFiniteSet(S)
  PROVE  /\ IsFiniteSet(S \cup {x}) /\ Cardinality(S \cup {x}) \in Nat
         /\ Cardinality(S \cup {x}) <= Cardinality(S) + 1
<1>1. IsFiniteSet({x}) /\ Cardinality({x}) = 1
  BY FS_Singleton, Zenon
<1> QED BY <1>1, UnionBound

\* There is always a waker object that nothing refers to.
LEMMA FreshWaker ==
  ASSUME waker = NoWaker
  PROVE  newWaker \in Wakers /\ ~Referenced(newWaker)
<1> DEFINE W == {wake[w].waker : w \in Workers}
           C == {confirm[c].waker : c \in Confirmers}
           f == [w \in Workers |-> wake[w].waker]
           g == [c \in Confirmers |-> confirm[c].waker]
<1>1. IsFiniteSet(W) /\ Cardinality(W) <= Cardinality(Workers)
  <2>1. f \in Surjection(Workers, W)
    BY DEF Surjection
  <2> QED BY <2>1, FS_Surjection, NotifierAssumption
<1>2. IsFiniteSet(C) /\ Cardinality(C) <= Cardinality(Confirmers)
  <2>1. g \in Surjection(Confirmers, C)
    BY DEF Surjection
  <2> QED BY <2>1, FS_Surjection, NotifierAssumption
<1> DEFINE D == (W \cup C) \cup {pump.waker}
           R == D \cup {confirmedBy}
<1> HIDE DEF W, C
<1>0. /\ Cardinality(Workers) \in Nat /\ Cardinality(Confirmers) \in Nat
      /\ Cardinality(Wakers) \in Nat
      /\ Cardinality(Workers) + Cardinality(Confirmers) + 2 < Cardinality(Wakers)
  BY FS_CardinalityType, NotifierAssumption, Zenon
<1>3. /\ IsFiniteSet(W \cup C) /\ Cardinality(W \cup C) \in Nat
      /\ Cardinality(W \cup C) <= Cardinality(W) + Cardinality(C)
  BY <1>1, <1>2, UnionBound, Zenon
<1>4. IsFiniteSet(D) /\ Cardinality(D) \in Nat /\ Cardinality(D) <= Cardinality(W \cup C) + 1
  BY <1>3, OneMore, Zenon
<1> HIDE DEF D
<1>5. IsFiniteSet(R) /\ Cardinality(R) \in Nat /\ Cardinality(R) <= Cardinality(D) + 1
  BY <1>4, OneMore, Zenon
<1> HIDE DEF R
<1>6. Cardinality(R) < Cardinality(Wakers)
  <2>1. Cardinality(W) \in Nat /\ Cardinality(C) \in Nat
    BY <1>1, <1>2, FS_CardinalityType, Zenon
  <2> QED BY <1>0, <1>1, <1>2, <1>3, <1>4, <1>5, <2>1, SMT
<1>7. PICK k \in Wakers : k \notin R
  <2> SUFFICES ASSUME Wakers \subseteq R PROVE FALSE
    BY Zenon
  <2>1. Cardinality(Wakers) <= Cardinality(R)
    BY <1>5, FS_Subset, Zenon
  <2> QED BY <1>0, <1>5, <1>6, <2>1, SMT
<1>8. ~Referenced(k)
  <2>1. k \notin W /\ k \notin C /\ k # pump.waker /\ k # confirmedBy
    BY <1>7, Zenon DEF R, D
  <2>2. k # waker
    BY NotifierAssumption
  <2> QED BY <2>1, <2>2, Zenon DEF Referenced, W, C
<1> QED BY <1>8, Zenon DEF newWaker

\* What a worker arms, a confirmation captures and the pump looked up are wakers or nil.
LEMMA NotifierTypes ==
  ASSUME NotifierTypeOK
  PROVE  /\ \A w \in Workers : wakeChan(w) \/ Disarm(w) => NotifierTypeOK'
         /\ NotifierStep \/ notifierClose \/ notifierWakeAll => NotifierTypeOK'
         /\ UNCHANGED notifierVars => NotifierTypeOK'
<1> DEFINE Fields == [pc: {"idle", "calling", "nil", "error"}, waker: Wakers \cup {NoWaker}]
<1>1. ASSUME NEW w \in Workers, wakeChan(w) PROVE NotifierTypeOK'
  <2>1. CASE nclosed
    <3>1. /\ wake' = [wake EXCEPT ![w] = NilChan]
          /\ UNCHANGED <<waker, pump, inFlight, confirm, listening, nclosed, forgets, registered,
                         stream, confirmedBy>>
      BY <1>1, <2>1, Zenon DEF wakeChan
    <3>2. wake' \in [Workers -> Handle]
      BY <3>1 DEF NotifierTypeOK, Handle, NilChan
    <3> QED BY <3>1, <3>2, Zenon DEF NotifierTypeOK
  <2>2. CASE ~nclosed
    <3> DEFINE k == IF waker = NoWaker THEN newWaker ELSE waker
    <3>1. k \in Wakers
      BY FreshWaker DEF NotifierTypeOK
    <3> HIDE DEF k
    <3>2. /\ waker' = k
          /\ pump' = IF pump.pc = "none" THEN [pump EXCEPT !.pc = "range"] ELSE pump
          /\ SpawnConfirm(k)
          /\ wake' = [wake EXCEPT ![w] = [waker |-> k, fired |-> FALSE]]
          /\ UNCHANGED <<listening, nclosed, forgets, registered, stream, confirmedBy>>
      BY <1>1, <2>2, Zenon DEF wakeChan, k
    <3>3. wake' \in [Workers -> Handle]
      BY <3>1, <3>2 DEF NotifierTypeOK, Handle
    <3>4. confirm' \in [Confirmers -> Fields]
      <4>1. confirm \in [Confirmers -> Fields]
        BY Zenon DEF NotifierTypeOK
      <4>2. CASE listening \/ inFlight
        BY <3>2, <4>1, <4>2, Zenon DEF SpawnConfirm
      <4>3. CASE ~(listening \/ inFlight)
        <5>1. PICK c : confirm' = [confirm EXCEPT ![c] = [pc |-> "calling", waker |-> k]]
          BY <3>2, <4>3, Zenon DEF SpawnConfirm
        <5>2. [pc |-> "calling", waker |-> k] \in Fields
          BY <3>1
        <5> HIDE DEF Fields
        <5> QED BY <4>1, <5>1, <5>2, Zenon
      <4> QED BY <4>2, <4>3, Zenon
    <3>6. inFlight' \in BOOLEAN
      BY <3>2, Zenon DEF NotifierTypeOK, SpawnConfirm
    <3>5. pump' \in [pc: {"none", "range", "signal", "last", "exited"}, waker: Wakers \cup {NoWaker}]
      BY <3>2 DEF NotifierTypeOK
    <3> QED BY <3>1, <3>2, <3>3, <3>4, <3>5, <3>6, Zenon DEF NotifierTypeOK
  <2> QED BY <2>1, <2>2
<1>2. ASSUME NEW w \in Workers, Disarm(w) PROVE NotifierTypeOK'
  <2>1. wake' \in [Workers -> Handle]
    BY <1>2 DEF Disarm, NotifierTypeOK, Handle, NilChan
  <2> QED BY <1>2, <2>1, Zenon DEF Disarm, NotifierTypeOK
<1>3. ASSUME NEW c \in Confirmers, ListenAnswers(c) PROVE NotifierTypeOK'
  <2>1. confirm' \in [Confirmers -> Fields]
    BY <1>3 DEF ListenAnswers, NotifierTypeOK
  <2>2. registered' \in BOOLEAN
    BY <1>3, Zenon DEF ListenAnswers, NotifierTypeOK
  <2> QED BY <1>3, <2>1, <2>2, Zenon DEF ListenAnswers, NotifierTypeOK
<1>4. ASSUME NEW c \in Confirmers, confirmListen(c) PROVE NotifierTypeOK'
  <2>1. confirm' \in [Confirmers -> Fields]
    BY <1>4 DEF confirmListen, NotifierTypeOK, Idle
  <2>2. /\ listening' \in BOOLEAN /\ inFlight' \in BOOLEAN
        /\ confirmedBy' \in Wakers \cup {NoWaker}
    BY <1>4, Zenon DEF confirmListen, NotifierTypeOK
  <2> QED BY <1>4, <2>1, <2>2, Zenon DEF confirmListen, NotifierTypeOK
<1>5. ASSUME NEW f \in Forgets, forget(f) \/ forgetUnlistens(f) PROVE NotifierTypeOK'
  <2>1. forgets' \in [Forgets -> {"idle", "unlisten", "returned"}]
    BY <1>5 DEF forget, forgetUnlistens, NotifierTypeOK
  <2> QED BY <1>5, <2>1, Zenon DEF forget, forgetUnlistens, NotifierTypeOK
<1>6. PumpTakes => NotifierTypeOK'
  <2> DEFINE Pumps == [pc: {"none", "range", "signal", "last", "exited"},
                       waker: Wakers \cup {NoWaker}]
  <2>1. PumpTakes => stream' \in Nat /\ pump' \in Pumps
    BY DEF PumpTakes, NotifierTypeOK
  <2> QED BY <2>1, Zenon DEF PumpTakes, NotifierTypeOK
<1>7. ASSUME NEW k PROVE signal(k) => wake' \in [Workers -> Handle]
  <2>1. ASSUME NEW h \in Handle PROVE [h EXCEPT !.fired = TRUE] \in Handle
    BY <2>1, Zenon DEF Handle
  <2>2. wake \in [Workers -> Handle]
    BY Zenon DEF NotifierTypeOK
  <2>3. ASSUME signal(k), NEW w \in Workers PROVE wake'[w] \in Handle
    BY <2>1, <2>2, <2>3, Zenon DEF signal
  <2> QED BY <2>3, Zenon DEF signal
<1>8. PumpSignals => NotifierTypeOK'
  <2> DEFINE Pumps == [pc: {"none", "range", "signal", "last", "exited"},
                       waker: Wakers \cup {NoWaker}]
  <2>1. PumpSignals => pump' \in Pumps
    BY DEF PumpSignals, NotifierTypeOK
  <2> QED BY <1>7, <2>1, Zenon DEF PumpSignals, NotifierTypeOK
<1>9. PumpPanics \/ PumpExits => NotifierTypeOK'
  <2> DEFINE Pumps == [pc: {"none", "range", "signal", "last", "exited"},
                       waker: Wakers \cup {NoWaker}]
  <2>1. PumpPanics \/ PumpExits => pump' \in Pumps
    BY DEF PumpPanics, PumpExits, NotifierTypeOK
  <2> QED BY <2>1, Zenon DEF PumpPanics, PumpExits, NotifierTypeOK
<1>10. notifierClose => NotifierTypeOK'
  BY Zenon DEF notifierClose, NotifierTypeOK
<1>11. notifierWakeAll => NotifierTypeOK'
  BY <1>7, Zenon DEF notifierWakeAll, NotifierTypeOK
<1>12. UNCHANGED notifierVars => NotifierTypeOK'
  BY Zenon DEF notifierVars, NotifierTypeOK
<1>13. NotifierStep => NotifierTypeOK'
  BY <1>3, <1>4, <1>5, <1>6, <1>8, <1>9, Zenon
     DEF NotifierStep, Confirming, Forgetting, Pumping
<1> QED BY <1>1, <1>2, <1>10, <1>11, <1>12, <1>13, Zenon

MessageTypes ==
  /\ msgs \in [Messages -> {"absent", "fresh", "visible", "claimed", "acked"}]
  /\ paused \in BOOLEAN

ConsumeTypes ==
  /\ loop \in {"idle", "checked", "running", "returned"} /\ loopCanceled \in BOOLEAN
  /\ pc \in [Workers -> {"off", "fetch", "receive", "empty", "wait", "backoff", "handle", "record", "done"}]
  /\ held \in [Workers -> Messages \cup {NoMessage}]
  /\ result \in [Workers -> {"nil", "error"}]
  /\ fails \in [Workers -> 0..MaxTransient]
  /\ unrecorded \subseteq Messages /\ unanswered \subseteq Messages

CloseTypes ==
  /\ closed \in BOOLEAN /\ bgCanceled \in BOOLEAN /\ gcs \in BOOLEAN
  /\ closer \in [Closers -> {"never", "idle", "cancel", "stop", "joinGC", "joinWorkers",
                             "notifier", "wakeAll", "joinNotifier", "returned"}]
  /\ closedBy \in Closers \cup {NoCloser}

CollectorTypes ==
  /\ gc \in {"never", "none", "new", "starting", "pass", "tick", "exited"}
  /\ stopper \in {"idle", "join", "returned"} /\ stopChan \in BOOLEAN
  /\ todo \subseteq Queues /\ inflight \subseteq Queues /\ dispatchDone \in BOOLEAN

\* The type invariant, by component.
LEMMA TypeParts ==
  TypeOK <=> /\ NotifierTypeOK /\ mix \in Mixes
             /\ MessageTypes /\ ConsumeTypes /\ CloseTypes /\ CollectorTypes
  BY Zenon DEF TypeOK, MessageTypes, ConsumeTypes, CloseTypes, CollectorTypes

\* A step of the database keeps the types.
LEMMA DbTypes ==
  ASSUME TypeOK, DbStep
  PROVE  MessageTypes' /\ stream' \in Nat
<1>0. MessageTypes /\ stream \in Nat
  BY TypeParts, Zenon DEF NotifierTypeOK
<1>1. ASSUME NEW m \in Messages, Publish(m) PROVE MessageTypes' /\ stream' \in Nat
  <2>1. msgs' \in [Messages -> {"absent", "fresh", "visible", "claimed", "acked"}] /\ stream' \in Nat
    BY <1>0, <1>1 DEF Publish, MessageTypes
  <2> QED BY <1>0, <1>1, <2>1, Zenon DEF Publish, MessageTypes
<1>2. Outage => MessageTypes' /\ stream' \in Nat
  <2>1. Outage => /\ msgs' \in [Messages -> {"absent", "fresh", "visible", "claimed", "acked"}]
                  /\ stream' \in Nat
    BY <1>0 DEF Outage, PassedOver, MessageTypes
  <2> QED BY <1>0, <2>1, Zenon DEF Outage, MessageTypes
<1>3. setQueuePaused => MessageTypes' /\ stream' \in Nat
  BY <1>0, Zenon DEF setQueuePaused, notifierVars, MessageTypes
<1> QED BY <1>1, <1>2, <1>3, Zenon DEF DbStep

\* ConsumeChannel keeps the types.
LEMMA LoopTypes ==
  ASSUME TypeOK, LoopStep
  PROVE  ConsumeTypes'
<1>0. ConsumeTypes
  BY TypeParts, Zenon
<1>1. ConsumeChannel => ConsumeTypes'
  BY <1>0, Zenon DEF ConsumeChannel, lost, ConsumeTypes
<1>2. trackWorker => ConsumeTypes'
  <2>1. StartWorkers =>
          pc' \in [Workers -> {"off", "fetch", "receive", "empty", "wait", "backoff", "handle", "record", "done"}]
    BY DEF StartWorkers
  <2> QED BY <1>0, <2>1, Zenon DEF trackWorker, StartWorkers, lost, ConsumeTypes
<1>3. watchClose \/ CallerCancels => ConsumeTypes'
  BY <1>0, Zenon DEF watchClose, CallerCancels, lost, ConsumeTypes
<1>4. LoopReturns => ConsumeTypes'
  BY <1>0, Zenon DEF LoopReturns, lost, ConsumeTypes
<1> QED BY <1>1, <1>2, <1>3, <1>4, Zenon DEF LoopStep

\* A Receive that returns an error claimed no message, or one that it notes as unanswered.
LEMMA LostReceive ==
  ASSUME TypeOK, ReceiveLost
  PROVE  /\ UNCHANGED <<paused, unrecorded>> /\ MessageTypes'
         /\ unanswered \subseteq unanswered' /\ unanswered' \subseteq Messages
         /\ \A m \in Messages : /\ msgs'[m] = "claimed" => msgs[m] = "claimed" \/ m \in unanswered'
                                /\ msgs'[m] = "fresh" => msgs[m] = "fresh"
<1>0. MessageTypes /\ ConsumeTypes
  BY TypeParts, Zenon
<1>1. CASE UNCHANGED <<messages, lost>>
  BY <1>0, <1>1, Zenon DEF messages, lost, MessageTypes, ConsumeTypes
<1>2. ASSUME NEW m \in Visible, msgs' = [msgs EXCEPT ![m] = "claimed"],
             unanswered' = unanswered \cup {m}, UNCHANGED <<paused, unrecorded>>
      PROVE  /\ MessageTypes'
             /\ unanswered \subseteq unanswered' /\ unanswered' \subseteq Messages
             /\ \A n \in Messages : /\ msgs'[n] = "claimed" => msgs[n] = "claimed" \/ n \in unanswered'
                                    /\ msgs'[n] = "fresh" => msgs[n] = "fresh"
  BY <1>0, <1>2 DEF Visible, MessageTypes, ConsumeTypes
<1> QED BY <1>1, <1>2, Zenon DEF ReceiveLost

\* A worker that handles a message or records its result holds one: TypeOK does not say so,
\* and without it the ghost of refused results would not be typed.
Handling == \A w \in Workers : pc[w] \in {"handle", "record"} => held[w] \in Messages

\* A worker keeps the types.
LEMMA WorkerTypes ==
  ASSUME TypeOK, Handling, NEW w \in Workers, handlerWorker(w)
  PROVE  ConsumeTypes' /\ MessageTypes'
<1> DEFINE Places == {"off", "fetch", "receive", "empty", "wait", "backoff", "handle", "record", "done"}
           States == {"absent", "fresh", "visible", "claimed", "acked"}
           Typed == ConsumeTypes' /\ MessageTypes'
<1>0. ConsumeTypes /\ MessageTypes /\ UNCHANGED paused
  BY TypeParts, WorkerFrame, Zenon
<1>1. ASSUME NEW p \in Places, pc' = [pc EXCEPT ![w] = p] PROVE pc' \in [Workers -> Places]
  BY <1>0, <1>1 DEF ConsumeTypes
<1>2. ASSUME NEW p \in Places, Goto(w, p) PROVE Typed
  BY <1>0, <1>1, <1>2, Zenon DEF Goto, lost, ConsumeTypes, MessageTypes, messages
<1>3. setFatal(w) \/ StopsQuietly(w) => /\ pc' \in [Workers -> Places] /\ loopCanceled' \in BOOLEAN
                                        /\ UNCHANGED <<loop, held, result, fails>>
  BY <1>0, <1>1, Zenon DEF setFatal, StopsQuietly, ConsumeTypes
<1>4. armWake(w) \/ WaitBegins(w) \/ waitForWork(w) => Typed
  BY <1>2, Zenon DEF armWake, WaitBegins, waitForWork
<1>5. ReceiveEmpty(w) => Typed
  <2>1. ReceiveEmpty(w) => msgs' \in [Messages -> States]
    BY <1>0 DEF ReceiveEmpty, PassedOver, MessageTypes
  <2>2. ReceiveEmpty(w) => fails' \in [Workers -> 0..MaxTransient]
    BY <1>0, RuntimeAssumption DEF ReceiveEmpty, ConsumeTypes
  <2> QED BY <1>0, <1>1, <2>1, <2>2, Zenon DEF ReceiveEmpty, lost, ConsumeTypes, MessageTypes
<1>6. ReceiveFails(w) => Typed
  <2>1. ReceiveFails(w) => ReceiveLost /\ (setFatal(w) \/ StopsQuietly(w))
    BY Zenon DEF ReceiveFails, ReceiveLost
  <2> QED BY <1>0, <1>3, <2>1, LostReceive, Zenon DEF ConsumeTypes
<1>7. retryTransient(w) => Typed
  <2>1. ASSUME fails[w] < MaxTransient, fails' = [fails EXCEPT ![w] = @ + 1]
        PROVE  fails' \in [Workers -> 0..MaxTransient]
    BY <1>0, <2>1, RuntimeAssumption DEF ConsumeTypes
  <2>2. retryTransient(w) => /\ pc' \in [Workers -> Places] /\ loopCanceled' \in BOOLEAN
                             /\ UNCHANGED <<loop, held, result>>
    BY <1>0, <1>1, <1>3, Zenon DEF retryTransient, ConsumeTypes
  <2>3. retryTransient(w) => ReceiveLost /\ fails' \in [Workers -> 0..MaxTransient]
    BY <1>0, <1>3, <2>1, Zenon DEF retryTransient, ConsumeTypes
  <2> QED BY <1>0, <2>2, <2>3, LostReceive, Zenon DEF ConsumeTypes
<1>8. callHandler(w) => Typed
  <2>1. callHandler(w) => result' \in [Workers -> {"nil", "error"}]
    BY <1>0 DEF callHandler, ConsumeTypes
  <2> QED BY <1>0, <1>1, <2>1, Zenon DEF callHandler, lost, ConsumeTypes, MessageTypes, messages
<1>9. dispatchToHandler(w) => Typed
  <2>1. dispatchToHandler(w) => msgs' \in [Messages -> States]
    BY <1>0 DEF dispatchToHandler, Recorded, MessageTypes
  <2>2. dispatchToHandler(w) => /\ held' \in [Workers -> Messages \cup {NoMessage}]
                                /\ result' \in [Workers -> {"nil", "error"}]
    BY <1>0 DEF dispatchToHandler, ConsumeTypes
  <2>3. dispatchToHandler(w) => unrecorded' \subseteq Messages
    <3>1. dispatchToHandler(w) => held[w] \in Messages
      BY Zenon DEF dispatchToHandler, Handling
    <3>2. dispatchToHandler(w) => UNCHANGED unrecorded \/ unrecorded' = unrecorded \cup {held[w]}
      BY Zenon DEF dispatchToHandler, Recorded
    <3>3. unrecorded \subseteq Messages
      BY <1>0, Zenon DEF ConsumeTypes
    <3> QED BY <3>1, <3>2, <3>3
  <2> QED BY <1>0, <1>1, <2>1, <2>2, <2>3, Zenon DEF dispatchToHandler, ConsumeTypes, MessageTypes
<1>10. ASSUME NEW m \in Messages, ReceiveMessage(w, m) PROVE Typed
  <2>1. msgs' \in [Messages -> States]
    BY <1>0, <1>10 DEF ReceiveMessage, MessageTypes
  <2>2. /\ held' \in [Workers -> Messages \cup {NoMessage}]
        /\ fails' \in [Workers -> 0..MaxTransient]
    BY <1>0, <1>10, RuntimeAssumption DEF ReceiveMessage, ConsumeTypes
  <2> QED BY <1>0, <1>1, <1>10, <2>1, <2>2, Zenon DEF ReceiveMessage, lost, ConsumeTypes, MessageTypes
<1> HIDE DEF Typed
<1>11. Typed
  BY <1>4, <1>5, <1>6, <1>7, <1>8, <1>9, <1>10, Zenon DEF handlerWorker
<1> QED BY <1>11 DEF Typed

\* The collector keeps the types.
LEMMA CollectTypes ==
  ASSUME TypeOK, CollectorStep
  PROVE  CollectorTypes' /\ gcs' \in BOOLEAN
<1>0. CollectorTypes /\ closed \in BOOLEAN /\ gcs \in BOOLEAN
  BY TypeParts, Zenon DEF CloseTypes
<1>1. NewGarbageCollector => CollectorTypes' /\ gcs' \in BOOLEAN
  BY <1>0, Zenon DEF NewGarbageCollector, CollectorTypes, pass
<1>2. Start \/ Stop \/ runStops => CollectorTypes' /\ gcs' \in BOOLEAN
  BY <1>0, Zenon DEF Start, Stop, runStops, CollectorTypes, pass, shutdown
<1>3. run => CollectorTypes' /\ gcs' \in BOOLEAN
  BY <1>0, Zenon DEF run, CollectBegins, CollectorTypes, shutdown
<1>4. CollectEnds => CollectorTypes' /\ gcs' \in BOOLEAN
  BY <1>0, Zenon DEF CollectEnds, CollectorTypes, shutdown
<1>5. ASSUME NEW q \in Queues, dispatchCollect(q) PROVE CollectorTypes' /\ gcs' \in BOOLEAN
  BY <1>0, <1>5, Zenon DEF dispatchCollect, CollectorTypes, shutdown
<1>6. ASSUME NEW q \in Queues, collectQueueWorker(q) PROVE CollectorTypes' /\ gcs' \in BOOLEAN
  BY <1>0, <1>6, Zenon DEF collectQueueWorker, CollectorTypes, shutdown
<1> QED BY <1>1, <1>2, <1>3, <1>4, <1>5, <1>6, Zenon DEF CollectorStep, GC

\* Close keeps the types.
LEMMA ClosingTypes ==
  ASSUME TypeOK, CloseStep
  PROVE  CloseTypes' /\ stopChan' \in BOOLEAN
<1> DEFINE Phases == {"never", "idle", "cancel", "stop", "joinGC", "joinWorkers",
                      "notifier", "wakeAll", "joinNotifier", "returned"}
           Typed == CloseTypes' /\ stopChan' \in BOOLEAN
<1>0. CloseTypes /\ stopChan \in BOOLEAN
  BY TypeParts, Zenon DEF CollectorTypes
<1> SUFFICES ASSUME NEW k \in Closers, Close(k) \/ Closing(k) PROVE Typed
  BY Zenon DEF CloseStep
<1>1. ASSUME NEW from, NEW to \in Phases, CloseAt(k, from, to)
      PROVE  closer' \in [Closers -> Phases] /\ UNCHANGED gcs
  BY <1>0, <1>1 DEF CloseAt, CloseTypes
<1>2. Close(k) => Typed
  BY <1>0, <1>1, Zenon DEF Close, CloseTypes
<1>3. CloseCancels(k) => Typed
  BY <1>0, <1>1, Zenon DEF CloseCancels, CloseTypes
<1>4. CloseStops(k) => Typed
  BY <1>0, <1>1, Zenon DEF CloseStops, CloseTypes
<1>5. CloseJoinsWorkers(k) => Typed
  BY <1>0, <1>1, Zenon DEF CloseJoinsWorkers, CloseTypes
<1>6. CloseNotifier(k) => Typed
  BY <1>0, <1>1, Zenon DEF CloseNotifier, CloseTypes
<1> QED BY <1>2, <1>3, <1>4, <1>5, <1>6, Zenon DEF Closing

\* Only Receive lets a worker handle a message, and gives it one.
LEMMA HandlingStep ==
  ASSUME TypeOK, Handling, [Next]_vars
  PROVE  Handling'
<1>0. /\ DOMAIN pc = Workers /\ DOMAIN held = Workers
      /\ pc = [w \in Workers |-> pc[w]] /\ held = [w \in Workers |-> held[w]]
  BY TypeParts DEF ConsumeTypes
<1> DEFINE Ok(v) == pc'[v] \in {"handle", "record"} => held'[v] \in Messages
<1>1. ASSUME UNCHANGED pc, UNCHANGED held PROVE Handling'
  BY <1>1, Zenon DEF Handling
<1>2. ASSUME LoopStep PROVE Handling'
  <2>1. UNCHANGED pc \/ StartWorkers
    BY <1>2, Zenon DEF LoopStep, ConsumeChannel, trackWorker, watchClose, CallerCancels, LoopReturns
  <2>2. UNCHANGED held
    BY <1>2, LoopFrame, Zenon
  <2>3. CASE StartWorkers
    BY <2>3 DEF StartWorkers, Handling
  <2> QED BY <1>1, <2>1, <2>2, <2>3, Zenon
<1>3. ASSUME NEW w \in Workers, handlerWorker(w) PROVE Handling'
  <2> SUFFICES ASSUME NEW v \in Workers PROVE Ok(v)
    BY Zenon DEF Handling
  <2>0. pc[v] \in {"handle", "record"} => held[v] \in Messages
    BY Zenon DEF Handling
  <2>1. ASSUME NEW p, p \notin {"handle", "record"}, pc' = [pc EXCEPT ![w] = p], UNCHANGED held
        PROVE  Ok(v)
    BY <1>0, <2>0, <2>1
  <2>2. ASSUME NEW p, p \notin {"handle", "record"}, Goto(w, p) PROVE Ok(v)
    BY <2>1, <2>2, Zenon DEF Goto
  <2>3. setFatal(w) \/ StopsQuietly(w) => Ok(v)
    BY <2>1, Zenon DEF setFatal, StopsQuietly
  <2>4. armWake(w) \/ WaitBegins(w) \/ waitForWork(w) \/ ReceiveFails(w) => Ok(v)
    BY <2>2, <2>3 DEF armWake, WaitBegins, waitForWork, ReceiveFails
  <2>5. ReceiveEmpty(w) => Ok(v)
    BY <2>1, Zenon DEF ReceiveEmpty
  <2>6. retryTransient(w) => Ok(v)
    BY <2>1, <2>3 DEF retryTransient
  <2>7. callHandler(w) => Ok(v)
    BY <1>0, <2>0 DEF callHandler, Handling
  <2>8. dispatchToHandler(w) => Ok(v)
    BY <1>0, <2>0 DEF dispatchToHandler
  <2>9. ASSUME NEW m \in Messages, ReceiveMessage(w, m) PROVE Ok(v)
    BY <1>0, <2>0, <2>9 DEF ReceiveMessage
  <2> HIDE DEF Ok
  <2> QED BY <1>3, <2>4, <2>5, <2>6, <2>7, <2>8, <2>9, Zenon DEF handlerWorker
<1>4. ASSUME UNCHANGED consume PROVE Handling'
  BY <1>1, <1>4, Zenon DEF consume
<1>5. DbStep \/ CollectorStep \/ CloseStep \/ NotifierStep \/ UNCHANGED vars => UNCHANGED consume
  BY DbFrame, CollectorFrame, CloseFrame, Zenon DEF NotifierStep, vars
<1> QED BY <1>2, <1>3, <1>4, <1>5, Families, Zenon

\* Every step keeps the types.
LEMMA TypeStep ==
  ASSUME TypeOK, Handling, [Next]_vars
  PROVE  TypeOK'
<1>0. /\ NotifierTypeOK /\ mix \in Mixes
      /\ MessageTypes /\ ConsumeTypes /\ CloseTypes /\ CollectorTypes
  BY TypeParts, Zenon
<1> DEFINE Typed == /\ NotifierTypeOK' /\ (mix \in Mixes)'
                    /\ MessageTypes' /\ ConsumeTypes' /\ CloseTypes' /\ CollectorTypes'
<1>1. /\ UNCHANGED messages => MessageTypes'
      /\ UNCHANGED consume => ConsumeTypes'
      /\ UNCHANGED shutdown => CloseTypes'
      /\ UNCHANGED collector => CollectorTypes'
  <2>1. UNCHANGED messages => MessageTypes'
    BY <1>0, Zenon DEF messages, MessageTypes
  <2>2. UNCHANGED consume => ConsumeTypes'
    BY <1>0, Zenon DEF consume, lost, ConsumeTypes
  <2>3. UNCHANGED shutdown => CloseTypes'
    BY <1>0, Zenon DEF shutdown, CloseTypes
  <2>4. UNCHANGED collector => CollectorTypes'
    BY <1>0, Zenon DEF collector, pass, CollectorTypes
  <2> QED BY <2>1, <2>2, <2>3, <2>4, Zenon
<1>2. DbStep => Typed
  <2>1. DbStep => NotifierTypeOK'
    BY <1>0, DbFrame, DbTypes, Zenon DEF NotifierTypeOK
  <2> QED BY <1>0, <1>1, <2>1, DbFrame, DbTypes, Zenon
<1>3. LoopStep => Typed
  BY <1>0, <1>1, LoopFrame, LoopTypes, NotifierTypes, Zenon
<1>4. ASSUME NEW w \in Workers, handlerWorker(w) PROVE Typed
  BY <1>0, <1>1, <1>4, WorkerFrame, WorkerTypes, NotifierTypes, Zenon
<1>5. CollectorStep => Typed
  <2>1. CollectorStep => CloseTypes'
    BY <1>0, CollectorFrame, CollectTypes, Zenon DEF CloseTypes
  <2> QED BY <1>0, <1>1, <2>1, CollectorFrame, CollectTypes, NotifierTypes, Zenon
<1>6. CloseStep => Typed
  <2>1. CloseStep => CollectorTypes'
    BY <1>0, CloseFrame, ClosingTypes, Zenon DEF CollectorTypes, pass
  <2> QED BY <1>0, <1>1, <2>1, CloseFrame, ClosingTypes, NotifierTypes, Zenon
<1>7. NotifierStep => Typed
  BY <1>0, <1>1, NotifierTypes, Zenon DEF NotifierStep
<1>8. UNCHANGED vars => Typed
  BY <1>0, <1>1, NotifierTypes, Zenon DEF vars
<1> HIDE DEF Typed
<1>9. Typed
  BY <1>2, <1>3, <1>4, <1>5, <1>6, <1>7, <1>8, Families, Zenon
<1> QED BY <1>9, Zenon DEF Typed, TypeOK, MessageTypes, ConsumeTypes, CloseTypes, CollectorTypes

-----------------------------------------------------------------------------
(* Every handler's result is recorded *)

Handles(w, m) == pc[w] \in {"handle", "record"} /\ held[w] = m

\* A message in flight has a worker that will record its result, or the database refused it;
\* and workers run only while the call of ConsumeChannel does.
Off(m) == m \in unrecorded \cup unanswered

RecordInv ==
  /\ loop # "running" => \A w \in Workers : pc[w] \in {"off", "done"}
  /\ \A m \in Messages : msgs[m] = "claimed" =>
        Off(m) \/ \E w \in Workers : Handles(w, m)

\* No step of a worker loses the message it holds.
LEMMA WorkerRecords ==
  ASSUME TypeOK, RecordInv, NEW w \in Workers, handlerWorker(w),
         NEW m \in Messages, msgs'[m] = "claimed"
  PROVE  Off(m)' \/ \E v \in Workers : Handles(v, m)'
<1> DEFINE Kept == Off(m)' \/ \E v \in Workers : Handles(v, m)'
<1>0. /\ pc \in [Workers -> {"off", "fetch", "receive", "empty", "wait", "backoff", "handle", "record", "done"}]
      /\ held \in [Workers -> Messages \cup {NoMessage}]
      /\ msgs \in [Messages -> {"absent", "fresh", "visible", "claimed", "acked"}]
  BY TypeParts, Zenon DEF ConsumeTypes, MessageTypes
<1>1. msgs[m] = "claimed" => Off(m) \/ \E v \in Workers : Handles(v, m)
  BY Zenon DEF RecordInv
<1>2. ASSUME NEW p, pc' = [pc EXCEPT ![w] = p], pc[w] \notin {"handle", "record"},
             msgs[m] = "claimed", UNCHANGED held, Off(m) => Off(m)'
      PROVE  Kept
  BY <1>0, <1>1, <1>2 DEF Handles
<1>3. ASSUME NEW p, Goto(w, p), pc[w] \notin {"handle", "record"} PROVE Kept
  BY <1>2, <1>3, Zenon DEF Goto, messages, lost, Off
<1>4. ASSUME ReceiveLost, NEW p, pc' = [pc EXCEPT ![w] = p], pc[w] = "receive", UNCHANGED held
      PROVE  Kept
  <2>0. /\ UNCHANGED unrecorded /\ unanswered \subseteq unanswered'
        /\ \A n \in Messages : msgs'[n] = "claimed" => msgs[n] = "claimed" \/ n \in unanswered'
    BY <1>4, LostReceive, Zenon
  <2>1. Off(m) => Off(m)'
    BY <2>0 DEF Off
  <2>2. msgs[m] = "claimed" \/ Off(m)'
    BY <2>0 DEF Off
  <2> QED BY <1>2, <1>4, <2>1, <2>2, Zenon DEF Kept
<1>5. armWake(w) \/ WaitBegins(w) \/ waitForWork(w) \/ ReceiveFails(w) => Kept
  <2>1. armWake(w) => Kept
    BY <1>3 DEF armWake
  <2>2. WaitBegins(w) => Kept
    BY <1>3 DEF WaitBegins
  <2>3. waitForWork(w) => Kept
    BY <1>3 DEF waitForWork
  <2>4. ReceiveFails(w) => Kept
    BY <1>4, Zenon DEF ReceiveFails, setFatal, StopsQuietly, ReceiveLost
  <2> QED BY <2>1, <2>2, <2>3, <2>4, Zenon
<1>6. ReceiveEmpty(w) => Kept
  <2>1. ReceiveEmpty(w) => msgs[m] = "claimed" /\ pc[w] \notin {"handle", "record"}
    BY <1>0 DEF ReceiveEmpty, PassedOver
  <2> QED BY <1>2, <2>1, Zenon DEF ReceiveEmpty, lost, Off
<1>7. retryTransient(w) => Kept
  BY <1>4, Zenon DEF retryTransient, setFatal
<1>8. callHandler(w) => Kept
  BY <1>0, <1>1 DEF callHandler, Handles, messages, lost, Off
<1>9. dispatchToHandler(w) => Kept
  <2>1. ASSUME dispatchToHandler(w), m = held[w] PROVE Kept
    BY <1>0, <2>1 DEF dispatchToHandler, Recorded, Off
  <2>2. ASSUME dispatchToHandler(w), m # held[w] PROVE Kept
    <3>1. msgs[m] = "claimed" /\ (Off(m) => Off(m)')
      BY <1>0, <2>2 DEF dispatchToHandler, Recorded, Off
    <3>2. \A v \in Workers : Handles(v, m) => Handles(v, m)'
      BY <1>0, <2>2 DEF dispatchToHandler, Handles
    <3> QED BY <1>1, <3>1, <3>2, Zenon
  <2> QED BY <2>1, <2>2, Zenon
<1>10. ASSUME NEW n \in Messages, ReceiveMessage(w, n) PROVE Kept
  <2>1. m = n => Handles(w, m)'
    BY <1>0, <1>10 DEF ReceiveMessage, Handles
  <2>2. m # n => msgs[m] = "claimed" /\ (Off(m) => Off(m)')
    BY <1>0, <1>10 DEF ReceiveMessage, lost, Off
  <2>3. \A v \in Workers : m # n /\ Handles(v, m) => Handles(v, m)'
    BY <1>0, <1>10 DEF ReceiveMessage, Handles
  <2> QED BY <1>1, <2>1, <2>2, <2>3, Zenon
<1> HIDE DEF Kept
<1>11. Kept
  BY <1>5, <1>6, <1>7, <1>8, <1>9, <1>10, Zenon DEF handlerWorker
<1> QED BY <1>11 DEF Kept

\* Every step keeps RecordInv.
LEMMA RecordStep ==
  ASSUME TypeOK, RecordInv, [Next]_vars
  PROVE  RecordInv'
<1>1. ASSUME UNCHANGED consume, \A m \in Messages : msgs'[m] = "claimed" => msgs[m] = "claimed"
      PROVE  RecordInv'
  BY <1>1, Zenon DEF RecordInv, Handles, consume, lost, Off
<1>2. DbStep => UNCHANGED consume /\ \A m \in Messages : msgs'[m] = "claimed" => msgs[m] = "claimed"
  <2>1. msgs \in [Messages -> {"absent", "fresh", "visible", "claimed", "acked"}]
    BY TypeParts, Zenon DEF MessageTypes
  <2>2. ASSUME NEW n \in Messages, Publish(n), NEW m \in Messages, msgs'[m] = "claimed"
        PROVE  msgs[m] = "claimed"
    BY <2>1, <2>2 DEF Publish
  <2>3. ASSUME Outage, NEW m \in Messages, msgs'[m] = "claimed" PROVE msgs[m] = "claimed"
    BY <2>1, <2>3 DEF Outage, PassedOver
  <2> QED BY <2>2, <2>3, DbFrame, Zenon DEF DbStep, setQueuePaused
<1>3. CollectorStep \/ CloseStep \/ NotifierStep \/ UNCHANGED vars => UNCHANGED <<consume, msgs>>
  BY CollectorFrame, CloseFrame, Zenon DEF NotifierStep, vars, messages
<1>4. ASSUME LoopStep PROVE RecordInv'
  <2>0. UNCHANGED <<msgs, held>> /\ \A m \in Messages : Off(m) => Off(m)'
    BY <1>4, LoopFrame, Zenon DEF messages, lost, Off
  <2>1. CASE StartWorkers /\ loop = "checked"
    <3>1. \A m \in Messages : msgs[m] = "claimed" => Off(m)
      BY <2>1 DEF RecordInv, Handles
    <3>2. loop' = "running"
      BY <2>1 DEF StartWorkers
    <3> QED BY <2>0, <3>1, <3>2 DEF RecordInv
  <2>2. CASE UNCHANGED pc /\ (loop' = "running" => loop = "running") /\ (loop = "running" => loop' = "running" \/ LoopReturns)
    <3>1. \A m \in Messages, w \in Workers : Handles(w, m) => Handles(w, m)'
      BY <2>0, <2>2, Zenon DEF Handles
    <3>2. loop' # "running" => \A w \in Workers : pc'[w] \in {"off", "done"}
      BY <2>2 DEF RecordInv, LoopReturns
    <3> QED BY <2>0, <3>1, <3>2, Zenon DEF RecordInv
  <2>3. \/ StartWorkers /\ loop = "checked"
        \/ /\ UNCHANGED pc /\ (loop' = "running" => loop = "running")
           /\ loop = "running" => loop' = "running" \/ LoopReturns
    <3>1. ConsumeChannel \/ LoopReturns => UNCHANGED pc /\ loop' # "running"
      BY DEF ConsumeChannel, LoopReturns
    <3>2. ConsumeChannel => loop # "running"
      BY DEF ConsumeChannel
    <3>3. watchClose \/ CallerCancels => UNCHANGED <<pc, loop>>
      BY Zenon DEF watchClose, CallerCancels
    <3>4. trackWorker => \/ StartWorkers /\ loop = "checked"
                         \/ UNCHANGED pc /\ loop' # "running" /\ loop # "running"
      BY DEF trackWorker
    <3> QED BY <1>4, <3>1, <3>2, <3>3, <3>4, Zenon DEF LoopStep
  <2> QED BY <2>1, <2>2, <2>3, Zenon
<1>5. ASSUME NEW w \in Workers, handlerWorker(w) PROVE RecordInv'
  <2>1. pc[w] \notin {"off", "done"}
    BY <1>5 DEF handlerWorker, armWake, ReceiveEmpty, ReceiveFails, retryTransient, WaitBegins,
                waitForWork, callHandler, dispatchToHandler, ReceiveMessage
  <2>2. loop' = "running"
    BY <1>5, <2>1, WorkerFrame, Zenon DEF RecordInv
  <2>3. \A m \in Messages : msgs'[m] = "claimed" =>
           Off(m)' \/ \E v \in Workers : Handles(v, m)'
    BY <1>5, WorkerRecords, Zenon
  <2> QED BY <2>2, <2>3, Zenon DEF RecordInv
<1> QED BY <1>1, <1>2, <1>3, <1>4, <1>5, Families, Zenon

-----------------------------------------------------------------------------
(* Close quiesces *)

\* The Close that found the Queue open has come as far as one of the phases in S.
Reached(S) == closedBy # NoCloser /\ closer[closedBy] \in S

PastCollector == {"joinWorkers", "notifier", "wakeAll", "joinNotifier", "returned"}
PastWorkers == {"notifier", "wakeAll", "joinNotifier", "returned"}
PastMark == {"wakeAll", "joinNotifier", "returned"}

\* Who closes: the call that found the Queue open is the only one beyond the first phase.
CloserInv ==
  /\ closed <=> closedBy # NoCloser
  /\ \A k \in Closers : k # closedBy => closer[k] \in {"never", "idle", "returned"}
  /\ closedBy # NoCloser => closedBy \in Closers /\ closer[closedBy] \notin {"never", "idle"}

\* The collector: a goroutine exists only of a registered one, workers only during a pass.
CollectInv ==
  /\ ~gcs => gc \in {"never", "none"} \/ (gc = "new" /\ closed)
  /\ gc # "pass" => inflight = {}

\* What each join has established stays so: everything that could undo it asks for closed.
JoinedInv ==
  /\ Reached(PastCollector) => ~Collecting
  /\ Reached(PastWorkers) => loop # "running"
  /\ Reached(PastMark) => nclosed
  /\ Reached({"returned"}) => NotifierJoined

CloseInv == CloserInv /\ CollectInv /\ JoinedInv

\* ConsumeChannel starts no worker on a closed Queue.
LEMMA LoopKeepsClose ==
  ASSUME CloseInv, LoopStep
  PROVE  CloseInv'
<1>1. UNCHANGED <<closed, closedBy, closer, gcs, gc, inflight, nclosed, pump, confirm>>
  BY LoopFrame, Zenon DEF shutdown, collector, pass, notifierVars
<1>2. closed /\ loop' = "running" => loop = "running"
  <2>1. ConsumeChannel \/ LoopReturns => loop' # "running"
    BY DEF ConsumeChannel, LoopReturns
  <2>2. watchClose \/ CallerCancels => UNCHANGED loop
    BY Zenon DEF watchClose, CallerCancels
  <2>3. trackWorker /\ closed => loop' # "running"
    BY DEF trackWorker
  <2> QED BY <2>1, <2>2, <2>3, Zenon DEF LoopStep
<1>3. UNCHANGED Collecting /\ UNCHANGED NotifierJoined
  BY <1>1, Zenon DEF Collecting, NotifierJoined
<1>4. \A S : Reached(S)' <=> Reached(S)
  BY <1>1, Zenon DEF Reached
<1>5. CloserInv' /\ CollectInv'
  BY <1>1, Zenon DEF CloseInv, CloserInv, CollectInv
<1>6. Reached(PastWorkers) => closed
  BY Zenon DEF CloseInv, CloserInv, Reached
<1>7. JoinedInv'
  BY <1>1, <1>2, <1>3, <1>4, <1>6, Zenon DEF CloseInv, JoinedInv
<1> QED BY <1>5, <1>7, Zenon DEF CloseInv

\* The notifier, workers and the database: nothing starts again once the notifier is marked.
LEMMA NotifierKeepsClose ==
  ASSUME CloseInv, UNCHANGED <<closed, closedBy, closer, gcs, gc, inflight, loop, nclosed>>,
         nclosed /\ NotifierJoined => NotifierJoined'
  PROVE  CloseInv'
<1>3. UNCHANGED Collecting
  BY Zenon DEF Collecting
<1>4. \A S : Reached(S)' <=> Reached(S)
  BY Zenon DEF Reached
<1>5. CloserInv' /\ CollectInv'
  BY Zenon DEF CloseInv, CloserInv, CollectInv
<1>6. Reached({"returned"}) => nclosed
  BY DEF CloseInv, JoinedInv, Reached, PastMark
<1>7. JoinedInv'
  BY <1>3, <1>4, <1>6, Zenon DEF CloseInv, JoinedInv
<1> QED BY <1>5, <1>7, Zenon DEF CloseInv

\* A closed notifier spawns nothing, and goroutines that ended do not come back.
LEMMA JoinedStays ==
  ASSUME nclosed, NotifierJoined,
         \/ NotifierStep \/ UNCHANGED <<pump, confirm>>
         \/ \E w \in Workers : wakeChan(w) \/ Disarm(w)
  PROVE  NotifierJoined'
<1>0. /\ pump.pc \in {"none", "exited"}
      /\ \A c \in Confirmers : confirm[c].pc = "idle"
  BY DEF NotifierJoined, Idle
<1>1. ASSUME NEW c \in Confirmers, ListenAnswers(c) \/ confirmListen(c) PROVE FALSE
  BY <1>0, <1>1, Zenon DEF ListenAnswers, confirmListen
<1>2. ~Pumping /\ ~PumpPanics
  BY <1>0, Zenon DEF Pumping, PumpTakes, PumpSignals, PumpExits, PumpPanics
<1>3. Forgetting => UNCHANGED <<pump, confirm>>
  BY Zenon DEF Forgetting, forget, forgetUnlistens
<1>4. ASSUME NEW w \in Workers, wakeChan(w) \/ Disarm(w) PROVE UNCHANGED <<pump, confirm>>
  BY <1>4, Zenon DEF wakeChan, Disarm
<1>5. UNCHANGED <<pump, confirm>>
  BY <1>1, <1>2, <1>3, <1>4, Zenon DEF NotifierStep, Confirming
<1> QED BY <1>5, Zenon DEF NotifierJoined

\* The collector of a closed Queue is not started.
LEMMA CollectorKeepsClose ==
  ASSUME CloseInv, CollectorStep
  PROVE  CloseInv'
<1>1. UNCHANGED <<closed, closedBy, closer, loop, nclosed, pump, confirm>>
  BY CollectorFrame, Zenon DEF consume, notifierVars
<1> DEFINE Good == CollectInv' /\ (closed /\ ~Collecting => ~Collecting')
<1>2. NewGarbageCollector => Good
  BY <1>1, Zenon DEF NewGarbageCollector, CloseInv, CollectInv, Collecting, pass
<1>3. Start => Good
  BY <1>1 DEF Start, CloseInv, CollectInv, Collecting, pass, shutdown
<1>4. Stop => Good
  BY <1>1 DEF Stop, CloseInv, CollectInv, Collecting, pass, shutdown
<1>5. run => Good
  BY <1>1 DEF run, CollectBegins, CloseInv, CollectInv, Collecting, shutdown
<1>6. runStops => Good
  BY <1>1 DEF runStops, CloseInv, CollectInv, Collecting, pass, shutdown
<1>7. CollectEnds => Good
  BY <1>1 DEF CollectEnds, CloseInv, CollectInv, Collecting, shutdown
<1>8. ASSUME NEW q \in Queues PROVE dispatchCollect(q) => Good
  BY <1>1 DEF dispatchCollect, CloseInv, CollectInv, Collecting, shutdown
<1>9. ASSUME NEW q \in Queues PROVE collectQueueWorker(q) => Good
  BY <1>1 DEF collectQueueWorker, CloseInv, CollectInv, Collecting, shutdown
<1> HIDE DEF Good
<1>10. Good
  BY <1>2, <1>3, <1>4, <1>5, <1>6, <1>7, <1>8, <1>9, Zenon DEF CollectorStep, GC
<1>11. \A S : (Reached(S)' <=> Reached(S)) /\ (Reached(S) => closed)
  BY <1>1, Zenon DEF Reached, CloseInv, CloserInv
<1>12. CloserInv'
  BY <1>1, Zenon DEF CloseInv, CloserInv
<1>13. UNCHANGED NotifierJoined
  BY <1>1, Zenon DEF NotifierJoined
<1>14. JoinedInv'
  BY <1>1, <1>10, <1>11, <1>13, Zenon DEF Good, CloseInv, JoinedInv
<1> QED BY <1>10, <1>12, <1>14, Zenon DEF Good, CloseInv

\* Close waits for each kind of goroutine before it says that there is none.
LEMMA CloseKeepsClose ==
  ASSUME TypeOK, CloseInv, CloseStep
  PROVE  CloseInv'
<1>0. /\ closer \in [Closers -> {"never", "idle", "cancel", "stop", "joinGC", "joinWorkers",
                                 "notifier", "wakeAll", "joinNotifier", "returned"}]
      /\ UNCHANGED <<gcs, gc, inflight, loop>>
  BY TypeParts, CloseFrame, Zenon DEF CloseTypes, consume, pass
<1>1. UNCHANGED Collecting
  BY <1>0, Zenon DEF Collecting
<1> SUFFICES ASSUME NEW k \in Closers, Close(k) \/ Closing(k) PROVE CloseInv'
  BY Zenon DEF CloseStep
\* The steps after the first are those of the call that closes.
<1>2. ASSUME NEW from, NEW to, CloseAt(k, from, to), from \notin {"never", "idle", "returned"},
             to \notin {"never", "idle"}, UNCHANGED <<closed, closedBy>>
      PROVE  /\ CloserInv' /\ CollectInv'
             /\ closedBy = k /\ closer[k] = from
             /\ \A S : Reached(S)' <=> to \in S
  <2>1. closer[k] = from /\ closer' = [closer EXCEPT ![k] = to]
    BY <1>2, Zenon DEF CloseAt
  <2>2. closedBy = k /\ closedBy # NoCloser
    BY <1>2, <2>1, RuntimeAssumption, Zenon DEF CloseInv, CloserInv
  <2>3. closer'[k] = to /\ \A j \in Closers : j # k => closer'[j] = closer[j]
    BY <1>0, <2>1
  <2>4. CloserInv'
    BY <1>2, <2>2, <2>3, Zenon DEF CloseInv, CloserInv
  <2>5. CollectInv'
    BY <1>0, <1>2, Zenon DEF CloseInv, CollectInv
  <2> QED BY <1>2, <2>1, <2>2, <2>3, <2>4, <2>5, Zenon DEF Reached
<1>3. Close(k) => CloseInv'
  <2>1. ASSUME closed, CloseAt(k, "idle", "returned"), UNCHANGED <<closed, closedBy, notifierVars>>
        PROVE  CloseInv'
    <3>1. k # closedBy
      BY <2>1, RuntimeAssumption, Zenon DEF CloseAt, CloseInv, CloserInv
    <3>2. closer'[k] = "returned" /\ \A j \in Closers : j # k => closer'[j] = closer[j]
      BY <1>0, <2>1 DEF CloseAt
    <3>3. CloserInv'
      BY <2>1, <3>1, <3>2, Zenon DEF CloseInv, CloserInv
    <3>4. \A S : Reached(S)' <=> Reached(S)
      BY <2>1, <3>1, <3>2, Zenon DEF Reached, CloseInv, CloserInv
    <3>5. CollectInv'
      BY <1>0, <2>1, Zenon DEF CloseInv, CollectInv
    <3>6. UNCHANGED NotifierJoined /\ UNCHANGED nclosed
      BY <2>1, Zenon DEF NotifierJoined, notifierVars
    <3>7. JoinedInv'
      BY <1>0, <1>1, <3>4, <3>6, Zenon DEF CloseInv, JoinedInv
    <3> QED BY <3>3, <3>5, <3>7, Zenon DEF CloseInv
  <2>2. ASSUME ~closed, CloseAt(k, "idle", "cancel"), closed', closedBy' = k PROVE CloseInv'
    <3>1. closer'[k] = "cancel" /\ \A j \in Closers : j # k => closer'[j] = closer[j]
      BY <1>0, <2>2 DEF CloseAt
    <3>2. k # NoCloser /\ closedBy = NoCloser
      BY <2>2, RuntimeAssumption, Zenon DEF CloseInv, CloserInv
    <3>3. CloserInv'
      BY <2>2, <3>1, <3>2, RuntimeAssumption DEF CloseInv, CloserInv
    <3>4. \A S : Reached(S)' <=> "cancel" \in S
      BY <2>2, <3>1, <3>2, Zenon DEF Reached
    <3>5. JoinedInv'
      BY <3>4 DEF JoinedInv, PastCollector, PastWorkers, PastMark
    <3>6. CollectInv'
      BY <1>0, <2>2, Zenon DEF CloseInv, CollectInv
    <3> QED BY <3>3, <3>5, <3>6, Zenon DEF CloseInv
  <2> QED BY <2>1, <2>2 DEF Close
<1>4. CloseCancels(k) => CloseInv'
  <2>1. CASE gcs
    <3>1. CloseCancels(k) => CloseAt(k, "cancel", "stop") /\ UNCHANGED <<closed, closedBy>>
      BY <2>1, Zenon DEF CloseCancels
    <3>2. CloseCancels(k) => CloserInv' /\ CollectInv' /\ \A S : Reached(S)' <=> "stop" \in S
      BY <1>2, <3>1
    <3>3. CloseCancels(k) => JoinedInv'
      BY <3>2 DEF JoinedInv, PastCollector, PastWorkers, PastMark
    <3> QED BY <3>2, <3>3, Zenon DEF CloseInv
  <2>2. CASE ~gcs
    <3>1. CloseCancels(k) => CloseAt(k, "cancel", "joinWorkers") /\ UNCHANGED <<closed, closedBy>>
      BY <2>2, Zenon DEF CloseCancels
    <3>2. CloseCancels(k) => CloserInv' /\ CollectInv' /\ \A S : Reached(S)' <=> "joinWorkers" \in S
      BY <1>2, <3>1
    <3>3. ~Collecting
      BY <2>2 DEF CloseInv, CollectInv, Collecting
    <3>4. CloseCancels(k) => JoinedInv'
      BY <1>1, <3>2, <3>3 DEF JoinedInv, PastCollector, PastWorkers, PastMark
    <3> QED BY <3>2, <3>4, Zenon DEF CloseInv
  <2> QED BY <2>1, <2>2, Zenon
<1>5. CloseStops(k) => CloseInv'
  <2>1. ASSUME CloseAt(k, "stop", "joinGC"), UNCHANGED <<closed, closedBy>> PROVE CloseInv'
    <3>1. CloserInv' /\ CollectInv' /\ \A S : Reached(S)' <=> "joinGC" \in S
      BY <1>2, <2>1
    <3>2. JoinedInv'
      BY <3>1 DEF JoinedInv, PastCollector, PastWorkers, PastMark
    <3> QED BY <3>1, <3>2, Zenon DEF CloseInv
  <2>2. ASSUME ~Collecting, CloseAt(k, "joinGC", "joinWorkers"), UNCHANGED <<closed, closedBy>>
        PROVE  CloseInv'
    <3>1. CloserInv' /\ CollectInv' /\ \A S : Reached(S)' <=> "joinWorkers" \in S
      BY <1>2, <2>2
    <3>2. JoinedInv'
      BY <1>1, <2>2, <3>1 DEF JoinedInv, PastCollector, PastWorkers, PastMark
    <3> QED BY <3>1, <3>2, Zenon DEF CloseInv
  <2> QED BY <2>1, <2>2, Zenon DEF CloseStops
<1>6. CloseJoinsWorkers(k) => CloseInv'
  <2> SUFFICES ASSUME CloseJoinsWorkers(k) PROVE CloseInv'
    OBVIOUS
  <2>1. /\ loop # "running" /\ CloseAt(k, "joinWorkers", "notifier")
        /\ UNCHANGED <<closed, closedBy>>
    BY Zenon DEF CloseJoinsWorkers
  <2>2. /\ CloserInv' /\ CollectInv' /\ closedBy = k /\ closer[k] = "joinWorkers"
        /\ \A S : Reached(S)' <=> "notifier" \in S
    BY <1>2, <2>1
  <2>3. ~Collecting
    BY <2>2, RuntimeAssumption DEF CloseInv, JoinedInv, Reached, PastCollector
  <2>4. JoinedInv'
    BY <1>0, <1>1, <2>1, <2>2, <2>3 DEF JoinedInv, PastCollector, PastWorkers, PastMark
  <2> QED BY <2>2, <2>4, Zenon DEF CloseInv
<1>7. CloseNotifier(k) => CloseInv'
  <2>0. ASSUME closedBy = k, closer[k] \in PastWorkers PROVE ~Collecting /\ loop # "running"
    BY <2>0, RuntimeAssumption DEF CloseInv, JoinedInv, Reached, PastCollector, PastWorkers
  <2>1. ASSUME CloseAt(k, "notifier", "wakeAll"), notifierClose, UNCHANGED <<closed, closedBy>>
        PROVE  CloseInv'
    <3>1. /\ CloserInv' /\ CollectInv' /\ closedBy = k /\ closer[k] = "notifier"
          /\ \A S : Reached(S)' <=> "wakeAll" \in S
      BY <1>2, <2>1
    <3>2. ~Collecting /\ loop # "running" /\ nclosed'
      BY <2>0, <2>1, <3>1 DEF PastWorkers, notifierClose
    <3>3. JoinedInv'
      BY <1>0, <1>1, <3>1, <3>2 DEF JoinedInv
    <3> QED BY <3>1, <3>3, Zenon DEF CloseInv
  <2>2. ASSUME CloseAt(k, "wakeAll", "joinNotifier"), notifierWakeAll, UNCHANGED <<closed, closedBy>>
        PROVE  CloseInv'
    <3>1. /\ CloserInv' /\ CollectInv' /\ closedBy = k /\ closer[k] = "wakeAll"
          /\ \A S : Reached(S)' <=> "joinNotifier" \in S
      BY <1>2, <2>2
    <3>2. ~Collecting /\ loop # "running"
      BY <2>0, <3>1 DEF PastWorkers
    <3>3. nclosed'
      BY <2>2, <3>1, RuntimeAssumption DEF CloseInv, JoinedInv, Reached, PastMark, notifierWakeAll
    <3>4. JoinedInv'
      BY <1>0, <1>1, <3>1, <3>2, <3>3 DEF JoinedInv
    <3> QED BY <3>1, <3>4, Zenon DEF CloseInv
  <2>3. ASSUME NotifierJoined, CloseAt(k, "joinNotifier", "returned"),
               UNCHANGED <<closed, closedBy, notifierVars>>
        PROVE  CloseInv'
    <3>1. /\ CloserInv' /\ CollectInv' /\ closedBy = k /\ closer[k] = "joinNotifier"
          /\ \A S : Reached(S)' <=> "returned" \in S
      BY <1>2, <2>3
    <3>2. ~Collecting /\ loop # "running"
      BY <2>0, <3>1 DEF PastWorkers
    <3>3. nclosed
      BY <3>1, RuntimeAssumption DEF CloseInv, JoinedInv, Reached, PastMark
    <3>4. nclosed' /\ NotifierJoined'
      BY <2>3, <3>3, Zenon DEF NotifierJoined, notifierVars
    <3>5. JoinedInv'
      BY <1>0, <1>1, <3>2, <3>4, Zenon DEF JoinedInv
    <3> QED BY <3>1, <3>5, Zenon DEF CloseInv
  <2> QED BY <2>1, <2>2, <2>3 DEF CloseNotifier
<1> QED BY <1>3, <1>4, <1>5, <1>6, <1>7, Zenon DEF Closing

\* Every step keeps CloseInv.
LEMMA CloseStepKeeps ==
  ASSUME TypeOK, CloseInv, [Next]_vars
  PROVE  CloseInv'
<1>1. DbStep => CloseInv'
  <2>1. DbStep => UNCHANGED <<closed, closedBy, closer, gcs, gc, inflight, loop, nclosed, pump, confirm>>
    BY DbFrame, Zenon DEF shutdown, collector, consume, pass
  <2> QED BY <2>1, JoinedStays, NotifierKeepsClose, Zenon
<1>2. ASSUME NEW w \in Workers, handlerWorker(w) PROVE CloseInv'
  <2>1. UNCHANGED <<closed, closedBy, closer, gcs, gc, inflight, loop>>
    BY <1>2, WorkerFrame, Zenon DEF shutdown, collector, pass
  <2>2. wakeChan(w) \/ Disarm(w) \/ UNCHANGED notifierVars
    BY <1>2, WorkerFrame, Zenon
  <2>3. UNCHANGED nclosed
    BY <2>2, Zenon DEF wakeChan, Disarm, notifierVars
  <2>4. (\E v \in Workers : wakeChan(v) \/ Disarm(v)) \/ UNCHANGED <<pump, confirm>>
    BY <2>2, Zenon DEF notifierVars
  <2> QED BY <2>1, <2>3, <2>4, JoinedStays, NotifierKeepsClose, Zenon
<1>3. NotifierStep => CloseInv'
  <2>1. NotifierStep => UNCHANGED <<closed, closedBy, closer, gcs, gc, inflight, loop>>
    BY Zenon DEF NotifierStep, shutdown, collector, consume, pass
  <2>2. NotifierStep => UNCHANGED nclosed
    BY Zenon DEF NotifierStep, Confirming, Forgetting, Pumping, ListenAnswers, confirmListen, forget,
                 forgetUnlistens, PumpTakes, PumpSignals, PumpExits, PumpPanics
  <2> QED BY <2>1, <2>2, JoinedStays, NotifierKeepsClose, Zenon
<1>4. UNCHANGED vars => CloseInv'
  <2>1. UNCHANGED vars =>
          UNCHANGED <<closed, closedBy, closer, gcs, gc, inflight, loop, nclosed, pump, confirm>>
    BY Zenon DEF vars, shutdown, collector, consume, pass, notifierVars
  <2> QED BY <2>1, JoinedStays, NotifierKeepsClose, Zenon
<1> QED BY <1>1, <1>2, <1>3, <1>4, LoopKeepsClose, CollectorKeepsClose, CloseKeepsClose, Families, Zenon

-----------------------------------------------------------------------------
(* One confirmation at a time *)

Live == {c \in Confirmers : confirm[c].pc # "idle"}
Own == {c \in Live : confirm[c].waker = waker}
Gone == {f \in Forgets : forgets[f] # "idle"}

\* inFlight is about the installed waker and nothing else; a confirmation that runs beside its
\* own belongs to a waker that a forget dropped, so there is at most one for each forget.
ConfirmInv ==
  /\ \A c \in Confirmers : confirm[c].pc = "idle" <=> confirm[c].waker = NoWaker
  /\ waker = NoWaker => ~inFlight /\ ~listening
  /\ waker # NoWaker => (inFlight <=> Own # {})
  /\ \A c, d \in Own : c = d
  /\ listening => confirmedBy = waker
  /\ Cardinality(Live) <= Cardinality(Gone) + (IF Own = {} THEN 0 ELSE 1)

\* The sets the count is about are finite.
LEMMA ConfirmSets ==
  /\ IsFiniteSet(Live) /\ Cardinality(Live) \in Nat
  /\ IsFiniteSet(Gone) /\ Cardinality(Gone) \in Nat /\ Cardinality(Gone) <= Cardinality(Forgets)
  /\ Cardinality(Forgets) \in Nat /\ Cardinality(Confirmers) \in Nat
<1>1. Live \in SUBSET Confirmers /\ Gone \in SUBSET Forgets
  BY Zenon DEF Live, Gone
<1>2. IsFiniteSet(Live) /\ IsFiniteSet(Gone) /\ Cardinality(Gone) <= Cardinality(Forgets)
  BY <1>1, FS_Subset, NotifierAssumption, Zenon
<1> QED BY <1>2, FS_CardinalityType, NotifierAssumption, Zenon

\* wakeChan finds a goroutine for a confirmation it has to start.
LEMMA IdleConfirmer ==
  ASSUME NotifierTypeOK, ConfirmInv, Own = {}
  PROVE  \E c \in Confirmers : confirm[c] = Idle
<1>1. Cardinality(Live) < Cardinality(Confirmers)
  <2>1. Cardinality(Live) <= Cardinality(Gone) + 0
    BY Zenon DEF ConfirmInv
  <2>2. Cardinality(Forgets) < Cardinality(Confirmers)
    BY NotifierAssumption, Zenon
  <2> QED BY <2>1, <2>2, ConfirmSets, SMT
<1>2. PICK c \in Confirmers : c \notin Live
  <2> SUFFICES ASSUME Confirmers \subseteq Live PROVE FALSE
    BY Zenon
  <2>1. Cardinality(Confirmers) <= Cardinality(Live)
    BY ConfirmSets, FS_Subset, Zenon
  <2> QED BY <1>1, <2>1, ConfirmSets, SMT
<1>3. confirm[c].pc = "idle" /\ confirm[c].waker = NoWaker
  BY <1>2, Zenon DEF Live, ConfirmInv
<1>4. confirm[c] \in [pc: {"idle", "calling", "nil", "error"}, waker: Wakers \cup {NoWaker}]
  BY Zenon DEF NotifierTypeOK
<1>5. confirm[c] = Idle
  BY <1>3, <1>4 DEF Idle
<1> QED BY <1>5, Zenon

\* The steps that touch what the invariant is about.
LEMMA ConfirmMoves ==
  ASSUME [Next]_vars
  PROVE  \/ \E w \in Workers : wakeChan(w)
         \/ \E c \in Confirmers : ListenAnswers(c) \/ confirmListen(c)
         \/ \E f \in Forgets : forget(f) \/ forgetUnlistens(f)
         \/ UNCHANGED <<waker, listening, inFlight, confirm, confirmedBy, forgets>>
<1> DEFINE Same == UNCHANGED <<waker, listening, inFlight, confirm, confirmedBy, forgets>>
<1>1. UNCHANGED notifierVars => Same
  BY Zenon DEF notifierVars
<1>2. DbStep => Same
  BY DbFrame, Zenon
<1>3. LoopStep \/ CollectorStep \/ UNCHANGED vars => Same
  BY <1>1, LoopFrame, CollectorFrame, Zenon DEF vars
<1>4. CloseStep => Same
  BY <1>1, CloseFrame, Zenon DEF notifierClose, notifierWakeAll
<1>5. ASSUME NEW w \in Workers, handlerWorker(w) PROVE wakeChan(w) \/ Same
  BY <1>1, <1>5, WorkerFrame, Zenon DEF Disarm
<1>6. Pumping \/ PumpPanics => Same
  BY Zenon DEF Pumping, PumpTakes, PumpSignals, PumpExits, PumpPanics
<1>7. NotifierStep => \/ \E c \in Confirmers : ListenAnswers(c) \/ confirmListen(c)
                      \/ \E f \in Forgets : forget(f) \/ forgetUnlistens(f)
                      \/ Same
  BY <1>6, Zenon DEF NotifierStep, Confirming, Forgetting
<1> HIDE DEF Same
<1>8. \/ \E w \in Workers : wakeChan(w)
      \/ \E c \in Confirmers : ListenAnswers(c) \/ confirmListen(c)
      \/ \E f \in Forgets : forget(f) \/ forgetUnlistens(f)
      \/ Same
  BY <1>2, <1>3, <1>4, <1>5, <1>7, Families, Zenon
<1> QED BY <1>8, Zenon DEF Same

\* Nothing the invariant looks at changed: neither does the invariant.
LEMMA ConfirmSame ==
  ASSUME ConfirmInv, waker' = waker, inFlight' = inFlight, listening' = listening,
         confirmedBy' = confirmedBy, Live' = Live, Own' = Own, Gone' = Gone,
         \A c \in Confirmers : confirm'[c].pc = "idle" <=> confirm'[c].waker = NoWaker
  PROVE  ConfirmInv'
<1>1. /\ waker = NoWaker => ~inFlight /\ ~listening
      /\ waker # NoWaker => (inFlight <=> Own # {})
      /\ \A c, d \in Own : c = d
      /\ listening => confirmedBy = waker
      /\ Cardinality(Live) <= Cardinality(Gone) + (IF Own = {} THEN 0 ELSE 1)
  BY Zenon DEF ConfirmInv
<1> HIDE DEF Live, Own, Gone
<1> QED BY <1>1, Zenon DEF ConfirmInv

\* The answer of Listen ends no confirmation and starts none.
LEMMA AnswerKeepsConfirm ==
  ASSUME NotifierTypeOK, ConfirmInv, NEW c \in Confirmers, ListenAnswers(c)
  PROVE  ConfirmInv'
<1>1. /\ confirm[c].pc = "calling"
      /\ \E r \in {"nil", "error"} : confirm' = [confirm EXCEPT ![c].pc = r]
      /\ UNCHANGED <<waker, inFlight, listening, confirmedBy, forgets>>
  BY Zenon DEF ListenAnswers
<1>2. confirm \in [Confirmers -> [pc: {"idle", "calling", "nil", "error"},
                                  waker: Wakers \cup {NoWaker}]]
  BY Zenon DEF NotifierTypeOK
<1>3. \A d \in Confirmers : /\ confirm'[d].waker = confirm[d].waker
                            /\ confirm'[d].pc = "idle" <=> confirm[d].pc = "idle"
  BY <1>1, <1>2
<1>4. \A d \in Confirmers : confirm'[d].pc = "idle" <=> confirm'[d].waker = NoWaker
  BY <1>3, Zenon DEF ConfirmInv
<1>5. Live' = Live
  BY <1>3 DEF Live
<1>6. Own' = Own
  BY <1>1, <1>3, <1>5 DEF Own, Live
<1>7. Gone' = Gone
  BY <1>1 DEF Gone
<1> QED BY <1>1, <1>4, <1>5, <1>6, <1>7, ConfirmSame, Zenon

\* confirmListen ends a confirmation; one whose waker was dropped leaves the rest alone.
LEMMA EndKeepsConfirm ==
  ASSUME NotifierTypeOK, ConfirmInv, NEW c \in Confirmers, confirmListen(c)
  PROVE  ConfirmInv'
<1>1. /\ confirm[c].pc \in {"nil", "error"}
      /\ confirm' = [confirm EXCEPT ![c] = Idle]
      /\ UNCHANGED <<waker, forgets>>
  BY Zenon DEF confirmListen
<1>2. confirm \in [Confirmers -> [pc: {"idle", "calling", "nil", "error"},
                                  waker: Wakers \cup {NoWaker}]]
  BY Zenon DEF NotifierTypeOK
<1>3. \A d \in Confirmers : confirm'[d] = IF d = c THEN Idle ELSE confirm[d]
  BY <1>1, <1>2
<1>4. Idle.pc = "idle" /\ Idle.waker = NoWaker
  BY DEF Idle
<1>5. \A d \in Confirmers : confirm'[d].pc = "idle" <=> confirm'[d].waker = NoWaker
  BY <1>3, <1>4, Zenon DEF ConfirmInv
<1>6. Live' = Live \ {c} /\ c \in Live
  BY <1>1, <1>3, <1>4 DEF Live
<1>7. Own' = Own \ {c}
  BY <1>1, <1>3, <1>6 DEF Own, Live
<1>8. Gone' = Gone
  BY <1>1 DEF Gone
<1>9. Cardinality(Live') = Cardinality(Live) - 1
  BY <1>6, ConfirmSets, FS_RemoveElement, Zenon
<1>10. CASE confirm[c].waker # waker
  <2>1. UNCHANGED <<inFlight, listening, confirmedBy>>
    BY <1>10, Zenon DEF confirmListen
  <2>2. Own' = Own
    BY <1>7, <1>10 DEF Own
  <2>3. Cardinality(Live') <= Cardinality(Gone') + (IF Own' = {} THEN 0 ELSE 1)
    <3>1. Cardinality(Live) <= Cardinality(Gone) + (IF Own = {} THEN 0 ELSE 1)
      BY Zenon DEF ConfirmInv
    <3> HIDE DEF Live, Own, Gone
    <3> QED BY <1>8, <1>9, <2>2, <3>1, ConfirmSets
  <2>4. /\ waker = NoWaker => ~inFlight /\ ~listening
        /\ waker # NoWaker => (inFlight <=> Own # {})
        /\ \A a, b \in Own : a = b
        /\ listening => confirmedBy = waker
    BY Zenon DEF ConfirmInv
  <2> HIDE DEF Live, Own, Gone
  <2> QED BY <1>1, <1>5, <2>1, <2>2, <2>3, <2>4, Zenon DEF ConfirmInv
<1>11. CASE confirm[c].waker = waker
  <2>1. inFlight' = FALSE /\ (listening' = (listening \/ confirm[c].pc = "nil"))
        /\ confirmedBy' = IF confirm[c].pc = "nil" THEN waker ELSE confirmedBy
    BY <1>11, Zenon DEF confirmListen
  <2>2. c \in Own
    BY <1>6, <1>11, Zenon DEF Own
  <2>3. Own' = {} /\ Own # {}
    BY <1>7, <2>2 DEF ConfirmInv
  <2>4. Cardinality(Live') <= Cardinality(Gone') + 0
    <3>1. Cardinality(Live) <= Cardinality(Gone) + 1
      BY <2>3, Zenon DEF ConfirmInv
    <3> HIDE DEF Live, Own, Gone
    <3> QED BY <1>8, <1>9, <3>1, ConfirmSets
  <2>5. waker # NoWaker
    BY <1>1, <1>11, Zenon DEF ConfirmInv
  <2>6. listening' => confirmedBy' = waker'
    BY <1>1, <2>1, Zenon DEF ConfirmInv
  <2> HIDE DEF Live, Own, Gone
  <2> QED BY <1>1, <1>5, <2>1, <2>3, <2>4, <2>5, <2>6, Zenon DEF ConfirmInv
<1> QED BY <1>10, <1>11, Zenon

\* forget drops the waker: its confirmation is nobody's, and is accounted to this forget.
LEMMA ForgetKeepsConfirm ==
  ASSUME NotifierTypeOK, ConfirmInv, NEW f \in Forgets, forget(f) \/ forgetUnlistens(f)
  PROVE  ConfirmInv'
<1>1. forgets \in [Forgets -> {"idle", "unlisten", "returned"}]
  BY Zenon DEF NotifierTypeOK
<1>2. CASE forgetUnlistens(f)
  <2>1. /\ forgets[f] = "unlisten" /\ forgets' = [forgets EXCEPT ![f] = "returned"]
        /\ UNCHANGED <<waker, inFlight, listening, confirm, confirmedBy>>
    BY <1>2, Zenon DEF forgetUnlistens
  <2>2. Gone' = Gone
    BY <1>1, <2>1 DEF Gone
  <2>3. Live' = Live
    BY <2>1 DEF Live
  <2>4. Own' = Own
    BY <2>1, <2>3 DEF Own
  <2>5. \A d \in Confirmers : confirm'[d].pc = "idle" <=> confirm'[d].waker = NoWaker
    BY <2>1, Zenon DEF ConfirmInv
  <2> QED BY <2>1, <2>2, <2>3, <2>4, <2>5, ConfirmSame, Zenon
<1>3. CASE forget(f)
  <2>1. /\ forgets[f] = "idle" /\ waker' = NoWaker /\ listening' = FALSE /\ inFlight' = FALSE
        /\ \E r \in {"unlisten", "returned"} : forgets' = [forgets EXCEPT ![f] = r]
        /\ confirm' = confirm
    BY <1>3, Zenon DEF forget
  <2>2. Gone' = Gone \cup {f} /\ f \notin Gone
    BY <1>1, <2>1 DEF Gone
  <2>3. Cardinality(Gone') = Cardinality(Gone) + 1
    BY <2>2, ConfirmSets, FS_AddElement, Zenon
  <2>4. Live' = Live
    BY <2>1 DEF Live
  <2>5. Own' = {}
    BY <2>1, <2>4 DEF Own, Live, ConfirmInv
  <2>6. Cardinality(Live') <= Cardinality(Gone') + 0
    <3>1. Cardinality(Live) <= Cardinality(Gone) + (IF Own = {} THEN 0 ELSE 1)
      BY Zenon DEF ConfirmInv
    <3> HIDE DEF Live, Own, Gone
    <3> QED BY <2>3, <2>4, <3>1, ConfirmSets
  <2>7. \A d \in Confirmers : confirm'[d].pc = "idle" <=> confirm'[d].waker = NoWaker
    BY <2>1, Zenon DEF ConfirmInv
  <2> HIDE DEF Live, Own, Gone
  <2> QED BY <2>1, <2>5, <2>6, <2>7, Zenon DEF ConfirmInv
<1> QED BY <1>2, <1>3, Zenon

\* The waker that wakeChan leaves installed, and who has it when it starts a confirmation.
LEMMA WakeInstalls ==
  ASSUME NotifierTypeOK, ConfirmInv, NEW w \in Workers, wakeChan(w), ~nclosed
  PROVE  /\ waker' \in Wakers /\ waker' # NoWaker
         /\ waker # NoWaker => waker' = waker
         /\ waker = NoWaker => ~Referenced(waker')
         /\ SpawnConfirm(waker')
         /\ UNCHANGED <<listening, forgets, confirmedBy>>
<1>1. /\ waker' = IF waker = NoWaker THEN newWaker ELSE waker
      /\ SpawnConfirm(IF waker = NoWaker THEN newWaker ELSE waker)
      /\ UNCHANGED <<listening, forgets, confirmedBy>>
  BY Zenon DEF wakeChan
<1>2. waker \in Wakers \cup {NoWaker} /\ NoWaker \notin Wakers
  BY NotifierAssumption, Zenon DEF NotifierTypeOK
<1>3. SpawnConfirm(waker')
  BY <1>1 DEF SpawnConfirm
<1> QED BY <1>1, <1>2, <1>3, FreshWaker, Zenon

\* wakeChan starts a confirmation only when the waker it installs or finds has none.
LEMMA WakeKeepsConfirm ==
  ASSUME NotifierTypeOK, ConfirmInv, NEW w \in Workers, wakeChan(w)
  PROVE  ConfirmInv'
<1>1. CASE nclosed
  <2>1. UNCHANGED <<waker, inFlight, listening, confirm, confirmedBy, forgets>>
    BY <1>1, Zenon DEF wakeChan
  <2>2. Live' = Live
    BY <2>1 DEF Live
  <2>3. Own' = Own
    BY <2>1, <2>2 DEF Own
  <2>4. Gone' = Gone
    BY <2>1 DEF Gone
  <2>5. \A d \in Confirmers : confirm'[d].pc = "idle" <=> confirm'[d].waker = NoWaker
    BY <2>1, Zenon DEF ConfirmInv
  <2> QED BY <2>1, <2>2, <2>3, <2>4, <2>5, ConfirmSame, Zenon
<1>2. CASE ~nclosed /\ (listening \/ inFlight)
  <2>1. waker # NoWaker
    BY <1>2, Zenon DEF ConfirmInv
  <2>2. UNCHANGED <<waker, inFlight, listening, confirm, confirmedBy, forgets>>
    BY <1>2, <2>1, WakeInstalls, Zenon DEF SpawnConfirm
  <2>3. Live' = Live
    BY <2>2 DEF Live
  <2>4. Own' = Own
    BY <2>2, <2>3 DEF Own
  <2>5. Gone' = Gone
    BY <2>2 DEF Gone
  <2>6. \A d \in Confirmers : confirm'[d].pc = "idle" <=> confirm'[d].waker = NoWaker
    BY <2>2, Zenon DEF ConfirmInv
  <2> QED BY <2>2, <2>3, <2>4, <2>5, <2>6, ConfirmSame, Zenon
<1>3. CASE ~nclosed /\ ~listening /\ ~inFlight
  <2> DEFINE c == CHOOSE c \in Confirmers : confirm[c] = Idle
  <2>1. Own = {}
    <3>1. CASE waker = NoWaker
      BY <3>1, Zenon DEF Own, Live, ConfirmInv
    <3>2. CASE waker # NoWaker
      BY <1>3, <3>2, Zenon DEF ConfirmInv
    <3> QED BY <3>1, <3>2, Zenon
  <2>2. c \in Confirmers /\ confirm[c] = Idle
    BY <2>1, IdleConfirmer, Zenon
  <2>3. /\ waker' \in Wakers /\ waker' # NoWaker
        /\ inFlight' = TRUE /\ ~listening' /\ forgets' = forgets
        /\ confirm' = [confirm EXCEPT ![c] = [pc |-> "calling", waker |-> waker']]
    <3>1. SpawnConfirm(waker') /\ waker' \in Wakers /\ waker' # NoWaker
          /\ UNCHANGED <<listening, forgets>>
      BY <1>3, WakeInstalls, Zenon
    <3>2. inFlight' = TRUE /\ confirm' = [confirm EXCEPT ![c] = [pc |-> "calling", waker |-> waker']]
      BY <1>3, <3>1 DEF SpawnConfirm
    <3> QED BY <1>3, <3>1, <3>2, Zenon
  <2>4. \A d \in Live : confirm[d].waker # waker'
    <3>1. CASE waker = NoWaker
      BY <1>3, <3>1, WakeInstalls, Zenon DEF Referenced, Live
    <3>2. CASE waker # NoWaker
      BY <1>3, <2>1, <3>2, WakeInstalls, Zenon DEF Own
    <3> QED BY <3>1, <3>2, Zenon
  <2> HIDE DEF c
  <2>5. confirm \in [Confirmers -> [pc: {"idle", "calling", "nil", "error"},
                                    waker: Wakers \cup {NoWaker}]]
    BY Zenon DEF NotifierTypeOK
  <2>6. \A d \in Confirmers : confirm'[d] = IF d = c THEN [pc |-> "calling", waker |-> waker']
                                                    ELSE confirm[d]
    <3>1. c \in Confirmers /\ confirm' = [confirm EXCEPT ![c] = [pc |-> "calling", waker |-> waker']]
      BY <2>2, <2>3, Zenon
    <3> QED BY <2>5, <3>1
  <2>7. confirm'[c].pc = "calling" /\ confirm'[c].waker = waker'
    BY <2>2, <2>6
  <2>8. \A d \in Confirmers : d # c => confirm'[d] = confirm[d]
    BY <2>6
  <2>9. \A d \in Confirmers : confirm'[d].pc = "idle" <=> confirm'[d].waker = NoWaker
    BY <2>2, <2>3, <2>7, <2>8 DEF ConfirmInv
  <2>10. c \notin Live /\ Live' = Live \cup {c}
    BY <2>2, <2>7, <2>8 DEF Live, Idle
  <2>11. Own' = {c}
    BY <2>2, <2>4, <2>7, <2>8, <2>10 DEF Own, Live
  <2>12. Gone' = Gone
    BY <2>3 DEF Gone
  <2>13. Cardinality(Live') = Cardinality(Live) + 1
    BY <2>10, ConfirmSets, FS_AddElement, Zenon
  <2>14. Cardinality(Live') <= Cardinality(Gone') + 1
    <3>1. Cardinality(Live) <= Cardinality(Gone) + 0
      BY <2>1, Zenon DEF ConfirmInv
    <3> HIDE DEF Live, Own, Gone
    <3> QED BY <2>12, <2>13, <3>1, ConfirmSets
  <2>15. Own' # {} /\ \A a, b \in Own' : a = b
    BY <2>11
  <2> HIDE DEF Live, Own, Gone
  <2> QED BY <2>3, <2>9, <2>14, <2>15, Zenon DEF ConfirmInv
<1> QED BY <1>1, <1>2, <1>3, Zenon

\* The bookkeeping of confirmations survives every step.
LEMMA ConfirmStep ==
  ASSUME NotifierTypeOK, ConfirmInv, [Next]_vars
  PROVE  ConfirmInv'
<1>1. CASE UNCHANGED <<waker, listening, inFlight, confirm, confirmedBy, forgets>>
  <2>1. Live' = Live
    BY <1>1 DEF Live
  <2>2. Own' = Own
    BY <1>1, <2>1 DEF Own
  <2>3. Gone' = Gone
    BY <1>1 DEF Gone
  <2>4. \A d \in Confirmers : confirm'[d].pc = "idle" <=> confirm'[d].waker = NoWaker
    BY <1>1, Zenon DEF ConfirmInv
  <2> QED BY <1>1, <2>1, <2>2, <2>3, <2>4, ConfirmSame, Zenon
<1>2. ASSUME NEW w \in Workers, wakeChan(w) PROVE ConfirmInv'
  BY <1>2, WakeKeepsConfirm, Zenon
<1>3. ASSUME NEW c \in Confirmers, ListenAnswers(c) \/ confirmListen(c) PROVE ConfirmInv'
  BY <1>3, AnswerKeepsConfirm, EndKeepsConfirm, Zenon
<1>4. ASSUME NEW f \in Forgets, forget(f) \/ forgetUnlistens(f) PROVE ConfirmInv'
  BY <1>4, ForgetKeepsConfirm, Zenon
<1> QED BY <1>1, <1>2, <1>3, <1>4, ConfirmMoves, Zenon

-----------------------------------------------------------------------------
(* No wake-up is lost *)

Sleeps(w) == pc[w] \in {"empty", "wait"} /\ wake[w].waker = waker /\ ~wake[w].fired
Asleep == \E w \in Workers : Sleeps(w)
Fresh == \E m \in Messages : msgs[m] = "fresh"
Told == stream > 0 \/ pump.waker = waker \/ pump.pc = "exited" \/ waker = NoWaker

\* The promise begins with the Receive that found nothing, not with the wait after it.
WakeInv == Asleep /\ Fresh => Told

\* A publish is announced or not fresh; a lost session makes nothing fresh.
LEMMA DbKeepsWake ==
  ASSUME TypeOK, WakeInv, DbStep
  PROVE  WakeInv'
<1>1. UNCHANGED <<pc, wake, waker, pump>>
  BY DbFrame, Zenon DEF consume
<1>2. Asleep' => Asleep
  BY <1>1, Zenon DEF Asleep, Sleeps
<1>3. msgs \in [Messages -> {"absent", "fresh", "visible", "claimed", "acked"}] /\ stream \in Nat
  BY Zenon DEF TypeOK, NotifierTypeOK
<1>4. ASSUME NEW m \in Messages, Publish(m) PROVE WakeInv'
  <2>1. CASE registered
    <3>1. stream' = stream + 1
      BY <1>4, <2>1, Zenon DEF Publish
    <3>2. stream' > 0
      BY <1>3, <3>1
    <3> QED BY <3>2, Zenon DEF WakeInv, Told
  <2>2. CASE ~registered
    <3>1. stream' = stream /\ msgs' = [msgs EXCEPT ![m] = "visible"]
      BY <1>4, <2>2, Zenon DEF Publish
    <3>2. \A n \in Messages : msgs'[n] = "fresh" => msgs[n] = "fresh"
      BY <1>3, <3>1
    <3> QED BY <1>1, <1>2, <3>1, <3>2, Zenon DEF WakeInv, Told, Fresh
  <2> QED BY <2>1, <2>2, Zenon
<1>5. ASSUME Outage PROVE WakeInv'
  <2>1. msgs' = PassedOver
    BY <1>5, Zenon DEF Outage
  <2>2. \A n \in Messages : msgs'[n] # "fresh"
    BY <2>1 DEF PassedOver
  <2> QED BY <2>2, Zenon DEF WakeInv, Fresh
<1>6. ASSUME setQueuePaused PROVE WakeInv'
  BY <1>1, <1>2, <1>6, Zenon DEF setQueuePaused, notifierVars, WakeInv, Fresh, Told
<1> QED BY <1>4, <1>5, <1>6, Zenon DEF DbStep

\* Starting the workers puts none of them to sleep.
LEMMA LoopKeepsWake ==
  ASSUME TypeOK, WakeInv, LoopStep
  PROVE  WakeInv'
<1>1. UNCHANGED <<msgs, wake, waker, pump, stream>>
  BY LoopFrame, Zenon DEF messages, notifierVars
<1>2. pc' = pc \/ StartWorkers
  BY Zenon DEF LoopStep, ConsumeChannel, trackWorker, watchClose, CallerCancels, LoopReturns
<1>3. StartWorkers => \A w \in Workers : pc'[w] \notin {"empty", "wait"}
  BY DEF StartWorkers
<1>4. Asleep' => Asleep
  BY <1>1, <1>2, <1>3, Zenon DEF Asleep, Sleeps
<1> QED BY <1>1, <1>4, Zenon DEF WakeInv, Fresh, Told

\* A signal fires every generation of its waker, and takes none back.
LEMMA SignalFires ==
  ASSUME NotifierTypeOK, NEW k, signal(k), NEW w \in Workers
  PROVE  /\ wake'[w].waker = wake[w].waker
         /\ wake[w].fired => wake'[w].fired
         /\ wake[w].waker = k /\ k # NoWaker => wake'[w].fired
<1>1. wake \in [Workers -> Handle]
  BY Zenon DEF NotifierTypeOK
<1>2. wake[w] \in Handle
  BY <1>1
<1>3. wake'[w] = IF wake[w].waker = k /\ k # NoWaker THEN [wake[w] EXCEPT !.fired = TRUE]
                                                     ELSE wake[w]
  BY DEF signal
<1>4. [wake[w] EXCEPT !.fired = TRUE].waker = wake[w].waker
  BY <1>2, SMT DEF Handle
<1>5. [wake[w] EXCEPT !.fired = TRUE].fired = TRUE
  BY <1>2, SMT DEF Handle
<1> QED BY <1>3, <1>4, <1>5, Zenon

\* The last signal of close wakes whoever armed the waker it finds.
LEMMA CloseKeepsWake ==
  ASSUME TypeOK, WakeInv, CloseStep
  PROVE  WakeInv'
<1>1. UNCHANGED <<msgs, pc, waker, pump, stream>>
  BY CloseFrame, Zenon DEF messages, consume, notifierVars, notifierClose, notifierWakeAll
<1>2. CASE wake' = wake
  BY <1>1, <1>2, Zenon DEF WakeInv, Asleep, Sleeps, Fresh, Told
<1>3. CASE signal(waker)
  BY <1>1, <1>3, SignalFires, Zenon DEF WakeInv, Asleep, Sleeps, Told, TypeOK
<1> QED BY <1>2, <1>3, CloseFrame, Zenon DEF notifierVars, notifierClose, notifierWakeAll

\* The pump hands its notification over to the signal it is about to give.
LEMMA NotifierKeepsWake ==
  ASSUME TypeOK, WakeInv, NotifierStep
  PROVE  WakeInv'
<1>1. UNCHANGED <<msgs, pc>>
  BY Zenon DEF NotifierStep, messages, consume
<1>2. pump \in [pc: {"none", "range", "signal", "last", "exited"}, waker: Wakers \cup {NoWaker}]
  BY Zenon DEF TypeOK, NotifierTypeOK
<1>3. ASSUME Confirming \/ Forgetting PROVE WakeInv'
  <2>1. UNCHANGED <<wake, pump, stream>> /\ (waker' = waker \/ waker' = NoWaker)
    BY <1>3, Zenon DEF Confirming, Forgetting, ListenAnswers, confirmListen, forget, forgetUnlistens
  <2> QED BY <1>1, <2>1, Zenon DEF WakeInv, Asleep, Sleeps, Fresh, Told
<1>4. ASSUME PumpTakes PROVE WakeInv'
  <2>1. waker' = waker /\ (waker # NoWaker => pump' = [pc |-> "signal", waker |-> waker])
    BY <1>4, Zenon DEF PumpTakes
  <2>2. waker # NoWaker => pump'.waker = waker
    BY <2>1
  <2> QED BY <2>1, <2>2, Zenon DEF WakeInv, Told
<1>5. ASSUME PumpPanics PROVE WakeInv'
  <2>1. pump'.waker = waker /\ waker' = waker
    BY <1>5 DEF PumpPanics
  <2> QED BY <2>1, Zenon DEF WakeInv, Told
<1>6. ASSUME PumpExits PROVE WakeInv'
  <2>1. pump'.pc = "exited"
    BY <1>2, <1>6 DEF PumpExits
  <2> QED BY <2>1, Zenon DEF WakeInv, Told
<1>7. ASSUME PumpSignals PROVE WakeInv'
  <2>1. signal(pump.waker) /\ UNCHANGED <<waker, stream>> /\ pump.pc # "exited"
    BY <1>7, Zenon DEF PumpSignals
  <2>2. \A w \in Workers : /\ wake'[w].waker = wake[w].waker
                           /\ wake[w].fired => wake'[w].fired
                           /\ wake[w].waker = pump.waker /\ pump.waker # NoWaker => wake'[w].fired
    BY <2>1, SignalFires, Zenon DEF TypeOK
  <2>3. Asleep' => Asleep
    BY <1>1, <2>1, <2>2, Zenon DEF Asleep, Sleeps
  <2>4. CASE pump.waker = waker
    BY <1>1, <2>1, <2>2, <2>4, Zenon DEF WakeInv, Asleep, Sleeps, Told
  <2>5. CASE pump.waker # waker
    BY <1>1, <2>1, <2>3, <2>5, Zenon DEF WakeInv, Fresh, Told
  <2> QED BY <2>4, <2>5, Zenon
<1> QED BY <1>3, <1>4, <1>5, <1>6, <1>7, Zenon DEF NotifierStep, Pumping

\* A worker that arms a new waker shares it with nobody.
LEMMA ArmKeepsWake ==
  ASSUME TypeOK, ConfirmInv, WakeInv, NEW w \in Workers, wakeChan(w), pc' = [pc EXCEPT ![w] = "receive"],
         msgs' = msgs
  PROVE  WakeInv'
<1>1. /\ wake \in [Workers -> Handle]
      /\ pc \in [Workers -> {"off", "fetch", "receive", "empty", "wait", "backoff", "handle",
                             "record", "done"}]
      /\ pump \in [pc: {"none", "range", "signal", "last", "exited"}, waker: Wakers \cup {NoWaker}]
  BY Zenon DEF TypeOK, NotifierTypeOK
<1>2. pc'[w] = "receive" /\ \A v \in Workers : v # w => pc'[v] = pc[v]
  BY <1>1
<1>3. \E h : wake' = [wake EXCEPT ![w] = h]
  BY Zenon DEF wakeChan
<1>4. \A v \in Workers : v # w => wake'[v] = wake[v]
  BY <1>1, <1>3
<1>5. stream' = stream
  BY Zenon DEF wakeChan
<1>6. CASE waker' = waker
  <2>1. Asleep' => Asleep
    BY <1>2, <1>4, <1>6, Zenon DEF Asleep, Sleeps
  <2>2. pump' = pump \/ (pump.pc = "none" /\ pump' = [pump EXCEPT !.pc = "range"])
    BY Zenon DEF wakeChan
  <2>3. pump'.waker = pump.waker /\ (pump.pc = "exited" => pump'.pc = "exited")
    BY <1>1, <2>2
  <2> QED BY <1>5, <1>6, <2>1, <2>3, Zenon DEF WakeInv, Fresh, Told
<1>7. CASE waker' # waker
  <2>1. ~nclosed /\ waker = NoWaker
    BY <1>7, Zenon DEF wakeChan
  <2>2. ~Referenced(waker')
    BY <2>1, WakeInstalls, Zenon DEF TypeOK
  <2>3. ~Asleep'
    BY <1>2, <1>4, <2>2, Zenon DEF Asleep, Sleeps, Referenced
  <2> QED BY <2>3, Zenon DEF WakeInv
<1> QED BY <1>6, <1>7, Zenon

\* A worker that leaves the receive or the wait sleeps no more; one that finds nothing leaves
\* nothing it should have been told about.
LEMMA WorkerKeepsWake ==
  ASSUME TypeOK, ConfirmInv, WakeInv, NEW w \in Workers, handlerWorker(w)
  PROVE  WakeInv'
<1>1. /\ wake \in [Workers -> Handle]
      /\ pc \in [Workers -> {"off", "fetch", "receive", "empty", "wait", "backoff", "handle",
                             "record", "done"}]
      /\ msgs \in [Messages -> {"absent", "fresh", "visible", "claimed", "acked"}]
  BY Zenon DEF TypeOK, NotifierTypeOK
<1> DEFINE Awake == /\ UNCHANGED notifierVars \/ Disarm(w)
                    /\ \E p \in {"fetch", "backoff", "handle", "record", "done"} :
                          pc' = [pc EXCEPT ![w] = p]
                    /\ \A m \in Messages : msgs'[m] = "fresh" => msgs[m] = "fresh"
<1>2. ASSUME Awake PROVE WakeInv'
  <2>1. pc'[w] \notin {"empty", "wait"} /\ \A v \in Workers : v # w => pc'[v] = pc[v]
    BY <1>1, <1>2
  <2>2. wake' = wake \/ wake' = [wake EXCEPT ![w] = NilChan]
    BY <1>2, Zenon DEF notifierVars, Disarm
  <2>3. \A v \in Workers : v # w => wake'[v] = wake[v]
    BY <1>1, <2>2
  <2>4. UNCHANGED <<waker, pump, stream>>
    BY <1>2, Zenon DEF notifierVars, Disarm
  <2>5. Asleep' => Asleep
    BY <2>1, <2>3, <2>4, Zenon DEF Asleep, Sleeps
  <2>6. Fresh' => Fresh
    BY <1>2, Zenon DEF Fresh
  <2> QED BY <2>4, <2>5, <2>6, Zenon DEF WakeInv, Told
<1>3. ASSUME armWake(w) PROVE WakeInv'
  <2>1. CASE Goto(w, "receive") /\ wakeChan(w)
    BY <2>1, ArmKeepsWake, Zenon DEF Goto, messages
  <2>2. CASE Goto(w, "done") /\ UNCHANGED notifierVars
    BY <1>2, <2>2, Zenon DEF Goto, messages
  <2> QED BY <1>3, <2>1, <2>2, Zenon DEF armWake
<1>4. ASSUME ReceiveEmpty(w) PROVE WakeInv'
  <2>1. CASE paused
    <3>1. msgs' = PassedOver
      BY <1>4, <2>1, Zenon DEF ReceiveEmpty
    <3>2. \A n \in Messages : msgs'[n] # "fresh"
      BY <3>1 DEF PassedOver
    <3> QED BY <3>2, Zenon DEF WakeInv, Fresh
  <2>2. CASE ~paused
    <3>1. msgs' = msgs /\ Visible = {}
      BY <1>4, <2>2, Zenon DEF ReceiveEmpty
    <3>2. \A n \in Messages : msgs'[n] # "fresh"
      BY <3>1 DEF Visible
    <3> QED BY <3>2, Zenon DEF WakeInv, Fresh
  <2> QED BY <2>1, <2>2, Zenon
<1>5. ASSUME WaitBegins(w) PROVE WakeInv'
  <2>1. pc[w] = "empty" /\ pc' = [pc EXCEPT ![w] = "wait"]
        /\ UNCHANGED <<wake, waker, pump, stream, msgs>>
    BY <1>5, Zenon DEF WaitBegins, Goto, messages, notifierVars
  <2>2. \A v \in Workers : pc'[v] \in {"empty", "wait"} => pc[v] \in {"empty", "wait"}
    BY <1>1, <2>1
  <2>3. Asleep' => Asleep
    BY <2>1, <2>2, Zenon DEF Asleep, Sleeps
  <2> QED BY <2>1, <2>3, Zenon DEF WakeInv, Fresh, Told
<1>6. ReceiveFails(w) => Awake
  BY LostReceive, Zenon DEF ReceiveFails, setFatal, StopsQuietly, ReceiveLost
<1>7. retryTransient(w) => Awake
  BY LostReceive, Zenon DEF retryTransient, setFatal
<1>8. waitForWork(w) => Awake
  BY Zenon DEF waitForWork, Goto, messages
<1>9. callHandler(w) => Awake
  BY Zenon DEF callHandler, messages
<1>10. ASSUME dispatchToHandler(w) PROVE Awake
  <2>1. msgs' = msgs \/ \E r \in {"acked", "visible"} : msgs' = [msgs EXCEPT ![held[w]] = r]
    BY <1>10, Zenon DEF dispatchToHandler, Recorded
  <2>2. \A m \in Messages : msgs'[m] = "fresh" => msgs[m] = "fresh"
    BY <1>1, <2>1
  <2> QED BY <1>10, <2>2, Zenon DEF dispatchToHandler
<1>11. ASSUME NEW m \in Messages, ReceiveMessage(w, m) PROVE Awake
  <2>1. msgs' = [msgs EXCEPT ![m] = "claimed"]
    BY <1>11, Zenon DEF ReceiveMessage
  <2>2. \A n \in Messages : msgs'[n] = "fresh" => msgs[n] = "fresh"
    BY <1>1, <2>1
  <2> QED BY <1>11, <2>2, Zenon DEF ReceiveMessage
<1> HIDE DEF Awake
<1> QED BY <1>2, <1>3, <1>4, <1>5, <1>6, <1>7, <1>8, <1>9, <1>10, <1>11, Zenon DEF handlerWorker

\* No step leaves a sleeper with a notification that nobody will pass on.
LEMMA WakeStep ==
  ASSUME TypeOK, ConfirmInv, WakeInv, [Next]_vars
  PROVE  WakeInv'
<1>1. ASSUME UNCHANGED <<msgs, pc, notifierVars>> PROVE WakeInv'
  BY <1>1, Zenon DEF notifierVars, WakeInv, Asleep, Sleeps, Fresh, Told
<1>2. CollectorStep \/ UNCHANGED vars => UNCHANGED <<msgs, pc, notifierVars>>
  BY CollectorFrame, Zenon DEF vars, messages, consume
<1> QED BY <1>1, <1>2, Families, DbKeepsWake, LoopKeepsWake, CloseKeepsWake, NotifierKeepsWake,
           WorkerKeepsWake, Zenon

-----------------------------------------------------------------------------
(* The inductive invariant and what follows from it *)

RuntimeInv == TypeOK /\ Handling /\ RecordInv /\ CloseInv /\ ConfirmInv /\ WakeInv

\* A new Queue is in the types.
LEMMA InitTypes ==
  ASSUME Init
  PROVE  TypeOK
<1>1. wake \in [Workers -> Handle]
  <2>1. NilChan \in Handle
    BY Zenon DEF NilChan, Handle
  <2> QED BY <2>1 DEF Init, NotifierInit
<1>2. confirm \in [Confirmers -> [pc: {"idle", "calling", "nil", "error"},
                                  waker: Wakers \cup {NoWaker}]]
  BY DEF Init, NotifierInit, Idle
<1>3. pump \in [pc: {"none", "range", "signal", "last", "exited"}, waker: Wakers \cup {NoWaker}]
  BY DEF Init, NotifierInit
<1>4. forgets \in [Forgets -> {"idle", "unlisten", "returned"}]
  BY DEF Init
<1>5. stream \in Nat
  BY DEF Init, NotifierInit
<1>6. NotifierTypeOK
  BY <1>1, <1>2, <1>3, <1>4, <1>5, Zenon DEF Init, NotifierInit, NotifierTypeOK
<1>7. msgs \in [Messages -> {"absent", "fresh", "visible", "claimed", "acked"}]
  BY DEF Init
<1>8. pc \in [Workers -> {"off", "fetch", "receive", "empty", "wait", "backoff", "handle", "record", "done"}]
  BY DEF Init
<1>9. held \in [Workers -> Messages \cup {NoMessage}] /\ result \in [Workers -> {"nil", "error"}]
  BY DEF Init
<1>10. fails \in [Workers -> 0..MaxTransient]
  BY RuntimeAssumption DEF Init
<1>11. closer \in [Closers -> {"never", "idle", "cancel", "stop", "joinGC", "joinWorkers",
                               "notifier", "wakeAll", "joinNotifier", "returned"}]
  BY DEF Init
<1>12. gc \in {"never", "none", "new", "starting", "pass", "tick", "exited"}
  BY DEF Init
<1> QED BY <1>6, <1>7, <1>8, <1>9, <1>10, <1>11, <1>12, Zenon DEF Init, TypeOK

\* A new Queue has no confirmation, no waker and no closer.
LEMMA InitInv ==
  ASSUME Init
  PROVE  RuntimeInv
<1>1. \A w \in Workers : pc[w] = "off"
  BY DEF Init
<1>2. \A m \in Messages : msgs[m] = "absent"
  BY DEF Init
<1>3. Handling /\ WakeInv
  BY <1>1, <1>2, Zenon DEF Handling, WakeInv, Fresh
<1>4. RecordInv
  BY <1>1, <1>2, Zenon DEF RecordInv
<1>5. \A k \in Closers : closer[k] \in {"never", "idle"}
  BY DEF Init
<1>6. CloseInv
  BY <1>5, Zenon DEF Init, CloseInv, CloserInv, CollectInv, JoinedInv, Reached
<1>7. \A c \in Confirmers : confirm[c].pc = "idle" /\ confirm[c].waker = NoWaker
  BY DEF Init, NotifierInit, Idle
<1>8. Live = {}
  BY <1>7 DEF Live
<1>9. Own = {}
  BY <1>8 DEF Own
<1>10. Cardinality(Live) <= Cardinality(Gone) + 0
  BY <1>8, FS_EmptySet, ConfirmSets, SMT
<1>11. ConfirmInv
  BY <1>7, <1>9, <1>10, Zenon DEF Init, NotifierInit, ConfirmInv
<1> QED BY <1>3, <1>4, <1>6, <1>11, InitTypes, Zenon DEF RuntimeInv

\* RuntimeInv is inductive, whatever workers, closers, queues, forgets and messages there are.
LEMMA RuntimeInvariant == Spec => []RuntimeInv
<1>1. Init => RuntimeInv
  BY InitInv, Zenon
<1>2. RuntimeInv /\ [Next]_vars => RuntimeInv'
  BY TypeStep, HandlingStep, RecordStep, CloseStepKeeps, ConfirmStep, WakeStep, Zenon
     DEF RuntimeInv, TypeOK
<1> QED BY <1>1, <1>2, PTL DEF Spec

\* The state of a Queue's goroutines and of its notifier stays in its types
\* (src/queue.go, src/notify.go, src/gc.go).
THEOREM RuntimeTypes == Spec => []TypeOK
<1>1. RuntimeInv => TypeOK
  BY Zenon DEF RuntimeInv
<1> QED BY <1>1, RuntimeInvariant, PTL

\* A worker that waits never sleeps on a message it was notified of: fetchNext arms the waker
\* before it calls Receive, and the pump looks the waker up before it signals.
THEOREM WakeupsKept == Spec => []NoLostWakeup
<1>1. ASSUME WakeInv, TypeOK PROVE NoLostWakeup
  <2> SUFFICES ASSUME NEW w \in Workers, pc[w] = "wait",
                      wake[w] = [waker |-> waker, fired |-> FALSE],
                      waker # NoWaker, NEW m \in Messages, msgs[m] = "fresh", pump.pc # "exited"
               PROVE  stream > 0 \/ pump.waker = waker
    BY Zenon DEF NoLostWakeup
  <2>1. wake[w].waker = waker /\ wake[w].fired = FALSE
    BY SMT
  <2> QED BY <1>1, <2>1, Zenon DEF WakeInv, Asleep, Sleeps, Fresh, Told
<1>2. RuntimeInv => NoLostWakeup
  BY <1>1, Zenon DEF RuntimeInv
<1> QED BY <1>2, RuntimeInvariant, PTL

\* An installed waker has at most one confirmation of its own, inFlight says whether, and
\* listening is set by none but its own: confirmListen compares the waker it captured.
THEOREM ConfirmationsKept == Spec => []OneConfirmation
<1>1. ASSUME ConfirmInv PROVE OneConfirmation
  <2> DEFINE own == {c \in Confirmers : confirm[c].pc # "idle" /\ confirm[c].waker = waker}
  <2>1. own = Own
    BY DEF Own, Live
  <2>2. Cardinality(Own) <= 1
    <3>1. CASE Own = {}
      BY <3>1, FS_EmptySet, SMT
    <3>2. CASE Own # {}
      <4>1. PICK c : c \in Own
        BY <3>2, Zenon
      <4>2. Own = {c}
        BY <1>1, <4>1 DEF ConfirmInv
      <4>3. Cardinality(Own) = 1
        BY <4>2, FS_Singleton, Zenon
      <4> QED BY <4>3, SMT
    <3> QED BY <3>1, <3>2, Zenon
  <2>3. waker # NoWaker => (inFlight <=> own # {}) /\ Cardinality(own) <= 1
    BY <1>1, <2>1, <2>2, Zenon DEF ConfirmInv
  <2>4. listening => waker # NoWaker /\ confirmedBy = waker
    BY <1>1, Zenon DEF ConfirmInv
  <2> QED BY <2>3, <2>4, Zenon DEF OneConfirmation
<1>2. RuntimeInv => OneConfirmation
  BY <1>1, Zenon DEF RuntimeInv
<1> QED BY <1>2, RuntimeInvariant, PTL

\* When the Close that found the Queue open has returned, no worker, collector, pump or
\* confirmation is left, and none starts later.
THEOREM ClosedIsQuiet == Spec => []CloseQuiesces
<1>1. ASSUME CloseInv PROVE CloseQuiesces
  <2> SUFFICES ASSUME closedBy # NoCloser, closer[closedBy] = "returned"
               PROVE  loop # "running" /\ ~Collecting /\ inflight = {} /\ NotifierJoined
    BY Zenon DEF CloseQuiesces
  <2>1. Reached(PastCollector) /\ Reached(PastWorkers) /\ Reached({"returned"})
    BY Zenon DEF Reached, PastCollector, PastWorkers
  <2>2. loop # "running" /\ ~Collecting /\ NotifierJoined
    BY <1>1, <2>1, Zenon DEF CloseInv, JoinedInv
  <2>3. gc # "pass"
    BY <2>2, Zenon DEF Collecting
  <2> QED BY <1>1, <2>2, <2>3, Zenon DEF CloseInv, CollectInv
<1>2. RuntimeInv => CloseQuiesces
  BY <1>1, Zenon DEF RuntimeInv
<1> QED BY <1>2, RuntimeInvariant, PTL

\* When a ConsumeChannel call has returned, a message still in flight is one whose result the
\* database refused or one whose Receive committed and failed to answer, so that no handler got
\* it; every other result was recorded, even on a closed Queue (dispatchToHandler acks and
\* nacks on a detached context and behind the closed gate).
THEOREM ResultsKept == Spec => []ResultRecorded
<1>1. ASSUME RecordInv PROVE ResultRecorded
  BY <1>1 DEF RecordInv, ResultRecorded, Handles, Off
<1>2. RuntimeInv => ResultRecorded
  BY <1>1, Zenon DEF RuntimeInv
<1> QED BY <1>2, RuntimeInvariant, PTL

====
