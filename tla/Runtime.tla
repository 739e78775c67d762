------------------------------ MODULE Runtime -------------------------------
(***************************************************************************)
(* One Queue at run time: a ConsumeChannel call with its workers           *)
(* (src/consume.go), the garbage collector's goroutine and its passes      *)
(* (src/gc.go), Queue.Close, which joins them all (src/pgqueue.go), and    *)
(* the notifier, whose waker the workers arm.                              *)
(*                                                                         *)
(* A message is as much of a row of module Channel as the loop can tell.   *)
(* "fresh" is a visible message whose notification reached the session and *)
(* that no Receive has passed over.  Polls, ticks and backoffs end at any  *)
(* moment.                                                                 *)
(***************************************************************************)
EXTENDS Notifier

CONSTANTS
    Messages,       \* messages, published once each
    Queues,         \* queues a collector pass visits
    Closers,        \* calls of Close
    Collector,      \* the GarbageCollector, as a member of Mixes
    Caller,         \* the caller's context of ConsumeChannel, as a member of Mixes
    Pauser,         \* PauseChannel and ResumeChannel, as a member of Mixes
    Faults,         \* database errors and a panicking listener, as a member of Mixes
    Mixes,          \* bound: the sets of actors that run together
    NoMessage, NoCloser,
    MaxTransient,   \* maxConsumeTransientRetries
    MaxWorkers      \* GarbageCollectorConfig.MaxWorkers

ASSUME RuntimeAssumption == NoCloser \notin Closers /\ MaxTransient \in Nat

VARIABLES
    mix,            \* the actors of this behaviour
    msgs,           \* messages: absent, fresh, visible, claimed, acked
    paused,         \* the queue's paused flag
    loop,           \* the ConsumeChannel call
    loopCanceled,   \* loopCtx
    pc,             \* workers: where they are
    held,           \* workers: the message being handled
    result,         \* workers: what the handler returned
    fails,          \* workers: transientFails
    unrecorded,     \* ghost: messages whose Ack or Nack the database refused
    unanswered,     \* ghost: messages whose Receive committed and returned an error
    closed,         \* pq.closed
    bgCanceled,     \* pq.bgCtx
    gcs,            \* pq.gcs has the collector
    closer,         \* Close calls: where they are
    closedBy,       \* ghost: the Close call that found the Queue open
    gc,             \* the collector: created, started, where its goroutine is
    stopChan,       \* gc.stopChan is closed
    stopper,        \* the caller's Stop: where it is
    todo,           \* the pass: queues not dispatched yet
    inflight,       \* the pass: queues whose worker runs
    dispatchDone    \* the pass: dispatchCtx was cancelled

messages == <<msgs, paused>>
lost == <<unrecorded, unanswered>>
consume == <<loop, loopCanceled, pc, held, result, fails, lost>>
shutdown == <<closed, bgCanceled, gcs, closer, closedBy>>
pass == <<todo, inflight, dispatchDone>>
collector == <<gc, stopChan, stopper, pass>>
vars == <<mix, messages, consume, shutdown, collector, notifierVars>>

TypeOK ==
    /\ NotifierTypeOK
    /\ mix \in Mixes
    /\ msgs \in [Messages -> {"absent", "fresh", "visible", "claimed", "acked"}]
    /\ paused \in BOOLEAN
    /\ loop \in {"idle", "checked", "running", "returned"} /\ loopCanceled \in BOOLEAN
    /\ pc \in [Workers -> {"off", "fetch", "receive", "empty", "wait", "backoff", "handle", "record", "done"}]
    /\ held \in [Workers -> Messages \cup {NoMessage}]
    /\ result \in [Workers -> {"nil", "error"}]
    /\ fails \in [Workers -> 0..MaxTransient]
    /\ unrecorded \subseteq Messages /\ unanswered \subseteq Messages
    /\ closed \in BOOLEAN /\ bgCanceled \in BOOLEAN /\ gcs \in BOOLEAN
    /\ closer \in [Closers -> {"never", "idle", "cancel", "stop", "joinGC", "joinWorkers",
                               "notifier", "wakeAll", "joinNotifier", "returned"}]
    /\ closedBy \in Closers \cup {NoCloser}
    /\ gc \in {"never", "none", "new", "starting", "pass", "tick", "exited"}
    /\ stopper \in {"idle", "join", "returned"} /\ stopChan \in BOOLEAN
    /\ todo \subseteq Queues /\ inflight \subseteq Queues /\ dispatchDone \in BOOLEAN

Init ==
    /\ NotifierInit
    /\ mix \in Mixes
    /\ msgs = [m \in Messages |-> "absent"] /\ paused = FALSE
    /\ loop = "idle" /\ loopCanceled = FALSE
    /\ pc = [w \in Workers |-> "off"] /\ held = [w \in Workers |-> NoMessage]
    /\ result = [w \in Workers |-> "nil"] /\ fails = [w \in Workers |-> 0]
    /\ unrecorded = {} /\ unanswered = {}
    /\ closed = FALSE /\ bgCanceled = FALSE /\ gcs = FALSE /\ closedBy = NoCloser
    /\ closer = [k \in Closers |-> IF k \in mix THEN "idle" ELSE "never"]
    /\ forgets = [f \in Forgets |-> IF f \in mix THEN "idle" ELSE "returned"]
    /\ gc = IF Collector \in mix THEN "none" ELSE "never"
    /\ stopChan = FALSE /\ stopper = "idle"
    /\ todo = {} /\ inflight = {} /\ dispatchDone = FALSE

-----------------------------------------------------------------------------
(* The database, as far as the loop sees it. *)

Visible == {m \in Messages : msgs[m] \in {"fresh", "visible"}}

\* A publish commits; pg_notify reaches the session if it is registered just then.
Publish(m) ==
    /\ m \in mix /\ msgs[m] = "absent"
    /\ msgs' = [msgs EXCEPT ![m] = IF registered THEN "fresh" ELSE "visible"]
    /\ stream' = IF registered THEN stream + 1 ELSE stream
    /\ UNCHANGED <<mix, paused, consume, shutdown, collector, waker, wake, listening, inFlight,
                   confirm, pump, nclosed, forgets, registered, confirmedBy>>

\* Messages nobody will be told about.
PassedOver == [m \in Messages |-> IF msgs[m] = "fresh" THEN "visible" ELSE msgs[m]]

\* The listener's session is lost, and what was on its way; it listens again by itself.
Outage ==
    /\ Faults \in mix /\ registered /\ stream > 0
    /\ stream' = 0 /\ msgs' = PassedOver
    /\ UNCHANGED <<mix, paused, consume, shutdown, collector, waker, wake, listening, inFlight,
                   confirm, pump, nclosed, forgets, registered, confirmedBy>>

setQueuePaused ==
    /\ Pauser \in mix /\ paused' = ~paused
    /\ UNCHANGED <<mix, msgs, consume, shutdown, collector, notifierVars>>

-----------------------------------------------------------------------------
(* ConsumeChannel and its workers. *)

\* checkClosed at the top of ConsumeChannel.
ConsumeChannel ==
    /\ loop = "idle" /\ Workers \cap mix # {}
    /\ loop' = IF closed THEN "returned" ELSE "checked"
    /\ UNCHANGED <<mix, messages, loopCanceled, pc, held, result, fails, lost, shutdown,
                   collector, notifierVars>>

\* Start the workers of the loop.
StartWorkers ==
    /\ loop' = "running"
    /\ pc' = [w \in Workers |-> IF w \in mix THEN "fetch" ELSE "done"]

\* Fault: the Queue is not asked again whether it was closed.
trackWorkerUnchecked ==
    /\ loop = "checked"
    /\ StartWorkers
    /\ UNCHANGED <<mix, messages, loopCanceled, held, result, fails, lost, shutdown,
                   collector, notifierVars>>

\* trackWorker under gcMu; refused, the call returns ErrQueueClosed.
trackWorker ==
    /\ loop = "checked"
    /\ \/ closed /\ loop' = "returned" /\ UNCHANGED pc
       \/ ~closed /\ StartWorkers
    /\ UNCHANGED <<mix, messages, loopCanceled, held, result, fails, lost, shutdown,
                   collector, notifierVars>>

\* A worker moves on and touches nothing else.
Goto(w, next) ==
    /\ pc' = [pc EXCEPT ![w] = next]
    /\ UNCHANGED <<mix, messages, loop, loopCanceled, held, result, fails, lost, shutdown,
                   collector>>

\* The wake channel of the iteration goes out of scope.
Disarm(w) ==
    /\ wake' = [wake EXCEPT ![w] = NilChan]
    /\ UNCHANGED <<waker, listening, inFlight, confirm, pump, nclosed, forgets, registered,
                   stream, confirmedBy>>

\* fetchNext, top of its loop: a cancelled context ends the worker, else arm the waker.
armWake(w) ==
    /\ pc[w] = "fetch"
    /\ \/ loopCanceled /\ Goto(w, "done") /\ UNCHANGED notifierVars
       \/ ~loopCanceled /\ Goto(w, "receive") /\ wakeChan(w)

\* setFatal: the first unrecoverable error cancels the other workers.
setFatal(w) ==
    /\ pc' = [pc EXCEPT ![w] = "done"]
    /\ loopCanceled' = TRUE
    /\ Disarm(w)
    /\ UNCHANGED <<mix, loop, held, result, fails, shutdown, collector>>

\* Receive hands out a message.  It may have passed the closed gate before Close.
ReceiveMessage(w, m) ==
    /\ pc[w] = "receive" /\ ~paused /\ m \in Visible
    /\ msgs' = [msgs EXCEPT ![m] = "claimed"]
    /\ held' = [held EXCEPT ![w] = m]
    /\ fails' = [fails EXCEPT ![w] = 0]
    /\ pc' = [pc EXCEPT ![w] = "handle"]
    /\ Disarm(w)
    /\ UNCHANGED <<mix, paused, loop, loopCanceled, result, lost, shutdown, collector>>

\* Nothing to deliver, or the queue is paused: on the way to waitForWork.
ReceiveEmpty(w) ==
    /\ pc[w] = "receive"
    /\ paused \/ Visible = {}
    /\ msgs' = IF paused THEN PassedOver ELSE msgs
    /\ fails' = [fails EXCEPT ![w] = 0]
    /\ pc' = [pc EXCEPT ![w] = "empty"]
    /\ UNCHANGED <<mix, paused, loop, loopCanceled, held, result, lost, shutdown, collector,
                   notifierVars>>

\* Fault: the wait arms the generation that is current by then.
WaitBeginsArming(w) ==
    /\ pc[w] = "empty" /\ Goto(w, "wait")
    /\ wake' = [wake EXCEPT ![w] = [waker |-> waker, fired |-> FALSE]]
    /\ UNCHANGED <<waker, listening, inFlight, confirm, pump, nclosed, forgets, registered,
                   stream, confirmedBy>>

\* waitForWork begins, with the generation armed before Receive.
WaitBegins(w) == pc[w] = "empty" /\ Goto(w, "wait") /\ UNCHANGED notifierVars

\* isStopSignal: this worker ends, and the others are not told.
StopsQuietly(w) ==
    /\ pc' = [pc EXCEPT ![w] = "done"]
    /\ Disarm(w)
    /\ UNCHANGED <<mix, loop, loopCanceled, held, result, fails, shutdown, collector>>

\* The transaction of a Receive that returns an error was rolled back, or its COMMIT was
\* done and the answer lost to the cancelled context or the connection: then a message is
\* in flight and no worker has it.
ReceiveLost ==
    \/ UNCHANGED <<messages, lost>>
    \/ \E m \in Visible :
          /\ ~paused /\ msgs' = [msgs EXCEPT ![m] = "claimed"]
          /\ unanswered' = unanswered \cup {m}
          /\ UNCHANGED <<paused, unrecorded>>

\* A cancelled context, or an error of some other context on the way to the database, is a
\* quiet stop; the closed gate and permanent errors are fatal.
ReceiveFails(w) ==
    /\ pc[w] = "receive"
    /\ \/ (loopCanceled \/ Faults \in mix) /\ StopsQuietly(w) /\ ReceiveLost
       \/ ~loopCanceled /\ closed /\ setFatal(w) /\ UNCHANGED <<messages, lost>>
       \/ ~loopCanceled /\ Faults \in mix /\ setFatal(w) /\ ReceiveLost

\* A transient error: count it, give up beyond the limit, else back off.
retryTransient(w) ==
    /\ pc[w] = "receive" /\ ~loopCanceled /\ Faults \in mix
    /\ ReceiveLost
    /\ \/ fails[w] = MaxTransient /\ setFatal(w)
       \/ /\ fails[w] < MaxTransient
          /\ fails' = [fails EXCEPT ![w] = @ + 1]
          /\ pc' = [pc EXCEPT ![w] = "backoff"]
          /\ Disarm(w)
          /\ UNCHANGED <<mix, loop, loopCanceled, held, result, shutdown, collector>>

\* waitForWork: the context, the poll or the backoff timer, or the armed generation.
waitForWork(w) ==
    /\ pc[w] \in {"wait", "backoff"}
    /\ Disarm(w)
    /\ Goto(w, "fetch") \/ (loopCanceled /\ Goto(w, "done"))

\* callHandler: nil, or an error, which is also what a panic becomes.
callHandler(w) ==
    /\ pc[w] = "handle"
    /\ result' \in {[result EXCEPT ![w] = r] : r \in {"nil", "error"}}
    /\ pc' = [pc EXCEPT ![w] = "record"]
    /\ UNCHANGED <<mix, messages, loop, loopCanceled, held, fails, lost, shutdown,
                   collector, notifierVars>>

\* Fault: the result goes through the public Ack and Nack, which a closed Queue refuses.
RecordedUnlessClosed(w) ==
    IF closed THEN UNCHANGED <<msgs, unrecorded>>
    ELSE \/ /\ msgs' = [msgs EXCEPT ![held[w]] = IF result[w] = "nil" THEN "acked" ELSE "visible"]
            /\ UNCHANGED unrecorded
         \/ /\ Faults \in mix /\ unrecorded' = unrecorded \cup {held[w]}
            /\ UNCHANGED msgs

\* Ack or Nack on the detached context; the database may refuse within ackGracePeriod.
Recorded(w) ==
    \/ /\ msgs' = [msgs EXCEPT ![held[w]] = IF result[w] = "nil" THEN "acked" ELSE "visible"]
       /\ UNCHANGED unrecorded
    \/ /\ Faults \in mix /\ unrecorded' = unrecorded \cup {held[w]}
       /\ UNCHANGED msgs

\* dispatchToHandler after the handler: record the result and fetch again.
dispatchToHandler(w) ==
    /\ pc[w] = "record"
    /\ Recorded(w)
    /\ held' = [held EXCEPT ![w] = NoMessage] /\ result' = [result EXCEPT ![w] = "nil"]
    /\ pc' = [pc EXCEPT ![w] = "fetch"]
    /\ UNCHANGED <<mix, paused, loop, loopCanceled, fails, unanswered, shutdown, collector, notifierVars>>

\* wg.Wait in runHandlerLoop, and workerWG.Done.
LoopReturns ==
    /\ loop = "running" /\ \A w \in Workers : pc[w] = "done"
    /\ loop' = "returned"
    /\ UNCHANGED <<mix, messages, loopCanceled, pc, held, result, fails, lost, shutdown,
                   collector, notifierVars>>

\* Fault: nobody mirrors bgCtx onto the loop's context.
watchCloseAbsent == FALSE

\* The watcher goroutine of runHandlerLoop.
watchClose ==
    /\ loop = "running" /\ bgCanceled /\ ~loopCanceled
    /\ loopCanceled' = TRUE
    /\ UNCHANGED <<mix, messages, loop, pc, held, result, fails, lost, shutdown, collector,
                   notifierVars>>

CallerCancels ==
    /\ Caller \in mix /\ loop = "running" /\ ~loopCanceled
    /\ loopCanceled' = TRUE
    /\ UNCHANGED <<mix, messages, loop, pc, held, result, fails, lost, shutdown, collector,
                   notifierVars>>

-----------------------------------------------------------------------------
(* The garbage collector's goroutine. *)

Collecting == gc \in {"starting", "pass", "tick"}

\* registerGC: a closed Queue does not record it.
NewGarbageCollector ==
    /\ gc = "none"
    /\ gc' = "new" /\ gcs' = ~closed
    /\ UNCHANGED <<mix, messages, consume, closed, bgCanceled, closer, closedBy, stopChan, stopper,
                   pass, notifierVars>>

\* Start under gc.mu; it does nothing on a closed Queue.
Start ==
    /\ gc = "new" /\ ~closed
    /\ gc' = "starting"
    /\ UNCHANGED <<mix, messages, consume, shutdown, stopChan, stopper, pass, notifierVars>>

\* collectOnce begins: list the queues, which may fail.
CollectBegins ==
    /\ gc' = "pass"
    /\ todo' \in {Queues, {}}
    /\ UNCHANGED <<inflight, dispatchDone>>

\* run: a first pass at once unless stopRequested, and one per tick.
run ==
    /\ gc = "tick" \/ (gc = "starting" /\ ~stopChan)
    /\ CollectBegins
    /\ UNCHANGED <<mix, messages, consume, shutdown, stopChan, stopper, notifierVars>>

\* stopChan, directly or through runCtx, ends run between two passes.
runStops ==
    /\ gc \in {"starting", "tick"} /\ stopChan
    /\ gc' = "exited"
    /\ UNCHANGED <<mix, messages, consume, shutdown, stopChan, stopper, pass, notifierVars>>

\* dispatchCollect hands a queue to a worker when the semaphore has a slot.
dispatchCollect(q) ==
    /\ gc = "pass" /\ ~dispatchDone /\ q \in todo /\ Cardinality(inflight) < MaxWorkers
    /\ todo' = todo \ {q} /\ inflight' = inflight \cup {q}
    /\ UNCHANGED <<mix, messages, consume, shutdown, gc, stopChan, stopper, dispatchDone, notifierVars>>

\* A worker is done, with or without an error; a dead pool ends the dispatch.
collectQueueWorker(q) ==
    /\ q \in inflight
    /\ inflight' = inflight \ {q}
    /\ dispatchDone' \in {dispatchDone, TRUE}
    /\ UNCHANGED <<mix, messages, consume, shutdown, gc, stopChan, stopper, todo, notifierVars>>

\* Everything was dispatched, or dispatchCtx is done; wg.Wait on both ways out.
CollectEnds ==
    /\ gc = "pass" /\ inflight = {}
    /\ stopChan \/ dispatchDone \/ todo = {}
    /\ gc' = "tick" /\ todo' = {} /\ dispatchDone' = FALSE
    /\ UNCHANGED <<mix, messages, consume, shutdown, stopChan, stopper, inflight, notifierVars>>

\* The caller's own Stop: close stopChan, then wait for the goroutine.
Stop ==
    /\ gc \notin {"never", "none"}
    /\ \/ stopper = "idle" /\ stopChan' = TRUE /\ stopper' = "join"
       \/ stopper = "join" /\ ~Collecting /\ stopper' = "returned" /\ UNCHANGED stopChan
    /\ UNCHANGED <<mix, messages, consume, shutdown, gc, pass, notifierVars>>

-----------------------------------------------------------------------------
(* Queue.Close, for caller k. *)

CloseAt(k, from, to) ==
    /\ closer[k] = from
    /\ closer' = [closer EXCEPT ![k] = to]
    /\ UNCHANGED <<mix, messages, consume, gcs, gc, stopper, pass>>

\* Mark closed under gcMu; a Queue that is closed already returns at once.
Close(k) ==
    /\ \/ closed /\ CloseAt(k, "idle", "returned") /\ UNCHANGED <<closed, closedBy>>
       \/ /\ ~closed /\ CloseAt(k, "idle", "cancel")
          /\ closed' = TRUE /\ closedBy' = k
    /\ UNCHANGED <<bgCanceled, stopChan, notifierVars>>

CloseCancels(k) ==
    /\ CloseAt(k, "cancel", IF gcs THEN "stop" ELSE "joinWorkers")
    /\ bgCanceled' = TRUE
    /\ UNCHANGED <<closed, closedBy, stopChan, notifierVars>>

\* gc.Stop of the registered collector: close stopChan, then join it.
CloseStops(k) ==
    /\ \/ CloseAt(k, "stop", "joinGC") /\ stopChan' = TRUE
       \/ ~Collecting /\ CloseAt(k, "joinGC", "joinWorkers") /\ UNCHANGED stopChan
    /\ UNCHANGED <<closed, closedBy, bgCanceled, notifierVars>>

\* workerWG.Wait.
CloseJoinsWorkers(k) ==
    /\ loop # "running"
    /\ CloseAt(k, "joinWorkers", "notifier")
    /\ UNCHANGED <<closed, closedBy, bgCanceled, stopChan, notifierVars>>

\* notifier.close: mark closed and close the listener, wake everybody, join.
CloseNotifier(k) ==
    /\ \/ CloseAt(k, "notifier", "wakeAll") /\ notifierClose
       \/ CloseAt(k, "wakeAll", "joinNotifier") /\ notifierWakeAll
       \/ NotifierJoined /\ CloseAt(k, "joinNotifier", "returned") /\ UNCHANGED notifierVars
    /\ UNCHANGED <<closed, closedBy, bgCanceled, stopChan>>

Closing(k) == CloseCancels(k) \/ CloseStops(k) \/ CloseJoinsWorkers(k) \/ CloseNotifier(k)

-----------------------------------------------------------------------------
handlerWorker(w) ==
    \/ armWake(w) \/ ReceiveEmpty(w) \/ ReceiveFails(w) \/ retryTransient(w)
    \/ WaitBegins(w) \/ waitForWork(w) \/ callHandler(w) \/ dispatchToHandler(w)
    \/ \E m \in Messages : ReceiveMessage(w, m)

GC == run \/ runStops \/ CollectEnds \/ \E q \in Queues : dispatchCollect(q) \/ collectQueueWorker(q)

NotifierStep ==
    /\ Confirming \/ Forgetting \/ Pumping \/ (Faults \in mix /\ PumpPanics)
    /\ UNCHANGED <<mix, messages, consume, shutdown, collector>>

Next ==
    \/ \E m \in Messages : Publish(m)
    \/ Outage \/ setQueuePaused
    \/ ConsumeChannel \/ trackWorker \/ watchClose \/ CallerCancels \/ LoopReturns
    \/ \E w \in Workers : handlerWorker(w)
    \/ NewGarbageCollector \/ Start \/ Stop \/ GC
    \/ \E k \in Closers : Close(k) \/ Closing(k)
    \/ NotifierStep

Spec == Init /\ [][Next]_vars

\* Goroutines run, timers fire, handlers return and Listen answers.  A select picks at
\* random among what is ready, so a closed stopChan is not passed over for ever.
FairSpec ==
    /\ Spec
    /\ \A w \in Workers : WF_vars(handlerWorker(w))
    /\ WF_vars(watchClose) /\ WF_vars(LoopReturns) /\ WF_vars(GC) /\ SF_vars(runStops)
    /\ WF_vars((Confirming \/ Pumping) /\ UNCHANGED <<mix, messages, consume, shutdown, collector>>)
    /\ \A k \in Closers : WF_vars(Closing(k))

-----------------------------------------------------------------------------
(* Properties. *)

\* A worker that waits with the current waker armed never sleeps on a message it was
\* notified of: the notification is still in the stream, or the pump is about to signal
\* that very waker.  The poll interval is a safety net and not the way messages are found
\* (armWake before receive).
NoLostWakeup ==
    \A w \in Workers :
        /\ pc[w] = "wait" /\ wake[w] = [waker |-> waker, fired |-> FALSE] /\ waker # NoWaker
        /\ \E m \in Messages : msgs[m] = "fresh"
        /\ pump.pc # "exited"
        => stream > 0 \/ pump.waker = waker

\* When the Close that found the Queue open returns, no goroutine the Queue owns is left to
\* issue a query: not a worker, not the collector nor a worker of its pass, not the pump or
\* a confirmation; and none comes later (trackWorker and Start after the join).
CloseQuiesces ==
    closedBy # NoCloser /\ closer[closedBy] = "returned"
        => /\ loop # "running"
           /\ ~Collecting /\ inflight = {}
           /\ NotifierJoined

\* A ConsumeChannel call that returned left a message behind in flight in two ways only:
\* the database refused the handler's result, or no handler got the message because the
\* answer to Receive's COMMIT was lost.  Whatever else its handlers returned was recorded,
\* although the Queue was closed by then (dispatchToHandler bypasses the closed gate).
ResultRecorded ==
    loop = "returned" =>
        \A m \in Messages : msgs[m] = "claimed" => m \in unrecorded \cup unanswered

\* Close terminates, whatever the workers, the collector and the notifier were doing.
CloseReturns == \A k \in Closers : closer[k] = "cancel" ~> closer[k] = "returned"

=============================================================================
