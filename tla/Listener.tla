------------------------------ MODULE Listener ------------------------------
(***************************************************************************)
(* The LISTEN/NOTIFY listener of src/pglisten/listener.go.  One goroutine, *)
(* the run loop, owns the connection; Listen, Unlisten and Close queue     *)
(* work for it under l.mu and then break its wait under l.waitMu.          *)
(*                                                                         *)
(* An action is one critical section or one call on the connection.  No    *)
(* property tells notifications apart, so the notifs buffer is a counter.  *)
(* Timers fire, and notifications come, at any moment.                     *)
(***************************************************************************)
EXTENDS Naturals, Sequences, FiniteSets, Functions

CONSTANTS
    Channels,       \* notification channels
    Calls,          \* calls of Listen, one per member
    Unlistens,      \* calls of Unlisten, one per member
    CloseCall,      \* the call of Close
    StopCall,       \* the reader's decision to read no more
    Mixes,          \* bound: the sets of calls that are made together
    NoCall,         \* listenReq.done = nil: a re-LISTEN without a waiter
    Cancelable,     \* Listen calls whose context may end
    BufferCap       \* notifyBuffer

ASSUME ListenerAssumption ==
    /\ IsFiniteSet(Channels) /\ NoCall \notin Calls
    /\ BufferCap \in Nat

VARIABLES
    channels,           \* l.channels: what to LISTEN on after a reconnect
    confirmed,          \* l.confirmed: LISTEN issued on this session
    pending,            \* l.pending
    unpending,          \* l.unpending
    closed,             \* l.closed and l.done
    loop,               \* where the run loop is
    batch,              \* drainPending: LISTENs taken and not yet issued
    unbatch,            \* drainPending: UNLISTENs taken and not yet issued
    interruptPending,   \* l.interruptPending
    canceled,           \* the wait's context was cancelled by waitCancel
    link,               \* the connection, as the network has it
    subs,               \* what the server's session listens on
    notifs,             \* l.notifs: notifications buffered for the reader
    reading,            \* the reader still drains Notifications(), or may stop
    call,               \* Listen calls: program counter, channel, l.done
    uncall,             \* Unlisten calls: program counter
    closing,            \* the Close call: program counter
    wanted,             \* channels whose last Listen or Unlisten was a Listen
    unlistened          \* channels Unlisten was ever called for

queues == <<channels, confirmed, pending, unpending>>
taken == <<batch, unbatch>>
nudges == <<interruptPending, canceled>>
server == <<link, subs>>
stream == <<notifs, reading>>
calls == <<call, uncall, closing>>
ghosts == <<wanted, unlistened>>
vars == <<queues, closed, loop, taken, nudges, server, stream, calls, ghosts>>

Request == [channel: Channels, call: Calls \cup {NoCall}]
\* What Listen returns: nil or one of its errors, which no property tells apart.
Answers == {"nil", "error"}

TypeOK ==
    /\ channels \subseteq Channels /\ confirmed \subseteq Channels
    /\ pending \in Seq(Request) /\ batch \in Seq(Request)
    /\ unpending \in Seq(Channels) /\ unbatch \in Seq(Channels)
    /\ closed \in BOOLEAN /\ interruptPending \in BOOLEAN /\ canceled \in BOOLEAN
    /\ loop \in {"top", "drain", "wait", "deliver", "reconnect", "exited"}
    /\ link \in {"up", "dead", "none"} /\ subs \subseteq Channels
    /\ notifs \in 0..BufferCap /\ reading \in {"yes", "maybe", "no"}
    /\ call \in [Calls -> [pc: {"never", "idle", "nudge", "wait"} \cup Answers,
                           channel: Channels, done: {"none", "nil", "error"}]]
    /\ uncall \in [Unlistens -> {"never", "idle", "nudge", "returned"}]
    /\ closing \in {"never", "idle", "nudge", "returned"}
    /\ wanted \subseteq Channels /\ unlistened \subseteq Channels

Init ==
    /\ channels = {} /\ confirmed = {} /\ pending = <<>> /\ unpending = <<>>
    /\ closed = FALSE /\ loop = "top" /\ batch = <<>> /\ unbatch = <<>>
    /\ interruptPending = FALSE /\ canceled = FALSE
    /\ link = "up" /\ subs = {}
    /\ notifs = 0
    /\ \E mix \in Mixes, ch \in [Calls -> Channels] :
         LET pc(c) == IF c \in mix THEN "idle" ELSE "never" IN
         /\ call = [c \in Calls |-> [pc |-> pc(c), channel |-> ch[c], done |-> "none"]]
         /\ uncall = [u \in Unlistens |-> pc(u)]
         /\ closing = pc(CloseCall)
         /\ reading = IF StopCall \in mix THEN "maybe" ELSE "yes"
    /\ wanted = {} /\ unlistened = {}

-----------------------------------------------------------------------------
(* Callers. *)

\* Fault: only a wait in progress is broken, nothing is remembered.
requestInterruptForgetful ==
    /\ interruptPending' = interruptPending
    /\ canceled' = (canceled \/ loop = "wait")

\* requestInterrupt: cancel the wait in progress, and remember the request.
requestInterrupt ==
    /\ interruptPending' = TRUE
    /\ canceled' = (canceled \/ loop = "wait")

\* Listen up to its first unlock: closed, already confirmed, or queued.
ListenClosed(c) ==
    /\ call[c].pc = "idle" /\ closed
    /\ call' = [call EXCEPT ![c].pc = "error"]
    /\ UNCHANGED <<queues, ghosts>>

ListenConfirmed(c) ==
    /\ call[c].pc = "idle" /\ ~closed /\ call[c].channel \in confirmed
    /\ call' = [call EXCEPT ![c].pc = "nil"]
    /\ wanted' = wanted \cup {call[c].channel}
    /\ UNCHANGED <<queues, unlistened>>

ListenQueued(c) ==
    LET ch == call[c].channel IN
    /\ call[c].pc = "idle" /\ ~closed /\ ch \notin confirmed
    /\ channels' = channels \cup {ch}
    /\ pending' = Append(pending, [channel |-> ch, call |-> c])
    /\ call' = [call EXCEPT ![c].pc = "nudge"]
    /\ wanted' = wanted \cup {ch}
    /\ UNCHANGED <<confirmed, unpending, unlistened>>

Listen(c) ==
    /\ ListenClosed(c) \/ ListenConfirmed(c) \/ ListenQueued(c)
    /\ UNCHANGED <<closed, loop, taken, nudges, server, stream, uncall, closing>>

\* Listen breaks the loop's wait, then selects on its answer, ctx and l.done.
ListenNudges(c) ==
    /\ call[c].pc = "nudge"
    /\ requestInterrupt
    /\ call' = [call EXCEPT ![c].pc = "wait"]
    /\ UNCHANGED <<queues, closed, loop, taken, server, stream, uncall, closing, ghosts>>

ListenReturns(c) ==
    /\ call[c].pc = "wait"
    /\ \/ /\ call[c].done # "none"
          /\ call' = [call EXCEPT ![c].pc = call[c].done, ![c].done = "none"]
       \/ /\ closed
          /\ call' = [call EXCEPT ![c].pc = "error"]
    /\ UNCHANGED <<queues, closed, loop, taken, nudges, server, stream, uncall, closing, ghosts>>

\* The caller's context ends first; the request stays queued.
ListenCanceled(c) ==
    /\ c \in Cancelable /\ call[c].pc = "wait"
    /\ call' = [call EXCEPT ![c].pc = "error"]
    /\ UNCHANGED <<queues, closed, loop, taken, nudges, server, stream, uncall, closing, ghosts>>

Unlisten(u, ch) ==
    /\ uncall[u] = "idle"
    /\ \/ /\ closed \/ ch \notin channels
          /\ uncall' = [uncall EXCEPT ![u] = "returned"]
          /\ UNCHANGED <<queues, ghosts>>
       \/ /\ ~closed /\ ch \in channels
          /\ channels' = channels \ {ch}
          /\ confirmed' = confirmed \ {ch}
          /\ unpending' = Append(unpending, ch)
          /\ uncall' = [uncall EXCEPT ![u] = "nudge"]
          /\ wanted' = wanted \ {ch}
          /\ unlistened' = unlistened \cup {ch}
          /\ UNCHANGED pending
    /\ UNCHANGED <<closed, loop, taken, nudges, server, stream, call, closing>>

UnlistenNudges(u) ==
    /\ uncall[u] = "nudge"
    /\ requestInterrupt
    /\ uncall' = [uncall EXCEPT ![u] = "returned"]
    /\ UNCHANGED <<queues, closed, loop, taken, server, stream, call, closing, ghosts>>

Close ==
    /\ closing = "idle"
    /\ closed' = TRUE /\ closing' = "nudge"
    /\ UNCHANGED <<queues, loop, taken, nudges, server, stream, call, uncall, ghosts>>

CloseNudges ==
    /\ closing = "nudge"
    /\ requestInterrupt
    /\ closing' = "returned"
    /\ UNCHANGED <<queues, closed, loop, taken, server, stream, call, uncall, ghosts>>

-----------------------------------------------------------------------------
(* The run loop. *)

\* listenReq.signal on every request of a set: the buffered send never blocks.
Signalled(reqs, result) ==
    [c \in Calls |-> IF \E r \in reqs : r.call = c THEN [call[c] EXCEPT !.done = result]
                                                  ELSE call[c]]

\* closeConn: the session and what the server still held for it are gone.
closeConn == link' = "none" /\ subs' = {}

\* run returns: the connection is closed and then the notification stream.
Exit ==
    /\ loop' = "exited"
    /\ closeConn

\* isDone, then drainPending up to its unlock: take everything queued.
TakeQueued ==
    /\ loop = "top" /\ ~closed
    /\ loop' = "drain"
    /\ batch' = pending /\ unbatch' = unpending
    /\ pending' = <<>> /\ unpending' = <<>>
    /\ UNCHANGED <<channels, confirmed, closed, nudges, server, stream, calls, ghosts>>

ExitAtTop ==
    /\ loop = "top" /\ closed
    /\ Exit
    /\ UNCHANGED <<queues, closed, taken, nudges, stream, calls, ghosts>>

\* Fault: a request for a channel that is confirmed by now is skipped, unanswered.
IssueListenOnce ==
    /\ loop = "drain" /\ batch # <<>> /\ link = "up"
    /\ subs' = subs \cup {Head(batch).channel}
    /\ confirmed' = confirmed \cup {Head(batch).channel}
    /\ call' = IF Head(batch).channel \in confirmed THEN call ELSE Signalled({Head(batch)}, "nil")
    /\ batch' = Tail(batch)
    /\ UNCHANGED <<channels, pending, unpending, closed, loop, unbatch, nudges, link,
                   stream, uncall, closing, ghosts>>

\* One LISTEN, markConfirmed and the answer.  Nothing else reads or changes the
\* session, so Exec and markConfirmed are one step.
IssueListen ==
    /\ loop = "drain" /\ batch # <<>> /\ link = "up"
    /\ subs' = subs \cup {Head(batch).channel}
    /\ confirmed' = confirmed \cup {Head(batch).channel}
    /\ call' = Signalled({Head(batch)}, "nil")
    /\ batch' = Tail(batch)
    /\ UNCHANGED <<channels, pending, unpending, closed, loop, unbatch, nudges, link,
                   stream, uncall, closing, ghosts>>

\* Fault: what was taken and not issued is not put back.
ListenFailsDropping ==
    /\ loop = "drain" /\ batch # <<>> /\ link # "up"
    /\ call' = Signalled({Head(batch)}, "error")
    /\ batch' = <<>> /\ unbatch' = <<>>
    /\ loop' = "reconnect" /\ closeConn
    /\ UNCHANGED <<channels, confirmed, pending, unpending, closed, nudges,
                   stream, uncall, closing, ghosts>>

\* The connection is dead: this caller gets the error, the rest is requeued in
\* front, the UNLISTENs taken are dropped, and run reconnects.
ListenFails ==
    /\ loop = "drain" /\ batch # <<>> /\ link # "up"
    /\ call' = Signalled({Head(batch)}, "error")
    /\ pending' = Tail(batch) \o pending
    /\ batch' = <<>> /\ unbatch' = <<>>
    /\ loop' = "reconnect" /\ closeConn
    /\ UNCHANGED <<channels, confirmed, unpending, closed, nudges,
                   stream, uncall, closing, ghosts>>

\* The UNLISTENs come after the LISTENs; a failure is only logged.
IssueUnlisten ==
    /\ loop = "drain" /\ batch = <<>> /\ unbatch # <<>>
    /\ subs' = IF link = "up" THEN subs \ {Head(unbatch)} ELSE subs
    /\ unbatch' = Tail(unbatch)
    /\ UNCHANGED <<queues, closed, loop, batch, nudges, link, stream,
                   calls, ghosts>>

\* receiveOne: a remembered interrupt is consumed instead of waiting.
BeginWait ==
    /\ loop = "drain" /\ batch = <<>> /\ unbatch = <<>>
    /\ loop' = IF interruptPending THEN "top" ELSE "wait"
    /\ interruptPending' = FALSE
    /\ UNCHANGED <<queues, closed, taken, canceled, server, stream, calls, ghosts>>

\* The loop leaves the wait: shutting down, back to the top, or to reconnect.
LeaveWait(next) ==
    /\ \/ closed /\ Exit
       \/ ~closed /\ next = "reconnect" /\ loop' = "reconnect" /\ closeConn
       \/ ~closed /\ next = "top" /\ loop' = "top" /\ UNCHANGED <<link, subs>>
    /\ canceled' = FALSE
    /\ UNCHANGED <<queues, closed, taken, interruptPending, stream, calls, ghosts>>

WaitCanceled == loop = "wait" /\ canceled /\ LeaveWait("top")

\* A genuine error reconnects, unless an interrupt is to be honoured first.
WaitFails ==
    /\ loop = "wait" /\ link = "dead"
    /\ LeaveWait(IF interruptPending THEN "top" ELSE "reconnect")

\* Fault: a tick of the keepalive tells nothing.
keepaliveProbeTrusting ==
    /\ loop = "wait" /\ ~interruptPending
    /\ LeaveWait("top")

\* The keepalive interval passed: ping tells an idle connection from a dead one.
keepaliveProbe ==
    /\ loop = "wait" /\ ~interruptPending
    /\ LeaveWait(IF link = "up" THEN "top" ELSE "reconnect")

\* A notification arrived, on some channel the session listens on; with l.done closed it is dropped on the way out.
WaitNotified ==
    /\ loop = "wait" /\ link = "up" /\ subs # {}
    /\ \/ closed /\ Exit
       \/ ~closed /\ loop' = "deliver" /\ UNCHANGED <<link, subs>>
    /\ canceled' = FALSE
    /\ UNCHANGED <<queues, closed, taken, interruptPending, stream, calls, ghosts>>

\* Fault: a full buffer is waited for, whatever happens to the listener.
DeliverBlockedForever == FALSE

\* deliverNotification with a full buffer: only Close ends the wait for a slot.
DeliverBlocked ==
    /\ loop = "deliver" /\ notifs = BufferCap /\ closed
    /\ Exit
    /\ UNCHANGED <<queues, closed, taken, nudges, stream, calls, ghosts>>

\* There is room, at once or after blocking: the notification is buffered.
deliverNotification ==
    /\ loop = "deliver" /\ notifs < BufferCap
    /\ notifs' = notifs + 1 /\ loop' = "top"
    /\ UNCHANGED <<queues, closed, taken, nudges, server, reading, calls, ghosts>>

\* The places in pending of the requests that have a waiter on ch.
Waiting(ch) == {i \in DOMAIN pending : pending[i].channel = ch /\ pending[i].call # NoCall}

\* Fault: only channels somebody waits for are listened to again.
RequeuedForWaitersOnly(ch) == {[channel |-> ch, place |-> i] : i \in Waiting(ch)}

\* rebuildPendingForReconnect, one channel: every waiter, or one bare re-LISTEN (place 0).
Requeued(ch) ==
    {[channel |-> ch, place |-> i] : i \in IF Waiting(ch) = {} THEN {0} ELSE Waiting(ch)}

RequestOf(item) ==
    IF item.place = 0 THEN [channel |-> item.channel, call |-> NoCall] ELSE pending[item.place]

\* One channel after the other, and the waiters of a channel in the order they came.
ChannelByChannel(order) ==
    \A i, j \in DOMAIN order :
        i < j /\ order[i].channel = order[j].channel
            => /\ order[i].place < order[j].place
               /\ \A k \in i..j : order[k].channel = order[i].channel

\* A new session: nothing is confirmed, queued UNLISTENs are moot, all channels are
\* queued again (the map's order is arbitrary), waiters of others are told nil.  An
\* attempt that began before Close may still succeed; failed ones change nothing.
Reconnected ==
    /\ loop = "reconnect"
    /\ loop' = "top" /\ link' = "up" /\ subs' = {}
    /\ confirmed' = {} /\ unpending' = <<>>
    /\ LET items == UNION {Requeued(ch) : ch \in channels} IN
       \E order \in Bijection(1..Cardinality(items), items) :
          /\ ChannelByChannel(order)
          /\ pending' = [i \in 1..Cardinality(items) |-> RequestOf(order[i])]
    /\ call' = Signalled({r \in Range(pending) : r.channel \notin channels}, "nil")
    /\ UNCHANGED <<channels, closed, taken, nudges, stream, uncall, closing, ghosts>>

ReconnectAborted ==
    /\ loop = "reconnect" /\ closed
    /\ Exit
    /\ UNCHANGED <<queues, closed, taken, nudges, stream, calls, ghosts>>

RunLoop ==
    \/ TakeQueued \/ ExitAtTop \/ IssueListen \/ ListenFails \/ IssueUnlisten
    \/ BeginWait \/ WaitCanceled \/ keepaliveProbe \/ WaitNotified
    \/ DeliverBlocked \/ deliverNotification \/ Reconnected \/ ReconnectAborted

-----------------------------------------------------------------------------
(* The network and the reader of the stream. *)

\* The connection is lost.  Whether the wait in progress ever reports it is open.
ConnectionLost ==
    /\ link = "up"
    /\ link' = "dead"
    /\ UNCHANGED <<queues, closed, loop, taken, nudges, subs, stream, calls, ghosts>>

Read ==
    /\ reading # "no" /\ notifs > 0
    /\ notifs' = notifs - 1
    /\ UNCHANGED <<queues, closed, loop, taken, nudges, server, reading, calls, ghosts>>

StopReading ==
    /\ reading = "maybe"
    /\ reading' = "no"
    /\ UNCHANGED <<queues, closed, loop, taken, nudges, server, notifs, calls, ghosts>>

Nudging == (\E c \in Calls : ListenNudges(c)) \/ (\E u \in Unlistens : UnlistenNudges(u)) \/ CloseNudges

Next ==
    \/ \E c \in Calls : Listen(c) \/ ListenReturns(c) \/ ListenCanceled(c)
    \/ \E u \in Unlistens, ch \in Channels : Unlisten(u, ch)
    \/ Close \/ Nudging \/ RunLoop \/ WaitFails
    \/ ConnectionLost \/ Read \/ StopReading

Spec == Init /\ [][Next]_vars

\* The run loop is a goroutine that takes its next step, its timers fire and the
\* server comes back; a call that was made proceeds; a reader that reads goes on.
FairSpec ==
    /\ Spec
    /\ WF_vars(RunLoop) /\ WF_vars(Nudging) /\ WF_vars(Read)
    /\ \A c \in Calls : WF_vars(ListenReturns(c))

-----------------------------------------------------------------------------
(* Properties. *)

Queued == Range(pending) \cup Range(batch)

\* A waiting Listen has exactly one request in the loop's hands, through failures and
\* reconnects, so somebody will send to its done channel; and nothing is queued for a call
\* that was answered, so no send to a full done channel blocks the loop under l.mu
\* (requeue, rebuildPendingForReconnect).
OneRequestPerWaiter ==
    \A c \in Calls :
        LET queue == batch \o pending
            places == {i \in DOMAIN queue : queue[i].call = c} IN
        /\ \A i, j \in places : i = j
        /\ places # {} => call[c].done = "none"
        /\ call[c].pc \in {"nudge", "wait"} /\ call[c].done = "none" /\ loop # "exited"
              => places # {}

\* The loop never blocks in WaitForNotification on top of queued work unless the caller
\* that queued it is still about to interrupt it (requestInterrupt, interruptPending).
NoMissedNudge ==
    loop = "wait" /\ ~canceled /\ (pending # <<>> \/ unpending # <<>>)
        => \/ \E c \in Calls : call[c].pc = "nudge"
           \/ \E u \in Unlistens : uncall[u] = "nudge"

\* A channel that was listened to and never unlistened is on the server's session, or a
\* request for it is queued, or the loop is on its way to a new session.
KeptUnlessUnlistened ==
    \A ch \in channels \ unlistened :
        \/ ch \in subs
        \/ \E r \in Queued : r.channel = ch
        \/ loop \in {"reconnect", "exited"}

\* What Listen documents: once it returned nil, and as long as no Unlisten for the channel
\* was called after it, the session listens on the channel or is about to.
NilMeansSubscribed ==
    \A c \in Calls :
        call[c].pc = "nil" /\ call[c].channel \in wanted
            => \/ call[c].channel \in subs
               \/ \E r \in Queued : r.channel = call[c].channel
               \/ loop \in {"reconnect", "exited"}

\* Every waiting Listen gets an answer, as long as the reader keeps reading.
ListenAnswered ==
    \A c \in Calls : call[c].pc = "wait" ~> (call[c].pc \in Answers \/ reading = "no")

\* Close ends the run loop even when it is blocked on a full buffer nobody reads, in a
\* wait, or between two connections.
CloseUnwinds == closed ~> loop = "exited"

\* A connection that died in silence is replaced, although nothing ever reports it: the
\* keepalive probe finds it (unless the reader stopped or the listener was closed).
DeathNoticed == link = "dead" ~> (link = "up" \/ reading = "no" \/ closed)

=============================================================================
