------------------------------- MODULE Topic -------------------------------
(***************************************************************************)
(* One pub/sub topic of pgqueue: the message table, the subscription table *)
(* with one row per message and subscriber, the dead-letter table and the  *)
(* active subscribers.      A unit of delivery is a pair <<message,        *)
(* subscriber>>.                                                           *)
(*                                                                         *)
(* Steps, deadlines and SKIP LOCKED are modelled as in Channel: a step is  *)
(* one committed transaction, a row keeps the outcome of comparing its     *)
(* deadlines with NOW(), and a statement works on some of the rows that    *)
(* match.  The paused flag is left out: Receive reads it before its        *)
(* transaction, so a call admitted earlier may deliver at any time.        *)
(*                                                                         *)
(* What is new is that statements look at tables they do not lock.  Each   *)
(* such look is a step of its own, and the write happens later: the        *)
(* subscribers a Publish fans out to, the rows of inactive subscribers the *)
(* collector reaps, the messages it found finished or orphaned.  A row the *)
(* statement selected and another transaction deleted is gone for it, even *)
(* if a row with the same message and subscriber is inserted later.        *)
(***************************************************************************)
EXTENDS Naturals, FiniteSets

CONSTANTS
    Ids,        \* message ids
    Subs,       \* subscriber ids
    Claims,     \* claim tokens a delivery of one unit may mint
    NoClaim,    \* claim_id IS NULL
    MaxRetries, \* the cap stored with the topic; a topic that stores none has the
                \* default of the process that asks, and all processes are configured alike
    MaxSubs,    \* maxSubscribersPerTopic, 0 when there is no cap
    Replayers,  \* concurrent ReplayFrom calls
    Legacy,     \* messages dead-lettered by a pre-1.0 release: subscriber_id IS NULL
    Backoff,    \* the values of cfg.backoffConfigured among the processes
    HasTTL,     \* whether the topic has a message TTL
    MaxDefers,  \* maxConsumeReclaimDefers
    MaxPublish  \* bound: times one explicit id is accepted by Publish

ASSUME MaxRetriesAssumption == MaxRetries \in Nat
ASSUME MaxSubsAssumption == MaxSubs \in Nat
ASSUME NoClaimAssumption == NoClaim \notin Claims
ASSUME LegacyAssumption == Legacy \subseteq Ids
ASSUME BackoffAssumption == Backoff \subseteq BOOLEAN
ASSUME HasTTLAssumption == HasTTL \in BOOLEAN
ASSUME MaxDefersAssumption == MaxDefers \in Nat \ {0}
ASSUME MaxPublishAssumption == MaxPublish \in Nat

VARIABLES
    msg,        \* the message table, by id
    sub,        \* the subscription table, by unit
    dlq,        \* how many dead-letter rows a unit has
    legacy,     \* messages with a dead-letter row without subscriber
    active,     \* subscribers registered with active = TRUE
    publishing, \* open Publish transactions: the ids and the subscribers read
    leavers,    \* rows an open purgeInactiveSubscriptions found, {} when none
    finished,   \* messages an open purgeCompletedMessages found, {} when none
    orphans,    \* messages an open reclaimOrphanTopicMessages found, {} when none
    replaying,  \* candidate page of each ReplayFrom transaction, {} when none
    receipt,    \* what the client that got claim k of unit u knows of it
    deliv,      \* deliveries of a unit since it was created or replayed
    accepted,   \* times an id was accepted by Publish
    torn,       \* times a message was purged as completed when it no longer was
    wiped       \* times a message was removed by PurgeQueue

tables == <<msg, sub, dlq, legacy>>
rowScans == <<leavers, replaying>>
msgScans == <<finished, orphans>>
books == <<accepted, torn, wiped>>
history == <<deliv, books>>

vars == <<tables, active, publishing, rowScans, msgScans, receipt, history>>

Units == Ids \X Subs

Status == {"absent", "pending", "processing", "acked"}

SubRow == [status : Status, claim : Claims \cup {NoClaim}, retry : Nat,
           lapsed : BOOLEAN, ready : BOOLEAN]

NoRow == [status |-> "absent", claim |-> NoClaim, retry |-> 0,
          lapsed |-> FALSE, ready |-> FALSE]

NewRow == [status |-> "pending", claim |-> NoClaim, retry |-> 0,
           lapsed |-> FALSE, ready |-> TRUE]

\* As in Channel.
ReceiptState == {"none", "open", "acked", "nacked"}

TypeOK ==
    /\ msg \in [Ids -> {"absent", "fresh", "stale"}]
    /\ sub \in [Units -> SubRow]
    /\ dlq \in [Units -> Nat]
    /\ legacy \subseteq Ids
    /\ active \subseteq Subs
    /\ publishing \subseteq [ids : SUBSET Ids, to : SUBSET Subs]
    /\ leavers \subseteq Units
    /\ finished \subseteq Ids /\ orphans \subseteq Ids
    /\ replaying \in [Replayers -> SUBSET Units]
    /\ receipt \in [Units -> [Claims -> ReceiptState]]
    /\ deliv \in [Units -> Nat]
    /\ accepted \in [Ids -> Nat]
    /\ torn \in [Ids -> Nat] /\ wiped \in [Ids -> Nat]

Init ==
    /\ msg = [m \in Ids |-> IF m \in Legacy THEN "fresh" ELSE "absent"]
    /\ sub = [u \in Units |-> NoRow]
    /\ dlq = [u \in Units |-> 0]
    /\ legacy = Legacy
    /\ active = {}
    /\ publishing = {} /\ leavers = {} /\ finished = {} /\ orphans = {}
    /\ replaying = [r \in Replayers |-> {}]
    /\ receipt = [u \in Units |-> [k \in Claims |-> "none"]]
    /\ deliv = [u \in Units |-> 0]
    /\ accepted = [m \in Ids |-> 0]
    /\ torn = [m \in Ids |-> 0] /\ wiped = [m \in Ids |-> 0]

-----------------------------------------------------------------------------
(* Row predicates *)

Live(m) == msg[m] # "absent"

Present(u) == sub[u].status # "absent"

\* Probe A of topicConsumeQueries.
Deliverable(u) == sub[u].status = "pending" /\ sub[u].ready /\ msg[u[1]] = "fresh"

\* Probe B of topicConsumeQueries.
Reclaimable(u) == sub[u].status = "processing" /\ sub[u].lapsed /\ msg[u[1]] = "fresh"

Matches(u, k) == sub[u].status = "processing" /\ sub[u].claim = k

\* Fault: off by one, the last allowed redelivery is not made.
ExhaustedEarly(u) == sub[u].retry + 1 >= MaxRetries

\* The cap is not in the row: each process resolves it when it looks (resolveMaxRetries).
Exhausted(u) == sub[u].retry + 1 > MaxRetries

TimedOut(u) == sub[u].status = "processing" /\ sub[u].lapsed

Dead(m) == m \in legacy \/ \E s \in Subs : dlq[<<m, s>>] > 0

\* Fault: dead letters do not keep their message.
FinishedThoughDead(m) ==
    Live(m) /\ \A s \in Subs : sub[<<m, s>>].status \in {"absent", "acked"}

\* The WHERE clause of purgeCompletedMessages, age apart.
Finished(m) ==
    /\ Live(m) /\ ~Dead(m)
    /\ \A s \in Subs : sub[<<m, s>>].status \in {"absent", "acked"}

\* Fault: dead letters do not keep their message.
OrphanThoughDead(m) == Live(m) /\ \A s \in Subs : ~Present(<<m, s>>)

\* The WHERE clause of reclaimOrphanTopicMessages.
Orphan(m) ==
    /\ Live(m) /\ ~Dead(m)
    /\ \A s \in Subs : ~Present(<<m, s>>)

-----------------------------------------------------------------------------
(* Row updates *)

claimTopicSubscription(row, n, k) ==
    [row EXCEPT !.status = "processing", !.claim = k, !.retry = n, !.lapsed = FALSE]

Delayed(row) ==
    [row EXCEPT !.status = "pending", !.claim = NoClaim, !.retry = @ + 1,
                !.lapsed = FALSE, !.ready = FALSE]

\* Fault: the timed-out attempt is not counted.
resetRowUncounted(row) ==
    [row EXCEPT !.status = "pending", !.claim = NoClaim, !.lapsed = FALSE]

\* Fault: the timed-out attempt is handed back.
resetRowHandedBack(row) ==
    [row EXCEPT !.status = "pending", !.claim = NoClaim, !.retry = @ - 1, !.lapsed = FALSE]

resetRow(row) ==
    [row EXCEPT !.status = "pending", !.claim = NoClaim, !.retry = @ + 1, !.lapsed = FALSE]

replayRow(row) ==
    [row EXCEPT !.status = "pending", !.claim = NoClaim, !.retry = 0, !.lapsed = FALSE]

\* One more for each message of S.
Counted(book, S) == [m \in Ids |-> IF m \in S THEN book[m] + 1 ELSE book[m]]

\* Rows S deleted, rows T back to pending behind a delay.
Drop(S, T) ==
    [u \in Units |-> IF u \in S THEN NoRow ELSE IF u \in T THEN Delayed(sub[u]) ELSE sub[u]]

\* Statements that had found the rows S will not find them again.
PagesLose(S) == replaying' = [r \in Replayers |-> replaying[r] \ S]

RowsGone(S) == leavers' = leavers \ S /\ PagesLose(S)

moveSubToDLQ(S) ==
    /\ dlq' = [u \in Units |-> IF u \in S THEN dlq[u] + 1 ELSE dlq[u]]
    /\ RowsGone(S)

\* As in Channel, for units.
NewLife(S) ==
    /\ deliv' = [u \in Units |-> IF u \in S THEN 0 ELSE deliv[u]]
    /\ receipt' = [u \in Units |-> [k \in Claims |->
                     IF u \in S /\ receipt[u][k] # "none" THEN "open" ELSE receipt[u][k]]]

\* insertSubscriptionRecords: ON CONFLICT DO NOTHING.
Subscribed(S) == [u \in Units |-> IF u \in S /\ ~Present(u) THEN NewRow ELSE sub[u]]

-----------------------------------------------------------------------------
(* Subscribers and publishers *)

Subscribe(s) ==
    /\ active' = active \cup {s}
    /\ UNCHANGED <<tables, publishing, rowScans, msgScans, receipt, history>>

Unsubscribe(s) ==
    /\ s \in active
    /\ active' = active \ {s}
    /\ UNCHANGED <<tables, publishing, rowScans, msgScans, receipt, history>>

WithinCap == MaxSubs = 0 \/ Cardinality(active) <= MaxSubs

\* The message rows are inserted, invisible to others, and the subscribers are read.  A
\* publisher of the same id waits for this transaction.
getActiveSubscribers(S) ==
    /\ \A m \in S : ~Live(m) /\ accepted[m] < MaxPublish
    /\ \A p \in publishing : p.ids \cap S = {}
    /\ WithinCap
    /\ publishing' = publishing \cup {[ids |-> S, to |-> active]}
    /\ UNCHANGED <<tables, active, rowScans, msgScans, receipt, history>>

\* The commit: message rows and subscription rows appear together.
publishBatchToPubSub(p) ==
    LET fanout == {u \in Units : u[1] \in p.ids /\ u[2] \in p.to} IN
    /\ msg' = [m \in Ids |-> IF m \in p.ids THEN "fresh" ELSE msg[m]]
    /\ sub' = Subscribed(fanout)
    /\ NewLife(fanout)
    /\ accepted' = Counted(accepted, p.ids)
    /\ publishing' = publishing \ {p}
    /\ UNCHANGED <<dlq, legacy, active, rowScans, msgScans, torn, wiped>>

PublishFails(p) ==
    /\ publishing' = publishing \ {p}
    /\ UNCHANGED <<tables, active, rowScans, msgScans, receipt, history>>

-----------------------------------------------------------------------------
(* Consume.  Receive does not ask whether the subscriber is active.        *)

FreshClaim(u, k) == receipt[u][k] = "none" /\ sub[u].claim # k

\* The timed-out rows of s that the loop of fetchPendingTopicMessage passes over:
\* reclaimTopicAttempt dead-letters the exhausted ones, and defers the others when a
\* backoff policy is configured (b).
Skippable(s, b, skip) ==
    /\ \A u \in skip : u[2] = s /\ Reclaimable(u) /\ (b \/ Exhausted(u))
    /\ Cardinality(skip) <= MaxDefers

Buried(skip) == {u \in skip : Exhausted(u)}

ReceiveEmpty(s, b, skip) ==
    /\ Skippable(s, b, skip)
    /\ sub' = Drop(Buried(skip), skip)
    /\ moveSubToDLQ(Buried(skip))
    /\ UNCHANGED <<msg, legacy, active, publishing, msgScans, receipt, history>>

ClaimableAs(u, b, n) ==
    \/ Deliverable(u) /\ n = sub[u].retry
    \/ Reclaimable(u) /\ ~Exhausted(u) /\ ~b /\ n = sub[u].retry + 1

ReceiveMessage(b, skip, u, k, n) ==
    /\ Skippable(u[2], b, skip)
    /\ Cardinality(skip) < MaxDefers
    /\ u \notin skip
    /\ ClaimableAs(u, b, n)
    /\ FreshClaim(u, k)
    /\ sub' = [Drop(Buried(skip), skip) EXCEPT ![u] = claimTopicSubscription(sub[u], n, k)]
    /\ moveSubToDLQ(Buried(skip))
    /\ receipt' = [receipt EXCEPT ![u][k] = "open"]
    /\ deliv' = [deliv EXCEPT ![u] = @ + 1]
    /\ UNCHANGED <<msg, legacy, active, publishing, msgScans, books>>

-----------------------------------------------------------------------------
(* Settle: calls of one subscriber with receipts it holds *)

Held(u, k) == receipt[u][k] # "none"

Settle(R, answer) ==
    receipt' = [u \in Units |-> [k \in Claims |->
                  IF <<u, k>> \in R /\ Matches(u, k) THEN answer ELSE receipt[u][k]]]

Matched(R) == {u \in Units : \E k \in Claims : <<u, k>> \in R /\ Matches(u, k)}

ackTopicBatch(s, R) ==
    /\ \A r \in R : r[1][2] = s /\ Held(r[1], r[2])
    /\ sub' = [u \in Units |-> IF u \in Matched(R)
                               THEN [sub[u] EXCEPT !.status = "acked"] ELSE sub[u]]
    /\ Settle(R, "acked")
    /\ UNCHANGED <<msg, dlq, legacy, active, publishing, rowScans, msgScans, history>>

\* Fault: the UPDATE tests message, subscriber and status but not claim_id.
ackTopicUnfenced(u, k) ==
    /\ Held(u, k)
    /\ sub[u].status = "processing"
    /\ sub' = [sub EXCEPT ![u].status = "acked"]
    /\ receipt' = [receipt EXCEPT ![u][k] = "acked"]
    /\ UNCHANGED <<msg, dlq, legacy, active, publishing, rowScans, msgScans, history>>

ackTopic(u, k) == Matches(u, k) /\ ackTopicBatch(u[2], {<<u, k>>})

\* processNackTopicBatch: dead-letter the exhausted rows, delay the others.
nackTopicBatch(s, R) ==
    LET dead == {u \in Matched(R) : Exhausted(u)} IN
    /\ \A r \in R : r[1][2] = s /\ Held(r[1], r[2])
    /\ sub' = Drop(dead, Matched(R))
    /\ moveSubToDLQ(dead)
    /\ Settle(R, "nacked")
    /\ UNCHANGED <<msg, legacy, active, publishing, msgScans, history>>

nackTopicImpl(u, k) == Matches(u, k) /\ nackTopicBatch(u[2], {<<u, k>>})

extendTopicVisibility(u, k) ==
    /\ Held(u, k)
    /\ Matches(u, k)
    /\ sub' = [sub EXCEPT ![u].lapsed = FALSE]
    /\ UNCHANGED <<msg, dlq, legacy, active, publishing, rowScans, msgScans, receipt, history>>

\* The client drops the receipt: it is done with it, or it crashed.
Forget(u, k) ==
    /\ Held(u, k)
    /\ receipt' = [receipt EXCEPT ![u][k] = "none"]
    /\ UNCHANGED <<tables, active, publishing, rowScans, msgScans, history>>

-----------------------------------------------------------------------------
(* Garbage collection of subscription and dead-letter rows *)

\* ON DELETE CASCADE.
deleteMessages(S) ==
    LET gone == {u \in Units : u[1] \in S} IN
    /\ msg' = [m \in Ids |-> IF m \in S THEN "absent" ELSE msg[m]]
    /\ sub' = Drop(gone, {})
    /\ RowsGone(gone)

promoteExhaustedTopicSubscriptions(S) ==
    /\ \A u \in S : TimedOut(u) /\ sub[u].retry >= MaxRetries
    /\ sub' = Drop(S, {})
    /\ moveSubToDLQ(S)
    /\ UNCHANGED <<msg, legacy, active, publishing, msgScans, receipt, history>>

resetTimedOutSubscriptions(S) ==
    /\ \A u \in S : TimedOut(u) /\ sub[u].retry < MaxRetries
    /\ sub' = [u \in Units |-> IF u \in S THEN resetRow(sub[u]) ELSE sub[u]]
    /\ UNCHANGED <<msg, dlq, legacy, active, publishing, rowScans, msgScans, receipt, history>>

\* Fault: the message is given up, and with it the rows of all subscribers.
purgeOldPendingMessagesOfAll(S) ==
    /\ \A u \in S : sub[u].status = "pending"
    /\ deleteMessages({u[1] : u \in S})
    /\ UNCHANGED <<dlq, legacy, active, publishing, msgScans, receipt, history>>

\* Past max_age a subscriber gives up on a message; nobody else's row is touched.
purgeOldPendingMessages(S) ==
    /\ \A u \in S : sub[u].status = "pending"
    /\ sub' = Drop(S, {})
    /\ RowsGone(S)
    /\ UNCHANGED <<msg, dlq, legacy, active, publishing, msgScans, receipt, history>>

purgeDLQMessages(S, L) ==
    /\ L \subseteq legacy
    /\ \A u \in S : dlq[u] > 0
    /\ dlq' = [u \in Units |-> IF u \in S THEN dlq[u] - 1 ELSE dlq[u]]
    /\ legacy' = legacy \ L
    /\ UNCHANGED <<msg, sub, active, publishing, rowScans, msgScans, receipt, history>>

\* The statement sees the rows of subscribers that are inactive when it begins ...
findLeavers ==
    /\ leavers = {}
    /\ leavers' = {u \in Units : Present(u) /\ u[2] \notin active}
    /\ UNCHANGED <<tables, active, publishing, replaying, msgScans, receipt, history>>

\* Fault: a row in flight is reaped with the others.
purgeInactiveSubscriptionsAny(S) ==
    /\ S \subseteq leavers
    /\ sub' = Drop(S, {})
    /\ leavers' = {}
    /\ PagesLose(S)
    /\ UNCHANGED <<msg, dlq, legacy, active, publishing, msgScans, receipt, history>>

\* Fault: only rows whose work is done are reaped.
purgeInactiveSubscriptionsDone(S) ==
    /\ \A u \in S : sub[u].status = "acked"
    /\ purgeInactiveSubscriptionsAny(S)

\* ... and deletes those that, once locked, are not under a live claim.
purgeInactiveSubscriptions(S) ==
    /\ S \subseteq leavers
    /\ \A u \in S : ~(sub[u].status = "processing" /\ ~sub[u].lapsed)
    /\ sub' = Drop(S, {})
    /\ leavers' = {}
    /\ PagesLose(S)
    /\ UNCHANGED <<msg, dlq, legacy, active, publishing, msgScans, receipt, history>>

-----------------------------------------------------------------------------
(* Garbage collection of messages.  The statements lock the message row    *)
(* but read the subscription and dead-letter rows without a lock, in the   *)
(* snapshot they began with.  Message rows are never updated, so nothing   *)
(* makes PostgreSQL evaluate the condition again.                          *)

findFinished(S) ==
    /\ finished = {}
    /\ \A m \in S : Finished(m)
    /\ finished' = S
    /\ UNCHANGED <<tables, active, publishing, rowScans, orphans, receipt, history>>

purgeCompletedMessages(S) ==
    /\ finished # {}
    /\ S \subseteq finished
    /\ deleteMessages(S)
    /\ torn' = Counted(torn, {m \in S : ~Finished(m)})
    /\ finished' = {}
    /\ orphans' = orphans \ S
    /\ UNCHANGED <<dlq, legacy, active, publishing, receipt, deliv, accepted, wiped>>

findOrphans(S) ==
    /\ orphans = {}
    /\ \A m \in S : Orphan(m)
    /\ orphans' = S
    /\ UNCHANGED <<tables, active, publishing, rowScans, finished, receipt, history>>

reclaimOrphanTopicMessages(S) ==
    /\ orphans # {}
    /\ S \subseteq orphans
    /\ deleteMessages(S)
    /\ orphans' = {}
    /\ finished' = finished \ S
    /\ UNCHANGED <<dlq, legacy, active, publishing, receipt, history>>

\* PurgeQueue: subscriptions, messages, dead letters.  As in Channel, what is committed
\* after the snapshot of a DELETE survives it.
executePurge(S, D) ==
    /\ S \subseteq D
    /\ \A m \in S : Live(m)
    /\ deleteMessages(S)
    /\ dlq' = [u \in Units |-> IF u[1] \in D THEN 0 ELSE dlq[u]]
    /\ legacy' = legacy \ D
    /\ finished' = finished \ S
    /\ orphans' = orphans \ S
    /\ wiped' = Counted(wiped, S)
    /\ UNCHANGED <<active, publishing, receipt, deliv, accepted, torn>>

PurgeQueue == \E D \in (SUBSET Ids) \ {{}} : \E S \in SUBSET D : executePurge(S, D)

-----------------------------------------------------------------------------
(* Replay *)

fetchReplayCandidateIDs(r, S) ==
    /\ replaying[r] = {}
    /\ \A u \in S : sub[u].status = "acked"
    /\ replaying' = [replaying EXCEPT ![r] = S]
    /\ UNCHANGED <<tables, active, publishing, leavers, msgScans, receipt, history>>

ReplayRows(r, S) ==
    /\ replaying[r] # {}
    /\ sub' = [u \in Units |-> IF u \in S THEN replayRow(sub[u]) ELSE sub[u]]
    /\ NewLife(S)
    /\ replaying' = [replaying EXCEPT ![r] = {}]
    /\ UNCHANGED <<msg, dlq, legacy, active, publishing, leavers, msgScans, books>>

\* Fault: the UPDATE trusts the candidate page.
applyReplayFromUnchecked(r) == ReplayRows(r, replaying[r])

\* The UPDATE tests the status of the candidates again.
applyReplayFrom(r) ==
    ReplayRows(r, {u \in replaying[r] : sub[u].status \notin {"pending", "processing"}})

ReplayFromFails(r) ==
    /\ replaying[r] # {}
    /\ replaying' = [replaying EXCEPT ![r] = {}]
    /\ UNCHANGED <<tables, active, publishing, leavers, msgScans, receipt, history>>

\* Fault: the dead-letter rows stay when their subscriptions are created.
replayDLQPageKeeping(S) ==
    /\ \A u \in S : dlq[u] > 0 /\ Live(u[1])
    /\ sub' = Subscribed(S)
    /\ NewLife({u \in S : ~Present(u)})
    /\ UNCHANGED <<msg, dlq, legacy, active, publishing, rowScans, msgScans, books>>

\* Fault: a dead letter goes to every active subscriber, as rows without subscriber do.
replayDLQPageToAll(S) ==
    LET fanout == {u \in Units : u[2] \in active /\ \E v \in S : v[1] = u[1]} IN
    /\ \A u \in S : dlq[u] > 0 /\ Live(u[1])
    /\ sub' = Subscribed(fanout)
    /\ NewLife({u \in fanout : ~Present(u)})
    /\ dlq' = [u \in Units |-> IF u \in S THEN dlq[u] - 1 ELSE dlq[u]]
    /\ UNCHANGED <<msg, legacy, active, publishing, rowScans, msgScans, books>>

\* One page of ReplayDLQ: of the fetched rows those of live messages are replayed, each
\* to the subscriber that failed, and deleted, also when the subscription row exists.
\* Further rows of the same unit are replayed like those of a later page.
replayDLQPage(S) ==
    /\ \A u \in S : dlq[u] > 0 /\ Live(u[1])
    /\ sub' = Subscribed(S)
    /\ NewLife({u \in S : ~Present(u)})
    /\ dlq' = [u \in Units |-> IF u \in S THEN dlq[u] - 1 ELSE dlq[u]]
    /\ UNCHANGED <<msg, legacy, active, publishing, rowScans, msgScans, books>>

\* A row without subscriber goes to all active ones, and stays when there is none.
replayLegacyDLQ(m) ==
    LET fanout == {u \in Units : u[1] = m /\ u[2] \in active} IN
    /\ m \in legacy /\ Live(m)
    /\ WithinCap /\ active # {}
    /\ sub' = Subscribed(fanout)
    /\ NewLife({u \in fanout : ~Present(u)})
    /\ legacy' = legacy \ {m}
    /\ UNCHANGED <<msg, dlq, active, publishing, rowScans, msgScans, books>>

-----------------------------------------------------------------------------
(* The passing of time *)

Elapse(u, row) ==
    /\ Present(u)
    /\ sub' = [sub EXCEPT ![u] = row]
    /\ UNCHANGED <<msg, dlq, legacy, active, publishing, rowScans, msgScans, receipt, history>>

VisibilityLapses(u) ==
    /\ sub[u].status = "processing" /\ ~sub[u].lapsed
    /\ Elapse(u, [sub[u] EXCEPT !.lapsed = TRUE])

BackoffElapses(u) == ~sub[u].ready /\ Elapse(u, [sub[u] EXCEPT !.ready = TRUE])

TTLElapses(m) ==
    /\ HasTTL /\ msg[m] = "fresh"
    /\ msg' = [msg EXCEPT ![m] = "stale"]
    /\ UNCHANGED <<sub, dlq, legacy, active, publishing, rowScans, msgScans, receipt, history>>

-----------------------------------------------------------------------------

Membership == \E s \in Subs : Subscribe(s) \/ Unsubscribe(s)

Publishing ==
    \/ \E S \in (SUBSET Ids) \ {{}} : getActiveSubscribers(S)
    \/ \E p \in publishing : publishBatchToPubSub(p) \/ PublishFails(p)

Receiving ==
    \/ \E s \in Subs, b \in Backoff, skip \in SUBSET Units : ReceiveEmpty(s, b, skip)
    \/ \E b \in Backoff, skip \in SUBSET Units, u \in Units, k \in Claims :
          \E n \in {sub[u].retry, sub[u].retry + 1} : ReceiveMessage(b, skip, u, k, n)

Settling ==
    \/ \E s \in Subs, R \in SUBSET (Units \X Claims) :
          Matched(R) # {} /\ (ackTopicBatch(s, R) \/ nackTopicBatch(s, R))
    \/ \E u \in Units, k \in Claims :
          \/ ackTopic(u, k)
          \/ nackTopicImpl(u, k)
          \/ extendTopicVisibility(u, k)
          \/ Forget(u, k)

Collecting ==
    \/ \E S \in SUBSET Units :
          \/ promoteExhaustedTopicSubscriptions(S)
          \/ resetTimedOutSubscriptions(S)
          \/ purgeOldPendingMessages(S)
          \/ \E L \in SUBSET Ids : purgeDLQMessages(S, L)
          \/ purgeInactiveSubscriptions(S)
    \/ findLeavers
    \/ \E S \in SUBSET Ids :
          \/ findFinished(S)
          \/ purgeCompletedMessages(S)
          \/ findOrphans(S)
          \/ reclaimOrphanTopicMessages(S)

Replaying ==
    \/ \E r \in Replayers :
          \/ \E S \in (SUBSET Units) \ {{}} : fetchReplayCandidateIDs(r, S)
          \/ applyReplayFrom(r)
          \/ ReplayFromFails(r)
    \/ \E S \in (SUBSET Units) \ {{}} : replayDLQPage(S)
    \/ \E m \in Ids : replayLegacyDLQ(m)

TimePasses ==
    \/ \E u \in Units : VisibilityLapses(u) \/ BackoffElapses(u)
    \/ \E m \in Ids : TTLElapses(m)

Next ==
    \/ Membership \/ Publishing \/ Receiving \/ Settling
    \/ Collecting \/ PurgeQueue \/ Replaying \/ TimePasses

Spec == Init /\ [][Next]_vars

-----------------------------------------------------------------------------
(* What the topic promises *)

\* Every subscriber's attempts are counted once and only once, whoever counts them
\* (nackTopicImpl, processNackTopicBatch, reclaimTopicAttempt, the collector), so no
\* subscriber gets a message more than max_retries + 1 times in one life of the unit.
AttemptsCounted ==
    \A u \in Units :
        /\ sub[u].status = "pending" => deliv[u] = sub[u].retry
        /\ sub[u].status \in {"processing", "acked"} => deliv[u] = sub[u].retry + 1
        /\ Present(u) => sub[u].retry <= MaxRetries

\* A subscriber's copy is dead-lettered only after exactly max_retries + 1 deliveries
\* to that subscriber, whatever the other subscribers do.
DeadLetterExact ==
    [][\A u \in Units : dlq'[u] > dlq[u] => Present(u) /\ deliv[u] = MaxRetries + 1]_vars

\* Neither PurgeQueue nor a purge that had found m finished before it was replayed
\* removes m in this step: the exceptions of the properties below.
NotTaken(m) == wiped'[m] = wiped[m] /\ torn'[m] = torn[m]

\* A live claim is ended by its holder only: not by another consumer, a replay, the
\* collector, nor by Unsubscribe, whose in-flight messages "can still be drained".
LeaseProtected ==
    [][\A u \in Units, k \in Claims :
         Matches(u, k) /\ ~sub[u].lapsed /\ NotTaken(u[1]) =>
            Matches(u, k)' \/ receipt'[u][k] \in {"acked", "nacked"}]_vars

\* A successful Ack is final until somebody replays the subscription.
AckFinal ==
    \A u \in Units, k \in Claims :
        receipt[u][k] = "acked" =>
            ~Present(u) \/ (sub[u].status = "acked" /\ sub[u].claim = k)

\* A message whose row went although its work was not finished, or whose dead letters
\* have no subscriber, is out of the scope of the next three.
Sound(m) == torn[m] = 0 /\ m \notin Legacy

\* A subscriber is owed one copy at most: a live row or one dead letter, never both, so
\* that replaying the DLQ cannot merge two deliveries into one or double one.
OneCopy ==
    \A u \in Units : Sound(u[1]) => (IF Present(u) THEN 1 ELSE 0) + dlq[u] <= 1

\* A message with dead letters stays in the message table, so each can be replayed
\* (the NOT EXISTS guards of purgeCompletedMessages and reclaimOrphanTopicMessages).
DeadLettersReplayable == \A u \in Units : Sound(u[1]) /\ dlq[u] > 0 => Live(u[1])

\* Once a subscriber has acked a message and its row is gone, it gets the message again
\* only if somebody publishes it again: a DLQ replay goes to the subscriber that failed.
NeverRedelivered ==
    [][\A u \in Units, k \in Claims :
         Sound(u[1]) /\ receipt[u][k] = "acked" /\ ~Present(u) /\ Present(u)' =>
            accepted'[u[1]] > accepted[u[1]]]_vars

\* The row of a subscriber that is active, and was when the collector looked for
\* leavers, ends in one of three ways: it is dead-lettered, it is given up while pending,
\* or it is acked and goes with its message.  What others do never takes it.
ActiveSpared ==
    [][\A u \in Units :
         Present(u) /\ ~Present(u)' /\ u[2] \in active /\ NotTaken(u[1]) =>
            \/ dlq'[u] = dlq[u] + 1
            \/ sub[u].status = "pending"
            \/ sub[u].status = "acked" /\ ~Live(u[1])'
            \/ u \in leavers /\ leavers' = {}]_vars

\* What reclaimOrphanTopicMessages found without rows and dead letters still has none
\* when it is deleted: subscription rows come with the message or from its dead letters.
OrphansStayOrphans ==
    \A m \in orphans : Live(m) /\ ~Dead(m) /\ \A s \in Subs : ~Present(<<m, s>>)

\* ReplayDLQ's promise: "the garbage collector never purges a message while a DLQ entry
\* still references it".
DLQEntriesKeepMessage == \A u \in Units : dlq[u] > 0 => Live(u[1])

-----------------------------------------------------------------------------
(* Progress.  The collector runs again and again, its statements end, and  *)
(* a row or message that a purge can take again and again is finally       *)
(* taken: pages are ordered and the rows locked by others change.  Dead    *)
(* letters have a retention age, as they do by default.                    *)

Fairness ==
    /\ WF_vars(findLeavers)
    /\ WF_vars(\E S \in SUBSET Units : purgeInactiveSubscriptions(S))
    /\ WF_vars(\E S \in SUBSET Ids : reclaimOrphanTopicMessages(S))
    /\ \A u \in Units :
        /\ WF_vars(VisibilityLapses(u))
        /\ SF_vars(\E S \in SUBSET Units : u \in S /\ purgeInactiveSubscriptions(S))
        /\ SF_vars(purgeDLQMessages({u}, {}))
    /\ \A m \in Ids :
        /\ SF_vars(purgeDLQMessages({}, {m}))
        /\ SF_vars(\E S \in SUBSET Ids : m \in S /\ findOrphans(S))
        /\ SF_vars(\E S \in SUBSET Ids : m \in S /\ reclaimOrphanTopicMessages(S))

FairSpec == Spec /\ Fairness

Meddling == Replaying \/ \E u \in Units, k \in Claims : extendTopicVisibility(u, k)

\* "An abandoned subscriber cannot pin messages indefinitely" (Unsubscribe): unless
\* replays or extensions go on for ever, a message without a row of an active
\* subscriber does not stay, whatever rows and dead letters departed ones left behind.
NothingPinned ==
    <>[][~Meddling]_vars =>
        \A m \in Ids : [](Live(m) => <>(~Live(m) \/ \E s \in active : Present(<<m, s>>)))

=============================================================================
