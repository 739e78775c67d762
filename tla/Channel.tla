------------------------------ MODULE Channel ------------------------------
(***************************************************************************)
(* One point-to-point channel of pgqueue: its message table, its           *)
(* dead-letter table, and every transaction of the library that writes     *)
(* them.                                                                   *)
(*                                                                         *)
(* Each action is one committed transaction (or one autocommitted          *)
(* statement).  Every transaction locks the rows it is going to write with *)
(* its first statement on them (FOR UPDATE SKIP LOCKED, FOR UPDATE, or the *)
(* UPDATE itself) and holds the locks until it commits, so for a given row *)
(* it happens at one point.  Reads made before the locks are taken are     *)
(* steps of their own: the paused flag (Admit) and the candidate page of   *)
(* ReplayFrom (fetchReplayCandidateIDs).  A transaction that fails rolls   *)
(* back and leaves the tables as they were.                                *)
(*                                                                         *)
(* SKIP LOCKED lets a statement pass over any row another transaction has  *)
(* locked, including one that will roll back.  So the ORDER BY of the      *)
(* probes and the page limits of the garbage collector are preferences: a  *)
(* statement works on SOME of the rows that match, and the model lets it   *)
(* be any of them.                                                         *)
(*                                                                         *)
(* Deadlines are compared with NOW() and with nothing else, so a row keeps *)
(* the outcome of each comparison: lapsed (visibility_timeout < NOW()),    *)
(* ready (available_at <= NOW()), fresh (created_at > NOW() - ttl).  Time  *)
(* passes when one of them turns; durations may have any length.           *)
(***************************************************************************)
EXTENDS Naturals, FiniteSets

CONSTANTS
    Ids,        \* message ids
    Claims,     \* claim tokens a delivery of one message may mint
    NoClaim,    \* claim_id IS NULL
    Consumers,  \* concurrent Receive calls
    Caps,       \* the max_retries values publishers resolve
    Backoff,    \* the values of cfg.backoffConfigured among the processes
    HasTTL,     \* whether the channel has a message TTL
    MaxDefers,  \* maxConsumeReclaimDefers
    MaxPublish  \* bound: times one explicit id is accepted by Publish

ASSUME CapsAssumption == Caps \subseteq Nat
ASSUME NoClaimAssumption == NoClaim \notin Claims
ASSUME BackoffAssumption == Backoff \subseteq BOOLEAN
ASSUME HasTTLAssumption == HasTTL \in BOOLEAN
ASSUME MaxDefersAssumption == MaxDefers \in Nat \ {0}
ASSUME MaxPublishAssumption == MaxPublish \in Nat

VARIABLES
    msg,        \* the message table, by id
    dlq,        \* how many dead-letter rows carry an original_message_id
    paused,     \* queue_metadata.paused
    admitted,   \* Receive calls that have read paused = FALSE
    replaying,  \* candidate page of a ReplayFrom transaction, {} when none
    receipt,    \* what the client that got claim k of message m knows of it
    deliv,      \* deliveries of a message since it was published or replayed
    accepted,   \* times an id was accepted by Publish
    purged,     \* copies of an id removed by retention, or from the DLQ by PurgeQueue
    wiped       \* message rows of an id that PurgeQueue removed

vars == <<msg, dlq, paused, admitted, replaying, receipt, deliv, accepted, purged,
          wiped>>

table == <<msg, dlq>>
client == <<paused, admitted, replaying>>
books == <<accepted, purged, wiped>>
history == <<deliv, books>>

Status == {"absent", "pending", "processing", "completed"}

Row == [status : Status, claim : Claims \cup {NoClaim}, retry : Nat, max : Nat,
        lapsed : BOOLEAN, ready : BOOLEAN, fresh : BOOLEAN]

NoRow == [status |-> "absent", claim |-> NoClaim, retry |-> 0, max |-> 0,
          lapsed |-> FALSE, ready |-> FALSE, fresh |-> FALSE]

(***************************************************************************)
(* "none": no client holds the receipt; "open": held, no call with it has  *)
(* succeeded; "acked", "nacked": the call that succeeded with it.          *)
(***************************************************************************)
ReceiptState == {"none", "open", "acked", "nacked"}

TypeOK ==
    /\ msg \in [Ids -> Row]
    /\ dlq \in [Ids -> Nat]
    /\ paused \in BOOLEAN
    /\ admitted \subseteq Consumers
    /\ replaying \subseteq Ids
    /\ receipt \in [Ids -> [Claims -> ReceiptState]]
    /\ deliv \in [Ids -> Nat]
    /\ accepted \in [Ids -> Nat]
    /\ purged \in [Ids -> Nat]
    /\ wiped \in [Ids -> Nat]

Init ==
    /\ msg = [m \in Ids |-> NoRow]
    /\ dlq = [m \in Ids |-> 0]
    /\ paused = FALSE
    /\ admitted = {}
    /\ replaying = {}
    /\ receipt = [m \in Ids |-> [k \in Claims |-> "none"]]
    /\ deliv = [m \in Ids |-> 0]
    /\ accepted = [m \in Ids |-> 0]
    /\ purged = [m \in Ids |-> 0]
    /\ wiped = [m \in Ids |-> 0]

-----------------------------------------------------------------------------
(* Row predicates: the WHERE clauses the statements share. *)

Present(m) == msg[m].status # "absent"

\* Probe A of channelConsumeQueries.
Deliverable(m) == msg[m].status = "pending" /\ msg[m].ready /\ msg[m].fresh

\* Fault: a consumer looks at pending rows only and leaves timeouts to the collector.
ReclaimableNever(m) == Present(m) /\ FALSE

\* Probe B of channelConsumeQueries.
Reclaimable(m) == msg[m].status = "processing" /\ msg[m].lapsed /\ msg[m].fresh

\* The claim check of ack, nack and extend: id, claim_id and status = processing.
Matches(m, k) == msg[m].status = "processing" /\ msg[m].claim = k

\* Fault: off by one, the last allowed redelivery is not made.
ExhaustedEarly(m) == msg[m].retry + 1 >= msg[m].max

\* retryCount + 1 > maxRetries: one more delivery would pass the ceiling.
Exhausted(m) == msg[m].retry + 1 > msg[m].max

-----------------------------------------------------------------------------
(* Row updates: the SET clauses. *)

Inserted(cap) ==
    [status |-> "pending", claim |-> NoClaim, retry |-> 0, max |-> cap,
     lapsed |-> FALSE, ready |-> TRUE, fresh |-> TRUE]

claimChannelMessage(row, n, k) ==
    [row EXCEPT !.status = "processing", !.claim = k, !.retry = n, !.lapsed = FALSE]

\* Back to pending after one more counted attempt, not before a backoff delay.
Delayed(row) ==
    [row EXCEPT !.status = "pending", !.claim = NoClaim, !.retry = @ + 1,
                !.lapsed = FALSE, !.ready = FALSE]

\* Fault: the timed-out attempt is not counted.
resetRowUncounted(row) ==
    [row EXCEPT !.status = "pending", !.claim = NoClaim, !.lapsed = FALSE]

\* Fault: the timed-out attempt is handed back.
resetRowHandedBack(row) ==
    [row EXCEPT !.status = "pending", !.claim = NoClaim, !.retry = @ - 1, !.lapsed = FALSE]

resetRow(row) ==
    [row EXCEPT !.status = "pending", !.claim = NoClaim, !.retry = @ + 1,
                !.lapsed = FALSE]

replayRow(row) ==
    [row EXCEPT !.status = "pending", !.claim = NoClaim, !.retry = 0, !.lapsed = FALSE]

\* Rows S dead-lettered (moveToDLQ: insert and delete in one transaction), rows T
\* back to pending behind a delay.
BuryAndDelay(S, T) ==
    [m \in Ids |-> IF m \in S THEN NoRow ELSE IF m \in T THEN Delayed(msg[m]) ELSE msg[m]]

moveToDLQ(S) == dlq' = [m \in Ids |-> IF m \in S THEN dlq[m] + 1 ELSE dlq[m]]

Counted(f, S) == [m \in Ids |-> IF m \in S THEN f[m] + 1 ELSE f[m]]

\* A new life of the messages S: attempts restart, and what clients did with receipts
\* of the former life no longer counts.
NewLife(S) ==
    /\ deliv' = [m \in Ids |-> IF m \in S THEN 0 ELSE deliv[m]]
    /\ receipt' = [m \in Ids |-> [k \in Claims |->
                     IF m \in S /\ receipt[m][k] # "none" THEN "open" ELSE receipt[m][k]]]

-----------------------------------------------------------------------------
(* Publish *)

\* PublishBatch is one multi-row insert: a duplicate id rolls the whole batch back.
publishBatchToChannel(S, cap) ==
    /\ \A m \in S : ~Present(m) /\ accepted[m] < MaxPublish
    /\ msg' = [m \in Ids |-> IF m \in S THEN Inserted(cap) ELSE msg[m]]
    /\ accepted' = Counted(accepted, S)
    /\ NewLife(S)
    /\ UNCHANGED <<dlq, client, purged, wiped>>

publishToChannel(m, cap) == publishBatchToChannel({m}, cap)

-----------------------------------------------------------------------------
(* Consume *)

setQueuePaused(p) ==
    /\ paused' = p
    /\ UNCHANGED <<table, admitted, replaying, receipt, history>>

\* consumeFromChannel reads the metadata row before its transaction begins.
Admit(c) ==
    /\ c \notin admitted
    /\ ~paused
    /\ admitted' = admitted \cup {c}
    /\ UNCHANGED <<table, paused, replaying, receipt, history>>

\* The Receive call fails, or its process dies, before the transaction commits.
ReceiveFails(c) ==
    /\ c \in admitted
    /\ admitted' = admitted \ {c}
    /\ UNCHANGED <<table, paused, replaying, receipt, history>>

\* Fault: the token names the message or the consumer, not the delivery.
FreshClaimReused(m, k) == receipt[m][k] \in ReceiptState

\* uuidv7(): a token no client holds and the row does not carry.
FreshClaim(m, k) == receipt[m][k] = "none" /\ msg[m].claim # k

\* The timed-out rows the loop of fetchPendingChannelMessage passes over:
\* reclaimChannelAttempt dead-letters the exhausted ones, and defers the others when
\* a backoff policy is configured (b).
Skippable(skip, b) ==
    /\ \A m \in skip : Reclaimable(m) /\ (b \/ Exhausted(m))
    /\ Cardinality(skip) <= MaxDefers

Buried(skip) == {m \in skip : Exhausted(m)}

\* Nothing left to deliver, or MaxDefers rows skipped: empty result, and a commit.
ReceiveEmpty(c, b, skip) ==
    /\ c \in admitted
    /\ Skippable(skip, b)
    /\ msg' = BuryAndDelay(Buried(skip), skip)
    /\ moveToDLQ(Buried(skip))
    /\ admitted' = admitted \ {c}
    /\ UNCHANGED <<paused, replaying, receipt, history>>

\* What the claimed row's retry_count becomes: a pending row keeps it, a reclaimed
\* row counts the timed-out attempt.  Without a backoff policy reclaim is immediate.
ClaimableAs(m, b, n) ==
    \/ Deliverable(m) /\ n = msg[m].retry
    \/ Reclaimable(m) /\ ~Exhausted(m) /\ ~b /\ n = msg[m].retry + 1

ReceiveMessage(c, b, skip, m, k, n) ==
    /\ c \in admitted
    /\ Skippable(skip, b)
    /\ Cardinality(skip) < MaxDefers
    /\ m \notin skip
    /\ ClaimableAs(m, b, n)
    /\ FreshClaim(m, k)
    /\ msg' = [BuryAndDelay(Buried(skip), skip) EXCEPT
                 ![m] = claimChannelMessage(msg[m], n, k)]
    /\ moveToDLQ(Buried(skip))
    /\ receipt' = [receipt EXCEPT ![m][k] = "open"]
    /\ deliv' = [deliv EXCEPT ![m] = @ + 1]
    /\ admitted' = admitted \ {c}
    /\ UNCHANGED <<paused, replaying, books>>

-----------------------------------------------------------------------------
(* Settle: calls made with a receipt.  A call whose receipt does not match *)
(* changes nothing.                                                        *)

Held(m, k) == receipt[m][k] # "none"

Settle(R, answer) ==
    receipt' = [m \in Ids |-> [k \in Claims |->
                  IF <<m, k>> \in R /\ Matches(m, k) THEN answer ELSE receipt[m][k]]]

Matched(R) == {m \in Ids : \E k \in Claims : <<m, k>> \in R /\ Matches(m, k)}

\* AckBatch: receipts are matched as (id, claim) pairs.
ackChannelBatch(R) ==
    /\ \A r \in R : Held(r[1], r[2])
    /\ msg' = [m \in Ids |-> IF m \in Matched(R)
                             THEN [msg[m] EXCEPT !.status = "completed"] ELSE msg[m]]
    /\ Settle(R, "acked")
    /\ UNCHANGED <<dlq, client, history>>

\* Fault: the UPDATE tests id and status but not claim_id.
ackChannelUnfenced(m, k) ==
    /\ Held(m, k)
    /\ msg[m].status = "processing"
    /\ msg' = [msg EXCEPT ![m].status = "completed"]
    /\ receipt' = [receipt EXCEPT ![m][k] = "acked"]
    /\ UNCHANGED <<dlq, client, history>>

ackChannel(m, k) ==
    /\ Held(m, k)
    /\ Matches(m, k)
    /\ msg' = [msg EXCEPT ![m].status = "completed"]
    /\ receipt' = [receipt EXCEPT ![m][k] = "acked"]
    /\ UNCHANGED <<dlq, client, history>>

\* handleNack / processNackBatch: dead-letter the exhausted rows, delay the others.
\* The computed delay and a WithRetryDelay override are both positive.
nackChannelBatch(R) ==
    LET dead == {m \in Matched(R) : Exhausted(m)} IN
    /\ \A r \in R : Held(r[1], r[2])
    /\ msg' = BuryAndDelay(dead, Matched(R))
    /\ moveToDLQ(dead)
    /\ Settle(R, "nacked")
    /\ UNCHANGED <<client, history>>

nackChannelImpl(m, k) == Matches(m, k) /\ nackChannelBatch({<<m, k>>})

\* Extends a claim even after it has lapsed, as long as nobody has reclaimed the row.
extendChannelVisibility(m, k) ==
    /\ Held(m, k)
    /\ Matches(m, k)
    /\ msg' = [msg EXCEPT ![m].lapsed = FALSE]
    /\ UNCHANGED <<dlq, client, receipt, history>>

\* The client drops the receipt: it is done with it, or it crashed.
Forget(m, k) ==
    /\ Held(m, k)
    /\ receipt' = [receipt EXCEPT ![m][k] = "none"]
    /\ UNCHANGED <<table, client, history>>

-----------------------------------------------------------------------------
(* Garbage collection.  Collectors of several processes run side by side   *)
(* and each page is a transaction of its own, so the passes happen in any  *)
(* order.  A retention policy purges rows past some age: of those it       *)
(* covers, any may have reached it.                                        *)

TimedOut(m) == msg[m].status = "processing" /\ msg[m].lapsed

promoteExhaustedChannelMessages(S) ==
    /\ \A m \in S : TimedOut(m) /\ msg[m].retry >= msg[m].max
    /\ msg' = BuryAndDelay(S, {})
    /\ moveToDLQ(S)
    /\ UNCHANGED <<client, receipt, history>>

\* Fault: exhausted rows are reset too, when this pass comes before the promotion.
resetTimedOutMessagesAll(S) ==
    /\ \A m \in S : TimedOut(m)
    /\ msg' = [m \in Ids |-> IF m \in S THEN resetRow(msg[m]) ELSE msg[m]]
    /\ UNCHANGED <<dlq, client, receipt, history>>

resetTimedOutMessages(S) ==
    /\ \A m \in S : TimedOut(m) /\ msg[m].retry < msg[m].max
    /\ msg' = [m \in Ids |-> IF m \in S THEN resetRow(msg[m]) ELSE msg[m]]
    /\ UNCHANGED <<dlq, client, receipt, history>>

PurgeRows(S) ==
    /\ msg' = BuryAndDelay(S, {})
    /\ purged' = Counted(purged, S)
    /\ UNCHANGED <<dlq, client, receipt, deliv, accepted, wiped>>

purgeCompletedMessages(S) ==
    /\ \A m \in S : msg[m].status = "completed"
    /\ PurgeRows(S)

\* Fault: the purge looks at the age alone and takes rows in flight.
purgeOldPendingMessagesAny(S) ==
    /\ \A m \in S : msg[m].status \in {"pending", "processing"}
    /\ PurgeRows(S)

purgeOldPendingMessages(S) ==
    /\ \A m \in S : msg[m].status = "pending"
    /\ PurgeRows(S)

\* Dead-letter rows of one id are purged one by one.
purgeDLQMessages(S) ==
    /\ \A m \in S : dlq[m] > 0
    /\ dlq' = [m \in Ids |-> IF m \in S THEN dlq[m] - 1 ELSE dlq[m]]
    /\ purged' = Counted(purged, S)
    /\ UNCHANGED <<msg, client, receipt, deliv, accepted, wiped>>

\* PurgeQueue empties both tables, messages first.  Rows committed after the snapshot
\* of a DELETE survive it: D are the ids the second one reached, S those whose message
\* row was there for the first one.
executePurge(S, D) ==
    /\ S \subseteq D
    /\ \A m \in S : Present(m)
    /\ msg' = BuryAndDelay(S, {})
    /\ dlq' = [m \in Ids |-> IF m \in D THEN 0 ELSE dlq[m]]
    /\ wiped' = Counted(wiped, S)
    /\ purged' = [m \in Ids |-> purged[m] + (IF m \in D THEN dlq[m] ELSE 0)]
    /\ UNCHANGED <<client, receipt, deliv, accepted>>

PurgeQueue == \E D \in (SUBSET Ids) \ {{}} : \E S \in SUBSET D : executePurge(S, D)

-----------------------------------------------------------------------------
(* Replay *)

\* replayFromPage selects its candidates without locking them ...
fetchReplayCandidateIDs(S) ==
    /\ replaying = {}
    /\ \A m \in S : msg[m].status = "completed"
    /\ replaying' = S
    /\ UNCHANGED <<table, paused, admitted, receipt, history>>

Replayed(S) == [m \in Ids |-> IF m \in S THEN replayRow(msg[m]) ELSE msg[m]]

\* Fault: the UPDATE trusts the candidate page.
applyReplayFromUnchecked ==
    LET S == {m \in replaying : Present(m)} IN
    /\ replaying # {}
    /\ msg' = Replayed(S)
    /\ NewLife(S)
    /\ replaying' = {}
    /\ UNCHANGED <<dlq, paused, admitted, books>>

\* ... and the UPDATE tests their status again.
applyReplayFrom ==
    LET S == {m \in replaying : msg[m].status \notin {"absent", "pending", "processing"}} IN
    /\ replaying # {}
    /\ msg' = Replayed(S)
    /\ NewLife(S)
    /\ replaying' = {}
    /\ UNCHANGED <<dlq, paused, admitted, books>>

\* The page's transaction fails, or its process dies.
ReplayFromFails ==
    /\ replaying # {}
    /\ replaying' = {}
    /\ UNCHANGED <<table, paused, admitted, receipt, history>>

\* Any row that is not in flight; available_at becomes NOW().
executeReplayMessage(m) ==
    /\ msg[m].status \notin {"absent", "processing"}
    /\ msg' = [msg EXCEPT ![m] = [replayRow(msg[m]) EXCEPT !.ready = TRUE]]
    /\ NewLife({m})
    /\ UNCHANGED <<dlq, client, books>>

\* Fault: every fetched dead-letter row is deleted, inserted or not.
replayDLQPageDropping(S, cap) ==
    LET inserted == {m \in S : ~Present(m)} IN
    /\ \A m \in S : dlq[m] > 0
    /\ msg' = [m \in Ids |-> IF m \in inserted THEN Inserted(cap) ELSE msg[m]]
    /\ dlq' = [m \in Ids |-> IF m \in S THEN dlq[m] - 1 ELSE dlq[m]]
    /\ NewLife(inserted)
    /\ UNCHANGED <<client, books>>

\* One page of ReplayDLQ: of the dead-letter rows fetched, one per message id is
\* inserted (ON CONFLICT DO NOTHING), and the inserted ones are deleted from the DLQ.
replayDLQPage(S, cap) ==
    LET inserted == {m \in S : ~Present(m)} IN
    /\ \A m \in S : dlq[m] > 0
    /\ msg' = [m \in Ids |-> IF m \in inserted THEN Inserted(cap) ELSE msg[m]]
    /\ dlq' = [m \in Ids |-> IF m \in inserted THEN dlq[m] - 1 ELSE dlq[m]]
    /\ NewLife(inserted)
    /\ UNCHANGED <<client, books>>

-----------------------------------------------------------------------------
(* The passing of time *)

Elapse(m, row) ==
    /\ Present(m)
    /\ msg' = [msg EXCEPT ![m] = row]
    /\ UNCHANGED <<dlq, client, receipt, history>>

VisibilityLapses(m) ==
    /\ msg[m].status = "processing" /\ ~msg[m].lapsed
    /\ Elapse(m, [msg[m] EXCEPT !.lapsed = TRUE])

BackoffElapses(m) == ~msg[m].ready /\ Elapse(m, [msg[m] EXCEPT !.ready = TRUE])

TTLElapses(m) == HasTTL /\ msg[m].fresh /\ Elapse(m, [msg[m] EXCEPT !.fresh = FALSE])

-----------------------------------------------------------------------------

Publishing ==
    \/ \E S \in (SUBSET Ids) \ {{}}, cap \in Caps : publishBatchToChannel(S, cap)
    \/ \E m \in Ids, cap \in Caps : publishToChannel(m, cap)

Receiving(c) ==
    \/ \E b \in Backoff, skip \in SUBSET Ids : ReceiveEmpty(c, b, skip)
    \/ \E b \in Backoff, skip \in SUBSET Ids, m \in Ids, k \in Claims :
          \E n \in {msg[m].retry, msg[m].retry + 1} : ReceiveMessage(c, b, skip, m, k, n)

Settling ==
    \/ \E R \in SUBSET (Ids \X Claims) :
          Matched(R) # {} /\ (ackChannelBatch(R) \/ nackChannelBatch(R))
    \/ \E m \in Ids, k \in Claims :
          \/ ackChannel(m, k)
          \/ nackChannelImpl(m, k)
          \/ extendChannelVisibility(m, k)
          \/ Forget(m, k)

Collecting ==
    \E S \in (SUBSET Ids) \ {{}} :
        \/ promoteExhaustedChannelMessages(S)
        \/ resetTimedOutMessages(S)
        \/ purgeCompletedMessages(S)
        \/ purgeOldPendingMessages(S)
        \/ purgeDLQMessages(S)

Replaying ==
    \/ \E S \in (SUBSET Ids) \ {{}} : fetchReplayCandidateIDs(S)
    \/ applyReplayFrom
    \/ ReplayFromFails
    \/ \E m \in Ids : executeReplayMessage(m)
    \/ \E S \in (SUBSET Ids) \ {{}}, cap \in Caps : replayDLQPage(S, cap)

TimePasses ==
    \E m \in Ids : VisibilityLapses(m) \/ BackoffElapses(m) \/ TTLElapses(m)

Next ==
    \/ Publishing
    \/ \E p \in BOOLEAN : setQueuePaused(p)
    \/ \E c \in Consumers : Admit(c) \/ ReceiveFails(c) \/ Receiving(c)
    \/ Settling
    \/ Collecting
    \/ PurgeQueue
    \/ Replaying
    \/ TimePasses

Spec == Init /\ [][Next]_vars

-----------------------------------------------------------------------------
(* What the channel promises *)

\* A message is delivered at most max_retries + 1 times between two publishes or
\* replays, whichever way each attempt ended: Nack, NackBatch, a timeout found by a
\* consumer (reclaimChannelAttempt) or by a collector (resetTimedOutMessages).
DeliveryCeiling == \A m \in Ids : Present(m) => deliv[m] <= msg[m].max + 1

\* Every attempt is counted once and only once: retry_count tells exactly how many
\* deliveries a message has had, on all the paths that raise it.
AttemptsCounted ==
    \A m \in Ids :
        /\ msg[m].status = "pending" => deliv[m] = msg[m].retry
        /\ msg[m].status \in {"processing", "completed"} => deliv[m] = msg[m].retry + 1
        /\ Present(m) => msg[m].retry <= msg[m].max

\* A message is dead-lettered only after exactly max_retries + 1 deliveries, by the
\* handler that failed it, the consumer that found it timed out, or the collector.
DeadLetterExact ==
    [][\A m \in Ids : dlq'[m] > dlq[m] => Present(m) /\ deliv[m] = msg[m].max + 1]_vars

\* While a claim has not lapsed, the row stays in flight under it unless the holder
\* of that very claim acks or nacks: no consumer, collector, replay or holder of an
\* older receipt takes the message away (claim_id fencing).  Only PurgeQueue,
\* which empties the channel, does.
LeaseProtected ==
    [][\A m \in Ids, k \in Claims :
         Matches(m, k) /\ ~msg[m].lapsed /\ wiped'[m] = wiped[m] =>
            Matches(m, k)' \/ receipt'[m][k] \in {"acked", "nacked"}]_vars

\* A successful Ack is final: until somebody replays or republishes the message, the
\* row is gone or completed under the claim that acked it, so no two receipts of one
\* message are ever both acked and nothing redelivers it.
AckFinal ==
    \A m \in Ids, k \in Claims :
        receipt[m][k] = "acked" =>
            ~Present(m) \/ (msg[m].status = "completed" /\ msg[m].claim = k)

\* A receipt that has stopped matching its row (ErrClaimExpired and friends) never
\* matches again, whatever happens to the message later.
FencedForever ==
    [][\A m \in Ids, k \in Claims :
         Held(m, k) /\ ~Matches(m, k) /\ Held(m, k)' => ~Matches(m, k)']_vars

\* No copy of a message is lost or duplicated: what Publish accepted is in the message
\* table, in the dead-letter table, or was removed by a retention policy or PurgeQueue.
Conservation ==
    \A m \in Ids :
        accepted[m] = (IF Present(m) THEN 1 ELSE 0) + dlq[m] + purged[m] + wiped[m]

-----------------------------------------------------------------------------
(* The channel implements the delivery contract, a message being the unit. *)

Unit(status) ==
    CASE status = "absent" -> "none"
      [] status = "pending" -> "ready"
      [] status = "processing" -> "held"
      [] status = "completed" -> "done"

Contract == INSTANCE Delivery WITH
    Units <- Ids,
    st <- [m \in Ids |-> Unit(msg[m].status)],
    attempts <- deliv,
    cap <- [m \in Ids |-> msg[m].max],
    dead <- dlq,
    forsaken <- {},
    emptied <- wiped

\* Every transaction moves each message only along the edges of the contract: none goes
\* from in flight to gone without Ack, retry exhaustion or PurgeQueue.
ImplementsContract == Contract!Spec

=============================================================================
