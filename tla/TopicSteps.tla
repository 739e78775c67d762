----------------------------- MODULE TopicSteps -----------------------------
(***************************************************************************)
(* Lemmas about Topic: its transactions keep the types, and every one of   *)
(* them does one of eleven things to each unit of delivery.                *)
(***************************************************************************)
EXTENDS Topic, TLAPS

\* Time for the provers: a leaf that names no method of its own gets these.
USE SMTT(30), ZenonT(30)

\* A unit is a message and a subscriber.
LEMMA UnitParts ==
  /\ \A u \in Units : u[1] \in Ids /\ u[2] \in Subs /\ u = <<u[1], u[2]>>
  /\ \A m \in Ids, s \in Subs : <<m, s>> \in Units
  BY DEF Units

\* A topic whose tables were just created, legacy dead letters apart, is well formed.
LEMMA TypeInit == Init => TypeOK
<1>1. NoRow \in SubRow
  BY DEF NoRow, SubRow, Status
<1> SUFFICES ASSUME Init PROVE TypeOK
  OBVIOUS
<1>2. receipt \in [Units -> [Claims -> ReceiptState]]
  BY DEF Init, ReceiptState
<1>3. msg \in [Ids -> {"absent", "fresh", "stale"}] /\ sub \in [Units -> SubRow]
  BY <1>1 DEF Init
<1>4. dlq \in [Units -> Nat] /\ deliv \in [Units -> Nat]
  BY DEF Init
<1>5. accepted \in [Ids -> Nat] /\ torn \in [Ids -> Nat] /\ wiped \in [Ids -> Nat]
  BY DEF Init
<1>6. QED
  BY <1>2, <1>3, <1>4, <1>5, LegacyAssumption DEF Init, TypeOK

\* Every SET clause, applied to a well-formed row, gives a well-formed row.
LEMMA RowTypes ==
  ASSUME TypeOK, NEW u \in Units
  PROVE  /\ NoRow \in SubRow /\ NewRow \in SubRow
         /\ Delayed(sub[u]) \in SubRow
         /\ resetRow(sub[u]) \in SubRow
         /\ replayRow(sub[u]) \in SubRow
         /\ [sub[u] EXCEPT !.status = "acked"] \in SubRow
         /\ \A f \in BOOLEAN : /\ [sub[u] EXCEPT !.lapsed = f] \in SubRow
                               /\ [sub[u] EXCEPT !.ready = f] \in SubRow
         /\ \A n \in Nat, k \in Claims : claimTopicSubscription(sub[u], n, k) \in SubRow
<1>1. sub[u] \in SubRow
  BY DEF TypeOK
<1>2. NoRow \in SubRow /\ NewRow \in SubRow
  BY DEF SubRow, Status, NoRow, NewRow
<1>3. sub[u].retry + 1 \in Nat
  BY <1>1 DEF SubRow
<1>4. Delayed(sub[u]) \in SubRow
  BY Zenon, <1>1, <1>3 DEF SubRow, Status, Delayed
<1>5. resetRow(sub[u]) \in SubRow
  BY Zenon, <1>1, <1>3 DEF SubRow, Status, resetRow
<1>6. replayRow(sub[u]) \in SubRow
  BY Zenon, <1>1 DEF SubRow, Status, replayRow
<1>7. [sub[u] EXCEPT !.status = "acked"] \in SubRow
  BY <1>1 DEF SubRow, Status
<1>8. ASSUME NEW f \in BOOLEAN
      PROVE  /\ [sub[u] EXCEPT !.lapsed = f] \in SubRow
             /\ [sub[u] EXCEPT !.ready = f] \in SubRow
  BY <1>1 DEF SubRow
<1>9. ASSUME NEW n \in Nat, NEW k \in Claims
      PROVE  claimTopicSubscription(sub[u], n, k) \in SubRow
  BY Zenon, <1>1 DEF SubRow, Status, claimTopicSubscription
<1>10. QED
  BY <1>2, <1>4, <1>5, <1>6, <1>7, <1>8, <1>9

\* Deleting rows and delaying others keeps the subscription table well formed.
LEMMA DropType ==
  ASSUME TypeOK, NEW S, NEW T
  PROVE  Drop(S, T) \in [Units -> SubRow]
  BY Zenon, RowTypes DEF Drop, TypeOK

\* So does inserting rows where there are none.
LEMMA SubscribedType ==
  ASSUME TypeOK, NEW S
  PROVE  Subscribed(S) \in [Units -> SubRow]
  BY Zenon, RowTypes DEF Subscribed, TypeOK

\* Publishing or replaying keeps the bookkeeping of clients well formed.
LEMMA NewLifeType ==
  ASSUME TypeOK, NEW S, NewLife(S)
  PROVE  deliv' \in [Units -> Nat] /\ receipt' \in [Units -> [Claims -> ReceiptState]]
  BY DEF NewLife, TypeOK, ReceiptState

\* Recording the answer of Ack or Nack keeps the receipts well formed.
LEMMA SettleType ==
  ASSUME TypeOK, NEW R, NEW a \in ReceiptState, Settle(R, a)
  PROVE  receipt' \in [Units -> [Claims -> ReceiptState]]
  BY DEF Settle, TypeOK, ReceiptState

\* A counter of messages stays a counter.
LEMMA CountedType ==
  ASSUME NEW f \in [Ids -> Nat], NEW S
  PROVE  Counted(f, S) \in [Ids -> Nat]
  BY DEF Counted

\* What statements had found stays a set of rows when some of them are deleted.
LEMMA GoneType ==
  ASSUME TypeOK, NEW S
  PROVE  /\ PagesLose(S) => replaying' \in [Replayers -> SUBSET Units]
         /\ RowsGone(S) => leavers' \subseteq Units /\ replaying' \in [Replayers -> SUBSET Units]
  BY DEF RowsGone, PagesLose, TypeOK

\* moveSubToDLQ keeps the dead-letter counts and the pages well formed.
LEMMA MoveType ==
  ASSUME TypeOK, NEW S, moveSubToDLQ(S)
  PROVE  /\ dlq' \in [Units -> Nat]
         /\ leavers' \subseteq Units /\ replaying' \in [Replayers -> SUBSET Units]
<1>1. dlq' \in [Units -> Nat]
  BY DEF moveSubToDLQ, TypeOK
<1>2. QED
  BY <1>1, GoneType DEF moveSubToDLQ

\* Deleting messages with their subscription rows keeps both tables well formed.
LEMMA DeleteType ==
  ASSUME TypeOK, NEW S, deleteMessages(S)
  PROVE  /\ msg' \in [Ids -> {"absent", "fresh", "stale"}] /\ sub' \in [Units -> SubRow]
         /\ leavers' \subseteq Units /\ replaying' \in [Replayers -> SUBSET Units]
<1>1. msg' \in [Ids -> {"absent", "fresh", "stale"}]
  BY DEF deleteMessages, TypeOK
<1>2. QED
  BY <1>1, DropType, GoneType DEF deleteMessages

\* Every transaction leaves well-formed rows, pages, counters and receipts behind.
LEMMA TypeInductive == TypeOK /\ [Next]_vars => TypeOK'
<1> SUFFICES ASSUME TypeOK, [Next]_vars PROVE TypeOK'
  OBVIOUS
<1> USE DEF tables, rowScans, msgScans, books, history
<1>1. ASSUME NEW s \in Subs, Subscribe(s) \/ Unsubscribe(s) PROVE TypeOK'
  BY <1>1 DEF Subscribe, Unsubscribe, TypeOK
<1>2. ASSUME NEW S \in SUBSET Ids, getActiveSubscribers(S) PROVE TypeOK'
  <2>1. [ids |-> S, to |-> active] \in [ids : SUBSET Ids, to : SUBSET Subs]
    BY DEF TypeOK
  <2>2. QED
    BY <1>2, <2>1 DEF getActiveSubscribers, TypeOK
<1>3. ASSUME NEW p \in publishing, publishBatchToPubSub(p) PROVE TypeOK'
  <2>1. msg' \in [Ids -> {"absent", "fresh", "stale"}] /\ accepted' \in [Ids -> Nat]
    BY <1>3, CountedType DEF publishBatchToPubSub, TypeOK
  <2>2. sub' \in [Units -> SubRow]
    BY <1>3, SubscribedType DEF publishBatchToPubSub
  <2>3. deliv' \in [Units -> Nat] /\ receipt' \in [Units -> [Claims -> ReceiptState]]
    BY <1>3, NewLifeType DEF publishBatchToPubSub
  <2>4. QED
    BY <1>3, <2>1, <2>2, <2>3 DEF publishBatchToPubSub, TypeOK
<1>4. ASSUME NEW p \in publishing, PublishFails(p) PROVE TypeOK'
  BY <1>4 DEF PublishFails, TypeOK
<1>5. ASSUME NEW s \in Subs, NEW b \in Backoff, NEW skip \in SUBSET Units,
             ReceiveEmpty(s, b, skip)
      PROVE  TypeOK'
  <2>1. sub' \in [Units -> SubRow]
    BY <1>5, DropType DEF ReceiveEmpty
  <2>2. QED
    BY <1>5, <2>1, MoveType DEF ReceiveEmpty, TypeOK
<1>6. ASSUME NEW b \in Backoff, NEW skip \in SUBSET Units, NEW u \in Units, NEW k \in Claims,
             NEW n \in {sub[u].retry, sub[u].retry + 1}, ReceiveMessage(b, skip, u, k, n)
      PROVE  TypeOK'
  <2>1. n \in Nat
    BY DEF TypeOK, SubRow
  <2>2. sub' \in [Units -> SubRow]
    BY Zenon, <1>6, <2>1, DropType, RowTypes DEF ReceiveMessage
  <2>3. receipt' \in [Units -> [Claims -> ReceiptState]] /\ deliv' \in [Units -> Nat]
    BY <1>6 DEF ReceiveMessage, TypeOK, ReceiptState
  <2>4. QED
    BY <1>6, <2>2, <2>3, MoveType DEF ReceiveMessage, TypeOK
<1>7. ASSUME NEW s \in Subs, NEW R \in SUBSET (Units \X Claims), ackTopicBatch(s, R)
      PROVE  TypeOK'
  <2>1. sub' \in [Units -> SubRow]
    BY Zenon, <1>7, RowTypes DEF ackTopicBatch, TypeOK
  <2>2. QED
    BY <1>7, <2>1, SettleType DEF ackTopicBatch, TypeOK, ReceiptState
<1>8. ASSUME NEW s \in Subs, NEW R \in SUBSET (Units \X Claims), nackTopicBatch(s, R)
      PROVE  TypeOK'
  <2>1. sub' \in [Units -> SubRow] /\ receipt' \in [Units -> [Claims -> ReceiptState]]
    BY <1>8, DropType, SettleType DEF nackTopicBatch, ReceiptState
  <2>2. QED
    BY <1>8, <2>1, MoveType DEF nackTopicBatch, TypeOK
<1>9. ASSUME NEW u \in Units, NEW k \in Claims, extendTopicVisibility(u, k) PROVE TypeOK'
  <2>1. sub' \in [Units -> SubRow]
    BY Zenon, <1>9, RowTypes DEF extendTopicVisibility, TypeOK
  <2>2. QED
    BY <1>9, <2>1 DEF extendTopicVisibility, TypeOK
<1>10. ASSUME NEW u \in Units, NEW k \in Claims, Forget(u, k) PROVE TypeOK'
  BY <1>10 DEF Forget, TypeOK, ReceiptState
<1>11. ASSUME NEW S \in SUBSET Units, promoteExhaustedTopicSubscriptions(S) PROVE TypeOK'
  <2>1. sub' \in [Units -> SubRow]
    BY <1>11, DropType DEF promoteExhaustedTopicSubscriptions
  <2>2. QED
    BY <1>11, <2>1, MoveType DEF promoteExhaustedTopicSubscriptions, TypeOK
<1>12. ASSUME NEW S \in SUBSET Units, resetTimedOutSubscriptions(S) PROVE TypeOK'
  <2>1. sub' \in [Units -> SubRow]
    BY Zenon, <1>12, RowTypes DEF resetTimedOutSubscriptions, TypeOK
  <2>2. QED
    BY <1>12, <2>1 DEF resetTimedOutSubscriptions, TypeOK
<1>13. ASSUME NEW S \in SUBSET Units, purgeOldPendingMessages(S) PROVE TypeOK'
  BY <1>13, DropType, GoneType DEF purgeOldPendingMessages, TypeOK
<1>14. ASSUME NEW S \in SUBSET Units, NEW L \in SUBSET Ids, purgeDLQMessages(S, L)
       PROVE  TypeOK'
  <2>1. dlq' \in [Units -> Nat]
    BY <1>14 DEF purgeDLQMessages, TypeOK
  <2>2. QED
    BY <1>14, <2>1 DEF purgeDLQMessages, TypeOK
<1>15. ASSUME NEW S \in SUBSET Units, purgeInactiveSubscriptions(S) PROVE TypeOK'
  BY <1>15, DropType, GoneType DEF purgeInactiveSubscriptions, TypeOK
<1>16. ASSUME findLeavers PROVE TypeOK'
  BY <1>16 DEF findLeavers, TypeOK
<1>17. ASSUME NEW S \in SUBSET Ids, findFinished(S) \/ findOrphans(S) PROVE TypeOK'
  BY <1>17 DEF findFinished, findOrphans, TypeOK
<1>18. ASSUME NEW S \in SUBSET Ids, purgeCompletedMessages(S) PROVE TypeOK'
  <2>1. torn' \in [Ids -> Nat]
    BY <1>18, CountedType DEF purgeCompletedMessages, TypeOK
  <2>2. QED
    BY <1>18, <2>1, DeleteType DEF purgeCompletedMessages, TypeOK
<1>19. ASSUME NEW S \in SUBSET Ids, reclaimOrphanTopicMessages(S) PROVE TypeOK'
  BY <1>19, DeleteType DEF reclaimOrphanTopicMessages, TypeOK
<1>20. ASSUME NEW D \in (SUBSET Ids) \ {{}}, NEW S \in SUBSET D, executePurge(S, D)
       PROVE  TypeOK'
  <2>1. dlq' \in [Units -> Nat] /\ wiped' \in [Ids -> Nat]
    BY <1>20, CountedType DEF executePurge, TypeOK
  <2>2. QED
    BY <1>20, <2>1, DeleteType DEF executePurge, TypeOK
<1>21. ASSUME NEW r \in Replayers, NEW S \in SUBSET Units, fetchReplayCandidateIDs(r, S)
       PROVE  TypeOK'
  BY <1>21 DEF fetchReplayCandidateIDs, TypeOK
<1>22. ASSUME NEW r \in Replayers, applyReplayFrom(r) PROVE TypeOK'
  <2>1. sub' \in [Units -> SubRow]
    BY Zenon, <1>22, RowTypes DEF applyReplayFrom, ReplayRows, TypeOK
  <2>2. deliv' \in [Units -> Nat] /\ receipt' \in [Units -> [Claims -> ReceiptState]]
    BY <1>22, NewLifeType DEF applyReplayFrom, ReplayRows
  <2>3. QED
    BY <1>22, <2>1, <2>2 DEF applyReplayFrom, ReplayRows, TypeOK
<1>23. ASSUME NEW r \in Replayers, ReplayFromFails(r) PROVE TypeOK'
  BY <1>23 DEF ReplayFromFails, TypeOK
<1>24. ASSUME NEW S \in SUBSET Units, replayDLQPage(S) PROVE TypeOK'
  <2>1. dlq' \in [Units -> Nat]
    BY <1>24 DEF replayDLQPage, TypeOK
  <2>2. deliv' \in [Units -> Nat] /\ receipt' \in [Units -> [Claims -> ReceiptState]]
    BY <1>24, NewLifeType DEF replayDLQPage
  <2>3. QED
    BY <1>24, <2>1, <2>2, SubscribedType DEF replayDLQPage, TypeOK
<1>25. ASSUME NEW m \in Ids, replayLegacyDLQ(m) PROVE TypeOK'
  <2>1. deliv' \in [Units -> Nat] /\ receipt' \in [Units -> [Claims -> ReceiptState]]
    BY <1>25, NewLifeType DEF replayLegacyDLQ
  <2>2. QED
    BY <1>25, <2>1, SubscribedType DEF replayLegacyDLQ, TypeOK
<1>26. ASSUME NEW u \in Units, VisibilityLapses(u) \/ BackoffElapses(u) PROVE TypeOK'
  <2>1. sub' \in [Units -> SubRow]
    BY Zenon, <1>26, RowTypes DEF VisibilityLapses, BackoffElapses, Elapse, TypeOK
  <2>2. QED
    BY <1>26, <2>1 DEF VisibilityLapses, BackoffElapses, Elapse, TypeOK
<1>27. ASSUME NEW m \in Ids, TTLElapses(m) PROVE TypeOK'
  BY <1>27 DEF TTLElapses, TypeOK
<1>28. CASE UNCHANGED vars
  BY <1>28 DEF vars, TypeOK
<1>29. ASSUME Settling PROVE TypeOK'
  <2>1. ASSUME NEW u \in Units, NEW k \in Claims, ackTopic(u, k) \/ nackTopicImpl(u, k)
        PROVE  TypeOK'
    <3>1. u[2] \in Subs /\ {<<u, k>>} \in SUBSET (Units \X Claims)
      BY UnitParts
    <3>2. QED
      BY <2>1, <3>1, <1>7, <1>8 DEF ackTopic, nackTopicImpl
  <2>2. QED
    BY Zenon, <1>29, <2>1, <1>7, <1>8, <1>9, <1>10 DEF Settling
<1>30. ASSUME Collecting PROVE TypeOK'
  BY Zenon, <1>30, <1>11, <1>12, <1>13, <1>14, <1>15, <1>16, <1>17, <1>18, <1>19 DEF Collecting
<1>31. ASSUME Replaying PROVE TypeOK'
  BY Zenon, <1>31, <1>21, <1>22, <1>23, <1>24, <1>25 DEF Replaying
<1>32. ASSUME Membership \/ Publishing \/ Receiving \/ PurgeQueue \/ TimePasses PROVE TypeOK'
  BY Zenon, <1>32, <1>1, <1>2, <1>3, <1>4, <1>5, <1>6, <1>20, <1>26, <1>27
     DEF Membership, Publishing, Receiving, PurgeQueue, TimePasses
<1>33. QED
  BY <1>28, <1>29, <1>30, <1>31, <1>32 DEF Next

-----------------------------------------------------------------------------
(* What holds between steps, and every transaction relies on. *)

\* The foreign key: a subscription row has its message.
Referenced == \A u \in Units : Present(u) => Live(u[1])

\* The rows of an open Publish are invisible, and no two publishers have the same id.
Invisible ==
    \A p \in publishing :
        /\ \A m \in p.ids : ~Live(m)
        /\ \A q \in publishing \ {p} : p.ids \cap q.ids = {}

\* The rows of a candidate page of ReplayFrom are there.
PagesPresent == \A r \in Replayers : \A u \in replaying[r] : Present(u)

ScanInv == Referenced /\ Invisible /\ PagesPresent /\ OrphansStayOrphans

-----------------------------------------------------------------------------
(* What a step may do to one unit.  UnitSteps below shows that these      *)
(* are all.                                                                *)

Answered(u, k, a) ==
    /\ receipt'[u][k] = a
    /\ \A j \in Claims \ {k} : receipt'[u][j] = receipt[u][j]

Renewed(u) ==
    \A k \in Claims : receipt'[u][k] = IF receipt[u][k] = "none" THEN "none" ELSE "open"

Rests(u) ==
    /\ sub'[u].status = sub[u].status
    /\ Present(u) => sub'[u].claim = sub[u].claim /\ sub'[u].retry = sub[u].retry
    /\ dlq'[u] = dlq[u] /\ deliv'[u] = deliv[u] /\ NotTaken(u[1])
    /\ \A k \in Claims : receipt'[u][k] \in {receipt[u][k], "none"}

\* A row appears: with its message, from a dead letter of the subscriber, or from one
\* without subscriber.
Starts(u) ==
    /\ ~Present(u)
    /\ sub'[u].status = "pending" /\ sub'[u].claim = NoClaim /\ sub'[u].retry = 0
    /\ deliv'[u] = 0 /\ Renewed(u) /\ NotTaken(u[1]) /\ Live(u[1])'
    /\ \/ ~Live(u[1]) /\ accepted'[u[1]] = accepted[u[1]] + 1 /\ dlq'[u] = dlq[u]
       \/ dlq[u] > 0 /\ dlq'[u] = dlq[u] - 1
       \/ u[1] \in legacy /\ dlq'[u] = dlq[u]

Delivers(u) ==
    /\ \/ sub[u].status = "pending" /\ sub'[u].retry = sub[u].retry
       \/ TimedOut(u) /\ ~Exhausted(u) /\ sub'[u].retry = sub[u].retry + 1
    /\ sub'[u].status = "processing"
    /\ \E k \in Claims : receipt[u][k] = "none" /\ sub'[u].claim = k /\ Answered(u, k, "open")
    /\ deliv'[u] = deliv[u] + 1 /\ dlq'[u] = dlq[u] /\ NotTaken(u[1])

Acks(u) ==
    /\ \E k \in Claims : Matches(u, k) /\ Answered(u, k, "acked")
    /\ sub'[u].status = "acked" /\ sub'[u].claim = sub[u].claim /\ sub'[u].retry = sub[u].retry
    /\ dlq'[u] = dlq[u] /\ deliv'[u] = deliv[u] /\ NotTaken(u[1])

\* The claim ends: it had lapsed, or its holder gave it up with a nack.
Ends(u) ==
    /\ sub[u].status = "processing" /\ deliv'[u] = deliv[u] /\ NotTaken(u[1])
    /\ \/ sub[u].lapsed /\ receipt'[u] = receipt[u]
       \/ \E k \in Claims : sub[u].claim = k /\ Answered(u, k, "nacked")

Releases(u) ==
    /\ Ends(u) /\ ~Exhausted(u)
    /\ sub'[u].status = "pending" /\ sub'[u].claim = NoClaim
    /\ sub'[u].retry = sub[u].retry + 1
    /\ dlq'[u] = dlq[u]

Buries(u) == Ends(u) /\ Exhausted(u) /\ ~Present(u)' /\ dlq'[u] = dlq[u] + 1

\* The row goes: given up while pending, acked and gone with its finished message, or
\* reaped because its subscriber had left.
Expires(u) ==
    /\ Present(u) /\ ~Present(u)'
    /\ \/ sub[u].status = "pending"
       \/ sub[u].status = "acked" /\ ~Live(u[1])'
       \/ /\ u \in leavers /\ leavers' = {}
          /\ sub[u].status = "processing" => sub[u].lapsed
    /\ dlq'[u] = dlq[u] /\ deliv'[u] = deliv[u] /\ receipt'[u] = receipt[u] /\ NotTaken(u[1])

ExpiresDead(u) ==
    /\ sub'[u] = sub[u] /\ deliv'[u] = deliv[u] /\ receipt'[u] = receipt[u]
    /\ dlq'[u] \in 0..(dlq[u] - 1) /\ NotTaken(u[1])

\* The message goes although its work was not finished.
Tears(u) ==
    /\ ~Present(u)' /\ dlq'[u] = dlq[u]
    /\ torn'[u[1]] = torn[u[1]] + 1 /\ wiped'[u[1]] = wiped[u[1]]
    /\ deliv'[u] = deliv[u] /\ receipt'[u] = receipt[u]

Empties(u) ==
    /\ ~Present(u)' /\ dlq'[u] = 0
    /\ wiped'[u[1]] = wiped[u[1]] + 1 /\ torn'[u[1]] = torn[u[1]]
    /\ deliv'[u] = deliv[u] /\ receipt'[u] = receipt[u]

Replays(u) ==
    /\ sub[u].status = "acked"
    /\ sub'[u].status = "pending" /\ sub'[u].claim = NoClaim /\ sub'[u].retry = 0
    /\ deliv'[u] = 0 /\ Renewed(u) /\ dlq'[u] = dlq[u] /\ NotTaken(u[1])

UnitStep(u) ==
    \/ Rests(u) \/ Starts(u) \/ Delivers(u) \/ Acks(u) \/ Releases(u) \/ Buries(u)
    \/ Expires(u) \/ ExpiresDead(u) \/ Tears(u) \/ Empties(u) \/ Replays(u)

-----------------------------------------------------------------------------
(* What a step may do to one message.  MessageSteps in TopicProofs shows   *)
(* that these are all.                                                     *)

Stays(m) == Live(m)' = Live(m) /\ NotTaken(m)

\* Its Publish commits.
Appears(m) ==
    /\ ~Live(m) /\ Live(m)' /\ NotTaken(m)
    /\ \E p \in publishing : m \in p.ids /\ publishing' = publishing \ {p}

\* The message goes, and every subscriber's row with it.
Leaves(m) ==
    /\ ~Live(m)' /\ m \notin orphans'
    /\ \A s \in Subs : ~Present(<<m, s>>)'
    /\ \/ /\ Finished(m) \/ Orphan(m)
          /\ NotTaken(m) /\ \A s \in Subs : dlq'[<<m, s>>] = dlq[<<m, s>>]
       \/ torn'[m] = torn[m] + 1
       \/ torn'[m] = torn[m] /\ \A s \in Subs : dlq'[<<m, s>>] = 0

MessageStep(m) == Stays(m) \/ Appears(m) \/ Leaves(m)

-----------------------------------------------------------------------------
(* What each SET clause leaves in the columns the properties speak of. *)

\* A unit whose row and counters a transaction leaves alone rests.
LEMMA Untouched ==
  ASSUME NEW u \in Units, sub'[u] = sub[u], dlq'[u] = dlq[u], deliv'[u] = deliv[u],
         receipt'[u] = receipt[u], NotTaken(u[1])
  PROVE  UnitStep(u)
  BY DEF UnitStep, Rests

\* A unit that loses dead letters and nothing else.
LEMMA DeadTaken ==
  ASSUME TypeOK, NEW u \in Units, sub'[u] = sub[u], deliv'[u] = deliv[u],
         receipt'[u] = receipt[u], NotTaken(u[1]), dlq[u] > 0,
         dlq'[u] = 0 \/ dlq'[u] = dlq[u] - 1
  PROVE  UnitStep(u)
<1>1. dlq'[u] \in 0..(dlq[u] - 1)
  BY DEF TypeOK
<1>2. QED
  BY Zenon, <1>1 DEF UnitStep, ExpiresDead

\* A message that a transaction leaves alone stays.
LEMMA MsgUntouched ==
  ASSUME NEW m \in Ids, msg'[m] = msg[m], NotTaken(m)
  PROVE  MessageStep(m)
  BY DEF MessageStep, Stays, Live

\* Delayed, of a nack or a deferred reclaim: pending, unclaimed, the attempt counted.
LEMMA DelayedFields ==
  ASSUME TypeOK, NEW u \in Units
  PROVE  /\ Delayed(sub[u]).status = "pending" /\ Delayed(sub[u]).claim = NoClaim
         /\ Delayed(sub[u]).retry = sub[u].retry + 1
  BY DEF TypeOK, SubRow, Delayed

\* resetRow, of the collector: the same.
LEMMA ResetFields ==
  ASSUME TypeOK, NEW u \in Units
  PROVE  /\ resetRow(sub[u]).status = "pending" /\ resetRow(sub[u]).claim = NoClaim
         /\ resetRow(sub[u]).retry = sub[u].retry + 1
  BY DEF TypeOK, SubRow, resetRow

\* replayRow, of ReplayFrom: the attempts start again.
LEMMA ReplayFields ==
  ASSUME TypeOK, NEW u \in Units
  PROVE  /\ replayRow(sub[u]).status = "pending" /\ replayRow(sub[u]).claim = NoClaim
         /\ replayRow(sub[u]).retry = 0
  BY DEF TypeOK, SubRow, replayRow

\* claimTopicSubscription, of Receive.
LEMMA ClaimedFields ==
  ASSUME TypeOK, NEW u \in Units, NEW n, NEW k
  PROVE  /\ claimTopicSubscription(sub[u], n, k).status = "processing"
         /\ claimTopicSubscription(sub[u], n, k).claim = k
         /\ claimTopicSubscription(sub[u], n, k).retry = n
  BY DEF TypeOK, SubRow, claimTopicSubscription

\* A deleted row is absent, an inserted one pending and unclaimed.
LEMMA ConstantFields ==
  /\ NoRow.status = "absent"
  /\ NewRow.status = "pending" /\ NewRow.claim = NoClaim /\ NewRow.retry = 0
  BY DEF NoRow, NewRow

\* Receipts of a former life are open again once the unit is replayed or republished.
LEMMA NewLifeRenews ==
  ASSUME TypeOK, NEW S, NewLife(S), NEW u \in Units
  PROVE  /\ u \in S => deliv'[u] = 0 /\ Renewed(u)
         /\ u \notin S => deliv'[u] = deliv[u] /\ receipt'[u] = receipt[u]
  BY DEF NewLife, Renewed, TypeOK

\* Ack and Nack answer the matching receipts and no other.
LEMMA SettleAnswers ==
  ASSUME TypeOK, NEW R, NEW a, Settle(R, a), NEW u \in Units
  PROVE  /\ u \notin Matched(R) => receipt'[u] = receipt[u]
         /\ u \in Matched(R) => \E k \in Claims : Matches(u, k) /\ Answered(u, k, a)
  BY Zenon DEF Settle, Matched, Matches, Answered, TypeOK

\* The fields of a row and of its counters are numbers.
LEMMA RowTyped ==
  ASSUME TypeOK, NEW u \in Units
  PROVE  /\ sub[u] \in SubRow /\ sub[u].status \in Status /\ sub[u].retry \in Nat
         /\ dlq[u] \in Nat /\ deliv[u] \in Nat
  BY DEF TypeOK, SubRow

\* The books of a message are numbers.
LEMMA BooksTyped ==
  ASSUME TypeOK, NEW u \in Units
  PROVE  accepted[u[1]] \in Nat /\ torn[u[1]] \in Nat /\ wiped[u[1]] \in Nat
  BY UnitParts DEF TypeOK

\* Subscribed inserts where there is no row and changes nothing elsewhere.
LEMMA SubscribedRow ==
  ASSUME TypeOK, NEW S, sub' = Subscribed(S), NEW u \in Units
  PROVE  /\ u \in S /\ ~Present(u) =>
               sub'[u].status = "pending" /\ sub'[u].claim = NoClaim /\ sub'[u].retry = 0
         /\ ~(u \in S /\ ~Present(u)) => sub'[u] = sub[u]
  BY ConstantFields DEF Subscribed

\* Drop deletes the rows of S, delays the others of T and changes nothing elsewhere.
LEMMA DroppedRow ==
  ASSUME TypeOK, NEW S, NEW T, sub' = Drop(S, T), NEW u \in Units
  PROVE  /\ u \in S => ~Present(u)'
         /\ u \in T \ S => /\ sub'[u].status = "pending" /\ sub'[u].claim = NoClaim
                           /\ sub'[u].retry = sub[u].retry + 1
         /\ u \notin S \cup T => sub'[u] = sub[u]
<1>1. sub'[u] = IF u \in S THEN NoRow ELSE IF u \in T THEN Delayed(sub[u]) ELSE sub[u]
  BY DEF Drop
<1>2. u \in S => ~Present(u)'
  BY <1>1, ConstantFields DEF Present
<1>3. QED
  BY <1>1, <1>2, DelayedFields

-----------------------------------------------------------------------------
(* The eleven things: Publish and Receive.  The other transactions are in  *)
(* module TopicSteps.                                                      *)

\* getActiveSubscribers reads, and changes no row.
LEMMA FanOutUnit ==
  ASSUME TypeOK, NEW u \in Units, NEW S, getActiveSubscribers(S)
  PROVE  UnitStep(u)
  BY Untouched DEF getActiveSubscribers, tables, rowScans, msgScans, books, history, NotTaken

\* A Publish that fails leaves nothing behind.
LEMMA PublishFailsUnit ==
  ASSUME TypeOK, NEW u \in Units, NEW p \in publishing, PublishFails(p)
  PROVE  UnitStep(u)
  BY Untouched DEF PublishFails, tables, rowScans, msgScans, books, history, NotTaken

\* Publish inserts the rows of ids that had no message, so no row either.
LEMMA PublishUnit ==
  ASSUME TypeOK, ScanInv, NEW u \in Units, NEW p \in publishing, publishBatchToPubSub(p)
  PROVE  UnitStep(u)
<1> DEFINE fanout == {v \in Units : v[1] \in p.ids /\ v[2] \in p.to}
<1>1. /\ sub' = Subscribed(fanout) /\ NewLife(fanout) /\ dlq'[u] = dlq[u] /\ NotTaken(u[1])
      /\ accepted' = Counted(accepted, p.ids)
  BY Zenon DEF publishBatchToPubSub, tables, rowScans, msgScans, books, history, NotTaken
<1>2. CASE u \in fanout
  <2>1. u[1] \in p.ids /\ u[1] \in Ids
    BY <1>2, UnitParts
  <2>2. ~Live(u[1]) /\ ~Present(u)
    BY <2>1 DEF ScanInv, Invisible, Referenced
  <2>3. accepted'[u[1]] = accepted[u[1]] + 1 /\ Live(u[1])'
    BY <1>1, <2>1 DEF Counted, publishBatchToPubSub, Live
  <2>4. sub'[u].status = "pending" /\ sub'[u].claim = NoClaim /\ sub'[u].retry = 0
    BY <1>1, <1>2, <2>2, SubscribedRow
  <2>5. deliv'[u] = 0 /\ Renewed(u)
    BY <1>1, <1>2, NewLifeRenews
  <2>6. QED
    BY <1>1, <2>2, <2>3, <2>4, <2>5 DEF UnitStep, Starts
<1>3. CASE u \notin fanout
  <2>1. sub'[u] = sub[u]
    BY <1>1, <1>3, SubscribedRow
  <2>2. deliv'[u] = deliv[u] /\ receipt'[u] = receipt[u]
    BY <1>1, <1>3, NewLifeRenews
  <2>3. QED
    BY <1>1, <2>1, <2>2, Untouched
<1>4. QED
  BY <1>2, <1>3

\* Receive dead-letters or defers the rows it skips (reclaimTopicAttempt).
LEMMA SkippedUnit ==
  ASSUME TypeOK, NEW u \in Units, NEW s \in Subs, NEW b \in Backoff, NEW skip \in SUBSET Units,
         Skippable(s, b, skip), sub'[u] = Drop(Buried(skip), skip)[u],
         moveSubToDLQ(Buried(skip)), deliv'[u] = deliv[u], receipt'[u] = receipt[u],
         NotTaken(u[1])
  PROVE  UnitStep(u)
<1>1. CASE u \notin skip
  <2>1. sub'[u] = sub[u] /\ dlq'[u] = dlq[u]
    BY <1>1 DEF Buried, Drop, moveSubToDLQ
  <2>2. QED
    BY <2>1, Untouched
<1>2. CASE u \in skip
  <2>1. Ends(u)
    BY Zenon, <1>2 DEF Skippable, Reclaimable, Ends
  <2>2. CASE Exhausted(u)
    <3>1. sub'[u] = NoRow /\ dlq'[u] = dlq[u] + 1
      BY Zenon, <1>2, <2>2 DEF Buried, Drop, moveSubToDLQ
    <3>2. QED
      BY Zenon, <2>1, <2>2, <3>1, ConstantFields DEF UnitStep, Buries, Present
  <2>3. CASE ~Exhausted(u)
    <3>1. sub'[u] = Delayed(sub[u]) /\ dlq'[u] = dlq[u]
      BY Zenon, <1>2, <2>3 DEF Buried, Drop, moveSubToDLQ
    <3>2. QED
      BY Zenon, <2>1, <2>3, <3>1, DelayedFields DEF UnitStep, Releases
  <2>4. QED
    BY <2>2, <2>3
<1>3. QED
  BY <1>1, <1>2

\* A Receive that finds nothing to deliver does nothing else.
LEMMA ReceiveEmptyUnit ==
  ASSUME TypeOK, NEW u \in Units, NEW s \in Subs, NEW b \in Backoff, NEW skip \in SUBSET Units,
         ReceiveEmpty(s, b, skip)
  PROVE  UnitStep(u)
  BY SkippedUnit DEF ReceiveEmpty, tables, rowScans, msgScans, books, history, NotTaken

\* A Receive that returns a message delivers one row besides.
LEMMA ReceiveUnit ==
  ASSUME TypeOK, NEW u \in Units, NEW b \in Backoff, NEW skip \in SUBSET Units, NEW x \in Units,
         NEW k \in Claims, NEW n, ReceiveMessage(b, skip, x, k, n)
  PROVE  UnitStep(u)
<1>1. CASE u # x
  <2>1. sub'[u] = Drop(Buried(skip), skip)[u]
    BY <1>1 DEF ReceiveMessage, Drop, tables, rowScans, msgScans, books, history, NotTaken
  <2>2. deliv'[u] = deliv[u] /\ receipt'[u] = receipt[u] /\ NotTaken(u[1])
    BY <1>1 DEF ReceiveMessage, TypeOK, tables, rowScans, msgScans, books, history, NotTaken
  <2>3. x[2] \in Subs /\ Skippable(x[2], b, skip) /\ moveSubToDLQ(Buried(skip))
    BY Zenon, UnitParts DEF ReceiveMessage, tables, rowScans, msgScans, books, history, NotTaken
  <2>4. QED
    BY <2>1, <2>2, <2>3, SkippedUnit
<1>2. CASE u = x
  <2>1. sub'[u] = claimTopicSubscription(sub[u], n, k)
    BY <1>2 DEF ReceiveMessage, Drop, tables, rowScans, msgScans, books, history, NotTaken
  <2>2. dlq'[u] = dlq[u]
    BY <1>2 DEF ReceiveMessage, moveSubToDLQ, Buried
  <2>3. receipt[u][k] = "none" /\ Answered(u, k, "open")
    BY <1>2 DEF ReceiveMessage, FreshClaim, Answered, TypeOK
  <2>4. deliv'[u] = deliv[u] + 1 /\ NotTaken(u[1])
    BY <1>2 DEF ReceiveMessage, TypeOK, tables, rowScans, msgScans, books, history, NotTaken
  <2>5. sub'[u].status = "processing" /\ sub'[u].claim = k /\ sub'[u].retry = n
    BY <2>1, ClaimedFields
  <2>6. \/ sub[u].status = "pending" /\ n = sub[u].retry
        \/ TimedOut(u) /\ ~Exhausted(u) /\ n = sub[u].retry + 1
    BY <1>2 DEF ReceiveMessage, ClaimableAs, Deliverable, Reclaimable, TimedOut
  <2>7. QED
    BY Zenon, <2>2, <2>3, <2>4, <2>5, <2>6 DEF UnitStep, Delivers
<1>3. QED
  BY <1>1, <1>2

-----------------------------------------------------------------------------
\* Deleting messages deletes the rows of those messages and touches no other unit.
LEMMA DeletedUnit ==
  ASSUME TypeOK, NEW S, deleteMessages(S), NEW u \in Units
  PROVE  /\ u[1] \in S => ~Present(u)' /\ ~Live(u[1])'
         /\ u[1] \notin S => sub'[u] = sub[u]
<1>1. u[1] \in Ids
  BY UnitParts
<1>2. sub' = Drop({v \in Units : v[1] \in S}, {})
  BY DEF deleteMessages
<1>3. /\ u[1] \in S => ~Present(u)'
      /\ u[1] \notin S => sub'[u] = sub[u]
  BY <1>2, DroppedRow
<1>4. u[1] \in S => ~Live(u[1])'
  BY <1>1 DEF deleteMessages, Live
<1>5. QED
  BY <1>3, <1>4

\* Ack completes the rows it matches and touches no other.
LEMMA AckUnit ==
  ASSUME TypeOK, NEW u \in Units, NEW s, NEW R \in SUBSET (Units \X Claims), ackTopicBatch(s, R)
  PROVE  UnitStep(u)
<1>1. dlq'[u] = dlq[u] /\ deliv'[u] = deliv[u] /\ NotTaken(u[1]) /\ Settle(R, "acked")
  BY DEF ackTopicBatch, tables, rowScans, msgScans, books, history, NotTaken
<1>2. CASE u \notin Matched(R)
  <2>1. sub'[u] = sub[u] /\ receipt'[u] = receipt[u]
    BY Zenon, <1>1, <1>2, SettleAnswers DEF ackTopicBatch
  <2>2. QED
    BY <1>1, <2>1, Untouched
<1>3. CASE u \in Matched(R)
  <2>1. sub'[u] = [sub[u] EXCEPT !.status = "acked"]
    BY <1>3 DEF ackTopicBatch, tables, rowScans, msgScans, books, history, NotTaken
  <2>2. /\ sub'[u].status = "acked" /\ sub'[u].claim = sub[u].claim
        /\ sub'[u].retry = sub[u].retry
    BY <2>1, RowTyped DEF SubRow
  <2>3. \E k \in Claims : Matches(u, k) /\ Answered(u, k, "acked")
    BY Zenon, <1>1, <1>3, SettleAnswers
  <2>4. QED
    BY <1>1, <2>2, <2>3 DEF UnitStep, Acks
<1>4. QED
  BY <1>2, <1>3

\* Nack dead-letters the exhausted rows it matches and delays the others.
LEMMA NackUnit ==
  ASSUME TypeOK, NEW u \in Units, NEW s, NEW R \in SUBSET (Units \X Claims),
         nackTopicBatch(s, R)
  PROVE  UnitStep(u)
<1> DEFINE dead == {v \in Matched(R) : Exhausted(v)}
<1>1. /\ deliv'[u] = deliv[u] /\ NotTaken(u[1]) /\ Settle(R, "nacked")
      /\ sub' = Drop(dead, Matched(R)) /\ moveSubToDLQ(dead)
  BY DEF nackTopicBatch, tables, rowScans, msgScans, books, history, NotTaken
<1>2. CASE u \notin Matched(R)
  <2>1. sub'[u] = sub[u] /\ dlq'[u] = dlq[u]
    BY <1>1, <1>2 DEF Drop, moveSubToDLQ
  <2>2. receipt'[u] = receipt[u]
    BY <1>1, <1>2, SettleAnswers
  <2>3. QED
    BY <1>1, <2>1, <2>2, Untouched
<1>3. CASE u \in Matched(R)
  <2>1. Ends(u)
    BY <1>1, <1>3, SettleAnswers DEF Ends, Matches
  <2>2. CASE Exhausted(u)
    <3>1. sub'[u] = NoRow /\ dlq'[u] = dlq[u] + 1
      BY <1>1, <1>3, <2>2 DEF Drop, moveSubToDLQ
    <3>2. QED
      BY <2>1, <2>2, <3>1, ConstantFields DEF UnitStep, Buries, Present
  <2>3. CASE ~Exhausted(u)
    <3>1. sub'[u] = Delayed(sub[u]) /\ dlq'[u] = dlq[u]
      BY <1>1, <1>3, <2>3 DEF Drop, moveSubToDLQ
    <3>2. QED
      BY <2>1, <2>3, <3>1, DelayedFields DEF UnitStep, Releases
  <2>4. QED
    BY <2>2, <2>3
<1>4. QED
  BY <1>2, <1>3

\* ExtendVisibility changes no column the properties speak of.
LEMMA ExtendUnit ==
  ASSUME TypeOK, NEW u \in Units, NEW x \in Units, NEW k \in Claims, extendTopicVisibility(x, k)
  PROVE  UnitStep(u)
<1>1. /\ sub'[u].status = sub[u].status /\ sub'[u].claim = sub[u].claim
      /\ sub'[u].retry = sub[u].retry
  BY RowTyped DEF extendTopicVisibility, TypeOK, SubRow
<1>2. QED
  BY <1>1 DEF extendTopicVisibility, UnitStep, Rests,
     tables, rowScans, msgScans, books, history, NotTaken

\* A client that drops a receipt changes no row.
LEMMA ForgetUnit ==
  ASSUME TypeOK, NEW u \in Units, NEW x \in Units, NEW k \in Claims, Forget(x, k)
  PROVE  UnitStep(u)
  BY DEF Forget, UnitStep, Rests, TypeOK, tables, rowScans, msgScans, books, history, NotTaken

\* A single Ack or Nack is a batch of one.
LEMMA SettleOneUnit ==
  ASSUME TypeOK, NEW u \in Units, NEW x \in Units, NEW k \in Claims,
         ackTopic(x, k) \/ nackTopicImpl(x, k)
  PROVE  UnitStep(u)
<1>1. {<<x, k>>} \in SUBSET (Units \X Claims)
  OBVIOUS
<1>2. QED
  BY <1>1, AckUnit, NackUnit DEF ackTopic, nackTopicImpl

\* promoteExhaustedTopicSubscriptions dead-letters rows whose claim has lapsed.
LEMMA PromoteUnit ==
  ASSUME TypeOK, NEW u \in Units, NEW S \in SUBSET Units, promoteExhaustedTopicSubscriptions(S)
  PROVE  UnitStep(u)
<1>1. deliv'[u] = deliv[u] /\ receipt'[u] = receipt[u] /\ NotTaken(u[1])
  BY DEF promoteExhaustedTopicSubscriptions, tables, rowScans, msgScans, books, history, NotTaken
<1>2. CASE u \in S
  <2>1. TimedOut(u) /\ sub[u].retry >= MaxRetries
    BY Zenon, <1>2 DEF promoteExhaustedTopicSubscriptions
  <2>2. ~Present(u)' /\ dlq'[u] = dlq[u] + 1
    BY Zenon, <1>2, DroppedRow DEF promoteExhaustedTopicSubscriptions, moveSubToDLQ
  <2>3. Ends(u)
    BY Zenon, <1>1, <2>1 DEF Ends, TimedOut
  <2>4. Exhausted(u)
    BY <2>1, RowTyped, MaxRetriesAssumption DEF Exhausted
  <2>5. QED
    BY Zenon, <2>2, <2>3, <2>4 DEF UnitStep, Buries
<1>3. CASE u \notin S
  <2>1. sub'[u] = sub[u] /\ dlq'[u] = dlq[u]
    BY <1>3, DroppedRow DEF promoteExhaustedTopicSubscriptions, moveSubToDLQ
  <2>2. QED
    BY <1>1, <2>1, Untouched
<1>4. QED
  BY Zenon, <1>2, <1>3

\* resetTimedOutSubscriptions counts the attempt and releases the row.
LEMMA ResetUnit ==
  ASSUME TypeOK, NEW u \in Units, NEW S \in SUBSET Units, resetTimedOutSubscriptions(S)
  PROVE  UnitStep(u)
<1>1. dlq'[u] = dlq[u] /\ deliv'[u] = deliv[u] /\ receipt'[u] = receipt[u] /\ NotTaken(u[1])
  BY Zenon DEF resetTimedOutSubscriptions, tables, rowScans, msgScans, books, history, NotTaken
<1>2. CASE u \in S
  <2>1. TimedOut(u) /\ sub[u].retry < MaxRetries /\ sub'[u] = resetRow(sub[u])
    BY <1>2 DEF resetTimedOutSubscriptions, tables, rowScans, msgScans, books, history, NotTaken
  <2>2. Ends(u)
    BY <1>1, <2>1 DEF Ends, TimedOut
  <2>3. ~Exhausted(u)
    BY <2>1, RowTyped, MaxRetriesAssumption DEF Exhausted
  <2>4. QED
    BY Zenon, <1>1, <2>1, <2>2, <2>3, ResetFields DEF UnitStep, Releases
<1>3. CASE u \notin S
  BY <1>1, <1>3, Untouched DEF resetTimedOutSubscriptions
<1>4. QED
  BY <1>2, <1>3

\* purgeOldPendingMessages takes pending rows.
LEMMA GiveUpUnit ==
  ASSUME TypeOK, NEW u \in Units, NEW S \in SUBSET Units, purgeOldPendingMessages(S)
  PROVE  UnitStep(u)
<1>1. /\ dlq'[u] = dlq[u] /\ deliv'[u] = deliv[u] /\ receipt'[u] = receipt[u]
      /\ NotTaken(u[1]) /\ sub' = Drop(S, {})
  BY DEF purgeOldPendingMessages, tables, rowScans, msgScans, books, history, NotTaken
<1>2. CASE u \in S
  <2>1. sub[u].status = "pending" /\ ~Present(u)'
    BY <1>1, <1>2, DroppedRow DEF purgeOldPendingMessages
  <2>2. QED
    BY Zenon, <1>1, <2>1 DEF UnitStep, Expires, Present
<1>3. CASE u \notin S
  BY <1>1, <1>3, DroppedRow, Untouched
<1>4. QED
  BY <1>2, <1>3

\* purgeInactiveSubscriptions takes no row under a live claim.
LEMMA ReapUnit ==
  ASSUME TypeOK, NEW u \in Units, NEW S \in SUBSET Units, purgeInactiveSubscriptions(S)
  PROVE  UnitStep(u)
<1>1. /\ dlq'[u] = dlq[u] /\ deliv'[u] = deliv[u] /\ receipt'[u] = receipt[u]
      /\ NotTaken(u[1]) /\ sub' = Drop(S, {}) /\ leavers' = {}
  BY DEF purgeInactiveSubscriptions, tables, rowScans, msgScans, books, history, NotTaken
<1>2. CASE u \in S
  <2>1. u \in leavers /\ (sub[u].status = "processing" => sub[u].lapsed) /\ ~Present(u)'
    BY Zenon, <1>1, <1>2, DroppedRow DEF purgeInactiveSubscriptions
  <2>2. CASE Present(u)
    BY Zenon, <1>1, <2>1, <2>2 DEF UnitStep, Expires
  <2>3. CASE ~Present(u)
    BY Zenon, <1>1, <2>1, <2>3 DEF UnitStep, Rests, Present
  <2>4. QED
    BY Zenon, <2>2, <2>3
<1>3. CASE u \notin S
  BY <1>1, <1>3, DroppedRow, Untouched
<1>4. QED
  BY <1>2, <1>3

\* purgeDLQMessages takes dead letters.
LEMMA PurgeDLQUnit ==
  ASSUME TypeOK, NEW u \in Units, NEW S \in SUBSET Units, NEW L \in SUBSET Ids,
         purgeDLQMessages(S, L)
  PROVE  UnitStep(u)
<1>1. sub'[u] = sub[u] /\ deliv'[u] = deliv[u] /\ receipt'[u] = receipt[u] /\ NotTaken(u[1])
  BY Zenon DEF purgeDLQMessages, tables, rowScans, msgScans, books, history, NotTaken
<1>2. CASE u \in S
  <2>1. dlq[u] > 0 /\ dlq'[u] = dlq[u] - 1
    BY <1>2 DEF purgeDLQMessages, tables, rowScans, msgScans, books, history, NotTaken
  <2>2. QED
    BY <1>1, <2>1, DeadTaken
<1>3. CASE u \notin S
  BY <1>1, <1>3, Untouched DEF purgeDLQMessages
<1>4. QED
  BY <1>2, <1>3

\* purgeCompletedMessages takes acked rows with their message, or tears the message.
LEMMA CompletedUnit ==
  ASSUME TypeOK, NEW u \in Units, NEW S \in SUBSET Ids, purgeCompletedMessages(S)
  PROVE  UnitStep(u)
<1>0. u[1] \in Ids /\ u[2] \in Subs /\ u = <<u[1], u[2]>>
  BY UnitParts
<1>1. /\ dlq'[u] = dlq[u] /\ deliv'[u] = deliv[u] /\ receipt'[u] = receipt[u]
      /\ wiped'[u[1]] = wiped[u[1]] /\ deleteMessages(S)
      /\ torn' = Counted(torn, {m \in S : ~Finished(m)})
  BY Zenon DEF purgeCompletedMessages, tables, rowScans, msgScans, books, history, NotTaken
<1>2. CASE u[1] \in S /\ Finished(u[1])
  <2>1. sub[u].status \in {"absent", "acked"}
    BY Zenon, <1>0, <1>2 DEF Finished
  <2>2. ~Present(u)' /\ ~Live(u[1])'
    BY Zenon, <1>1, <1>2, DeletedUnit
  <2>3. NotTaken(u[1])
    BY <1>0, <1>1, <1>2 DEF Counted, NotTaken
  <2>4. QED
    BY Zenon, <1>1, <2>1, <2>2, <2>3 DEF UnitStep, Expires, Rests, Present
<1>3. CASE u[1] \in S /\ ~Finished(u[1])
  <2>1. ~Present(u)'
    BY Zenon, <1>1, <1>3, DeletedUnit
  <2>2. torn'[u[1]] = torn[u[1]] + 1
    BY <1>0, <1>1, <1>3 DEF Counted, NotTaken
  <2>3. QED
    BY Zenon, <1>1, <2>1, <2>2 DEF UnitStep, Tears
<1>4. CASE u[1] \notin S
  <2>1. NotTaken(u[1])
    BY <1>0, <1>1, <1>4 DEF Counted, NotTaken
  <2>2. QED
    BY <1>1, <1>4, <2>1, DeletedUnit, Untouched
<1>5. QED
  BY <1>2, <1>3, <1>4

\* reclaimOrphanTopicMessages takes messages without rows.
LEMMA OrphanUnit ==
  ASSUME TypeOK, ScanInv, NEW u \in Units, NEW S \in SUBSET Ids, reclaimOrphanTopicMessages(S)
  PROVE  UnitStep(u)
<1>0. u[1] \in Ids /\ u[2] \in Subs /\ u = <<u[1], u[2]>>
  BY UnitParts
<1>1. /\ dlq'[u] = dlq[u] /\ deliv'[u] = deliv[u] /\ receipt'[u] = receipt[u]
      /\ NotTaken(u[1]) /\ deleteMessages(S) /\ S \subseteq orphans
  BY Zenon DEF reclaimOrphanTopicMessages, tables, rowScans, msgScans, books, history, NotTaken
<1>2. CASE u[1] \in S
  <2>1. ~Present(u)
    BY Zenon, <1>0, <1>1, <1>2 DEF ScanInv, OrphansStayOrphans
  <2>2. ~Present(u)'
    BY <1>1, <1>2, DeletedUnit
  <2>3. QED
    BY <1>1, <2>1, <2>2 DEF UnitStep, Rests, Present
<1>3. CASE u[1] \notin S
  BY Zenon, <1>1, <1>3, DeletedUnit, Untouched
<1>4. QED
  BY <1>2, <1>3

\* PurgeQueue takes rows and dead letters.
LEMMA WipeUnit ==
  ASSUME TypeOK, NEW u \in Units, NEW D \in (SUBSET Ids) \ {{}}, NEW S \in SUBSET D,
         executePurge(S, D)
  PROVE  UnitStep(u)
<1>0. u[1] \in Ids /\ u[2] \in Subs /\ u = <<u[1], u[2]>>
  BY UnitParts
<1>1. /\ deliv'[u] = deliv[u] /\ receipt'[u] = receipt[u] /\ deleteMessages(S)
      /\ torn'[u[1]] = torn[u[1]] /\ wiped' = Counted(wiped, S)
      /\ dlq'[u] = IF u[1] \in D THEN 0 ELSE dlq[u]
  BY DEF executePurge, tables, rowScans, msgScans, books, history, NotTaken
<1>2. CASE u[1] \in S
  <2>1. ~Present(u)'
    BY <1>1, <1>2, DeletedUnit
  <2>2. wiped'[u[1]] = wiped[u[1]] + 1 /\ dlq'[u] = 0
    BY <1>0, <1>1, <1>2 DEF Counted, NotTaken
  <2>3. QED
    BY Zenon, <1>1, <2>1, <2>2 DEF UnitStep, Empties
<1>3. CASE u[1] \notin S
  <2>1. sub'[u] = sub[u] /\ NotTaken(u[1])
    BY <1>0, <1>1, <1>3, DeletedUnit DEF Counted, NotTaken
  <2>2. CASE dlq'[u] = dlq[u]
    BY Zenon, <1>1, <2>1, <2>2, Untouched
  <2>3. CASE dlq'[u] # dlq[u]
    BY <1>1, <2>1, <2>3, RowTyped, DeadTaken
  <2>4. QED
    BY <2>2, <2>3
<1>4. QED
  BY <1>2, <1>3

\* fetchReplayCandidateIDs reads, and changes no row.
LEMMA CandidatesUnit ==
  ASSUME TypeOK, NEW u \in Units, NEW r, NEW S, fetchReplayCandidateIDs(r, S)
  PROVE  UnitStep(u)
  BY Untouched DEF fetchReplayCandidateIDs, tables, rowScans, msgScans, books, history, NotTaken

\* A ReplayFrom that fails changes no row.
LEMMA ReplayFailsUnit ==
  ASSUME TypeOK, NEW u \in Units, NEW r, ReplayFromFails(r)
  PROVE  UnitStep(u)
  BY Untouched DEF ReplayFromFails, tables, rowScans, msgScans, books, history, NotTaken

\* ReplayFrom replays acked rows.
LEMMA ReplayFromUnit ==
  ASSUME TypeOK, ScanInv, NEW u \in Units, NEW r \in Replayers, applyReplayFrom(r)
  PROVE  UnitStep(u)
<1> DEFINE S == {v \in replaying[r] : sub[v].status \notin {"pending", "processing"}}
<1>1. /\ NewLife(S) /\ dlq'[u] = dlq[u] /\ NotTaken(u[1])
      /\ sub'[u] = IF u \in S THEN replayRow(sub[u]) ELSE sub[u]
  BY Zenon DEF applyReplayFrom, ReplayRows, tables, rowScans, msgScans, books, history, NotTaken
<1>2. CASE u \in S
  <2>1. Present(u)
    BY <1>2 DEF ScanInv, PagesPresent
  <2>2. sub[u].status = "acked"
    BY Zenon, <1>2, <2>1, RowTyped DEF Status, Present
  <2>3. deliv'[u] = 0 /\ Renewed(u)
    BY <1>1, <1>2, NewLifeRenews
  <2>4. QED
    BY <1>1, <1>2, <2>2, <2>3, ReplayFields DEF UnitStep, Replays
<1>3. CASE u \notin S
  BY <1>1, <1>3, NewLifeRenews, Untouched
<1>4. QED
  BY <1>2, <1>3

\* ReplayDLQ creates the row of the subscriber that failed.
LEMMA ReplayDLQUnit ==
  ASSUME TypeOK, NEW u \in Units, NEW S \in SUBSET Units, replayDLQPage(S)
  PROVE  UnitStep(u)
<1>1. /\ sub' = Subscribed(S) /\ NewLife({v \in S : ~Present(v)}) /\ NotTaken(u[1])
      /\ dlq'[u] = IF u \in S THEN dlq[u] - 1 ELSE dlq[u]
      /\ u \in S => dlq[u] > 0 /\ Live(u[1])'
  BY Zenon DEF replayDLQPage, Live, tables, rowScans, msgScans, books, history, NotTaken
<1>2. CASE u \in S /\ ~Present(u)
  <2>1. deliv'[u] = 0 /\ Renewed(u)
    BY <1>1, <1>2, NewLifeRenews
  <2>2. sub'[u].status = "pending" /\ sub'[u].claim = NoClaim /\ sub'[u].retry = 0
    BY Zenon, <1>1, <1>2, SubscribedRow
  <2>3. QED
    BY Zenon, <1>1, <1>2, <2>1, <2>2 DEF UnitStep, Starts
<1>3. CASE ~(u \in S /\ ~Present(u))
  <2>1. deliv'[u] = deliv[u] /\ receipt'[u] = receipt[u]
    BY <1>1, <1>3, NewLifeRenews
  <2>2. sub'[u] = sub[u]
    BY Zenon, <1>1, <1>3, SubscribedRow
  <2>3. CASE u \in S
    BY Zenon, <1>1, <2>1, <2>2, <2>3, DeadTaken
  <2>4. CASE u \notin S
    BY <1>1, <2>1, <2>2, <2>4, Untouched
  <2>5. QED
    BY <2>3, <2>4
<1>4. QED
  BY <1>2, <1>3

\* A dead letter without subscriber creates the rows of all active ones.
LEMMA ReplayLegacyUnit ==
  ASSUME TypeOK, NEW u \in Units, NEW m \in Ids, replayLegacyDLQ(m)
  PROVE  UnitStep(u)
<1> DEFINE fanout == {v \in Units : v[1] = m /\ v[2] \in active}
<1>1. /\ sub' = Subscribed(fanout) /\ NewLife({v \in fanout : ~Present(v)})
      /\ NotTaken(u[1]) /\ dlq'[u] = dlq[u] /\ m \in legacy /\ Live(m)'
  BY Zenon DEF replayLegacyDLQ, Live, tables, rowScans, msgScans, books, history, NotTaken
<1>2. CASE u \in fanout /\ ~Present(u)
  <2>1. deliv'[u] = 0 /\ Renewed(u)
    BY <1>1, <1>2, NewLifeRenews
  <2>2. sub'[u].status = "pending" /\ sub'[u].claim = NoClaim /\ sub'[u].retry = 0
    BY Zenon, <1>1, <1>2, SubscribedRow
  <2>3. QED
    BY Zenon, <1>1, <1>2, <2>1, <2>2 DEF UnitStep, Starts
<1>3. CASE ~(u \in fanout /\ ~Present(u))
  <2>1. deliv'[u] = deliv[u] /\ receipt'[u] = receipt[u]
    BY <1>1, <1>3, NewLifeRenews
  <2>2. sub'[u] = sub[u]
    BY <1>1, <1>3, SubscribedRow
  <2>3. QED
    BY Zenon, <1>1, <2>1, <2>2, Untouched
<1>4. QED
  BY <1>2, <1>3

\* A deadline that passes changes no column the properties speak of.
LEMMA DeadlineUnit ==
  ASSUME TypeOK, NEW u \in Units, NEW x \in Units, VisibilityLapses(x) \/ BackoffElapses(x)
  PROVE  UnitStep(u)
<1>1. /\ sub'[u].status = sub[u].status /\ sub'[u].claim = sub[u].claim
      /\ sub'[u].retry = sub[u].retry
  <2>1. CASE u = x
    <3>1. \/ sub'[u] = [sub[u] EXCEPT !.lapsed = TRUE]
          \/ sub'[u] = [sub[u] EXCEPT !.ready = TRUE]
      BY Zenon, <2>1 DEF VisibilityLapses, BackoffElapses, Elapse, TypeOK
    <3>2. QED
      BY <3>1, RowTyped DEF SubRow
  <2>2. CASE u # x
    BY <2>2 DEF VisibilityLapses, BackoffElapses, Elapse, TypeOK
  <2>3. QED
    BY <2>1, <2>2
<1>2. QED
  BY <1>1 DEF VisibilityLapses, BackoffElapses, Elapse, UnitStep, Rests,
     tables, rowScans, msgScans, books, history, NotTaken

\* Nor does the TTL of a message.
LEMMA TTLUnit ==
  ASSUME TypeOK, NEW u \in Units, NEW m \in Ids, TTLElapses(m)
  PROVE  UnitStep(u)
  BY Zenon, Untouched DEF TTLElapses, tables, rowScans, msgScans, books, history, NotTaken

\* The searches of the collector, Subscribe and Unsubscribe change no row.
LEMMA SearchUnit ==
  ASSUME TypeOK, NEW u \in Units,
         \/ findLeavers \/ \E S \in SUBSET Ids : findFinished(S) \/ findOrphans(S)
         \/ Membership \/ UNCHANGED vars
  PROVE  UnitStep(u)
  BY Zenon, Untouched DEF findLeavers, findFinished, findOrphans, Membership, Subscribe, Unsubscribe,
     vars, tables, rowScans, msgScans, books, history, NotTaken

\* Every transaction does one of the eleven things to each unit.
LEMMA UnitSteps ==
  ASSUME TypeOK, ScanInv, [Next]_vars, NEW u \in Units
  PROVE  UnitStep(u)
<1>1. ASSUME Publishing \/ Receiving PROVE UnitStep(u)
  BY Zenon, <1>1, FanOutUnit, PublishUnit, PublishFailsUnit, ReceiveEmptyUnit, ReceiveUnit
     DEF Publishing, Receiving
<1>2. ASSUME Settling PROVE UnitStep(u)
  BY Zenon, <1>2, AckUnit, NackUnit, SettleOneUnit, ExtendUnit, ForgetUnit DEF Settling
<1>3. ASSUME Collecting \/ PurgeQueue PROVE UnitStep(u)
  BY Zenon, <1>3, PromoteUnit, ResetUnit, GiveUpUnit, ReapUnit, PurgeDLQUnit, CompletedUnit,
     OrphanUnit, WipeUnit, SearchUnit DEF Collecting, PurgeQueue
<1>4. ASSUME Replaying \/ TimePasses PROVE UnitStep(u)
  BY Zenon, <1>4, CandidatesUnit, ReplayFailsUnit, ReplayFromUnit, ReplayDLQUnit,
     ReplayLegacyUnit, DeadlineUnit, TTLUnit DEF Replaying, TimePasses
<1>5. QED
  BY Zenon, <1>1, <1>2, <1>3, <1>4, SearchUnit DEF Next
=============================================================================
