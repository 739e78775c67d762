---------------------------- MODULE ChannelSteps ----------------------------
(***************************************************************************)
(* Lemmas about Channel: its transactions keep the types, and they do one  *)
(* of ten things to each message.                                          *)
(***************************************************************************)
EXTENDS Channel, TLAPS

\* Time for the provers: a leaf that names no method of its own gets these.
USE SMTT(30), ZenonT(30)

\* A channel whose tables were just created is well formed.
LEMMA TypeInit == Init => TypeOK
<1>1. NoRow \in Row
  BY DEF NoRow, Row, Status
<1> SUFFICES ASSUME Init PROVE TypeOK
  OBVIOUS
<1>3. paused \in BOOLEAN
  BY Zenon DEF Init
<1>4. receipt \in [Ids -> [Claims -> ReceiptState]]
  BY DEF Init, ReceiptState
<1>5. QED
  BY <1>1, <1>3, <1>4 DEF Init, TypeOK

\* Every SET clause, applied to a well-formed row, gives a well-formed row.
LEMMA RowTypes ==
  ASSUME TypeOK, NEW m \in Ids
  PROVE  /\ NoRow \in Row
         /\ \A cap \in Caps : Inserted(cap) \in Row
         /\ Delayed(msg[m]) \in Row
         /\ resetRow(msg[m]) \in Row
         /\ replayRow(msg[m]) \in Row
         /\ [replayRow(msg[m]) EXCEPT !.ready = TRUE] \in Row
         /\ [msg[m] EXCEPT !.status = "completed"] \in Row
         /\ \A f \in BOOLEAN : /\ [msg[m] EXCEPT !.lapsed = f] \in Row
                               /\ [msg[m] EXCEPT !.ready = f] \in Row
                               /\ [msg[m] EXCEPT !.fresh = f] \in Row
         /\ \A n \in Nat, k \in Claims : claimChannelMessage(msg[m], n, k) \in Row
<1>1. msg[m] \in Row
  BY DEF TypeOK
<1>2. NoRow \in Row
  BY DEF Row, Status, NoRow
<1>10. ASSUME NEW cap \in Caps PROVE Inserted(cap) \in Row
  <2>1. cap \in Nat
    BY CapsAssumption
  <2>2. QED
    BY <2>1 DEF Row, Status, Inserted
<1>3. msg[m].retry + 1 \in Nat
  BY <1>1 DEF Row
<1>11. Delayed(msg[m]) \in Row
  BY Zenon, <1>1, <1>3 DEF Row, Status, Delayed
<1>12. resetRow(msg[m]) \in Row
  BY Zenon, <1>1, <1>3 DEF Row, Status, resetRow
<1>4. replayRow(msg[m]) \in Row
  BY Zenon, <1>1 DEF Row, Status, replayRow
<1>5. [replayRow(msg[m]) EXCEPT !.ready = TRUE] \in Row
  BY Zenon, <1>4 DEF Row
<1>6. [msg[m] EXCEPT !.status = "completed"] \in Row
  BY <1>1 DEF Row, Status
<1>7. ASSUME NEW f \in BOOLEAN
      PROVE  /\ [msg[m] EXCEPT !.lapsed = f] \in Row
             /\ [msg[m] EXCEPT !.ready = f] \in Row
             /\ [msg[m] EXCEPT !.fresh = f] \in Row
  BY <1>1 DEF Row
<1>8. ASSUME NEW n \in Nat, NEW k \in Claims
      PROVE  claimChannelMessage(msg[m], n, k) \in Row
  BY Zenon, <1>1 DEF Row, Status, claimChannelMessage
<1>9. QED
  BY <1>2, <1>10, <1>11, <1>12, <1>4, <1>5, <1>6, <1>7, <1>8

\* Deleting rows and delaying others keeps the message table well formed.
LEMMA BuryType ==
  ASSUME TypeOK, NEW S, NEW T
  PROVE  BuryAndDelay(S, T) \in [Ids -> Row]
  BY Zenon, RowTypes DEF BuryAndDelay, TypeOK

\* Publishing or replaying keeps the bookkeeping of clients well formed.
LEMMA NewLifeType ==
  ASSUME TypeOK, NEW S, NewLife(S)
  PROVE  deliv' \in [Ids -> Nat] /\ receipt' \in [Ids -> [Claims -> ReceiptState]]
  BY DEF NewLife, TypeOK, ReceiptState

\* Recording the answer of Ack or Nack keeps the receipts well formed.
LEMMA SettleType ==
  ASSUME TypeOK, NEW R, NEW a \in ReceiptState, Settle(R, a)
  PROVE  receipt' \in [Ids -> [Claims -> ReceiptState]]
  BY DEF Settle, TypeOK, ReceiptState

\* A counter of copies stays a counter.
LEMMA CountedType ==
  ASSUME NEW f \in [Ids -> Nat], NEW S
  PROVE  Counted(f, S) \in [Ids -> Nat]
  BY DEF Counted

\* moveToDLQ keeps the dead-letter counts well formed.
LEMMA MoveType ==
  ASSUME TypeOK, NEW S, moveToDLQ(S)
  PROVE  dlq' \in [Ids -> Nat]
  BY DEF moveToDLQ, TypeOK

\* Every transaction leaves well-formed rows, counters and receipts behind.
LEMMA TypeInductive == TypeOK /\ [Next]_vars => TypeOK'
<1> SUFFICES ASSUME TypeOK, [Next]_vars PROVE TypeOK'
  OBVIOUS
<1> USE DEF client, table, history, books
<1>1. ASSUME NEW S \in SUBSET Ids, NEW cap \in Caps, publishBatchToChannel(S, cap)
      PROVE  TypeOK'
  <2>1. msg' \in [Ids -> Row]
    BY Zenon, <1>1, RowTypes DEF publishBatchToChannel, TypeOK
  <2>2. QED
    BY <1>1, <2>1, NewLifeType, CountedType DEF publishBatchToChannel, TypeOK
<1>2. ASSUME NEW p \in BOOLEAN, setQueuePaused(p) PROVE TypeOK'
  BY <1>2 DEF setQueuePaused, TypeOK
<1>3. ASSUME NEW c \in Consumers, Admit(c) \/ ReceiveFails(c) PROVE TypeOK'
  BY <1>3 DEF Admit, ReceiveFails, TypeOK
<1>4. ASSUME NEW c \in Consumers, NEW b \in Backoff, NEW skip \in SUBSET Ids,
             ReceiveEmpty(c, b, skip)
      PROVE  TypeOK'
  <2>1. msg' \in [Ids -> Row] /\ dlq' \in [Ids -> Nat]
    BY <1>4, BuryType, MoveType DEF ReceiveEmpty
  <2>2. QED
    BY <1>4, <2>1 DEF ReceiveEmpty, TypeOK
<1>5. ASSUME NEW c \in Consumers, NEW b \in Backoff, NEW skip \in SUBSET Ids, NEW m \in Ids,
             NEW k \in Claims, NEW n \in {msg[m].retry, msg[m].retry + 1},
             ReceiveMessage(c, b, skip, m, k, n)
      PROVE  TypeOK'
  <2>1. n \in Nat
    BY DEF TypeOK, Row
  <2>2. msg' \in [Ids -> Row] /\ dlq' \in [Ids -> Nat]
    BY Zenon, <1>5, <2>1, BuryType, MoveType, RowTypes DEF ReceiveMessage
  <2>3. QED
    BY <1>5, <2>2 DEF ReceiveMessage, TypeOK, ReceiptState
<1>6. ASSUME NEW R \in SUBSET (Ids \X Claims), ackChannelBatch(R) PROVE TypeOK'
  <2>1. msg' \in [Ids -> Row]
    BY Zenon, <1>6, RowTypes DEF ackChannelBatch, TypeOK
  <2>2. QED
    BY <1>6, <2>1, SettleType DEF ackChannelBatch, TypeOK, ReceiptState
<1>7. ASSUME NEW R \in SUBSET (Ids \X Claims), nackChannelBatch(R) PROVE TypeOK'
  <2>1. msg' \in [Ids -> Row] /\ dlq' \in [Ids -> Nat]
    BY <1>7, BuryType, MoveType DEF nackChannelBatch
  <2>2. QED
    BY <1>7, <2>1, SettleType DEF nackChannelBatch, TypeOK, ReceiptState
<1>8. ASSUME NEW m \in Ids, NEW k \in Claims,
             ackChannel(m, k) \/ extendChannelVisibility(m, k) \/ Forget(m, k)
      PROVE  TypeOK'
  <2>1. CASE ackChannel(m, k)
    <3>1. msg' \in [Ids -> Row]
      BY Zenon, <2>1, RowTypes DEF ackChannel, TypeOK
    <3>2. QED
      BY <2>1, <3>1 DEF ackChannel, TypeOK, ReceiptState
  <2>2. CASE extendChannelVisibility(m, k)
    <3>1. msg' \in [Ids -> Row]
      BY Zenon, <2>2, RowTypes DEF extendChannelVisibility, TypeOK
    <3>2. QED
      BY <2>2, <3>1 DEF extendChannelVisibility, TypeOK
  <2>3. CASE Forget(m, k)
    BY <2>3 DEF Forget, TypeOK, ReceiptState
  <2>4. QED
    BY <1>8, <2>1, <2>2, <2>3
<1>9. ASSUME NEW S \in SUBSET Ids, promoteExhaustedChannelMessages(S) PROVE TypeOK'
  <2>1. msg' \in [Ids -> Row] /\ dlq' \in [Ids -> Nat]
    BY <1>9, BuryType, MoveType DEF promoteExhaustedChannelMessages
  <2>2. QED
    BY <1>9, <2>1 DEF promoteExhaustedChannelMessages, TypeOK
<1>10. ASSUME NEW S \in SUBSET Ids, resetTimedOutMessages(S) PROVE TypeOK'
  BY Zenon, <1>10, RowTypes DEF resetTimedOutMessages, TypeOK
<1>11. ASSUME NEW S \in SUBSET Ids, PurgeRows(S) PROVE TypeOK'
  BY <1>11, BuryType, CountedType DEF PurgeRows, TypeOK
<1>12. ASSUME NEW S \in SUBSET Ids, purgeDLQMessages(S) PROVE TypeOK'
  <2>1. dlq' \in [Ids -> Nat]
    BY <1>12 DEF purgeDLQMessages, TypeOK
  <2>2. QED
    BY <1>12, <2>1, CountedType DEF purgeDLQMessages, TypeOK
<1>13. ASSUME NEW S \in SUBSET Ids, fetchReplayCandidateIDs(S) PROVE TypeOK'
  BY <1>13 DEF fetchReplayCandidateIDs, TypeOK
<1>14. ASSUME applyReplayFrom PROVE TypeOK'
  <2>1. msg' \in [Ids -> Row]
    BY Zenon, <1>14, RowTypes DEF applyReplayFrom, Replayed, TypeOK
  <2>2. QED
    BY <1>14, <2>1, NewLifeType DEF applyReplayFrom, TypeOK
<1>15. ASSUME ReplayFromFails PROVE TypeOK'
  BY <1>15 DEF ReplayFromFails, TypeOK
<1>16. ASSUME NEW m \in Ids, executeReplayMessage(m) PROVE TypeOK'
  <2>1. msg' \in [Ids -> Row]
    BY Zenon, <1>16, RowTypes DEF executeReplayMessage, TypeOK
  <2>2. QED
    BY <1>16, <2>1, NewLifeType DEF executeReplayMessage, TypeOK
<1>17. ASSUME NEW S \in SUBSET Ids, NEW cap \in Caps, replayDLQPage(S, cap) PROVE TypeOK'
  <2>1. msg' \in [Ids -> Row]
    BY Zenon, <1>17, RowTypes DEF replayDLQPage, TypeOK
  <2>2. dlq' \in [Ids -> Nat]
    BY <1>17 DEF replayDLQPage, TypeOK
  <2>3. QED
    BY <1>17, <2>1, <2>2, NewLifeType DEF replayDLQPage, TypeOK
<1>18. ASSUME NEW m \in Ids, VisibilityLapses(m) \/ BackoffElapses(m) \/ TTLElapses(m)
       PROVE  TypeOK'
  BY Zenon, <1>18, RowTypes DEF VisibilityLapses, BackoffElapses, TTLElapses, Elapse, TypeOK
<1>19. CASE UNCHANGED vars
  BY <1>19 DEF vars, TypeOK
<1>20. ASSUME Publishing PROVE TypeOK'
  BY Zenon, <1>20, <1>1 DEF Publishing, publishToChannel
<1>21. ASSUME NEW c \in Consumers, Receiving(c) PROVE TypeOK'
  BY Zenon, <1>21, <1>4, <1>5 DEF Receiving
<1>22. ASSUME Settling PROVE TypeOK'
  <2>1. \A m \in Ids, k \in Claims : {<<m, k>>} \in SUBSET (Ids \X Claims)
    OBVIOUS
  <2>2. ASSUME NEW m \in Ids, NEW k \in Claims, nackChannelImpl(m, k) PROVE TypeOK'
    BY <2>1, <2>2, <1>7 DEF nackChannelImpl
  <2>3. QED
    BY <1>22, <2>2, <1>6, <1>7, <1>8 DEF Settling
<1>23. ASSUME Collecting PROVE TypeOK'
  BY <1>23, <1>9, <1>10, <1>11, <1>12
     DEF Collecting, purgeCompletedMessages, purgeOldPendingMessages
<1>27. ASSUME NEW S, NEW D, executePurge(S, D) PROVE TypeOK'
  <2>1. msg' \in [Ids -> Row] /\ dlq' \in [Ids -> Nat] /\ purged' \in [Ids -> Nat]
        /\ wiped' \in [Ids -> Nat]
    BY <1>27, BuryType, CountedType DEF executePurge, TypeOK
  <2>2. QED
    BY <1>27, <2>1 DEF executePurge, TypeOK
<1>24. ASSUME Replaying PROVE TypeOK'
  BY <1>24, <1>13, <1>14, <1>15, <1>16, <1>17 DEF Replaying
<1>25. ASSUME TimePasses PROVE TypeOK'
  BY <1>25, <1>18 DEF TimePasses
<1>26. QED
  BY <1>2, <1>3, <1>19, <1>20, <1>21, <1>22, <1>23, <1>24, <1>25, <1>27 DEF Next, PurgeQueue

-----------------------------------------------------------------------------
(* What a step may do to one message.  RowSteps shows that these ten are   *)
(* all; every theorem below is then an argument about one message and ten  *)
(* cases, instead of about twenty-odd transactions.                        *)

SameBooks(m) ==
    accepted'[m] = accepted[m] /\ purged'[m] = purged[m] /\ wiped'[m] = wiped[m]

Answered(m, k, a) ==
    /\ receipt'[m][k] = a
    /\ \A j \in Claims \ {k} : receipt'[m][j] = receipt[m][j]

Renewed(m) ==
    \A k \in Claims : receipt'[m][k] = IF receipt[m][k] = "none" THEN "none" ELSE "open"

Rests(m) ==
    /\ msg'[m].status = msg[m].status /\ msg'[m].claim = msg[m].claim
    /\ msg'[m].retry = msg[m].retry /\ msg'[m].max = msg[m].max
    /\ dlq'[m] = dlq[m] /\ deliv'[m] = deliv[m] /\ SameBooks(m)
    /\ \A k \in Claims : receipt'[m][k] \in {receipt[m][k], "none"}

Starts(m) ==
    /\ ~Present(m)
    /\ msg'[m].status = "pending" /\ msg'[m].claim = NoClaim
    /\ msg'[m].retry = 0 /\ msg'[m].max \in Nat
    /\ deliv'[m] = 0 /\ Renewed(m) /\ purged'[m] = purged[m] /\ wiped'[m] = wiped[m]
    /\ \/ accepted'[m] = accepted[m] + 1 /\ dlq'[m] = dlq[m]
       \/ accepted'[m] = accepted[m] /\ dlq[m] > 0 /\ dlq'[m] = dlq[m] - 1

Delivers(m) ==
    /\ \/ msg[m].status = "pending" /\ msg'[m].retry = msg[m].retry
       \/ TimedOut(m) /\ ~Exhausted(m) /\ msg'[m].retry = msg[m].retry + 1
    /\ msg'[m].status = "processing" /\ msg'[m].max = msg[m].max
    /\ \E k \in Claims : receipt[m][k] = "none" /\ msg'[m].claim = k /\ Answered(m, k, "open")
    /\ deliv'[m] = deliv[m] + 1 /\ dlq'[m] = dlq[m] /\ SameBooks(m)

Acks(m) ==
    /\ \E k \in Claims : Matches(m, k) /\ Answered(m, k, "acked")
    /\ msg'[m].status = "completed" /\ msg'[m].claim = msg[m].claim
    /\ msg'[m].retry = msg[m].retry /\ msg'[m].max = msg[m].max
    /\ dlq'[m] = dlq[m] /\ deliv'[m] = deliv[m] /\ SameBooks(m)

\* The claim ends: it had lapsed, or its holder gave it up with a nack.
Ends(m) ==
    /\ msg[m].status = "processing" /\ deliv'[m] = deliv[m] /\ SameBooks(m)
    /\ \/ msg[m].lapsed /\ receipt'[m] = receipt[m]
       \/ \E k \in Claims : msg[m].claim = k /\ Answered(m, k, "nacked")

Releases(m) ==
    /\ Ends(m) /\ ~Exhausted(m)
    /\ msg'[m].status = "pending" /\ msg'[m].claim = NoClaim
    /\ msg'[m].retry = msg[m].retry + 1 /\ msg'[m].max = msg[m].max
    /\ dlq'[m] = dlq[m]

Buries(m) == Ends(m) /\ Exhausted(m) /\ ~Present(m)' /\ dlq'[m] = dlq[m] + 1

Expires(m) ==
    /\ msg[m].status \in {"pending", "completed"} /\ ~Present(m)'
    /\ purged'[m] = purged[m] + 1 /\ accepted'[m] = accepted[m] /\ wiped'[m] = wiped[m]
    /\ dlq'[m] = dlq[m] /\ deliv'[m] = deliv[m] /\ receipt'[m] = receipt[m]

ExpiresDead(m) ==
    /\ msg'[m] = msg[m] /\ deliv'[m] = deliv[m] /\ receipt'[m] = receipt[m]
    /\ dlq'[m] \in 0..(dlq[m] - 1)
    /\ purged'[m] + dlq'[m] = purged[m] + dlq[m]
    /\ accepted'[m] = accepted[m] /\ wiped'[m] = wiped[m]

Empties(m) ==
    /\ Present(m) /\ ~Present(m)' /\ dlq'[m] = 0
    /\ purged'[m] = purged[m] + dlq[m] /\ wiped'[m] = wiped[m] + 1
    /\ accepted'[m] = accepted[m]
    /\ deliv'[m] = deliv[m] /\ receipt'[m] = receipt[m]

Replays(m) ==
    /\ msg[m].status \in {"pending", "completed"}
    /\ msg'[m].status = "pending" /\ msg'[m].claim = NoClaim
    /\ msg'[m].retry = 0 /\ msg'[m].max = msg[m].max
    /\ deliv'[m] = 0 /\ Renewed(m) /\ dlq'[m] = dlq[m] /\ SameBooks(m)

RowStep(m) ==
    \/ Rests(m) \/ Starts(m) \/ Delivers(m) \/ Acks(m) \/ Releases(m)
    \/ Buries(m) \/ Expires(m) \/ ExpiresDead(m) \/ Empties(m) \/ Replays(m)

\* A message whose row and books a transaction leaves alone rests.
LEMMA Untouched ==
  ASSUME TypeOK, NEW m \in Ids, msg'[m] = msg[m], dlq'[m] = dlq[m], deliv'[m] = deliv[m],
         receipt'[m] = receipt[m], SameBooks(m)
  PROVE  Rests(m)
  BY DEF Rests

(* What each SET clause leaves in the columns the properties speak of. *)

\* Delayed, of a nack or a deferred reclaim: pending, unclaimed, the attempt counted.
LEMMA DelayedFields ==
  ASSUME TypeOK, NEW m \in Ids
  PROVE  /\ Delayed(msg[m]).status = "pending" /\ Delayed(msg[m]).claim = NoClaim
         /\ Delayed(msg[m]).retry = msg[m].retry + 1 /\ Delayed(msg[m]).max = msg[m].max
  BY DEF TypeOK, Row, Delayed

\* resetRow, of the collector: the same.
LEMMA ResetFields ==
  ASSUME TypeOK, NEW m \in Ids
  PROVE  /\ resetRow(msg[m]).status = "pending" /\ resetRow(msg[m]).claim = NoClaim
         /\ resetRow(msg[m]).retry = msg[m].retry + 1 /\ resetRow(msg[m]).max = msg[m].max
  BY DEF TypeOK, Row, resetRow

\* replayRow, of ReplayFrom and ReplayMessage: the attempts start again.
LEMMA ReplayFields ==
  ASSUME TypeOK, NEW m \in Ids
  PROVE  /\ replayRow(msg[m]).status = "pending" /\ replayRow(msg[m]).claim = NoClaim
         /\ replayRow(msg[m]).retry = 0 /\ replayRow(msg[m]).max = msg[m].max
  BY DEF TypeOK, Row, replayRow

\* Inserted, of Publish and ReplayDLQ.
LEMMA InsertedFields ==
  ASSUME NEW cap \in Caps
  PROVE  /\ Inserted(cap).status = "pending" /\ Inserted(cap).claim = NoClaim
         /\ Inserted(cap).retry = 0 /\ Inserted(cap).max \in Nat
  BY CapsAssumption DEF Inserted

\* claimChannelMessage, of Receive.
LEMMA ClaimedFields ==
  ASSUME TypeOK, NEW m \in Ids, NEW n, NEW k
  PROVE  /\ claimChannelMessage(msg[m], n, k).status = "processing"
         /\ claimChannelMessage(msg[m], n, k).claim = k
         /\ claimChannelMessage(msg[m], n, k).retry = n
         /\ claimChannelMessage(msg[m], n, k).max = msg[m].max
  BY DEF TypeOK, Row, claimChannelMessage

\* A deleted row is absent.
LEMMA NoRowAbsent == NoRow.status = "absent"
  BY DEF NoRow

\* Receipts of a former life are open again once the message is replayed or republished.
LEMMA NewLifeRenews ==
  ASSUME TypeOK, NEW S, NewLife(S), NEW m \in Ids
  PROVE  /\ m \in S => deliv'[m] = 0 /\ Renewed(m)
         /\ m \notin S => deliv'[m] = deliv[m] /\ receipt'[m] = receipt[m]
  BY DEF NewLife, Renewed, TypeOK

\* Ack and Nack answer the matching receipts and no other.
LEMMA SettleAnswers ==
  ASSUME TypeOK, NEW R, NEW a, Settle(R, a), NEW m \in Ids
  PROVE  /\ m \notin Matched(R) => receipt'[m] = receipt[m]
         /\ m \in Matched(R) => \E k \in Claims : Matches(m, k) /\ Answered(m, k, a)
  BY Zenon DEF Settle, Matched, Matches, Answered, TypeOK

\* The fields of a row and of its books are numbers.
LEMMA RowTyped ==
  ASSUME TypeOK, NEW m \in Ids
  PROVE  /\ msg[m] \in Row /\ dlq[m] \in Nat /\ deliv[m] \in Nat /\ accepted[m] \in Nat
         /\ purged[m] \in Nat /\ wiped[m] \in Nat /\ msg[m].retry \in Nat /\ msg[m].max \in Nat
  BY DEF TypeOK, Row

-----------------------------------------------------------------------------
(* The ten things, one group of transactions at a time. *)

\* Publish and PublishBatch insert rows for ids that have none.
LEMMA PublishRow ==
  ASSUME TypeOK, NEW m \in Ids, Publishing
  PROVE  RowStep(m)
<1> USE DEF client, table, history, books, SameBooks
<1>1. ASSUME NEW S \in SUBSET Ids, NEW cap \in Caps, publishBatchToChannel(S, cap)
      PROVE  RowStep(m)
  <2>1. CASE m \in S
    <3>1. msg'[m] = Inserted(cap) /\ ~Present(m)
      BY <1>1, <2>1 DEF publishBatchToChannel
    <3>2. /\ dlq'[m] = dlq[m] /\ accepted'[m] = accepted[m] + 1
          /\ purged'[m] = purged[m] /\ wiped'[m] = wiped[m]
      BY <1>1, <2>1 DEF publishBatchToChannel, Counted
    <3>3. deliv'[m] = 0 /\ Renewed(m)
      BY <1>1, <2>1, NewLifeRenews DEF publishBatchToChannel
    <3>4. /\ msg'[m].status = "pending" /\ msg'[m].claim = NoClaim
          /\ msg'[m].retry = 0 /\ msg'[m].max \in Nat
      BY <3>1, InsertedFields
    <3>5. Starts(m)
      BY <3>1, <3>2, <3>3, <3>4 DEF Starts
    <3>6. QED
      BY <3>5 DEF RowStep
  <2>2. CASE m \notin S
    BY <1>1, <2>2, NewLifeRenews, Untouched DEF publishBatchToChannel, RowStep, Counted
  <2>3. QED
    BY <2>1, <2>2
<1>2. QED
  BY Zenon, <1>1 DEF Publishing, publishToChannel

\* Receive delivers one row and dead-letters or defers the ones it skips.
LEMMA ReceiveRow ==
  ASSUME TypeOK, NEW m \in Ids, NEW c \in Consumers, Receiving(c)
  PROVE  RowStep(m)
<1> USE DEF client, table, history, books, SameBooks
<1>1. ASSUME NEW b \in Backoff, NEW skip \in SUBSET Ids, Skippable(skip, b),
             msg'[m] = BuryAndDelay(Buried(skip), skip)[m], moveToDLQ(Buried(skip)),
             deliv'[m] = deliv[m], receipt'[m] = receipt[m], SameBooks(m)
      PROVE  RowStep(m)
  <2>1. CASE m \notin skip
    BY <1>1, <2>1, Untouched DEF Buried, BuryAndDelay, moveToDLQ, RowStep
  <2>2. CASE m \in skip /\ Exhausted(m)
    BY <1>1, <2>2, NoRowAbsent DEF Skippable, Reclaimable, Buried, BuryAndDelay, moveToDLQ,
       RowStep, Buries, Ends, Present
  <2>3. CASE m \in skip /\ ~Exhausted(m)
    <3>1. msg'[m] = Delayed(msg[m]) /\ dlq'[m] = dlq[m]
      BY <1>1, <2>3 DEF Buried, BuryAndDelay, moveToDLQ
    <3>2. Ends(m)
      BY <1>1, <2>3 DEF Skippable, Reclaimable, Ends
    <3>3. /\ msg'[m].status = "pending" /\ msg'[m].claim = NoClaim
          /\ msg'[m].retry = msg[m].retry + 1 /\ msg'[m].max = msg[m].max
      BY <3>1, DelayedFields
    <3>4. Releases(m)
      BY <2>3, <3>1, <3>2, <3>3 DEF Releases
    <3>5. QED
      BY <3>4 DEF RowStep
  <2>4. QED
    BY <2>1, <2>2, <2>3
<1>2. ASSUME NEW b \in Backoff, NEW skip \in SUBSET Ids,
             ReceiveEmpty(c, b, skip)
      PROVE  RowStep(m)
  BY <1>2, <1>1 DEF ReceiveEmpty
<1>3. ASSUME NEW b \in Backoff, NEW skip \in SUBSET Ids, NEW x \in Ids,
             NEW k \in Claims, NEW n, ReceiveMessage(c, b, skip, x, k, n)
      PROVE  RowStep(m)
  <2>1. CASE m # x
    BY Zenon, <1>3, <1>1, <2>1 DEF ReceiveMessage, BuryAndDelay, TypeOK
  <2>2. CASE m = x
    <3>1. msg'[m] = claimChannelMessage(msg[m], n, k)
      BY <1>3, <2>2 DEF ReceiveMessage, BuryAndDelay
    <3>2. dlq'[m] = dlq[m]
      BY <1>3, <2>2 DEF ReceiveMessage, moveToDLQ, Buried
    <3>3. receipt[m][k] = "none" /\ Answered(m, k, "open")
      BY <1>3, <2>2 DEF ReceiveMessage, FreshClaim, Answered, TypeOK
    <3>4. deliv'[m] = deliv[m] + 1 /\ SameBooks(m)
      BY <1>3, <2>2 DEF ReceiveMessage, TypeOK
    <3>5. /\ msg'[m].status = "processing" /\ msg'[m].claim = k
          /\ msg'[m].retry = n /\ msg'[m].max = msg[m].max
      BY <3>1, ClaimedFields
    <3>6. \/ msg[m].status = "pending" /\ n = msg[m].retry
          \/ TimedOut(m) /\ ~Exhausted(m) /\ n = msg[m].retry + 1
      BY <1>3, <2>2 DEF ReceiveMessage, ClaimableAs, Deliverable, Reclaimable, TimedOut
    <3>7. Delivers(m)
      BY <3>2, <3>3, <3>4, <3>5, <3>6 DEF Delivers
    <3>8. QED
      BY <3>7 DEF RowStep
  <2>3. QED
    BY <2>1, <2>2
<1>4. QED
  BY <1>2, <1>3 DEF Receiving

\* Ack, Nack, their batches and ExtendVisibility move the rows they match.
LEMMA SettleRow ==
  ASSUME TypeOK, NEW m \in Ids, Settling
  PROVE  RowStep(m)
<1> USE DEF client, table, history, books, SameBooks
<1>1. ASSUME NEW R \in SUBSET (Ids \X Claims), ackChannelBatch(R) PROVE RowStep(m)
  <2>1. CASE m \notin Matched(R)
    <3>1. msg'[m] = msg[m] /\ dlq'[m] = dlq[m] /\ deliv'[m] = deliv[m] /\ SameBooks(m)
      BY <1>1, <2>1 DEF ackChannelBatch
    <3>2. receipt'[m] = receipt[m]
      BY <1>1, <2>1, SettleAnswers DEF ackChannelBatch
    <3>3. Rests(m)
      BY <3>1, <3>2, Untouched
    <3>4. QED
      BY <3>3 DEF RowStep
  <2>2. CASE m \in Matched(R)
    BY <1>1, <2>2, RowTyped, SettleAnswers DEF ackChannelBatch, RowStep, Acks, Row
  <2>3. QED
    BY <2>1, <2>2
<1>2. ASSUME NEW R \in SUBSET (Ids \X Claims), nackChannelBatch(R) PROVE RowStep(m)
  <2>1. CASE m \notin Matched(R)
    BY <1>2, <2>1, SettleAnswers, Untouched
       DEF nackChannelBatch, BuryAndDelay, moveToDLQ, RowStep
  <2>2. CASE m \in Matched(R)
    <3>1. Ends(m)
      BY <1>2, <2>2, SettleAnswers DEF nackChannelBatch, Ends, Matches
    <3>2. CASE Exhausted(m)
      BY <1>2, <2>2, <3>1, <3>2, NoRowAbsent
         DEF nackChannelBatch, BuryAndDelay, moveToDLQ, RowStep, Buries, Present
    <3>3. CASE ~Exhausted(m)
      <4>1. msg'[m] = Delayed(msg[m]) /\ dlq'[m] = dlq[m]
        BY <1>2, <2>2, <3>3 DEF nackChannelBatch, BuryAndDelay, moveToDLQ
      <4>2. /\ msg'[m].status = "pending" /\ msg'[m].claim = NoClaim
            /\ msg'[m].retry = msg[m].retry + 1 /\ msg'[m].max = msg[m].max
        BY <4>1, DelayedFields
      <4>3. Releases(m)
        BY <3>1, <3>3, <4>1, <4>2 DEF Releases
      <4>4. QED
        BY <4>3 DEF RowStep
    <3>4. QED
      BY <3>2, <3>3
  <2>3. QED
    BY <2>1, <2>2
<1>3. ASSUME NEW x \in Ids, NEW k \in Claims,
             ackChannel(x, k) \/ extendChannelVisibility(x, k) \/ Forget(x, k)
      PROVE  RowStep(m)
  <2>1. CASE ackChannel(x, k)
    <3>1. CASE m = x
      BY <2>1, <3>1, RowTyped DEF ackChannel, RowStep, Acks, Answered, TypeOK, Row
    <3>2. CASE m # x
      BY <2>1, <3>2, Untouched DEF ackChannel, RowStep, TypeOK
    <3>3. QED
      BY <3>1, <3>2
  <2>2. CASE extendChannelVisibility(x, k)
    BY <2>2, RowTyped DEF extendChannelVisibility, RowStep, Rests, TypeOK, Row
  <2>3. CASE Forget(x, k)
    BY <2>3, RowTyped DEF Forget, RowStep, Rests, TypeOK
  <2>4. QED
    BY <1>3, <2>1, <2>2, <2>3
<1>4. \A x \in Ids, k \in Claims : {<<x, k>>} \in SUBSET (Ids \X Claims)
  OBVIOUS
<1>5. ASSUME NEW x \in Ids, NEW k \in Claims, nackChannelImpl(x, k) PROVE RowStep(m)
  BY <1>4, <1>5, <1>2 DEF nackChannelImpl
<1>6. QED
  BY <1>1, <1>2, <1>3, <1>5 DEF Settling

\* The passes of the collector.
LEMMA CollectRow ==
  ASSUME TypeOK, NEW m \in Ids, Collecting
  PROVE  RowStep(m)
<1> USE DEF client, table, history, books, SameBooks
<1>1. ASSUME NEW S \in SUBSET Ids, promoteExhaustedChannelMessages(S) PROVE RowStep(m)
  <2>1. CASE m \in S
    <3>1. TimedOut(m) /\ msg[m].retry >= msg[m].max
      BY <1>1, <2>1 DEF promoteExhaustedChannelMessages
    <3>2. msg'[m] = NoRow /\ dlq'[m] = dlq[m] + 1
      BY <1>1, <2>1 DEF promoteExhaustedChannelMessages, BuryAndDelay, moveToDLQ
    <3>3. deliv'[m] = deliv[m] /\ SameBooks(m) /\ receipt'[m] = receipt[m]
      BY <1>1 DEF promoteExhaustedChannelMessages
    <3>4. Ends(m)
      BY <3>1, <3>3 DEF Ends, TimedOut
    <3>5. Exhausted(m)
      BY <3>1, RowTyped DEF Exhausted
    <3>6. ~Present(m)'
      BY <3>2, NoRowAbsent DEF Present
    <3>7. QED
      BY <3>2, <3>4, <3>5, <3>6 DEF RowStep, Buries
  <2>2. CASE m \notin S
    BY <1>1, <2>2, Untouched
       DEF promoteExhaustedChannelMessages, BuryAndDelay, moveToDLQ, RowStep
  <2>3. QED
    BY <2>1, <2>2
<1>2. ASSUME NEW S \in SUBSET Ids, resetTimedOutMessages(S) PROVE RowStep(m)
  <2>1. CASE m \in S
    <3>1. TimedOut(m) /\ msg[m].retry < msg[m].max /\ msg'[m] = resetRow(msg[m])
      BY <1>2, <2>1 DEF resetTimedOutMessages
    <3>2. dlq'[m] = dlq[m] /\ deliv'[m] = deliv[m] /\ SameBooks(m) /\ receipt'[m] = receipt[m]
      BY <1>2 DEF resetTimedOutMessages
    <3>3. Ends(m)
      BY <3>1, <3>2 DEF Ends, TimedOut
    <3>4. ~Exhausted(m)
      BY <3>1, RowTyped DEF Exhausted
    <3>5. /\ msg'[m].status = "pending" /\ msg'[m].claim = NoClaim
          /\ msg'[m].retry = msg[m].retry + 1 /\ msg'[m].max = msg[m].max
      BY <3>1, ResetFields
    <3>6. Releases(m)
      BY <3>2, <3>3, <3>4, <3>5 DEF Releases
    <3>7. QED
      BY <3>6 DEF RowStep
  <2>2. CASE m \notin S
    BY <1>2, <2>2, Untouched DEF resetTimedOutMessages, RowStep
  <2>3. QED
    BY <2>1, <2>2
<1>3. ASSUME NEW S \in SUBSET Ids, PurgeRows(S),
              \A x \in S : msg[x].status \in {"pending", "completed"}
       PROVE  RowStep(m)
  <2>1. CASE m \in S
    BY <1>3, <2>1, NoRowAbsent DEF PurgeRows, BuryAndDelay, Counted, RowStep, Expires, Present
  <2>2. CASE m \notin S
    BY <1>3, <2>2, Untouched DEF PurgeRows, BuryAndDelay, Counted, RowStep
  <2>3. QED
    BY <2>1, <2>2
<1>4. ASSUME NEW S \in SUBSET Ids, purgeDLQMessages(S) PROVE RowStep(m)
  <2>1. CASE m \in S
    BY <1>4, <2>1, RowTyped DEF purgeDLQMessages, Counted, RowStep, ExpiresDead
  <2>2. CASE m \notin S
    BY <1>4, <2>2, Untouched DEF purgeDLQMessages, Counted, RowStep
  <2>3. QED
    BY <2>1, <2>2
<1>5. QED
  BY <1>1, <1>2, <1>3, <1>4
     DEF Collecting, purgeCompletedMessages, purgeOldPendingMessages

\* PurgeQueue empties both tables.
LEMMA PurgeQueueRow ==
  ASSUME TypeOK, NEW m \in Ids, PurgeQueue
  PROVE  RowStep(m)
<1> USE DEF client, table, history, books, SameBooks
<1>1. ASSUME NEW D \in (SUBSET Ids) \ {{}}, NEW S \in SUBSET D, executePurge(S, D)
       PROVE  RowStep(m)
  <2>2. CASE m \in S
    BY <1>1, <2>2, RowTyped, NoRowAbsent
       DEF executePurge, BuryAndDelay, Counted, RowStep, Empties, Present
  <2>3. CASE m \in D \ S /\ dlq[m] # 0
    BY <1>1, <2>3, RowTyped DEF executePurge, BuryAndDelay, Counted, RowStep, ExpiresDead
  <2>4. CASE m \notin D \/ (m \in D \ S /\ dlq[m] = 0)
    BY <1>1, <2>4, RowTyped, Untouched DEF executePurge, BuryAndDelay, Counted, RowStep
  <2>5. QED
    BY <2>2, <2>3, <2>4
<1>2. QED
  BY <1>1 DEF PurgeQueue

\* ReplayFrom, ReplayMessage and ReplayDLQ.
LEMMA ReplayingRow ==
  ASSUME TypeOK, NEW m \in Ids, Replaying
  PROVE  RowStep(m)
<1> USE DEF client, table, history, books, SameBooks
<1>1. ASSUME NEW S \in SUBSET Ids, fetchReplayCandidateIDs(S) PROVE RowStep(m)
  BY <1>1, Untouched DEF fetchReplayCandidateIDs, RowStep
<1>2. ASSUME applyReplayFrom PROVE RowStep(m)
  <2> DEFINE S == {x \in replaying : msg[x].status \notin {"absent", "pending", "processing"}}
  <2>0. NewLife(S) /\ msg' = Replayed(S)
    BY <1>2 DEF applyReplayFrom
  <2> HIDE DEF S
  <2>1. CASE m \in S
    <3>1. msg[m].status = "completed"
      BY <2>1, RowTyped DEF S, Row, Status
    <3>2. msg'[m] = replayRow(msg[m])
      BY <2>0, <2>1 DEF Replayed
    <3>3. dlq'[m] = dlq[m] /\ SameBooks(m)
      BY <1>2 DEF applyReplayFrom
    <3>4. deliv'[m] = 0 /\ Renewed(m)
      BY <2>0, <2>1, NewLifeRenews
    <3>5. /\ msg'[m].status = "pending" /\ msg'[m].claim = NoClaim
          /\ msg'[m].retry = 0 /\ msg'[m].max = msg[m].max
      BY <3>2, ReplayFields
    <3>6. Replays(m)
      BY <3>1, <3>3, <3>4, <3>5 DEF Replays
    <3>7. QED
      BY <3>6 DEF RowStep
  <2>2. CASE m \notin S
    BY <1>2, <2>0, <2>2, NewLifeRenews, Untouched DEF applyReplayFrom, Replayed, RowStep
  <2>3. QED
    BY <2>1, <2>2
<1>3. ASSUME ReplayFromFails PROVE RowStep(m)
  BY <1>3, Untouched DEF ReplayFromFails, RowStep
<1>4. ASSUME NEW x \in Ids, executeReplayMessage(x) PROVE RowStep(m)
  <2>1. CASE m = x
    <3>1. msg[m].status \in {"pending", "completed"}
      BY <1>4, <2>1, RowTyped DEF executeReplayMessage, Row, Status
    <3>2. msg'[m] = [replayRow(msg[m]) EXCEPT !.ready = TRUE]
      BY <1>4, <2>1 DEF executeReplayMessage, TypeOK
    <3>3. replayRow(msg[m]) \in Row
      BY Zenon, RowTypes
    <3>4. msg'[m].status = "pending" /\ msg'[m].claim = NoClaim /\ msg'[m].retry = 0
          /\ msg'[m].max = msg[m].max
      BY <3>2, <3>3, ReplayFields DEF Row
    <3>5. deliv'[m] = 0 /\ Renewed(m) /\ dlq'[m] = dlq[m] /\ SameBooks(m)
      BY <1>4, <2>1, NewLifeRenews DEF executeReplayMessage
    <3>6. Replays(m)
      BY <3>1, <3>4, <3>5 DEF Replays
    <3>7. QED
      BY <3>6 DEF RowStep
  <2>2. CASE m # x
    BY <1>4, <2>2, NewLifeRenews, Untouched DEF executeReplayMessage, RowStep, TypeOK
  <2>3. QED
    BY <2>1, <2>2
<1>5. ASSUME NEW S \in SUBSET Ids, NEW cap \in Caps, replayDLQPage(S, cap) PROVE RowStep(m)
  <2> DEFINE I == {x \in S : ~Present(x)}
  <2>0. /\ NewLife(I)
        /\ msg' = [x \in Ids |-> IF x \in I THEN Inserted(cap) ELSE msg[x]]
        /\ dlq' = [x \in Ids |-> IF x \in I THEN dlq[x] - 1 ELSE dlq[x]]
    BY <1>5 DEF replayDLQPage
  <2>1. CASE m \in I
    <3>1. msg'[m] = Inserted(cap) /\ dlq'[m] = dlq[m] - 1
      BY <2>0, <2>1
    <3>2. ~Present(m) /\ dlq[m] > 0 /\ SameBooks(m)
      BY <1>5, <2>1 DEF replayDLQPage
    <3>3. deliv'[m] = 0 /\ Renewed(m)
      BY <2>0, <2>1, NewLifeRenews
    <3>4. /\ msg'[m].status = "pending" /\ msg'[m].claim = NoClaim
          /\ msg'[m].retry = 0 /\ msg'[m].max \in Nat
      BY <3>1, InsertedFields
    <3>5. Starts(m)
      BY <3>1, <3>2, <3>3, <3>4 DEF Starts
    <3>6. QED
      BY <3>5 DEF RowStep
  <2>2. CASE m \notin I
    BY <1>5, <2>0, <2>2, NewLifeRenews, Untouched DEF replayDLQPage, RowStep
  <2>3. QED
    BY <2>1, <2>2
<1>6. QED
  BY <1>1, <1>2, <1>3, <1>4, <1>5 DEF Replaying

\* A deadline that passes changes no column the properties speak of.
LEMMA TimeRow ==
  ASSUME TypeOK, NEW m \in Ids, TimePasses
  PROVE  RowStep(m)
<1> USE DEF client, table, history, books, SameBooks
<1>1. ASSUME NEW x \in Ids, VisibilityLapses(x) \/ BackoffElapses(x) \/ TTLElapses(x)
       PROVE  RowStep(m)
  <2>1. CASE m # x
    BY <1>1, <2>1, Untouched
       DEF VisibilityLapses, BackoffElapses, TTLElapses, Elapse, RowStep, TypeOK
  <2>2. CASE m = x
    <3>1. msg'[m].status = msg[m].status /\ msg'[m].claim = msg[m].claim
          /\ msg'[m].retry = msg[m].retry /\ msg'[m].max = msg[m].max
      BY <1>1, <2>2, RowTyped
         DEF VisibilityLapses, BackoffElapses, TTLElapses, Elapse, TypeOK, Row
    <3>2. QED
      BY <1>1, <2>2, <3>1
         DEF VisibilityLapses, BackoffElapses, TTLElapses, Elapse, RowStep, Rests
  <2>3. QED
    BY <2>1, <2>2
<1>2. QED
  BY <1>1 DEF TimePasses

\* Every transaction does one of the ten things to each message.
LEMMA RowSteps ==
  ASSUME TypeOK, [Next]_vars, NEW m \in Ids
  PROVE  RowStep(m)
<1> USE DEF client, table, history, books, SameBooks
<1>1. ASSUME NEW p \in BOOLEAN, setQueuePaused(p) PROVE RowStep(m)
  BY <1>1, Untouched DEF setQueuePaused, RowStep
<1>2. ASSUME NEW c \in Consumers, Admit(c) \/ ReceiveFails(c) PROVE RowStep(m)
  BY <1>2, Untouched DEF Admit, ReceiveFails, RowStep
<1>3. CASE UNCHANGED vars
  BY <1>3, Untouched DEF vars, RowStep
<1>4. QED
  BY <1>1, <1>2, <1>3, PublishRow, ReceiveRow, SettleRow, CollectRow, PurgeQueueRow,
     ReplayingRow, TimeRow DEF Next
=============================================================================
