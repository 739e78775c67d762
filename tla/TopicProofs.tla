---------------------------- MODULE TopicProofs ----------------------------
(***************************************************************************)
(* Theorems about Topic, for every number of messages, subscribers, claims *)
(* and replayers, and every retry cap: every transaction does one of three *)
(* things to each message and keeps what statements that look at tables    *)
(* they do not lock rely on when they write, and with it the invariant.    *)
(***************************************************************************)
EXTENDS TopicSteps, TopicContract

\* Time for the provers: a leaf that names no method of its own gets these.
USE SMTT(30), ZenonT(30)

(* The inductive invariant.  Beside what the runs check it says what every *)
(* transaction relies on: the foreign key, the invisibility of rows of     *)
(* open publishers, the candidate pages; that dead letters without         *)
(* subscriber are those of pre-1.0 releases; and that a subscriber whose   *)
(* Ack succeeded has no dead letter, without which a DLQ replay could      *)
(* bring the message back to it.                                           *)

LegacyOnly == legacy \subseteq Legacy

AckedNotDead ==
    \A u \in Units, k \in Claims :
        Sound(u[1]) /\ receipt[u][k] = "acked" => dlq[u] = 0

IInv ==
    /\ TypeOK /\ ScanInv /\ LegacyOnly
    /\ AttemptsCounted /\ AckFinal
    /\ OneCopy /\ DeadLettersReplayable /\ AckedNotDead

\* The inductive invariant holds of a topic just created.
LEMMA InvInit == Init => IInv
<1> SUFFICES ASSUME Init PROVE IInv
  OBVIOUS
<1>1. \A u \in Units : ~Present(u) /\ dlq[u] = 0 /\ sub[u].status = "absent"
  BY DEF Init, Present, NoRow
<1>2. TypeOK /\ LegacyOnly
  BY TypeInit DEF Init, LegacyOnly
<1>3. AttemptsCounted
  BY Zenon, <1>1 DEF AttemptsCounted
<1>4. AckFinal /\ AckedNotDead
  BY Zenon, <1>1 DEF AckFinal, AckedNotDead
<1>5. OneCopy /\ DeadLettersReplayable
  BY <1>1 DEF OneCopy, DeadLettersReplayable
<1>6. ScanInv
  BY <1>1 DEF Init, ScanInv, Referenced, Invisible, PagesPresent, OrphansStayOrphans
<1>7. QED
  BY <1>2, <1>3, <1>4, <1>5, <1>6 DEF IInv

\* Every transaction counts the attempts of a unit.
LEMMA AttemptsStep ==
  ASSUME IInv, NEW u \in Units, UnitStep(u)
  PROVE  /\ sub'[u].status = "pending" => deliv'[u] = sub'[u].retry
         /\ sub'[u].status \in {"processing", "acked"} => deliv'[u] = sub'[u].retry + 1
         /\ Present(u)' => sub'[u].retry <= MaxRetries
<1>1. /\ sub[u].retry \in Nat /\ deliv[u] \in Nat /\ sub[u].status \in Status
      /\ sub[u].status = "pending" => deliv[u] = sub[u].retry
      /\ sub[u].status \in {"processing", "acked"} => deliv[u] = sub[u].retry + 1
      /\ Present(u) => sub[u].retry <= MaxRetries
  BY Zenon, RowTyped DEF IInv, AttemptsCounted
<1>2. CASE Rests(u) \/ ExpiresDead(u)
  BY Zenon, <1>1, <1>2 DEF Rests, ExpiresDead, Present
<1>3. CASE Starts(u) \/ Replays(u)
  BY <1>3, MaxRetriesAssumption DEF Starts, Replays, Present
<1>4. CASE Delivers(u)
  BY <1>1, <1>4, MaxRetriesAssumption DEF Delivers, TimedOut, Exhausted, Present
<1>5. CASE Acks(u)
  BY <1>1, <1>5 DEF Acks, Matches, Present
<1>6. CASE Releases(u)
  BY <1>1, <1>6, MaxRetriesAssumption DEF Releases, Ends, Exhausted, Present
<1>7. CASE Buries(u) \/ Expires(u) \/ Tears(u) \/ Empties(u)
  BY <1>7 DEF Buries, Expires, Tears, Empties, Present
<1>8. QED
  BY Zenon, <1>2, <1>3, <1>4, <1>5, <1>6, <1>7 DEF UnitStep

\* Every transaction respects the acks of a unit.
LEMMA AckStep ==
  ASSUME IInv, NEW u \in Units, UnitStep(u), NEW k \in Claims, receipt'[u][k] = "acked"
  PROVE  ~Present(u)' \/ (sub'[u].status = "acked" /\ sub'[u].claim = k)
<1>1. receipt[u][k] = "acked" => ~Present(u) \/ (sub[u].status = "acked" /\ sub[u].claim = k)
  BY Zenon DEF IInv, AckFinal
<1>2. CASE Rests(u) \/ ExpiresDead(u)
  BY Zenon, <1>1, <1>2 DEF Rests, ExpiresDead, Present
<1>3. CASE Starts(u) \/ Replays(u)
  BY Zenon, <1>3 DEF Starts, Replays, Renewed
<1>4. CASE Delivers(u)
  BY <1>1, <1>4 DEF Delivers, Answered, TimedOut, Present
<1>5. CASE Acks(u)
  BY <1>1, <1>5 DEF Acks, Answered, Matches, Present
<1>6. CASE Releases(u)
  BY Zenon, <1>1, <1>6 DEF Releases, Ends, Answered, Present
<1>7. CASE Buries(u) \/ Expires(u) \/ Tears(u) \/ Empties(u)
  BY Zenon, <1>7 DEF Buries, Expires, Tears, Empties, Present
<1>8. QED
  BY Zenon, <1>2, <1>3, <1>4, <1>5, <1>6, <1>7 DEF UnitStep

\* A message that was torn stays out of scope, and one that is torn is.
LEMMA SoundBefore ==
  ASSUME TypeOK, NEW u \in Units, UnitStep(u), Sound(u[1])'
  PROVE  Sound(u[1]) /\ ~Tears(u)
<1>1. torn[u[1]] \in Nat
  BY BooksTyped
<1>2. torn'[u[1]] \in {torn[u[1]], torn[u[1]] + 1}
  BY Zenon DEF UnitStep, Rests, Starts, Delivers, Acks, Releases, Ends, Buries, Expires,
     ExpiresDead, Tears, Empties, Replays, NotTaken
<1>3. QED
  BY <1>1, <1>2 DEF Sound, Tears

\* Every transaction keeps at most one copy of a unit.
LEMMA CopyStep ==
  ASSUME IInv, NEW u \in Units, UnitStep(u), Sound(u[1])'
  PROVE  (IF Present(u)' THEN 1 ELSE 0) + dlq'[u] <= 1
<1>1. Sound(u[1]) /\ ~Tears(u)
  BY SoundBefore DEF IInv
<1>2. /\ dlq[u] \in Nat /\ (IF Present(u) THEN 1 ELSE 0) + dlq[u] <= 1
      /\ dlq[u] > 0 => Live(u[1])
      /\ u[1] \notin legacy
  BY <1>1, RowTyped DEF IInv, OneCopy, DeadLettersReplayable, LegacyOnly, Sound
<1>3. CASE Starts(u)
  BY <1>2, <1>3 DEF Starts
<1>4. CASE Rests(u) \/ ExpiresDead(u)
  BY <1>2, <1>4 DEF Rests, ExpiresDead, Present
<1>5. CASE Delivers(u) \/ Acks(u) \/ Releases(u) \/ Replays(u)
  <2>1. Present(u) /\ dlq'[u] = dlq[u]
    BY Zenon, <1>5 DEF Delivers, Acks, Releases, Ends, Replays, Present, Matches, TimedOut
  <2>2. QED
    BY <1>2, <2>1
<1>6. CASE Buries(u)
  <2>1. Present(u) /\ ~Present(u)' /\ dlq'[u] = dlq[u] + 1
    BY Zenon, <1>6 DEF Buries, Ends, Present
  <2>2. QED
    BY <1>2, <2>1
<1>7. CASE Expires(u) \/ Empties(u)
  BY <1>2, <1>7 DEF Expires, Empties
<1>8. QED
  BY Zenon, <1>1, <1>3, <1>4, <1>5, <1>6, <1>7 DEF UnitStep

\* A dead letter that is there after a step was there before, or was a row.
LEMMA DeadBefore ==
  ASSUME TypeOK, NEW u \in Units, UnitStep(u), dlq'[u] > 0
  PROVE  dlq[u] > 0 \/ Present(u)
<1>1. dlq[u] \in Nat
  BY RowTyped
<1>2. CASE Starts(u)
  BY <1>1, <1>2 DEF Starts
<1>3. CASE ExpiresDead(u) \/ Empties(u)
  BY <1>1, <1>3 DEF ExpiresDead, Empties
<1>4. CASE Buries(u)
  BY <1>4 DEF Buries, Ends, Present
<1>5. CASE \/ Rests(u) \/ Delivers(u) \/ Acks(u) \/ Releases(u) \/ Expires(u) \/ Tears(u)
           \/ Replays(u)
  <2>1. dlq'[u] = dlq[u]
    BY Zenon, <1>5 DEF Rests, Delivers, Acks, Releases, Expires, Tears, Replays
  <2>2. QED
    BY <2>1
<1>6. QED
  BY Zenon, <1>2, <1>3, <1>4, <1>5 DEF UnitStep

\* Every transaction keeps the message of a dead letter.
LEMMA ReplayableStep ==
  ASSUME IInv, NEW u \in Units, UnitStep(u), MessageStep(u[1]), Sound(u[1])', dlq'[u] > 0
  PROVE  Live(u[1])'
<1>0. u[1] \in Ids /\ u[2] \in Subs /\ u = <<u[1], u[2]>>
  BY UnitParts
<1>1. Sound(u[1]) /\ dlq[u] \in Nat /\ torn[u[1]] \in Nat
  BY SoundBefore, RowTyped, BooksTyped DEF IInv
<1>2. Live(u[1])
  BY <1>1, DeadBefore DEF IInv, ScanInv, Referenced, DeadLettersReplayable
<1>3. ASSUME Leaves(u[1]) PROVE FALSE
  <2>1. CASE (Finished(u[1]) \/ Orphan(u[1])) /\ dlq'[u] = dlq[u]
    BY <1>0, <2>1 DEF Finished, Orphan, Dead
  <2>2. torn'[u[1]] # torn[u[1]] + 1
    BY <1>1 DEF Sound
  <2>3. CASE dlq'[u] = 0
    BY <2>3
  <2>4. QED
    BY Zenon, <1>0, <1>3, <2>1, <2>2, <2>3 DEF Leaves
<1>4. QED
  BY Zenon, <1>2, <1>3 DEF MessageStep, Stays, Appears

\* No transaction dead-letters what a subscriber has acked.
LEMMA AckedStep ==
  ASSUME IInv, NEW u \in Units, UnitStep(u), NEW k \in Claims, Sound(u[1])',
         receipt'[u][k] = "acked"
  PROVE  dlq'[u] = 0
<1>1. Sound(u[1]) /\ ~Tears(u) /\ dlq[u] \in Nat
  BY SoundBefore, RowTyped DEF IInv
<1>2. /\ receipt[u][k] = "acked" => dlq[u] = 0 /\ (~Present(u) \/ sub[u].status = "acked")
      /\ Present(u) => dlq[u] = 0
  BY <1>1 DEF IInv, AckedNotDead, AckFinal, OneCopy
<1>3. CASE Starts(u) \/ Replays(u)
  BY <1>3 DEF Starts, Replays, Renewed
<1>4. CASE Rests(u) \/ Expires(u)
  BY Zenon, <1>2, <1>4 DEF Rests, Expires
<1>5. CASE ExpiresDead(u)
  BY <1>1, <1>2, <1>5 DEF ExpiresDead
<1>6. CASE Delivers(u) \/ Acks(u) \/ Releases(u)
  <2>1. Present(u) /\ dlq'[u] = dlq[u]
    BY Zenon, <1>6 DEF Delivers, Acks, Releases, Ends, Present, Matches, TimedOut
  <2>2. QED
    BY <1>2, <2>1
<1>7. CASE Buries(u)
  BY <1>2, <1>7 DEF Buries, Ends, Answered, Present
<1>8. CASE Empties(u)
  BY <1>8 DEF Empties
<1>9. QED
  BY Zenon, <1>1, <1>3, <1>4, <1>5, <1>6, <1>7, <1>8 DEF UnitStep

-----------------------------------------------------------------------------
(* What a transaction does to a unit, as the action properties say it *)

\* Only a claim with all its deliveries used up is dead-lettered.
LEMMA BuriedUnit ==
  ASSUME IInv, NEW u \in Units, UnitStep(u), dlq'[u] > dlq[u]
  PROVE  Present(u) /\ deliv[u] = MaxRetries + 1
<1>1. dlq[u] \in Nat /\ sub[u].retry \in Nat
  BY RowTyped DEF IInv
<1>2. ~Starts(u) /\ ~ExpiresDead(u) /\ ~Empties(u) /\ dlq'[u] # dlq[u]
  BY <1>1 DEF Starts, ExpiresDead, Empties
<1>3. Buries(u)
  BY Zenon, <1>2 DEF UnitStep, Rests, Delivers, Acks, Releases, Expires, Tears, Replays
<1>4. sub[u].status = "processing" /\ Present(u)
  BY Zenon, <1>3 DEF Buries, Ends, Present
<1>5. deliv[u] = sub[u].retry + 1 /\ sub[u].retry <= MaxRetries
  BY Zenon, <1>4 DEF IInv, AttemptsCounted
<1>6. QED
  BY <1>1, <1>3, <1>4, <1>5, MaxRetriesAssumption DEF Buries, Exhausted

\* Where NotTaken holds, neither PurgeQueue nor a torn purge took the unit.
LEMMA NotTakenUnit ==
  ASSUME TypeOK, NEW u \in Units, NotTaken(u[1])
  PROVE  ~Tears(u) /\ ~Empties(u)
  BY BooksTyped DEF NotTaken, Tears, Empties

\* Nobody but its holder ends a claim whose lease runs.
LEMMA LeasedUnit ==
  ASSUME IInv, NEW u \in Units, UnitStep(u), NEW k \in Claims,
         Matches(u, k), ~sub[u].lapsed, NotTaken(u[1])
  PROVE  Matches(u, k)' \/ receipt'[u][k] \in {"acked", "nacked"}
<1>1. ~Tears(u) /\ ~Empties(u)
  BY NotTakenUnit DEF IInv
<1>2. CASE Rests(u) \/ ExpiresDead(u)
  BY <1>2 DEF Rests, ExpiresDead, Matches, Present
<1>3. CASE Acks(u)
  BY <1>3 DEF Acks, Answered, Matches
<1>4. CASE Releases(u) \/ Buries(u)
  BY <1>4 DEF Releases, Buries, Ends, Answered, Matches
<1>5. ~Starts(u) /\ ~Delivers(u) /\ ~Expires(u) /\ ~Replays(u)
  BY Zenon DEF Starts, Delivers, Expires, Replays, Matches, Present, TimedOut
<1>6. QED
  BY Zenon, <1>1, <1>2, <1>3, <1>4, <1>5 DEF UnitStep

\* A row that appears for a subscriber that acked belongs to a new publication.
LEMMA AckedUnit ==
  ASSUME IInv, NEW u \in Units, UnitStep(u), NEW k \in Claims,
         Sound(u[1]), receipt[u][k] = "acked", ~Present(u), Present(u)'
  PROVE  accepted'[u[1]] > accepted[u[1]]
<1>1. accepted[u[1]] \in Nat
  BY BooksTyped DEF IInv
<1>2. Starts(u)
  BY Zenon DEF UnitStep, Rests, Delivers, Acks, Releases, Ends, Buries, Expires,
     ExpiresDead, Tears, Empties, Replays, Present, Matches, TimedOut
<1>3. dlq[u] = 0 /\ u[1] \notin legacy
  BY Zenon DEF IInv, AckedNotDead, LegacyOnly, Sound
<1>4. QED
  BY <1>1, <1>2, <1>3 DEF Starts

-----------------------------------------------------------------------------
(* Refinement of the delivery contract *)

\* Only PurgeQueue adds to wiped.
LEMMA OnlyEmptiesWipes ==
  ASSUME NEW u \in Units, UnitStep(u), ~Empties(u)
  PROVE  wiped'[u[1]] = wiped[u[1]]
  BY Zenon DEF UnitStep, Rests, Starts, Delivers, Acks, Releases, Buries, Ends, Expires,
     ExpiresDead, Tears, Replays, NotTaken

\* The states of the contract's unit by the status of the row.
LEMMA UnitOf ==
  /\ Unit("absent") = "none" /\ Unit("pending") = "ready"
  /\ Unit("processing") = "held" /\ Unit("acked") = "done"
  BY DEF Unit

\* A row or dead letter that PurgeQueue removes is a unit emptied.
LEMMA EmptiesContract ==
  ASSUME NEW u \in Units, Empties(u)
  PROVE  Contract!Empty(u)
<1>1. sub'[u].status = "absent" /\ dlq'[u] = 0 /\ wiped'[u[1]] = wiped[u[1]] + 1
  BY Zenon DEF Empties, Present
<1>2. QED
  BY <1>1, UnitOf DEF Contract!Empty

\* A new row is a unit enqueued or exhumed.
LEMMA StartsContract ==
  ASSUME NEW u \in Units, Starts(u)
  PROVE  Contract!Enqueue(u) \/ Contract!Exhume(u)
<1>1. sub[u].status = "absent" /\ sub'[u].status = "pending" /\ deliv'[u] = 0
  BY Zenon DEF Starts, Present
<1>2. CASE dlq'[u] = dlq[u]
  BY <1>1, <1>2, UnitOf DEF Contract!Enqueue, Contract!Move
<1>3. CASE dlq[u] > 0 /\ dlq'[u] = dlq[u] - 1
  BY <1>1, <1>3, UnitOf DEF Contract!Exhume, Contract!Move
<1>4. QED
  BY Zenon, <1>2, <1>3 DEF Starts

\* A delivery is a first delivery, or a redelivery within the cap.
LEMMA DeliversContract ==
  ASSUME IInv, NEW u \in Units, Delivers(u)
  PROVE  Contract!Deliver(u) \/ Contract!Redeliver(u)
<1>1. /\ sub'[u].status = "processing" /\ Present(u) /\ Present(u)'
      /\ deliv'[u] = deliv[u] + 1 /\ dlq'[u] = dlq[u]
      /\ \/ sub[u].status = "pending"
         \/ sub[u].status = "processing" /\ ~Exhausted(u)
  BY Zenon DEF Delivers, TimedOut, Present
<1>2. CASE sub[u].status = "pending"
  BY Zenon, <1>1, <1>2, UnitOf DEF Contract!Deliver, Contract!Move, Contract!Keeps
<1>3. CASE sub[u].status = "processing" /\ ~Exhausted(u)
  <2>1. deliv[u] = sub[u].retry + 1 /\ sub[u].retry \in Nat
    BY <1>3, RowTyped DEF IInv, AttemptsCounted
  <2>2. deliv[u] <= MaxRetries
    BY <1>3, <2>1, MaxRetriesAssumption DEF Exhausted
  <2>3. QED
    BY <1>1, <1>3, <2>2, UnitOf DEF Contract!Redeliver, Contract!Move, Contract!Keeps
<1>4. QED
  BY <1>1, <1>2, <1>3

\* A claim that ends within the cap releases the unit, beyond it buries it.
LEMMA EndsContract ==
  ASSUME IInv, NEW u \in Units, Releases(u) \/ Buries(u)
  PROVE  Contract!Release(u) \/ Contract!Bury(u)
<1>1. sub[u].status = "processing" /\ Present(u) /\ deliv'[u] = deliv[u]
  BY Zenon DEF Releases, Buries, Ends, Present
<1>2. deliv[u] = sub[u].retry + 1 /\ sub[u].retry \in Nat /\ sub[u].retry <= MaxRetries
  BY <1>1, RowTyped DEF IInv, AttemptsCounted
<1>3. CASE Releases(u)
  <2>1. deliv[u] <= MaxRetries /\ sub'[u].status = "pending" /\ Present(u)' /\ dlq'[u] = dlq[u]
    BY <1>2, <1>3, MaxRetriesAssumption DEF Releases, Exhausted, Present
  <2>2. QED
    BY Zenon, <1>1, <2>1, UnitOf DEF Contract!Release, Contract!Move, Contract!Keeps
<1>4. CASE Buries(u)
  <2>1. deliv[u] = MaxRetries + 1 /\ sub'[u].status = "absent" /\ dlq'[u] = dlq[u] + 1
    BY <1>2, <1>4, MaxRetriesAssumption DEF Buries, Exhausted, Present
  <2>2. QED
    BY <1>1, <2>1, UnitOf DEF Contract!Bury, Contract!Move
<1>5. QED
  BY <1>3, <1>4

\* A row that goes was not held, or its holder is gone: its claim has lapsed and its
\* subscriber had left.
LEMMA ExpiresContract ==
  ASSUME TypeOK, NEW u \in Units, Expires(u)
  PROVE  Contract!Expire(u) \/ Contract!Forsake(u)
<1>1. sub'[u].status = "absent" /\ dlq'[u] = dlq[u] /\ sub[u].status \in Status
  BY RowTyped DEF Expires, Present
<1>2. CASE sub[u].status \in {"pending", "acked"}
  BY <1>1, <1>2, UnitOf DEF Contract!Expire, Contract!Move
<1>3. CASE sub[u].status = "processing"
  <2>1. u \in leavers /\ sub[u].lapsed
    BY <1>3 DEF Expires
  <2>2. QED
    BY Zenon, <1>1, <1>3, <2>1, UnitOf DEF Contract!Forsake, Contract!Move
<1>4. QED
  BY <1>1, <1>2, <1>3 DEF Expires, Present, Status

\* The other things a transaction may do to a unit.
LEMMA OthersContract ==
  ASSUME NEW u \in Units, Rests(u) \/ ExpiresDead(u) \/ Acks(u) \/ Replays(u)
  PROVE  Contract!Rest(u) \/ Contract!ExpireDead(u) \/ Contract!Finish(u) \/ Contract!Replay(u)
<1>1. CASE Rests(u)
  <2>1. /\ sub'[u].status = sub[u].status /\ Present(u)' = Present(u)
        /\ deliv'[u] = deliv[u] /\ dlq'[u] = dlq[u]
    BY Zenon, <1>1 DEF Rests, Present
  <2>2. QED
    BY Zenon, <2>1 DEF Contract!Rest, Contract!Keeps
<1>2. CASE ExpiresDead(u)
  <2>1. /\ sub'[u].status = sub[u].status /\ Present(u)' = Present(u)
        /\ deliv'[u] = deliv[u] /\ dlq'[u] \in 0..(dlq[u] - 1)
    BY <1>2 DEF ExpiresDead, Present
  <2>2. QED
    BY <2>1 DEF Contract!ExpireDead
<1>3. CASE Acks(u)
  <2>1. /\ sub[u].status = "processing" /\ sub'[u].status = "acked" /\ Present(u) /\ Present(u)'
        /\ deliv'[u] = deliv[u] /\ dlq'[u] = dlq[u]
    BY Zenon, <1>3 DEF Acks, Matches, Present
  <2>2. QED
    BY Zenon, <2>1, UnitOf DEF Contract!Finish, Contract!Move, Contract!Keeps
<1>4. CASE Replays(u)
  <2>1. /\ sub[u].status = "acked" /\ sub'[u].status = "pending" /\ Present(u) /\ Present(u)'
        /\ deliv'[u] = 0 /\ dlq'[u] = dlq[u]
    BY <1>4 DEF Replays, Present
  <2>2. QED
    BY <2>1, UnitOf DEF Contract!Replay, Contract!Move, Contract!Keeps
<1>5. QED
  BY Zenon, <1>1, <1>2, <1>3, <1>4

-----------------------------------------------------------------------------
(* Messages. *)

\* Deleting messages leaves the others alone.
LEMMA DeletedMessage ==
  ASSUME TypeOK, NEW S, deleteMessages(S), NEW m \in Ids
  PROVE  /\ m \in S => ~Live(m)' /\ \A s \in Subs : ~Present(<<m, s>>)'
         /\ m \notin S => msg'[m] = msg[m]
<1>1. ASSUME NEW s \in Subs, m \in S PROVE ~Present(<<m, s>>)'
  <2>1. <<m, s>> \in Units /\ <<m, s>>[1] = m
    BY UnitParts
  <2>2. QED
    BY <1>1, <2>1, DeletedUnit
<1>2. msg'[m] = IF m \in S THEN "absent" ELSE msg[m]
  BY DEF deleteMessages
<1>3. QED
  BY <1>1, <1>2 DEF Live

\* Publish makes its messages visible.
LEMMA PublishMessage ==
  ASSUME TypeOK, ScanInv, NEW m \in Ids, NEW p \in publishing, publishBatchToPubSub(p)
  PROVE  MessageStep(m)
<1>1. NotTaken(m) /\ msg'[m] = IF m \in p.ids THEN "fresh" ELSE msg[m]
  BY DEF publishBatchToPubSub, NotTaken
<1>2. CASE m \in p.ids
  <2>1. ~Live(m) /\ Live(m)'
    BY <1>1, <1>2 DEF ScanInv, Invisible, Live
  <2>2. QED
    BY <1>1, <1>2, <2>1 DEF MessageStep, Appears, publishBatchToPubSub
<1>3. CASE m \notin p.ids
  BY <1>1, <1>3, MsgUntouched
<1>4. QED
  BY <1>2, <1>3

\* purgeCompletedMessages deletes finished messages, or tears them.
LEMMA CompletedMessage ==
  ASSUME TypeOK, NEW m \in Ids, NEW S \in SUBSET Ids, purgeCompletedMessages(S)
  PROVE  MessageStep(m)
<1>1. /\ dlq' = dlq /\ wiped' = wiped /\ deleteMessages(S) /\ orphans' = orphans \ S
      /\ torn'[m] = IF m \in S /\ ~Finished(m) THEN torn[m] + 1 ELSE torn[m]
  BY DEF purgeCompletedMessages, Counted
<1>2. CASE m \in S
  <2>1. ~Live(m)' /\ m \notin orphans' /\ \A s \in Subs : ~Present(<<m, s>>)'
    BY <1>1, <1>2, DeletedMessage
  <2>2. QED
    BY <1>1, <1>2, <2>1 DEF MessageStep, Leaves, NotTaken
<1>3. CASE m \notin S
  BY <1>1, <1>3, DeletedMessage, MsgUntouched DEF NotTaken
<1>4. QED
  BY <1>2, <1>3

\* reclaimOrphanTopicMessages deletes messages that have no dead letter.
LEMMA OrphanMessage ==
  ASSUME TypeOK, ScanInv, NEW m \in Ids, NEW S \in SUBSET Ids, reclaimOrphanTopicMessages(S)
  PROVE  MessageStep(m)
<1>1. dlq' = dlq /\ NotTaken(m) /\ deleteMessages(S) /\ S \subseteq orphans /\ orphans' = {}
  BY DEF reclaimOrphanTopicMessages, NotTaken, history, books
<1>2. CASE m \in S
  <2>1. ~Live(m)' /\ m \notin orphans' /\ \A s \in Subs : ~Present(<<m, s>>)'
    BY <1>1, <1>2, DeletedMessage
  <2>2. Orphan(m)
    BY <1>1, <1>2 DEF ScanInv, OrphansStayOrphans, Orphan
  <2>3. QED
    BY <1>1, <2>1, <2>2 DEF MessageStep, Leaves
<1>3. CASE m \notin S
  BY <1>1, <1>3, DeletedMessage, MsgUntouched
<1>4. QED
  BY <1>2, <1>3

\* PurgeQueue deletes messages with their dead letters.
LEMMA WipeMessage ==
  ASSUME TypeOK, NEW m \in Ids, NEW D \in (SUBSET Ids) \ {{}}, NEW S \in SUBSET D,
         executePurge(S, D)
  PROVE  MessageStep(m)
<1>1. /\ torn' = torn /\ deleteMessages(S) /\ orphans' = orphans \ S
      /\ wiped'[m] = IF m \in S THEN wiped[m] + 1 ELSE wiped[m]
      /\ dlq' = [u \in Units |-> IF u[1] \in D THEN 0 ELSE dlq[u]]
  BY DEF executePurge, Counted
<1>2. CASE m \in S
  <2>1. ~Live(m)' /\ m \notin orphans' /\ \A s \in Subs : ~Present(<<m, s>>)'
    BY <1>1, <1>2, DeletedMessage
  <2>2. \A s \in Subs : dlq'[<<m, s>>] = 0
    BY <1>1, <1>2, UnitParts
  <2>3. QED
    BY <1>1, <2>1, <2>2 DEF MessageStep, Leaves
<1>3. CASE m \notin S
  BY <1>1, <1>3, DeletedMessage, MsgUntouched DEF NotTaken
<1>4. QED
  BY <1>2, <1>3

\* The TTL of a message changes nothing but its freshness.
LEMMA TTLMessage ==
  ASSUME TypeOK, NEW m \in Ids, NEW x \in Ids, TTLElapses(x)
  PROVE  MessageStep(m)
  BY DEF TTLElapses, MessageStep, Stays, Live, TypeOK, NotTaken, history, books

\* Calls of subscribers and replays leave the message table alone.
LEMMA CallMessage ==
  ASSUME NEW m \in Ids, Membership \/ Receiving \/ Settling \/ Replaying
  PROVE  MessageStep(m)
<1>1. msg' = msg /\ torn' = torn /\ wiped' = wiped
  BY ZenonT(60) DEF Membership, Receiving, Settling, Replaying, Subscribe, Unsubscribe,
     ReceiveEmpty, ReceiveMessage, ackTopicBatch, nackTopicBatch, ackTopic, nackTopicImpl,
     extendTopicVisibility, Forget, fetchReplayCandidateIDs, applyReplayFrom, ReplayRows,
     ReplayFromFails, replayDLQPage, replayLegacyDLQ, tables, history, books
<1>2. QED
  BY <1>1, MsgUntouched DEF NotTaken

\* So do the searches of the collector and its statements about rows.
LEMMA SweepMessage ==
  ASSUME NEW m \in Ids, NEW S,
         \/ promoteExhaustedTopicSubscriptions(S) \/ resetTimedOutSubscriptions(S)
         \/ purgeOldPendingMessages(S) \/ purgeInactiveSubscriptions(S)
         \/ \E L \in SUBSET Ids : purgeDLQMessages(S, L)
         \/ findLeavers \/ findFinished(S) \/ findOrphans(S)
  PROVE  MessageStep(m)
<1>1. msg' = msg /\ torn' = torn /\ wiped' = wiped
  BY Zenon DEF promoteExhaustedTopicSubscriptions, resetTimedOutSubscriptions,
     purgeOldPendingMessages, purgeInactiveSubscriptions, purgeDLQMessages, findLeavers,
     findFinished, findOrphans, tables, history, books
<1>2. QED
  BY <1>1, MsgUntouched DEF NotTaken

\* Every transaction does one of three things to each message.
LEMMA MessageSteps ==
  ASSUME TypeOK, ScanInv, [Next]_vars, NEW m \in Ids
  PROVE  MessageStep(m)
<1>1. ASSUME Publishing PROVE MessageStep(m)
  <2>1. ASSUME \/ \E S \in (SUBSET Ids) \ {{}} : getActiveSubscribers(S)
               \/ \E p \in publishing : PublishFails(p)
        PROVE  MessageStep(m)
    BY <2>1, MsgUntouched DEF getActiveSubscribers, PublishFails, tables, history, books, NotTaken
  <2>2. QED
    BY Zenon, <1>1, <2>1, PublishMessage DEF Publishing
<1>2. ASSUME Collecting PROVE MessageStep(m)
  BY Zenon, <1>2, SweepMessage, CompletedMessage, OrphanMessage DEF Collecting
<1>3. ASSUME TimePasses PROVE MessageStep(m)
  <2>1. ASSUME NEW u \in Units, VisibilityLapses(u) \/ BackoffElapses(u) PROVE MessageStep(m)
    BY <2>1, MsgUntouched DEF VisibilityLapses, BackoffElapses, Elapse, history, books, NotTaken
  <2>2. QED
    BY Zenon, <1>3, <2>1, TTLMessage DEF TimePasses
<1>4. CASE UNCHANGED vars
  BY <1>4, MsgUntouched DEF vars, tables, history, books, NotTaken
<1>5. QED
  BY Zenon, <1>1, <1>2, <1>3, <1>4, CallMessage, WipeMessage DEF Next, PurgeQueue

-----------------------------------------------------------------------------
(* What holds between steps. *)

\* Dead letters without subscriber only go, and the two searches that others rely on
\* find what the tables hold when they begin.
LEMMA SearchStep ==
  ASSUME [Next]_vars
  PROVE  /\ legacy' \subseteq legacy
         /\ \/ publishing' \subseteq publishing
            \/ \E S \in SUBSET Ids : getActiveSubscribers(S)
         /\ \/ orphans' \subseteq orphans
            \/ \E S \in SUBSET Ids : findOrphans(S)
<1> DEFINE G == /\ legacy' \subseteq legacy
                /\ \/ publishing' \subseteq publishing
                   \/ \E S \in SUBSET Ids : getActiveSubscribers(S)
                /\ \/ orphans' \subseteq orphans
                   \/ \E S \in SUBSET Ids : findOrphans(S)
<1>1. ASSUME Membership \/ Receiving \/ TimePasses PROVE G
  BY ZenonT(60), <1>1 DEF Membership, Receiving, TimePasses, Subscribe, Unsubscribe, ReceiveEmpty,
     ReceiveMessage, VisibilityLapses, BackoffElapses, Elapse, TTLElapses, tables, msgScans
<1>2. ASSUME Settling PROVE G
  BY Zenon, <1>2 DEF Settling, ackTopicBatch, nackTopicBatch, ackTopic, nackTopicImpl,
     extendTopicVisibility, Forget, tables, msgScans
<1>3. ASSUME Publishing PROVE G
  BY Zenon, <1>3 DEF Publishing, publishBatchToPubSub, PublishFails, getActiveSubscribers,
     tables, msgScans
<1>4. ASSUME Collecting PROVE G
  BY ZenonT(60), <1>4 DEF Collecting, promoteExhaustedTopicSubscriptions,
     resetTimedOutSubscriptions, purgeOldPendingMessages, purgeInactiveSubscriptions,
     purgeDLQMessages, findLeavers, findFinished, findOrphans, purgeCompletedMessages,
     reclaimOrphanTopicMessages, tables, msgScans
<1>5. ASSUME Replaying \/ PurgeQueue PROVE G
  BY Zenon, <1>5 DEF Replaying, PurgeQueue, executePurge, fetchReplayCandidateIDs, applyReplayFrom, ReplayRows,
     ReplayFromFails, replayDLQPage, replayLegacyDLQ, tables, msgScans
<1>6. CASE UNCHANGED vars
  BY <1>6 DEF vars, tables, msgScans
<1>7. QED
  BY Zenon, <1>1, <1>2, <1>3, <1>4, <1>5, <1>6 DEF Next

\* A row that appears has its message.
LEMMA RowAppears ==
  ASSUME NEW u \in Units, UnitStep(u), Present(u)'
  PROVE  Present(u) \/ Live(u[1])'
  BY Zenon DEF UnitStep, Rests, Starts, Delivers, Acks, Releases, Ends, Buries, Expires,
     ExpiresDead, Tears, Empties, Replays, Present, Matches, TimedOut

\* A unit that has neither row nor dead letter stays so, unless a row appears.
LEMMA NothingFromNothing ==
  ASSUME NEW u \in Units, UnitStep(u), ~Present(u), dlq[u] = 0, ~Starts(u)
  PROVE  ~Present(u)' /\ dlq'[u] = 0
<1>1. ~ExpiresDead(u)
  BY DEF ExpiresDead
<1>2. QED
  BY Zenon, <1>1 DEF UnitStep, Rests, Delivers, Acks, Releases, Ends, Buries, Expires,
     Tears, Empties, Replays, Present, Matches, TimedOut

\* Every transaction keeps the foreign key.
LEMMA ReferencedStep ==
  ASSUME TypeOK, ScanInv, [Next]_vars
  PROVE  Referenced'
<1> SUFFICES ASSUME NEW u \in Units, Present(u)' PROVE Live(u[1])'
  BY DEF Referenced, Units
<1>1. u[1] \in Ids /\ u[2] \in Subs /\ u = <<u[1], u[2]>>
  BY UnitParts
<1>2. MessageStep(u[1]) /\ (Present(u) \/ Live(u[1])')
  BY <1>1, UnitSteps, MessageSteps, RowAppears
<1>3. ~Leaves(u[1])
  BY <1>1 DEF Leaves
<1>4. QED
  BY Zenon, <1>2, <1>3 DEF MessageStep, Stays, Appears, ScanInv, Referenced

\* Every transaction keeps the rows of open publishers invisible.
LEMMA InvisibleStep ==
  ASSUME TypeOK, ScanInv, [Next]_vars
  PROVE  Invisible'
<1>1. CASE publishing' \subseteq publishing
  <2>1. ASSUME NEW p \in publishing', NEW m \in p.ids PROVE ~Live(m)'
    <3>1. p \in publishing /\ m \in Ids /\ ~Live(m)
      BY <1>1, <2>1 DEF TypeOK, ScanInv, Invisible
    <3>2. ~Appears(m)
      BY <2>1, <3>1 DEF Appears, ScanInv, Invisible
    <3>3. MessageStep(m)
      BY <3>1, MessageSteps
    <3>4. QED
      BY <3>1, <3>2, <3>3 DEF MessageStep, Stays, Leaves
  <2>2. QED
    BY <1>1, <2>1 DEF ScanInv, Invisible
<1>2. ASSUME NEW S \in SUBSET Ids, getActiveSubscribers(S) PROVE Invisible'
  <2> DEFINE q == [ids |-> S, to |-> active]
  <2>1. msg' = msg /\ publishing' = publishing \cup {q} /\ q.ids = S
    BY <1>2 DEF getActiveSubscribers, tables
  <2>2. /\ \A m \in S : ~Live(m)
        /\ \A p \in publishing : p.ids \cap S = {}
    BY <1>2 DEF getActiveSubscribers
  <2> HIDE DEF q
  <2>3. QED
    BY <2>1, <2>2 DEF ScanInv, Invisible, Live
<1>3. QED
  BY <1>1, <1>2, SearchStep

\* What was found orphaned stays so: subscription rows come with the message or from its
\* dead letters, and dead letters come from subscription rows.
LEMMA OrphansStep ==
  ASSUME TypeOK, ScanInv, [Next]_vars
  PROVE  OrphansStayOrphans'
<1>1. CASE orphans' \subseteq orphans
  <2> SUFFICES ASSUME NEW m \in orphans'
               PROVE  (Live(m) /\ ~Dead(m) /\ \A s \in Subs : ~Present(<<m, s>>))'
    BY DEF OrphansStayOrphans
  <2>1. m \in Ids /\ Live(m) /\ m \notin legacy
    BY <1>1 DEF TypeOK, ScanInv, OrphansStayOrphans, Dead
  <2>2. Live(m)' /\ m \notin legacy'
    <3>1. MessageStep(m) /\ legacy' \subseteq legacy
      BY <2>1, MessageSteps, SearchStep
    <3>2. QED
      BY Zenon, <2>1, <3>1 DEF MessageStep, Stays, Appears, Leaves
  <2>3. ASSUME NEW s \in Subs
        PROVE  ~Present(<<m, s>>)' /\ ~(dlq'[<<m, s>>] > 0)
    <3> DEFINE u == <<m, s>>
    <3>1. u \in Units /\ u[1] = m /\ dlq[u] \in Nat
      BY <2>1, UnitParts DEF TypeOK
    <3>2. ~Present(u) /\ dlq[u] = 0
      BY <1>1, <3>1 DEF ScanInv, OrphansStayOrphans, Dead
    <3>3. UnitStep(u)
      BY <3>1, UnitSteps
    <3> HIDE DEF u
    <3>4. ~Starts(u)
      BY <2>1, <3>1, <3>2 DEF Starts
    <3>5. ~Present(u)' /\ dlq'[u] = 0
      BY Zenon, <3>1, <3>2, <3>3, <3>4, NothingFromNothing
    <3>6. ~(0 > 0)
      OBVIOUS
    <3>7. QED
      BY Zenon, <3>5, <3>6 DEF u
  <2>4. QED
    BY Zenon, <2>2, <2>3 DEF Dead
<1>2. ASSUME NEW S \in SUBSET Ids, findOrphans(S) PROVE OrphansStayOrphans'
  BY Zenon, <1>2 DEF findOrphans, Orphan, OrphansStayOrphans, Live, Dead, Present, tables
<1>3. QED
  BY <1>1, <1>2, SearchStep

\* Pages stay good when rows stay present.
LEMMA KeptPages ==
  ASSUME ScanInv, \A r \in Replayers : replaying'[r] \subseteq replaying[r],
         \A u \in Units : Present(u) => Present(u)', TypeOK
  PROVE  PagesPresent'
  BY Zenon DEF ScanInv, PagesPresent, TypeOK

\* And when the deleted rows leave them.
LEMMA DroppedPages ==
  ASSUME TypeOK, ScanInv, NEW S, NEW T, sub' = Drop(S, T), PagesLose(S)
  PROVE  PagesPresent'
<1> SUFFICES ASSUME NEW r \in Replayers, NEW u \in replaying'[r] PROVE Present(u)'
  BY DEF PagesPresent
<1>1. u \in replaying[r] /\ u \notin S /\ u \in Units
  BY DEF PagesLose, TypeOK
<1>2. Present(u)
  BY <1>1 DEF ScanInv, PagesPresent
<1>3. QED
  BY <1>1, <1>2, DroppedRow DEF Present

\* Receive takes the rows it dead-letters off the pages.
LEMMA ReceivePages ==
  ASSUME TypeOK, ScanInv, NEW b, NEW skip \in SUBSET Units, NEW x \in Units, NEW k, NEW n,
         ReceiveMessage(b, skip, x, k, n)
  PROVE  PagesPresent'
<1> SUFFICES ASSUME NEW r \in Replayers, NEW u \in replaying'[r] PROVE Present(u)'
  BY DEF PagesPresent
<1>1. u \in replaying[r] /\ u \notin Buried(skip) /\ u \in Units
  BY DEF ReceiveMessage, moveSubToDLQ, RowsGone, PagesLose, TypeOK
<1>2. Present(u)
  BY <1>1 DEF ScanInv, PagesPresent
<1>0. sub' = [Drop(Buried(skip), skip) EXCEPT ![x] = claimTopicSubscription(sub[x], n, k)]
  BY Zenon DEF ReceiveMessage
<1>3. CASE u = x
  <2>1. sub'[u] = claimTopicSubscription(sub[u], n, k)
    BY <1>0, <1>1, <1>3 DEF Drop
  <2>2. QED
    BY <1>1, <2>1, ClaimedFields DEF Present
<1>4. CASE u # x
  <2>1. sub'[u] = IF u \in skip THEN Delayed(sub[u]) ELSE sub[u]
    BY <1>0, <1>1, <1>4 DEF Drop
  <2>2. QED
    BY <1>1, <1>2, <2>1, DelayedFields DEF Present
<1>5. QED
  BY <1>3, <1>4

\* Inserting rows takes none away.
LEMMA InsertPages ==
  ASSUME TypeOK, ScanInv, UNCHANGED replaying, NEW S, sub' = Subscribed(S)
  PROVE  PagesPresent'
<1>1. ASSUME NEW u \in Units, Present(u) PROVE Present(u)'
  BY <1>1, SubscribedRow DEF Present
<1>2. QED
  BY <1>1, KeptPages

\* Nor do Ack and ExtendVisibility.
LEMMA AckPages ==
  ASSUME TypeOK, ScanInv, NEW s, NEW R, ackTopicBatch(s, R)
  PROVE  PagesPresent'
<1>1. ASSUME NEW u \in Units, Present(u) PROVE Present(u)'
  <2>1. sub'[u] = sub[u] \/ sub'[u] = [sub[u] EXCEPT !.status = "acked"]
    BY DEF ackTopicBatch
  <2>2. QED
    BY <1>1, <2>1, RowTyped DEF Present, SubRow
<1>2. QED
  BY <1>1, KeptPages DEF ackTopicBatch, rowScans

\* The collector's reset keeps the rows.
LEMMA ResetPages ==
  ASSUME TypeOK, ScanInv, NEW S, resetTimedOutSubscriptions(S)
  PROVE  PagesPresent'
<1>1. ASSUME NEW u \in Units, Present(u) PROVE Present(u)'
  BY <1>1, ResetFields DEF resetTimedOutSubscriptions, Present
<1>2. QED
  BY <1>1, KeptPages DEF resetTimedOutSubscriptions, rowScans

\* So does a deadline that passes or is extended.
LEMMA DeadlinePages ==
  ASSUME TypeOK, ScanInv, NEW x \in Units,
         \/ VisibilityLapses(x) \/ BackoffElapses(x)
         \/ \E k \in Claims : extendTopicVisibility(x, k)
  PROVE  PagesPresent'
<1>1. ASSUME NEW u \in Units, Present(u) PROVE Present(u)'
  <2>1. /\ u # x => sub'[u] = sub[u]
        /\ u = x => \E f \in BOOLEAN : \/ sub'[u] = [sub[u] EXCEPT !.lapsed = f]
                                       \/ sub'[u] = [sub[u] EXCEPT !.ready = f]
    BY Zenon DEF VisibilityLapses, BackoffElapses, Elapse, extendTopicVisibility, TypeOK
  <2>2. QED
    BY Zenon, <1>1, <2>1, RowTyped DEF Present, SubRow
<1>2. UNCHANGED replaying
  BY Zenon DEF VisibilityLapses, BackoffElapses, Elapse, extendTopicVisibility, rowScans
<1>3. QED
  BY <1>1, <1>2, KeptPages

\* A replay of acked rows keeps them, and its page is used up.
LEMMA ReplayPages ==
  ASSUME TypeOK, ScanInv, NEW r \in Replayers, applyReplayFrom(r)
  PROVE  PagesPresent'
<1>1. ASSUME NEW u \in Units, Present(u) PROVE Present(u)'
  BY <1>1, ReplayFields DEF applyReplayFrom, ReplayRows, Present
<1>2. \A q \in Replayers : replaying'[q] \subseteq replaying[q]
  BY DEF applyReplayFrom, ReplayRows, TypeOK
<1>3. QED
  BY <1>1, <1>2, KeptPages

\* A candidate page holds acked rows.
LEMMA CandidatePages ==
  ASSUME TypeOK, ScanInv, NEW r \in Replayers, NEW S \in SUBSET Units,
         fetchReplayCandidateIDs(r, S)
  PROVE  PagesPresent'
<1>1. sub' = sub /\ replaying' = [replaying EXCEPT ![r] = S] /\ \A u \in S : Present(u)
  BY DEF fetchReplayCandidateIDs, tables, Present
<1>2. QED
  BY <1>1 DEF ScanInv, PagesPresent, TypeOK, Present

\* Where the subscription table and the pages stay, or a page is dropped, nothing changes.
LEMMA QuietPages ==
  ASSUME TypeOK, ScanInv,
         \/ Membership \/ findLeavers \/ UNCHANGED vars
         \/ \E S : getActiveSubscribers(S) \/ findFinished(S) \/ findOrphans(S)
         \/ \E p : PublishFails(p)
         \/ \E u, k : Forget(u, k)
         \/ \E S, L : purgeDLQMessages(S, L)
         \/ \E r \in Replayers : ReplayFromFails(r)
         \/ \E m : TTLElapses(m)
  PROVE  PagesPresent'
<1>1. sub' = sub
  BY Zenon DEF Membership, findLeavers, getActiveSubscribers, findFinished, findOrphans,
     PublishFails, Forget, purgeDLQMessages, ReplayFromFails, TTLElapses, Subscribe,
     Unsubscribe, vars, tables
<1>2. replaying' = replaying \/ \E r \in Replayers : replaying' = [replaying EXCEPT ![r] = {}]
  BY Zenon DEF Membership, findLeavers, getActiveSubscribers, findFinished, findOrphans,
     PublishFails, Forget, purgeDLQMessages, ReplayFromFails, TTLElapses, Subscribe,
     Unsubscribe, vars, rowScans
<1>3. \A q \in Replayers : replaying'[q] \subseteq replaying[q]
  BY <1>2 DEF TypeOK
<1>4. QED
  BY <1>1, <1>3, KeptPages DEF Present

\* Every transaction keeps the candidate pages good.
LEMMA PagesStep ==
  ASSUME TypeOK, ScanInv, [Next]_vars
  PROVE  PagesPresent'
<1>1. ASSUME NEW S, deleteMessages(S) PROVE PagesPresent'
  BY <1>1, DroppedPages DEF deleteMessages, RowsGone
<1>2. ASSUME Publishing PROVE PagesPresent'
  <2>1. ASSUME NEW p \in publishing, publishBatchToPubSub(p) PROVE PagesPresent'
    BY <2>1, InsertPages DEF publishBatchToPubSub, rowScans
  <2>2. QED
    BY Zenon, <1>2, <2>1, QuietPages DEF Publishing
<1>3. ASSUME Receiving PROVE PagesPresent'
  <2>1. ASSUME NEW s, NEW b, NEW skip, ReceiveEmpty(s, b, skip) PROVE PagesPresent'
    BY <2>1, DroppedPages DEF ReceiveEmpty, moveSubToDLQ, RowsGone
  <2>2. QED
    BY Zenon, <1>3, <2>1, ReceivePages DEF Receiving
<1>4. ASSUME Settling PROVE PagesPresent'
  <2>1. ASSUME NEW s, NEW R, nackTopicBatch(s, R) PROVE PagesPresent'
    BY <2>1, DroppedPages DEF nackTopicBatch, moveSubToDLQ, RowsGone
  <2>2. QED
    BY ZenonT(30), <1>4, <2>1, AckPages, DeadlinePages, QuietPages
       DEF Settling, ackTopic, nackTopicImpl
<1>5. ASSUME Collecting PROVE PagesPresent'
  <2>1. ASSUME NEW S, promoteExhaustedTopicSubscriptions(S) \/ purgeOldPendingMessages(S)
                      \/ purgeInactiveSubscriptions(S)
        PROVE  PagesPresent'
    BY <2>1, DroppedPages DEF promoteExhaustedTopicSubscriptions, purgeOldPendingMessages,
       purgeInactiveSubscriptions, moveSubToDLQ, RowsGone
  <2>2. ASSUME NEW S, purgeCompletedMessages(S) \/ reclaimOrphanTopicMessages(S)
        PROVE  PagesPresent'
    BY <2>2, <1>1 DEF purgeCompletedMessages, reclaimOrphanTopicMessages
  <2>3. QED
    BY ZenonT(30), <1>5, <2>1, <2>2, ResetPages, QuietPages DEF Collecting
<1>6. ASSUME PurgeQueue PROVE PagesPresent'
  BY Zenon, <1>6, <1>1 DEF PurgeQueue, executePurge
<1>7. ASSUME Replaying PROVE PagesPresent'
  <2>1. ASSUME NEW S, replayDLQPage(S) PROVE PagesPresent'
    BY <2>1, InsertPages DEF replayDLQPage, rowScans
  <2>2. ASSUME NEW m, replayLegacyDLQ(m) PROVE PagesPresent'
    BY <2>2, InsertPages DEF replayLegacyDLQ, rowScans
  <2>3. QED
    BY Zenon, <1>7, <2>1, <2>2, CandidatePages, ReplayPages, QuietPages DEF Replaying
<1>8. ASSUME TimePasses PROVE PagesPresent'
  BY Zenon, <1>8, DeadlinePages, QuietPages DEF TimePasses
<1>9. QED
  BY Zenon, <1>2, <1>3, <1>4, <1>5, <1>6, <1>7, <1>8, QuietPages DEF Next

-----------------------------------------------------------------------------
(* The theorems *)

\* Every transaction preserves the inductive invariant.
LEMMA InvInductive == IInv /\ [Next]_vars => IInv'
<1> SUFFICES ASSUME IInv, [Next]_vars PROVE IInv'
  OBVIOUS
<1>1. TypeOK /\ ScanInv
  BY DEF IInv
<1>2. TypeOK' /\ LegacyOnly'
  BY <1>1, TypeInductive, SearchStep DEF IInv, LegacyOnly
<1>3. ScanInv'
  BY <1>1, ReferencedStep, InvisibleStep, PagesStep, OrphansStep DEF ScanInv
<1>4. \A u \in Units : UnitStep(u) /\ MessageStep(u[1])
  BY <1>1, UnitSteps, MessageSteps, UnitParts
<1>5. AttemptsCounted'
  BY Zenon, <1>4, AttemptsStep DEF AttemptsCounted
<1>6. AckFinal' /\ AckedNotDead'
  BY Zenon, <1>4, AckStep, AckedStep DEF AckFinal, AckedNotDead
<1>7. OneCopy'
  BY Zenon, <1>4, CopyStep DEF OneCopy
<1>8. DeadLettersReplayable'
  BY Zenon, <1>4, ReplayableStep DEF DeadLettersReplayable
<1>9. QED
  BY <1>2, <1>3, <1>5, <1>6, <1>7, <1>8 DEF IInv

\* The inductive invariant holds in every reachable state.
LEMMA Invariant == Spec => []IInv
  BY InvInit, InvInductive, PTL DEF Spec

-----------------------------------------------------------------------------
(* Theorems *)

\* The tables, the open statements and the clients' receipts keep their types.
THEOREM TypeCorrect == Spec => []TypeOK
<1>1. IInv => TypeOK
  BY DEF IInv
<1>2. QED
  BY <1>1, Invariant, PTL

\* No subscriber gets a message more than max_retries + 1 times in one life of the unit,
\* whoever counts the attempts.
THEOREM AttemptsAreCounted == Spec => []AttemptsCounted
<1>1. IInv => AttemptsCounted
  BY DEF IInv
<1>2. QED
  BY <1>1, Invariant, PTL

\* A successful Ack of a subscriber is final until its row is replayed.
THEOREM AckIsFinal == Spec => []AckFinal
<1>1. IInv => AckFinal
  BY DEF IInv
<1>2. QED
  BY <1>1, Invariant, PTL

\* A live row or one dead letter, never both.
THEOREM OneCopyOnly == Spec => []OneCopy
<1>1. IInv => OneCopy
  BY DEF IInv
<1>2. QED
  BY <1>1, Invariant, PTL

\* Every dead letter has its message, so ReplayDLQ can replay it.
THEOREM DeadLettersKeepMessage == Spec => []DeadLettersReplayable
<1>1. IInv => DeadLettersReplayable
  BY DEF IInv
<1>2. QED
  BY <1>1, Invariant, PTL

\* The snapshot reclaimOrphanTopicMessages deletes from is never out of date, although
\* it locks neither subscriptions nor dead letters.
THEOREM OrphansAreOrphans == Spec => []OrphansStayOrphans
<1>1. IInv => OrphansStayOrphans
  BY DEF IInv, ScanInv
<1>2. QED
  BY <1>1, Invariant, PTL

\* A copy is dead-lettered after exactly max_retries + 1 deliveries to its subscriber.
THEOREM DeadLetteringIsExact == Spec => DeadLetterExact
<1>1. ASSUME IInv, [Next]_vars, NEW u \in Units, dlq'[u] > dlq[u]
      PROVE  Present(u) /\ deliv[u] = MaxRetries + 1
  BY Zenon, <1>1, UnitSteps, BuriedUnit DEF IInv
<1>2. IInv /\ [Next]_vars =>
        [\A u \in Units : dlq'[u] > dlq[u] => Present(u) /\ deliv[u] = MaxRetries + 1]_vars
  BY <1>1
<1>3. QED
  BY <1>2, Invariant, PTL DEF Spec, DeadLetterExact

\* A live claim is ended by its holder and by nobody else.
THEOREM LeaseIsProtected == Spec => LeaseProtected
<1>1. ASSUME IInv, [Next]_vars, NEW u \in Units, NEW k \in Claims,
             Matches(u, k), ~sub[u].lapsed, NotTaken(u[1])
      PROVE  Matches(u, k)' \/ receipt'[u][k] \in {"acked", "nacked"}
  BY Zenon, <1>1, UnitSteps, LeasedUnit DEF IInv
<1>2. IInv /\ [Next]_vars =>
        [\A u \in Units, k \in Claims :
           Matches(u, k) /\ ~sub[u].lapsed /\ NotTaken(u[1]) =>
             Matches(u, k)' \/ receipt'[u][k] \in {"acked", "nacked"}]_vars
  BY <1>1
<1>3. QED
  BY <1>2, Invariant, PTL DEF Spec, LeaseProtected

\* A subscriber that acked a message whose row is gone gets it again only when it is
\* published again.
THEOREM AckedNeverRedelivered == Spec => NeverRedelivered
<1>1. ASSUME IInv, [Next]_vars, NEW u \in Units, NEW k \in Claims,
             Sound(u[1]), receipt[u][k] = "acked", ~Present(u), Present(u)'
      PROVE  accepted'[u[1]] > accepted[u[1]]
  BY Zenon, <1>1, UnitSteps, AckedUnit DEF IInv
<1>2. IInv /\ [Next]_vars =>
        [\A u \in Units, k \in Claims :
           Sound(u[1]) /\ receipt[u][k] = "acked" /\ ~Present(u) /\ Present(u)' =>
              accepted'[u[1]] > accepted[u[1]]]_vars
  BY <1>1
<1>3. QED
  BY <1>2, Invariant, PTL DEF Spec, NeverRedelivered

\* The row of a subscriber that has not left is dead-lettered, given up while pending, or
\* acked and gone with its message: what others do never takes it.
THEOREM ActiveAreSpared == Spec => ActiveSpared
<1>1. ASSUME IInv, [Next]_vars, NEW u \in Units, Present(u), ~Present(u)', NotTaken(u[1])
      PROVE  \/ dlq'[u] = dlq[u] + 1
             \/ sub[u].status = "pending"
             \/ sub[u].status = "acked" /\ ~Live(u[1])'
             \/ u \in leavers /\ leavers' = {}
  <2>1. UnitStep(u) /\ ~Tears(u) /\ ~Empties(u)
    BY <1>1, UnitSteps, NotTakenUnit DEF IInv
  <2>2. Buries(u) \/ Expires(u)
    BY ZenonT(30), <1>1, <2>1 DEF UnitStep, Rests, Starts, Delivers, Acks, Releases, ExpiresDead,
       Replays, Present
  <2>3. QED
    BY Zenon, <2>2 DEF Buries, Expires
<1>2. IInv /\ [Next]_vars =>
        [\A u \in Units :
           Present(u) /\ ~Present(u)' /\ u[2] \in active /\ NotTaken(u[1]) =>
              \/ dlq'[u] = dlq[u] + 1
              \/ sub[u].status = "pending"
              \/ sub[u].status = "acked" /\ ~Live(u[1])'
              \/ u \in leavers /\ leavers' = {}]_vars
  BY <1>1
<1>3. QED
  BY <1>2, Invariant, PTL DEF Spec, ActiveSpared

\* Every transaction is, subscriber by subscriber, a step of the delivery contract, the
\* purge of a message that was replayed after it had been found finished apart.
THEOREM TopicRefinesDelivery == Spec => ImplementsContract
<1>1. Init => Contract!Init
  BY UnitParts DEF Init, Contract!Init, NoRow, Unit, Present
<1>2. ASSUME IInv, [Next]_vars, NEW u \in Units
      PROVE  \/ torn'[u[1]] # torn[u[1]]
             \/ Contract!Empty(u)
             \/ Contract!Step(u) /\ wiped'[u[1]] = wiped[u[1]]
  <2>1. UnitStep(u) /\ torn[u[1]] \in Nat /\ TypeOK
    BY ZenonT(30), <1>2, UnitSteps, BooksTyped DEF IInv
  <2>2. CASE Tears(u)
    BY <2>1, <2>2 DEF Tears
  <2>3. CASE Empties(u)
    BY <2>3, EmptiesContract
  <2>4. CASE ~Tears(u) /\ ~Empties(u)
    <3>1. wiped'[u[1]] = wiped[u[1]]
      BY <2>1, <2>4, OnlyEmptiesWipes
    <3>2. Contract!Step(u)
      BY Zenon, <1>2, <2>1, <2>4, StartsContract, DeliversContract, EndsContract,
         ExpiresContract, OthersContract DEF UnitStep, Contract!Step
    <3>3. QED
      BY <3>1, <3>2
  <2>5. QED
    BY <2>2, <2>3, <2>4
<1>3. IInv /\ [Next]_vars =>
        [\A u \in Units : \/ torn'[u[1]] # torn[u[1]]
                          \/ Contract!Empty(u)
                          \/ Contract!Step(u) /\ wiped'[u[1]] = wiped[u[1]]]_vars
  BY <1>2
<1>4. QED
  BY <1>1, <1>3, Invariant, PTL DEF Spec, ImplementsContract
=============================================================================
