--------------------------- MODULE ChannelProofs ---------------------------
(***************************************************************************)
(* Theorems about Channel, and about a call that misses its row, for every *)
(* number of messages, claims, consumers and retry caps.                   *)
(***************************************************************************)
EXTENDS ChannelSteps, ClaimMiss

\* Some leaves need more than the default time.
USE SMTT(30), ZenonT(30)

(* The inductive invariant.  DeliveryCeiling alone is not inductive: it    *)
(* does not say that retry_count agrees with the deliveries made, which is *)
(* what every decision to redeliver looks at.                              *)

IInv == TypeOK /\ AttemptsCounted /\ AckFinal /\ Conservation

\* The inductive invariant holds of freshly created tables.
LEMMA InvInit == Init => IInv
<1>1. ASSUME Init PROVE AttemptsCounted /\ AckFinal /\ Conservation
  BY <1>1 DEF Init, AttemptsCounted, AckFinal, Conservation, Present, NoRow
<1>2. QED
  BY <1>1, TypeInit DEF IInv

\* Every transaction preserves the inductive invariant: one case per thing it may do to a row.
LEMMA InvInductive == IInv /\ [Next]_vars => IInv'
<1> SUFFICES ASSUME IInv, [Next]_vars PROVE IInv'
  OBVIOUS
<1>1. TypeOK'
  BY TypeInductive DEF IInv
<1>2. ASSUME NEW m \in Ids
      PROVE  /\ msg'[m].status = "pending" => deliv'[m] = msg'[m].retry
             /\ msg'[m].status \in {"processing", "completed"} => deliv'[m] = msg'[m].retry + 1
             /\ Present(m)' => msg'[m].retry <= msg'[m].max
  <2>1. RowStep(m)
    BY RowSteps DEF IInv
  <2>2. /\ msg[m].retry \in Nat /\ msg[m].max \in Nat /\ deliv[m] \in Nat
        /\ msg[m].status = "pending" => deliv[m] = msg[m].retry
        /\ msg[m].status \in {"processing", "completed"} => deliv[m] = msg[m].retry + 1
        /\ Present(m) => msg[m].retry <= msg[m].max
    BY DEF IInv, AttemptsCounted, TypeOK, Row
  <2>3. CASE Rests(m) \/ ExpiresDead(m)
    BY <2>2, <2>3 DEF Rests, ExpiresDead, Present
  <2>4. CASE Starts(m)
    BY <2>4 DEF Starts, Present
  <2>5. CASE Delivers(m)
    BY <2>2, <2>5 DEF Delivers, TimedOut, Exhausted, Present
  <2>6. CASE Acks(m)
    BY <2>2, <2>6 DEF Acks, Matches, Present
  <2>7. CASE Releases(m)
    BY <2>2, <2>7 DEF Releases, Ends, Exhausted, Present
  <2>8. CASE Buries(m) \/ Expires(m) \/ Empties(m)
    BY <2>8 DEF Buries, Expires, Empties, Present
  <2>9. CASE Replays(m)
    BY <2>2, <2>9 DEF Replays, Present
  <2>10. QED
    BY <2>1, <2>3, <2>4, <2>5, <2>6, <2>7, <2>8, <2>9 DEF RowStep
<1>3. ASSUME NEW m \in Ids, NEW k \in Claims, receipt'[m][k] = "acked"
      PROVE  ~Present(m)' \/ (msg'[m].status = "completed" /\ msg'[m].claim = k)
  <2>1. RowStep(m)
    BY RowSteps DEF IInv
  <2>2. receipt[m][k] = "acked" =>
          ~Present(m) \/ (msg[m].status = "completed" /\ msg[m].claim = k)
    BY DEF IInv, AckFinal
  <2>3. CASE Rests(m) \/ ExpiresDead(m)
    BY <1>3, <2>2, <2>3 DEF Rests, ExpiresDead, Present
  <2>4. CASE Starts(m) \/ Replays(m)
    BY <1>3, <2>4 DEF Starts, Replays, Renewed
  <2>5. CASE Delivers(m)
    BY <1>3, <2>2, <2>5 DEF Delivers, Answered, TimedOut, Present
  <2>6. CASE Acks(m)
    BY <1>3, <2>2, <2>6 DEF Acks, Answered, Matches, Present
  <2>7. CASE Releases(m)
    BY <1>3, <2>2, <2>7 DEF Releases, Ends, Answered, Present
  <2>8. CASE Buries(m) \/ Expires(m) \/ Empties(m)
    BY <2>8 DEF Buries, Expires, Empties, Present
  <2>9. QED
    BY <2>1, <2>3, <2>4, <2>5, <2>6, <2>7, <2>8 DEF RowStep
<1>4. ASSUME NEW m \in Ids
      PROVE  accepted'[m] = (IF Present(m)' THEN 1 ELSE 0) + dlq'[m] + purged'[m] + wiped'[m]
  <2>1. RowStep(m)
    BY RowSteps DEF IInv
  <2>2. /\ accepted[m] \in Nat /\ dlq[m] \in Nat /\ purged[m] \in Nat /\ wiped[m] \in Nat
        /\ accepted[m] = (IF Present(m) THEN 1 ELSE 0) + dlq[m] + purged[m] + wiped[m]
        /\ dlq'[m] \in Nat /\ purged'[m] \in Nat /\ wiped'[m] \in Nat
    BY <1>1 DEF IInv, Conservation, TypeOK
  <2>3. CASE Rests(m) \/ ExpiresDead(m)
    BY <2>2, <2>3 DEF Rests, ExpiresDead, SameBooks, Present
  <2>4. CASE Starts(m)
    BY <2>2, <2>4 DEF Starts, Present
  <2>5. CASE Delivers(m) \/ Acks(m) \/ Releases(m) \/ Replays(m)
    BY <2>2, <2>5 DEF Delivers, Acks, Releases, Replays, Ends, Matches, TimedOut, SameBooks,
       Present
  <2>6. CASE Buries(m)
    BY <2>2, <2>6 DEF Buries, Ends, SameBooks, Present
  <2>7. CASE Expires(m)
    BY <2>2, <2>7 DEF Expires, Present
  <2>8. CASE Empties(m)
    BY <2>2, <2>8 DEF Empties, Present
  <2>9. QED
    BY <2>1, <2>3, <2>4, <2>5, <2>6, <2>7, <2>8 DEF RowStep
<1>5. AttemptsCounted' /\ AckFinal' /\ Conservation'
  BY <1>2, <1>3, <1>4 DEF AttemptsCounted, AckFinal, Conservation, Present
<1>6. QED
  BY <1>1, <1>5 DEF IInv

\* The inductive invariant holds in every reachable state.
LEMMA Invariant == Spec => []IInv
  BY InvInit, InvInductive, PTL DEF Spec

-----------------------------------------------------------------------------
(* Theorems *)

\* The tables, the calls in progress and the clients' receipts keep their types.
THEOREM TypeCorrect == Spec => []TypeOK
<1>1. IInv => TypeOK
  BY DEF IInv
<1>2. QED
  BY <1>1, Invariant, PTL

\* retry_count is the exact number of attempts on every path that raises it.
THEOREM AttemptsAreCounted == Spec => []AttemptsCounted
<1>1. IInv => AttemptsCounted
  BY DEF IInv
<1>2. QED
  BY <1>1, Invariant, PTL

\* At most max_retries + 1 deliveries, for every cap, and however many consumers and
\* collectors share the work.
THEOREM CeilingHolds == Spec => []DeliveryCeiling
<1>1. IInv => DeliveryCeiling
  BY DEF IInv, AttemptsCounted, DeliveryCeiling, Present, TypeOK, Row, Status
<1>2. QED
  BY <1>1, Invariant, PTL

\* A successful Ack is final and belongs to one receipt.
THEOREM AckIsFinal == Spec => []AckFinal
<1>1. IInv => AckFinal
  BY DEF IInv
<1>2. QED
  BY <1>1, Invariant, PTL

\* Message table, dead-letter table and retention account for every accepted message.
THEOREM NothingLost == Spec => []Conservation
<1>1. IInv => Conservation
  BY DEF IInv
<1>2. QED
  BY <1>1, Invariant, PTL

\* Dead-lettering happens after exactly max_retries + 1 deliveries, never earlier.
THEOREM DeadLetteringIsExact == Spec => DeadLetterExact
<1>1. ASSUME IInv, [Next]_vars, NEW m \in Ids, dlq'[m] > dlq[m]
      PROVE  Present(m) /\ deliv[m] = msg[m].max + 1
  <2>1. RowStep(m)
    BY <1>1, RowSteps DEF IInv
  <2>2. dlq[m] \in Nat
    BY <1>1 DEF IInv, TypeOK
  <2>3. Buries(m)
    BY <1>1, <2>1, <2>2 DEF RowStep, Rests, Starts, Delivers, Acks, Releases, Expires,
       ExpiresDead, Empties, Replays
  <2>4. /\ msg[m].retry \in Nat /\ msg[m].max \in Nat /\ deliv[m] = msg[m].retry + 1
        /\ msg[m].retry <= msg[m].max
    BY <1>1, <2>3 DEF IInv, AttemptsCounted, TypeOK, Row, Buries, Ends, Present
  <2>5. QED
    BY <2>3, <2>4 DEF Buries, Ends, Exhausted, Present
<1>2. IInv /\ [Next]_vars =>
        [\A m \in Ids : dlq'[m] > dlq[m] => Present(m) /\ deliv[m] = msg[m].max + 1]_vars
  BY <1>1
<1>3. QED
  BY <1>2, Invariant, PTL DEF Spec, DeadLetterExact

\* A claim that has not lapsed can be ended by its holder and by nobody else.
THEOREM LeaseIsProtected == Spec => LeaseProtected
<1>1. ASSUME IInv, [Next]_vars, NEW m \in Ids, NEW k \in Claims,
             Matches(m, k), ~msg[m].lapsed, wiped'[m] = wiped[m]
      PROVE  Matches(m, k)' \/ receipt'[m][k] \in {"acked", "nacked"}
  <2>1. RowStep(m)
    BY <1>1, RowSteps DEF IInv
  <2>2. CASE Rests(m) \/ ExpiresDead(m)
    BY <1>1, <2>2 DEF Rests, ExpiresDead, Matches
  <2>3. CASE Acks(m)
    BY <1>1, <2>3 DEF Acks, Answered, Matches
  <2>4. CASE Releases(m) \/ Buries(m)
    BY <1>1, <2>4 DEF Releases, Buries, Ends, Answered, Matches
  <2>5. ~Starts(m) /\ ~Delivers(m) /\ ~Expires(m) /\ ~Replays(m)
    BY <1>1 DEF Starts, Delivers, Expires, Replays, Matches, Present, TimedOut
  <2>7. ~Empties(m)
    <3>1. wiped[m] \in Nat
      BY <1>1 DEF IInv, TypeOK
    <3>2. QED
      BY <1>1, <3>1 DEF Empties
  <2>6. QED
    BY <2>1, <2>2, <2>3, <2>4, <2>5, <2>7 DEF RowStep
<1>2. IInv /\ [Next]_vars =>
        [\A m \in Ids, k \in Claims :
           Matches(m, k) /\ ~msg[m].lapsed /\ wiped'[m] = wiped[m] =>
             Matches(m, k)' \/ receipt'[m][k] \in {"acked", "nacked"}]_vars
  BY <1>1
<1>3. QED
  BY <1>2, Invariant, PTL DEF Spec, LeaseProtected

\* A fenced receipt stays fenced.
THEOREM FencingIsPermanent == Spec => FencedForever
<1>1. ASSUME IInv, [Next]_vars, NEW m \in Ids, NEW k \in Claims,
             Held(m, k), ~Matches(m, k), Held(m, k)'
      PROVE  ~Matches(m, k)'
  <2>1. RowStep(m)
    BY <1>1, RowSteps DEF IInv
  <2>2. CASE Rests(m) \/ ExpiresDead(m)
    BY <1>1, <2>2 DEF Rests, ExpiresDead, Matches
  <2>3. CASE Delivers(m)
    BY <1>1, <2>3 DEF Delivers, Held, Matches
  <2>4. CASE Starts(m)
    BY <2>4 DEF Starts, Matches
  <2>5. CASE Acks(m) \/ Releases(m) \/ Replays(m)
    BY <2>5 DEF Acks, Releases, Replays, Matches
  <2>6. CASE Buries(m) \/ Expires(m) \/ Empties(m)
    BY <2>6 DEF Buries, Expires, Empties, Present, Matches
  <2>7. QED
    BY <2>1, <2>2, <2>3, <2>4, <2>5, <2>6 DEF RowStep
<1>2. IInv /\ [Next]_vars =>
        [\A m \in Ids, k \in Claims :
           Held(m, k) /\ ~Matches(m, k) /\ Held(m, k)' => ~Matches(m, k)']_vars
  BY <1>1
<1>3. QED
  BY <1>2, Invariant, PTL DEF Spec, FencedForever

\* Only PurgeQueue adds to wiped.
LEMMA OnlyEmptiesWipes ==
  ASSUME NEW m, RowStep(m), ~Empties(m)
  PROVE  wiped'[m] = wiped[m]
  BY DEF RowStep, Rests, Starts, Delivers, Acks, Releases, Buries, Ends, Expires,
     ExpiresDead, Replays, SameBooks

\* The states of the contract's unit by the status of the row.
LEMMA UnitOf ==
  /\ Unit("absent") = "none" /\ Unit("pending") = "ready"
  /\ Unit("processing") = "held" /\ Unit("completed") = "done"
  BY DEF Unit

\* A row that PurgeQueue removes is a unit emptied.
LEMMA EmptiesContract ==
  ASSUME NEW m \in Ids, Empties(m)
  PROVE  Contract!Empty(m)
<1>1. msg'[m].status = "absent" /\ dlq'[m] = 0 /\ wiped'[m] = wiped[m] + 1
  BY DEF Empties, Present
<1>2. QED
  BY <1>1, UnitOf DEF Contract!Empty

\* A new row is a unit enqueued or exhumed.
LEMMA StartsContract ==
  ASSUME NEW m \in Ids, Starts(m), msg[m].status \in Status
  PROVE  Contract!Enqueue(m) \/ Contract!Exhume(m)
<1>1. msg[m].status = "absent" /\ msg'[m].status = "pending" /\ deliv'[m] = 0
  BY DEF Starts, Present
<1>2. CASE dlq'[m] = dlq[m]
  BY <1>1, <1>2, UnitOf DEF Contract!Enqueue, Contract!Move
<1>3. CASE dlq[m] > 0 /\ dlq'[m] = dlq[m] - 1
  BY <1>1, <1>3, UnitOf DEF Contract!Exhume, Contract!Move
<1>4. QED
  BY <1>2, <1>3 DEF Starts

\* Every transaction is, message by message, a step of the delivery contract.
THEOREM ChannelRefinesDelivery == Spec => ImplementsContract
<1>1. Init => Contract!Init
  BY DEF Init, Contract!Init, NoRow, Unit
<1>2. ASSUME IInv, [Next]_vars, NEW m \in Ids
      PROVE  Contract!Empty(m) \/ (Contract!Step(m) /\ wiped'[m] = wiped[m])
  <2> USE DEF Contract!Move, Contract!Keeps, SameBooks
  <2>1. RowStep(m)
    BY <1>2, RowSteps DEF IInv
  <2>2. /\ msg[m].retry \in Nat /\ msg[m].max \in Nat /\ deliv[m] \in Nat /\ dlq[m] \in Nat
        /\ msg[m].status \in Status
        /\ msg[m].status \in {"processing", "completed"} => deliv[m] = msg[m].retry + 1
        /\ Present(m) => msg[m].retry <= msg[m].max
    BY <1>2 DEF IInv, AttemptsCounted, TypeOK, Row
  <2>3. ASSUME Rests(m) PROVE Contract!Rest(m)
    BY <2>3 DEF Rests, Contract!Rest
  <2>4. ASSUME ExpiresDead(m) PROVE Contract!ExpireDead(m)
    BY <2>4 DEF ExpiresDead, Contract!ExpireDead
  <2>5. ASSUME Starts(m) PROVE Contract!Enqueue(m) \/ Contract!Exhume(m)
    BY <2>2, <2>5, StartsContract
  <2>6. ASSUME Delivers(m) PROVE Contract!Deliver(m) \/ Contract!Redeliver(m)
    BY UnitOf, <2>2, <2>6 DEF Delivers, TimedOut, Exhausted, Contract!Deliver, Contract!Redeliver
  <2>7. ASSUME Acks(m) PROVE Contract!Finish(m)
    BY UnitOf, <2>7 DEF Acks, Matches, Contract!Finish
  <2>8. ASSUME Releases(m) PROVE Contract!Release(m)
    BY UnitOf, <2>2, <2>8 DEF Releases, Ends, Exhausted, Contract!Release
  <2>9. ASSUME Buries(m) PROVE Contract!Bury(m)
    BY UnitOf, <2>2, <2>9 DEF Buries, Ends, Exhausted, Present, Contract!Bury
  <2>10. ASSUME Expires(m) PROVE Contract!Expire(m)
    BY UnitOf, <2>10 DEF Expires, Present, Contract!Expire
  <2>11. ASSUME Replays(m) PROVE Contract!Replay(m)
    BY UnitOf, <2>11 DEF Replays, Contract!Replay
  <2>12. ASSUME Empties(m) PROVE Contract!Empty(m)
    BY <2>12, EmptiesContract
  <2>13. ~Empties(m) => wiped'[m] = wiped[m]
    BY <2>1, OnlyEmptiesWipes
  <2>14. ~Empties(m) => Contract!Step(m)
    BY <2>1, <2>3, <2>4, <2>5, <2>6, <2>7, <2>8, <2>9, <2>10, <2>11
       DEF RowStep, Contract!Step
  <2>15. QED
    BY <2>12, <2>13, <2>14
<1>3. IInv /\ [Next]_vars => [Contract!Next]_(Contract!vars)
  BY <1>2 DEF Contract!Next
<1>4. QED
  BY <1>1, <1>3, Invariant, PTL DEF Spec, ImplementsContract, Contract!Spec

-----------------------------------------------------------------------------
(* A call whose receipt matches no row.  The invariant adds what the two   *)
(* statements of the call cannot see: whose Ack completed the row, and     *)
(* that the client still holds the receipt it asks about.                  *)

\* A pending row has no claim, and the client that holds the claim of a completed row
\* is the one whose Ack completed it.
OwnClaim ==
    \A m \in Ids :
        /\ msg[m].status = "pending" => msg[m].claim = NoClaim
        /\ \A k \in Claims :
             msg[m].status = "completed" /\ msg[m].claim = k /\ Held(m, k) => receipt[m][k] = "acked"

CallHeld ==
    call # NoCall => /\ call \in Ids \X (Claims \cup {NoClaim})
                     /\ call[2] # NoClaim => Held(call[1], call[2])

MissInv == IInv /\ OwnClaim /\ CallHeld

\* Every transaction of the channel preserves OwnClaim: one case per thing it may do to a row.
LEMMA OwnClaimStep ==
  ASSUME IInv, [Next]_vars, OwnClaim
  PROVE  OwnClaim'
<1> SUFFICES ASSUME NEW m \in Ids
             PROVE  /\ msg'[m].status = "pending" => msg'[m].claim = NoClaim
                    /\ \A k \in Claims : msg'[m].status = "completed" /\ msg'[m].claim = k
                         /\ receipt'[m][k] # "none" => receipt'[m][k] = "acked"
  BY DEF OwnClaim, Held
<1>1. RowStep(m)
  BY RowSteps DEF IInv
<1>2. /\ msg[m].status = "pending" => msg[m].claim = NoClaim
      /\ \A k \in Claims : msg[m].status = "completed" /\ msg[m].claim = k
           /\ receipt[m][k] # "none" => receipt[m][k] = "acked"
  BY DEF OwnClaim, Held
<1>3. CASE Rests(m)
  BY <1>2, <1>3 DEF Rests
<1>4. CASE ExpiresDead(m)
  BY <1>2, <1>4 DEF ExpiresDead
<1>5. CASE Acks(m)
  BY <1>5 DEF Acks, Matches, Answered
<1>6. CASE Buries(m) \/ Expires(m) \/ Empties(m)
  BY <1>6 DEF Buries, Expires, Empties, Present
<1>7. CASE Starts(m) \/ Releases(m) \/ Replays(m)
  BY <1>7 DEF Starts, Releases, Replays
<1>8. CASE Delivers(m)
  BY <1>8 DEF Delivers
<1>9. QED
  BY <1>1, <1>3, <1>4, <1>5, <1>6, <1>7, <1>8 DEF RowStep

\* The invariant of the channel together with one call between its two statements.
LEMMA MissInvariant == MissSpec => []MissInv
<1>1. MissInit => MissInv
  <2>1. Init => OwnClaim
    BY DEF Init, OwnClaim, NoRow
  <2>2. QED
    BY <2>1, InvInit DEF MissInit, MissInv, CallHeld
<1>2. MissInv /\ [MissNext]_<<vars, missVars>> => MissInv'
  <2> SUFFICES ASSUME MissInv, [MissNext]_<<vars, missVars>> PROVE MissInv'
    OBVIOUS
  <2>1. [Next]_vars
    BY DEF MissNext, StatementMisses, classifyClaimMiss, Concurrently
  <2>2. IInv' /\ OwnClaim'
    BY <2>1, InvInductive, OwnClaimStep DEF MissInv
  <2>3. ASSUME NEW m \in Ids, NEW k \in Claims \cup {NoClaim}, StatementMisses(m, k) PROVE CallHeld'
    BY <2>3 DEF StatementMisses, CallHeld, Held, vars
  <2>4. ASSUME classifyClaimMiss PROVE CallHeld'
    BY <2>4 DEF classifyClaimMiss, CallHeld
  <2>5. ASSUME Concurrently PROVE CallHeld'
    BY <2>5 DEF Concurrently, CallHeld, MissInv, Held
  <2>6. ASSUME UNCHANGED <<vars, missVars>> PROVE CallHeld'
    BY <2>6 DEF vars, missVars, CallHeld, MissInv, Held
  <2>7. QED
    BY <2>2, <2>3, <2>4, <2>5, <2>6 DEF MissNext, MissInv
<1>3. QED
  BY <1>1, <1>2, PTL DEF MissSpec

\* ErrMessageAlreadyAcked is only ever the answer to the client whose own Ack succeeded, or to
\* a caller that presented no claim (classifyClaimState).
THEOREM AlreadyAckedMeansOwnAck == MissSpec => AlreadyAckedIsOwnAck
<1>1. ASSUME MissInv, classifyClaimMiss, told' = "ErrMessageAlreadyAcked", call[2] # NoClaim
      PROVE  receipt[call[1]][call[2]] = "acked"
  <2> DEFINE m == call[1]
  <2> DEFINE k == call[2]
  <2>1. m \in Ids /\ k \in Claims /\ Held(m, k)
    BY <1>1 DEF MissInv, CallHeld, classifyClaimMiss
  <2>2. Present(m) /\ msg[m].claim = k /\ msg[m].status # "processing"
    BY <1>1 DEF classifyClaimMiss, classifyClaimState
  <2> HIDE DEF m, k
  <2>3. msg[m].status \in Status
    BY <1>1, <2>1 DEF MissInv, IInv, TypeOK, Row
  <2>4. msg[m].status = "completed"
    BY <1>1, <2>1, <2>2, <2>3, NoClaimAssumption DEF MissInv, OwnClaim, Status, Present
  <2>5. receipt[m][k] = "acked"
    BY <1>1, <2>1, <2>2, <2>4 DEF MissInv, OwnClaim
  <2>6. QED
    BY <2>5 DEF m, k
<1>2. MissInv /\ [MissNext]_<<vars, missVars>> =>
        [classifyClaimMiss /\ told' = "ErrMessageAlreadyAcked" =>
           call[2] = NoClaim \/ receipt[call[1]][call[2]] = "acked"]_<<vars, missVars>>
  BY <1>1
<1>3. QED
  BY <1>2, MissInvariant, PTL DEF MissSpec, AlreadyAckedIsOwnAck

\* The client whose Ack succeeded is never told that its claim expired, and a caller without
\* a claim is not told so either (classifyClaimState).
THEOREM ExpiryIsNeverFalse == MissSpec => NoFalseExpiry
<1>1. ASSUME MissInv, classifyClaimMiss, told' = "ErrClaimExpired"
      PROVE  call[2] \in Claims /\ receipt[call[1]][call[2]] # "acked"
  <2> DEFINE m == call[1]
  <2> DEFINE k == call[2]
  <2>1. m \in Ids /\ k \in Claims
    BY <1>1 DEF MissInv, CallHeld, classifyClaimMiss, classifyClaimState
  <2>2. Present(m) /\ ~(msg[m].claim = k /\ msg[m].status # "processing")
    BY <1>1 DEF classifyClaimMiss, classifyClaimState
  <2> HIDE DEF m, k
  <2>3. receipt[m][k] # "acked"
    BY <1>1, <2>1, <2>2 DEF MissInv, IInv, AckFinal
  <2>4. QED
    BY <2>1, <2>3 DEF m, k
<1>2. MissInv /\ [MissNext]_<<vars, missVars>> =>
        [classifyClaimMiss /\ told' = "ErrClaimExpired" =>
           call[2] \in Claims /\ receipt[call[1]][call[2]] # "acked"]_<<vars, missVars>>
  BY <1>1
<1>3. QED
  BY <1>2, MissInvariant, PTL DEF MissSpec, NoFalseExpiry
=============================================================================
