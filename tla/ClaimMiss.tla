----------------------------- MODULE ClaimMiss -----------------------------
(***************************************************************************)
(* A settling call whose receipt matches no row.  Ack, Nack, their batch   *)
(* forms and ExtendVisibility first run the statement that should match,   *)
(* and when it matches nothing read the row again to tell the caller why.  *)
(* Both statements are in one transaction, but the transaction is READ     *)
(* COMMITTED and the first one locked nothing, so everything the channel   *)
(* does can come between them.                                             *)
(*                                                                         *)
(* A receipt is one that a delivery minted, or one with the zero ClaimID,  *)
(* made up by a caller that never received the message: NoClaim.           *)
(***************************************************************************)
EXTENDS Channel

CONSTANT NoCall  \* no call is between its two statements

ASSUME NoCallAssumption == NoCall \notin Ids \X (Claims \cup {NoClaim})

VARIABLES
    call,     \* the receipt of the call that is between its two statements
    missedAs, \* how the row the first statement saw would have been classified
    told      \* the error such a call returned just now

missVars == <<call, missedAs, told>>

\* Fault: completed rows are recognised by their status alone.
classifyByStatus(m, k) ==
    IF ~Present(m) THEN "ErrMessageNotFound"
    ELSE IF k = NoClaim \/ msg[m].status # "processing" THEN "ErrMessageAlreadyAcked"
    ELSE "ErrClaimExpired"

\* Fault: the row's own claim is not recognised once the row is completed.
classifyByClaim(m, k) ==
    IF ~Present(m) THEN "ErrMessageNotFound"
    ELSE IF k = NoClaim THEN "ErrMessageAlreadyAcked"
    ELSE "ErrClaimExpired"

classifyClaimState(m, k) ==
    IF ~Present(m) THEN "ErrMessageNotFound"
    ELSE IF k = NoClaim THEN "ErrMessageAlreadyAcked"
    ELSE IF msg[m].claim = k /\ msg[m].status # "processing" THEN "ErrMessageAlreadyAcked"
    ELSE "ErrClaimExpired"

MissInit == Init /\ call = NoCall /\ missedAs = "none" /\ told = "none"

\* The UPDATE (or SELECT ... FOR UPDATE) affects no row: the receipt does not match, as the
\* zero ClaimID never does.
StatementMisses(m, k) ==
    /\ call = NoCall
    /\ k # NoClaim => Held(m, k) /\ ~Matches(m, k)
    /\ call' = <<m, k>>
    /\ missedAs' = classifyClaimState(m, k)
    /\ told' = "none"
    /\ UNCHANGED vars

classifyClaimMiss ==
    /\ call # NoCall
    /\ told' = classifyClaimState(call[1], call[2])
    /\ call' = NoCall /\ missedAs' = "none"
    /\ UNCHANGED vars

\* The rest of the channel; the client does not drop a receipt it is using.
Concurrently ==
    /\ Next
    /\ told' = "none" /\ UNCHANGED <<call, missedAs>>
    /\ (call # NoCall /\ call[2] # NoClaim => Held(call[1], call[2]))'

MissNext ==
    \/ \E m \in Ids, k \in Claims \cup {NoClaim} : StatementMisses(m, k)
    \/ classifyClaimMiss
    \/ Concurrently

MissSpec == MissInit /\ [][MissNext]_<<vars, missVars>>

\* Retrying an Ack whose answer was lost is safe to interpret: ErrMessageAlreadyAcked
\* is returned only to the client whose own Ack completed the message, so it can count
\* as success; a client whose message another consumer finished is never told so.  The
\* one other caller that gets it presented no claim at all.
AlreadyAckedIsOwnAck ==
    [][classifyClaimMiss /\ told' = "ErrMessageAlreadyAcked" =>
         call[2] = NoClaim \/ receipt[call[1]][call[2]] = "acked"]_<<vars, missVars>>

\* The client whose Ack succeeded is never told on a retry that its claim expired, so
\* it never concludes that its finished work will be redelivered; and only a claim that
\* some delivery minted is ever called expired.
NoFalseExpiry ==
    [][classifyClaimMiss /\ told' = "ErrClaimExpired" =>
         call[2] \in Claims /\ receipt[call[1]][call[2]] # "acked"]_<<vars, missVars>>

\* The comment of ackChannel: the classifying SELECT "observes the same snapshot as
\* the failed UPDATE", so nothing that happens in between changes the error.
SameSnapshot == [][classifyClaimMiss => told' = missedAs]_<<vars, missVars>>

=============================================================================
