-------------------------------- MODULE Fake --------------------------------
(***************************************************************************)
(* The in-memory test double, src/fake/fake.go: one channel, or one topic  *)
(* whose subscribers each have a queue of their own; a channel is the case *)
(* of one queue that is always there.  Every method holds the mutex from   *)
(* end to end.  Payloads are left out, and so is the order of pending: a   *)
(* Receive may get any pending entry.                                      *)
(***************************************************************************)
EXTENDS Naturals

CONSTANTS
    Subs,       \* subscriber queues; one for a channel
    Ids,        \* message ids
    Claims,     \* claim ids
    NoClaim

VARIABLES
    maxRetries, \* WithMaxRetries
    subs,       \* queues that exist
    paused,
    at,         \* per unit: absent, or the collection its entry is in; "acked" when an Ack removed it
    claimID, retryCount,    \* fields of the entry
    used,       \* claim ids handed out
    deliv       \* ghost: deliveries since the entry was published

vars == <<maxRetries, subs, paused, at, claimID, retryCount, used, deliv>>
entries == <<at, claimID, retryCount, used, deliv>>

Units == Subs \X Ids

Init ==
    /\ maxRetries \in Nat
    /\ subs \in SUBSET Subs
    /\ paused = FALSE
    /\ at = [u \in Units |-> "absent"]
    /\ claimID = [u \in Units |-> NoClaim]
    /\ retryCount = [u \in Units |-> 0]
    /\ used = {}
    /\ deliv = [u \in Units |-> 0]

Subscribe(s) ==
    /\ subs' = subs \cup {s}
    /\ UNCHANGED <<maxRetries, paused, entries>>

setPaused(p) ==
    /\ paused' = p
    /\ UNCHANGED <<maxRetries, subs, entries>>

hasMessage(u) == at[u] \in {"pending", "claimed", "dlq"}

\* One entry for each queue, unless one of them still has the id.
Publish(m) ==
    LET new == {u \in Units : u[1] \in subs /\ u[2] = m} IN
    /\ \A u \in new : ~hasMessage(u)
    /\ at' = [u \in Units |-> IF u \in new THEN "pending" ELSE at[u]]
    /\ claimID' = [u \in Units |-> IF u \in new THEN NoClaim ELSE claimID[u]]
    /\ retryCount' = [u \in Units |-> IF u \in new THEN 0 ELSE retryCount[u]]
    /\ deliv' = [u \in Units |-> IF u \in new THEN 0 ELSE deliv[u]]
    /\ UNCHANGED <<maxRetries, subs, paused, used>>

\* ReceiveChannel and ReceiveTopic.
claim(u, k) ==
    /\ ~paused /\ u[1] \in subs
    /\ at[u] = "pending" /\ k \notin used
    /\ at' = [at EXCEPT ![u] = "claimed"]
    /\ claimID' = [claimID EXCEPT ![u] = k]
    /\ used' = used \cup {k}
    /\ deliv' = [deliv EXCEPT ![u] = @ + 1]
    /\ UNCHANGED <<maxRetries, subs, paused, retryCount>>

Owns(u, k) == at[u] = "claimed" /\ claimID[u] = k

Ack(u, k) ==
    /\ Owns(u, k)
    /\ at' = [at EXCEPT ![u] = "acked"]
    /\ UNCHANGED <<maxRetries, subs, paused, claimID, retryCount, used, deliv>>

Nack(u, k) ==
    /\ Owns(u, k)
    /\ IF retryCount[u] + 1 > maxRetries
         THEN /\ at' = [at EXCEPT ![u] = "dlq"]
              /\ UNCHANGED <<claimID, retryCount>>
         ELSE /\ at' = [at EXCEPT ![u] = "pending"]
              /\ claimID' = [claimID EXCEPT ![u] = NoClaim]
              /\ retryCount' = [retryCount EXCEPT ![u] = @ + 1]
    /\ UNCHANGED <<maxRetries, subs, paused, used, deliv>>

Next ==
    \/ \E s \in Subs : Subscribe(s)
    \/ \E p \in BOOLEAN : setPaused(p)
    \/ \E m \in Ids : Publish(m)
    \/ \E u \in Units, k \in Claims : claim(u, k) \/ Ack(u, k) \/ Nack(u, k)

Spec == Init /\ [][Next]_vars

-----------------------------------------------------------------------------
\* Entries are counted: retryCount tells how often an entry was delivered, and stays
\* within the limit.
FakeInv ==
    /\ maxRetries \in Nat
    /\ at \in [Units -> {"absent", "pending", "claimed", "dlq", "acked"}]
    /\ retryCount \in [Units -> Nat] /\ deliv \in [Units -> Nat]
    /\ claimID \in [Units -> Claims \cup {NoClaim}]
    /\ \A u \in Units :
         /\ retryCount[u] <= maxRetries
         /\ at[u] = "pending" => deliv[u] = retryCount[u]
         /\ at[u] \in {"claimed", "dlq"} => deliv[u] = retryCount[u] + 1

Unit(where) ==
    CASE where = "pending" -> "ready"
      [] where = "claimed" -> "held"
      [] where = "acked" -> "done"
      [] OTHER -> "none"

Contract == INSTANCE Delivery WITH
    st <- [u \in Units |-> Unit(at[u])],
    attempts <- deliv,
    cap <- [u \in Units |-> IF Unit(at[u]) = "none" THEN 0 ELSE maxRetries],
    dead <- [u \in Units |-> IF at[u] = "dlq" THEN 1 ELSE 0],
    forsaken <- {},
    emptied <- [u \in Units |-> 0]

\* The fake keeps the delivery contract of the real queue ("reproduces the documented queue
\* semantics ... retry with DLQ promotion at exactly max-retries").  An id that is published
\* again after its Ack, which the fake accepts, is a replay in the contract.
ImplementsContract == Contract!Spec

=============================================================================
