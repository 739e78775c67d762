-------------------------- MODULE ChannelProgress --------------------------
(***************************************************************************)
(* Progress of a channel.  A Receive call looks for a pending row first    *)
(* and for a timed-out row only when it finds none, so whether a timed-out *)
(* message is ever reclaimed depends on the traffic around it.  Channel    *)
(* bounds the messages it publishes; the unbounded rest of the traffic is  *)
(* one bit here: some pending row of another message is there to be        *)
(* delivered, or none is.                                                  *)
(***************************************************************************)
EXTENDS Channel

VARIABLE backlog  \* other publishers' messages: one is pending and ready

progressVars == <<vars, backlog>>

\* Other messages are published and become ready, and others' consumers deliver them.
OtherTraffic == backlog' = ~backlog /\ UNCHANGED vars

ProgressInit == Init /\ backlog \in BOOLEAN

ProgressNext == OtherTraffic \/ (Next /\ UNCHANGED backlog)

-----------------------------------------------------------------------------
(* Fairness.  The application polls: a call that was admitted ends, and a  *)
(* call is admitted when the channel is not paused.  Time passes.  Nothing *)
(* is assumed of handlers (they may crash without ack or nack) nor of the  *)
(* garbage collector (it need not run).  Tokens never run out: those that  *)
(* no longer match are given back to the finite set Claims.                *)

\* fetchPendingChannelMessage comes to row m: by probe A, which orders pending rows by
\* available_at so that what is published later comes later, or by probe B, which runs
\* only after probe A found no pending row.
ProbesReach(m) ==
    Deliverable(m) \/ (~backlog /\ \A o \in Ids : ~Deliverable(o))

\* A call that delivers or skips the row.
Reached(m) ==
    /\ ProbesReach(m)
    /\ \E c \in Consumers, b \in Backoff :
        \/ \E skip \in SUBSET Ids : m \in skip /\ ReceiveEmpty(c, b, skip)
        \/ \E k \in Claims, n \in {msg[m].retry, msg[m].retry + 1} :
              ReceiveMessage(c, b, {}, m, k, n)
    /\ UNCHANGED backlog

Fairness ==
    /\ \A c \in Consumers : WF_progressVars(Admit(c) /\ UNCHANGED backlog)
    /\ \A m \in Ids :
        /\ SF_progressVars(Reached(m))
        /\ WF_progressVars(VisibilityLapses(m) /\ UNCHANGED backlog)
        /\ WF_progressVars(BackoffElapses(m) /\ UNCHANGED backlog)
        /\ \A k \in Claims :
              WF_progressVars(~Matches(m, k) /\ Forget(m, k) /\ UNCHANGED backlog)

FairSpec == ProgressInit /\ [][ProgressNext]_progressVars /\ Fairness

Undelivered(m) == msg[m].status \in {"pending", "processing"}

Meddling == Replaying \/ \E m \in Ids, k \in Claims : extendChannelVisibility(m, k)

\* A Receive call is under way while no other message is pending.
Unhurried == admitted # {} /\ ~backlog

\* Unless the channel is paused for good, replayed for ever, its message held for ever by
\* extensions or past its TTL, and unless publishers keep a pending row before every
\* Receive call from some time on (a timed-out row is then never probed), a message does
\* not stay undelivered: it is completed, dead-lettered or purged, although every consumer
\* that gets it may crash and no collector ever runs.
EventuallySettled ==
    <>[]~paused /\ <>[][~Meddling]_vars /\ []<>Unhurried =>
        \A m \in Ids : [](Undelivered(m) => <>(~Undelivered(m) \/ ~msg[m].fresh))

=============================================================================
