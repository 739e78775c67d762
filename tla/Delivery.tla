------------------------------ MODULE Delivery ------------------------------
(***************************************************************************)
(* What pgqueue promises about one delivery unit, whatever tables hold it: *)
(* a message of a channel, or the copy of a topic message owed to one      *)
(* subscriber.  A unit is delivered at least once and at most cap + 1      *)
(* times; between deliveries it is ready or held, never dropped; it leaves *)
(* by being finished, by being dead-lettered after exactly cap + 1         *)
(* attempts, or because a retention policy removes it while nobody holds   *)
(* it or is expected to.  An operator can replay what is not held, and can *)
(* empty the queue.                                                        *)
(*                                                                         *)
(* One transaction may move many units at once, so a step of the system    *)
(* is a step or a stutter of every unit.                                   *)
(***************************************************************************)
EXTENDS Naturals

CONSTANT Units

VARIABLES
    st,       \* "none", "ready", "held" or "done"
    attempts, \* deliveries in this life of the unit
    cap,      \* redeliveries allowed in this life
    dead,     \* dead-lettered copies
    forsaken, \* units whose last holder is gone for good
    emptied   \* times an operator removed the unit with everything else

vars == <<st, attempts, cap, dead, emptied>>

Init ==
    /\ st = [u \in Units |-> "none"]
    /\ attempts = [u \in Units |-> 0]
    /\ cap = [u \in Units |-> 0]
    /\ dead = [u \in Units |-> 0]
    /\ emptied = [u \in Units |-> 0]

Move(u, from, to) == st[u] \in from /\ st'[u] = to

Keeps(u) == cap'[u] = cap[u] /\ dead'[u] = dead[u]

Enqueue(u) ==
    /\ Move(u, {"none"}, "ready")
    /\ attempts'[u] = 0
    /\ dead'[u] = dead[u]

Exhume(u) ==
    /\ Move(u, {"none"}, "ready")
    /\ attempts'[u] = 0
    /\ dead[u] > 0 /\ dead'[u] = dead[u] - 1

Deliver(u) ==
    /\ Move(u, {"ready"}, "held")
    /\ attempts'[u] = attempts[u] + 1
    /\ Keeps(u)

\* The holder let its claim lapse: the unit passes to another holder at once.
Redeliver(u) ==
    /\ Move(u, {"held"}, "held")
    /\ attempts[u] <= cap[u]
    /\ attempts'[u] = attempts[u] + 1
    /\ Keeps(u)

Release(u) ==
    /\ Move(u, {"held"}, "ready")
    /\ attempts[u] <= cap[u]
    /\ attempts'[u] = attempts[u]
    /\ Keeps(u)

Finish(u) ==
    /\ Move(u, {"held"}, "done")
    /\ attempts'[u] = attempts[u]
    /\ Keeps(u)

Bury(u) ==
    /\ Move(u, {"held"}, "none")
    /\ attempts[u] = cap[u] + 1
    /\ dead'[u] = dead[u] + 1

Replay(u) ==
    /\ Move(u, {"ready", "done"}, "ready")
    /\ attempts'[u] = 0
    /\ Keeps(u)

Expire(u) ==
    /\ Move(u, {"ready", "done"}, "none")
    /\ dead'[u] = dead[u]

Forsake(u) ==
    /\ Move(u, {"held"}, "none")
    /\ u \in forsaken
    /\ dead'[u] = dead[u]

ExpireDead(u) ==
    /\ st'[u] = st[u] /\ attempts'[u] = attempts[u] /\ cap'[u] = cap[u]
    /\ dead'[u] \in 0..(dead[u] - 1)

Empty(u) ==
    /\ st'[u] = "none" /\ dead'[u] = 0
    /\ emptied'[u] = emptied[u] + 1

Rest(u) ==
    /\ st'[u] = st[u] /\ attempts'[u] = attempts[u]
    /\ Keeps(u)

Step(u) ==
    \/ Enqueue(u) \/ Exhume(u) \/ Deliver(u) \/ Redeliver(u) \/ Release(u)
    \/ Finish(u) \/ Bury(u) \/ Replay(u) \/ Expire(u) \/ Forsake(u)
    \/ ExpireDead(u) \/ Rest(u)

Next == \A u \in Units : Empty(u) \/ (Step(u) /\ emptied'[u] = emptied[u])

Spec == Init /\ [][Next]_vars

=============================================================================
