--------------------------- MODULE TopicContract ---------------------------
(***************************************************************************)
(* The topic implements the delivery contract, the pair of a message and a *)
(* subscriber being the unit.                                              *)
(***************************************************************************)
EXTENDS Topic

Unit(status) ==
    CASE status = "absent" -> "none"
      [] status = "pending" -> "ready"
      [] status = "processing" -> "held"
      [] status = "acked" -> "done"

Contract == INSTANCE Delivery WITH
    st <- [u \in Units |-> Unit(sub[u].status)],
    attempts <- deliv,
    cap <- [u \in Units |-> IF Present(u) THEN MaxRetries ELSE 0],
    dead <- dlq,
    forsaken <- {u \in leavers : sub[u].lapsed},
    emptied <- [u \in Units |-> wiped[u[1]]]

\* Every transaction moves each unit along the edges of the contract, except that the
\* purge of a message that was replayed after it had been found finished takes its units.
ImplementsContract ==
    Contract!Init /\
    [][\A u \in Units : \/ torn'[u[1]] # torn[u[1]]
                        \/ Contract!Empty(u)
                        \/ Contract!Step(u) /\ wiped'[u[1]] = wiped[u[1]]]_vars

=============================================================================
