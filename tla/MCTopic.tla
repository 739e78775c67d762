------------------------------ MODULE MCTopic ------------------------------
(* Instances of Topic for TLC. *)
EXTENDS TopicContract, TLC

\* Claim tokens, subscribers and replayers are interchangeable.
Interchangeable == Permutations(Claims) \cup Permutations(Subs) \cup Permutations(Replayers)

=============================================================================
