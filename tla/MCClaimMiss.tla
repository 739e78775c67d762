---------------------------- MODULE MCClaimMiss ----------------------------
(* Instances of ClaimMiss for TLC. *)
EXTENDS ClaimMiss, TLC

Interchangeable == Permutations(Claims) \cup Permutations(Consumers)

=============================================================================
