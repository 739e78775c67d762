----------------------------- MODULE MCChannel -----------------------------
(* Instances of ChannelProgress for TLC. *)
EXTENDS ChannelProgress, TLC

\* Claim tokens and Receive calls are interchangeable.
Interchangeable == Permutations(Claims) \cup Permutations(Consumers)

=============================================================================
