----------------------------- MODULE MCListener -----------------------------
(* Instances of Listener for TLC. *)
EXTENDS Listener, TLC

\* Listen calls are interchangeable, and so are channels.
Interchangeable == Permutations(Calls) \cup Permutations(Channels)

=============================================================================
