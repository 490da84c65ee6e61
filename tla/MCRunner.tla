------------------------------ MODULE MCRunner ------------------------------
(* Runner on small instances for TLC. *)
EXTENDS Runner, TLC

Symmetry == Permutations(Sources) \cup Permutations(Threads)

=============================================================================
