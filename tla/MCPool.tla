------------------------------- MODULE MCPool -------------------------------
(* Instances of Pool for TLC. *)
EXTENDS Pool, TLC

Symmetry == Permutations(Acquirers) \cup Permutations(Conns)
=============================================================================
