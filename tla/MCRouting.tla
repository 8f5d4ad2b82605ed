----------------------------- MODULE MCRouting ------------------------------
(* Instances of RoutingSession for TLC. *)
EXTENDS RoutingSession, TLC

\* Sessions are interchangeable, and so are replicas.
Symmetry == Permutations(Sessions) \cup Permutations(Replicas)
=============================================================================
