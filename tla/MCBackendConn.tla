---------------------------- MODULE MCBackendConn ---------------------------
(* Instances of BackendConn for TLC. *)
EXTENDS BackendConn, TLC

Symmetry == Permutations(Clients)
=============================================================================
