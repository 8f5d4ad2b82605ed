----------------------------- MODULE MCRegistry -----------------------------
(* Instances of Registry for TLC. *)
EXTENDS Registry

CONSTANTS pri, r1

Both == <<pri, r1>>
PrimaryOnly == {<<pri>>}
Same == {<<pri, r1>>}
=============================================================================
