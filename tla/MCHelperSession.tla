-------------------------- MODULE MCHelperSession --------------------------
(* Small instances of HelperSession for TLC. *)
EXTENDS HelperSession, TLC

Symmetry == Permutations(Helpers) \cup Permutations(Checks) \cup Permutations(Changes)
=============================================================================
