---------------------------- MODULE MCSetupState ----------------------------
(* Small instances of SetupState for TLC. *)
EXTENDS SetupState, TLC

Symmetry == Permutations(Plans) \cup Permutations(Images)
=============================================================================
