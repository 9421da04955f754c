----------------------------- MODULE MCJournal -----------------------------
(* Small instances of Journal for TLC. *)
EXTENDS Journal, TLC

Symmetry == Permutations(Steps) \cup Permutations(Outcomes)
=============================================================================
