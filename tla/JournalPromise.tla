--------------------------- MODULE JournalPromise ---------------------------
(***************************************************************************)
(* What an operation journal promises its reader, whatever crashes and     *)
(* failed writes the files behind it go through: the operation starts      *)
(* once, each step passes its three checkpoints in order, an end is final, *)
(* and nothing that was acknowledged is ever taken back.                   *)
(***************************************************************************)
EXTENDS Naturals

CONSTANTS Steps, Outcomes

VARIABLES
  started,  \* the operation is recorded as started
  passed,   \* how many checkpoints each step has passed
  ended     \* the recorded terminal states: none, or the one

vars == <<started, passed, ended>>

Init == started = FALSE /\ passed = [s \in Steps |-> 0] /\ ended = {}

Start ==
  /\ ~started /\ started' = TRUE
  /\ UNCHANGED <<passed, ended>>

Pass(s) ==
  /\ started /\ ended = {}
  /\ passed[s] < 3
  /\ passed' = [passed EXCEPT ![s] = @ + 1]
  /\ UNCHANGED <<started, ended>>

Finish(o) ==
  /\ started /\ ended = {}
  /\ ended' = {o}
  /\ UNCHANGED <<started, passed>>

Next == Start \/ (\E s \in Steps : Pass(s)) \/ (\E o \in Outcomes : Finish(o))

Spec == Init /\ [][Next]_vars
=============================================================================
