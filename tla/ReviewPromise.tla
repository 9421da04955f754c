--------------------------- MODULE ReviewPromise ---------------------------
(***************************************************************************)
(* What the review of a USB write promises the user: a drive is written    *)
(* only by the request of the review the window showed last, while it is   *)
(* good, and one review starts one write.                                  *)
(***************************************************************************)
CONSTANTS Requests, NoRequest

VARIABLES
  shown,     \* the request of the review that can be confirmed
  taken,     \* the request that is being carried out
  approved   \* its plan was approved to the helper

vars == <<shown, taken, approved>>

Init == shown = NoRequest /\ taken = NoRequest /\ ~approved

Show ==
  /\ taken = NoRequest
  /\ \E r \in Requests : shown' = r
  /\ UNCHANGED <<taken, approved>>

(* Dismissed, expired, refused or overtaken by another operation.           *)
Withdraw == shown' = NoRequest /\ UNCHANGED <<taken, approved>>

Take ==
  /\ shown # NoRequest /\ taken = NoRequest
  /\ taken' = shown
  /\ shown' = NoRequest
  /\ UNCHANGED approved

Approve ==
  /\ taken # NoRequest /\ ~approved
  /\ approved' = TRUE
  /\ UNCHANGED <<shown, taken>>

End ==
  /\ taken # NoRequest
  /\ taken' = NoRequest
  /\ approved' = FALSE
  /\ UNCHANGED shown

Next == Show \/ Withdraw \/ Take \/ Approve \/ End

Spec == Init /\ [][Next]_vars
=============================================================================
