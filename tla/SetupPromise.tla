---------------------------- MODULE SetupPromise ----------------------------
(***************************************************************************)
(* What a setup operation promises its user, whatever the threads, pipes   *)
(* and processes behind it do: operations run one at a time, nothing is    *)
(* changed before its plan is approved, and a Stop accepted before the     *)
(* approval means that nothing is changed.                                 *)
(***************************************************************************)
CONSTANTS Checks, Changes, NoOp

VARIABLES
  current,       \* the operation the window shows, or NoOp
  left,          \* the desktop has ended
  approved,      \* operations whose plan the user approved
  stoppedEarly,  \* operations stopped before they were approved
  applied        \* operations that began to change something

vars == <<current, left, approved, stoppedEarly, applied>>

Init ==
  /\ current = NoOp /\ left = FALSE
  /\ approved = {} /\ stoppedEarly = {} /\ applied = {}

Start(o) ==
  /\ ~left /\ current = NoOp
  /\ o \notin approved \cup stoppedEarly \cup applied
  /\ current' = o
  /\ UNCHANGED <<left, approved, stoppedEarly, applied>>

Stop ==
  /\ current # NoOp /\ current \notin approved
  /\ stoppedEarly' = stoppedEarly \cup {current}
  /\ UNCHANGED <<current, left, approved, applied>>

Approve ==
  /\ current \in Changes
  /\ approved' = approved \cup {current}
  /\ UNCHANGED <<current, left, stoppedEarly, applied>>

(* Only the operation shown changes anything; once the desktop is gone, the *)
(* one it left behind may still do what was approved.                       *)
Apply(o) ==
  /\ left \/ o = current
  /\ o \in approved \ stoppedEarly
  /\ o \notin applied
  /\ applied' = applied \cup {o}
  /\ UNCHANGED <<current, left, approved, stoppedEarly>>

End ==
  /\ current # NoOp
  /\ current' = NoOp
  /\ UNCHANGED <<left, approved, stoppedEarly, applied>>

Leave ==
  /\ ~left /\ left' = TRUE /\ current' = NoOp
  /\ UNCHANGED <<approved, stoppedEarly, applied>>

Next == Stop \/ Approve \/ End \/ Leave
          \/ \E o \in Checks \cup Changes : Start(o) \/ Apply(o)

Spec == Init /\ [][Next]_vars
=============================================================================
