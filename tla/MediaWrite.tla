----------------------------- MODULE MediaWrite -----------------------------
(***************************************************************************)
(* The media writer's program as the child of a run: drive discovery and   *)
(* the whole-device write of providers/media-etcher/src/physical-cli.ts    *)
(* and physical-engine.ts.                                                 *)
(*                                                                         *)
(* One USB port, whose drive a person may pull or swap at any moment.  The *)
(* writer looks for the approved drive again before it locks its volumes,  *)
(* after that, and once more while it holds the opened device, because the *)
(* device path it opens names whatever drive is there at that moment.      *)
(***************************************************************************)
EXTENDS ProviderRun

CONSTANTS
  Selected,   \* the drive the user chose
  Other,      \* another one
  NoDrive,    \* an empty port
  MaxSwaps    \* how often the port changes

ASSUME DrivesAssumption == Selected # Other /\ NoDrive \notin {Selected, Other}
ASSUME MaxSwapsAssumption == MaxSwaps \in Nat

VARIABLES
  slot,       \* what is plugged in
  swaps,      \* how often that has changed
  image,      \* what each drive holds as a whole
  writer,     \* how far the write has come
  handle,     \* the drive behind the opened device, if it is still there
  report      \* what the last completion record says

mediaVars == <<slot, swaps, image, writer, handle, report>>

Drives == {Selected, Other}
Phases == {"off", "start", "checked", "locked", "opened", "held", "written",
           "verified", "released", "told"}

MediaTypeOK ==
  /\ slot \in Drives \cup {NoDrive}
  /\ swaps \in 0..MaxSwaps
  /\ image \in [Drives -> {"user", "partial", "installer"}]
  /\ writer \in Phases
  /\ handle \in Drives \cup {NoDrive}
  /\ report \in Drives \cup {NoDrive}

MediaInit ==
  /\ slot = Selected
  /\ swaps = 0
  /\ image = [d \in Drives |-> "user"]
  /\ writer = "off"
  /\ handle = NoDrive
  /\ report = NoDrive

-----------------------------------------------------------------------------
(* The port *)

\* Someone pulls the drive or plugs in another; an open device dies with it.
Swap(d) ==
  /\ swaps < MaxSwaps
  /\ d # slot
  /\ slot' = d
  /\ swaps' = swaps + 1
  /\ handle' = NoDrive
  /\ UNCHANGED <<image, writer, report>>

-----------------------------------------------------------------------------
(* Discovery *)

\* The list answers with the drives it sees; the helper looks for one.
AnswerList ==
  /\ mode = List
  /\ Says("result")
  /\ report' = slot
  /\ UNCHANGED <<slot, swaps, image, writer, handle>>

-----------------------------------------------------------------------------
(* The write *)

Writing == child = "running" /\ mode = Write

Terminal == said # <<>>

Reidentified == slot = Selected

\* physical-cli: the first command starts the write.
Begin ==
  /\ Writing
  /\ writer = "start"
  /\ Reidentified
  /\ writer' = "checked"
  /\ UNCHANGED <<runVars, slot, swaps, image, handle, report>>

LockVolumes ==
  /\ Writing
  /\ writer = "checked"
  /\ Reidentified
  /\ writer' = "locked"
  /\ UNCHANGED <<runVars, slot, swaps, image, handle, report>>

\* Opens the device by its path, then looks at geometry and node.
OpenDevice ==
  /\ Writing
  /\ writer = "locked"
  /\ slot # NoDrive
  /\ handle' = slot
  /\ writer' = "opened"
  /\ UNCHANGED <<runVars, slot, swaps, image, report>>

\* Mutant: the drive is not looked for again once its device is open.
HoldDevice_trusting ==
  /\ Writing
  /\ writer = "opened"
  /\ handle # NoDrive
  /\ writer' = "held"
  /\ UNCHANGED <<runVars, slot, swaps, image, handle, report>>

\* While it holds the device: the port must show the approved drive still.
HoldDevice ==
  /\ Writing
  /\ writer = "opened"
  /\ handle # NoDrive
  /\ Reidentified
  /\ writer' = "held"
  /\ UNCHANGED <<runVars, slot, swaps, image, handle, report>>

Put ==
  /\ Writing
  /\ writer = "held"
  /\ handle # NoDrive
  /\ image' = [image EXCEPT ![handle] = "partial"]
  /\ writer' = "written"
  /\ UNCHANGED <<runVars, slot, swaps, handle, report>>

\* Mutant: what was written is not read again.
ReadBack_skipped ==
  /\ Writing
  /\ writer = "written"
  /\ handle # NoDrive
  /\ writer' = "verified"
  /\ UNCHANGED <<runVars, slot, swaps, image, handle, report>>

\* The last chunk, the SDK's verification, the flush and the full readback.
ReadBack ==
  /\ Writing
  /\ writer = "written"
  /\ handle # NoDrive
  /\ image' = [image EXCEPT ![handle] = "installer"]
  /\ writer' = "verified"
  /\ UNCHANGED <<runVars, slot, swaps, handle, report>>

\* The source is read again, then the device and the volumes are let go.
Release ==
  /\ Writing
  /\ writer = "verified"
  /\ handle # NoDrive
  /\ handle' = NoDrive
  /\ writer' = "released"
  /\ UNCHANGED <<runVars, slot, swaps, image, report>>

\* Ejection may fail without failing the write.
Receipt ==
  /\ Writing
  /\ writer = "released"
  /\ Says("result")
  /\ report' = Selected
  /\ writer' = "told"
  /\ UNCHANGED <<slot, swaps, image, handle>>

\* A completion record is the last thing it says; then it exits.
Exit ==
  /\ Writing
  /\ writer = "told"
  /\ child' = "good"
  /\ writer' = "off"
  /\ UNCHANGED <<mode, loop, said, heard, told, hardStop, got,
                 slot, swaps, image, handle, report>>

\* fail() in the program: one error record unless it has already spoken, and
\* the process ends, which closes the device.
Fail ==
  /\ said' = IF Terminal THEN said ELSE Append(said, "error")
  /\ child' = "bad"
  /\ writer' = "off"
  /\ handle' = NoDrive
  /\ UNCHANGED <<mode, loop, heard, told, hardStop, got,
                 slot, swaps, image, report>>

\* A check, a read, a write, the lock or the readback fails.
WriteFails == Writing /\ writer \notin {"off", "told"} /\ Fail

\* The abort frame reaches the program, whatever it is doing.
Aborted == Writing /\ "abort" \in told /\ Fail

WriterStep ==
  \/ Begin \/ LockVolumes \/ OpenDevice \/ HoldDevice \/ Put \/ ReadBack
  \/ Release \/ Receipt \/ Exit \/ WriteFails \/ Aborted
=============================================================================
