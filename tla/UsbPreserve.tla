----------------------------- MODULE UsbPreserve -----------------------------
(***************************************************************************)
(* Adding the installer to a USB drive beside the files it holds:          *)
(* apps/desktop/src-tauri/src/usb_preserve.rs.                             *)
(*                                                                         *)
(* The helper does this itself, file by file.  What matters is the order:  *)
(* the previous boot loader is saved and recorded, the image is copied and *)
(* read back, the configuration is written, and only then the boot file is *)
(* replaced.  Each step can fail; one that creates a file can leave it     *)
(* torn.  Someone else may change the boot file at any moment, and the     *)
(* drive may be pulled.                                                    *)
(***************************************************************************)
EXTENDS MediaWrite

CONSTANT MaxForeign      \* how often another program changes the boot file

ASSUME MaxForeignAssumption == MaxForeign \in Nat

VARIABLES
  stick,      \* the files that count on the selected drive
  plan,       \* what the inspection the user approved saw of them
  step,       \* how far the installation is
  foreign     \* how often the boot file was changed by someone else

preserveVars == <<stick, plan, step, foreign>>

\* Boot loaders: what the drive came with, somebody else's, and ours.
Loaders == {"none", "old", "foreign", "ours"}

Torn == "torn"

\* A recovery record names the loader it found, or says there was none.
NoRecord == "none"
RecordOf(l) == IF l = "none" THEN "no loader" ELSE l
Named == {RecordOf(l) : l \in Loaders}

Sticks == [boot   : Loaders,
           backup : Loaders \cup {Torn},
           record : {NoRecord, Torn} \cup Named,
           part   : {"none", "partial", "bad", "whole"},
           iso    : {"none", "partial", "bad", "whole"},
           config : {"none", "done", Torn},
           staged : {"none", "done", Torn}]

InstallSteps == {"start", "paths", "backup", "record", "copy", "readback",
                 "publish", "config", "stage", "stop", "look", "replace",
                 "verify", "done", "failed"}

PreserveTypeOK ==
  /\ stick \in Sticks
  /\ plan \in [boot : Loaders, record : {NoRecord} \cup Named]
  /\ step \in InstallSteps
  /\ foreign \in 0..MaxForeign

Fresh(l) == [boot |-> l, backup |-> "none", record |-> NoRecord, part |-> "none",
             iso |-> "none", config |-> "none", staged |-> "none"]

\* Drives as they come: untouched, or left by an earlier installation that
\* stopped after the backup, after the record, or not at all.
Found ==
  {Fresh("none"), Fresh("old"),
   [Fresh("old") EXCEPT !.backup = "old"],
   [Fresh("old") EXCEPT !.backup = "old", !.record = RecordOf("old")],
   [Fresh("ours") EXCEPT !.backup = "old", !.record = RecordOf("old"),
                         !.iso = "whole", !.config = "done"]}

-----------------------------------------------------------------------------
(* Inspection *)

\* inspect_plan: a record must describe what is there; without one, no trace
\* of an earlier attempt may be left.
Inspected ==
  /\ slot = Selected
  /\ IF stick.record = NoRecord
     THEN stick.backup = "none" /\ stick.config = "none"
     ELSE /\ stick.record # Torn
          /\ stick.record = RecordOf(stick.backup)
          /\ stick.boot \in {"none", "ours", stick.backup}

\* The drive still looks as it did when the user approved the plan.
Rechecked == Inspected /\ plan = [boot |-> stick.boot, record |-> stick.record]

\* validate_addition.  Free space is left out.
Addable == plan.record = NoRecord

\* The plan the desktop sends was made from the drive as it was found.
PreserveInit ==
  /\ stick \in Found
  /\ plan = [boot |-> stick.boot, record |-> stick.record]
  /\ step = "start"
  /\ foreign = 0

-----------------------------------------------------------------------------
(* Installation *)

At(s) == step = s

\* An installation in progress fails; the files stay as they are.
Fails == step' = "failed" /\ UNCHANGED <<stick, plan, foreign>>

\* Every file is reached by its volume's own name, so only on this drive.
Reachable == slot = Selected

Goes(s) == Reachable /\ step' = s /\ UNCHANGED <<plan, foreign>>

\* A file that must be new is written and flushed.  The drive may have kept
\* something else without any of this having failed, which only a reader
\* finds; when it does fail, the file may be there torn.
WriteNew(file, value, next) ==
  \/ /\ stick[file] = "none"
     /\ \E kept \in {value, Torn} : stick' = [stick EXCEPT ![file] = kept]
     /\ Goes(next)
  \/ /\ stick[file] = "none"
     /\ stick' = [stick EXCEPT ![file] = Torn]
     /\ Goes("failed")
  \/ Fails

\* The same, and its digest is read back: a torn file ends the installation.
WriteChecked(file, value, next) ==
  \/ /\ stick[file] = "none"
     /\ stick' = [stick EXCEPT ![file] = value]
     /\ Goes(next)
  \/ /\ stick[file] = "none"
     /\ stick' = [stick EXCEPT ![file] = Torn]
     /\ Goes("failed")
  \/ Fails

Recheck ==
  /\ At("start")
  /\ \/ Rechecked /\ Addable /\ Goes("paths") /\ UNCHANGED stick
     \/ Fails

Paths ==
  /\ At("paths")
  /\ \/ /\ stick.config = "none"
        /\ stick.staged = "none"
        /\ Goes("backup")
        /\ UNCHANGED stick
     \/ Fails

\* Mutant: the saved loader is not read back.
Backup_unread ==
  /\ At("backup")
  /\ \/ plan.boot = "none" /\ step' = "record" /\ UNCHANGED <<stick, plan, foreign>>
     \/ plan.boot # "none" /\ stick.boot = plan.boot
        /\ WriteNew("backup", stick.boot, "record")
     \/ Fails

Backup ==
  /\ At("backup")
  /\ \/ /\ plan.boot = "none"
        /\ step' = "record"
        /\ UNCHANGED <<stick, plan, foreign>>
     \/ /\ plan.boot # "none"
        /\ IF stick.boot = plan.boot
           THEN WriteChecked("backup", stick.boot, "record")
           ELSE Fails

\* The record alone is not read back.
Record ==
  /\ At("record")
  /\ WriteNew("record", RecordOf(plan.boot), "copy")

\* The copy can be wrong on the drive without any write having failed.
Copy ==
  /\ At("copy")
  /\ \/ /\ ~cancel
        /\ \E c \in {"bad", "whole"} : stick' = [stick EXCEPT !.part = c]
        /\ Goes("readback")
     \/ /\ stick' = [stick EXCEPT !.part = "partial"]
        /\ Goes("failed")
     \/ Fails

ReadBackCopy ==
  /\ At("readback")
  /\ \/ ~cancel /\ stick.part = "whole" /\ Goes("publish") /\ UNCHANGED stick
     \/ Fails

Publish ==
  /\ At("publish")
  /\ \/ /\ stick' = [stick EXCEPT !.part = "none", !.iso = stick.part]
        /\ step' \in {"config", "failed"}
        /\ Reachable
        /\ UNCHANGED <<plan, foreign>>
     \/ Fails

Config == At("config") /\ WriteChecked("config", "done", "stage")

Stage == At("stage") /\ WriteChecked("staged", "done", "stop")

\* The last moment a Stop is looked at.
LastStop ==
  /\ At("stop")
  /\ IF cancel THEN Fails ELSE step' = "look" /\ UNCHANGED <<stick, plan, foreign>>

LookAtBoot ==
  /\ At("look")
  /\ \/ stick.boot = plan.boot /\ Goes("replace") /\ UNCHANGED stick
     \/ Fails

Replace ==
  /\ At("replace")
  /\ \/ /\ stick' = [stick EXCEPT !.boot = "ours", !.staged = "none"]
        /\ Goes("verify")
     \/ Fails

VerifyBoot ==
  /\ At("verify")
  /\ \/ stick.boot = "ours" /\ Goes("done") /\ UNCHANGED stick
     \/ Fails

InstallStep ==
  \/ Recheck \/ Paths \/ Backup \/ Record \/ Copy \/ ReadBackCopy \/ Publish
  \/ Config \/ Stage \/ LastStop \/ LookAtBoot \/ Replace \/ VerifyBoot

\* Another program installs its boot loader on the drive.
ForeignLoader ==
  /\ foreign < MaxForeign
  /\ slot = Selected
  /\ stick' = [stick EXCEPT !.boot = "foreign"]
  /\ foreign' = foreign + 1
  /\ UNCHANGED <<plan, step>>
=============================================================================
