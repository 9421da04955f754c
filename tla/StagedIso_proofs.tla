-------------------------- MODULE StagedIso_proofs --------------------------
(* What StagedIso keeps, for any operations, firmware entries and number of  *)
(* mishaps; and what the reminder of the pauses it makes keeps, for any      *)
(* volumes and installers. Each has its own names, and neither's steps are   *)
(* the other's.                                                              *)
EXTENDS StagedIso, BitLockerReminder, TLAPS

------------------------------------------------------------------------------
(* The record and the partitions as plain sets.                              *)

Statuses == Readable \cup {"none", "empty", "removed"}
Records == [status : Statuses, boot : Slots \cup {NoSlot}, pauses : BOOLEAN]
Holdings == {"none", "raw", "partial", "ours", "foreign", "changed"}

(* Save-StagingState keeps every record a record, and changes one of them    *)
(* only.                                                                     *)
LEMMA Saved ==
  ASSUME NEW o \in Ops, NEW status \in Statuses, TypeOK, Save(o, status)
  PROVE  /\ record' \in [Ops -> Records]
         /\ record'[o].status = status
         /\ \A p \in Ops \ {o} : record'[p] = record[p]
<1>1. record \in [Ops -> Records] /\ boot \in Slots \cup {NoSlot}
  BY DEF TypeOK, Records, Statuses
<1>2. record[o] \in Records
  BY <1>1
<1>3. [record[o] EXCEPT !.status = status, !.boot = boot] \in Records
  BY <1>1, <1>2 DEF Records
<1>4. record' = [record EXCEPT ![o] =
                   [record[o] EXCEPT !.status = status, !.boot = boot]]
  BY <1>1, <1>2 DEF Save, Records
<1> QED
  BY <1>1, <1>2, <1>3, <1>4 DEF Records

(* A partition gets new contents.                                            *)
LEMMA Refilled ==
  ASSUME NEW o \in Ops, NEW r \in Roles, NEW now \in Holdings, TypeOK,
         part' = [part EXCEPT ![o][r] = now]
  PROVE  /\ part' \in [Ops -> [Roles -> Holdings]]
         /\ part'[o][r] = now
         /\ \A q \in Roles \ {r} : part'[o][q] = part[o][q]
         /\ \A p \in Ops \ {o} : part'[p] = part[p]
<1>1. part \in [Ops -> [Roles -> Holdings]]
  BY DEF TypeOK, Holdings
<1>2. part[o] \in [Roles -> Holdings]
  BY <1>1
<1>3. [part[o] EXCEPT ![r] = now] \in [Roles -> Holdings]
  BY <1>2
<1>4. part' = [part EXCEPT ![o] = [part[o] EXCEPT ![r] = now]]
  OBVIOUS
<1> QED
  BY <1>1, <1>2, <1>3, <1>4

------------------------------------------------------------------------------
(* Types.                                                                    *)

(* Everything but the partitions and the records.                            *)
Rest ==
  /\ next \in Slots \cup {NoSlot} /\ order \subseteq Slots \cup {Home}
  /\ current \in Slots \cup {Home, NoSlot}
  /\ entry \in [Slots -> Ops \cup {Unused, Others}]
  /\ recent \subseteq Ops /\ paused \in BOOLEAN
  /\ up \in {"windows", "firmware", "other"}
  /\ job \in Ops \cup {NoJob} /\ pc \in Steps /\ boot \in Slots \cup {NoSlot}
  /\ faults \in 0..MaxFaults

LEMMA TypeParts ==
  TypeOK <=> /\ part \in [Ops -> [Roles -> Holdings]]
             /\ record \in [Ops -> Records]
             /\ Rest
BY DEF TypeOK, Holdings, Records, Statuses, Rest

(* The steps that save a record with a given status, and that status.        *)
LEMMA RecordsSaved ==
  ASSUME TypeOK, NEW o \in Ops,
         \/ Create(o) \/ Verify(o) \/ Allocated(o) \/ Registered(o)
         \/ ArmFiles(o) \/ Restored(o) \/ Selected(o) \/ Unhooked(o) \/ Deleted(o)
  PROVE  record' \in [Ops -> Records]
<1> USE DEF Statuses, Readable, Recoverable
<1>0. record \in [Ops -> Records]
  BY TypeParts
<1>1. record[o].status \in Statuses
  BY <1>0 DEF Records
<1>2. CASE Create(o)
  BY <1>0, <1>2, Saved DEF Create
<1>3. CASE Verify(o)
  BY <1>0, <1>3, Saved DEF Verify
<1>4. CASE Allocated(o)
  BY <1>0, <1>4, Saved DEF Allocated
<1>5. CASE Registered(o)
  BY <1>0, <1>5, Saved DEF Registered
<1>6. CASE ArmFiles(o)
  BY <1>0, <1>6, Saved DEF ArmFiles
<1>7. CASE Selected(o)
  BY <1>0, <1>7, Saved DEF Selected
<1>8. CASE Unhooked(o)
  BY <1>0, <1>8, Saved DEF Unhooked
<1>9. CASE Deleted(o)
  BY <1>0, <1>9, Saved DEF Deleted
<1>10. CASE Restored(o)
  BY <1>0, <1>1, <1>10, Saved DEF Restored
<1> QED
  BY <1>2, <1>3, <1>4, <1>5, <1>6, <1>7, <1>8, <1>9, <1>10

(* The steps that change a partition keep them typed.                        *)
LEMMA PartsChanged ==
  ASSUME TypeOK, NEW o \in Ops, NEW r \in Roles,
         \/ Allocate(o) \/ Format(o, r) \/ Fill(o, r) \/ Delete(o, r)
         \/ Adopt(o) \/ Repartition(o, r)
  PROVE  part' \in [Ops -> [Roles -> Holdings]]
<1> USE DEF Holdings
<1>0. part \in [Ops -> [Roles -> Holdings]] /\ "efi" \in Roles
  BY TypeParts DEF Roles
<1>1. CASE Allocate(o)
  BY <1>0, <1>1 DEF Allocate
<1>2. CASE Format(o, r)
  BY <1>0, <1>2, Refilled DEF Format
<1>3. CASE Fill(o, r)
  BY <1>0, <1>3, Refilled DEF Fill
<1>4. CASE Delete(o, r)
  BY <1>0, <1>4, Refilled DEF Delete
<1>5. CASE Adopt(o)
  BY <1>0, <1>5, Refilled DEF Adopt
<1>6. CASE Repartition(o, r)
  BY <1>0, <1>6, Refilled DEF Repartition
<1> QED
  BY <1>1, <1>2, <1>3, <1>4, <1>5, <1>6

(* The program counters of the steps in each partition.                      *)
LEMMA RoleSteps ==
  ASSUME NEW r \in Roles
  PROVE  Formats[r] \in Steps /\ Fills[r] \in Steps /\ Deletes[r] \in Steps
<1>1. CASE r = "efi"
  BY <1>1 DEF Formats, Fills, Deletes, Steps
<1>2. CASE r = "source"
  BY <1>2 DEF Formats, Fills, Deletes, Steps
<1> QED
  BY <1>1, <1>2 DEF Roles

LEMMA TypeStep ==
  ASSUME TypeOK, NEW o \in Ops, Step(o)
  PROVE  TypeOK'
<1> SUFFICES part' \in [Ops -> [Roles -> Holdings]] /\ record' \in [Ops -> Records] /\ Rest'
  BY DEF TypeOK, Holdings, Records, Statuses, Rest
<1> USE DEF Rest, Steps, world, script, Goto, Done, At
<1>0. /\ part \in [Ops -> [Roles -> Holdings]]
      /\ record \in [Ops -> Records] /\ Rest
  BY TypeParts
<1>1. CASE Create(o)
  BY <1>0, <1>1, RecordsSaved DEF Create
<1>2. CASE Withdraw(o)
  <2>1. record' \in [Ops -> Records]
    BY <1>0, <1>2 DEF Withdraw, Records, Statuses
  <2> QED
    BY <1>0, <1>2, <2>1 DEF Withdraw
<1>3. CASE Verify(o)
  BY <1>0, <1>3, RecordsSaved DEF Verify
<1>4. CASE Suspend(o)
  BY <1>0, <1>4 DEF Suspend
<1>5. CASE Allocate(o)
  BY <1>0, <1>5, PartsChanged DEF Allocate, Roles
<1>6. CASE Allocated(o)
  BY <1>0, <1>6, RecordsSaved DEF Allocated
<1>7. CASE Reserve(o)
  <2>1. record' \in [Ops -> Records] /\ boot' \in Slots \cup {NoSlot}
    BY <1>0, <1>7 DEF Reserve, Records, Statuses, Readable, Recoverable
  <2> QED
    BY <1>0, <1>7, <2>1 DEF Reserve
<1>8. CASE Register(o)
  BY <1>0, <1>8 DEF Register
<1>9. CASE Registered(o)
  BY <1>0, <1>9, RecordsSaved DEF Registered
<1>10. CASE ArmFiles(o)
  BY <1>0, <1>10, RecordsSaved DEF ArmFiles
<1>11. CASE Restore(o)
  BY <1>0, <1>11 DEF Restore
<1>12. CASE Restored(o)
  BY <1>0, <1>12, RecordsSaved DEF Restored
<1>13. CASE Select(o)
  BY <1>0, <1>13 DEF Select
<1>14. CASE Selected(o)
  BY <1>0, <1>14, RecordsSaved DEF Selected
<1>15. CASE Unhook(o)
  BY <1>0, <1>15 DEF Unhook
<1>16. CASE Unhooked(o)
  BY <1>0, <1>16, RecordsSaved DEF Unhooked
<1>21. CASE UnhookRefused(o)
  BY <1>0, <1>21 DEF UnhookRefused
<1>17. CASE Deleted(o)
  BY <1>0, <1>17, RecordsSaved DEF Deleted
<1>18. CASE \E r \in Roles : Format(o, r)
  <2>1. PICK r \in Roles : Format(o, r)
    BY <1>18
  <2> QED
    BY <1>0, <2>1, PartsChanged, RoleSteps DEF Format
<1>19. CASE \E r \in Roles : Fill(o, r)
  <2>1. PICK r \in Roles : Fill(o, r)
    BY <1>19
  <2> QED
    BY <1>0, <2>1, PartsChanged, RoleSteps DEF Fill
<1>20. CASE \E r \in Roles : Delete(o, r)
  <2>1. PICK r \in Roles : Delete(o, r)
    BY <1>20
  <2> QED
    BY <1>0, <2>1, PartsChanged, RoleSteps DEF Delete
<1> QED
  BY <1>1, <1>2, <1>3, <1>4, <1>5, <1>6, <1>7, <1>8, <1>9, <1>10, <1>11, <1>12, <1>13, <1>14, <1>15, <1>16, <1>17, <1>18, <1>19, <1>20,
     <1>21 DEF Step, Stage, Arm, Cleanup

LEMMA TypeNext ==
  ASSUME TypeOK, [Next]_vars
  PROVE  TypeOK'
<1> SUFFICES part' \in [Ops -> [Roles -> Holdings]] /\ record' \in [Ops -> Records] /\ Rest'
  BY DEF TypeOK, Holdings, Records, Statuses, Rest
<1>0. /\ part \in [Ops -> [Roles -> Holdings]]
      /\ record \in [Ops -> Records] /\ Rest
  BY TypeParts
<1>1. ASSUME NEW o \in Ops, StageBegin(o) \/ ArmBegin(o) \/ Resume(o) \/ CleanBegin(o)
      PROVE  part' \in [Ops -> [Roles -> Holdings]] /\ record' \in [Ops -> Records] /\ Rest'
  <2>1. record[o].boot \in Slots \cup {NoSlot}
    BY <1>0 DEF Records
  <2>2. record' \in [Ops -> Records]
    <3>1. CASE StageBegin(o)
      <4>1. record' = [record EXCEPT ![o].status = "empty", ![o].pauses = ~paused]
        BY <3>1 DEF StageBegin
      <4>2. (~paused) \in BOOLEAN
        <5>1. CASE paused
          BY <5>1, Zenon
        <5>2. CASE ~paused
          BY <5>2, Zenon
        <5> QED
          BY <5>1, <5>2
      <4>3. ASSUME NEW b \in BOOLEAN
            PROVE  [record EXCEPT ![o].status = "empty", ![o].pauses = b] \in [Ops -> Records]
        BY <1>0 DEF Records, Statuses
      <4> QED
        BY <4>1, <4>2, <4>3
    <3>2. CASE Resume(o)
      BY <1>0, <3>2 DEF Resume, Records
    <3> QED
      BY <1>0, <1>1, <3>1, <3>2 DEF ArmBegin, CleanBegin
  <2> QED
    BY <1>0, <1>1, <2>1, <2>2
       DEF StageBegin, ArmBegin, Resume, CleanBegin, Start, Rest, Steps, world, script
<1>2. ASSUME NEW o \in Ops, Step(o)
      PROVE  part' \in [Ops -> [Roles -> Holdings]] /\ record' \in [Ops -> Records] /\ Rest'
  <2>1. TypeOK'
    BY <1>2, TypeStep
  <2> QED
    BY <2>1 DEF TypeOK, Holdings, Records, Statuses, Rest
<1>3. CASE Stops
  <2>1. faults' \in 0..MaxFaults
    BY <1>0, <1>3, StagedAssumption DEF Stops, Fault, Rest
  <2> QED
    BY <1>0, <1>3, <2>1 DEF Stops, Done, Rest, Steps, world
<1>4. CASE Machine
  <2>1. CASE Restart
    <3>1. faults' \in 0..MaxFaults
      BY <1>0, <2>1, StagedAssumption DEF Restart, Fault, Rest
    <3> QED
      BY <1>0, <2>1, <3>1 DEF Restart, Done, Rest, Steps, world
  <2>2. CASE BootOther \/ BootWindows
    BY <1>0, <2>2 DEF BootOther, BootWindows, Rest, script
  <2>6. CASE Protect
    <3>1. faults' \in 0..MaxFaults
      BY <1>0, <2>6, StagedAssumption DEF Protect, Fault, Rest
    <3> QED
      BY <1>0, <2>6, <3>1 DEF Protect, Rest, world, script
  <2>3. CASE \E s \in Slots \cup {Home} : Firmware(s)
    <3>1. PICK s \in Slots \cup {Home} : Firmware(s)
      BY <2>3
    <3>2. order' \subseteq Slots \cup {Home} /\ faults' \in 0..MaxFaults
      BY <1>0, <3>1, StagedAssumption DEF Firmware, Fault, Rest
    <3>3. entry' \in [Slots -> Ops \cup {Unused, Others}]
      BY <1>0, <3>1 DEF Firmware, Rest
    <3> QED
      BY <1>0, <3>1, <3>2, <3>3 DEF Firmware, Rest, script
  <2>4. ASSUME NEW o \in Ops, NEW r \in Roles, Adopt(o) \/ Repartition(o, r)
        PROVE  part' \in [Ops -> [Roles -> Holdings]] /\ record' \in [Ops -> Records] /\ Rest'
    BY <1>0, <2>4, PartsChanged, StagedAssumption
       DEF Adopt, Repartition, Fault, Rest, world, script
  <2>5. "efi" \in Roles
    BY DEF Roles
  <2> QED
    BY <1>4, <2>1, <2>2, <2>3, <2>4, <2>5, <2>6 DEF Machine
<1>5. CASE UNCHANGED vars
  BY <1>0, <1>5 DEF vars, world, Rest
<1> QED
  BY <1>1, <1>2, <1>3, <1>4, <1>5 DEF Next

LEMMA TypeInit ==
  ASSUME Init
  PROVE  TypeOK
BY StagedAssumption DEF Init, TypeOK, Steps, Readable, Recoverable

(* Every state of the staged installers is well typed, for any operations,   *)
(* firmware entries and bound on mishaps.                                    *)
THEOREM StagedTypes == Spec => []TypeOK
<1>1. Init => TypeOK
  BY TypeInit
<1>2. TypeOK /\ [Next]_vars => TypeOK'
  BY TypeNext
<1> QED
  BY <1>1, <1>2, PTL DEF Spec

------------------------------------------------------------------------------
(* What a script knows at its step, and what the record says of it.          *)

(* Safety, as an inductive invariant: a partition has a record that says so; *)
(* what another system adopts is the EFI partition, and only while no script *)
(* runs; the steps before the allocation know their record's status, and the *)
(* steps of a removal what is left of the partitions.                        *)
AtStep(o) ==
  /\ pc = "create" => record[o].status = "empty"
  /\ pc \in {"suspend", "allocate"} => record[o].status \in Recoverable
  /\ pc \in {"unhook", "delete source", "delete efi"} => part[o]["efi"] # "foreign"
  /\ pc \in {"delete efi", "deleted"} => part[o]["source"] = "none"
  /\ pc = "deleted" => part[o]["efi"] = "none"

Safe ==
  /\ PartitionsAreRecorded
  /\ job # NoJob => up = "windows"
  /\ \A o \in Ops : part[o]["source"] # "foreign"
  /\ \A o \in Ops : job = o => AtStep(o)

LEMMA SafeInit ==
  ASSUME Init
  PROVE  Safe
BY StagedAssumption DEF Init, Safe, PartitionsAreRecorded, AtStep, Roles

(* A step that saves the record of the script's own operation and touches no *)
(* partition: what is left to show is what its new status must say, and what *)
(* its new program counter promises.                                         *)
LEMMA SafeSave ==
  ASSUME TypeOK, Safe, NEW o \in Ops, job = o,
         NEW status \in Statuses, Save(o, status),
         (\E r \in Roles : part[o][r] # "none") => status \in Recoverable,
         job' \in {o, NoJob}, UNCHANGED <<part, up>>,
         job' = o => AtStep(o)'
  PROVE  Safe'
<1>0. NoJob \notin Ops
  BY StagedAssumption
<1>1. record'[o].status = status /\ \A p \in Ops \ {o} : record'[p] = record[p]
  BY Saved
<1>2. PartitionsAreRecorded'
  BY <1>1 DEF Safe, PartitionsAreRecorded
<1>3. (job # NoJob => up = "windows")'
  BY <1>0 DEF Safe
<1>4. (\A p \in Ops : part[p]["source"] # "foreign")'
  BY DEF Safe
<1>5. (\A p \in Ops : job = p => AtStep(p))'
  BY <1>0
<1> QED
  BY <1>2, <1>3, <1>4, <1>5 DEF Safe

(* A step of the script that writes one of its own partitions.               *)
LEMMA SafeWrite ==
  ASSUME TypeOK, Safe, NEW o \in Ops, job = o,
         NEW r \in Roles, NEW now \in Holdings \ {"foreign"},
         part' = [part EXCEPT ![o][r] = now],
         now # "none" => part[o][r] # "none" \/ record[o].status \in Recoverable,
         job' = o, UNCHANGED <<record, up>>,
         AtStep(o)'
  PROVE  Safe'
<1>0. NoJob \notin Ops
  BY StagedAssumption
<1>1. /\ part'[o][r] = now
      /\ \A q \in Roles \ {r} : part'[o][q] = part[o][q]
      /\ \A p \in Ops \ {o} : part'[p] = part[p]
  BY Refilled
<1>2. PartitionsAreRecorded'
  BY <1>1 DEF Safe, PartitionsAreRecorded
<1>3. (job # NoJob => up = "windows")'
  BY <1>0 DEF Safe
<1>4. (\A p \in Ops : part[p]["source"] # "foreign")'
  BY <1>1 DEF Safe, Roles
<1>5. (\A p \in Ops : job = p => AtStep(p))'
  BY <1>0
<1> QED
  BY <1>2, <1>3, <1>4, <1>5 DEF Safe

(* A step of the script that changes neither.                                *)
LEMMA SafeElse ==
  ASSUME TypeOK, Safe, UNCHANGED <<part, record, up>>,
         job' # NoJob => up = "windows",
         \A o \in Ops : job' = o => AtStep(o)'
  PROVE  Safe'
BY DEF Safe, PartitionsAreRecorded

LEMMA SafeStage ==
  ASSUME TypeOK, Safe, NEW o \in Ops, Stage(o)
  PROVE  Safe'
<1> USE DEF AtStep, At, Goto, Done, Statuses, Readable, Recoverable
<1>0. /\ job = o /\ o # NoJob /\ up = "windows" /\ AtStep(o)
      /\ part[o]["efi"] \in Holdings /\ part[o]["source"] \in Holdings
      /\ "efi" \in Roles /\ "source" \in Roles
  <2>1. job = o
    BY DEF Stage, Create, Withdraw, Verify, Suspend, Allocate, Allocated, Format,
           Fill, Reserve, Register, Registered
  <2> QED
    BY <2>1, TypeParts, StagedAssumption DEF Safe, Roles
<1>1. (\E r \in Roles : part[o][r] # "none") => record[o].status \in Recoverable
  BY DEF Safe, PartitionsAreRecorded
<1>2. CASE Create(o)
  BY <1>0, <1>1, <1>2, SafeSave DEF Create, world
<1>3. CASE Verify(o)
  <2>1. record'[o].status \in Recoverable
    BY <1>3, Saved DEF Verify
  <2> QED
    BY <1>0, <1>1, <1>3, <2>1, SafeSave DEF Verify, world
<1>4. CASE Allocated(o)
  BY <1>0, <1>1, <1>4, SafeSave DEF Allocated, world
<1>5. CASE Registered(o)
  BY <1>0, <1>1, <1>5, SafeSave DEF Registered, world
<1>6. CASE Withdraw(o)
  <2>1. /\ record'[o].status = "removed"
        /\ \A p \in Ops \ {o} : record'[p] = record[p]
    BY <1>6, TypeParts DEF Withdraw, Records
  <2> QED
    BY <1>0, <1>1, <1>6, <2>1, StagedAssumption
       DEF Withdraw, Safe, PartitionsAreRecorded
<1>7. CASE Suspend(o) \/ Register(o)
  BY <1>0, <1>7, SafeElse DEF Suspend, Register, world
<1>8. CASE Reserve(o)
  <2>1. CASE UNCHANGED record
    BY <1>0, <1>8, <2>1, SafeElse DEF Reserve
  <2>2. CASE ~UNCHANGED record
    <3>1. PICK s \in Slots :
            record' = [record EXCEPT ![o].status = "registering-boot", ![o].boot = s]
      BY <1>8, <2>2 DEF Reserve
    <3>2. /\ record'[o].status = "registering-boot"
          /\ \A p \in Ops \ {o} : record'[p] = record[p]
      BY <3>1, TypeParts DEF Records
    <3>3. pc' = "register" /\ job' = o
      BY <1>0, <1>8, <2>2 DEF Reserve
    <3> QED
      BY <1>0, <1>8, <3>2, <3>3, StagedAssumption
         DEF Reserve, Safe, PartitionsAreRecorded
  <2> QED
    BY <2>1, <2>2
<1>9. CASE Allocate(o)
  <2>1. /\ part'[o] = [r \in Roles |-> "raw"]
        /\ \A p \in Ops \ {o} : part'[p] = part[p]
    BY <1>9, TypeParts DEF Allocate
  <2>2. pc' = "allocated" /\ job' = o /\ record[o].status \in Recoverable
    BY <1>0, <1>9 DEF Allocate
  <2> QED
    BY <1>0, <1>9, <2>1, <2>2, StagedAssumption
       DEF Allocate, Safe, PartitionsAreRecorded
<1>10. CASE \E r \in Roles : Format(o, r) \/ Fill(o, r)
  <2>1. PICK r \in Roles : Format(o, r) \/ Fill(o, r)
    BY <1>10
  <2>2. CASE UNCHANGED part /\ Done
    BY <1>0, <2>1, <2>2, SafeElse DEF Format, Fill
  <2>3. CASE ~(UNCHANGED part /\ Done)
    <3>1. PICK now \in {"partial", "ours"} : part' = [part EXCEPT ![o][r] = now]
      BY <2>1, <2>3 DEF Format, Fill
    <3>2. part[o][r] # "none"
      BY <2>1, <2>3 DEF Format, Fill, Owned
    <3>3. job' = o /\ pc' \in {Fills["efi"], Fills["source"], "format source", "reserve"}
      BY <1>0, <2>1, <2>3 DEF Format, Fill, Roles
    <3>4. AtStep(o)'
      BY <3>3 DEF Fills
    <3> QED
      BY <1>0, <2>1, <3>1, <3>2, <3>3, <3>4, SafeWrite DEF Format, Fill, Holdings
  <2> QED
    BY <2>2, <2>3
<1> QED
  BY <1>2, <1>3, <1>4, <1>5, <1>6, <1>7, <1>8, <1>9, <1>10 DEF Stage

LEMMA SafeArm ==
  ASSUME TypeOK, Safe, NEW o \in Ops, Arm(o)
  PROVE  Safe'
<1> USE DEF AtStep, At, Goto, Done, Statuses, Readable, Recoverable
<1>0. /\ job = o /\ o # NoJob /\ up = "windows"
      /\ record[o].status \in Statuses
  <2>1. job = o
    BY DEF Arm, ArmFiles, Restore, Restored, Select, Selected
  <2> QED
    BY <2>1, TypeParts, StagedAssumption DEF Safe, Records
<1>1. (\E r \in Roles : part[o][r] # "none") => record[o].status \in Recoverable
  BY DEF Safe, PartitionsAreRecorded
<1>2. CASE ArmFiles(o)
  <2>1. CASE UNCHANGED record
    BY <1>0, <1>2, <2>1, SafeElse DEF ArmFiles
  <2>2. CASE Save(o, "arming")
    BY <1>0, <1>2, <2>2, SafeSave DEF ArmFiles, world
  <2> QED
    BY <1>2, <2>1, <2>2 DEF ArmFiles
<1>3. CASE Restore(o)
  <2>1. job' = NoJob \/ pc' = "restored"
    BY <1>3 DEF Restore
  <2> QED
    BY <1>0, <1>3, <2>1, SafeElse DEF Restore
<1>4. CASE Restored(o)
  <2>1. CASE UNCHANGED record
    BY <1>0, <1>4, <2>1, SafeElse DEF Restored
  <2>2. CASE Save(o, record[o].status)
    BY <1>0, <1>1, <1>4, <2>2, SafeSave DEF Restored, world
  <2> QED
    BY <1>4, <2>1, <2>2 DEF Restored
<1>5. CASE Select(o)
  BY <1>0, <1>5, SafeElse DEF Select
<1>6. CASE Selected(o)
  BY <1>0, <1>6, SafeSave DEF Selected, world
<1> QED
  BY <1>2, <1>3, <1>4, <1>5, <1>6 DEF Arm

LEMMA SafeCleanup ==
  ASSUME TypeOK, Safe, NEW o \in Ops, Cleanup(o)
  PROVE  Safe'
<1> USE DEF AtStep, At, Goto, Done, Statuses, Readable, Recoverable
<1>0. /\ job = o /\ o # NoJob /\ up = "windows" /\ AtStep(o)
  <2>1. job = o
    BY DEF Cleanup, Unhook, UnhookRefused, Unhooked, Delete, Deleted
  <2> QED
    BY <2>1, StagedAssumption DEF Safe
<1>1. CASE Unhook(o)
  BY <1>0, <1>1, SafeElse DEF Unhook, script
<1>2. CASE Unhooked(o)
  BY <1>0, <1>2, SafeSave DEF Unhooked, world
<1>5. CASE UnhookRefused(o)
  BY <1>0, <1>5, SafeElse DEF UnhookRefused
<1>3. CASE Deleted(o)
  BY <1>0, <1>3, SafeSave DEF Deleted, world, Roles
<1>4. CASE \E r \in Roles : Delete(o, r)
  <2>1. PICK r \in Roles : Delete(o, r)
    BY <1>4
  <2>2. CASE UNCHANGED part /\ Done
    BY <1>0, <2>1, <2>2, SafeElse DEF Delete
  <2>3. CASE ~(UNCHANGED part /\ Done)
    <3>1. part' = [part EXCEPT ![o][r] = "none"] /\ job' = o
      BY <1>0, <2>1, <2>3 DEF Delete
    <3>2. /\ part'[o][r] = "none"
          /\ \A q \in Roles \ {r} : part'[o][q] = part[o][q]
      BY <3>1, Refilled DEF Holdings
    <3>3. CASE r = "source"
      <4>1. pc = "delete source" /\ pc' = "delete efi"
        BY <2>1, <2>3, <3>3 DEF Delete, Deletes
      <4> QED
        BY <1>0, <2>1, <3>1, <3>2, <3>3, <4>1, SafeWrite DEF Delete, Holdings, Roles
    <3>4. CASE r = "efi"
      <4>1. pc = "delete efi" /\ pc' = "deleted"
        BY <2>1, <2>3, <3>4 DEF Delete, Deletes
      <4> QED
        BY <1>0, <2>1, <3>1, <3>2, <3>4, <4>1, SafeWrite DEF Delete, Holdings, Roles
    <3> QED
      BY <3>3, <3>4 DEF Roles
  <2> QED
    BY <2>2, <2>3
<1> QED
  BY <1>1, <1>2, <1>3, <1>4, <1>5 DEF Cleanup

LEMMA SafeBegin ==
  ASSUME TypeOK, Safe, NEW o \in Ops,
         StageBegin(o) \/ ArmBegin(o) \/ Resume(o) \/ CleanBegin(o)
  PROVE  Safe'
<1> USE DEF AtStep, Start, Free, Readable, Recoverable
<1>0. job = NoJob /\ up = "windows" /\ NoJob \notin Ops
  BY StagedAssumption DEF StageBegin, ArmBegin, Resume, CleanBegin
<1>1. CASE StageBegin(o)
  <2>1. /\ record'[o].status = "empty"
        /\ \A p \in Ops \ {o} : record'[p] = record[p]
    BY <1>1, TypeParts DEF StageBegin, Records
  <2> QED
    BY <1>0, <1>1, <2>1 DEF StageBegin, Safe, PartitionsAreRecorded
<1>2. CASE ArmBegin(o)
  BY <1>0, <1>2, SafeElse DEF ArmBegin
<1>3. CASE Resume(o)
  <2>1. \A p \in Ops : record'[p].status = record[p].status
    BY <1>3, TypeParts DEF Resume, Records
  <2> QED
    BY <1>0, <1>3, <2>1 DEF Resume, Safe, PartitionsAreRecorded, script
<1>4. CASE CleanBegin(o)
  BY <1>0, <1>4, SafeElse DEF CleanBegin
<1> QED
  BY <1>1, <1>2, <1>3, <1>4

LEMMA SafeMachine ==
  ASSUME TypeOK, Safe, Machine
  PROVE  Safe'
<1> USE DEF AtStep
<1>0. NoJob \notin Ops
  BY StagedAssumption
<1>1. CASE Restart
  BY <1>0, <1>1, SafeElse DEF Restart, Done, Safe, PartitionsAreRecorded
<1>2. CASE BootOther \/ BootWindows
  BY <1>0, <1>2 DEF BootOther, BootWindows, Safe, PartitionsAreRecorded, script
<1>3. CASE Protect
  BY <1>0, <1>3, SafeElse DEF Protect, Safe, script
<1>4. CASE \E s \in Slots \cup {Home} : Firmware(s)
  BY <1>0, <1>4, SafeElse DEF Firmware, Safe, script
<1>5. ASSUME NEW o \in Ops, NEW r \in Roles, Adopt(o) \/ Repartition(o, r)
      PROVE  Safe'
  <2>1. PICK now \in Holdings, q \in Roles :
          /\ part' = [part EXCEPT ![o][q] = now] /\ part[o][q] # "none"
          /\ now = "foreign" => q = "efi" /\ up = "other"
    BY <1>5 DEF Adopt, Repartition, Holdings, Roles
  <2>2. /\ part'[o][q] = now
        /\ \A u \in Roles \ {q} : part'[o][u] = part[o][u]
        /\ \A p \in Ops \ {o} : part'[p] = part[p]
    BY <2>1, Refilled
  <2>3. UNCHANGED <<record, up, job, pc>>
    BY <1>5 DEF Adopt, Repartition, script
  <2>4. PartitionsAreRecorded'
    BY <2>1, <2>2, <2>3 DEF Safe, PartitionsAreRecorded
  <2>5. \A p \in Ops : part'[p]["source"] # "foreign"
    BY <2>1, <2>2 DEF Safe, Roles
  <2>6. \A p \in Ops : job' = p => AtStep(p)'
    <3> SUFFICES ASSUME NEW p \in Ops, job = p
                 PROVE  AtStep(p)'
      BY <2>3
    <3>1. now # "foreign" /\ AtStep(p)
      BY <1>0, <2>1 DEF Safe
    <3>2. \A u \in Roles : part'[p][u] = part[p][u] \/ (part[p][u] # "none" /\ part'[p][u] = now)
      BY <2>1, <2>2
    <3>3. part'[p]["efi"] = "foreign" => part[p]["efi"] = "foreign"
      BY <3>1, <3>2 DEF Roles
    <3>4. \A u \in Roles : part[p][u] = "none" => part'[p][u] = "none"
      BY <3>2
    <3> QED
      BY <2>3, <3>1, <3>3, <3>4 DEF Roles
  <2> QED
    BY <2>3, <2>4, <2>5, <2>6 DEF Safe
<1>6. "efi" \in Roles
  BY DEF Roles
<1> QED
  BY <1>1, <1>2, <1>3, <1>4, <1>5, <1>6 DEF Machine

LEMMA SafeNext ==
  ASSUME TypeOK, Safe, [Next]_vars
  PROVE  Safe'
<1>1. CASE Stops
  BY <1>1, SafeElse, StagedAssumption DEF Stops, Done
<1>2. CASE UNCHANGED vars
  BY <1>2, SafeElse DEF vars, Safe, AtStep
<1> QED
  BY <1>1, <1>2, SafeStage, SafeArm, SafeCleanup, SafeBegin, SafeMachine
     DEF Next, Step

(* The records, entries and partitions agree in every state (Safe), whatever *)
(* is cut off and whatever the firmware and other systems do.                *)
THEOREM StagedSafe == Spec => []Safe
<1>1. Init => Safe
  BY SafeInit
<1>2. TypeOK /\ Safe /\ [Next]_vars => Safe'
  BY SafeNext
<1> QED
  BY <1>1, <1>2, StagedTypes, PTL DEF Spec

(* Wherever a script is cut off, a partition it made has a readable record   *)
(* that is neither from before the change nor closed.                        *)
THEOREM StagedIsRecorded == Spec => []PartitionsAreRecorded
<1>1. Safe => PartitionsAreRecorded
  BY DEF Safe
<1> QED
  BY <1>1, StagedSafe, PTL

(* A removal deletes its own, unchanged partitions only, however often it    *)
(* was interrupted, for any number of installers.                            *)
THEOREM StagedDeletesOnlyOwn == Spec => DeletesOnlyOwn
<1> DEFINE Own == \A o \in Ops, r \in Roles :
                    part[o][r] # "none" /\ part'[o][r] = "none" /\ pc' # pc =>
                      job = o /\ part[o][r] \in {"raw", "partial", "ours"}
<1>1. TypeOK /\ Safe /\ [Next]_vars => [Own]_vars
  <2> SUFFICES ASSUME TypeOK, Safe, [Next]_vars, NEW o \in Ops, NEW r \in Roles,
                      part[o][r] # "none", part'[o][r] = "none", pc' # pc
               PROVE  job = o /\ part[o][r] \in {"raw", "partial", "ours"}
    OBVIOUS
  <2>0. part[o][r] \in Holdings
    BY TypeParts
  <2>1. ASSUME UNCHANGED part PROVE FALSE
    BY <2>1
  <2>2. ASSUME NEW p \in Ops, Allocate(p) PROVE FALSE
    <3>1. part' = [part EXCEPT ![p] = [q \in Roles |-> "raw"]]
      BY <2>2 DEF Allocate
    <3> QED
      BY <3>1, TypeParts
  <2>3. ASSUME NEW p \in Ops, NEW q \in Roles, Format(p, q) \/ Fill(p, q)
        PROVE  FALSE
    <3>1. PICK now \in {"partial", "ours"} : part' = [part EXCEPT ![p][q] = now]
      BY <2>1, <2>3 DEF Format, Fill
    <3> QED
      BY <3>1, Refilled DEF Holdings
  <2>4. ASSUME NEW p \in Ops, NEW q \in Roles, Delete(p, q)
        PROVE  job = o /\ part[o][r] \in {"raw", "partial", "ours"}
    <3>1. part' = [part EXCEPT ![p][q] = "none"] /\ part[p][q] # "changed"
      BY <2>1, <2>4 DEF Delete
    <3>2. p = o /\ q = r /\ job = o /\ pc = Deletes[r]
      <4>1. /\ \A u \in Roles \ {q} : part'[p][u] = part[p][u]
            /\ \A u \in Ops \ {p} : part'[u] = part[u]
        BY <3>1, Refilled DEF Holdings
      <4>2. p = o
        BY <4>1
      <4>3. q = r
        BY <4>1, <4>2
      <4> QED
        BY <2>4, <4>2, <4>3 DEF Delete, At
    <3>3. part[o][r] # "foreign"
      <4>1. CASE r = "efi"
        BY <3>2, <4>1 DEF Safe, AtStep, Deletes
      <4>2. CASE r = "source"
        BY <4>2 DEF Safe
      <4> QED
        BY <4>1, <4>2 DEF Roles
    <3> QED
      BY <2>0, <3>1, <3>2, <3>3 DEF Holdings
  <2>5. CASE Machine \/ Stops
    BY <2>1, <2>5 DEF Machine, Stops, Restart, BootOther, BootWindows, Protect,
                      Firmware, Adopt, Repartition, script
  <2>6. ASSUME NEW p \in Ops,
               StageBegin(p) \/ ArmBegin(p) \/ Resume(p) \/ CleanBegin(p) \/ Arm(p)
        PROVE  FALSE
    BY <2>1, <2>6 DEF StageBegin, ArmBegin, Resume, CleanBegin, Arm, ArmFiles,
                      Restore, Restored, Select, Selected
  <2>7. ASSUME NEW p \in Ops, Stage(p) \/ Cleanup(p)
        PROVE  job = o /\ part[o][r] \in {"raw", "partial", "ours"}
    <3>1. CASE \E q \in Roles : Format(p, q) \/ Fill(p, q) \/ Delete(p, q)
      BY <2>3, <2>4, <3>1
    <3> QED
      BY <2>1, <2>2, <2>7, <3>1
         DEF Stage, Cleanup, Create, Withdraw, Verify, Suspend, Allocated,
             Reserve, Register, Registered, Unhook, UnhookRefused, Unhooked, Deleted
  <2> QED
    BY <2>1, <2>5, <2>6, <2>7 DEF Next, Step, vars
<1> QED
  BY <1>1, StagedTypes, StagedSafe, PTL DEF Spec, DeletesOnlyOwn

------------------------------------------------------------------------------
(* The BitLocker reminder: types.                                            *)

Reminders == [status : {"none"} \cup Finished \cup Unfinished,
              origin : {"none", "suspension", "opt-in"}]
InstallerRecords ==
  [status : {"none", "preparing", "waiting", "started", "cleaned"},
   pauses : SUBSET Volumes]
VolumeStates == {"on", "paused", "decrypting", "off", "encrypting"}

(* What Windows says of a volume stays one of the five states it can say.    *)
LEMMA VolumeBecomes ==
  /\ DOMAIN Becomes = VolumeStates
  /\ \A s \in VolumeStates : Becomes[s] \subseteq VolumeStates
<1>1. DOMAIN Becomes = VolumeStates
  BY DEF Becomes, VolumeStates
<1>2. ASSUME NEW s \in VolumeStates PROVE Becomes[s] \subseteq VolumeStates
  <2>1. CASE s = "on"
    BY <2>1 DEF Becomes, VolumeStates
  <2>2. CASE s = "paused"
    BY <2>2 DEF Becomes, VolumeStates
  <2>3. CASE s = "decrypting"
    BY <2>3 DEF Becomes, VolumeStates
  <2>4. CASE s = "off"
    BY <2>4 DEF Becomes, VolumeStates
  <2>5. CASE s = "encrypting"
    BY <2>5 DEF Becomes, VolumeStates
  <2> QED
    BY <1>2, <2>1, <2>2, <2>3, <2>4, <2>5 DEF VolumeStates
<1> QED
  BY <1>1, <1>2

(* The type invariant in the parts that different steps change.              *)
FactTypes ==
  /\ volume \in [Volumes -> VolumeStates] /\ ours \in [Volumes -> BOOLEAN]
  /\ app \in BOOLEAN /\ mishaps \in 0..MaxMishaps
RecordTypes ==
  /\ reminder \in [Volumes -> Reminders]
  /\ worker \in [Volumes -> {"none", "torn", "whole"}]
  /\ task \subseteq Volumes
LockTypes ==
  /\ lock \in [Volumes -> {"free", "job", "window"}]
  /\ place \in [Volumes -> Places] /\ due \subseteq Volumes
  /\ view \in [Volumes -> [resume : BOOLEAN, decline : BOOLEAN]]
JobTypes ==
  /\ running \in {"none", "stage", "remind", "resume"}
  /\ op \in Installers \cup {NoOne} /\ todo \subseteq Volumes

LEMMA ReminderTypeParts ==
  ReminderTypeOK <=> /\ FactTypes /\ RecordTypes /\ LockTypes /\ JobTypes
                     /\ installer \in [Installers -> InstallerRecords]
BY VolumeBecomes
   DEF ReminderTypeOK, FactTypes, RecordTypes, LockTypes, JobTypes, Reminders,
       InstallerRecords

(* A mishap is counted within its bound.                                     *)
LEMMA MishapCounted ==
  ASSUME mishaps \in 0..MaxMishaps, Mishap
  PROVE  mishaps' \in 0..MaxMishaps
BY ReminderAssumption DEF Mishap

(* Write-FollowupState changes the status of one record.                     *)
LEMMA StatusSaved ==
  ASSUME RecordTypes, NEW v \in Volumes,
         NEW status \in Finished \cup Unfinished,
         SaveStatus(v, status)
  PROVE  /\ reminder' \in [Volumes -> Reminders]
         /\ reminder'[v] = [reminder[v] EXCEPT !.status = status]
         /\ \A w \in Volumes \ {v} : reminder'[w] = reminder[w]
<1>1. reminder \in [Volumes -> Reminders] /\ reminder[v] \in Reminders
  BY DEF RecordTypes
<1>2. [reminder[v] EXCEPT !.status = status] \in Reminders
  BY <1>1 DEF Reminders
<1>3. reminder' = [reminder EXCEPT ![v] =
                     [reminder[v] EXCEPT !.status = status]]
  BY DEF SaveStatus
<1> QED
  BY <1>1, <1>2, <1>3

(* Get-EncryptionLock, a further step, and the end of a volume or of a job   *)
(* keep the holders of the locks, their steps and the job what they are.     *)
LEMMA HoldTyped ==
  ASSUME LockTypes, NEW v \in Volumes, NEW who \in {"job", "window"},
         NEW step \in Places, Hold(v, who, step), UNCHANGED due,
         UNCHANGED view \/ view' = [view EXCEPT ![v] = View(v)]
  PROVE  LockTypes'
<1>1. View(v) \in [resume : BOOLEAN, decline : BOOLEAN]
  BY DEF View
<1> QED
  BY <1>1 DEF LockTypes, Hold

LEMMA GoOnTyped ==
  ASSUME LockTypes, JobTypes, NEW v \in Volumes, NEW step \in Places,
         GoOn(v, step)
  PROVE  LockTypes' /\ JobTypes'
BY DEF LockTypes, JobTypes, GoOn, helper

LEMMA LeaveTyped ==
  ASSUME LockTypes, JobTypes, NEW v \in Volumes, Leave(v)
  PROVE  LockTypes' /\ JobTypes'
<1>1. NoView \in [resume : BOOLEAN, decline : BOOLEAN]
  BY DEF NoView
<1> QED
  BY <1>1 DEF LockTypes, JobTypes, Leave, Places

LEMMA JobOverTyped ==
  ASSUME LockTypes, JobTypes, JobOver
  PROVE  LockTypes' /\ JobTypes'
BY DEF LockTypes, JobTypes, JobOver, Places

LEMMA BeginTyped ==
  ASSUME LockTypes, JobTypes, NEW kind \in {"stage", "remind", "resume"},
         NEW o \in Installers \cup {NoOne}, NEW volumes \in SUBSET Volumes,
         Begin(kind, o, volumes)
  PROVE  LockTypes' /\ JobTypes'
BY DEF LockTypes, JobTypes, Begin, holder

LEMMA RegistrationTyped ==
  ASSUME ReminderTypeOK, NEW v \in Volumes, Registration(v)
  PROVE  ReminderTypeOK'
<1>0. /\ FactTypes /\ RecordTypes /\ LockTypes /\ JobTypes
      /\ installer \in [Installers -> InstallerRecords]
  BY ReminderTypeParts
<1> SUFFICES FactTypes' /\ RecordTypes' /\ LockTypes' /\ JobTypes'
             /\ installer' \in [Installers -> InstallerRecords]
  BY ReminderTypeParts, VolumeBecomes
     DEF ReminderTypeOK, FactTypes, RecordTypes, LockTypes, JobTypes,
         Reminders, InstallerRecords
<1>1. CASE Prepare(v)
  <2>1. LockTypes'
    BY <1>0, <1>1, HoldTyped DEF Prepare, Places, helper
  <2> QED
    BY <1>0, <1>1, <2>1
       DEF Prepare, FactTypes, RecordTypes, JobTypes, reminders, helper
<1>2. CASE Reconcile(v)
  <2>1. LockTypes' /\ JobTypes'
    BY <1>0, <1>2, GoOnTyped DEF Reconcile, Places
  <2>2. reminder' \in [Volumes -> Reminders]
    BY <1>0, <1>2, StatusSaved DEF Reconcile, Finished, RecordTypes
  <2> QED
    BY <1>0, <1>2, <2>1, <2>2 DEF Reconcile, FactTypes, RecordTypes
<1>3. CASE Retire(v)
  BY <1>0, <1>3, GoOnTyped DEF Retire, Places, FactTypes, RecordTypes
<1>4. CASE Copy(v)
  BY <1>0, <1>4, GoOnTyped DEF Copy, Places, FactTypes, RecordTypes
<1>5. CASE Copied(v)
  BY <1>0, <1>5, GoOnTyped DEF Copied, Places, FactTypes, RecordTypes
<1>6. CASE ArmRecord(v)
  <2>1. reminder' \in [Volumes -> Reminders]
    BY <1>0, <1>6 DEF ArmRecord, RecordTypes, Reminders, Unfinished
  <2> QED
    BY <1>0, <1>6, <2>1, GoOnTyped
       DEF ArmRecord, Places, FactTypes, RecordTypes
<1>7. CASE AddTask(v)
  BY <1>0, <1>7, GoOnTyped DEF AddTask, Places, FactTypes, RecordTypes
<1>8. CASE TaskAdded(v)
  BY <1>0, <1>8, GoOnTyped, LeaveTyped
     DEF TaskAdded, Places, FactTypes, RecordTypes, reminders
<1>9. CASE TaskRefused(v)
  <2>1. reminder' \in [Volumes -> Reminders]
    BY <1>0, <1>9, StatusSaved DEF TaskRefused, Finished
  <2>2. mishaps' \in 0..MaxMishaps
    BY <1>0, <1>9, MishapCounted DEF TaskRefused, FactTypes
  <2> QED
    BY <1>0, <1>9, <2>1, <2>2, JobOverTyped
       DEF TaskRefused, FactTypes, RecordTypes
<1>10. CASE Disable(v)
  BY <1>0, <1>10, GoOnTyped
     DEF Disable, Places, FactTypes, RecordTypes, reminders, VolumeStates
<1>11. CASE Receipt(v)
  <2>1. reminder' \in [Volumes -> Reminders]
    BY <1>0, <1>11, StatusSaved DEF Receipt, Unfinished
  <2> QED
    BY <1>0, <1>11, <2>1, LeaveTyped DEF Receipt, FactTypes, RecordTypes
<1>12. CASE Refuses(v)
  BY <1>0, <1>12, JobOverTyped DEF Refuses, FactTypes, RecordTypes, reminders
<1> QED
  BY <1>1, <1>2, <1>3, <1>4, <1>5, <1>6, <1>7, <1>8, <1>9, <1>10, <1>11, <1>12
     DEF Registration

LEMMA AnsweredTyped ==
  ASSUME ReminderTypeOK, NEW v \in Volumes, Resumption(v) \/ Window(v)
  PROVE  ReminderTypeOK'
<1>0. /\ FactTypes /\ RecordTypes /\ LockTypes /\ JobTypes
      /\ installer \in [Installers -> InstallerRecords]
  BY ReminderTypeParts
<1> SUFFICES FactTypes' /\ RecordTypes' /\ LockTypes' /\ JobTypes'
             /\ installer' \in [Installers -> InstallerRecords]
  BY VolumeBecomes
     DEF ReminderTypeOK, FactTypes, RecordTypes, LockTypes, JobTypes,
         Reminders, InstallerRecords
<1>1. CASE Skip(v)
  BY <1>0, <1>1
     DEF Skip, FactTypes, RecordTypes, LockTypes, JobTypes, reminders, holder
<1>2. CASE Claim(v)
  <2>1. LockTypes' /\ JobTypes'
    BY <1>0, <1>2, HoldTyped, JobOverTyped DEF Claim, Places, helper, JobTypes
  <2> QED
    BY <1>0, <1>2, <2>1 DEF Claim, FactTypes, RecordTypes, reminders
<1>3. CASE Enable(v)
  BY <1>0, <1>3, GoOnTyped
     DEF Enable, Places, FactTypes, RecordTypes, reminders, VolumeStates
<1>4. CASE Verified(v)
  <2>1. reminder' \in [Volumes -> Reminders]
    BY <1>0, <1>4, StatusSaved DEF Verified, Finished
  <2> QED
    BY <1>0, <1>4, <2>1, GoOnTyped DEF Verified, Places, FactTypes, RecordTypes
<1>5. CASE Unverified(v)
  BY <1>0, <1>5, GoOnTyped, JobOverTyped
     DEF Unverified, Places, FactTypes, RecordTypes, reminders
<1>6. CASE Remove(v)
  BY <1>0, <1>6, LeaveTyped DEF Remove, FactTypes, RecordTypes
<1>7. CASE FollowUp(v)
  <2>1. due' \subseteq Volumes /\ JobTypes'
    BY <1>0, <1>7 DEF FollowUp, LockTypes, JobTypes, helper
  <2>2. ASSUME NEW step \in Places, Hold(v, "window", step)
        PROVE  /\ lock' \in [Volumes -> {"free", "job", "window"}]
               /\ place' \in [Volumes -> Places]
    BY <1>0, <2>2 DEF Hold, LockTypes
  <2>3. View(v) \in [resume : BOOLEAN, decline : BOOLEAN]
    BY DEF View
  <2>4. LockTypes' /\ reminder' \in [Volumes -> Reminders]
    <3>1. CASE Decision(v) = "restored" /\ SaveStatus(v, "restored")
               /\ Hold(v, "window", "remove") /\ UNCHANGED view
      BY <1>0, <2>1, <2>2, <3>1, StatusSaved DEF LockTypes, Places, Finished
    <3>2. CASE Hold(v, "window", "remove") /\ UNCHANGED <<view, reminder>>
      BY <1>0, <2>1, <2>2, <3>2 DEF LockTypes, Places, RecordTypes
    <3>3. CASE UNCHANGED <<lock, place, view, reminder>>
      BY <1>0, <2>1, <3>3 DEF LockTypes, RecordTypes
    <3>4. CASE Hold(v, "window", "shown") /\ UNCHANGED reminder
               /\ view' = [view EXCEPT ![v] = View(v)]
      BY <1>0, <2>1, <2>2, <2>3, <3>4 DEF LockTypes, Places, RecordTypes
    <3> QED
      BY <1>7, <3>1, <3>2, <3>3, <3>4 DEF FollowUp
  <2> QED
    BY <1>0, <1>7, <2>1, <2>4 DEF FollowUp, FactTypes, RecordTypes
<1>8. CASE Missed(v)
  BY <1>0, <1>8
     DEF Missed, FactTypes, RecordTypes, LockTypes, JobTypes, reminders, helper
<1>9. CASE Confirm(v)
  BY <1>0, <1>9, GoOnTyped
     DEF Confirm, Places, FactTypes, RecordTypes, reminders
<1>10. CASE Decline(v)
  <2>1. reminder' \in [Volumes -> Reminders]
    BY <1>0, <1>10, StatusSaved DEF Decline, Finished
  <2> QED
    BY <1>0, <1>10, <2>1, GoOnTyped DEF Decline, Places, FactTypes, RecordTypes
<1>11. CASE Close(v)
  <2>1. mishaps' \in 0..MaxMishaps
    BY <1>0, <1>11, MishapCounted DEF Close, FactTypes
  <2> QED
    BY <1>0, <1>11, <2>1, LeaveTyped
       DEF Close, FactTypes, RecordTypes, reminders
<1> QED
  BY <1>1, <1>2, <1>3, <1>4, <1>5, <1>6, <1>7, <1>8, <1>9, <1>10, <1>11
     DEF Resumption, Window

LEMMA ReminderTypeNext ==
  ASSUME ReminderTypeOK, [ReminderNext]_reminderVars
  PROVE  ReminderTypeOK'
<1>0. /\ FactTypes /\ RecordTypes /\ LockTypes /\ JobTypes
      /\ installer \in [Installers -> InstallerRecords]
  BY ReminderTypeParts
<1> DEFINE Typed == FactTypes' /\ RecordTypes' /\ LockTypes' /\ JobTypes'
                    /\ installer' \in [Installers -> InstallerRecords]
<1> SUFFICES ASSUME ~(\E v \in Volumes :
                        Registration(v) \/ Resumption(v) \/ Window(v))
             PROVE Typed
  BY RegistrationTyped, AnsweredTyped, VolumeBecomes
     DEF ReminderTypeOK, FactTypes, RecordTypes, LockTypes, JobTypes,
         Reminders, InstallerRecords
<1>1. ASSUME NEW o \in Installers, BeginStaging(o) PROVE Typed
  <2>1. Active \in SUBSET Volumes
    BY DEF Active
  <2>2. LockTypes' /\ JobTypes'
    BY <1>0, <1>1, <2>1, BeginTyped DEF BeginStaging
  <2> QED
    BY <1>0, <1>1, <2>1, <2>2
       DEF BeginStaging, FactTypes, RecordTypes, reminders, InstallerRecords
<1>2. ASSUME NEW o \in Installers, BeginResume(o) PROVE Typed
  <2>1. installer[o].pauses \in SUBSET Volumes
    BY <1>0 DEF InstallerRecords
  <2> QED
    BY <1>0, <1>2, <2>1, BeginTyped
       DEF BeginResume, FactTypes, RecordTypes, reminders
<1>3. ASSUME NEW o \in Installers, SelectInstaller(o) \/ CleanInstaller(o)
      PROVE  Typed
  <2>1. installer' \in [Installers -> InstallerRecords]
    <3>1. PICK status \in {"waiting", "cleaned"} :
            installer' = [installer EXCEPT ![o].status = status]
      BY <1>3 DEF SelectInstaller, CleanInstaller
    <3>2. [installer[o] EXCEPT !.status = status] \in InstallerRecords
      BY <1>0 DEF InstallerRecords
    <3>3. installer' = [installer EXCEPT ![o] =
                          [installer[o] EXCEPT !.status = status]]
      BY <3>1
    <3> QED
      BY <1>0, <3>2, <3>3
  <2> QED
    BY <1>0, <1>3, <2>1
       DEF SelectInstaller, CleanInstaller, FactTypes, RecordTypes, LockTypes,
                            JobTypes, reminders, holder, helper
<1>4. ASSUME NEW v \in Volumes, Windows(v) PROVE Typed
  <2>1. volume' \in [Volumes -> VolumeStates]
    BY <1>0, <1>4, VolumeBecomes DEF Windows, FactTypes
  <2>2. mishaps' \in 0..MaxMishaps
    BY <1>0, <1>4, MishapCounted DEF Windows, FactTypes
  <2> QED
    BY <1>0, <1>4, <2>1, <2>2
       DEF Windows, FactTypes, RecordTypes, LockTypes, JobTypes, reminders,
           holder, helper
<1>5. CASE BeginReminder
  BY <1>0, <1>5, BeginTyped, ReminderAssumption
     DEF BeginReminder, FactTypes, RecordTypes, reminders
<1>6. CASE Staged \/ Resumed
  <2>1. op \in Installers => installer' \in [Installers -> InstallerRecords]
    BY <1>0, <1>6 DEF Staged, Resumed, InstallerRecords
  <2>2. op \notin Installers => installer' = installer
    BY <1>0, <1>6 DEF Staged, Resumed
  <2> QED
    BY <1>0, <1>6, <2>1, <2>2, JobOverTyped
       DEF Staged, Resumed, FactTypes, RecordTypes, reminders
<1>7. CASE Ends
  BY <1>0, <1>7, JobOverTyped DEF Ends, FactTypes, RecordTypes, reminders
<1>8. CASE JobFails
  BY <1>0, <1>8, JobOverTyped, MishapCounted
     DEF JobFails, FactTypes, RecordTypes, reminders
<1>9. CASE SignIn
  <2>1. installer' \in [Installers -> InstallerRecords]
    BY <1>0, <1>9 DEF SignIn, InstallerRecords
  <2>2. NoView \in [resume : BOOLEAN, decline : BOOLEAN]
    BY DEF NoView
  <2> QED
    BY <1>0, <1>9, <2>1, <2>2
       DEF SignIn, FactTypes, RecordTypes, LockTypes, JobTypes, Places,
           reminders
<1>10. CASE App
  BY <1>0, <1>10
     DEF App, FactTypes, RecordTypes, LockTypes, JobTypes, reminders, holder,
         helper
<1>11. CASE UNCHANGED reminderVars
  BY <1>0, <1>11 DEF reminderVars, FactTypes, RecordTypes, LockTypes, JobTypes
<1> QED
  BY <1>1, <1>2, <1>3, <1>4, <1>5, <1>6, <1>7, <1>8, <1>9, <1>10, <1>11
     DEF ReminderNext

(* Records, programs, tasks, locks and the helper's job keep their types.    *)
THEOREM ReminderTypes == ReminderSpec => []ReminderTypeOK
<1>1. ReminderInit => ReminderTypeOK
  BY ReminderAssumption, VolumeBecomes
     DEF ReminderInit, ReminderTypeOK, NoView, Places, VolumeStates
<1>2. ReminderTypeOK /\ [ReminderNext]_reminderVars => ReminderTypeOK'
  BY ReminderTypeNext
<1> QED
  BY <1>1, <1>2, PTL DEF ReminderSpec

------------------------------------------------------------------------------
(* The BitLocker reminder: what is owed.                                     *)

Recorded == {"register", "check", "disable", "receipt"}
Preparing == {"record", "retire", "copy", "copied", "arm"} \cup Recorded

(* Who is at which step: a step is taken under the lock, the preparation by  *)
(* a job that stages or reminds, the resume of a job while no installer      *)
(* waits.                                                                    *)
Claims(v) ==
  /\ lock[v] = "free" <=> place[v] = "none"
  /\ lock[v] = "job" => running # "none" /\ place[v] # "shown"
  /\ place[v] \in Preparing =>
       lock[v] = "job" /\ running \in {"stage", "remind"}
  /\ place[v] \in {"disable", "receipt"} => running = "stage"
  /\ lock[v] = "job" /\ place[v] = "enable" =>
       running = "resume" /\ ~InstallerWaits

(* What the preparation has persisted at each of its steps.                  *)
Persists(v) ==
  /\ place[v] \in {"arm"} \cup Recorded => worker[v] = "whole"
  /\ place[v] \in Recorded /\ running = "stage" =>
       reminder[v].status = "armed" /\ reminder[v].origin = "suspension"
  /\ place[v] \in {"check", "disable", "receipt"} => v \in task

(* A pause of an installer is one, nothing prepares a pause of that volume,  *)
(* and what is removed is not owed; PauseIsOwed, for one volume.             *)
Owes(v) ==
  /\ ours[v] => /\ volume[v] = "paused"
                /\ place[v] \notin Preparing \ {"record", "receipt"}
  /\ place[v] = "remove" => ~ours[v] \/ reminder[v].status = "declined"
  /\ ours[v] => \/ reminder[v].status = "declined"
                \/ /\ reminder[v].status \in Unfinished
                   /\ reminder[v].origin = "suspension"
                   /\ v \in task /\ worker[v] = "whole"

Pause(v) == Claims(v) /\ Persists(v) /\ Owes(v)
Pauses == \A v \in Volumes : Pause(v)

(* What is persisted of a volume, and what Windows says of it, is left alone.*)
Left(v) ==
  /\ UNCHANGED <<volume[v], ours[v], reminder[v], worker[v]>>
  /\ v \in task <=> v \in task'

(* A follow-up is over for its record, or for what Windows says.             *)
LEMMA Decided ==
  ASSUME ReminderTypeOK, NEW v \in Volumes
  PROVE  /\ Decision(v) = "finished" => reminder[v].status \in Finished
         /\ Decision(v) = "restored" => volume[v] = "on"
<1>1. volume[v] \in VolumeStates
  BY ReminderTypeParts DEF FactTypes
<1>2. CASE reminder[v].status \in Finished
  BY <1>2 DEF Decision
<1>3. CASE reminder[v].status \in Unfinished
  BY <1>1, <1>3 DEF Decision, VolumeStates, Finished, Unfinished
<1>4. CASE reminder[v].status \notin Finished \cup Unfinished
  <2>1. Decision(v) = volume[v]
    BY <1>4 DEF Decision, Finished, Unfinished
  <2> QED
    BY <1>1, <2>1 DEF VolumeStates
<1> QED
  BY <1>2, <1>3, <1>4

(* A volume that a step leaves alone: its lock and the job that has it stay, *)
(* or the lock becomes free.                                                 *)
LEMMA PauseElsewhere ==
  ASSUME NEW v \in Volumes, Pause(v), Left(v),
         \/ lock'[v] = "free" /\ place'[v] = "none"
         \/ /\ UNCHANGED <<lock[v], place[v]>>
            /\ lock[v] = "job" => /\ running' = running
                                  /\ InstallerWaits' => InstallerWaits
  PROVE  Pause(v)'
BY DEF Pause, Claims, Persists, Owes, Left, Preparing, Recorded

(* The job ends: its locks become free.                                      *)
LEMMA PauseJobOver ==
  ASSUME ReminderTypeOK, Pauses, JobOver, NEW v \in Volumes, Left(v)
  PROVE  Pause(v)'
<1>1. \/ lock'[v] = "free" /\ place'[v] = "none"
      \/ lock[v] # "job" /\ UNCHANGED <<lock[v], place[v]>>
  BY DEF JobOver
<1> QED
  BY <1>1, PauseElsewhere DEF Pauses

(* An owner goes on at one volume: the others are left alone.                *)
LEMMA PauseOthers ==
  ASSUME ReminderTypeOK, Pauses, NEW v \in Volumes, NEW step \in Places,
         NEW who \in {"job", "window"},
         \/ GoOn(v, step) \/ Leave(v)
         \/ Hold(v, who, step) /\ UNCHANGED running,
         UNCHANGED installer, NEW w \in Volumes \ {v}, Left(w)
  PROVE  Pause(w)'
<1>1. InstallerWaits' => InstallerWaits
  BY DEF InstallerWaits
<1>2. UNCHANGED <<running, lock[w], place[w]>>
  BY DEF GoOn, Leave, Hold, helper, ReminderTypeOK
<1> QED
  BY <1>1, <1>2, PauseElsewhere DEF Pauses

(* The steps of a preparation.                                               *)
LEMMA PauseRegistration ==
  ASSUME ReminderTypeOK, Pauses, NEW v \in Volumes, Registration(v)
  PROVE  Pauses'
<1> USE DEF Preparing, Recorded, Claims, Persists, Owes
<1>0. /\ FactTypes /\ RecordTypes /\ LockTypes /\ JobTypes /\ Pause(v)
      /\ \A s : AtPlace(v, s) <=> place[v] = s
  BY ReminderTypeParts DEF Pauses, AtPlace
<1>1. ASSUME NEW step \in Places, GoOn(v, step)
      PROVE  place'[v] = step /\ UNCHANGED <<lock, running>>
  BY <1>0, <1>1 DEF GoOn, helper, LockTypes
<1>2. ASSUME Leave(v)
      PROVE  lock'[v] = "free" /\ place'[v] = "none"
  BY <1>0, <1>2 DEF Leave, LockTypes
<1>3. UNCHANGED installer
  BY DEF Registration, Prepare, Reconcile, Retire, Copy, Copied, ArmRecord,
         AddTask, TaskAdded, TaskRefused, Disable, Receipt, Refuses
<1>4. InstallerWaits' <=> InstallerWaits
  BY <1>3 DEF InstallerWaits
<1>5. ASSUME NEW w \in Volumes \ {v} PROVE Left(w)
  <2>1. ASSUME NEW status \in Finished \cup Unfinished, SaveStatus(v, status)
        PROVE  reminder'[w] = reminder[w]
    BY <1>0, <2>1, StatusSaved
  <2>2. UNCHANGED <<volume[w], ours[w]>>
    BY <1>0 DEF Registration, Prepare, Reconcile, Retire, Copy, Copied,
         ArmRecord, AddTask, TaskAdded, TaskRefused, Disable, Receipt, Refuses,
         FactTypes
  <2>3. UNCHANGED worker[w] /\ (w \in task <=> w \in task')
    BY <1>0 DEF Registration, Prepare, Reconcile, Retire, Copy, Copied,
         ArmRecord, AddTask, TaskAdded, TaskRefused, Disable, Receipt, Refuses,
         RecordTypes, reminders
  <2>4. UNCHANGED reminder[w]
    <3>1. CASE Reconcile(v) \/ TaskRefused(v) \/ Receipt(v)
      BY <2>1, <3>1 DEF Reconcile, TaskRefused, Receipt, Finished, Unfinished
    <3>2. CASE ArmRecord(v)
      BY <1>0, <3>2 DEF ArmRecord, RecordTypes
    <3> QED
      BY <3>1, <3>2 DEF Registration, Prepare, Retire, Copy, Copied, AddTask,
                        TaskAdded, Disable, Refuses, reminders
  <2> QED
    BY <2>2, <2>3, <2>4 DEF Left
<1>6. ASSUME \/ \E step \in Places : GoOn(v, step)
             \/ Leave(v)
             \/ Hold(v, "job", "record") /\ UNCHANGED running
             \/ JobOver,
             NEW w \in Volumes \ {v}
      PROVE  Pause(w)'
  BY <1>3, <1>5, <1>6, PauseOthers, PauseJobOver DEF Places
<1> SUFFICES /\ Pause(v)'
             /\ \/ \E step \in Places : GoOn(v, step)
                \/ Leave(v)
                \/ Hold(v, "job", "record") /\ UNCHANGED running
                \/ JobOver
  BY <1>6 DEF Pauses
<1>7. CASE Prepare(v)
  <2>1. lock'[v] = "job" /\ place'[v] = "record" /\ lock[v] = "free"
        /\ Hold(v, "job", "record") /\ UNCHANGED running
    BY <1>0, <1>7 DEF Prepare, Hold, LockTypes, helper
  <2> QED
    BY <1>0, <1>4, <1>7, <2>1 DEF Prepare, Pause, reminders
<1>8. CASE Reconcile(v)
  <2>1. ~ours[v]
    BY <1>0, <1>8 DEF Reconcile, Eligible, Pause
  <2>2. PICK step \in {"copy", "retire"} : GoOn(v, step)
    BY <1>8 DEF Reconcile
  <2>3. UNCHANGED <<volume, ours, worker, task>>
    BY <1>8 DEF Reconcile
  <2> QED
    BY <1>0, <1>1, <1>4, <1>8, <2>1, <2>2, <2>3 DEF Reconcile, Pause, Places
<1>9. CASE Retire(v)
  BY <1>0, <1>1, <1>4, <1>9 DEF Retire, Pause, Places
<1>10. CASE Copy(v)
  BY <1>0, <1>1, <1>4, <1>10 DEF Copy, Pause, Places
<1>11. CASE Copied(v)
  <2>1. worker'[v] = "whole"
    BY <1>0, <1>11 DEF Copied, RecordTypes
  <2> QED
    BY <1>0, <1>1, <1>4, <1>11, <2>1 DEF Copied, Pause, Places
<1>12. CASE ArmRecord(v)
  <2>1. running = "stage" =>
          reminder'[v] = [status |-> "armed", origin |-> "suspension"]
    BY <1>0, <1>12 DEF ArmRecord, RecordTypes
  <2> QED
    BY <1>0, <1>1, <1>4, <1>12, <2>1 DEF ArmRecord, Pause, Places
<1>13. CASE AddTask(v)
  BY <1>0, <1>1, <1>4, <1>13 DEF AddTask, Pause, Places
<1>14. CASE TaskAdded(v)
  BY <1>0, <1>1, <1>2, <1>4, <1>14 DEF TaskAdded, Pause, Places, reminders
<1>15. CASE TaskRefused(v)
  <2>1. lock'[v] = "free" /\ place'[v] = "none"
    BY <1>0, <1>15 DEF TaskRefused, JobOver, Pause
  <2> QED
    BY <1>0, <1>4, <1>15, <2>1 DEF TaskRefused, Pause
<1>16. CASE Disable(v)
  <2>1. volume'[v] = "paused"
    BY <1>0, <1>16 DEF Disable, FactTypes
  <2> QED
    BY <1>0, <1>1, <1>4, <1>16, <2>1
       DEF Disable, Pause, Places, Unfinished, reminders
<1>17. CASE Receipt(v)
  <2>1. reminder'[v] = [reminder[v] EXCEPT !.status = "pending"]
        /\ reminder[v] \in Reminders
    BY <1>0, <1>17, StatusSaved DEF Receipt, Unfinished, RecordTypes
  <2>2. /\ reminder'[v].status = "pending"
        /\ reminder'[v].origin = reminder[v].origin
    BY <2>1 DEF Reminders
  <2> QED
    BY <1>0, <1>2, <1>4, <1>17, <2>2 DEF Receipt, Pause, Unfinished
<1>18. CASE Refuses(v)
  <2>1. Left(v)
    BY <1>18 DEF Refuses, Left, reminders
  <2> QED
    BY <1>18, <2>1, PauseJobOver DEF Refuses
<1> QED
  BY <1>7, <1>8, <1>9, <1>10, <1>11, <1>12, <1>13, <1>14, <1>15, <1>16, <1>17,
     <1>18 DEF Registration

(* The steps of a resume, and of the window.                                 *)
LEMMA PauseAnswered ==
  ASSUME ReminderTypeOK, Pauses, NEW v \in Volumes, Resumption(v) \/ Window(v)
  PROVE  Pauses'
<1> USE DEF Preparing, Recorded, Claims, Persists, Owes
<1>0. /\ FactTypes /\ RecordTypes /\ LockTypes /\ JobTypes /\ Pause(v)
      /\ \A s : AtPlace(v, s) <=> place[v] = s
  BY ReminderTypeParts DEF Pauses, AtPlace
<1>1. ASSUME NEW step \in Places, GoOn(v, step)
      PROVE  place'[v] = step /\ UNCHANGED <<lock, running>>
  BY <1>0, <1>1 DEF GoOn, helper, LockTypes
<1>2. ASSUME Leave(v)
      PROVE  lock'[v] = "free" /\ place'[v] = "none"
  BY <1>0, <1>2 DEF Leave, LockTypes
<1>3. UNCHANGED installer
  BY DEF Resumption, Window, Skip, Claim, Enable, Verified, Unverified, Remove,
         FollowUp, Missed, Confirm, Decline, Close
<1>4. InstallerWaits' <=> InstallerWaits
  BY <1>3 DEF InstallerWaits
<1>5. ASSUME NEW w \in Volumes \ {v} PROVE Left(w)
  <2>1. ASSUME NEW status \in Finished \cup Unfinished, SaveStatus(v, status)
        PROVE  reminder'[w] = reminder[w]
    BY <1>0, <2>1, StatusSaved
  <2>2. UNCHANGED <<volume[w], ours[w]>>
    BY <1>0 DEF Resumption, Window, Skip, Claim, Enable, Verified, Unverified,
         Remove, FollowUp, Missed, Confirm, Decline, Close, FactTypes
  <2>3. UNCHANGED worker[w] /\ (w \in task <=> w \in task')
    BY <1>0 DEF Resumption, Window, Skip, Claim, Enable, Verified, Unverified,
         Remove, FollowUp, Missed, Confirm, Decline, Close, RecordTypes,
         reminders
  <2>4. UNCHANGED reminder[w]
    BY <2>1 DEF Resumption, Window, Skip, Claim, Enable, Verified, Unverified,
         Remove, FollowUp, Missed, Confirm, Decline, Close, reminders, Finished
  <2> QED
    BY <2>2, <2>3, <2>4 DEF Left
<1> DEFINE Moves == \/ \E step \in Places : GoOn(v, step)
                    \/ Leave(v)
                    \/ \E who \in {"job", "window"}, step \in Places :
                         Hold(v, who, step) /\ UNCHANGED running
                    \/ JobOver
                    \/ UNCHANGED <<lock, place, running>>
<1>6. ASSUME Moves, NEW w \in Volumes \ {v} PROVE Pause(w)'
  <2>1. CASE UNCHANGED <<lock, place, running>>
    BY <1>4, <1>5, <2>1, PauseElsewhere DEF Pauses
  <2>2. CASE JobOver
    BY <1>5, <2>2, PauseJobOver
  <2>3. "job" \in {"job", "window"} /\ "none" \in Places
    BY DEF Places
  <2> QED
    BY <1>3, <1>5, <1>6, <2>1, <2>2, <2>3, PauseOthers
<1> SUFFICES Pause(v)' /\ Moves
  BY <1>6 DEF Pauses
<1> HIDE DEF Moves
<1>7. CASE Skip(v)
  <2>1. UNCHANGED <<lock, place>> /\ lock[v] # "job" /\ Left(v)
    BY <1>7 DEF Skip, holder, Left, reminders
  <2> QED
    BY <1>0, <1>7, <2>1, PauseElsewhere DEF Moves, Skip
<1>8. CASE Claim(v)
  <2>1. Left(v)
    BY <1>8 DEF Claim, Left, reminders
  <2>2. CASE JobOver
    BY <2>1, <2>2, PauseJobOver DEF Moves
  <2>3. CASE Hold(v, "job", "enable") /\ UNCHANGED helper /\ ~InstallerWaits
    <3>1. lock'[v] = "job" /\ place'[v] = "enable" /\ lock[v] = "free"
          /\ UNCHANGED running
      BY <1>0, <2>3 DEF Hold, LockTypes, helper
    <3>2. Moves
      BY <2>3, <3>1 DEF Moves, Places
    <3> QED
      BY <1>0, <1>4, <1>8, <2>1, <2>3, <3>1, <3>2 DEF Pause, Claim, Left
  <2> QED
    BY <1>8, <2>2, <2>3 DEF Claim
<1>9. CASE Enable(v)
  <2>1. ~ours'[v]
    BY <1>0, <1>9 DEF Enable, FactTypes
  <2>2. Moves /\ place'[v] = "verify"
    BY <1>1, <1>9 DEF Enable, Moves, Places
  <2> QED
    BY <1>0, <1>1, <1>4, <1>9, <2>1, <2>2 DEF Enable, Pause, Places
<1>10. CASE Verified(v)
  <2>1. ~ours[v]
    BY <1>0, <1>10, Decided DEF Verified, Pause
  <2>2. Moves /\ place'[v] = "remove"
    BY <1>1, <1>10 DEF Verified, Moves, Places
  <2> QED
    BY <1>0, <1>1, <1>4, <1>10, <2>1, <2>2 DEF Verified, Pause, Places
<1>11. CASE Unverified(v)
  <2>1. Left(v)
    BY <1>11 DEF Unverified, Left, reminders
  <2>2. CASE JobOver
    BY <2>1, <2>2, PauseJobOver DEF Moves
  <2>3. CASE lock[v] # "job" /\ GoOn(v, "shown")
    <3>1. Moves /\ place'[v] = "shown"
      BY <1>1, <2>3 DEF Moves, Places
    <3> QED
      BY <1>0, <1>1, <1>4, <1>11, <2>1, <2>3, <3>1
         DEF Pause, Unverified, Left, Places
  <2> QED
    BY <1>11, <2>2, <2>3 DEF Unverified
<1>12. CASE Remove(v)
  <2>1. Moves /\ Leave(v)
    BY <1>12 DEF Remove, Moves
  <2> QED
    BY <1>0, <1>2, <1>12, <2>1 DEF Remove, Pause, Unfinished
<1>13. CASE FollowUp(v)
  <2>0. UNCHANGED <<volume, ours, worker, task, running>> /\ lock[v] = "free"
    BY <1>13 DEF FollowUp, helper
  <2>1. ASSUME NEW step \in Places, Hold(v, "window", step)
        PROVE  Moves /\ lock'[v] = "window" /\ place'[v] = step
    BY <1>0, <2>0, <2>1 DEF Hold, Moves, LockTypes
  <2>2. CASE Decision(v) = "finished" /\ Hold(v, "window", "remove")
             /\ UNCHANGED reminder
    <3>1. reminder[v].status \in Finished
      BY <2>2, Decided
    <3> QED
      BY <1>0, <1>4, <2>0, <2>1, <2>2, <3>1
         DEF Pause, Places, Finished, Unfinished
  <2>3. CASE Decision(v) = "restored" /\ Hold(v, "window", "remove")
             /\ SaveStatus(v, "restored")
    <3>1. ~ours[v]
      BY <1>0, <2>3, Decided DEF Pause
    <3> QED
      BY <1>0, <1>4, <2>0, <2>1, <2>3, <3>1 DEF Pause, Places
  <2>4. CASE UNCHANGED <<lock, place, reminder>>
    BY <1>0, <1>4, <2>0, <2>4 DEF Pause, Moves
  <2>5. CASE Hold(v, "window", "shown") /\ UNCHANGED reminder
    BY <1>0, <1>4, <2>0, <2>1, <2>5 DEF Pause, Places
  <2> QED
    BY <1>13, <2>2, <2>3, <2>4, <2>5 DEF FollowUp
<1>14. CASE Missed(v)
  BY <1>0, <1>4, <1>14 DEF Missed, Pause, Moves, reminders, helper
<1>15. CASE Confirm(v)
  <2>1. Moves /\ place'[v] = "enable"
    BY <1>1, <1>15 DEF Confirm, Moves, Places
  <2> QED
    BY <1>0, <1>1, <1>4, <1>15, <2>1 DEF Confirm, Pause, Places, reminders
<1>16. CASE Decline(v)
  <2>1. Moves /\ place'[v] = "remove"
    BY <1>1, <1>16 DEF Decline, Moves, Places
  <2>2. reminder'[v] = [reminder[v] EXCEPT !.status = "declined"]
        /\ reminder[v] \in Reminders
    BY <1>0, <1>16, StatusSaved DEF Decline, Finished, RecordTypes
  <2>3. reminder'[v].status = "declined"
    BY <2>2 DEF Reminders
  <2> QED
    BY <1>0, <1>1, <1>4, <1>16, <2>1, <2>3 DEF Decline, Pause, Places
<1>17. CASE Close(v)
  <2>1. Moves /\ Leave(v)
    BY <1>17 DEF Close, Moves
  <2> QED
    BY <1>0, <1>2, <1>17, <2>1 DEF Close, Pause, reminders
<1> QED
  BY <1>7, <1>8, <1>9, <1>10, <1>11, <1>12, <1>13, <1>14, <1>15, <1>16, <1>17
     DEF Resumption, Window
(* What else happens, to no volume's lock or to all of them.                 *)
LEMMA PauseNext ==
  ASSUME ReminderTypeOK, Pauses, [ReminderNext]_reminderVars
  PROVE  Pauses'
<1>0. FactTypes
  BY ReminderTypeParts
<1>1. ASSUME NEW v \in Volumes, Left(v), JobOver PROVE Pause(v)'
  BY <1>1, PauseJobOver
<1>2. ASSUME NEW v \in Volumes, Left(v), UNCHANGED <<lock, place, running>>,
             InstallerWaits' => InstallerWaits
      PROVE  Pause(v)'
  BY <1>2, PauseElsewhere DEF Pauses
<1>3. ASSUME NEW v \in Volumes, Left(v), UNCHANGED <<lock, place>>,
             running = "none"
      PROVE  Pause(v)'
  <2>1. lock[v] # "job"
    BY <1>3 DEF Pauses, Pause, Claims
  <2> QED
    BY <1>3, <2>1, PauseElsewhere DEF Pauses
<1>4. UNCHANGED installer => (InstallerWaits' <=> InstallerWaits)
  BY DEF InstallerWaits
<1> SUFFICES ASSUME NEW v \in Volumes,
                    ~(\E w \in Volumes :
                        Registration(w) \/ Resumption(w) \/ Window(w))
             PROVE  Pause(v)'
  BY PauseRegistration, PauseAnswered DEF Pauses
<1>5. ASSUME NEW o \in Installers,
             \/ BeginStaging(o) \/ BeginResume(o)
             \/ SelectInstaller(o) \/ CleanInstaller(o)
      PROVE  Pause(v)'
  BY <1>3, <1>5 DEF BeginStaging, BeginResume, SelectInstaller, CleanInstaller,
                    Begin, holder, reminders, Left
<1>6. CASE BeginReminder
  BY <1>3, <1>6 DEF BeginReminder, Begin, holder, reminders, Left
<1>7. ASSUME NEW w \in Volumes, Windows(w) PROVE Pause(v)'
  <2>1. UNCHANGED <<reminders, lock, place, running, installer>>
    BY <1>7 DEF Windows, holder, helper
  <2>2. CASE w = v
    <3>1. ~ours'[v]
      BY <1>0, <1>7, <2>2 DEF Windows, FactTypes
    <3> QED
      BY <1>4, <2>1, <3>1
         DEF Pauses, Pause, Claims, Persists, Owes, reminders
  <2>3. CASE w # v
    <3>1. UNCHANGED <<volume[v], ours[v]>>
      BY <1>0, <1>7, <2>3 DEF Windows, FactTypes
    <3> QED
      BY <1>2, <1>4, <2>1, <3>1 DEF Left, reminders
  <2> QED
    BY <2>2, <2>3
<1>8. CASE Staged \/ Resumed \/ Ends \/ JobFails
  BY <1>1, <1>8 DEF Staged, Resumed, Ends, JobFails, reminders, Left
<1>9. CASE SignIn
  BY <1>9, PauseElsewhere DEF SignIn, reminders, Left, Pauses
<1>10. CASE App \/ UNCHANGED reminderVars
  BY <1>2, <1>4, <1>10
     DEF App, reminderVars, reminders, holder, helper, Left
<1> QED
  BY <1>5, <1>6, <1>7, <1>8, <1>9, <1>10 DEF ReminderNext

(* Every pause of an installer is kept as its steps leave it (Pauses), for   *)
(* any volumes, installers and number of mishaps.                            *)
THEOREM ReminderPauses == ReminderSpec => []Pauses
<1>1. ReminderInit => Pauses
  BY DEF ReminderInit, Pauses, Pause, Claims, Persists, Owes, Preparing,
         Recorded
<1>2. ReminderTypeOK /\ Pauses /\ [ReminderNext]_reminderVars => Pauses'
  BY PauseNext
<1> QED
  BY <1>1, <1>2, ReminderTypes, PTL DEF ReminderSpec

(* Wherever staging is cut off, a volume whose protection an installer has   *)
(* paused has its unfinished record, its program and its task, until the     *)
(* user resumes it or gives the reminder up.                                 *)
THEOREM ReminderOwesPause == ReminderSpec => []PauseIsOwed
<1>1. Pauses => PauseIsOwed
  BY DEF Pauses, Pause, Owes, PauseIsOwed
<1> QED
  BY <1>1, ReminderPauses, PTL

(* The app resumes protection only while no installer waits, from the look   *)
(* at the installers to the change.                                          *)
THEOREM ReminderResumeYields == ReminderSpec => ResumeYields
<1> DEFINE Yields ==
      \A v \in Volumes :
        lock[v] = "job" /\ AtPlace(v, "enable") /\ volume'[v] # volume[v]
          /\ ~ours'[v] /\ place' # place => ~InstallerWaits
<1>1. Pauses => [Yields]_reminderVars
  BY DEF Pauses, Pause, Claims, AtPlace
<1> QED
  BY <1>1, ReminderPauses, PTL DEF ReminderSpec, ResumeYields
=============================================================================
