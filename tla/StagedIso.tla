---------------------------- MODULE StagedIso ------------------------------
(* The staged-installer provider (providers/staged-iso): it puts an installer *)
(* on two partitions of its own and a firmware entry, selects it for one     *)
(* start and removes it again. Each operation has a record on disk; a script *)
(* runs under one machine-wide mutex and may be cut off after any step, and  *)
(* between the scripts the machine restarts, the firmware rewrites its       *)
(* entries and another system changes the disk.                              *)
EXTENDS Integers, FiniteSets

CONSTANTS
  Ops,        \* staging operations, one per reviewed plan
  Slots,      \* firmware entries that are free when the machine is new
  Home,       \* the firmware entry Windows was installed with
  NoSlot,     \* no firmware entry
  Unused,     \* a firmware entry nobody has
  Others,     \* a firmware entry of the firmware or of another system
  NoJob,      \* no script runs
  MaxFaults   \* bound on scripts cut off, restarts and foreign changes

ASSUME StagedAssumption ==
  /\ NoSlot \notin Slots \cup {Home} /\ Home \notin Slots
  /\ Ops \cap {NoJob, Unused, Others} = {}
  /\ Unused # Others /\ MaxFaults \in Nat

VARIABLES
  part,      \* what each operation's partitions hold, by role
  entry,     \* the operation each firmware entry starts: its path, whatever
             \* description or attributes the firmware gives it
  order,     \* BootOrder, empty when it cannot be read
  next,      \* BootNext
  current,   \* BootCurrent of the last start of Windows, NoSlot when missing
  record,    \* state.json of each operation
  recent,    \* operations whose scheduledBootUnixSeconds is the current boot
  paused,    \* BitLocker protection is suspended
  up,        \* what runs: Windows, the firmware or another system
  job,       \* the operation of the running script
  pc,        \* the step it is at
  boot,      \* the firmware entry the script has in memory
  faults

world == <<entry, order, next, current>>
script == <<job, pc, boot>>
vars == <<part, entry, order, next, current, record, recent, paused, up, job,
          pc, boot, faults>>

(* $State.partitions: the installer's EFI partition and the ISO's files.     *)
Roles == {"efi", "source"}
Formats == [efi |-> "format efi", source |-> "format source"]
Fills == [efi |-> "fill efi", source |-> "fill source"]
Deletes == [efi |-> "delete efi", source |-> "delete source"]

(* The statuses a write leaves its record in, from the first change on.      *)
Recoverable == {"allocation-starting", "copying", "registering-boot", "staged",
                "arming", "boot-scheduled", "cleaning"}
(* Read-StagingState finds a record it can use.                              *)
Readable == Recoverable \cup {"preparing", "cleaned"}
Selectable == {"staged", "arming", "boot-scheduled"}

Init ==
  /\ part = [o \in Ops |-> [r \in Roles |-> "none"]]
  /\ entry = [s \in Slots |-> Unused]
  /\ order = {Home} /\ next = NoSlot /\ current = Home
  /\ record = [o \in Ops |-> [status |-> "none", boot |-> NoSlot,
                              pauses |-> FALSE]]
  /\ recent = {}
  /\ paused \in BOOLEAN
  /\ up = "windows"
  /\ job = NoJob /\ pc = "idle" /\ boot = NoSlot
  /\ faults = 0

------------------------------------------------------------------------------
(* The script of one operation: the mutex, its steps, its record.            *)

Free == job = NoJob /\ up = "windows"
At(o, step) == job = o /\ pc = step
Goto(step) == pc' = step /\ UNCHANGED <<job, boot>>
Start(o, step) == job' = o /\ pc' = step /\ boot' = record[o].boot
Done == job' = NoJob /\ pc' = "idle" /\ boot' = NoSlot

(* Save-StagingState.                                                        *)
Save(o, status) ==
  record' = [record EXCEPT ![o].status = status, ![o].boot = boot]

(* Get-OwnedStagingPartition: the recorded GUID still has the recorded       *)
(* extent and type.                                                          *)
Owned(o, r) == part[o][r] \notin {"none", "changed"}

Fault == faults < MaxFaults /\ faults' = faults + 1

(* A throw, Stop, a killed helper or a power loss ends the script; the mutex *)
(* is released or abandoned and what it had in memory is gone.               *)
Stops ==
  /\ job # NoJob
  /\ Done /\ Fault
  /\ UNCHANGED <<part, world, record, recent, paused, up>>

------------------------------------------------------------------------------
(* InspectWindowsBoot: Windows was started by its own entry of the boot      *)
(* order, and the only one-time boot that may be pending is the caller's.    *)
Pending(s) == next \in {NoSlot, s}
Inspected(s) == current \in order /\ Pending(s)

------------------------------------------------------------------------------
(* stage: Invoke-StagingWrite.                                               *)

(* The operation's directory is new.                                         *)
StageBegin(o) ==
  /\ Free /\ record[o].status = "none" /\ Inspected(NoSlot)
  /\ Start(o, "create")
  /\ record' = [record EXCEPT ![o].status = "empty", ![o].pauses = ~paused]
  /\ UNCHANGED <<part, world, recent, paused, up, faults>>

Create(o) ==
  /\ At(o, "create")
  /\ Save(o, "preparing") /\ Goto("verify")
  /\ UNCHANGED <<part, world, recent, paused, up, faults>>

(* Remove-StagingRecord, when the partition can no longer shrink.            *)
Withdraw(o) ==
  /\ At(o, "verify") /\ record[o].status = "preparing"
  /\ record' = [record EXCEPT ![o].status = "removed"]
  /\ Done
  /\ UNCHANGED <<part, world, recent, paused, up, faults>>

(* Mutant: what will be allocated is recorded with the copy, not before.     *)
Verify_unsaved(o) ==
  /\ At(o, "verify")
  /\ Goto("suspend")
  /\ UNCHANGED <<part, world, record, recent, paused, up, faults>>

(* The image, its files and the shrink limit are checked.                    *)
Verify(o) ==
  /\ At(o, "verify")
  /\ Save(o, "allocation-starting") /\ Goto("suspend")
  /\ UNCHANGED <<part, world, recent, paused, up, faults>>

(* Start-StagingSuspension, and the shrink.                                  *)
Suspend(o) ==
  /\ At(o, "suspend")
  /\ paused' = TRUE
  /\ Goto("allocate")
  /\ UNCHANGED <<part, world, record, recent, up, faults>>

(* AllocateStaging writes both entries of the partition table at once.       *)
Allocate(o) ==
  /\ At(o, "allocate")
  /\ part' = [part EXCEPT ![o] = [r \in Roles |-> "raw"]]
  /\ Goto("allocated")
  /\ UNCHANGED <<world, record, recent, paused, up, faults>>

Allocated(o) ==
  /\ At(o, "allocated")
  /\ Save(o, "copying") /\ Goto("format efi")
  /\ UNCHANGED <<part, world, recent, paused, up, faults>>

(* A new volume is formatted, only while it is raw ...                       *)
Format(o, r) ==
  /\ At(o, Formats[r])
  /\ IF part[o][r] = "raw"
     THEN part' = [part EXCEPT ![o][r] = "partial"] /\ Goto(Fills[r])
     ELSE UNCHANGED part /\ Done
  /\ UNCHANGED <<world, record, recent, paused, up, faults>>

(* ... and gets its files: the loader and the menu, published when verified, *)
(* or the ISO's, read back, and the marker.                                  *)
Fill(o, r) ==
  /\ At(o, Fills[r])
  /\ IF Owned(o, r)
     THEN /\ part' = [part EXCEPT ![o][r] = "ours"]
          /\ Goto(IF r = "efi" THEN "format source" ELSE "reserve")
     ELSE UNCHANGED part /\ Done
  /\ UNCHANGED <<world, record, recent, paused, up, faults>>

(* Assert-StagingEncryption, ReserveStagingBootName and the record of it.    *)
Reserve(o) ==
  /\ At(o, "reserve")
  /\ \/ /\ paused /\ Owned(o, "efi")
        /\ \E s \in Slots :
             /\ entry[s] = Unused
             /\ boot' = s
             /\ record' = [record EXCEPT ![o].status = "registering-boot",
                                         ![o].boot = s]
        /\ pc' = "register" /\ UNCHANGED job
     \/ /\ \/ ~paused \/ ~Owned(o, "efi")
           \/ \A s \in Slots : entry[s] # Unused
        /\ Done /\ UNCHANGED record
  /\ UNCHANGED <<part, world, recent, paused, up, faults>>

(* RegisterStagingBoot: the boot order stays as it is.                       *)
Register(o) ==
  /\ At(o, "register") /\ entry[boot] = Unused
  /\ entry' = [entry EXCEPT ![boot] = o]
  /\ Goto("registered")
  /\ UNCHANGED <<part, order, next, current, record, recent, paused, up, faults>>

Registered(o) ==
  /\ At(o, "registered")
  /\ Save(o, "staged") /\ Done
  /\ UNCHANGED <<part, world, recent, paused, up, faults>>

------------------------------------------------------------------------------
(* arm, firmware and resume.                                                 *)

(* Invoke-StagingArm, its first checks.                                      *)
ArmBegin(o) ==
  /\ Free /\ record[o].status \in Selectable
  /\ \A r \in Roles : Owned(o, r)
  /\ paused /\ Inspected(record[o].boot)
  /\ Start(o, "files")
  /\ UNCHANGED <<part, world, record, recent, paused, up, faults>>

(* The installer's files are hashed again, which takes minutes.              *)
ArmFiles(o) ==
  /\ At(o, "files")
  /\ IF \A r \in Roles : part[o][r] = "ours"
     THEN Save(o, "arming") /\ Goto("restore")
     ELSE UNCHANGED record /\ Done
  /\ UNCHANGED <<part, world, recent, paused, up, faults>>

(* RestoreStagingBoot: the recorded slot while it is free or still ours,     *)
(* otherwise a free one.                                                     *)
Restore(o) ==
  /\ At(o, "restore")
  /\ LET kept == entry[boot] \in {Unused, o}
         slots == IF kept THEN {boot} ELSE {s \in Slots : entry[s] = Unused}
     IN \/ \E s \in slots :
             /\ entry' = [entry EXCEPT ![s] = o]
             /\ boot' = s /\ pc' = "restored" /\ UNCHANGED job
        \/ slots = {} /\ Done /\ UNCHANGED entry
  /\ UNCHANGED <<part, order, next, current, record, recent, paused, up, faults>>

(* Only now does the record learn that the entry moved.                      *)
Restored(o) ==
  /\ At(o, "restored")
  /\ IF boot # record[o].boot THEN Save(o, record[o].status) ELSE UNCHANGED record
  /\ Goto("select")
  /\ UNCHANGED <<part, world, recent, paused, up, faults>>

(* ArmStagingBoot.                                                           *)
Select(o) ==
  /\ At(o, "select")
  /\ IF entry[boot] = o /\ Pending(boot)
     THEN next' = boot /\ Goto("selected")
     ELSE UNCHANGED next /\ Done
  /\ UNCHANGED <<part, entry, order, current, record, recent, paused, up, faults>>

Selected(o) ==
  /\ At(o, "selected")
  /\ Save(o, "boot-scheduled") /\ recent' = recent \cup {o} /\ Done
  /\ UNCHANGED <<part, world, paused, up, faults>>

(* Test-StagedInstallerWaiting.                                              *)
Waiting ==
  \E o \in Ops : \/ record[o].status \in {"staged", "arming"}
                 \/ record[o].status = "boot-scheduled" /\ o \in recent

(* Invoke-StagingResume: only a pause this installer made, and no installer  *)
(* waits.                                                                    *)
Resume(o) ==
  /\ Free /\ record[o].status \in Readable /\ record[o].pauses
  /\ paused => ~Waiting
  /\ paused' = FALSE
  /\ record' = [record EXCEPT ![o].pauses = FALSE]
  /\ UNCHANGED <<part, world, recent, up, script, faults>>

------------------------------------------------------------------------------
(* cleanup: Invoke-StagingCleanup.                                           *)

Removable(o) == record[o].status \in Readable \ {"cleaned"}

(* A missing partition is fine, a changed one is refused.                    *)
MayRemove(o) == \A r \in Roles : part[o][r] # "changed"

(* Mutant: a removal wants both partitions to be there.                      *)
CleanBegin_present(o) ==
  /\ Free /\ Removable(o) /\ \A r \in Roles : Owned(o, r)
  /\ part[o]["efi"] # "foreign"
  /\ Start(o, "unhook")
  /\ UNCHANGED <<part, world, record, recent, paused, up, faults>>

(* Mutant: a removal that had begun goes on without another look.            *)
CleanBegin_resumed(o) ==
  /\ Free /\ Removable(o) /\ MayRemove(o)
  /\ record[o].status # "cleaning" => part[o]["efi"] # "foreign"
  /\ Start(o, "unhook")
  /\ UNCHANGED <<part, world, record, recent, paused, up, faults>>

(* Both partitions, then Assert-StagingCleanupBootFiles: no file that is not *)
(* ours on the EFI partition.                                                *)
CleanBegin(o) ==
  /\ Free /\ Removable(o) /\ MayRemove(o)
  /\ part[o]["efi"] # "foreign"
  /\ Start(o, "unhook")
  /\ UNCHANGED <<part, world, record, recent, paused, up, faults>>

(* RemoveStagingBoot wants to know what the machine was booted by, and that  *)
(* it was not the recorded entry. It looks before it sees whether the        *)
(* firmware reuses that entry.                                               *)
Elsewhere(s) == current \notin {NoSlot, s}
Ours(o, s) == entry[s] \in {Unused, o}

(* It wants a boot order that lists something else.                          *)
Stranded(s) == order \ {s} = {}

(* BootNext, the order and the entry, in this order, and none of them once   *)
(* the firmware reuses the slot.                                             *)
Unhook(o) ==
  /\ At(o, "unhook") /\ boot # NoSlot /\ Elsewhere(boot) /\ Ours(o, boot)
  /\ \/ next = boot /\ next' = NoSlot /\ UNCHANGED <<order, entry>>
     \/ /\ next # boot /\ ~Stranded(boot) /\ boot \in order
        /\ order' = order \ {boot} /\ UNCHANGED <<next, entry>>
     \/ /\ next # boot /\ ~Stranded(boot) /\ boot \notin order
        /\ entry[boot] # Unused
        /\ entry' = [entry EXCEPT ![boot] = Unused] /\ UNCHANGED <<next, order>>
  /\ UNCHANGED <<part, current, record, recent, paused, up, script, faults>>

(* It throws, and the removal ends with everything still recorded.           *)
UnhookRefused(o) ==
  /\ At(o, "unhook") /\ boot # NoSlot
  /\ \/ ~Elsewhere(boot)
     \/ Ours(o, boot) /\ next # boot /\ Stranded(boot)
  /\ Done
  /\ UNCHANGED <<part, world, record, recent, paused, up, faults>>

Unhooked(o) ==
  /\ At(o, "unhook")
  /\ boot # NoSlot =>
       /\ Elsewhere(boot)
       /\ Ours(o, boot) => /\ entry[boot] = Unused /\ next # boot
                           /\ boot \notin order /\ ~Stranded(boot)
  /\ Save(o, "cleaning") /\ Goto("delete source")
  /\ UNCHANGED <<part, world, recent, paused, up, faults>>

(* The partition is looked up again; DeleteStagingPartition removes exactly  *)
(* its entry of the table.                                                   *)
Delete(o, r) ==
  /\ At(o, Deletes[r])
  /\ IF part[o][r] = "changed"
     THEN UNCHANGED part /\ Done
     ELSE /\ part' = [part EXCEPT ![o][r] = "none"]
          /\ Goto(IF r = "source" THEN "delete efi" ELSE "deleted")
  /\ UNCHANGED <<world, record, recent, paused, up, faults>>

Deleted(o) ==
  /\ At(o, "deleted")
  /\ Save(o, "cleaned") /\ Done
  /\ UNCHANGED <<part, world, recent, paused, up, faults>>

------------------------------------------------------------------------------
(* What else happens to the machine.                                         *)

(* A restart ends the script, Invoke-StagingFirmware's among them.           *)
Restart ==
  /\ \/ up = "windows" /\ Fault
     \/ up = "other" /\ UNCHANGED faults
  /\ up' = "firmware" /\ recent' = {} /\ Done
  /\ UNCHANGED <<part, world, record, paused>>

(* The firmware drops or reuses an entry, or changes its boot order.         *)
Firmware(s) ==
  /\ up = "firmware" /\ Fault
  /\ \/ /\ s \in Slots
        /\ \E now \in {Unused, Others} \ {entry[s]} :
             entry' = [entry EXCEPT ![s] = now]
        /\ UNCHANGED order
     \/ /\ order' = IF s \in order THEN order \ {s} ELSE order \cup {s}
        /\ UNCHANGED entry
  /\ UNCHANGED <<part, next, current, record, recent, paused, up, script>>

(* BootNext is used once; its entry starts the installer while its files are *)
(* there. Windows starts by its own entry, by one the firmware reuses for    *)
(* it, or the firmware does not say by which.                                *)
Starts(o) ==
  next # NoSlot /\ entry[next] = o /\ part[o]["efi"] \in {"ours", "foreign"}
BootOther ==
  /\ up = "firmware" /\ up' = "other" /\ next' = NoSlot
  /\ UNCHANGED <<part, entry, order, current, record, recent, paused, script,
                 faults>>
BootWindows ==
  /\ up = "firmware" /\ ~\E o \in Ops : Starts(o)
  /\ up' = "windows" /\ next' = NoSlot
  /\ current' \in {Home, NoSlot} \cup {s \in Slots : entry[s] = Others}
  /\ UNCHANGED <<part, entry, order, record, recent, paused, script, faults>>

(* An installed system puts its boot files on the temporary EFI partition.   *)
Adopt(o) ==
  /\ up = "other" /\ part[o]["efi"] \in {"partial", "ours"} /\ Fault
  /\ part' = [part EXCEPT ![o]["efi"] = "foreign"]
  /\ UNCHANGED <<world, record, recent, paused, up, script>>

(* Someone deletes a temporary partition or gives it another extent.         *)
Repartition(o, r) ==
  /\ up # "firmware" /\ part[o][r] # "none" /\ Fault
  /\ \E now \in {"none", "changed"} \ {part[o][r]} :
       part' = [part EXCEPT ![o][r] = now]
  /\ UNCHANGED <<world, record, recent, paused, up, script>>

(* The user or the sign-in reminder resumes protection, without the mutex.   *)
Protect ==
  /\ up = "windows" /\ paused /\ Fault
  /\ paused' = FALSE
  /\ UNCHANGED <<part, world, record, recent, up, script>>

------------------------------------------------------------------------------
(* Steps of a script that runs.                                              *)
Stage(o) ==
  \/ Create(o) \/ Withdraw(o) \/ Verify(o) \/ Suspend(o) \/ Allocate(o)
  \/ Allocated(o) \/ Reserve(o) \/ Register(o) \/ Registered(o)
  \/ \E r \in Roles : Format(o, r) \/ Fill(o, r)
Arm(o) ==
  ArmFiles(o) \/ Restore(o) \/ Restored(o) \/ Select(o) \/ Selected(o)
Cleanup(o) ==
  \/ Unhook(o) \/ UnhookRefused(o) \/ Unhooked(o) \/ Deleted(o)
  \/ \E r \in Roles : Delete(o, r)
Step(o) == Stage(o) \/ Arm(o) \/ Cleanup(o)

Machine ==
  \/ Restart \/ BootOther \/ BootWindows \/ Protect
  \/ \E s \in Slots \cup {Home} : Firmware(s)
  \/ \E o \in Ops : Adopt(o) \/ \E r \in Roles : Repartition(o, r)

Next ==
  \/ \E o \in Ops : \/ StageBegin(o) \/ ArmBegin(o) \/ Resume(o)
                    \/ CleanBegin(o) \/ Step(o)
  \/ Stops \/ Machine

Spec == Init /\ [][Next]_vars

(* Fairness: a running script goes on, the user asks for the removal again   *)
(* and again whenever nothing else runs, the machine starts, another system  *)
(* is left some day and Windows is started again and again. Nothing that     *)
(* goes wrong is owed.                                                       *)
FairSpec ==
  /\ Spec
  /\ \A o \in Ops : WF_vars(Step(o)) /\ SF_vars(CleanBegin(o))
  /\ WF_vars(Restart /\ up = "other") /\ WF_vars(BootOther)
  /\ SF_vars(BootWindows)

------------------------------------------------------------------------------
(* Properties.                                                               *)

Steps == {"idle", "create", "verify", "suspend", "allocate", "allocated",
          "format efi", "format source", "fill efi", "fill source", "reserve",
          "register", "registered", "files", "restore", "restored", "select",
          "selected", "unhook", "delete source", "delete efi", "deleted"}

TypeOK ==
  /\ part \in [Ops -> [Roles -> {"none", "raw", "partial", "ours", "foreign",
                                 "changed"}]]
  /\ entry \in [Slots -> Ops \cup {Unused, Others}]
  /\ order \subseteq Slots \cup {Home}
  /\ next \in Slots \cup {NoSlot}
  /\ current \in Slots \cup {Home, NoSlot}
  /\ record \in [Ops -> [status : Readable \cup {"none", "empty", "removed"},
                         boot : Slots \cup {NoSlot}, pauses : BOOLEAN]]
  /\ recent \subseteq Ops
  /\ paused \in BOOLEAN
  /\ up \in {"windows", "firmware", "other"}
  /\ job \in Ops \cup {NoJob} /\ pc \in Steps /\ boot \in Slots \cup {NoSlot}
  /\ faults \in 0..MaxFaults

(* Wherever a script is cut off, a partition it made has a readable record   *)
(* that is neither from before the change nor closed, so that a removal can  *)
(* find it ("Before allocation, the protected record ... records ...").      *)
PartitionsAreRecorded ==
  \A o \in Ops : (\E r \in Roles : part[o][r] # "none") =>
                   record[o].status \in Recoverable

(* A removal deletes its own, unchanged partitions and never an EFI          *)
(* partition another system has put its boot files on ("it may now boot an   *)
(* installed OS"), however often it was interrupted and restarted.           *)
DeletesOnlyOwn ==
  [][\A o \in Ops, r \in Roles :
       part[o][r] # "none" /\ part'[o][r] = "none" /\ pc' # pc =>
         job = o /\ part[o][r] \in {"raw", "partial", "ours"}]_vars

(* A removal that is asked for again and again ends, whatever was cut off,   *)
(* restarted, dropped or deleted before, unless a partition has changed      *)
(* hands or the firmware leaves no safe entry to start from: Windows was     *)
(* started by the recorded entry or by one nobody knows, or the boot order   *)
(* lists nothing else.                                                       *)
HookBlocked(o, s) ==
  s # NoSlot /\ (~Elsewhere(s) \/ (Ours(o, s) /\ Stranded(s)))
Blocked(o) ==
  \/ ~MayRemove(o) \/ part[o]["efi"] = "foreign"
  \/ HookBlocked(o, record[o].boot)
RemovalEnds ==
  \A o \in Ops : <>[](Removable(o) => Blocked(o))
=============================================================================
