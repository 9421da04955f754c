------------------------ MODULE BitLockerReminder --------------------------
(* The BitLocker reminder (providers/windows-bitlocker/BitLockerSetup.ps1)   *)
(* and its users: a staged installer pauses protection of the volumes it     *)
(* needs, each behind a record, a copy of the program and a task that asks   *)
(* at every sign-in; the reminder's window and the app resume protection     *)
(* again or the user gives the reminder up. Scripts and windows are cut off  *)
(* at any step, and the user changes BitLocker in Windows at any time.       *)
EXTENDS Naturals, FiniteSets

CONSTANTS
  Volumes,     \* the volumes a preparation affects
  System,      \* the volume Windows runs from
  Installers,  \* staging operations
  NoOne,       \* no staging operation
  MaxMishaps   \* bound on failures, cut-offs and changes by the user

ASSUME ReminderAssumption ==
  /\ System \in Volumes /\ NoOne \notin Installers /\ MaxMishaps \in Nat

VARIABLES
  volume,     \* what Windows says of each volume
  ours,       \* history: its suspension is the one an installer made
  reminder,   \* state.json of each volume: status and origin
  worker,     \* the program's copy that its task runs
  task,       \* volumes with a scheduled task
  lock,       \* who has operation.lock of each volume
  place,      \* the step its owner is at
  view,       \* what the open window offers
  due,        \* volumes whose task starts, a minute after sign-in
  installer,  \* the record of each staging operation
  running,    \* what the helper runs
  op,         \* for which staging operation
  todo,       \* the volumes it has not dealt with
  app,        \* the app is open
  mishaps

reminders == <<reminder, worker, task>>
holder == <<lock, place, view, due>>
helper == <<running, op, todo>>
reminderVars == <<volume, ours, reminder, worker, task, lock, place, view,
                  due, installer, running, op, todo, app, mishaps>>

Finished == {"declined", "restored", "not-started"}
Unfinished == {"armed", "pending"}
NoView == [resume |-> FALSE, decline |-> FALSE]

ReminderInit ==
  /\ volume \in [Volumes -> {"on", "paused", "off"}]
  /\ ours = [v \in Volumes |-> FALSE]
  /\ reminder = [v \in Volumes |-> [status |-> "none", origin |-> "none"]]
  /\ worker = [v \in Volumes |-> "none"]
  /\ task = {} /\ due = {}
  /\ lock = [v \in Volumes |-> "free"] /\ place = [v \in Volumes |-> "none"]
  /\ view = [v \in Volumes |-> NoView]
  /\ installer = [o \in Installers |-> [status |-> "none", pauses |-> {}]]
  /\ running = "none" /\ op = NoOne /\ todo = {}
  /\ app = TRUE /\ mishaps = 0

Mishap == mishaps < MaxMishaps /\ mishaps' = mishaps + 1

------------------------------------------------------------------------------
(* Decisions.                                                                *)

(* Get-FollowupDecision.                                                     *)
Decision(v) ==
  CASE reminder[v].status \in Finished -> "finished"
    [] reminder[v].status \in Unfinished /\ volume[v] = "on" -> "restored"
    [] reminder[v].status = "armed" /\ volume[v] # "on" -> "uncertain"
    [] reminder[v].status = "pending" /\ volume[v] = "paused" -> "suspended"
    [] reminder[v].status = "pending" /\ volume[v] = "off" -> "ask"
    [] OTHER -> volume[v]

(* Test-StagedInstallerWaiting: staged or selected, and not started yet.     *)
InstallerWaits == \E o \in Installers : installer[o].status = "waiting"

(* Get-FollowupOffer: a pause whose receipt was interrupted is shown, and    *)
(* resumed, as a pause.                                                      *)
Paused(v) ==
  /\ reminder[v].origin = "suspension"
  /\ Decision(v) \in {"suspended", "uncertain"} /\ volume[v] = "paused"
Shown(v) == IF Paused(v) THEN "suspended" ELSE Decision(v)

(* Get-FollowupView: the buttons the window has, for as long as it is open.  *)
View(v) ==
  [resume |-> Paused(v) /\ ~InstallerWaits,
   decline |-> /\ Shown(v) \in {"ask", "uncertain", "suspended"}
               /\ ~(Shown(v) = "suspended" /\ InstallerWaits)]

(* Mutant: the app's card keeps every reminder quiet while it is open.       *)
Quiet_any(v) == Shown(v) = "suspended" /\ app

(* Test-AppFollowupOpen and Test-AppCoversVolume: the app is open, and an    *)
(* installer that is not removed lists the volume as paused.                 *)
Quiet(v) ==
  /\ Shown(v) = "suspended" /\ app
  /\ \E o \in Installers : /\ installer[o].status \notin {"none", "cleaned"}
                           /\ v \in installer[o].pauses

------------------------------------------------------------------------------
(* The lock of a volume and the helper's job.                                *)

AtPlace(v, step) == place[v] = step
GoOn(v, step) ==
  place' = [place EXCEPT ![v] = step] /\ UNCHANGED <<lock, view, due, helper>>
Hold(v, who, step) ==
  /\ lock[v] = "free"
  /\ lock' = [lock EXCEPT ![v] = who] /\ place' = [place EXCEPT ![v] = step]

(* The owner is done with the volume.                                        *)
Leave(v) ==
  /\ lock' = [lock EXCEPT ![v] = "free"] /\ place' = [place EXCEPT ![v] = "none"]
  /\ view' = [view EXCEPT ![v] = NoView]
  /\ todo' = IF lock[v] = "job" THEN todo \ {v} ELSE todo
  /\ UNCHANGED <<due, running, op>>

Begin(kind, o, volumes) ==
  /\ running = "none"
  /\ running' = kind /\ op' = o /\ todo' = volumes
  /\ UNCHANGED holder

(* The job ends, wherever it is; finally blocks and Windows drop its locks.  *)
JobOver ==
  /\ running' = "none" /\ op' = NoOne /\ todo' = {}
  /\ lock' = [v \in Volumes |-> IF lock[v] = "job" THEN "free" ELSE lock[v]]
  /\ place' = [v \in Volumes |-> IF lock[v] = "job" THEN "none" ELSE place[v]]
  /\ UNCHANGED <<view, due>>

SaveStatus(v, status) == reminder' = [reminder EXCEPT ![v].status = status]

(* A step throws, or the helper is ended.                                    *)
JobFails ==
  /\ running # "none" /\ Mishap
  /\ JobOver
  /\ UNCHANGED <<volume, ours, reminders, installer, app>>

------------------------------------------------------------------------------
(* Preparation of an installer: Start-StagingSuspension.                     *)

Active == {v \in Volumes : volume[v] = "on"}
Steady == \A v \in Volumes : volume[v] \in {"on", "paused", "off"}

(* The plan records which volumes were protected when it was made; the       *)
(* write compares them again. Existing suspensions are left alone.           *)
BeginStaging(o) ==
  /\ installer[o].status = "none" /\ Steady
  /\ Begin("stage", o, Active)
  /\ installer' = [installer EXCEPT ![o] = [status |-> "preparing",
                                            pauses |-> Active]]
  /\ UNCHANGED <<volume, ours, reminders, app, mishaps>>

(* A reminder at the user's request, without a change of encryption.         *)
BeginReminder ==
  /\ volume[System] \in {"off", "decrypting"}
  /\ Begin("remind", NoOne, {System})
  /\ UNCHANGED <<volume, ours, reminders, installer, app, mishaps>>

(* Get-EncryptionLock.                                                       *)
Prepare(v) ==
  /\ running \in {"stage", "remind"} /\ v \in todo
  /\ "job" \notin {lock[w] : w \in Volumes}
  /\ Hold(v, "job", "record")
  /\ UNCHANGED <<volume, ours, reminders, view, due, installer, helper, app,
                 mishaps>>

(* Get-EncryptionEligibility.                                                *)
Eligible(v) ==
  IF running = "stage" THEN volume[v] = "on"
                       ELSE volume[v] \in {"off", "decrypting"}

(* Register-EncryptionReminder: an earlier reminder must be over ...         *)
Reconcile(v) ==
  /\ AtPlace(v, "record") /\ Eligible(v)
  /\ \/ reminder[v].status = "none" /\ GoOn(v, "copy") /\ UNCHANGED reminder
     \/ /\ Decision(v) = "restored"
        /\ SaveStatus(v, "restored") /\ GoOn(v, "retire")
     \/ Decision(v) = "finished" /\ GoOn(v, "retire") /\ UNCHANGED reminder
  /\ UNCHANGED <<volume, ours, worker, task, installer, app, mishaps>>

(* ... and its task goes before its program is replaced.                     *)
Retire(v) ==
  /\ AtPlace(v, "retire")
  /\ task' = task \ {v} /\ GoOn(v, "copy")
  /\ UNCHANGED <<volume, ours, reminder, worker, installer, app, mishaps>>

Copy(v) ==
  /\ AtPlace(v, "copy")
  /\ worker' = [worker EXCEPT ![v] = "torn"] /\ GoOn(v, "copied")
  /\ UNCHANGED <<volume, ours, reminder, task, installer, app, mishaps>>

Copied(v) ==
  /\ AtPlace(v, "copied")
  /\ worker' = [worker EXCEPT ![v] = "whole"] /\ GoOn(v, "arm")
  /\ UNCHANGED <<volume, ours, reminder, task, installer, app, mishaps>>

ArmRecord(v) ==
  /\ AtPlace(v, "arm")
  /\ reminder' = [reminder EXCEPT ![v] =
       IF running = "stage" THEN [status |-> "armed", origin |-> "suspension"]
                        ELSE [status |-> "pending", origin |-> "opt-in"]]
  /\ GoOn(v, "register")
  /\ UNCHANGED <<volume, ours, worker, task, installer, app, mishaps>>

(* RegisterTask; then the task is read back and compared.                    *)
AddTask(v) ==
  /\ AtPlace(v, "register")
  /\ task' = task \cup {v} /\ GoOn(v, "check")
  /\ UNCHANGED <<volume, ours, reminder, worker, installer, app, mishaps>>

TaskAdded(v) ==
  /\ AtPlace(v, "check")
  /\ IF running = "stage" THEN GoOn(v, "disable") ELSE Leave(v)
  /\ UNCHANGED <<volume, ours, reminders, installer, app, mishaps>>

(* Mutant: a task that could not be registered is no reason to stop.         *)
TaskRefused_swallowed(v) ==
  /\ place[v] \in {"register", "check"} /\ Mishap
  /\ SaveStatus(v, "not-started") /\ GoOn(v, "disable")
  /\ UNCHANGED <<volume, ours, worker, task, installer, app>>

(* Either fails: a terminal record, and no change of protection.             *)
TaskRefused(v) ==
  /\ place[v] \in {"register", "check"} /\ Mishap
  /\ SaveStatus(v, "not-started") /\ JobOver
  /\ UNCHANGED <<volume, ours, worker, task, installer, app>>

(* DisableKeyProtectors, on facts read again; and its receipt.               *)
Disable(v) ==
  /\ AtPlace(v, "disable") /\ Eligible(v)
  /\ volume' = [volume EXCEPT ![v] = "paused"]
  /\ ours' = [ours EXCEPT ![v] = TRUE]
  /\ GoOn(v, "receipt")
  /\ UNCHANGED <<reminders, installer, app, mishaps>>

Receipt(v) ==
  /\ AtPlace(v, "receipt") /\ volume[v] = "paused"
  /\ SaveStatus(v, "pending") /\ Leave(v)
  /\ UNCHANGED <<volume, ours, worker, task, installer, app, mishaps>>

(* What a look at the volume refuses.                                        *)
Refused(v) ==
  \/ AtPlace(v, "record") /\ ~Eligible(v)
  \/ AtPlace(v, "record") /\ Eligible(v) /\ reminder[v].status # "none"
       /\ Decision(v) \notin {"finished", "restored"}
  \/ AtPlace(v, "disable") /\ ~Eligible(v)
  \/ AtPlace(v, "receipt") /\ volume[v] # "paused"
Refuses(v) ==
  /\ Refused(v) /\ JobOver
  /\ UNCHANGED <<volume, ours, reminders, installer, app, mishaps>>

(* Assert-StagingEncryption; what else a staging does is in StagedIso.       *)
Staged ==
  /\ running = "stage" /\ todo = {} /\ Active = {} /\ Steady
  /\ installer' = [installer EXCEPT ![op].status = "waiting"]
  /\ JobOver
  /\ UNCHANGED <<volume, ours, reminders, app, mishaps>>

(* A job without volumes left; a staging whose volumes changed; a volume     *)
(* whose lock another has.                                                   *)
Ends ==
  /\ \/ running = "remind" /\ todo = {}
     \/ running = "stage" /\ todo = {} /\ ~(Active = {} /\ Steady)
     \/ running # "none" /\ \E v \in todo :
          lock[v] = "window" /\ (running = "resume" => volume[v] # "on")
  /\ JobOver
  /\ UNCHANGED <<volume, ours, reminders, installer, app, mishaps>>

------------------------------------------------------------------------------
(* Protection is resumed, by the app (Invoke-StagingResume) or the window.   *)

BeginResume(o) ==
  /\ installer[o].status # "none" /\ installer[o].pauses # {}
  /\ Begin("resume", o, installer[o].pauses)
  /\ UNCHANGED <<volume, ours, reminders, installer, app, mishaps>>

(* A volume that is protected again counts as resumed ...                    *)
Skip(v) ==
  /\ running = "resume" /\ v \in todo /\ lock[v] # "job" /\ volume[v] = "on"
  /\ todo' = todo \ {v}
  /\ UNCHANGED <<volume, ours, reminders, holder, installer, running, op, app,
                 mishaps>>

(* ... another is looked at under the reminder's lock.                       *)
Claim(v) ==
  /\ running = "resume" /\ v \in todo /\ volume[v] # "on"
  /\ "job" \notin {lock[w] : w \in Volumes}
  /\ IF reminder[v].status # "none" /\ ~InstallerWaits
     THEN Hold(v, "job", "enable") /\ UNCHANGED <<view, due, helper>>
     ELSE JobOver
  /\ UNCHANGED <<volume, ours, reminders, installer, app, mishaps>>

(* The user confirms; whether an installer waits is read first.              *)
Confirm(v) ==
  /\ AtPlace(v, "shown") /\ view[v].resume /\ ~InstallerWaits
  /\ GoOn(v, "enable")
  /\ UNCHANGED <<volume, ours, reminders, installer, app, mishaps>>

(* Resume-OwnedProtection.                                                   *)
Enable(v) ==
  /\ AtPlace(v, "enable") /\ Paused(v)
  /\ volume' = [volume EXCEPT ![v] = "on"]
  /\ ours' = [ours EXCEPT ![v] = FALSE]
  /\ GoOn(v, "verify")
  /\ UNCHANGED <<reminders, installer, app, mishaps>>

Verified(v) ==
  /\ AtPlace(v, "verify") /\ Decision(v) = "restored"
  /\ SaveStatus(v, "restored") /\ GoOn(v, "remove")
  /\ UNCHANGED <<volume, ours, worker, task, installer, app, mishaps>>

(* What was read changed: the app's job ends, the window stays.              *)
Unverified(v) ==
  /\ \/ AtPlace(v, "enable") /\ ~Paused(v)
     \/ AtPlace(v, "verify") /\ Decision(v) # "restored"
  /\ IF lock[v] = "job" THEN JobOver ELSE GoOn(v, "shown")
  /\ UNCHANGED <<volume, ours, reminders, installer, app, mishaps>>

(* Remove-EncryptionReminder.                                                *)
Remove(v) ==
  /\ AtPlace(v, "remove")
  /\ task' = task \ {v} /\ Leave(v)
  /\ UNCHANGED <<volume, ours, reminder, worker, installer, app, mishaps>>

(* bitLockerResumed.                                                         *)
Resumed ==
  /\ running = "resume" /\ todo = {}
  /\ installer' = [installer EXCEPT ![op].pauses = {}]
  /\ JobOver
  /\ UNCHANGED <<volume, ours, reminders, app, mishaps>>

------------------------------------------------------------------------------
(* The window: Show-EncryptionFollowup, under the volume's lock.             *)

(* Mutant: a finished reminder needs no more attention.                      *)
FollowUp_kept(v) ==
  /\ v \in due /\ lock[v] = "free"
  /\ due' = due \ {v}
  /\ CASE Decision(v) = "finished" \/ Quiet(v) ->
            UNCHANGED <<lock, place, view, reminder>>
       [] Decision(v) = "restored" ->
            /\ Hold(v, "window", "remove") /\ SaveStatus(v, "restored")
            /\ UNCHANGED view
       [] OTHER -> /\ Hold(v, "window", "shown")
                   /\ view' = [view EXCEPT ![v] = View(v)] /\ UNCHANGED reminder
  /\ UNCHANGED <<volume, ours, worker, task, installer, helper, app, mishaps>>

(* What is over is closed, and then removed; what the app's card covers is   *)
(* left to it; anything else is shown until the user answers.                *)
FollowUp(v) ==
  /\ v \in due /\ lock[v] = "free"
  /\ due' = due \ {v}
  /\ CASE Decision(v) = "finished" ->
            Hold(v, "window", "remove") /\ UNCHANGED <<view, reminder>>
       [] Decision(v) = "restored" ->
            /\ Hold(v, "window", "remove") /\ SaveStatus(v, "restored")
            /\ UNCHANGED view
       [] Quiet(v) -> UNCHANGED <<lock, place, view, reminder>>
       [] OTHER -> /\ Hold(v, "window", "shown")
                   /\ view' = [view EXCEPT ![v] = View(v)] /\ UNCHANGED reminder
  /\ UNCHANGED <<volume, ours, worker, task, installer, helper, app, mishaps>>

(* The lock is taken: an error, until the next sign-in.                      *)
Missed(v) ==
  /\ v \in due /\ lock[v] # "free"
  /\ due' = due \ {v}
  /\ UNCHANGED <<volume, ours, reminders, lock, place, view, installer, helper,
                 app, mishaps>>

(* The user gives the reminder up; the volume is looked at again, whether an *)
(* installer waits is not.                                                   *)
Decline(v) ==
  /\ AtPlace(v, "shown") /\ view[v].decline
  /\ Decision(v) \in {"ask", "uncertain", "suspended"}
  /\ SaveStatus(v, "declined") /\ GoOn(v, "remove")
  /\ UNCHANGED <<volume, ours, worker, task, installer, app, mishaps>>

(* Later, or the task's time limit.                                          *)
Close(v) ==
  /\ lock[v] = "window"
  /\ IF AtPlace(v, "shown") THEN UNCHANGED mishaps ELSE Mishap
  /\ Leave(v)
  /\ UNCHANGED <<volume, ours, reminders, installer, app>>

------------------------------------------------------------------------------
(* What else happens.                                                        *)

(* Mutant: an installer is selected while another script runs.               *)
SelectInstaller_unlocked(o) ==
  /\ installer[o].status = "started" /\ Active = {} /\ Steady
  /\ installer' = [installer EXCEPT ![o].status = "waiting"]
  /\ UNCHANGED <<volume, ours, reminders, holder, helper, app, mishaps>>

(* arm and cleanup, in one step each.                                        *)
SelectInstaller(o) ==
  /\ running = "none" /\ installer[o].status = "started"
  /\ Active = {} /\ Steady
  /\ installer' = [installer EXCEPT ![o].status = "waiting"]
  /\ UNCHANGED <<volume, ours, reminders, holder, helper, app, mishaps>>

CleanInstaller(o) ==
  /\ running = "none" /\ installer[o].status \notin {"none", "cleaned"}
  /\ installer' = [installer EXCEPT ![o].status = "cleaned"]
  /\ UNCHANGED <<volume, ours, reminders, holder, helper, app, mishaps>>

(* The user signs out or restarts, and signs in: nothing goes on, the tasks  *)
(* start, the app may have reopened; an installer that was selected for the  *)
(* restart waits no more.                                                    *)
SignIn ==
  /\ running' = "none" /\ op' = NoOne /\ todo' = {}
  /\ lock' = [v \in Volumes |-> "free"] /\ place' = [v \in Volumes |-> "none"]
  /\ view' = [v \in Volumes |-> NoView]
  /\ due' = task /\ app' \in BOOLEAN
  /\ \E started \in SUBSET {o \in Installers : installer[o].status = "waiting"} :
       installer' = [o \in Installers |->
         IF o \in started THEN [installer[o] EXCEPT !.status = "started"]
                          ELSE installer[o]]
  /\ UNCHANGED <<volume, ours, reminders, mishaps>>

App ==
  /\ app' = ~app
  /\ UNCHANGED <<volume, ours, reminders, holder, installer, helper, mishaps>>

(* The user changes BitLocker in Windows, and what was begun completes.      *)
Becomes ==
  [on |-> {"paused", "decrypting"}, paused |-> {"on", "decrypting"},
   decrypting |-> {"off"}, off |-> {"encrypting"}, encrypting |-> {"on"}]
Windows(v) ==
  /\ IF volume[v] \in {"decrypting", "encrypting"} THEN UNCHANGED mishaps
                                                   ELSE Mishap
  /\ \E now \in Becomes[volume[v]] : volume' = [volume EXCEPT ![v] = now]
  /\ ours' = [ours EXCEPT ![v] = FALSE]
  /\ UNCHANGED <<reminders, holder, installer, helper, app>>

------------------------------------------------------------------------------
Registration(v) ==
  \/ Prepare(v) \/ Reconcile(v) \/ Retire(v) \/ Copy(v) \/ Copied(v)
  \/ ArmRecord(v) \/ AddTask(v) \/ TaskAdded(v) \/ TaskRefused(v)
  \/ Disable(v) \/ Receipt(v) \/ Refuses(v)
Resumption(v) ==
  Skip(v) \/ Claim(v) \/ Enable(v) \/ Verified(v) \/ Unverified(v) \/ Remove(v)
Window(v) ==
  FollowUp(v) \/ Missed(v) \/ Confirm(v) \/ Decline(v) \/ Close(v)

ReminderNext ==
  \/ \E o \in Installers :
       \/ BeginStaging(o) \/ BeginResume(o)
       \/ SelectInstaller(o) \/ CleanInstaller(o)
  \/ \E v \in Volumes :
       Registration(v) \/ Resumption(v) \/ Window(v) \/ Windows(v)
  \/ BeginReminder \/ Staged \/ Resumed \/ Ends \/ JobFails \/ SignIn \/ App

ReminderSpec == ReminderInit /\ [][ReminderNext]_reminderVars

(* Fairness: the user signs in again and again, and not always before the    *)
(* reminder has run, or removed what is over. No click and no job is owed.   *)
FairReminder ==
  /\ ReminderSpec
  /\ WF_reminderVars(SignIn)
  /\ \A v \in Volumes : SF_reminderVars(FollowUp(v)) /\ SF_reminderVars(Remove(v))

------------------------------------------------------------------------------
(* Properties.                                                               *)

Places == {"none", "record", "retire", "copy", "copied", "arm", "register",
          "check", "disable", "receipt", "enable", "verify", "remove", "shown"}

ReminderTypeOK ==
  /\ volume \in [Volumes -> DOMAIN Becomes] /\ ours \in [Volumes -> BOOLEAN]
  /\ reminder \in [Volumes -> [status : {"none"} \cup Finished \cup Unfinished,
                               origin : {"none", "suspension", "opt-in"}]]
  /\ worker \in [Volumes -> {"none", "torn", "whole"}]
  /\ task \subseteq Volumes /\ due \subseteq Volumes
  /\ lock \in [Volumes -> {"free", "job", "window"}]
  /\ place \in [Volumes -> Places]
  /\ view \in [Volumes -> [resume : BOOLEAN, decline : BOOLEAN]]
  /\ installer \in [Installers ->
       [status : {"none", "preparing", "waiting", "started", "cleaned"},
        pauses : SUBSET Volumes]]
  /\ running \in {"none", "stage", "remind", "resume"}
  /\ op \in Installers \cup {NoOne} /\ todo \subseteq Volumes
  /\ app \in BOOLEAN /\ mishaps \in 0..MaxMishaps

(* "Persist a reminder before suspension, including interrupted staging":    *)
(* wherever anything is cut off, a volume whose protection an installer has  *)
(* paused has an unfinished record and a task that asks to resume it, until  *)
(* the user resumes it or gives the reminder up.                             *)
PauseIsOwed ==
  \A v \in Volumes : ours[v] =>
    \/ reminder[v].status = "declined"
    \/ /\ reminder[v].status \in Unfinished
       /\ reminder[v].origin = "suspension"
       /\ v \in task /\ worker[v] = "whole"

(* The app resumes protection only while no installer waits, from the look   *)
(* at the installers to the change: they share the machine-wide mutex.       *)
ResumeYields ==
  [][\A v \in Volumes :
       lock[v] = "job" /\ AtPlace(v, "enable") /\ volume'[v] # volume[v]
         /\ ~ours'[v] /\ place' # place => ~InstallerWaits]_reminderVars

(* A reminder of a volume that is protected again goes: by the task itself,  *)
(* also when its removal was cut off after the record was closed.            *)
ReminderRetires ==
  \A v \in Volumes : <>[](volume[v] = "on") => []<>(v \notin task)

(* "Closing this window reminds you next sign-in": a pause that stays is     *)
(* shown again and again, by the window or by the app's card for the volume. *)
OnCard(v) ==
  app /\ \E o \in Installers : /\ installer[o].status \notin {"none", "cleaned"}
                               /\ v \in installer[o].pauses
PauseIsShown ==
  \A v \in Volumes :
    <>[](ours[v] /\ reminder[v].status # "declined") =>
      []<>(AtPlace(v, "shown") \/ OnCard(v))
=============================================================================
