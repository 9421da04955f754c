--------------------------- MODULE HelperOperation ---------------------------
(***************************************************************************)
(* One operation of the elevated helper, from its request to its answer:   *)
(* execute in apps/desktop/src-tauri/src/setup_helper.rs, with             *)
(* operation_cleanup.rs, the record export of operation_records.rs and the *)
(* gate of direct_install_policy.rs.                                       *)
(*                                                                         *)
(* An operation is a list of steps.  A step runs a provider (ProviderRun,  *)
(* MediaWrite), asks the user, holds and authenticates the image, or       *)
(* installs files itself (UsbPreserve).  The first step that fails ends    *)
(* the list.  Whatever happened, the helper then clears the workspace of   *)
(* what it no longer needs, offers the records of a finished USB to the    *)
(* desktop, perhaps removes the workspace, and answers.                    *)
(***************************************************************************)
EXTENDS UsbPreserve

VARIABLES
  build,      \* how the program was built: for Windows, for testing
  op,         \* what is asked for
  lease,      \* the request offers the desktop's verified image
  phase,      \* "choose", "request", "steps", "finish", "records", "remove",
              \* "answer", "over"
  todo,       \* the steps still to come
  asked,      \* the question the helper waits on
  agreed,     \* the user said yes to this change
  touched,    \* a script has begun to change the computer
  files,      \* kinds of files in the operation's workspace
  complete,   \* nothing that should have been cleared was retained
  records,    \* the desktop's records file: "none", "pending", "published"
  outcome     \* of the steps

helperVars == <<build, op, lease, phase, todo, asked, agreed, touched, files,
                complete, records, outcome>>
vars == <<cancel, runVars, mediaVars, preserveVars, helperVars>>

UsbKinds == {"usb", "usb_preserve"}
Staged   == {"inspect", "stage", "arm", "restart", "firmware", "again"}
Retained == {"inspect_direct", "direct", "prepare_runtime", "suspend"}
Kinds == UsbKinds \cup Staged \cup Retained \cup
         {"inspect_usb", "status", "remove", "resume", "reminder", "prepare_firmware"}

Questions == {"none", "lease", "review", "records"}

\* A scripted step that changes the computer, and all others that run a script.
Changing == {"stage", "change"}
Reading  == {"plan", "status", "reclaim", "facts", "measure"}
Checks   == {"check", "checkRecords"}

\* The packaged programs an operation brings along.
Tools(k) ==
  CASE k \in Staged \cup {"stage", "status", "remove", "resume"} -> {"staged", "bitlocker"}
    [] k = "reminder" -> {"bitlocker"}
    [] k = "prepare_firmware" -> {"direct"}
    [] k = "usb_preserve" -> {"media", "loader"}
    [] OTHER -> {"media"}

\* The one the running provider consists of.
InUse ==
  IF mode.media THEN "media"
  ELSE CASE op = "reminder" -> "bitlocker"
         [] op = "prepare_firmware" -> "direct"
         [] OTHER -> "staged"

Transient == {"media", "loader", "staged", "bitlocker", "direct", "image", "signature"}
Files == Transient \cup {"requests", "receipt", "cleanup", "failure"}

-----------------------------------------------------------------------------
(* The steps of each operation *)

SourceSteps == <<"hold", "authenticate", "sign">>

\* Where the platform cannot hold the original, the copy's drive is checked too.
CheckSource == IF build.windows THEN <<"check">> ELSE <<"check", "check">>

UsbSteps ==
  <<"checkRecords">> \o SourceSteps \o CheckSource \o
  <<"review", "check", "checkRecords", "write", "receipt">>

PreserveSteps ==
  <<"checkRecords", "check", "recheck", "review", "check">> \o SourceSteps \o
  <<"check", "checkRecords", "install", "receipt">>

StageSteps == SourceSteps \o <<"plan", "review", "stop", "stage">>

\* What is done to an installer that was staged before.
RecordedSteps(k) ==
  <<"status">> \o (IF k = "remove" THEN <<"reclaim">> ELSE <<>>) \o
  <<"review", "stop", "change">>

ReminderSteps == <<"facts", "review", "change">>

FirmwareSteps == <<"facts", "review", "change">>

Steps(k) ==
  <<"tools">> \o
  CASE k = "usb" -> UsbSteps
    [] k = "usb_preserve" -> PreserveSteps
    [] k = "inspect_usb" -> <<"check">>
    [] k = "inspect" -> <<"measure">>
    [] k = "stage" -> StageSteps
    [] k = "status" -> <<"status">>
    [] k = "reminder" -> ReminderSteps
    [] k = "prepare_firmware" -> FirmwareSteps
    [] OTHER -> RecordedSteps(k)

\* check_destination
Refused == op \in Retained \/ (op \in Staged /\ ~build.testing)

-----------------------------------------------------------------------------
(* States *)

TypeOK ==
  /\ RunTypeOK /\ MediaTypeOK /\ PreserveTypeOK
  /\ build \in [windows : BOOLEAN, testing : BOOLEAN]
  /\ op \in Kinds
  /\ lease \in BOOLEAN
  /\ phase \in {"choose", "request", "steps", "finish", "records", "remove", "answer", "over"}
  /\ asked \in Questions
  /\ {agreed, touched, complete} \subseteq BOOLEAN
  /\ records \in {"none", "pending", "published"}
  /\ files \subseteq Files
  /\ outcome \in {"none", "ok", "error"}

\* A lease is only sent where the desktop can hold the image.  What is built
\* for testing matters to the staged operations alone, what the drive holds to
\* an installation beside its files.
Init ==
  /\ cancel = FALSE
  /\ RunInit
  /\ MediaInit
  /\ PreserveInit
  /\ build \in [windows : BOOLEAN, testing : BOOLEAN]
  /\ op \in Kinds
  /\ build.testing \/ op \in Staged
  /\ lease \in BOOLEAN
  /\ lease => build.windows /\ op \in UsbKinds \cup {"stage"}
  /\ op = "usb_preserve" => build.windows
  /\ op # "usb_preserve" => stick = Fresh("old")
  /\ phase = "choose"
  /\ todo = <<>>
  /\ asked = "none"
  /\ agreed = FALSE
  /\ touched = FALSE
  /\ files = {}
  /\ complete = FALSE
  /\ records = "none"
  /\ outcome = "none"

Idle == loop = "idle" /\ asked = "none"

Now(s) == phase = "steps" /\ todo # <<>> /\ Head(todo) = s

StepDone ==
  /\ todo' = Tail(todo)
  /\ IF Len(todo) = 1
     THEN phase' = "finish" /\ outcome' = "ok"
     ELSE UNCHANGED <<phase, outcome>>

StepFails ==
  /\ phase' = "finish"
  /\ outcome' = "error"
  /\ UNCHANGED todo

StepEnds == StepDone \/ StepFails

Others == <<cancel, runVars, mediaVars, preserveVars>>

-----------------------------------------------------------------------------
(* The request *)

\* The desktop first opens a file for the records of a USB, in a folder that is
\* not on it.  The user may give up looking for one.
ChooseRecords ==
  /\ phase = "choose"
  /\ IF op \notin UsbKinds
     THEN phase' = "request" /\ UNCHANGED <<records, outcome>>
     ELSE \/ /\ slot = Selected
             /\ phase' = "request"
             /\ records' = "pending"
             /\ UNCHANGED outcome
          \/ phase' = "over" /\ outcome' = "error" /\ UNCHANGED records
  /\ UNCHANGED <<Others, build, op, lease, todo, asked, agreed, touched, files,
                 complete>>

\* The gate refuses before there is a workspace.
Request ==
  /\ phase = "request"
  /\ IF Refused
     THEN phase' = "answer" /\ outcome' = "error" /\ UNCHANGED todo
     ELSE phase' = "steps" /\ todo' = Steps(op) /\ UNCHANGED outcome
  /\ UNCHANGED <<Others, build, op, lease, asked, agreed, touched, files,
                 complete, records>>

\* They are copied into the workspace, each one checked as it goes.
CopyTools ==
  /\ Now("tools")
  /\ \/ /\ ~cancel
        /\ files' = files \cup Tools(op)
        /\ StepDone
     \/ /\ \E copied \in SUBSET Tools(op) : files' = files \cup copied
        /\ StepFails
  /\ UNCHANGED <<Others, build, op, lease, asked, agreed, touched, complete,
                 records>>

-----------------------------------------------------------------------------
(* The image *)

\* Windows holds the original in place; elsewhere it is copied.
HoldSource ==
  /\ Now("hold")
  /\ \/ ~cancel /\ StepDone
     \/ StepFails
  /\ files' \in IF build.windows THEN {files} ELSE {files, files \cup {"image"}}
  /\ phase' = "steps" /\ ~build.windows => "image" \in files'
  /\ UNCHANGED <<Others, build, op, lease, asked, agreed, touched, complete,
                 records>>

\* Without a lease the helper reads and checks all of it.
Authenticate ==
  /\ Now("authenticate")
  /\ ~lease
  /\ \/ ~cancel /\ StepDone
     \/ StepFails
  /\ UNCHANGED <<Others, build, op, lease, asked, agreed, touched, files,
                 complete, records>>

SaveSignature ==
  /\ Now("sign")
  /\ files' = files \cup {"signature"}
  /\ StepEnds
  /\ UNCHANGED <<Others, build, op, lease, asked, agreed, touched, complete,
                 records>>

-----------------------------------------------------------------------------
(* Questions *)

Topic ==
  CASE Now("review") -> "review"
    [] Now("authenticate") /\ lease -> "lease"
    [] phase = "records" -> "records"
    [] OTHER -> "none"

\* A question that was not answered by a yes ends the steps, but records that
\* are not taken only stay where they are.
\* Mutant: records that were not taken are treated as taken.
Unanswered_removed ==
  IF asked = "records"
  THEN phase' = "remove" /\ UNCHANGED <<todo, outcome>>
  ELSE StepFails

Unanswered ==
  IF asked = "records"
  THEN phase' = "answer" /\ UNCHANGED <<todo, outcome>>
  ELSE StepFails

Ask ==
  /\ Idle
  /\ Topic # "none"
  /\ ~cancel
  /\ asked' = Topic
  /\ UNCHANGED <<Others, build, op, lease, phase, todo, agreed, touched, files,
                 complete, records, outcome>>

CannotAsk ==
  /\ Idle
  /\ Topic # "none"
  /\ cancel
  /\ IF phase = "records"
     THEN phase' = "answer" /\ UNCHANGED <<todo, outcome>>
     ELSE StepFails
  /\ UNCHANGED <<Others, build, op, lease, asked, agreed, touched, files,
                 complete, records>>

\* The desktop saves the records before it says yes.  It may save them and
\* still fail to say so.
SaveRecords ==
  /\ asked = "records"
  /\ records = "pending"
  /\ records' = "published"
  /\ UNCHANGED <<Others, build, op, lease, phase, todo, asked, agreed, touched,
                 files, complete, outcome>>

SayYes ==
  /\ asked # "none"
  /\ asked = "records" => records = "published"
  /\ asked' = "none"
  /\ agreed' = (agreed \/ asked = "review")
  /\ IF asked = "records"
     THEN phase' = "remove" /\ UNCHANGED <<todo, outcome>>
     ELSE StepDone
  /\ UNCHANGED <<Others, build, op, lease, touched, files, complete, records>>

\* A no, an answer to something else, a desktop that is gone, fifteen minutes,
\* or a Stop.
SayNo ==
  /\ asked # "none"
  /\ asked' = "none"
  /\ Unanswered
  /\ UNCHANGED <<Others, build, op, lease, agreed, touched, files, complete,
                 records>>

-----------------------------------------------------------------------------
(* Providers *)

RunSteps == Checks \cup Reading \cup Changing \cup {"write"}

ModeOf(s) ==
  CASE s \in Checks -> List
    [] s = "write" -> Write
    [] s \in {"measure", "stage"} -> Paced
    [] OTHER -> Quiet

StartRun ==
  /\ phase = "steps"
  /\ todo # <<>>
  /\ Head(todo) \in RunSteps
  /\ Spawn(ModeOf(Head(todo)))
  /\ writer' = IF Head(todo) = "write" THEN "start" ELSE "off"
  /\ files' = IF Head(todo) \in Checks \cup {"write"} THEN files
              ELSE files \cup {"requests"}
  /\ UNCHANGED <<cancel, slot, swaps, image, handle, report, preserveVars,
                 build, op, lease, phase, todo, asked, agreed, touched, complete,
                 records, outcome>>

\* Exactly the approved drive must be in the list and eligible.
Listed == report = Selected

\* The write's receipt must name it as well.
Receipted == report = Selected

AnswerFits ==
  /\ Head(todo) \in Checks => Listed
  /\ Head(todo) = "write" => Receipted

\* A script's answer can lack what the review needs, or not be what was asked.
MayMisfit == Head(todo) \in Reading

EndRun ==
  /\ phase = "steps"
  /\ Returned
  /\ \/ loop = "ok" /\ AnswerFits /\ StepDone
     \/ (loop = "err" \/ MayMisfit \/ ~AnswerFits) /\ StepFails
  /\ loop' = "idle"
  /\ child' = IF child = "running" THEN child ELSE "none"
  /\ said' = <<>>
  /\ heard' = 0
  /\ told' = {}
  /\ hardStop' = FALSE
  /\ got' = Nothing
  /\ report' = NoDrive
  /\ UNCHANGED <<cancel, mode, slot, swaps, image, writer, handle, preserveVars, build, op, lease, asked,
                 agreed, touched, files, complete, records>>

LoopRuns ==
  LoopStep /\ UNCHANGED <<cancel, mediaVars, preserveVars, helperVars>>

Script == mode # Write

\* A listing answers by AnswerList or fails; what else may be printed is left
\* to the other scripts, to keep the instance small.
ScriptSays ==
  /\ Script
  /\ \E f \in IF mode = List THEN {"error"} ELSE Frames : Says(f)
  /\ UNCHANGED <<cancel, mediaVars, preserveVars, helperVars>>

ScriptEnds == Script /\ Ends /\ UNCHANGED <<cancel, mediaVars, preserveVars, helperVars>>

ScriptChanges ==
  /\ child = "running"
  /\ phase = "steps"
  /\ Head(todo) \in Changing
  /\ touched' = TRUE
  /\ UNCHANGED <<Others, build, op, lease, phase, todo, asked, agreed, files,
                 complete, records, outcome>>

Kill == HardStop /\ UNCHANGED <<cancel, mediaVars, preserveVars, helperVars>>

ObservationFails ==
  TryWaitFails /\ UNCHANGED <<cancel, mediaVars, preserveVars, helperVars>>

ListAnswers == AnswerList /\ UNCHANGED <<cancel, preserveVars, helperVars>>

WriterRuns == WriterStep /\ UNCHANGED <<cancel, preserveVars, helperVars>>

-----------------------------------------------------------------------------
(* Steps of the helper itself *)

\* The drive still fits the approved plan.
RecheckPlan ==
  /\ Now("recheck")
  /\ \/ Rechecked /\ Addable /\ StepDone
     \/ StepFails
  /\ UNCHANGED <<Others, build, op, lease, asked, agreed, touched, files,
                 complete, records>>

\* One more look at Stop before a change that cannot be interrupted.
LookForStopAgain ==
  /\ Now("stop")
  /\ IF cancel THEN StepFails ELSE StepDone
  /\ UNCHANGED <<Others, build, op, lease, asked, agreed, touched, files,
                 complete, records>>

Install ==
  /\ Now("install")
  /\ step \notin {"done", "failed"}
  /\ InstallStep
  /\ UNCHANGED <<cancel, runVars, mediaVars, helperVars>>

EndInstall ==
  /\ Now("install")
  /\ \/ step = "done" /\ StepDone
     \/ step = "failed" /\ StepFails
  /\ UNCHANGED <<Others, build, op, lease, asked, agreed, touched, files,
                 complete, records>>

WriteReceipt ==
  /\ Now("receipt")
  /\ \/ StepDone /\ files' = files \cup {"receipt"}
     \/ StepFails /\ files' \in {files, files \cup {"receipt"}}
  /\ UNCHANGED <<Others, build, op, lease, asked, agreed, touched, complete,
                 records>>

-----------------------------------------------------------------------------
(* The end *)

\* finish: the providers, the copied image and its signature go, except what
\* cannot be removed; then cleanup.json says so, if it can be written.
Retainable == SUBSET (files \cap Transient)

Finish ==
  /\ phase = "finish"
  /\ \E kept \in Retainable, noted \in BOOLEAN :
       /\ complete' = (kept = {})
       /\ files' = (files \ Transient) \cup kept
                   \cup (IF noted THEN {"cleanup"} ELSE {})
  /\ phase' = IF outcome = "ok" /\ op \in UsbKinds THEN "records"
              ELSE IF outcome = "ok" /\ op \in {"inspect_usb", "reminder"}
                   THEN "remove"
                   ELSE "answer"
  /\ UNCHANGED <<Others, build, op, lease, todo, asked, agreed, touched,
                 records, outcome>>

\* remove_completed_workspace: only when every file in it is known; a removal
\* that fails leaves the rest.
Removable == {"receipt", "cleanup"}

RemoveWorkspace ==
  /\ phase = "remove"
  /\ phase' = "answer"
  /\ IF complete /\ files \subseteq Removable
     THEN files' \in SUBSET files
     ELSE UNCHANGED files
  /\ UNCHANGED <<Others, build, op, lease, todo, asked, agreed, touched,
                 complete, records, outcome>>

Answer ==
  /\ phase = "answer"
  /\ phase' = "over"
  /\ files' \in IF outcome = "error" /\ ~Refused THEN {files, files \cup {"failure"}} ELSE {files}
  /\ records' = IF records = "pending" THEN "none" ELSE records
  /\ UNCHANGED <<Others, build, op, lease, todo, asked, agreed, touched,
                 complete, outcome>>

-----------------------------------------------------------------------------
(* What happens outside *)

\* The desktop passes on a Stop, or goes away.
Stop ==
  /\ phase # "over"
  /\ ~cancel
  /\ cancel' = TRUE
  /\ UNCHANGED <<runVars, mediaVars, preserveVars, helperVars>>

Unplug ==
  /\ phase \in {"choose", "steps"}
  /\ op \in UsbKinds \cup {"inspect_usb"}
  /\ \E d \in Drives \cup {NoDrive} : Swap(d)
  /\ UNCHANGED <<cancel, runVars, preserveVars, helperVars>>

SomeLoader ==
  /\ phase = "steps"
  /\ op = "usb_preserve"
  /\ ForeignLoader
  /\ UNCHANGED <<cancel, runVars, mediaVars, helperVars>>

-----------------------------------------------------------------------------

HelperStep ==
  \/ ChooseRecords \/ Request \/ CopyTools \/ HoldSource \/ Authenticate \/ SaveSignature
  \/ Ask \/ CannotAsk \/ StartRun \/ EndRun \/ LoopRuns
  \/ RecheckPlan \/ LookForStopAgain \/ Install \/ EndInstall \/ WriteReceipt
  \/ Finish \/ RemoveWorkspace \/ Answer

Next ==
  \/ HelperStep
  \/ SayNo \/ SayYes \/ SaveRecords
  \/ ScriptSays \/ ScriptEnds \/ ScriptChanges \/ ListAnswers \/ WriterRuns
  \/ Kill \/ ObservationFails
  \/ Stop \/ Unplug \/ SomeLoader

Over == phase = "over" /\ UNCHANGED vars

Spec == Init /\ [][Next \/ Over]_vars

\* The helper keeps going and its clocks run: a question expires, a kill that
\* is due is carried out.  Scripts end by themselves, and so does a listing;
\* nothing is assumed of the media writer, which may hang on its device.
Fairness ==
  /\ WF_vars(HelperStep)
  /\ WF_vars(SayNo)
  /\ SF_vars(Kill)
  /\ WF_vars(ScriptEnds)

FairSpec == Spec /\ Fairness

-----------------------------------------------------------------------------
(* What an operation promises *)

\* No drive other than the approved one is ever written, and nothing is
\* changed, on that drive or by a script, before the user agreed to it.
OnlyApprovedIsChanged ==
  /\ image[Other] = "user"
  /\ image[Selected] # "user" \/ touched \/ step # "start" => agreed

\* A provider whose success is believed said so and ended well
\* (SuccessIsWhole), and the result a user is told of is on the drive, whatever
\* was plugged and pulled meanwhile.
SuccessIsReal ==
  /\ SuccessIsWhole
  /\ outcome = "ok" =>
       /\ op = "usb" => image[Selected] = "installer"
       /\ op = "usb_preserve" => /\ stick.iso = "whole"
                                 /\ stick.config = "done"
                                 /\ stick.boot \in {"ours", "foreign"}

\* Once the drive boots the installer, the loader it booted when the user
\* agreed is saved whole, the image and configuration the new one needs are
\* whole, and a recovery record has been written, which names that loader
\* unless the drive tore it (nothing reads it back before the activation).
ActivationIsSafe ==
  stick.boot = "ours" =>
    /\ stick.backup # Torn
    /\ plan.boot # "ours" => stick.backup = plan.boot
    /\ stick.record \in {RecordOf(stick.backup), Torn}
    /\ stick.iso = "whole"
    /\ stick.config = "done"

\* The record of a finished USB is never lost: while the workspace does not
\* hold it any more, the desktop does.
RecordsSurvive ==
  outcome = "ok" /\ op \in UsbKinds => "receipt" \in files \/ records = "published"

\* A provider's program is there before it runs and is not cleared away while
\* it may still be running; and a script that may be changing disks is never
\* killed, so that it does end before that.
ToolsStay == (child = "running" => InUse \in files) /\ OnlyMediaIsKilled

\* A Stop ends the operation, even when the media writer hangs.
StopEnds == cancel ~> phase = "over"
=============================================================================
