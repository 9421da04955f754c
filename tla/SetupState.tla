----------------------------- MODULE SetupState -----------------------------
(***************************************************************************)
(* The commands of the window and the state they share (setup.rs).         *)
(*                                                                         *)
(* Commands run one after another on the main thread; a command may hold   *)
(* the state's mutex several times, and is then several actions here.      *)
(* Every operation runs on a thread of its own, which takes the session    *)
(* with the elevated helper (the startup thread may hold it), exchanges    *)
(* frames with it and writes the outcome to the snapshot.  What the pipes  *)
(* do is in HelperSession; here the helper is what the thread reads.       *)
(***************************************************************************)
EXTENDS Naturals, FiniteSets

CONSTANTS
  Drives,      \* USB drives, and disks with space for an installation
  Plans,       \* what an inspection of a USB drive may find
  Images,      \* installer images that can be downloaded
  NoPlan,      \* not inspected, or not eligible
  NoImage,     \* no verified image
  NoRequest,   \* no request
  Windows,     \* the builds: TRUE for Windows, FALSE for macOS
  Impatient,   \* prepare_bitlocker may be called while an operation is active
  Offered,     \* bound: the operations of this instance
  MaxOps,      \* bound: operations started
  MaxLists,    \* bound: inventories taken
  MaxReviews   \* bound: USB reviews shown

Ops == 1 .. MaxOps

(* The operations, by the command that starts them: inspect_setup,          *)
(* inspect_usb_choice, start_setup, staged_iso, prepare_setup and           *)
(* prepare_bitlocker.  Local ones need no elevated helper.                  *)
Inventories == {"list", "disks"}
UsbChecks   == {"check", "elevatedCheck"}
UsbWrites   == {"erase", "preserve"}
Staged      == {"inspect", "stage", "act"}
Kinds       == Inventories \cup UsbChecks \cup UsbWrites \cup Staged
                 \cup {"install", "prepare", "bitlocker"}
Local       == {"list", "check"}
MustAsk     == UsbWrites \cup {"install", "stage"}
MayAsk      == MustAsk \cup {"act", "prepare", "bitlocker"}

ASSUME SetupAssumption ==
  /\ NoPlan \notin Plans
  /\ NoImage \notin Images
  /\ Windows \subseteq BOOLEAN
  /\ Impatient \in BOOLEAN
  /\ Offered \subseteq Kinds
  /\ MaxOps \in Nat /\ MaxLists \in Nat /\ MaxReviews \in Nat

(* What a thread does to a USB drive, and with which image.                 *)
Requests == [mode : UsbWrites \cup {"check"}, drive : Drives,
             plan : Plans \cup {NoPlan}, image : Images]

ASSUME NoRequestAssumption == NoRequest \notin Requests

VARIABLES
  snap,          \* Inner.snapshot, what the window shows
  destinations,  \* Inner.destinations
  pending,       \* Inner.usb_review
  cancel,        \* Inner.cancel
  sender,        \* Inner.staged_review: the thread that waits for the answer
  command,       \* the command in progress on the main thread
  held,          \* the snapshot that command has taken
  previous,      \* the snapshot that the thread of prepare_bitlocker restores
  thread,        \* the thread of each operation
  lock,          \* who holds the session mutex
  session,       \* the helper: "none", "live" or "dead"
  startup,       \* the thread of start_admin_session
  apple,         \* the Apple setup is busy
  image,         \* the verified image of the downloads
  windows,       \* this is the Windows build
  ops,           \* operations started so far
  lists,         \* inventories taken so far
  reviews,       \* USB reviews shown so far
  stopped,       \* history: the user stopped the operation that runs
  refused,       \* history: the user did not agree to it
  told           \* history: how the operation ended whose outcome is shown

inner   == <<snap, destinations, pending, cancel, sender>>
main    == <<command, held, previous>>
mutex   == <<lock, session>>
outside == <<apple, image, windows>>
drawn   == <<ops, lists, reviews>>
history == <<stopped, refused, told>>

vars == <<inner, main, thread, mutex, startup, outside, drawn, history>>

Free      == 0
AtStartup == MaxOps + 1

Statuses == {"idle", "inspecting", "running", "ready", "prepared", "complete",
             "cancelled", "failed"}

(* The list of choices: which inventory it came from, the eligible drives   *)
(* and the plan each drive's inspection found.                              *)
Choices == [kind : {"none", "usb", "direct"}, list : 0 .. MaxLists,
            drives : SUBSET Drives, plans : [Drives -> Plans \cup {NoPlan}]]

NoPlans   == [d \in Drives |-> NoPlan]
NoChoices == [kind |-> "none", list |-> 0, drives |-> {}, plans |-> NoPlans]
NoTargets == [kind |-> "none", list |-> 0, drives |-> {}]

Snapshots == [kind : {"none", "usb", "direct"}, status : Statuses, choices : Choices,
              available : BOOLEAN, requested : BOOLEAN, usbReview : 0 .. MaxReviews,
              review : {"none", "asking", "approved"}, target : Staged \cup {"none"},
              admin : {"none", "asking", "ready", "declined"}]

FirstSnapshot ==
  [kind |-> "none", status |-> "idle", choices |-> NoChoices, available |-> FALSE,
   requested |-> FALSE, usbReview |-> 0, review |-> "none", target |-> "none",
   admin |-> "none"]

NoReview  == [token |-> 0, request |-> NoRequest, expired |-> FALSE]
NoCommand == [at |-> "none", request |-> NoRequest, token |-> 0, kind |-> "install"]

(* A thread: where it is, what it runs, the answer it gave the helper, what *)
(* the user answered to its review, and how its exchange ended.             *)
NoThread == [at |-> "none", kind |-> "list", request |-> NoRequest,
             answer |-> "none", user |-> "none", result |-> "none", finished |-> FALSE]

active(status) == status \in {"inspecting", "running"}

active_operation == active(snap.status)

-----------------------------------------------------------------------------
(* Setup::begin, and the spawn of the operation's thread.                   *)

Begun(s, kind, status, target) ==
  [s EXCEPT !.usbReview = 0, !.kind = kind, !.status = status, !.requested = FALSE,
            !.available = FALSE, !.review = "none", !.target = target,
            !.choices = IF status = "inspecting" THEN NoChoices ELSE @]

(* Mutant of begin: the flag of the last Stop is kept.                     *)
begin_flag(kind, status, target) ==
  /\ ~active_operation
  /\ snap' = Begun(snap, kind, status, target)
  /\ destinations' = IF status = "inspecting" THEN NoTargets ELSE destinations
  /\ pending' = NoReview
  /\ UNCHANGED <<sender, cancel>>

(* The target is set by staged_iso right after begin, before its thread     *)
(* exists; begin itself clears it.                                          *)
begin(kind, status, target) ==
  /\ ~active_operation
  /\ snap' = Begun(snap, kind, status, target)
  /\ destinations' = IF status = "inspecting" THEN NoTargets ELSE destinations
  /\ pending' = NoReview
  /\ cancel' = FALSE
  /\ UNCHANGED sender

Room(kind) == ops < MaxOps /\ kind \in Offered

Spawn(kind, request) ==
  /\ Room(kind)
  /\ ops' = ops + 1
  /\ thread' = [thread EXCEPT ![ops + 1] =
       [NoThread EXCEPT !.at = IF kind \in Local THEN "local" ELSE "prepare",
                        !.kind = kind, !.request = request]]

-----------------------------------------------------------------------------
(* Commands.  A refused command changes nothing.                            *)

Idle == command.at = "none"

(* A command that begins an operation and changes nothing else.             *)
Starts == Idle /\ ~apple /\ UNCHANGED <<main, mutex, startup, outside, lists, reviews, history>>

(* inspect_setup                                                            *)
Inspect(kind) ==
  /\ Starts /\ image # NoImage
  /\ kind = "disks" => windows
  /\ lists < MaxLists
  /\ begin(IF kind = "list" THEN "usb" ELSE "direct", "inspecting", "none")
  /\ Spawn(kind, NoRequest)

(* prepare_setup                                                            *)
Prepare ==
  /\ Starts /\ image # NoImage /\ windows
  /\ begin("direct", "running", "none")
  /\ Spawn("prepare", NoRequest)

(* staged_iso                                                               *)
StagedIso(action) ==
  /\ Starts /\ windows
  /\ action = "stage" => image # NoImage
  /\ begin("none", "running", action)
  /\ Spawn(action, NoRequest)

(* Mutant: the review is kept in the snapshot that is restored.             *)
PrepareBitLocker_review ==
  /\ Idle /\ ~apple /\ image # NoImage /\ windows
  /\ Impatient \/ ~active_operation
  /\ Room("bitlocker")
  /\ held' = snap
  /\ command' = [NoCommand EXCEPT !.at = "bitlocker"]
  /\ UNCHANGED <<previous, inner, thread, mutex, startup, outside, drawn, history>>

(* prepare_bitlocker takes its snapshot ...                                 *)
PrepareBitLocker ==
  /\ Idle /\ ~apple /\ image # NoImage /\ windows
  /\ Impatient \/ ~active_operation
  /\ Room("bitlocker")
  /\ held' = [snap EXCEPT !.usbReview = 0]
  /\ command' = [NoCommand EXCEPT !.at = "bitlocker"]
  /\ UNCHANGED <<previous, inner, thread, mutex, startup, outside, drawn, history>>

(* ... and begins in another critical section, or is refused.               *)
BeginBitLocker ==
  /\ command.at = "bitlocker"
  /\ command' = NoCommand
  /\ held' = FirstSnapshot
  /\ UNCHANGED <<mutex, startup, outside, lists, reviews, history>>
  /\ \/ /\ begin(held.kind, "running", "none")
        /\ Spawn("bitlocker", NoRequest)
        /\ previous' = held
     \/ /\ active_operation
        /\ UNCHANGED <<inner, thread, ops, previous>>

Targets(kind) == {d \in destinations.drives : destinations.kind = kind}

(* inspect_usb_choice: marks the operation running without begin.           *)
InspectUsbChoice(kind, d) ==
  /\ Starts /\ image # NoImage
  /\ ~active_operation
  /\ d \in Targets("usb")
  /\ snap' = [snap EXCEPT !.status = "running", !.available = FALSE,
                          !.choices.plans[d] = NoPlan]
  /\ Spawn(kind, [mode |-> "check", drive |-> d, plan |-> NoPlan, image |-> image])
  /\ UNCHANGED <<destinations, pending, cancel, sender>>

Shown(kind) ==
  {d \in Targets(kind) \cap snap.choices.drives : destinations.list = snap.choices.list}

(* The request for a drive, as review_usb_setup and start_setup build it:   *)
(* keeping files needs the plan of an inspection.                           *)
CanRequest(mode, d) ==
  /\ d \in Targets("usb")
  /\ mode = "preserve" => d \in Shown("usb") /\ snap.choices.plans[d] # NoPlan

Request(mode, d) ==
  [mode |-> mode, drive |-> d, image |-> image,
   plan |-> IF mode = "preserve" THEN snap.choices.plans[d] ELSE NoPlan]

(* review_usb_setup                                                         *)
ReviewUsb(mode, d) ==
  /\ Idle /\ ~apple /\ image # NoImage
  /\ ~active_operation
  /\ d \in Shown("usb")
  /\ CanRequest(mode, d)
  /\ reviews < MaxReviews
  /\ reviews' = reviews + 1
  /\ pending' = [token |-> reviews + 1, request |-> Request(mode, d), expired |-> FALSE]
  /\ snap' = [snap EXCEPT !.usbReview = reviews + 1]
  /\ UNCHANGED <<destinations, cancel, sender, main, thread, mutex, startup, outside,
                 ops, lists, history>>

(* dismiss_usb_review                                                       *)
DismissReview ==
  /\ Idle
  /\ pending' = NoReview
  /\ snap' = [snap EXCEPT !.usbReview = 0]
  /\ UNCHANGED <<destinations, cancel, sender, main, thread, mutex, startup, outside,
                 drawn, history>>

(* A review is good for five minutes.                                       *)
ReviewExpires ==
  /\ pending.token # 0
  /\ pending' = [pending EXCEPT !.expired = TRUE]
  /\ UNCHANGED <<snap, destinations, cancel, sender, main, thread, mutex, startup,
                 outside, drawn, history>>

(* start_setup looks up the choice and builds the request, ...              *)
StartUsb(mode, d, token) ==
  /\ Idle /\ ~apple /\ image # NoImage
  /\ ~active_operation
  /\ CanRequest(mode, d)
  /\ Room(mode)
  /\ command' = [at |-> "take", request |-> Request(mode, d), token |-> token, kind |-> mode]
  /\ UNCHANGED <<inner, held, previous, thread, mutex, startup, outside, drawn, history>>

StartDirect(d) ==
  /\ Idle /\ ~apple /\ image # NoImage
  /\ ~active_operation
  /\ d \in Shown("direct")
  /\ Room("install")
  /\ command' = [NoCommand EXCEPT !.at = "begin"]
  /\ UNCHANGED <<inner, held, previous, thread, mutex, startup, outside, drawn, history>>

(* PendingUsbReview::matches                                                *)
matches(token, request) ==
  /\ token = pending.token
  /\ ~pending.expired
  /\ request = pending.request

(* Mutant: the review is read and left for another start.                   *)
TakeReview_peek ==
  /\ command.at = "take"
  /\ command' = IF pending.token # 0 /\ matches(command.token, command.request)
                THEN [command EXCEPT !.at = "begin"]
                ELSE NoCommand
  /\ UNCHANGED <<inner, held, previous, thread, mutex, startup, outside, drawn, history>>

(* ... takes the review, which must be of this very request, ...            *)
TakeReview ==
  /\ command.at = "take"
  /\ pending' = NoReview
  /\ snap' = [snap EXCEPT !.usbReview = IF pending.token = 0 THEN @ ELSE 0]
  /\ command' = IF pending.token # 0 /\ matches(command.token, command.request)
                THEN [command EXCEPT !.at = "begin"]
                ELSE NoCommand
  /\ UNCHANGED <<destinations, cancel, sender, held, previous, thread, mutex, startup,
                 outside, drawn, history>>

(* ... and begins, or is refused after all.                                 *)
BeginStart ==
  /\ command.at = "begin"
  /\ command' = NoCommand
  /\ UNCHANGED <<held, previous, mutex, startup, outside, lists, reviews, history>>
  /\ \/ /\ begin(IF command.kind = "install" THEN "direct" ELSE "usb", "running", "none")
        /\ Spawn(command.kind, command.request)
     \/ /\ active_operation
        /\ UNCHANGED <<inner, thread, ops>>

(* cancel_setup; the frame it writes is in HelperSession.                   *)
CancelSetup ==
  /\ Idle /\ active_operation /\ snap.available
  /\ cancel' = TRUE
  /\ snap' = [snap EXCEPT !.requested = TRUE]
  /\ stopped' = TRUE
  /\ UNCHANGED <<destinations, pending, sender, main, thread, mutex, startup, outside,
                 drawn, refused, told>>

(* respond_staged_review: takes the sender; the receiver may be gone.       *)
RespondReview(yes) ==
  /\ Idle /\ sender # 0
  /\ sender' = 0
  /\ thread' = IF thread[sender].at = "review"
               THEN [thread EXCEPT ![sender].user = IF yes THEN "yes" ELSE "no"]
               ELSE thread
  /\ UNCHANGED <<snap, destinations, pending, cancel, main, mutex, startup, outside,
                 drawn, history>>

-----------------------------------------------------------------------------
(* The thread of an operation: run_elevated and exchange.                   *)

(* What a step of thread n in front of the session leaves alone.            *)
Steps(n, from) == thread[n].at = from /\ UNCHANGED <<main, startup, outside, drawn>>

To(n, place) == thread' = [thread EXCEPT ![n].at = place]

Ends(n, place, r) == thread' = [thread EXCEPT ![n].at = place, ![n].result = r]

(* Before the session: the plan of the write and the folder of its records. *)
PrepareFails(n) ==
  /\ Steps(n, "prepare") /\ thread[n].kind \in UsbWrites \cup {"install"}
  /\ Ends(n, "finish", "error")
  /\ UNCHANGED <<inner, mutex, history>>

(* acquire_session: a session that lives is used, else a helper launched.   *)
acquire_session(n) ==
  /\ Steps(n, "prepare") /\ lock = Free
  /\ lock' = n
  /\ session' = IF session = "live" THEN "live" ELSE "none"
  /\ IF session = "live"
     THEN /\ To(n, "send")
          /\ snap' = [snap EXCEPT !.admin = "ready"]
     ELSE To(n, "prompt") /\ UNCHANGED snap
  /\ UNCHANGED <<destinations, pending, cancel, sender, history>>

Launched(n) ==
  /\ Steps(n, "prompt")
  /\ session' = "live"
  /\ snap' = [snap EXCEPT !.admin = "ready"]
  /\ To(n, "send")
  /\ UNCHANGED <<destinations, pending, cancel, sender, lock, history>>

(* The prompt is declined, or the launch fails otherwise.                   *)
NotLaunched(n, r) ==
  /\ Steps(n, "prompt")
  /\ lock' = Free
  /\ Ends(n, "finish", r)
  /\ refused' = (r = "declined")
  /\ UNCHANGED <<inner, session, stopped, told>>

(* The request is written and the operation registered, unless the helper   *)
(* has gone or the image no longer has its verified binding.                *)
Register(n, sent) ==
  /\ Steps(n, "send")
  /\ sent => session = "live"
  /\ IF sent
     THEN To(n, "exchange") /\ snap' = [snap EXCEPT !.available = TRUE]
     ELSE Ends(n, "release", "error") /\ UNCHANGED snap
  /\ UNCHANGED <<destinations, pending, cancel, sender, mutex, history>>

(* An event may say whether the operation can be stopped.                   *)
Event(n, available) ==
  /\ Steps(n, "exchange") /\ session = "live"
  /\ snap' = [snap EXCEPT !.available = available]
  /\ UNCHANGED <<destinations, pending, cancel, sender, thread, mutex, history>>

Asks(n) == Steps(n, "exchange") /\ session = "live" /\ thread[n].answer = "none"

(* Mutant: the flag of Stop is not read.                                    *)
AskWrite_unstopped(n) ==
  /\ Asks(n) /\ thread[n].kind \in UsbWrites
  /\ thread' = [thread EXCEPT ![n].answer = "yes"]
  /\ UNCHANGED <<inner, mutex, history>>

(* The plan of a USB write was approved in the window; Stop withdraws it.   *)
AskWrite(n) ==
  /\ Asks(n) /\ thread[n].kind \in UsbWrites
  /\ thread' = [thread EXCEPT ![n].answer = IF cancel THEN "no" ELSE "yes"]
  /\ UNCHANGED <<inner, mutex, history>>

(* consume_usb_confirmation: another plan, or the same one a second time.   *)
AskRefused(n) ==
  /\ Steps(n, "exchange") /\ session = "live" /\ thread[n].kind \in UsbWrites
  /\ Ends(n, "release", "error")
  /\ UNCHANGED <<inner, mutex, history>>

(* review_staged_write shows the review and waits for respond_staged_review *)
AskReview(n) ==
  /\ Asks(n) /\ thread[n].kind = "stage"
  /\ sender' = n
  /\ snap' = [snap EXCEPT !.review = "asking", !.available = FALSE]
  /\ To(n, "review")
  /\ UNCHANGED <<destinations, pending, cancel, mutex, history>>

(* ... until the answer comes, or 15 minutes have passed.                   *)
ReviewEnds(n) ==
  /\ Steps(n, "review")
  /\ To(n, "reviewed")
  /\ UNCHANGED <<inner, mutex, history>>

(* The review is taken down, or stays, marked approved; the answer is       *)
(* written, which fails when the helper has gone.                           *)
ReviewAnswered(n) ==
  /\ Steps(n, "reviewed")
  /\ sender' = 0
  /\ LET yes == thread[n].user = "yes"
     IN  /\ snap' = [snap EXCEPT !.review = IF yes THEN "approved" ELSE "none"]
         /\ refused' = ~yes
         /\ thread' = [thread EXCEPT
              ![n].at = IF session = "live" THEN "exchange" ELSE "release",
              ![n].answer = IF yes THEN "yes" ELSE "no",
              ![n].result = IF session = "live" THEN @ ELSE "error"]
  /\ UNCHANGED <<destinations, pending, cancel, mutex, stopped, told>>

(* Any other confirmation is a dialog of the window.                        *)
AskDialog(n) ==
  /\ Asks(n) /\ thread[n].kind \in MayAsk \ (UsbWrites \cup {"stage"})
  /\ To(n, "dialog")
  /\ UNCHANGED <<inner, mutex, history>>

DialogAnswered(n, yes) ==
  /\ Steps(n, "dialog")
  /\ refused' = ~yes
  /\ thread' = [thread EXCEPT
       ![n].at = IF session = "live" THEN "exchange" ELSE "release",
       ![n].answer = IF yes THEN "yes" ELSE "no",
       ![n].result = IF session = "live" THEN @ ELSE "error"]
  /\ UNCHANGED <<inner, mutex, stopped, told>>

(* The helper reports: a result, an error, or that the operation was not    *)
(* confirmed.                                                               *)
Reports(n, r) ==
  /\ Steps(n, "exchange") /\ session = "live"
  /\ r = "ok" => IF thread[n].kind \in MustAsk THEN thread[n].answer = "yes"
                                               ELSE thread[n].answer # "no"
  /\ r = "unconfirmed" => thread[n].answer = "no"
  /\ thread' = [thread EXCEPT ![n].at = "release", ![n].result = r, ![n].finished = TRUE]
  /\ UNCHANGED <<inner, mutex, history>>

(* Mutant: a pipe that has ended is read again.                             *)
Disconnected_again(n) ==
  /\ Steps(n, "exchange") /\ session = "dead"
  /\ UNCHANGED <<inner, thread, mutex, history>>

(* The pipe ends.                                                           *)
Disconnected(n) ==
  /\ Steps(n, "exchange") /\ session = "dead"
  /\ Ends(n, "release", "error")
  /\ UNCHANGED <<inner, mutex, history>>

(* The end of run_elevated: a session in an unknown state is dropped, and   *)
(* on macOS (KEEP_SESSION) every session is.                                *)
Release(n) ==
  /\ Steps(n, "release")
  /\ lock' = Free
  /\ To(n, "finish")
  /\ IF thread[n].finished /\ windows
     THEN UNCHANGED <<session, snap>>
     ELSE /\ session' = "none"
          /\ snap' = [snap EXCEPT !.admin = IF @ = "ready" THEN "none" ELSE @]
  /\ UNCHANGED <<destinations, pending, cancel, sender, history>>

(* An operation that needs no helper; a check reports what it finds, errors *)
(* included.                                                                *)
RunLocal(n, r) ==
  /\ Steps(n, "local")
  /\ r = "error" => thread[n].kind = "list"
  /\ Ends(n, "finish", r)
  /\ UNCHANGED <<inner, mutex, history>>

-----------------------------------------------------------------------------
(* The thread writes its outcome to the snapshot and ends.                  *)

Finishes(n) ==
  /\ thread[n].at = "finish"
  /\ thread' = [thread EXCEPT ![n] = NoThread]
  /\ stopped' = FALSE /\ refused' = FALSE
  /\ UNCHANGED <<command, held, mutex, startup, outside, ops, reviews, cancel, pending,
                 sender>>

(* The outcome of an operation other than prepare_bitlocker is told.        *)
Tells(n) ==
  /\ Finishes(n)
  /\ told' = IF thread[n].kind \in UsbChecks THEN "check"
             ELSE IF stopped \/ refused THEN "asked" ELSE "unasked"
  /\ UNCHANGED previous

(* The choices of an inventory: the USB drives that are eligible and large  *)
(* enough, or the disks with unallocated space.  Each gets a new id, so     *)
(* none of them is a choice of an earlier list; nothing is inspected yet.   *)
Listed(kind, drives) ==
  [kind |-> kind, list |-> lists + 1, drives |-> drives, plans |-> NoPlans]

(* Their destinations, with the same ids: what a choice of unallocated      *)
(* space, of shrinking or of replacing a partition would do to its disk.    *)
Targeted(kind, drives) ==
  [kind |-> kind, list |-> lists + 1, drives |-> drives]

(* inventory: new choices, and destinations for the eligible ones.          *)
inventory(n, drives) ==
  /\ Tells(n) /\ thread[n].kind \in Inventories /\ thread[n].result = "ok"
  /\ lists' = lists + 1
  /\ LET kind == IF thread[n].kind = "list" THEN "usb" ELSE "direct"
     IN  /\ destinations' = Targeted(kind, drives)
         /\ snap' = [snap EXCEPT !.status = "ready", !.available = FALSE,
                                 !.choices = Listed(kind, drives)]

(* inspect_usb_choice: what the inspection found; keeping files is for      *)
(* Windows only.                                                            *)
Compatibility(n, plan) ==
  /\ Tells(n) /\ thread[n].kind \in UsbChecks /\ thread[n].result = "ok"
  /\ plan # NoPlan => windows
  /\ snap' = [snap EXCEPT !.status = "ready", !.available = FALSE,
                          !.choices.plans[thread[n].request.drive] = plan]
  /\ UNCHANGED <<destinations, lists>>

(* prepare_setup, staged_iso and start_setup.                               *)
Complete(n) ==
  /\ Tells(n) /\ thread[n].result = "ok"
  /\ thread[n].kind \in {"prepare", "install"} \cup Staged \cup UsbWrites
  /\ LET prepared == thread[n].kind = "prepare"
     IN  /\ snap' = [snap EXCEPT
              !.status = IF prepared THEN "prepared" ELSE "complete",
              !.available = FALSE,
              !.review = IF thread[n].kind \in Staged THEN "none" ELSE @,
              !.choices = IF prepared THEN NoChoices ELSE @]
         /\ destinations' = IF prepared THEN NoTargets ELSE destinations
  /\ UNCHANGED lists

(* prepare_bitlocker, whatever the outcome: the snapshot of before.         *)
Restore(n) ==
  /\ Finishes(n) /\ thread[n].kind = "bitlocker"
  /\ snap' = previous
  /\ previous' = FirstSnapshot
  /\ UNCHANGED <<destinations, lists, told>>

(* record_failure: what was declined or stopped is not a failure.           *)
Outcome(n) ==
  IF \/ snap.target # "none" /\ thread[n].result = "unconfirmed"
     \/ thread[n].result = "declined"
     \/ cancel
  THEN "cancelled" ELSE "failed"

(* Mutant: an approved review stays when its operation fails.               *)
record_failure_review(n) ==
  /\ Tells(n) /\ thread[n].kind # "bitlocker"
  /\ thread[n].result \in {"error", "unconfirmed", "declined"}
  /\ snap' = [snap EXCEPT !.status = Outcome(n), !.available = FALSE,
                !.choices.plans = IF snap.kind = "usb" THEN NoPlans ELSE @]
  /\ UNCHANGED <<destinations, lists>>

record_failure(n) ==
  /\ Tells(n) /\ thread[n].kind # "bitlocker"
  /\ thread[n].result \in {"error", "unconfirmed", "declined"}
  /\ snap' = [snap EXCEPT !.review = "none", !.status = Outcome(n), !.available = FALSE,
                !.choices.plans = IF snap.kind = "usb" THEN NoPlans ELSE @]
  /\ UNCHANGED <<destinations, lists>>

-----------------------------------------------------------------------------
(* The startup thread, the helper, the Apple setup and the downloads.       *)

Startup == UNCHANGED <<main, thread, outside, drawn, history, destinations, pending,
                       cancel, sender>>

(* start_admin_session, called once when the window opens.                  *)
StartAdmin ==
  /\ Idle /\ windows /\ startup = "none"
  /\ startup' = "try"
  /\ Startup /\ UNCHANGED <<snap, mutex>>

(* It asks unless the session is held or there is one.                      *)
AskAdmin ==
  /\ startup = "try"
  /\ IF lock = Free /\ session = "none"
     THEN /\ lock' = AtStartup
          /\ startup' = "prompt"
          /\ snap' = [snap EXCEPT !.admin = "asking"]
     ELSE startup' = "ended" /\ UNCHANGED <<lock, snap>>
  /\ Startup /\ UNCHANGED session

AdminAnswered(yes) ==
  /\ startup = "prompt"
  /\ startup' = "ended"
  /\ lock' = Free
  /\ session' = IF yes THEN "live" ELSE "none"
  /\ snap' = [snap EXCEPT !.admin = IF yes THEN "ready" ELSE "declined"]
  /\ Startup

(* The helper process ends at any time.                                     *)
HelperDies ==
  /\ session = "live"
  /\ session' = "dead"
  /\ UNCHANGED <<inner, main, thread, lock, startup, outside, drawn, history>>

(* Mutant: the other setup is not asked.                                    *)
AppleStarts_unasked ==
  /\ Idle /\ ~windows /\ ~apple
  /\ apple' = TRUE
  /\ UNCHANGED <<inner, main, thread, mutex, startup, image, windows, drawn,
                 history>>

(* apple_setup_action: on macOS, when no setup operation is active.         *)
AppleStarts ==
  /\ Idle /\ ~windows /\ ~apple
  /\ ~active_operation
  /\ apple' = TRUE
  /\ UNCHANGED <<inner, main, thread, mutex, startup, image, windows, drawn,
                 history>>

AppleEnds ==
  /\ apple
  /\ apple' = FALSE
  /\ UNCHANGED <<inner, main, thread, mutex, startup, image, windows, drawn,
                 history>>

(* verified_source of the downloads, whose threads run beside these.        *)
Downloaded ==
  /\ \E i \in Images \cup {NoImage} : image # i /\ image' = i
  /\ UNCHANGED <<inner, main, thread, mutex, startup, apple, windows, drawn,
                 history>>

-----------------------------------------------------------------------------
Init ==
  /\ snap = FirstSnapshot
  /\ destinations = NoTargets
  /\ pending = NoReview
  /\ cancel = FALSE
  /\ sender = 0
  /\ command = NoCommand
  /\ held = FirstSnapshot
  /\ previous = FirstSnapshot
  /\ thread = [n \in Ops |-> NoThread]
  /\ lock = Free
  /\ session = "none"
  /\ startup = "none"
  /\ apple = FALSE
  /\ image = NoImage
  /\ windows \in Windows
  /\ ops = 0 /\ lists = 0 /\ reviews = 0
  /\ stopped = FALSE
  /\ refused = FALSE
  /\ told = "unasked"

Command ==
  \/ \E kind \in Inventories : Inspect(kind)
  \/ Prepare
  \/ \E action \in Staged : StagedIso(action)
  \/ PrepareBitLocker
  \/ \E kind \in UsbChecks, d \in Drives : InspectUsbChoice(kind, d)
  \/ \E mode \in UsbWrites, d \in Drives : ReviewUsb(mode, d)
  \/ DismissReview
  \/ \E mode \in UsbWrites, d \in Drives, t \in 0 .. reviews : StartUsb(mode, d, t)
  \/ \E d \in Drives : StartDirect(d)
  \/ CancelSetup
  \/ \E yes \in BOOLEAN : RespondReview(yes)
  \/ StartAdmin

Continue == BeginBitLocker \/ TakeReview \/ BeginStart

Exchange(n) ==
  \/ AskWrite(n) \/ AskRefused(n) \/ AskReview(n) \/ AskDialog(n)
  \/ \E r \in {"ok", "error", "unconfirmed"} : Reports(n, r)
  \/ Disconnected(n)

Work(n) ==
  \/ PrepareFails(n) \/ acquire_session(n)
  \/ Launched(n) \/ \E r \in {"declined", "error"} : NotLaunched(n, r)
  \/ \E sent \in BOOLEAN : Register(n, sent)
  \/ Exchange(n)
  \/ ReviewEnds(n) \/ ReviewAnswered(n)
  \/ \E yes \in BOOLEAN : DialogAnswered(n, yes)
  \/ Release(n)
  \/ \E r \in {"ok", "error"} : RunLocal(n, r)

Finish(n) ==
  \/ \E drives \in SUBSET Drives : inventory(n, drives)
  \/ \E plan \in Plans \cup {NoPlan} : Compatibility(n, plan)
  \/ Complete(n) \/ Restore(n) \/ record_failure(n)

Next ==
  \/ Command
  \/ Continue
  \/ \E n \in Ops : Work(n) \/ Finish(n) \/ \E available \in BOOLEAN : Event(n, available)
  \/ AskAdmin \/ \E yes \in BOOLEAN : AdminAnswered(yes)
  \/ ReviewExpires \/ HelperDies \/ AppleStarts \/ AppleEnds \/ Downloaded

Spec == Init /\ [][Next]_vars

(* What runs owes a next step: the main thread, the threads of operations   *)
(* and of the startup, whose prompts, dialogs and reviews are answered (a   *)
(* review ends by itself).  That a helper answers is in HelperSession.      *)
Fairness ==
  /\ WF_vars(Continue)
  /\ \A n \in Ops : WF_vars(Work(n)) /\ WF_vars(Finish(n))
  /\ WF_vars(\E yes \in BOOLEAN : AdminAnswered(yes))

FairSpec == Spec /\ Fairness

-----------------------------------------------------------------------------
(* Properties.                                                              *)

Places == {"none", "local", "prepare", "prompt", "send", "exchange", "review",
           "reviewed", "dialog", "release", "finish"}

Threads == [at : Places, kind : Kinds, request : Requests \cup {NoRequest},
            answer : {"none", "yes", "no"}, user : {"none", "yes", "no"},
            result : {"none", "ok", "error", "unconfirmed", "declined"},
            finished : BOOLEAN]

(* Every variable stays within the values its Rust type and use allow.      *)
TypeOK ==
  /\ snap \in Snapshots /\ held \in Snapshots /\ previous \in Snapshots
  /\ destinations \in [kind : {"none", "usb", "direct"}, list : 0 .. MaxLists,
                       drives : SUBSET Drives]
  /\ pending \in [token : 0 .. MaxReviews, request : Requests \cup {NoRequest},
                  expired : BOOLEAN]
  /\ cancel \in BOOLEAN
  /\ sender \in 0 .. MaxOps
  /\ command \in [at : {"none", "bitlocker", "take", "begin"},
                  request : Requests \cup {NoRequest}, token : 0 .. MaxReviews,
                  kind : UsbWrites \cup {"install"}]
  /\ thread \in [Ops -> Threads]
  /\ lock \in 0 .. AtStartup
  /\ session \in {"none", "live", "dead"}
  /\ startup \in {"none", "try", "prompt", "ended"}
  /\ apple \in BOOLEAN /\ image \in Images \cup {NoImage} /\ windows \in BOOLEAN
  /\ ops \in 0 .. MaxOps /\ lists \in 0 .. MaxLists /\ reviews \in 0 .. MaxReviews
  /\ stopped \in BOOLEAN /\ refused \in BOOLEAN
  /\ told \in {"check", "asked", "unasked"}

Running(n) == thread[n].at # "none"

(* One operation runs at a time, and the window shows it for as long as it  *)
(* runs, so that no command starts another and the window does not close.   *)
OneOperation ==
  \A n \in Ops : Running(n) =>
    /\ active_operation
    /\ n = ops
    /\ \A m \in Ops \ {n} : ~Running(m)

(* The setup and the Apple setup never run together, whatever each checks   *)
(* of the other before it starts.                                           *)
SetupsExclude == apple => \A n \in Ops : ~Running(n)

(* The review the window shows is the one that can be confirmed.            *)
ShownIsPending == snap.usbReview = pending.token

(* The window says "cancelled" of operations the user stopped or did not    *)
(* agree to.  Checks of a USB drive are left out: they begin without begin  *)
(* and keep the flag of an earlier operation.                               *)
CancelledWasAsked == snap.status = "cancelled" => told # "unasked"

(* A staged review is on the window exactly while its thread can hear the   *)
(* answer, or takes it down next; an approved one until its operation ends. *)
ReviewIsLive ==
  /\ sender # 0 => thread[sender].at \in {"review", "reviewed"} /\ snap.review = "asking"
  /\ snap.review = "asking"
       => \E n \in Ops : /\ thread[n].at \in {"review", "reviewed"}
                         /\ sender = n \/ thread[n].user # "none" \/ thread[n].at = "reviewed"
  /\ snap.review = "approved"
       => \E n \in Ops : thread[n].kind = "stage" /\ thread[n].answer = "yes"

(* A drive is written only as the last review says, once.                   *)
Writing == {n \in Ops : Running(n) /\ thread[n].kind \in UsbWrites}

Promise == INSTANCE ReviewPromise WITH
  shown    <- IF pending.expired THEN NoRequest ELSE pending.request,
  taken    <- IF command.at = "begin" /\ command.kind \in UsbWrites THEN command.request
              ELSE IF Writing # {} THEN thread[CHOOSE n \in Writing : TRUE].request
              ELSE NoRequest,
  approved <- \E n \in Writing : thread[n].answer = "yes"

KeepsReviews == Promise!Spec

(* A write that was stopped before its plan was approved is not approved.   *)
StopWithdraws ==
  [][\A n \in Ops : thread'[n].answer = "yes" /\ thread[n].answer = "none"
                      /\ thread[n].kind \in UsbWrites => ~stopped]_vars

(* An operation that began ends: "Wait for the setup operation to finish".  *)
OperationEnds == active_operation ~> ~active_operation
=============================================================================
