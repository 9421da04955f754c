------------------------ MODULE SetupState_proofs --------------------------
(***************************************************************************)
(* What the commands of the window share, for every set of drives, plans   *)
(* and images and any number of operations.  The argument: a thread runs   *)
(* only while the snapshot is active, and it is the thread of the last     *)
(* operation, so whatever a command finds idle has no thread that would    *)
(* undo what the command does.                                             *)
(***************************************************************************)
EXTENDS SetupState, TLAPS

(* The types in parts: of the snapshot, of what else Inner holds, of the    *)
(* commands, of the threads and of the rest.                                *)
SnapTypes == snap \in Snapshots /\ held \in Snapshots /\ previous \in Snapshots

InnerTypes ==
  /\ destinations \in [kind : {"none", "usb", "direct"}, list : 0 .. MaxLists,
                       drives : SUBSET Drives]
  /\ pending \in [token : 0 .. MaxReviews, request : Requests \cup {NoRequest},
                  expired : BOOLEAN]
  /\ sender \in 0 .. MaxOps

CommandTypes ==
  command \in [at : {"none", "bitlocker", "take", "begin"},
               request : Requests \cup {NoRequest}, token : 0 .. MaxReviews,
               kind : UsbWrites \cup {"install"}]

ThreadTypes == thread \in [Ops -> Threads] /\ ops \in 0 .. MaxOps

MutexTypes ==
  /\ lock \in 0 .. AtStartup
  /\ session \in {"none", "live", "dead"}
  /\ startup \in {"none", "try", "prompt", "ended"}

OutsideTypes ==
  /\ apple \in BOOLEAN /\ windows \in BOOLEAN
  /\ image \in Images \cup {NoImage}

FlagTypes == cancel \in BOOLEAN /\ stopped \in BOOLEAN /\ refused \in BOOLEAN

CountTypes ==
  /\ lists \in 0 .. MaxLists /\ reviews \in 0 .. MaxReviews
  /\ told \in {"check", "asked", "unasked"}

RestTypes == MutexTypes /\ OutsideTypes /\ FlagTypes /\ CountTypes

Types == SnapTypes /\ InnerTypes /\ CommandTypes /\ ThreadTypes /\ RestTypes

LEMMA TypeParts == Types <=> TypeOK
BY DEF Types, TypeOK, SnapTypes, InnerTypes, CommandTypes, ThreadTypes, RestTypes,
       MutexTypes, OutsideTypes, FlagTypes, CountTypes

(* What a step leaves alone stays well typed.                               *)
LEMMA Kept ==
  /\ SnapTypes /\ UNCHANGED <<snap, held, previous>> => SnapTypes'
  /\ InnerTypes /\ UNCHANGED <<destinations, pending, sender>> => InnerTypes'
  /\ CommandTypes /\ UNCHANGED command => CommandTypes'
  /\ ThreadTypes /\ UNCHANGED <<thread, ops>> => ThreadTypes'
  /\ MutexTypes /\ UNCHANGED <<lock, session, startup>> => MutexTypes'
  /\ OutsideTypes /\ UNCHANGED <<apple, image, windows>> => OutsideTypes'
  /\ CountTypes /\ UNCHANGED <<lists, reviews, told>> => CountTypes'
  /\ FlagTypes /\ UNCHANGED <<cancel, stopped, refused>> => FlagTypes'
<1>1. SnapTypes /\ UNCHANGED <<snap, held, previous>> => SnapTypes'
  BY DEF SnapTypes
<1>2. InnerTypes /\ UNCHANGED <<destinations, pending, sender>> => InnerTypes'
  BY DEF InnerTypes
<1>3. CommandTypes /\ UNCHANGED command => CommandTypes'
  BY DEF CommandTypes
<1>4. ThreadTypes /\ UNCHANGED <<thread, ops>> => ThreadTypes'
  BY DEF ThreadTypes
<1>5. MutexTypes /\ UNCHANGED <<lock, session, startup>> => MutexTypes'
  BY DEF MutexTypes
<1>6. OutsideTypes /\ UNCHANGED <<apple, image, windows>> => OutsideTypes'
  BY DEF OutsideTypes
<1>7. CountTypes /\ UNCHANGED <<lists, reviews, told>> => CountTypes'
  BY DEF CountTypes
<1>8. FlagTypes /\ UNCHANGED <<cancel, stopped, refused>> => FlagTypes'
  BY DEF FlagTypes
<1>. QED BY <1>1, <1>2, <1>3, <1>4, <1>5, <1>6, <1>7, <1>8

(* An inventory that is being taken is one of those the bound allows.       *)
Counted == \A n \in Ops : Running(n) /\ thread[n].kind \in Inventories => lists < MaxLists

-----------------------------------------------------------------------------
(* The values the variables start with.                                     *)
LEMMA FirstTypes ==
  /\ FirstSnapshot \in Snapshots
  /\ NoPlans \in [Drives -> Plans \cup {NoPlan}]
  /\ NoChoices \in Choices
  /\ NoTargets \in [kind : {"none", "usb", "direct"}, list : 0 .. MaxLists,
                    drives : SUBSET Drives]
  /\ NoReview \in [token : 0 .. MaxReviews, request : Requests \cup {NoRequest},
                   expired : BOOLEAN]
  /\ NoCommand \in [at : {"none", "bitlocker", "take", "begin"},
                    request : Requests \cup {NoRequest}, token : 0 .. MaxReviews,
                    kind : UsbWrites \cup {"install"}]
  /\ NoThread \in Threads
<1>0. 0 \in 0 .. MaxLists /\ 0 \in 0 .. MaxReviews /\ 0 \in 0 .. MaxOps
  BY SetupAssumption
<1>1. NoPlans \in [Drives -> Plans \cup {NoPlan}]
  BY DEF NoPlans
<1>2. NoChoices \in Choices
  BY <1>0, <1>1 DEF NoChoices, Choices
<1>3. FirstSnapshot \in Snapshots
  BY <1>0, <1>2 DEF FirstSnapshot, Snapshots, Statuses
<1>4. NoThread \in Threads
  BY DEF NoThread, Threads, Places, Kinds, Inventories
<1>. QED BY <1>0, <1>1, <1>2, <1>3, <1>4 DEF NoTargets, NoReview, NoCommand, UsbWrites

LEMMA InitTypes == Init => Types
<1>. SUFFICES ASSUME Init PROVE Types
  OBVIOUS
<1>1. SnapTypes
  BY FirstTypes DEF Init, SnapTypes
<1>2. InnerTypes
  <2>1. sender \in 0 .. MaxOps
    BY SetupAssumption DEF Init
  <2>. QED BY <2>1, FirstTypes DEF Init, InnerTypes
<1>3. CommandTypes
  BY FirstTypes DEF Init, CommandTypes
<1>4. ThreadTypes
  BY FirstTypes, SetupAssumption DEF Init, ThreadTypes
<1>5. RestTypes
  <2>1. lock \in 0 .. AtStartup /\ lists \in 0 .. MaxLists /\ reviews \in 0 .. MaxReviews
    BY SetupAssumption DEF Init, Free, AtStartup
  <2>2. stopped = FALSE /\ refused = FALSE /\ apple = FALSE /\ cancel = FALSE
    BY DEF Init
  <2>3. windows \in BOOLEAN
    BY SetupAssumption DEF Init
  <2>. QED BY <2>1, <2>2, <2>3
           DEF Init, RestTypes, MutexTypes, OutsideTypes, FlagTypes, CountTypes
<1>. QED BY <1>1, <1>2, <1>3, <1>4, <1>5 DEF Types

(* What begin and Spawn make is well typed.                                 *)
LEMMA BegunTypes ==
  ASSUME NEW s \in Snapshots, NEW kind \in {"none", "usb", "direct"},
         NEW status \in {"inspecting", "running"}, NEW target \in Staged \cup {"none"}
  PROVE  Begun(s, kind, status, target) \in Snapshots
<1>. DEFINE c == IF status = "inspecting" THEN NoChoices ELSE s.choices
<1>1. /\ 0 \in 0 .. MaxReviews /\ 0 \in 0 .. MaxOps
      /\ status \in Statuses /\ NoChoices \in Choices
  BY FirstTypes, SetupAssumption DEF Statuses
<1>2. c \in Choices
  BY <1>1 DEF Snapshots
<1>3. Begun(s, kind, status, target)
        = [s EXCEPT !.usbReview = 0, !.kind = kind, !.status = status,
                    !.requested = FALSE, !.available = FALSE, !.review = "none",
                    !.target = target, !.choices = c]
  BY DEF Begun
<1>. HIDE DEF c
<1>. QED BY <1>1, <1>2, <1>3 DEF Snapshots

LEMMA BeginTypes ==
  ASSUME SnapTypes, InnerTypes,
         NEW kind \in {"none", "usb", "direct"}, NEW status \in {"inspecting", "running"},
         NEW target \in Staged \cup {"none"}, begin(kind, status, target)
  PROVE  snap' \in Snapshots /\ InnerTypes' /\ cancel' = FALSE
<1>1. snap' \in Snapshots
  BY BegunTypes DEF SnapTypes, begin
<1>2. InnerTypes'
  BY FirstTypes DEF InnerTypes, begin
<1>. QED BY <1>1, <1>2 DEF begin

LEMMA SpawnTypes ==
  ASSUME ThreadTypes, NEW kind \in Kinds, NEW request \in Requests \cup {NoRequest},
         Spawn(kind, request)
  PROVE  /\ ThreadTypes'
         /\ ops' = ops + 1 /\ ops' \in Ops
         /\ thread' = [thread EXCEPT ![ops + 1] = thread'[ops + 1]]
         /\ thread'[ops + 1].at # "none"
         /\ thread'[ops + 1].kind = kind
         /\ thread'[ops + 1].request = request
         /\ thread'[ops + 1].answer = "none"
         /\ thread'[ops + 1].at \in {"local", "prepare"}
<1>. DEFINE t == [NoThread EXCEPT !.at = IF kind \in Local THEN "local" ELSE "prepare",
                                  !.kind = kind, !.request = request]
<1>1. ops' = ops + 1 /\ ops + 1 \in Ops /\ ops' \in 0 .. MaxOps
  BY SetupAssumption DEF Spawn, Room, ThreadTypes, Ops
<1>2. t \in Threads
  BY FirstTypes DEF Threads, Places
<1>3. thread' = [thread EXCEPT ![ops + 1] = t]
  BY DEF Spawn
<1>4. thread'[ops + 1] = t
  BY <1>1, <1>3 DEF ThreadTypes
<1>5. /\ t.at \in {"local", "prepare"} /\ t.kind = kind /\ t.request = request
      /\ t.answer = "none"
  BY DEF NoThread
<1>. HIDE DEF t
<1>6. ThreadTypes'
  BY <1>1, <1>2, <1>3 DEF ThreadTypes
<1>. QED BY <1>1, <1>3, <1>4, <1>5, <1>6

(* A command that begins an operation.                                      *)
LEMMA StartTypes ==
  ASSUME Types,
         NEW kind \in Kinds, NEW request \in Requests \cup {NoRequest},
         NEW k \in {"none", "usb", "direct"}, NEW status \in {"inspecting", "running"},
         NEW target \in Staged \cup {"none"},
         begin(k, status, target), Spawn(kind, request), UNCHANGED <<held, previous>>
  PROVE  SnapTypes' /\ InnerTypes' /\ ThreadTypes' /\ cancel' = FALSE
BY BeginTypes, SpawnTypes DEF Types, SnapTypes

LEMMA CommandStepTypes ==
  ASSUME Types, Command
  PROVE  Types'
<1>. USE Kept DEF Types, RestTypes
<1>1. CASE \E kind \in Inventories : Inspect(kind)
  <2>. PICK kind \in Inventories : Inspect(kind)
    BY <1>1
  <2>1. SnapTypes' /\ InnerTypes' /\ ThreadTypes' /\ cancel' = FALSE
    BY StartTypes DEF Inspect, Starts, main, Inventories, Kinds, Staged
  <2>. QED BY <2>1
           DEF Inspect, Starts, FlagTypes, inner, main, mutex, outside, drawn,
               history
<1>2. CASE Prepare
  <2>1. SnapTypes' /\ InnerTypes' /\ ThreadTypes' /\ cancel' = FALSE
    BY <1>2, StartTypes DEF Prepare, Starts, main, Kinds, Staged
  <2>. QED BY <1>2, <2>1
           DEF Prepare, Starts, FlagTypes, inner, main, mutex, outside, drawn,
               history
<1>3. CASE \E action \in Staged : StagedIso(action)
  <2>. PICK action \in Staged : StagedIso(action)
    BY <1>3
  <2>1. SnapTypes' /\ InnerTypes' /\ ThreadTypes' /\ cancel' = FALSE
    BY StartTypes DEF StagedIso, Starts, main, Kinds
  <2>. QED BY <2>1
           DEF StagedIso, Starts, FlagTypes, inner, main, mutex, outside,
               drawn, history
<1>4. CASE PrepareBitLocker
  <2>1. held' \in Snapshots
    BY <1>4, SetupAssumption DEF PrepareBitLocker, SnapTypes, Snapshots
  <2>2. CommandTypes'
    BY <1>4, FirstTypes DEF PrepareBitLocker, CommandTypes
  <2>. QED BY <1>4, <2>1, <2>2
           DEF PrepareBitLocker, SnapTypes, inner, main, mutex, outside, drawn,
               history
<1>5. CASE \E kind \in UsbChecks, d \in Drives : InspectUsbChoice(kind, d)
  <2>. PICK kind \in UsbChecks, d \in Drives : InspectUsbChoice(kind, d)
    BY <1>5
  <2>1. snap' \in Snapshots
    <3>. DEFINE p == [snap.choices.plans EXCEPT ![d] = NoPlan]
                c == [snap.choices EXCEPT !.plans = p]
    <3>1. snap.choices \in Choices /\ p \in [Drives -> Plans \cup {NoPlan}]
      BY DEF SnapTypes, Snapshots, Choices
    <3>2. snap' = [snap EXCEPT !.status = "running", !.available = FALSE, !.choices = c]
      BY DEF InspectUsbChoice
    <3>. HIDE DEF p
    <3>3. c \in Choices
      BY <3>1 DEF Choices
    <3>. HIDE DEF c
    <3>. QED BY <3>2, <3>3 DEF SnapTypes, Snapshots, Statuses
  <2>2. ThreadTypes'
    <3>1. [mode |-> "check", drive |-> d, plan |-> NoPlan, image |-> image] \in Requests
      BY DEF InspectUsbChoice, OutsideTypes, Requests
    <3>. QED BY <3>1, SpawnTypes DEF InspectUsbChoice, Kinds
  <2>. QED BY <2>1, <2>2
           DEF InspectUsbChoice, Starts, SnapTypes, InnerTypes, inner, main,
               mutex, outside, drawn, history
<1>6. CASE \E mode \in UsbWrites, d \in Drives : ReviewUsb(mode, d)
  <2>. PICK mode \in UsbWrites, d \in Drives : ReviewUsb(mode, d)
    BY <1>6
  <2>1. Request(mode, d) \in Requests
    BY DEF ReviewUsb, Request, Requests, OutsideTypes, SnapTypes, Snapshots, Choices, UsbWrites
  <2>2. reviews' \in 0 .. MaxReviews /\ reviews' = reviews + 1
    BY SetupAssumption DEF ReviewUsb, CountTypes
  <2>3. snap' \in Snapshots
    BY <2>2 DEF ReviewUsb, SnapTypes, Snapshots
  <2>4. InnerTypes'
    <3>. DEFINE r == [token |-> reviews + 1, request |-> Request(mode, d),
                      expired |-> FALSE]
    <3>1. r \in [token : 0 .. MaxReviews, request : Requests \cup {NoRequest},
                expired : BOOLEAN]
      BY <2>1, <2>2
    <3>2. pending' = r /\ UNCHANGED <<destinations, sender>>
      BY DEF ReviewUsb
    <3>. HIDE DEF r
    <3>. QED BY <3>1, <3>2 DEF InnerTypes
  <2>5. CountTypes'
    BY <2>2 DEF ReviewUsb, CountTypes, history
  <2>. QED BY <2>3, <2>4, <2>5
           DEF ReviewUsb, SnapTypes, inner, main, mutex, outside, drawn,
               history
<1>7. CASE DismissReview
  <2>1. snap' \in Snapshots /\ InnerTypes'
    BY <1>7, FirstTypes, SetupAssumption
       DEF DismissReview, SnapTypes, InnerTypes, Snapshots
  <2>. QED BY <1>7, <2>1
           DEF DismissReview, SnapTypes, inner, main, mutex, outside, drawn,
               history
<1>8. CASE \E mode \in UsbWrites, d \in Drives, t \in 0 .. reviews : StartUsb(mode, d, t)
  <2>. PICK mode \in UsbWrites, d \in Drives, t \in 0 .. reviews : StartUsb(mode, d, t)
    BY <1>8
  <2>1. Request(mode, d) \in Requests
    BY DEF StartUsb, Request, Requests, OutsideTypes, SnapTypes, Snapshots, Choices, UsbWrites
  <2>2. t \in 0 .. MaxReviews
    BY SetupAssumption DEF CountTypes
  <2>3. CommandTypes'
    BY <2>1, <2>2 DEF StartUsb, CommandTypes
  <2>. QED BY <2>3
           DEF StartUsb, SnapTypes, inner, main, mutex, outside, drawn, history
<1>9. CASE \E d \in Drives : StartDirect(d)
  <2>1. CommandTypes'
    BY <1>9, FirstTypes DEF StartDirect, CommandTypes
  <2>. QED BY <1>9, <2>1
           DEF StartDirect, SnapTypes, inner, main, mutex, outside, drawn,
               history
<1>10. CASE CancelSetup
  <2>1. snap' \in Snapshots
    BY <1>10 DEF CancelSetup, SnapTypes, Snapshots
  <2>2. FlagTypes'
    BY <1>10 DEF CancelSetup, FlagTypes
  <2>. QED BY <1>10, <2>1, <2>2
           DEF CancelSetup, SnapTypes, InnerTypes, inner, main, mutex, outside,
               drawn, history
<1>11. CASE \E yes \in BOOLEAN : RespondReview(yes)
  <2>. PICK yes \in BOOLEAN : RespondReview(yes)
    BY <1>11
  <2>1. sender \in Ops /\ sender' \in 0 .. MaxOps
    BY SetupAssumption DEF RespondReview, InnerTypes, Ops
  <2>2. [thread[sender] EXCEPT !.user = IF yes THEN "yes" ELSE "no"] \in Threads
    BY <2>1 DEF ThreadTypes, Threads
  <2>3. ThreadTypes'
    BY <2>1, <2>2 DEF RespondReview, ThreadTypes, drawn
  <2>. QED BY <2>1, <2>3
           DEF RespondReview, SnapTypes, InnerTypes, inner, main, mutex,
               outside, drawn, history
<1>12. CASE StartAdmin
  <2>1. MutexTypes'
    BY <1>12 DEF StartAdmin, MutexTypes, mutex
  <2>. QED BY <1>12, <2>1
           DEF StartAdmin, Startup, SnapTypes, InnerTypes, inner, main, mutex,
               outside, drawn, history
<1>. QED BY <1>1, <1>2, <1>3, <1>4, <1>5, <1>6, <1>7, <1>8, <1>9, <1>10, <1>11, <1>12
         DEF Command

LEMMA ContinueStepTypes ==
  ASSUME Types, Continue
  PROVE  Types'
<1>. USE Kept DEF Types, RestTypes
<1>1. CASE BeginBitLocker
  <2>0. held' \in Snapshots /\ CommandTypes'
    BY <1>1, FirstTypes DEF BeginBitLocker, CommandTypes
  <2>1. CASE begin(held.kind, "running", "none") /\ Spawn("bitlocker", NoRequest)
               /\ previous' = held
    <3>1. held.kind \in {"none", "usb", "direct"}
      BY DEF SnapTypes, Snapshots
    <3>2. snap' \in Snapshots /\ InnerTypes' /\ cancel' = FALSE
      BY <2>1, <3>1, BeginTypes
    <3>3. ThreadTypes'
      BY <2>1, SpawnTypes DEF Kinds
    <3>4. FlagTypes'
      BY <1>1, <3>2 DEF BeginBitLocker, FlagTypes, history
    <3>. QED BY <1>1, <2>0, <2>1, <3>2, <3>3, <3>4
             DEF BeginBitLocker, SnapTypes, mutex, outside, history
  <2>2. CASE UNCHANGED <<inner, thread, ops, previous>>
    BY <1>1, <2>0, <2>2
       DEF BeginBitLocker, SnapTypes, inner, mutex, outside, history
  <2>. QED BY <1>1, <2>1, <2>2 DEF BeginBitLocker
<1>2. CASE TakeReview
  <2>1. snap' \in Snapshots
    BY <1>2, SetupAssumption DEF TakeReview, SnapTypes, Snapshots
  <2>2. CommandTypes'
    BY <1>2, FirstTypes DEF TakeReview, CommandTypes
  <2>3. InnerTypes'
    BY <1>2, FirstTypes DEF TakeReview, InnerTypes
  <2>. QED BY <1>2, <2>1, <2>2, <2>3
           DEF TakeReview, SnapTypes, mutex, outside, drawn, history
<1>3. CASE BeginStart
  <2>0. CommandTypes'
    BY <1>3, FirstTypes DEF BeginStart, CommandTypes
  <2>1. CASE begin(IF command.kind = "install" THEN "direct" ELSE "usb", "running", "none")
               /\ Spawn(command.kind, command.request)
    <3>1. command.kind \in Kinds /\ command.request \in Requests \cup {NoRequest}
      BY DEF CommandTypes, Kinds, UsbWrites
    <3>2. SnapTypes' /\ InnerTypes' /\ ThreadTypes' /\ cancel' = FALSE
      BY <1>3, <2>1, <3>1, StartTypes DEF BeginStart
    <3>3. FlagTypes'
      BY <1>3, <3>2 DEF BeginStart, FlagTypes, history
    <3>. QED BY <1>3, <2>0, <3>2, <3>3 DEF BeginStart, mutex, outside, history
  <2>2. CASE UNCHANGED <<inner, thread, ops>>
    BY <1>3, <2>0, <2>2 DEF BeginStart, inner, mutex, outside, history
  <2>. QED BY <1>3, <2>1, <2>2 DEF BeginStart
<1>. QED BY <1>1, <1>2, <1>3 DEF Continue

(* A step of a thread to another place.                                     *)
LEMMA MoveTypes ==
  ASSUME ThreadTypes, NEW n \in Ops, NEW p \in Places,
         NEW r \in {"none", "ok", "error", "unconfirmed", "declined"},
         NEW a \in {"none", "yes", "no"}
  PROVE  /\ To(n, p) => thread' \in [Ops -> Threads]
         /\ Ends(n, p, r) => thread' \in [Ops -> Threads]
         /\ [thread[n] EXCEPT !.answer = a] \in Threads
         /\ [thread[n] EXCEPT !.at = p, !.answer = a] \in Threads
         /\ [thread[n] EXCEPT !.at = p, !.answer = a, !.result = r] \in Threads
<1>1. thread[n] \in Threads
  BY DEF ThreadTypes
<1>2. /\ [thread[n] EXCEPT !.at = p] \in Threads
      /\ [thread[n] EXCEPT !.at = p, !.result = r] \in Threads
      /\ [thread[n] EXCEPT !.answer = a] \in Threads
      /\ [thread[n] EXCEPT !.at = p, !.answer = a] \in Threads
      /\ [thread[n] EXCEPT !.at = p, !.answer = a, !.result = r] \in Threads
  BY <1>1 DEF Threads
<1>3. To(n, p) => thread' \in [Ops -> Threads]
  BY <1>2 DEF To, ThreadTypes
<1>4. Ends(n, p, r) => thread' \in [Ops -> Threads]
  BY <1>2 DEF Ends, ThreadTypes
<1>. QED BY <1>2, <1>3, <1>4

LEMMA WorkStepTypes ==
  ASSUME Types, NEW n \in Ops, Work(n) \/ \E available \in BOOLEAN : Event(n, available)
  PROVE  Types'
<1>n. /\ 0 \in 0 .. MaxOps /\ n \in 0 .. MaxOps
      /\ n \in 0 .. AtStartup /\ Free \in 0 .. AtStartup
  BY SetupAssumption DEF Ops, AtStartup, Free
<1>t. thread[n] \in Threads
  BY DEF Types, ThreadTypes
<1>r. ASSUME NEW r \in {"ok", "error", "unconfirmed"}
      PROVE  [thread[n] EXCEPT !.at = "release", !.result = r, !.finished = TRUE] \in Threads
  BY <1>t DEF Threads, Places
<1>a. ASSUME NEW p \in {"exchange", "release"}, NEW a \in {"yes", "no"},
             NEW r \in {thread[n].result, "error"}
      PROVE  [thread[n] EXCEPT !.at = p, !.answer = a, !.result = r] \in Threads
  BY <1>t DEF Threads, Places
<1>m. /\ \A p \in Places : To(n, p) => thread' \in [Ops -> Threads]
      /\ \A p \in Places, r \in {"ok", "error", "unconfirmed", "declined"} :
           Ends(n, p, r) => thread' \in [Ops -> Threads]
      /\ \A a \in {"yes", "no"} : [thread[n] EXCEPT !.answer = a] \in Threads
  BY MoveTypes DEF Types, Places
<1>. USE Kept DEF Types, RestTypes, Places, inner, main, mutex, outside, drawn, history
<1>1. CASE PrepareFails(n)
  BY <1>1, <1>m DEF PrepareFails, Steps, ThreadTypes
<1>2. CASE acquire_session(n)
  <2>1. thread' \in [Ops -> Threads]
    BY <1>2, <1>m DEF acquire_session
  <2>2. snap' \in Snapshots
    BY <1>2 DEF acquire_session, SnapTypes, Snapshots
  <2>3. MutexTypes'
    BY <1>n, <1>2 DEF acquire_session, Steps, MutexTypes
  <2>. QED BY <1>2, <2>1, <2>2, <2>3 DEF acquire_session, Steps, SnapTypes, ThreadTypes
<1>3. CASE Launched(n)
  <2>1. thread' \in [Ops -> Threads]
    BY <1>3, <1>m DEF Launched
  <2>2. snap' \in Snapshots
    BY <1>3 DEF Launched, SnapTypes, Snapshots
  <2>3. MutexTypes'
    BY <1>3 DEF Launched, Steps, MutexTypes
  <2>. QED BY <1>3, <2>1, <2>2, <2>3 DEF Launched, Steps, SnapTypes, ThreadTypes
<1>4. CASE \E r \in {"declined", "error"} : NotLaunched(n, r)
  <2>. PICK r \in {"declined", "error"} : NotLaunched(n, r)
    BY <1>4
  <2>1. thread' \in [Ops -> Threads]
    BY <1>m DEF NotLaunched
  <2>2. MutexTypes'
    BY <1>n DEF NotLaunched, Steps, MutexTypes
  <2>3. FlagTypes'
    BY DEF NotLaunched, FlagTypes
  <2>. QED BY <2>1, <2>2, <2>3 DEF NotLaunched, Steps, ThreadTypes
<1>5. CASE \E sent \in BOOLEAN : Register(n, sent)
  <2>. PICK sent \in BOOLEAN : Register(n, sent)
    BY <1>5
  <2>1. thread' \in [Ops -> Threads]
    BY <1>m DEF Register
  <2>2. snap' \in Snapshots
    BY DEF Register, SnapTypes, Snapshots
  <2>. QED BY <2>1, <2>2 DEF Register, Steps, SnapTypes, ThreadTypes
<1>6. CASE Exchange(n)
  <2>1. CASE AskWrite(n)
    <3>1. thread' \in [Ops -> Threads]
      BY <2>1, <1>m DEF AskWrite, ThreadTypes
    <3>. QED BY <2>1, <3>1 DEF AskWrite, Asks, Steps, ThreadTypes
  <2>2. CASE AskRefused(n)
    BY <2>2, <1>m DEF AskRefused, Steps, ThreadTypes
  <2>3. CASE AskReview(n)
    <3>1. thread' \in [Ops -> Threads]
      BY <2>3, <1>m DEF AskReview
    <3>2. snap' \in Snapshots
      BY <2>3 DEF AskReview, SnapTypes, Snapshots
    <3>3. InnerTypes'
      BY <1>n, <2>3 DEF AskReview, InnerTypes
    <3>. QED BY <2>3, <3>1, <3>2, <3>3 DEF AskReview, Asks, Steps, SnapTypes, ThreadTypes
  <2>4. CASE AskDialog(n)
    BY <2>4, <1>m DEF AskDialog, Asks, Steps, ThreadTypes
  <2>5. CASE \E r \in {"ok", "error", "unconfirmed"} : Reports(n, r)
    <3>. PICK r \in {"ok", "error", "unconfirmed"} : Reports(n, r)
      BY <2>5
    <3>1. thread' \in [Ops -> Threads]
      BY <1>r DEF Reports, ThreadTypes
    <3>. QED BY <3>1 DEF Reports, Steps, ThreadTypes
  <2>6. CASE Disconnected(n)
    BY <2>6, <1>m DEF Disconnected, Steps, ThreadTypes
  <2>. QED BY <1>6, <2>1, <2>2, <2>3, <2>4, <2>5, <2>6 DEF Exchange
<1>7. CASE ReviewEnds(n)
  BY <1>7, <1>m DEF ReviewEnds, Steps, ThreadTypes
<1>8. CASE ReviewAnswered(n)
  <2>1. thread' \in [Ops -> Threads]
    BY <1>8, <1>a DEF ReviewAnswered, ThreadTypes
  <2>2. snap' \in Snapshots
    BY <1>8 DEF ReviewAnswered, SnapTypes, Snapshots
  <2>3. InnerTypes'
    BY <1>n, <1>8 DEF ReviewAnswered, InnerTypes
  <2>4. FlagTypes'
    BY <1>8 DEF ReviewAnswered, FlagTypes
  <2>. QED BY <1>8, <2>1, <2>2, <2>3, <2>4 DEF ReviewAnswered, Steps, SnapTypes, ThreadTypes
<1>9. CASE \E yes \in BOOLEAN : DialogAnswered(n, yes)
  <2>. PICK yes \in BOOLEAN : DialogAnswered(n, yes)
    BY <1>9
  <2>1. thread' \in [Ops -> Threads]
    BY <1>a DEF DialogAnswered, ThreadTypes
  <2>2. FlagTypes'
    BY DEF DialogAnswered, FlagTypes
  <2>. QED BY <2>1, <2>2 DEF DialogAnswered, Steps, ThreadTypes
<1>10. CASE Release(n)
  <2>1. thread' \in [Ops -> Threads]
    BY <1>10, <1>m DEF Release
  <2>2. snap' \in Snapshots
    BY <1>10 DEF Release, SnapTypes, Snapshots
  <2>3. MutexTypes'
    BY <1>n, <1>10 DEF Release, Steps, MutexTypes
  <2>. QED BY <1>10, <2>1, <2>2, <2>3 DEF Release, Steps, SnapTypes, ThreadTypes
<1>11. CASE \E r \in {"ok", "error"} : RunLocal(n, r)
  BY <1>11, <1>m DEF RunLocal, Steps, ThreadTypes
<1>12. CASE \E available \in BOOLEAN : Event(n, available)
  <2>. PICK available \in BOOLEAN : Event(n, available)
    BY <1>12
  <2>1. snap' \in Snapshots
    BY <1>n DEF Event, SnapTypes, Snapshots
  <2>. QED BY <2>1 DEF Event, Steps, SnapTypes, ThreadTypes
<1>. QED BY <1>1, <1>2, <1>3, <1>4, <1>5, <1>6, <1>7, <1>8, <1>9, <1>10, <1>11, <1>12
         DEF Work

LEMMA FinishStepTypes ==
  ASSUME Types, Counted, NEW n \in Ops, Finish(n)
  PROVE  Types'
<1>t. ASSUME Finishes(n) PROVE ThreadTypes'
  BY <1>t, FirstTypes DEF Types, Finishes, ThreadTypes
<1>f. ASSUME Finishes(n) PROVE FlagTypes'
  BY <1>f DEF Types, RestTypes, Finishes, FlagTypes
<1>. USE Kept DEF Types, RestTypes, mutex, outside
<1>1. CASE \E drives \in SUBSET Drives : inventory(n, drives)
  <2>. PICK drives \in SUBSET Drives : inventory(n, drives)
    BY <1>1
  <2>1. lists' = lists + 1 /\ lists + 1 \in 0 .. MaxLists
    BY SetupAssumption
       DEF inventory, Listed, Targeted, Tells, Finishes, Counted, Running,
           CountTypes
  <2>. DEFINE kind == IF thread[n].kind = "list" THEN "usb" ELSE "direct"
              c    == [kind |-> kind, list |-> lists + 1, drives |-> drives,
                       plans |-> NoPlans]
              t    == [kind |-> kind, list |-> lists + 1, drives |-> drives]
  <2>2. c \in Choices
    BY <2>1, FirstTypes DEF Choices
  <2>3. t \in [kind : {"none", "usb", "direct"}, list : 0 .. MaxLists, drives : SUBSET Drives]
    BY <2>1
  <2>4. /\ destinations' = t
        /\ snap' = [snap EXCEPT !.status = "ready", !.available = FALSE, !.choices = c]
    BY DEF inventory, Listed, Targeted
  <2>. HIDE DEF c, t
  <2>5. snap' \in Snapshots
    BY <2>2, <2>4 DEF SnapTypes, Snapshots, Statuses
  <2>6. InnerTypes'
    BY <2>3, <2>4 DEF inventory, Listed, Targeted, Tells, Finishes, InnerTypes
  <2>7. CountTypes'
    BY <2>1 DEF inventory, Listed, Targeted, Tells, Finishes, CountTypes
  <2>. QED BY <1>t, <1>f, <2>5, <2>6, <2>7 DEF inventory, Listed, Targeted, Tells, Finishes, SnapTypes
<1>2. CASE \E plan \in Plans \cup {NoPlan} : Compatibility(n, plan)
  <2>. PICK plan \in Plans \cup {NoPlan} : Compatibility(n, plan)
    BY <1>2
  <2>1. snap' \in Snapshots
    <3>. DEFINE p == [snap.choices.plans EXCEPT ![thread[n].request.drive] = plan]
                c == [snap.choices EXCEPT !.plans = p]
    <3>1. snap.choices \in Choices /\ snap.choices.plans \in [Drives -> Plans \cup {NoPlan}]
      BY DEF SnapTypes, Snapshots, Choices
    <3>2. p \in [Drives -> Plans \cup {NoPlan}]
      BY <3>1
    <3>3. snap' = [snap EXCEPT !.status = "ready", !.available = FALSE, !.choices = c]
      BY DEF Compatibility
    <3>. HIDE DEF p
    <3>4. c \in Choices
      BY <3>1, <3>2 DEF Choices
    <3>. HIDE DEF c
    <3>. QED BY <3>3, <3>4 DEF SnapTypes, Snapshots, Statuses
  <2>2. CountTypes'
    BY DEF Compatibility, Tells, Finishes, CountTypes
  <2>. QED BY <1>t, <1>f, <2>1, <2>2 DEF Compatibility, Tells, Finishes, SnapTypes
<1>3. CASE Complete(n)
  <2>1. snap' \in Snapshots
    <3>. DEFINE st == IF thread[n].kind = "prepare" THEN "prepared" ELSE "complete"
                rv == IF thread[n].kind \in Staged THEN "none" ELSE snap.review
                c  == IF thread[n].kind = "prepare" THEN NoChoices ELSE snap.choices
    <3>1. st \in Statuses /\ rv \in {"none", "asking", "approved"} /\ c \in Choices
      BY FirstTypes DEF SnapTypes, Snapshots, Statuses
    <3>2. snap' = [snap EXCEPT !.status = st, !.available = FALSE, !.review = rv, !.choices = c]
      BY <1>3 DEF Complete
    <3>. HIDE DEF st, rv, c
    <3>. QED BY <3>1, <3>2 DEF SnapTypes, Snapshots
  <2>2. InnerTypes'
    BY <1>3, FirstTypes DEF Complete, Tells, Finishes, InnerTypes
  <2>3. CountTypes'
    BY <1>3 DEF Complete, Tells, Finishes, CountTypes
  <2>. QED BY <1>3, <1>t, <1>f, <2>1, <2>2, <2>3 DEF Complete, Tells, Finishes, SnapTypes
<1>4. CASE Restore(n)
  <2>1. SnapTypes'
    BY <1>4, FirstTypes DEF Restore, Finishes, SnapTypes
  <2>. QED BY <1>4, <1>t, <1>f, <2>1 DEF Restore, Finishes
<1>5. CASE record_failure(n)
  <2>1. snap' \in Snapshots
    <3>1. Outcome(n) \in Statuses
      BY DEF Outcome, Statuses
    <3>. DEFINE p == IF snap.kind = "usb" THEN NoPlans ELSE snap.choices.plans
                c == [snap.choices EXCEPT !.plans = p]
    <3>2. snap.choices \in Choices /\ p \in [Drives -> Plans \cup {NoPlan}]
      BY FirstTypes DEF SnapTypes, Snapshots, Choices
    <3>3. snap' = [snap EXCEPT !.review = "none", !.status = Outcome(n), !.available = FALSE,
                               !.choices = c]
      BY <1>5 DEF record_failure
    <3>. HIDE DEF p
    <3>4. c \in Choices
      BY <3>2 DEF Choices
    <3>. HIDE DEF c
    <3>. QED BY <3>1, <3>3, <3>4 DEF SnapTypes, Snapshots
  <2>2. CountTypes'
    BY <1>5 DEF record_failure, Tells, Finishes, CountTypes
  <2>. QED BY <1>5, <1>t, <1>f, <2>1, <2>2 DEF record_failure, Tells, Finishes, SnapTypes
<1>. QED BY <1>1, <1>2, <1>3, <1>4, <1>5 DEF Finish

(* What happens outside the threads of the operations.                      *)
Outside ==
  \/ AskAdmin \/ \E yes \in BOOLEAN : AdminAnswered(yes)
  \/ ReviewExpires \/ HelperDies \/ AppleStarts \/ AppleEnds \/ Downloaded

LEMMA OutsideStepTypes ==
  ASSUME Types, Outside
  PROVE  Types'
<1>n. AtStartup \in 0 .. AtStartup /\ Free \in 0 .. AtStartup
  BY SetupAssumption DEF AtStartup, Free
<1>. USE Kept DEF Types, RestTypes, inner, main, mutex, outside, drawn, history
<1>1. CASE AskAdmin
  <2>1. snap' \in Snapshots
    BY <1>1 DEF AskAdmin, SnapTypes, Snapshots
  <2>2. MutexTypes'
    BY <1>n, <1>1 DEF AskAdmin, MutexTypes
  <2>. QED BY <1>1, <2>1, <2>2 DEF AskAdmin, Startup, SnapTypes
<1>2. CASE \E yes \in BOOLEAN : AdminAnswered(yes)
  <2>. PICK yes \in BOOLEAN : AdminAnswered(yes)
    BY <1>2
  <2>1. snap' \in Snapshots
    BY DEF AdminAnswered, SnapTypes, Snapshots
  <2>2. MutexTypes'
    BY <1>n DEF AdminAnswered, MutexTypes
  <2>. QED BY <2>1, <2>2 DEF AdminAnswered, Startup, SnapTypes
<1>3. CASE ReviewExpires
  <2>1. InnerTypes'
    BY <1>3 DEF ReviewExpires, InnerTypes
  <2>. QED BY <1>3, <2>1 DEF ReviewExpires
<1>4. CASE HelperDies
  <2>1. MutexTypes'
    BY <1>4 DEF HelperDies, MutexTypes
  <2>. QED BY <1>4, <2>1 DEF HelperDies
<1>5. CASE AppleStarts
  <2>1. OutsideTypes'
    BY <1>5 DEF AppleStarts, OutsideTypes
  <2>. QED BY <1>5, <2>1 DEF AppleStarts
<1>6. CASE AppleEnds
  <2>1. OutsideTypes'
    BY <1>6 DEF AppleEnds, OutsideTypes
  <2>. QED BY <1>6, <2>1 DEF AppleEnds
<1>7. CASE Downloaded
  <2>1. OutsideTypes'
    BY <1>7 DEF Downloaded, OutsideTypes
  <2>. QED BY <1>7, <2>1 DEF Downloaded
<1>. QED BY <1>1, <1>2, <1>3, <1>4, <1>5, <1>6, <1>7 DEF Outside

(* The steps of Next, grouped by who takes them.                            *)
LEMMA NextParts ==
  Next <=> \/ Command \/ Continue \/ Outside
           \/ \E n \in Ops : Work(n) \/ \E available \in BOOLEAN : Event(n, available)
           \/ \E n \in Ops : Finish(n)
BY DEF Next, Outside

LEMMA StepTypes ==
  ASSUME Types, Counted, [Next]_vars
  PROVE  Types'
<1>1. CASE Next
  BY <1>1, NextParts, CommandStepTypes, ContinueStepTypes, OutsideStepTypes, WorkStepTypes,
     FinishStepTypes
<1>2. CASE UNCHANGED vars
  BY <1>2, Kept
     DEF Types, RestTypes, vars, inner, main, mutex, outside, drawn, history
<1>. QED BY <1>1, <1>2

-----------------------------------------------------------------------------
(* The invariant.  A thread that runs is that of the last operation, and    *)
(* the window shows it.                                                     *)
LastRuns == \A n \in Ops : Running(n) => active_operation /\ n = ops

(* A command between its critical sections: no Apple setup has started; one *)
(* that has looked at the choices finds nothing started since.              *)
Commanding ==
  /\ command.at # "none" => ~apple
  /\ command.at \in {"take", "begin"} => ~active_operation
  /\ command.at = "take" => command.kind \in UsbWrites
  /\ command.at \in {"take", "begin"} /\ command.kind \in UsbWrites
       => command.request \in Requests
  /\ command.at = "bitlocker" => held.usbReview = 0

(* While prepare_bitlocker runs there is no review that its snapshot lacks. *)
Restoring ==
  \A n \in Ops : Running(n) /\ thread[n].kind = "bitlocker"
                   => pending = NoReview /\ previous.usbReview = 0

(* What was stopped runs, and its flag is set.                              *)
Stopping == stopped => cancel /\ active_operation

(* Only a staged preparation is at a review, and no write of a USB is at a  *)
(* dialog of its own; a write has its request.                              *)
Placed ==
  \A n \in Ops :
    /\ thread[n].at \in {"review", "reviewed"} => thread[n].kind = "stage"
    /\ thread[n].at = "dialog" => thread[n].kind \notin UsbWrites
    /\ Running(n) /\ thread[n].kind \in UsbWrites => thread[n].request \in Requests

(* What a thread's step does, what its end does and what a start does, as   *)
(* far as the invariant tells them apart.                                   *)
WorkShape(n) ==
  /\ thread[n].at # "none" /\ thread'[n].at # "none"
  /\ \A m \in Ops \ {n} : thread'[m] = thread[m]
  /\ thread'[n].kind = thread[n].kind /\ thread'[n].request = thread[n].request
  /\ thread'[n].at \in {"review", "reviewed"} => thread[n].kind = "stage"
  /\ thread'[n].at = "dialog" => thread[n].kind \notin UsbWrites
  /\ thread[n].kind \in UsbWrites /\ thread'[n].answer # thread[n].answer
       => thread[n].answer = "none" /\ (thread'[n].answer = "yes" => ~cancel)
  /\ UNCHANGED <<command, held, previous, pending, cancel, ops, lists, reviews, apple, stopped>>
  /\ snap'.status = snap.status /\ snap'.usbReview = snap.usbReview

FinishShape(n) ==
  /\ thread[n].at # "none" /\ thread'[n].at = "none" /\ thread'[n].answer = "none"
  /\ \A m \in Ops \ {n} : thread'[m] = thread[m]
  /\ UNCHANGED <<command, held, pending, cancel, ops, reviews, apple>>
  /\ ~stopped'
  /\ thread[n].kind # "bitlocker" => UNCHANGED previous /\ snap'.usbReview = snap.usbReview
  /\ thread[n].kind = "bitlocker" => snap' = previous

StartShape(t) ==
  /\ ops + 1 \in Ops /\ ops' = ops + 1
  /\ thread'[ops + 1] = t /\ \A m \in Ops \ {ops + 1} : thread'[m] = thread[m]
  /\ t.at \in {"local", "prepare"} /\ t.answer = "none"
  /\ t.kind \in UsbWrites => /\ command.at = "begin" /\ command.kind = t.kind
                              /\ t.request = command.request
  /\ command.at = "begin" => t.kind = command.kind
  /\ t.kind \in Inventories => lists < MaxLists
  /\ t.kind = "bitlocker" => command.at = "bitlocker" /\ pending' = NoReview /\ previous' = held
  /\ ~active_operation /\ active_operation'
  /\ \/ pending' = NoReview /\ snap'.usbReview = 0
     \/ UNCHANGED pending /\ snap'.usbReview = snap.usbReview
  /\ command'.at = "none" /\ ~apple
  /\ UNCHANGED <<apple, stopped, lists, reviews>>

LEMMA FinishShapes ==
  ASSUME Types, NEW n \in Ops, Finish(n)
  PROVE  FinishShape(n)
<1>1. ASSUME Finishes(n)
      PROVE  /\ thread[n].at # "none" /\ thread'[n].at = "none" /\ thread'[n].answer = "none"
             /\ \A m \in Ops \ {n} : thread'[m] = thread[m]
             /\ UNCHANGED <<command, held, pending, cancel, ops, reviews, apple>>
             /\ stopped' = FALSE
  BY <1>1 DEF Types, ThreadTypes, Finishes, NoThread, outside
<1>. USE DEF FinishShape, Tells
<1>2. CASE \E drives \in SUBSET Drives : inventory(n, drives)
  <2>. PICK drives \in SUBSET Drives : inventory(n, drives)
    BY <1>2
  <2>1. snap'.usbReview = snap.usbReview
    BY DEF inventory, Listed, Targeted, Types, SnapTypes, Snapshots
  <2>. QED BY <1>1, <2>1 DEF inventory, Listed, Targeted, Inventories
<1>3. CASE \E plan \in Plans \cup {NoPlan} : Compatibility(n, plan)
  <2>. PICK plan \in Plans \cup {NoPlan} : Compatibility(n, plan)
    BY <1>3
  <2>1. snap'.usbReview = snap.usbReview
    BY DEF Compatibility, Types, SnapTypes, Snapshots
  <2>. QED BY <1>1, <2>1 DEF Compatibility, UsbChecks
<1>4. CASE Complete(n)
  <2>1. snap'.usbReview = snap.usbReview
    BY <1>4 DEF Complete, Types, SnapTypes, Snapshots
  <2>. QED BY <1>1, <1>4, <2>1 DEF Complete, Staged, UsbWrites
<1>5. CASE Restore(n)
  BY <1>1, <1>5 DEF Restore
<1>6. CASE record_failure(n)
  <2>1. snap'.usbReview = snap.usbReview
    BY <1>6 DEF record_failure, Types, SnapTypes, Snapshots
  <2>. QED BY <1>1, <1>6, <2>1 DEF record_failure
<1>. QED BY <1>2, <1>3, <1>4, <1>5, <1>6 DEF Finish

(* A step that only moves its thread, and not to a prompt.                  *)
Moved(n) ==
  /\ thread'[n].at \notin {"none", "review", "reviewed", "dialog"}
  /\ \A m \in Ops \ {n} : thread'[m] = thread[m]
  /\ thread'[n].kind = thread[n].kind /\ thread'[n].request = thread[n].request
  /\ thread'[n].answer = thread[n].answer

LEMMA WorkShapes ==
  ASSUME Types, Placed, NEW n \in Ops, Work(n) \/ \E available \in BOOLEAN : Event(n, available)
  PROVE  WorkShape(n)
<1>s. snap \in Snapshots /\ thread \in [Ops -> Threads]
  BY DEF Types, SnapTypes, ThreadTypes
<1>p. /\ thread[n].at \in {"review", "reviewed"} => thread[n].kind = "stage"
      /\ "stage" \notin UsbWrites
  BY DEF Placed, UsbWrites
(* A step that answers the helper. *)
<1>a. ASSUME NEW p \in {"exchange", "release"}, NEW a \in {"yes", "no"},
             thread[n].at # "none",
             \/ thread' = [thread EXCEPT ![n].answer = a]
             \/ \E r \in {thread[n].result, "error"} :
                  thread' = [thread EXCEPT ![n].at = p, ![n].answer = a, ![n].result = r]
      PROVE  /\ thread'[n].at \in {thread[n].at, p}
             /\ \A m \in Ops \ {n} : thread'[m] = thread[m]
             /\ thread'[n].kind = thread[n].kind /\ thread'[n].request = thread[n].request
             /\ thread'[n].answer = a
  BY <1>s, <1>a DEF Threads
<1>u. ASSUME Steps(n, thread[n].at)
      PROVE  UNCHANGED <<command, held, previous, ops, lists, reviews, apple>>
  BY <1>u DEF Steps, main, outside, drawn
<1>1. CASE PrepareFails(n)
  <2>1. Moved(n)
    BY <1>1, <1>s DEF PrepareFails, Ends, Moved, Threads
  <2>. QED BY <1>1, <2>1, <1>u DEF PrepareFails, Steps, WorkShape, Moved, inner, history
<1>2. CASE acquire_session(n)
  <2>1. snap'.status = snap.status /\ snap'.usbReview = snap.usbReview
    BY <1>2, <1>s DEF acquire_session, Snapshots
  <2>2. Moved(n)
    BY <1>2, <1>s DEF acquire_session, To, Moved, Threads
  <2>. QED BY <1>2, <1>u, <2>1, <2>2 DEF acquire_session, Steps, WorkShape, Moved, history
<1>3. CASE Launched(n)
  <2>1. snap'.status = snap.status /\ snap'.usbReview = snap.usbReview
    BY <1>3, <1>s DEF Launched, Snapshots
  <2>2. Moved(n)
    BY <1>3, <1>s DEF Launched, To, Moved, Threads
  <2>. QED BY <1>3, <1>u, <2>1, <2>2 DEF Launched, Steps, WorkShape, Moved, history
<1>4. CASE \E r \in {"declined", "error"} : NotLaunched(n, r)
  <2>1. Moved(n)
    BY <1>4, <1>s DEF NotLaunched, Ends, Moved, Threads
  <2>. QED BY <1>4, <2>1, <1>u DEF NotLaunched, Steps, WorkShape, Moved, inner
<1>5. CASE \E sent \in BOOLEAN : Register(n, sent)
  <2>. PICK sent \in BOOLEAN : Register(n, sent)
    BY <1>5
  <2>1. snap'.status = snap.status /\ snap'.usbReview = snap.usbReview
    BY <1>s DEF Register, Snapshots
  <2>2. Moved(n)
    BY <1>s DEF Register, To, Ends, Moved, Threads
  <2>. QED BY <1>u, <2>1, <2>2 DEF Register, Steps, WorkShape, Moved, history
<1>6. CASE Exchange(n)
  <2>1. CASE AskWrite(n)
    <3>1. thread[n].at = "exchange" /\ thread[n].answer = "none"
      BY <2>1 DEF AskWrite, Asks, Steps
    <3>2. thread'[n].answer = "yes" => ~cancel
      BY <2>1, <1>s DEF AskWrite, Threads
    <3>. QED BY <2>1, <3>1, <3>2, <1>a, <1>u
             DEF AskWrite, Asks, Steps, WorkShape, inner, history
  <2>2. CASE AskRefused(n)
    <3>1. Moved(n)
      BY <2>2, <1>s DEF AskRefused, Ends, Moved, Threads
    <3>. QED BY <2>2, <3>1, <1>u DEF AskRefused, Steps, WorkShape, Moved, inner, history
  <2>3. CASE AskReview(n)
    <3>1. snap'.status = snap.status /\ snap'.usbReview = snap.usbReview
      BY <2>3, <1>s DEF AskReview, Snapshots
    <3>2. /\ thread'[n].at = "review" /\ thread'[n].answer = thread[n].answer
          /\ thread'[n].kind = thread[n].kind /\ thread'[n].request = thread[n].request
          /\ \A m \in Ops \ {n} : thread'[m] = thread[m]
      BY <2>3, <1>s DEF AskReview, To, Threads
    <3>. QED BY <2>3, <3>1, <3>2, <1>u DEF AskReview, Asks, Steps, WorkShape, history
  <2>4. CASE AskDialog(n)
    <3>1. /\ thread'[n].at = "dialog" /\ thread'[n].answer = thread[n].answer
          /\ thread'[n].kind = thread[n].kind /\ thread'[n].request = thread[n].request
          /\ \A m \in Ops \ {n} : thread'[m] = thread[m]
      BY <2>4, <1>s DEF AskDialog, To, Threads
    <3>. QED BY <2>4, <3>1, <1>u DEF AskDialog, Asks, Steps, WorkShape, inner, history
  <2>5. CASE \E r \in {"ok", "error", "unconfirmed"} : Reports(n, r)
    <3>1. Moved(n)
      BY <2>5, <1>s DEF Reports, Moved, Threads
    <3>. QED BY <2>5, <3>1, <1>u DEF Reports, Steps, WorkShape, Moved, inner, history
  <2>6. CASE Disconnected(n)
    <3>1. Moved(n)
      BY <2>6, <1>s DEF Disconnected, Ends, Moved, Threads
    <3>. QED BY <2>6, <3>1, <1>u DEF Disconnected, Steps, WorkShape, Moved, inner, history
  <2>. QED BY <1>6, <2>1, <2>2, <2>3, <2>4, <2>5, <2>6 DEF Exchange
<1>7. CASE ReviewEnds(n)
  <2>1. /\ thread'[n].at = "reviewed" /\ thread'[n].answer = thread[n].answer
        /\ thread'[n].kind = thread[n].kind /\ thread'[n].request = thread[n].request
        /\ \A m \in Ops \ {n} : thread'[m] = thread[m]
    BY <1>7, <1>s DEF ReviewEnds, To, Threads
  <2>. QED BY <1>7, <1>p, <1>u, <2>1 DEF ReviewEnds, Steps, WorkShape, inner, history
<1>8. CASE ReviewAnswered(n)
  <2>1. snap'.status = snap.status /\ snap'.usbReview = snap.usbReview
    BY <1>8, <1>s DEF ReviewAnswered, Snapshots
  <2>2. thread[n].at = "reviewed"
    BY <1>8 DEF ReviewAnswered, Steps
  <2>3. /\ thread'[n].at \in {"exchange", "release"}
        /\ thread'[n].kind = thread[n].kind /\ thread'[n].request = thread[n].request
        /\ \A m \in Ops \ {n} : thread'[m] = thread[m]
    BY <1>8, <1>s DEF ReviewAnswered, Threads
  <2>. QED BY <1>8, <1>p, <1>u, <2>1, <2>2, <2>3 DEF ReviewAnswered, Steps, WorkShape
<1>9. CASE \E yes \in BOOLEAN : DialogAnswered(n, yes)
  <2>. PICK yes \in BOOLEAN : DialogAnswered(n, yes)
    BY <1>9
  <2>1. thread[n].at = "dialog" /\ thread[n].kind \notin UsbWrites
    BY DEF DialogAnswered, Steps, Placed
  <2>2. /\ thread'[n].at \in {"exchange", "release"}
        /\ thread'[n].kind = thread[n].kind /\ thread'[n].request = thread[n].request
        /\ \A m \in Ops \ {n} : thread'[m] = thread[m]
    BY <1>s DEF DialogAnswered, Threads
  <2>. QED BY <1>u, <2>1, <2>2 DEF DialogAnswered, Steps, WorkShape, inner
<1>10. CASE Release(n)
  <2>1. snap'.status = snap.status /\ snap'.usbReview = snap.usbReview
    BY <1>10, <1>s DEF Release, Snapshots
  <2>2. Moved(n)
    BY <1>10, <1>s DEF Release, To, Moved, Threads
  <2>. QED BY <1>10, <1>u, <2>1, <2>2 DEF Release, Steps, WorkShape, Moved, history
<1>11. CASE \E r \in {"ok", "error"} : RunLocal(n, r)
  <2>1. Moved(n)
    BY <1>11, <1>s DEF RunLocal, Ends, Moved, Threads
  <2>. QED BY <1>11, <2>1, <1>u DEF RunLocal, Steps, WorkShape, Moved, inner, history
<1>12. CASE \E available \in BOOLEAN : Event(n, available)
  <2>. PICK available \in BOOLEAN : Event(n, available)
    BY <1>12
  <2>1. snap'.status = snap.status /\ snap'.usbReview = snap.usbReview
    BY <1>s DEF Event, Snapshots
  <2>. QED BY <1>p, <1>u, <2>1 DEF Event, Steps, WorkShape, history, Placed
<1>. QED BY <1>1, <1>2, <1>3, <1>4, <1>5, <1>6, <1>7, <1>8, <1>9, <1>10, <1>11, <1>12
         DEF Work

(* What begin does to the review and the status.                            *)
LEMMA BeginShape ==
  ASSUME Types,
         NEW kind \in {"none", "usb", "direct"}, NEW status \in {"inspecting", "running"},
         NEW target \in Staged \cup {"none"}, begin(kind, status, target)
  PROVE  /\ ~active_operation /\ active_operation'
         /\ pending' = NoReview /\ snap'.usbReview = 0
<1>1. snap'.status = status /\ snap'.usbReview = 0
  BY DEF begin, Begun, Types, SnapTypes, Snapshots
<1>. QED BY <1>1 DEF begin, active_operation, active

(* The operations that a command begins.                                    *)
StartStep ==
  \/ \E kind \in Inventories : Inspect(kind)
  \/ Prepare
  \/ \E action \in Staged : StagedIso(action)
  \/ \E kind \in UsbChecks, d \in Drives : InspectUsbChoice(kind, d)
  \/ BeginBitLocker /\ ops' # ops
  \/ BeginStart /\ ops' # ops

LEMMA StartShapes ==
  ASSUME Types, Commanding, StartStep
  PROVE  \E t \in Threads : StartShape(t)
<1>t. /\ ThreadTypes /\ ops \in Nat /\ NoRequest \in Requests \cup {NoRequest}
      /\ Kinds = Inventories \cup UsbChecks \cup UsbWrites \cup Staged
                    \cup {"install", "prepare", "bitlocker"}
  BY SetupAssumption DEF Types, ThreadTypes, Kinds
(* The part of the thread that a spawn makes. *)
<1>s. ASSUME NEW kind \in Kinds, NEW request \in Requests \cup {NoRequest}, Spawn(kind, request)
      PROVE  /\ thread'[ops + 1] \in Threads
             /\ ops + 1 \in Ops /\ ops' = ops + 1 /\ ops' # ops
             /\ \A m \in Ops \ {ops + 1} : thread'[m] = thread[m]
             /\ thread'[ops + 1].at \in {"local", "prepare"}
             /\ thread'[ops + 1].answer = "none"
             /\ thread'[ops + 1].kind = kind /\ thread'[ops + 1].request = request
  <2>1. /\ ThreadTypes' /\ ops' = ops + 1 /\ ops' \in Ops
        /\ thread' = [thread EXCEPT ![ops + 1] = thread'[ops + 1]]
        /\ thread'[ops + 1].at \in {"local", "prepare"}
        /\ thread'[ops + 1].kind = kind /\ thread'[ops + 1].request = request
        /\ thread'[ops + 1].answer = "none"
    BY <1>s, <1>t, SpawnTypes
  <2>. QED BY <1>t, <2>1 DEF ThreadTypes
<1>1. CASE \E kind \in Inventories : Inspect(kind)
  <2>. PICK kind \in Inventories : Inspect(kind)
    BY <1>1
  <2>1. /\ ~active_operation /\ active_operation' /\ pending' = NoReview
        /\ snap'.usbReview = 0
    BY BeginShape DEF Inspect
  <2>2. Spawn(kind, NoRequest) /\ kind \in Kinds /\ kind \notin UsbWrites \cup {"bitlocker"}
    BY <1>t DEF Inspect, Inventories, UsbWrites
  <2>. QED BY <1>s, <1>t, <2>1, <2>2
           DEF StartShape, Inspect, Starts, Idle, main, outside, history
<1>2. CASE Prepare
  <2>1. /\ ~active_operation /\ active_operation' /\ pending' = NoReview
        /\ snap'.usbReview = 0
    BY <1>2, BeginShape DEF Prepare
  <2>2. /\ Spawn("prepare", NoRequest) /\ "prepare" \in Kinds
        /\ "prepare" \notin UsbWrites \cup Inventories
    BY <1>2, <1>t DEF Prepare, Inventories, UsbWrites
  <2>. QED BY <1>2, <1>s, <1>t, <2>1, <2>2
           DEF StartShape, Prepare, Starts, Idle, main, outside, history
<1>3. CASE \E action \in Staged : StagedIso(action)
  <2>. PICK action \in Staged : StagedIso(action)
    BY <1>3
  <2>1. /\ ~active_operation /\ active_operation' /\ pending' = NoReview
        /\ snap'.usbReview = 0
    BY BeginShape DEF StagedIso
  <2>2. /\ Spawn(action, NoRequest) /\ action \in Kinds
        /\ action \notin UsbWrites \cup Inventories \cup {"bitlocker"}
    BY <1>t DEF StagedIso, Inventories, UsbWrites, Staged
  <2>. QED BY <1>s, <1>t, <2>1, <2>2
           DEF StartShape, StagedIso, Starts, Idle, main, outside, history
<1>4. CASE \E kind \in UsbChecks, d \in Drives : InspectUsbChoice(kind, d)
  <2>. PICK kind \in UsbChecks, d \in Drives : InspectUsbChoice(kind, d)
    BY <1>4
  <2>. DEFINE request == [mode |-> "check", drive |-> d, plan |-> NoPlan, image |-> image]
  <2>1. request \in Requests
    BY DEF InspectUsbChoice, Types, RestTypes, OutsideTypes, Requests
  <2>2. /\ Spawn(kind, request) /\ kind \in Kinds
        /\ kind \notin UsbWrites \cup Inventories \cup {"bitlocker"}
    BY <1>t DEF InspectUsbChoice, UsbChecks, UsbWrites, Inventories
  <2>3. /\ ~active_operation /\ active_operation' /\ snap'.usbReview = snap.usbReview
        /\ UNCHANGED pending
    BY DEF InspectUsbChoice, active_operation, active, Types, SnapTypes, Snapshots
  <2>. HIDE DEF request
  <2>. QED BY <1>s, <2>1, <2>2, <2>3
           DEF StartShape, InspectUsbChoice, Starts, Idle, main, outside,
               history
<1>5. CASE BeginBitLocker /\ ops' # ops
  <2>1. begin(held.kind, "running", "none") /\ Spawn("bitlocker", NoRequest) /\ previous' = held
    BY <1>5 DEF BeginBitLocker
  <2>2. held.kind \in {"none", "usb", "direct"}
    BY DEF Types, SnapTypes, Snapshots
  <2>3. /\ ~active_operation /\ active_operation' /\ pending' = NoReview
        /\ snap'.usbReview = 0
    BY <2>1, <2>2, BeginShape
  <2>4. "bitlocker" \in Kinds /\ "bitlocker" \notin UsbWrites \cup Inventories
    BY <1>t DEF UsbWrites, Inventories
  <2>. QED BY <1>5, <1>s, <1>t, <2>1, <2>3, <2>4
           DEF StartShape, BeginBitLocker, Commanding, NoCommand, outside,
               history
<1>6. CASE BeginStart /\ ops' # ops
  <2>1. /\ begin(IF command.kind = "install" THEN "direct" ELSE "usb", "running", "none")
        /\ Spawn(command.kind, command.request)
    BY <1>6 DEF BeginStart
  <2>2. /\ command.kind \in UsbWrites \cup {"install"} /\ command.kind \in Kinds
        /\ command.request \in Requests \cup {NoRequest}
        /\ command.kind \notin Inventories \cup {"bitlocker"}
    BY <1>t DEF Types, CommandTypes, UsbWrites, Inventories
  <2>3. /\ ~active_operation /\ active_operation' /\ pending' = NoReview
        /\ snap'.usbReview = 0
    BY <2>1, <2>2, BeginShape
  <2>. QED BY <1>6, <1>s, <2>1, <2>2, <2>3
           DEF StartShape, BeginStart, Commanding, NoCommand, outside, history
<1>. QED BY <1>1, <1>2, <1>3, <1>4, <1>5, <1>6 DEF StartStep

(* What a step does that neither starts, moves nor ends a thread; its flags *)
(* first.                                                                   *)
FlagShape ==
  /\ UNCHANGED <<stopped, cancel>> \/ (cancel' = TRUE /\ active_operation)
  /\ apple' => apple \/ ~active_operation

QuietShape ==
  /\ \A n \in Ops : /\ thread'[n].at = thread[n].at
                    /\ thread'[n].kind = thread[n].kind
                    /\ thread'[n].request = thread[n].request
                    /\ thread'[n].answer = thread[n].answer
  /\ UNCHANGED <<ops, lists, previous>>
  /\ snap'.status = snap.status
  /\ snap'.usbReview = pending'.token
  /\ pending' = pending \/ pending' = NoReview \/ ~active_operation \/ pending.token # 0
  /\ FlagShape

QuietStep ==
  \/ PrepareBitLocker
  \/ \E mode \in UsbWrites, d \in Drives : ReviewUsb(mode, d)
  \/ DismissReview
  \/ \E mode \in UsbWrites, d \in Drives, t \in 0 .. reviews : StartUsb(mode, d, t)
  \/ \E d \in Drives : StartDirect(d)
  \/ CancelSetup
  \/ \E yes \in BOOLEAN : RespondReview(yes)
  \/ StartAdmin
  \/ BeginBitLocker /\ ops' = ops
  \/ TakeReview
  \/ BeginStart /\ ops' = ops
  \/ Outside
  \/ UNCHANGED vars

LEMMA QuietShapes ==
  ASSUME Types, Commanding, ShownIsPending, QuietStep
  PROVE  QuietShape
<1>s. /\ snap \in Snapshots /\ thread \in [Ops -> Threads] /\ ops \in Nat
      /\ NoReview.token = 0 /\ ops # ops + 1 /\ snap.usbReview = pending.token
  BY SetupAssumption
     DEF Types, SnapTypes, ThreadTypes, NoReview, ShownIsPending
<1>. USE DEF QuietShape
<1>f. /\ UNCHANGED <<stopped, cancel, apple>> => FlagShape
      /\ cancel' = TRUE /\ active_operation /\ UNCHANGED apple => FlagShape
      /\ UNCHANGED <<stopped, cancel>> /\ (apple' = FALSE \/ ~active_operation) => FlagShape
  <2>1. UNCHANGED apple \/ apple' = FALSE \/ ~active_operation
          => (apple' => apple \/ ~active_operation)
    BY Zenon
  <2>. QED BY <2>1, Zenon DEF FlagShape
(* The steps that change none of it. *)
<1>a. ASSUME UNCHANGED <<thread, ops, lists, previous, pending, cancel, stopped, apple>>,
             snap'.status = snap.status, snap'.usbReview = snap.usbReview
      PROVE  QuietShape
  BY <1>a, <1>s, <1>f
<1>1. CASE PrepareBitLocker
  BY <1>1, <1>a DEF PrepareBitLocker, inner, outside, drawn, history
<1>2. CASE \E mode \in UsbWrites, d \in Drives : ReviewUsb(mode, d)
  <2>. PICK mode \in UsbWrites, d \in Drives : ReviewUsb(mode, d)
    BY <1>2
  <2>1. snap'.status = snap.status /\ snap'.usbReview = reviews + 1
    BY <1>s DEF ReviewUsb, Snapshots
  <2>2. pending'.token = reviews + 1 /\ ~active_operation
    BY DEF ReviewUsb
  <2>. QED BY <1>f, <1>s, <2>1, <2>2 DEF ReviewUsb, main, outside, history
<1>3. CASE DismissReview
  <2>1. snap'.status = snap.status /\ snap'.usbReview = 0
    BY <1>3, <1>s DEF DismissReview, Snapshots
  <2>. QED BY <1>3, <1>f, <1>s, <2>1 DEF DismissReview, main, outside, drawn, history
<1>4. CASE \E mode \in UsbWrites, d \in Drives, t \in 0 .. reviews : StartUsb(mode, d, t)
  BY <1>4, <1>a DEF StartUsb, inner, outside, drawn, history
<1>5. CASE \E d \in Drives : StartDirect(d)
  BY <1>5, <1>a DEF StartDirect, inner, outside, drawn, history
<1>6. CASE CancelSetup
  <2>1. snap'.status = snap.status /\ snap'.usbReview = snap.usbReview
    BY <1>6, <1>s DEF CancelSetup, Snapshots
  <2>2. cancel' = TRUE /\ active_operation
    BY <1>6 DEF CancelSetup
  <2>3. UNCHANGED <<thread, ops, lists, previous, pending, apple>>
    BY <1>6 DEF CancelSetup, main, outside, drawn
  <2>. QED BY <1>f, <1>s, <2>1, <2>2, <2>3
<1>7. CASE \E yes \in BOOLEAN : RespondReview(yes)
  <2>. PICK yes \in BOOLEAN : RespondReview(yes)
    BY <1>7
  <2>1. \A n \in Ops : /\ thread'[n].at = thread[n].at
                       /\ thread'[n].kind = thread[n].kind
                       /\ thread'[n].request = thread[n].request
                       /\ thread'[n].answer = thread[n].answer
    BY <1>s DEF RespondReview, Threads
  <2>2. UNCHANGED <<snap, ops, lists, previous, pending, cancel, stopped, apple>>
    BY DEF RespondReview, main, outside, drawn, history
  <2>. QED BY <1>f, <1>s, <2>1, <2>2
<1>8. CASE StartAdmin
  BY <1>8, <1>a DEF StartAdmin, Startup, main, outside, drawn, history
<1>9. CASE BeginBitLocker /\ ops' = ops
  <2>1. UNCHANGED <<inner, thread, ops, previous>>
    BY <1>9, <1>s DEF BeginBitLocker, Spawn
  <2>. QED BY <1>9, <1>a, <2>1 DEF BeginBitLocker, inner, outside, history
<1>10. CASE TakeReview
  <2>1. snap'.status = snap.status /\ snap'.usbReview = 0
    BY <1>10, <1>s DEF TakeReview, Snapshots
  <2>. QED BY <1>10, <1>f, <1>s, <2>1 DEF TakeReview, outside, drawn, history
<1>11. CASE BeginStart /\ ops' = ops
  <2>1. UNCHANGED <<inner, thread, ops>>
    BY <1>11, <1>s DEF BeginStart, Spawn
  <2>. QED BY <1>11, <1>a, <2>1 DEF BeginStart, inner, outside, history
<1>12. CASE Outside
  <2>. USE DEF inner, main, mutex, outside, drawn, history, Startup
  <2>1. CASE AskAdmin
    <3>1. snap'.status = snap.status /\ snap'.usbReview = snap.usbReview
      BY <2>1, <1>s DEF AskAdmin, Snapshots
    <3>. QED BY <2>1, <3>1, <1>a DEF AskAdmin
  <2>2. CASE \E yes \in BOOLEAN : AdminAnswered(yes)
    <3>1. snap'.status = snap.status /\ snap'.usbReview = snap.usbReview
      BY <2>2, <1>s DEF AdminAnswered, Snapshots
    <3>. QED BY <2>2, <3>1, <1>a DEF AdminAnswered
  <2>3. CASE ReviewExpires
    <3>1. pending'.token = pending.token /\ pending.token # 0
      BY <2>3 DEF ReviewExpires, Types, InnerTypes
    <3>. QED BY <2>3, <3>1, <1>f, <1>s DEF ReviewExpires
  <2>4. CASE HelperDies
    BY <2>4, <1>a DEF HelperDies
  <2>5. CASE AppleStarts
    BY <2>5, <1>f, <1>s DEF AppleStarts
  <2>6. CASE AppleEnds
    <3>1. apple' = FALSE
      BY <2>6 DEF AppleEnds
    <3>. QED BY <2>6, <3>1, <1>f, <1>s DEF AppleEnds
  <2>7. CASE Downloaded
    BY <2>7, <1>a DEF Downloaded
  <2>. QED BY <1>12, <2>1, <2>2, <2>3, <2>4, <2>5, <2>6, <2>7 DEF Outside
<1>13. CASE UNCHANGED vars
  BY <1>13, <1>a DEF vars, inner, main, mutex, outside, drawn, history
<1>. QED BY <1>1, <1>2, <1>3, <1>4, <1>5, <1>6, <1>7, <1>8, <1>9, <1>10, <1>11, <1>12, <1>13
         DEF QuietStep

LEMMA QuietCommanding ==
  ASSUME Types, Commanding, ShownIsPending, QuietStep
  PROVE  Commanding'
<1>s. active_operation' <=> active_operation
  BY QuietShapes DEF QuietShape, active_operation
<1>n. /\ NoCommand.at = "none" /\ NoCommand.kind \notin UsbWrites
      /\ command.at \in {"none", "bitlocker", "take", "begin"}
  BY DEF NoCommand, UsbWrites, Types, CommandTypes
(* The steps of others: the command goes on as it was, *)
<1>a. ASSUME UNCHANGED <<command, held>>, apple' = FALSE \/ UNCHANGED apple
      PROVE  Commanding'
  <2>1. command'.at # "none" => ~apple'
    <3>1. command'.at # "none" => ~apple
      BY <1>a DEF Commanding
    <3>. QED BY <3>1, <1>a, Zenon
  <2>. QED BY <1>a, <1>s, <2>1 DEF Commanding
(* or is none. *)
<1>b. ASSUME command'.at = "none" PROVE Commanding'
  BY <1>b DEF Commanding
<1>. USE DEF inner, main, mutex, outside, drawn, history
<1>1. CASE PrepareBitLocker
  <2>1. held'.usbReview = 0 /\ command'.at = "bitlocker"
    BY <1>1 DEF PrepareBitLocker, NoCommand, Types, SnapTypes, Snapshots
  <2>2. ~apple'
    <3>1. ~apple /\ UNCHANGED apple
      BY <1>1 DEF PrepareBitLocker
    <3>. QED BY <3>1, Zenon
  <2>. QED BY <2>1, <2>2 DEF Commanding
<1>2. CASE \E mode \in UsbWrites, d \in Drives : ReviewUsb(mode, d)
  BY <1>2, <1>a DEF ReviewUsb
<1>3. CASE DismissReview
  BY <1>3, <1>a DEF DismissReview
<1>4. CASE \E mode \in UsbWrites, d \in Drives, t \in 0 .. reviews : StartUsb(mode, d, t)
  <2>. PICK mode \in UsbWrites, d \in Drives, t \in 0 .. reviews : StartUsb(mode, d, t)
    BY <1>4
  <2>1. Request(mode, d) \in Requests
    BY DEF StartUsb, Request, Requests, Types, RestTypes, OutsideTypes, SnapTypes,
           Snapshots, Choices, UsbWrites
  <2>2. /\ command'.at = "take" /\ command'.kind = mode
        /\ command'.request = Request(mode, d)
    BY DEF StartUsb
  <2>3. ~apple' /\ ~active_operation
    <3>1. ~apple /\ UNCHANGED apple /\ ~active_operation
      BY DEF StartUsb
    <3>. QED BY <3>1, Zenon
  <2>. QED BY <1>s, <2>1, <2>2, <2>3 DEF Commanding
<1>5. CASE \E d \in Drives : StartDirect(d)
  <2>. PICK d \in Drives : StartDirect(d)
    BY <1>5
  <2>1. command'.at = "begin" /\ command'.kind \notin UsbWrites
    BY <1>n DEF StartDirect, NoCommand
  <2>2. ~apple' /\ ~active_operation
    <3>1. ~apple /\ UNCHANGED apple /\ ~active_operation
      BY DEF StartDirect
    <3>. QED BY <3>1, Zenon
  <2>. QED BY <1>s, <2>1, <2>2 DEF Commanding
<1>6. CASE CancelSetup
  BY <1>6, <1>a DEF CancelSetup
<1>7. CASE \E yes \in BOOLEAN : RespondReview(yes)
  BY <1>7, <1>a DEF RespondReview
<1>8. CASE StartAdmin
  BY <1>8, <1>a DEF StartAdmin, Startup
<1>9. CASE BeginBitLocker
  BY <1>9, <1>n, <1>b DEF BeginBitLocker
<1>10. CASE TakeReview
  <2>1. CASE command' = NoCommand
    BY <2>1, <1>n, <1>b
  <2>2. CASE command' = [command EXCEPT !.at = "begin"]
    <3>1. /\ command'.at = "begin" /\ command'.kind = command.kind
          /\ command'.request = command.request /\ command.at = "take"
      BY <1>10, <2>2 DEF TakeReview, Types, CommandTypes
    <3>2. ~apple'
      <4>1. ~apple /\ UNCHANGED apple
        BY <1>10, <3>1 DEF Commanding, TakeReview
      <4>. QED BY <4>1, Zenon
    <3>. QED BY <1>s, <3>1, <3>2 DEF Commanding
  <2>. QED BY <1>10, <2>1, <2>2 DEF TakeReview
<1>11. CASE BeginStart
  BY <1>11, <1>n, <1>b DEF BeginStart
<1>12. CASE Outside
  <2>1. CASE AskAdmin \/ \E yes \in BOOLEAN : AdminAnswered(yes)
    BY <2>1, <1>a DEF AskAdmin, AdminAnswered, Startup
  <2>2. CASE ReviewExpires \/ HelperDies \/ AppleEnds \/ Downloaded
    BY <2>2, <1>a DEF ReviewExpires, HelperDies, AppleEnds, Downloaded
  <2>3. CASE AppleStarts
    BY <2>3, <1>b DEF AppleStarts, Idle
  <2>. QED BY <1>12, <2>1, <2>2, <2>3 DEF Outside
<1>13. CASE UNCHANGED vars
  BY <1>13, <1>a DEF vars
<1>. QED BY <1>1, <1>2, <1>3, <1>4, <1>5, <1>6, <1>7, <1>8, <1>9, <1>10, <1>11, <1>12, <1>13
         DEF QuietStep

-----------------------------------------------------------------------------
(* The invariant holds first, and each kind of step keeps it.               *)
Rest ==
  /\ Counted /\ LastRuns /\ Commanding /\ Restoring /\ Stopping /\ Placed
  /\ SetupsExclude /\ ShownIsPending

LEMMA InitRest == Init => Rest
<1>. SUFFICES ASSUME Init PROVE Rest
  OBVIOUS
<1>1. \A n \in Ops : ~Running(n) /\ thread[n].at = "none"
  BY DEF Init, Running, NoThread
<1>2. ~stopped /\ ~apple
  <2>1. stopped = FALSE /\ apple = FALSE
    BY DEF Init
  <2>. QED BY <2>1, Zenon
<1>3. /\ command.at = "none" /\ pending.token = 0 /\ snap.usbReview = 0
  BY DEF Init, NoCommand, NoReview, FirstSnapshot
<1>. QED BY <1>1, <1>2, <1>3
         DEF Rest, Counted, LastRuns, Commanding, Restoring, Stopping, Placed,
             SetupsExclude, ShownIsPending

LEMMA QuietKeeps ==
  ASSUME Types, Rest, QuietStep
  PROVE  Rest'
<1>s. QuietShape /\ Commanding'
  BY QuietShapes, QuietCommanding DEF Rest
<1>a. active_operation' <=> active_operation
  BY <1>s DEF QuietShape, active_operation
<1>r. \A n \in Ops : /\ Running(n)' <=> Running(n)
                     /\ thread'[n].at = thread[n].at
                     /\ thread'[n].kind = thread[n].kind
                     /\ thread'[n].request = thread[n].request
  BY <1>s DEF QuietShape, Running
<1>1. Counted' /\ LastRuns' /\ Placed'
  <2>1. UNCHANGED <<lists, ops>>
    BY <1>s DEF QuietShape
  <2>. QED BY <1>a, <1>r, <2>1 DEF Rest, Counted, LastRuns, Placed
<1>2. ShownIsPending'
  BY <1>s DEF QuietShape, ShownIsPending
<1>3. Restoring'
  <2>. SUFFICES ASSUME NEW n \in Ops, Running(n)', thread'[n].kind = "bitlocker"
                PROVE  pending' = NoReview /\ previous'.usbReview = 0
    BY DEF Restoring
  <2>1. pending = NoReview /\ previous.usbReview = 0 /\ active_operation
    BY <1>r DEF Rest, Restoring, LastRuns
  <2>2. pending.token = 0
    BY <2>1 DEF NoReview
  <2>. QED BY <1>s, <2>1, <2>2 DEF QuietShape
<1>4. Stopping'
  <2>1. stopped => cancel /\ active_operation
    BY DEF Rest, Stopping
  <2>2. UNCHANGED <<stopped, cancel>> \/ (cancel' = TRUE /\ active_operation)
    BY <1>s DEF QuietShape, FlagShape
  <2>3. stopped' => cancel' /\ active_operation
    BY <2>1, <2>2, Zenon
  <2>. QED BY <1>a, <2>3 DEF Stopping
<1>5. SetupsExclude'
  <2>1. apple' => apple \/ ~active_operation
    BY <1>s DEF QuietShape, FlagShape
  <2>2. ~active_operation => \A n \in Ops : ~Running(n)
    BY DEF Rest, LastRuns
  <2>. QED BY <1>r, <2>1, <2>2 DEF Rest, SetupsExclude
<1>. QED BY <1>s, <1>1, <1>2, <1>3, <1>4, <1>5 DEF Rest

LEMMA WorkKeeps ==
  ASSUME Types, Rest, NEW n \in Ops, Work(n) \/ \E available \in BOOLEAN : Event(n, available)
  PROVE  Rest'
<1>s. WorkShape(n)
  BY WorkShapes DEF Rest
<1>a. active_operation' <=> active_operation
  BY <1>s DEF WorkShape, active_operation
<1>r. \A m \in Ops : /\ Running(m)' <=> Running(m)
                     /\ thread'[m].kind = thread[m].kind
                     /\ thread'[m].request = thread[m].request
  BY <1>s DEF WorkShape, Running
<1>u. /\ UNCHANGED <<command, held, previous, pending, cancel, ops, lists, apple, stopped>>
      /\ snap'.usbReview = snap.usbReview
  BY <1>s DEF WorkShape
<1>1. Counted' /\ LastRuns' /\ Restoring'
  BY <1>a, <1>r, <1>u DEF Rest, Counted, LastRuns, Restoring
<1>2. Commanding' /\ Stopping' /\ SetupsExclude' /\ ShownIsPending'
  <2>1. SetupsExclude' /\ ShownIsPending'
    BY <1>r, <1>u DEF Rest, SetupsExclude, ShownIsPending
  <2>2. Stopping'
    <3>1. (stopped => cancel /\ active_operation) /\ UNCHANGED <<stopped, cancel>>
      BY <1>u DEF Rest, Stopping
    <3>. QED BY <1>a, <3>1, Zenon DEF Stopping
  <2>3. Commanding'
    <3>1. UNCHANGED <<command, held, apple>>
      BY <1>u
    <3>2. command'.at # "none" => ~apple'
      BY <3>1, Zenon DEF Rest, Commanding
    <3>. QED BY <1>a, <3>1, <3>2 DEF Rest, Commanding
  <2>. QED BY <2>1, <2>2, <2>3
<1>3. Placed'
  <2>1. /\ thread'[n].at \in {"review", "reviewed"} => thread'[n].kind = "stage"
        /\ thread'[n].at = "dialog" => thread'[n].kind \notin UsbWrites
        /\ \A m \in Ops \ {n} : thread'[m] = thread[m]
    BY <1>s DEF WorkShape
  <2>. QED BY <1>r, <2>1 DEF Rest, Placed
<1>. QED BY <1>1, <1>2, <1>3 DEF Rest

LEMMA FinishKeeps ==
  ASSUME Types, Rest, NEW n \in Ops, Finish(n)
  PROVE  Rest'
<1>s. FinishShape(n)
  BY FinishShapes
<1>n. Running(n) /\ active_operation
  BY <1>s DEF FinishShape, Running, Rest, LastRuns
<1>r. \A m \in Ops : ~Running(m)' /\ thread'[m].at = "none"
  <2>1. \A m \in Ops \ {n} : ~Running(m)
    BY <1>n DEF Rest, LastRuns
  <2>. QED BY <1>s, <2>1 DEF FinishShape, Running
<1>1. Counted' /\ LastRuns' /\ Restoring' /\ Placed' /\ SetupsExclude'
  BY <1>r DEF Counted, LastRuns, Restoring, Placed, SetupsExclude
<1>2. ~stopped'
  BY <1>s DEF FinishShape
<1>3. Commanding'
  <2>1. UNCHANGED <<command, held, apple>>
    BY <1>s DEF FinishShape
  <2>2. command'.at # "none" => ~apple'
    BY <2>1, Zenon DEF Rest, Commanding
  <2>. QED BY <1>n, <2>1, <2>2 DEF Rest, Commanding
<1>4. ShownIsPending'
  <2>1. CASE thread[n].kind = "bitlocker"
    <3>1. pending = NoReview /\ previous.usbReview = 0
      BY <1>n, <2>1 DEF Rest, Restoring
    <3>. QED BY <1>s, <2>1, <3>1 DEF FinishShape, ShownIsPending, NoReview
  <2>2. CASE thread[n].kind # "bitlocker"
    BY <1>s, <2>2 DEF FinishShape, ShownIsPending, Rest
  <2>. QED BY <2>1, <2>2
<1>. QED BY <1>1, <1>2, <1>3, <1>4 DEF Rest, Stopping

LEMMA StartKeeps ==
  ASSUME Types, Rest, StartStep
  PROVE  Rest'
<1>. PICK t \in Threads : StartShape(t)
  BY StartShapes DEF Rest
<1>n. \A m \in Ops : ~Running(m) /\ thread[m].at = "none"
  BY DEF StartShape, Rest, LastRuns, Running
<1>r. /\ \A m \in Ops : m # ops + 1 => ~Running(m)' /\ thread'[m].at = "none"
      /\ ops' = ops + 1 /\ thread'[ops + 1] = t /\ active_operation'
      /\ t.at \in {"local", "prepare"}
  BY <1>n DEF StartShape, Running
<1>1. Counted'
  <2>1. t.kind \in Inventories => lists' < MaxLists
    BY DEF StartShape
  <2>. QED BY <1>r, <2>1 DEF Counted
<1>2. LastRuns'
  BY <1>r DEF LastRuns
<1>3. Commanding'
  <2>1. command'.at = "none"
    BY DEF StartShape
  <2>. QED BY <2>1 DEF Commanding
<1>4. Restoring'
  <2>1. t.kind = "bitlocker" => pending' = NoReview /\ previous'.usbReview = 0
    BY DEF StartShape, Rest, Commanding
  <2>. QED BY <1>r, <2>1 DEF Restoring
<1>5. ~stopped'
  <2>1. ~stopped /\ UNCHANGED stopped
    BY DEF StartShape, Rest, Stopping
  <2>. QED BY <2>1, Zenon
<1>6. Placed'
  <2>1. t.kind \in UsbWrites => t.request \in Requests
    BY DEF StartShape, Rest, Commanding
  <2>. QED BY <1>r, <2>1 DEF Placed
<1>7. SetupsExclude'
  <2>1. ~apple'
    <3>1. ~apple /\ UNCHANGED apple
      BY DEF StartShape
    <3>. QED BY <3>1, Zenon
  <2>. QED BY <2>1 DEF SetupsExclude
<1>8. ShownIsPending'
  BY DEF StartShape, Rest, ShownIsPending, NoReview
<1>. QED BY <1>1, <1>2, <1>3, <1>4, <1>5, <1>6, <1>7, <1>8 DEF Rest, Stopping

(* Every step is of one of the kinds.                                       *)
LEMMA NextKinds ==
  ASSUME [Next]_vars
  PROVE  \/ QuietStep
         \/ StartStep
         \/ \E n \in Ops : Work(n) \/ \E available \in BOOLEAN : Event(n, available)
         \/ \E n \in Ops : Finish(n)
<1>1. CASE Command
  BY <1>1 DEF Command, QuietStep, StartStep
<1>2. CASE Continue
  BY <1>2 DEF Continue, QuietStep, StartStep
<1>. QED BY <1>1, <1>2, NextParts DEF QuietStep

LEMMA StepRest ==
  ASSUME Types, Rest, [Next]_vars
  PROVE  Rest'
BY NextKinds, QuietKeeps, StartKeeps, WorkKeeps, FinishKeeps

(* A thread of a write takes the user's yes to the helper only when its flag *)
(* of Stop is not set, so when the user has not stopped it.                  *)
LEMMA StepWithdraws ==
  ASSUME Types, Rest, [Next]_vars, NEW n \in Ops,
         thread'[n].answer = "yes", thread[n].answer = "none", thread[n].kind \in UsbWrites
  PROVE  ~stopped
<1>1. CASE QuietStep
  BY <1>1, QuietShapes DEF Rest, QuietShape
<1>2. CASE StartStep
  <2>. PICK t \in Threads : StartShape(t)
    BY <1>2, StartShapes DEF Rest
  <2>. QED BY DEF StartShape
<1>3. ASSUME NEW m \in Ops, Work(m) \/ \E available \in BOOLEAN : Event(m, available)
      PROVE  ~stopped
  <2>1. WorkShape(m)
    BY <1>3, WorkShapes DEF Rest
  <2>2. ~cancel
    BY <2>1 DEF WorkShape
  <2>. QED BY <2>2, Zenon DEF Rest, Stopping
<1>4. ASSUME NEW m \in Ops, Finish(m)
      PROVE  ~stopped
  BY <1>4, FinishShapes DEF FinishShape
<1>. QED BY <1>1, <1>2, <1>3, <1>4, NextKinds

-----------------------------------------------------------------------------
Inductive == Types /\ Rest

LEMMA InductiveHolds == Spec => []Inductive
<1>1. Init => Inductive
  BY InitTypes, InitRest DEF Inductive
<1>2. Inductive /\ [Next]_vars => Inductive'
  BY StepTypes, StepRest DEF Inductive, Rest
<1>. QED BY <1>1, <1>2, PTL DEF Spec

(* Every variable of the state the commands share keeps its type, whatever  *)
(* commands and threads do.                                                 *)
THEOREM SetupTypes == Spec => []TypeOK
<1>1. Inductive => TypeOK
  BY TypeParts DEF Inductive
<1>. QED BY <1>1, InductiveHolds, PTL

(* One operation runs at a time, the last that began, and the window shows  *)
(* it as long as it runs: begin and the guard of the active operation are   *)
(* enough, for any number of operations and drives.                         *)
THEOREM SetupHasOneOperation == Spec => []OneOperation
<1>1. Inductive => OneOperation
  BY DEF Inductive, Rest, LastRuns, OneOperation
<1>. QED BY <1>1, InductiveHolds, PTL

(* The setup and the Apple setup never run together, although each looks at *)
(* the other in a critical section of its own.                              *)
THEOREM SetupsNeverMeet == Spec => []SetupsExclude
<1>1. Inductive => SetupsExclude
  BY DEF Inductive, Rest
<1>. QED BY <1>1, InductiveHolds, PTL

(* The review the window shows is the one a start can take, also when       *)
(* prepare_bitlocker puts an earlier snapshot back.                         *)
THEOREM SetupShowsItsReview == Spec => []ShownIsPending
<1>1. Inductive => ShownIsPending
  BY DEF Inductive, Rest
<1>. QED BY <1>1, InductiveHolds, PTL

(* A write of a USB drive that the user stopped before its plan was         *)
(* approved is not approved: the flag outlives the Stop until the next      *)
(* operation begins.                                                        *)
THEOREM SetupStops == Spec => StopWithdraws
<1>. DEFINE A == \A n \in Ops : thread'[n].answer = "yes" /\ thread[n].answer = "none"
                                 /\ thread[n].kind \in UsbWrites => ~stopped
<1>1. Inductive /\ [Next]_vars => A
  BY StepWithdraws DEF Inductive
<1>. QED BY <1>1, InductiveHolds, PTL DEF Spec, StopWithdraws

-----------------------------------------------------------------------------
(* What ReviewPromise sees: the variables of Promise, and the facts that    *)
(* give them.                                                               *)
ShownRequest == IF pending.expired THEN NoRequest ELSE pending.request

Taking == command.at = "begin" /\ command.kind \in UsbWrites

TakenRequest ==
  IF command.at = "begin" /\ command.kind \in UsbWrites THEN command.request
  ELSE IF Writing # {} THEN thread[CHOOSE n \in Writing : TRUE].request
  ELSE NoRequest

WriteApproved == \E n \in Writing : thread[n].answer = "yes"

Mapped ==
  /\ Taking => TakenRequest = command.request /\ command.request \in Requests
                 /\ ~WriteApproved /\ Writing = {}
  /\ ~Taking /\ Writing = {} => TakenRequest = NoRequest /\ ~WriteApproved
  /\ \A n \in Writing : /\ ~Taking
                        /\ TakenRequest = thread[n].request /\ thread[n].request \in Requests
                        /\ WriteApproved <=> thread[n].answer = "yes"

LEMMA MappedHolds == Inductive => Mapped
<1>. SUFFICES ASSUME Inductive PROVE Mapped
  OBVIOUS
<1>1. \A n \in Writing : n \in Ops /\ Running(n) /\ active_operation /\ n = ops
  BY DEF Inductive, Rest, LastRuns, Writing
<1>2. Taking => Writing = {} /\ command.request \in Requests
  BY <1>1 DEF Inductive, Rest, Commanding, Taking
<1>3. ASSUME NEW n \in Writing
      PROVE  /\ ~Taking
             /\ TakenRequest = thread[n].request /\ thread[n].request \in Requests
             /\ WriteApproved <=> thread[n].answer = "yes"
  <2>1. ~Taking
    BY <1>2
  <2>2. (CHOOSE m \in Writing : TRUE) = n
    <3>1. (CHOOSE m \in Writing : TRUE) \in Writing
      OBVIOUS
    <3>. QED BY <3>1, <1>1
  <2>3. \A m \in Writing : m = n
    BY <1>1
  <2>4. thread[n].request \in Requests
    BY <1>1 DEF Inductive, Rest, Placed, Writing
  <2>5. TakenRequest = thread[n].request
    BY <2>1, <2>2 DEF TakenRequest, Taking
  <2>6. WriteApproved <=> thread[n].answer = "yes"
    BY <2>3 DEF WriteApproved
  <2>. QED BY <2>1, <2>4, <2>5, <2>6
<1>4. Taking => TakenRequest = command.request
  BY DEF TakenRequest, Taking
<1>5. Writing = {} => ~WriteApproved
  BY DEF WriteApproved
<1>6. ~Taking /\ Writing = {} => TakenRequest = NoRequest
  BY DEF TakenRequest, Taking
<1>. QED BY <1>2, <1>3, <1>4, <1>5, <1>6 DEF Mapped

LEMMA MappedNext == (Inductive => Mapped)'
BY MappedHolds, PTL

LEMMA SameWriting ==
  ASSUME Mapped, Mapped', Taking' <=> Taking, Taking => UNCHANGED command,
         \A n \in Ops : /\ thread'[n].at = thread[n].at
                        /\ thread'[n].kind = thread[n].kind
                        /\ thread'[n].request = thread[n].request
                        /\ (thread'[n].answer = "yes" <=> thread[n].answer = "yes")
  PROVE  UNCHANGED TakenRequest /\ (WriteApproved' <=> WriteApproved)
<1>1. Writing' = Writing
  BY DEF Writing, Running
<1>2. CASE Taking
  BY <1>2 DEF Mapped
<1>3. CASE ~Taking /\ Writing = {}
  BY <1>1, <1>3 DEF Mapped
<1>4. CASE ~Taking /\ Writing # {}
  <2>. PICK n \in Writing : TRUE
    BY <1>4
  <2>1. n \in Writing' /\ n \in Ops
    BY <1>1 DEF Writing
  <2>2. TakenRequest = thread[n].request /\ (WriteApproved <=> thread[n].answer = "yes")
    BY DEF Mapped
  <2>3. TakenRequest' = thread'[n].request /\ (WriteApproved' <=> thread'[n].answer = "yes")
    BY <2>1 DEF Mapped
  <2>. QED BY <2>1, <2>2, <2>3
<1>. QED BY <1>2, <1>3, <1>4

(* The steps of ReviewPromise, of the mapped variables.                     *)
SameReview == UNCHANGED TakenRequest /\ (WriteApproved' <=> WriteApproved)

ReviewStep ==
  \/ TakenRequest = NoRequest /\ ShownRequest' \in Requests /\ SameReview
  \/ ShownRequest' \in {NoRequest, ShownRequest} /\ SameReview
  \/ /\ ShownRequest # NoRequest /\ TakenRequest = NoRequest
     /\ TakenRequest' = ShownRequest /\ ShownRequest' = NoRequest
     /\ WriteApproved' <=> WriteApproved
  \/ /\ TakenRequest # NoRequest /\ ~WriteApproved /\ WriteApproved'
     /\ UNCHANGED <<ShownRequest, TakenRequest>>
  \/ /\ TakenRequest # NoRequest /\ TakenRequest' = NoRequest
     /\ ~WriteApproved' /\ UNCHANGED ShownRequest

LEMMA QuietReview ==
  ASSUME Inductive, Mapped, Mapped', QuietStep
  PROVE  ReviewStep
<1>s. QuietShape
  BY QuietShapes DEF Inductive, Rest
<1>t. (Taking' <=> Taking) /\ (Taking => UNCHANGED command) => SameReview
  BY <1>s, SameWriting DEF QuietShape, SameReview
<1>w. NoReview.request = NoRequest /\ NoReview.expired = FALSE /\ NoCommand.at = "none"
  BY DEF NoReview, NoCommand
<1>d. pending' = NoReview => ShownRequest' = NoRequest
  BY <1>w DEF ShownRequest
<1>k. pending' = pending => ShownRequest' = ShownRequest
  BY DEF ShownRequest
(* The steps that leave both the review and the command alone, *)
<1>a. ASSUME UNCHANGED <<command, pending>>
      PROVE  ReviewStep
  <2>1. (Taking' <=> Taking) /\ UNCHANGED command
    BY <1>a DEF Taking
  <2>. QED BY <2>1, <1>a, <1>t, <1>k DEF ReviewStep
(* and those of a command that has not taken a review. *)
<1>b. ASSUME UNCHANGED pending, ~Taking, ~Taking'
      PROVE  ReviewStep
  BY <1>b, <1>t, <1>k DEF ReviewStep
<1>. USE DEF inner, main, mutex, outside, drawn, history
<1>1. CASE PrepareBitLocker
  BY <1>1, <1>b DEF PrepareBitLocker, Idle, Taking, NoCommand
<1>2. CASE \E mode \in UsbWrites, d \in Drives : ReviewUsb(mode, d)
  <2>. PICK mode \in UsbWrites, d \in Drives : ReviewUsb(mode, d)
    BY <1>2
  <2>1. Request(mode, d) \in Requests
    BY DEF ReviewUsb, Request, Requests, Inductive, Types, RestTypes, OutsideTypes, SnapTypes,
           Snapshots, Choices, UsbWrites
  <2>2. ShownRequest' = Request(mode, d)
    BY DEF ReviewUsb, ShownRequest
  <2>3. ~Taking /\ ~active_operation /\ UNCHANGED command
    BY DEF ReviewUsb, Idle, Taking
  <2>4. Writing = {}
    BY <2>3 DEF Inductive, Rest, LastRuns, Writing
  <2>5. TakenRequest = NoRequest
    BY <2>3, <2>4 DEF Mapped
  <2>6. SameReview
    BY <2>3, <1>t DEF Taking
  <2>. QED BY <2>1, <2>2, <2>5, <2>6 DEF ReviewStep
<1>3. CASE DismissReview
  <2>1. UNCHANGED command /\ ShownRequest' = NoRequest
    BY <1>3, <1>d DEF DismissReview
  <2>2. SameReview
    BY <2>1, <1>t DEF Taking
  <2>. QED BY <2>1, <2>2 DEF ReviewStep
<1>4. CASE \E mode \in UsbWrites, d \in Drives, t \in 0 .. reviews : StartUsb(mode, d, t)
  <2>. PICK mode \in UsbWrites, d \in Drives, t \in 0 .. reviews : StartUsb(mode, d, t)
    BY <1>4
  <2>1. command'.at = "take"
    BY DEF StartUsb
  <2>. QED BY <2>1, <1>b DEF StartUsb, Idle, Taking
<1>5. CASE \E d \in Drives : StartDirect(d)
  <2>. PICK d \in Drives : StartDirect(d)
    BY <1>5
  <2>1. command'.kind = "install"
    BY DEF StartDirect, NoCommand
  <2>. QED BY <2>1, <1>b DEF StartDirect, Idle, Taking, UsbWrites
<1>6. CASE CancelSetup
  BY <1>6, <1>a DEF CancelSetup
<1>7. CASE \E yes \in BOOLEAN : RespondReview(yes)
  BY <1>7, <1>a DEF RespondReview
<1>8. CASE StartAdmin
  BY <1>8, <1>a DEF StartAdmin, Startup
<1>9. CASE BeginBitLocker /\ ops' = ops
  <2>1. UNCHANGED <<inner, thread, ops, previous>>
    <3>1. ops # ops + 1
      BY SetupAssumption DEF Inductive, Types, ThreadTypes
    <3>. QED BY <1>9, <3>1 DEF BeginBitLocker, Spawn
  <2>. QED BY <1>9, <2>1, <1>b, <1>w DEF BeginBitLocker, Taking
<1>10. CASE TakeReview
  <2>1. /\ command.at = "take" /\ ~Taking /\ ~active_operation /\ ShownRequest' = NoRequest
        /\ command.kind \in UsbWrites /\ command.request \in Requests
    BY <1>10, <1>d DEF TakeReview, Taking, Inductive, Rest, Commanding
  <2>2. Writing = {}
    BY <2>1 DEF Inductive, Rest, LastRuns, Writing
  <2>3. TakenRequest = NoRequest /\ ~WriteApproved
    BY <2>1, <2>2 DEF Mapped
  <2>4. CASE command' = NoCommand
    <3>1. ~Taking'
      BY <2>4, <1>w DEF Taking
    <3>. QED BY <2>1, <3>1, <1>t DEF ReviewStep
  <2>5. CASE command' = [command EXCEPT !.at = "begin"] /\ matches(command.token, command.request)
    <3>1. /\ command'.at = "begin" /\ command'.kind = command.kind
          /\ command'.request = command.request
      BY <2>5 DEF Inductive, Types, CommandTypes
    <3>2. ShownRequest = command.request /\ ShownRequest # NoRequest
      BY <2>1, <2>5, NoRequestAssumption DEF matches, ShownRequest
    <3>3. TakenRequest' = command'.request /\ ~WriteApproved'
      BY <2>1, <3>1 DEF Mapped, Taking
    <3>. QED BY <2>1, <2>3, <3>1, <3>2, <3>3 DEF ReviewStep
  <2>. QED BY <1>10, <2>4, <2>5 DEF TakeReview
<1>11. CASE BeginStart /\ ops' = ops
  <2>1. active_operation
    <3>1. ops # ops + 1
      BY SetupAssumption DEF Inductive, Types, ThreadTypes
    <3>. QED BY <1>11, <3>1 DEF BeginStart, Spawn
  <2>. QED BY <1>11, <2>1 DEF BeginStart, Inductive, Rest, Commanding
<1>12. CASE Outside
  <2>1. CASE AskAdmin \/ \E yes \in BOOLEAN : AdminAnswered(yes)
    BY <2>1, <1>a DEF AskAdmin, AdminAnswered, Startup
  <2>2. CASE HelperDies \/ AppleStarts \/ AppleEnds \/ Downloaded
    BY <2>2, <1>a DEF HelperDies, AppleStarts, AppleEnds, Downloaded
  <2>3. CASE ReviewExpires
    <3>1. UNCHANGED command /\ pending'.expired = TRUE
      BY <2>3 DEF ReviewExpires, Inductive, Types, InnerTypes
    <3>2. SameReview /\ ShownRequest' = NoRequest
      BY <3>1, <1>t DEF Taking, ShownRequest
    <3>. QED BY <3>2 DEF ReviewStep
  <2>. QED BY <1>12, <2>1, <2>2, <2>3 DEF Outside
<1>13. CASE UNCHANGED vars
  BY <1>13, <1>a DEF vars
<1>. QED BY <1>1, <1>2, <1>3, <1>4, <1>5, <1>6, <1>7, <1>8, <1>9, <1>10, <1>11, <1>12, <1>13
         DEF QuietStep

LEMMA WorkReview ==
  ASSUME Inductive, Mapped, Mapped', NEW n \in Ops,
         Work(n) \/ \E available \in BOOLEAN : Event(n, available)
  PROVE  ReviewStep
<1>s. WorkShape(n)
  BY WorkShapes DEF Inductive, Rest
<1>u. /\ UNCHANGED <<command, pending>> /\ UNCHANGED ShownRequest
      /\ (Taking' <=> Taking)
  BY <1>s DEF WorkShape, ShownRequest, Taking
<1>w. n \in Writing' <=> n \in Writing
  BY <1>s DEF WorkShape, Writing, Running
<1>1. CASE n \in Writing
  <2>1. /\ TakenRequest = thread[n].request /\ thread[n].request \in Requests
        /\ WriteApproved <=> thread[n].answer = "yes"
    BY <1>1 DEF Mapped
  <2>2. /\ TakenRequest' = thread'[n].request
        /\ WriteApproved' <=> thread'[n].answer = "yes"
    BY <1>1, <1>w DEF Mapped
  <2>3. /\ thread'[n].request = thread[n].request
        /\ thread'[n].answer # thread[n].answer => thread[n].answer = "none"
    BY <1>s, <1>1 DEF WorkShape, Writing
  <2>4. TakenRequest # NoRequest
    BY <2>1, NoRequestAssumption
  <2>. QED BY <1>u, <2>1, <2>2, <2>3, <2>4 DEF ReviewStep, SameReview
<1>2. CASE n \notin Writing
  <2>1. /\ Writing' = Writing
        /\ \A m \in Writing : thread'[m] = thread[m]
    BY <1>s, <1>2, <1>w DEF WorkShape, Writing, Running
  <2>2. SameReview
    <3>1. CASE Taking
      BY <3>1, <1>u DEF Mapped, SameReview
    <3>2. CASE ~Taking /\ Writing = {}
      BY <3>2, <2>1, <1>u DEF Mapped, SameReview
    <3>3. CASE ~Taking /\ Writing # {}
      <4>. PICK m \in Writing : TRUE
        BY <3>3
      <4>1. TakenRequest = thread[m].request /\ (WriteApproved <=> thread[m].answer = "yes")
        BY DEF Mapped
      <4>2. TakenRequest' = thread'[m].request /\ (WriteApproved' <=> thread'[m].answer = "yes")
        BY <2>1 DEF Mapped
      <4>. QED BY <2>1, <4>1, <4>2 DEF SameReview
    <3>. QED BY <3>1, <3>2, <3>3
  <2>. QED BY <1>u, <2>2 DEF ReviewStep
<1>. QED BY <1>1, <1>2

LEMMA FinishReview ==
  ASSUME Inductive, Mapped, Mapped', NEW n \in Ops, Finish(n)
  PROVE  ReviewStep
<1>s. FinishShape(n)
  BY FinishShapes DEF Inductive
<1>n. /\ Running(n) /\ active_operation /\ ~Taking
      /\ \A m \in Writing : m = n
  BY <1>s
     DEF FinishShape, Running, Inductive, Rest, LastRuns, Writing, Commanding,
         Taking
<1>u. UNCHANGED ShownRequest /\ ~Taking'
  BY <1>s, <1>n DEF FinishShape, ShownRequest, Taking
<1>w. Writing' = {}
  BY <1>s, <1>n DEF FinishShape, Writing, Running
<1>1. TakenRequest' = NoRequest /\ ~WriteApproved'
  BY <1>u, <1>w DEF Mapped
<1>2. CASE n \in Writing
  <2>1. TakenRequest # NoRequest
    BY <1>2, NoRequestAssumption DEF Mapped
  <2>. QED BY <1>u, <1>1, <2>1 DEF ReviewStep
<1>3. CASE n \notin Writing
  <2>1. TakenRequest = NoRequest /\ ~WriteApproved
    BY <1>3, <1>n DEF Mapped
  <2>. QED BY <1>u, <1>1, <2>1 DEF ReviewStep, SameReview
<1>. QED BY <1>2, <1>3

LEMMA StartReview ==
  ASSUME Inductive, Mapped, Mapped', StartStep
  PROVE  ReviewStep
<1>. PICK t \in Threads : StartShape(t)
  BY StartShapes DEF Inductive, Rest
<1>1. Writing = {} /\ ~Taking'
  BY DEF StartShape, Inductive, Rest, LastRuns, Writing, Taking
<1>2. ShownRequest' \in {NoRequest, ShownRequest}
  <2>1. pending' = pending \/ pending' = NoReview
    BY DEF StartShape
  <2>. QED BY <2>1 DEF ShownRequest, NoReview
<1>3. Writing' \subseteq {ops + 1}
  BY <1>1 DEF StartShape, Writing, Running
<1>4. CASE t.kind \in UsbWrites
  <2>1. Taking /\ t.request = command.request
    BY <1>4 DEF StartShape, Taking
  <2>2. ops + 1 \in Writing'
    BY <1>4 DEF StartShape, Writing, Running
  <2>3. TakenRequest' = t.request /\ ~WriteApproved'
    BY <2>2 DEF Mapped, StartShape
  <2>4. TakenRequest = command.request /\ ~WriteApproved
    BY <2>1 DEF Mapped
  <2>. QED BY <1>2, <2>1, <2>3, <2>4 DEF ReviewStep, SameReview
<1>5. CASE t.kind \notin UsbWrites
  <2>1. ~Taking
    BY <1>5 DEF StartShape, Taking
  <2>2. Writing' = {}
    BY <1>3, <1>5 DEF StartShape, Writing
  <2>. QED BY <1>1, <1>2, <2>1, <2>2 DEF Mapped, ReviewStep, SameReview
<1>. QED BY <1>4, <1>5

(* Every step is one of ReviewPromise, or changes nothing that it sees.     *)
LEMMA StepReview ==
  ASSUME Inductive, Mapped, Mapped', [Next]_vars
  PROVE  ReviewStep
BY NextKinds, QuietReview, WorkReview, FinishReview, StartReview

LEMMA ReviewStepIsPromised == ReviewStep => [Promise!Next]_(Promise!vars)
<1>. SUFFICES ASSUME ReviewStep PROVE [Promise!Next]_(Promise!vars)
  OBVIOUS
<1>. USE DEF Promise!Next, Promise!vars, Promise!Show, Promise!Withdraw, Promise!Take,
             Promise!Approve, Promise!End, ShownRequest, TakenRequest, WriteApproved, SameReview
<1>1. CASE TakenRequest = NoRequest /\ ShownRequest' \in Requests /\ SameReview
  BY <1>1
<1>2. CASE ShownRequest' \in {NoRequest, ShownRequest} /\ SameReview
  BY <1>2
<1>3. CASE /\ ShownRequest # NoRequest /\ TakenRequest = NoRequest
           /\ TakenRequest' = ShownRequest /\ ShownRequest' = NoRequest
           /\ WriteApproved' <=> WriteApproved
  BY <1>3
<1>4. CASE /\ TakenRequest # NoRequest /\ ~WriteApproved /\ WriteApproved'
           /\ UNCHANGED <<ShownRequest, TakenRequest>>
  BY <1>4
<1>5. CASE /\ TakenRequest # NoRequest /\ TakenRequest' = NoRequest
           /\ ~WriteApproved' /\ UNCHANGED ShownRequest
  BY <1>5
<1>. QED BY <1>1, <1>2, <1>3, <1>4, <1>5 DEF ReviewStep

(* A USB drive is written only as the review says that the window showed    *)
(* last, and one review starts one write, however the start's critical      *)
(* sections, expiry, dismissal and other commands fall between each other.  *)
THEOREM SetupKeepsReviews == Spec => KeepsReviews
<1>1. Init => Promise!Init
  <2>. SUFFICES ASSUME Init PROVE Promise!Init
    OBVIOUS
  <2>1. Writing = {} /\ command.at = "none"
    BY DEF Init, Writing, Running, NoThread, NoCommand
  <2>2. pending.request = NoRequest
    BY DEF Init, NoReview
  <2>. QED BY <2>1, <2>2 DEF Promise!Init
<1>2. Inductive /\ Mapped /\ Mapped' /\ [Next]_vars => [Promise!Next]_(Promise!vars)
  BY StepReview, ReviewStepIsPromised
<1>. QED BY <1>1, <1>2, InductiveHolds, MappedHolds, PTL DEF Spec, KeepsReviews, Promise!Spec

-----------------------------------------------------------------------------
(* What ReviewIsLive and CancelledWasAsked stand on, where prepare_bitlocker *)
(* does not put back a snapshot that another operation still changed.  The  *)
(* review follows its thread; an answer and an outcome are given once, late *)
(* in a thread; what prepare_bitlocker puts back was shown at rest.         *)
Answering ==
  \A n \in Ops :
    /\ thread[n].at = "none" => thread[n].kind # "stage"
    /\ thread[n].at = "dialog" => thread[n].kind # "stage"
    /\ thread[n].answer # "none" => thread[n].at \in {"exchange", "release", "finish"}
    /\ thread[n].result # "none" => thread[n].at \in {"release", "finish"}
    /\ thread[n].result = "unconfirmed" => thread[n].answer = "no"

Rested(s) == s.review = "none" /\ (s.status = "cancelled" => told # "unasked")

Putting ==
  /\ command.at = "bitlocker" => ~active_operation /\ Rested(held)
  /\ \A n \in Ops : Running(n) /\ thread[n].kind = "bitlocker" => Rested(previous)

Asked ==
  /\ CancelledWasAsked
  /\ \A n \in Ops :
       /\ Running(n) /\ thread[n].kind \notin UsbChecks /\ cancel => stopped
       /\ thread[n].answer = "no" => stopped \/ refused
       /\ thread[n].result = "declined" => refused

Told == Answering /\ Putting /\ Asked /\ ReviewIsLive

(* At rest no review is shown and no thread waits for one.                  *)
LEMMA AtRest ==
  ASSUME Types, Rest, Told, ~active_operation
  PROVE  /\ \A n \in Ops : ~Running(n) /\ thread[n].at = "none" /\ thread[n].kind # "stage"
         /\ sender = 0 /\ snap.review = "none"
<1>1. \A n \in Ops : ~Running(n) /\ thread[n].at = "none" /\ thread[n].kind # "stage"
  BY DEF Rest, LastRuns, Running, Told, Answering
<1>2. sender # 0 => sender \in Ops
  BY SetupAssumption DEF Types, InnerTypes, Ops
<1>3. snap.review \in {"none", "asking", "approved"}
  BY DEF Types, SnapTypes, Snapshots
<1>. QED BY <1>1, <1>2, <1>3 DEF Told, ReviewIsLive

(* What a step that only changes the window, a flag or a command leaves.    *)
QuietTold ==
  /\ \A n \in Ops : thread'[n].result = thread[n].result
  /\ UNCHANGED told /\ snap'.review = snap.review
  /\ sender' \in {0, sender}
  /\ \A n \in Ops :
       thread[n].user # "none" \/ (sender = n /\ sender' # n /\ thread[n].at = "review")
         => thread'[n].user # "none"

QuietFlags ==
  /\ refused => refused'
  /\ stopped => stopped'
  /\ cancel' => cancel \/ stopped'

QuietCommand ==
  \/ command'.at # "bitlocker"
  \/ UNCHANGED <<command, held>>
  \/ /\ Impatient \/ ~active_operation
     /\ held'.review = snap.review /\ held'.status = snap.status

(* Every such step is of this shape.                                        *)
LEMMA QuietTolds ==
  ASSUME Types, Rest, QuietStep
  PROVE  QuietTold /\ QuietFlags /\ QuietCommand
<1>s. /\ snap \in Snapshots /\ thread \in [Ops -> Threads] /\ ops \in Nat
      /\ sender # 0 => sender \in Ops
      /\ NoCommand.at = "none" /\ ops # ops + 1
  BY SetupAssumption
     DEF Types, SnapTypes, ThreadTypes, InnerTypes, NoCommand, Ops
<1>. USE DEF QuietTold, QuietCommand
<1>f. /\ UNCHANGED <<refused, stopped, cancel>> => QuietFlags
      /\ UNCHANGED refused /\ stopped' = TRUE => QuietFlags
  <2>1. /\ UNCHANGED refused => (refused => refused')
        /\ UNCHANGED stopped => (stopped => stopped')
        /\ UNCHANGED cancel => (cancel' => cancel)
    BY Zenon
  <2>2. stopped' = TRUE => stopped'
    BY Zenon
  <2>. QED BY <2>1, <2>2, Zenon DEF QuietFlags
(* The steps that change neither threads nor the review, *)
<1>a. ASSUME UNCHANGED <<thread, sender, told, refused, stopped, cancel>>,
             snap'.review = snap.review, QuietCommand
      PROVE  QuietTold /\ QuietFlags /\ QuietCommand
  BY <1>a, <1>f
(* and the commands that end. *)
<1>b. /\ UNCHANGED <<command, held>> => QuietCommand
      /\ command'.at # "bitlocker" => QuietCommand
  OBVIOUS
<1>. HIDE DEF QuietCommand
<1>1. CASE PrepareBitLocker
  <2>1. held'.review = snap.review /\ held'.status = snap.status
    BY <1>1, <1>s DEF PrepareBitLocker, Snapshots
  <2>2. QuietCommand
    BY <1>1, <2>1 DEF PrepareBitLocker, QuietCommand
  <2>. QED BY <1>1, <1>a, <2>2 DEF PrepareBitLocker, inner, history
<1>2. CASE \E mode \in UsbWrites, d \in Drives : ReviewUsb(mode, d)
  <2>1. snap'.review = snap.review
    BY <1>2, <1>s DEF ReviewUsb, Snapshots
  <2>. QED BY <1>2, <1>a, <1>b, <2>1 DEF ReviewUsb, main, history
<1>3. CASE DismissReview
  <2>1. snap'.review = snap.review
    BY <1>3, <1>s DEF DismissReview, Snapshots
  <2>. QED BY <1>3, <1>a, <1>b, <2>1 DEF DismissReview, main, history
<1>4. CASE \E mode \in UsbWrites, d \in Drives, t \in 0 .. reviews : StartUsb(mode, d, t)
  BY <1>4, <1>a, <1>b DEF StartUsb, inner, history
<1>5. CASE \E d \in Drives : StartDirect(d)
  <2>1. command'.at = "begin"
    BY <1>5 DEF StartDirect, NoCommand
  <2>. QED BY <1>5, <1>a, <1>b, <2>1 DEF StartDirect, inner, history
<1>6. CASE CancelSetup
  <2>1. snap'.review = snap.review
    BY <1>6, <1>s DEF CancelSetup, Snapshots
  <2>2. UNCHANGED <<thread, sender, told, refused, command, held>> /\ stopped' = TRUE
    BY <1>6 DEF CancelSetup, main
  <2>. QED BY <1>b, <1>f, <2>1, <2>2
<1>7. CASE \E yes \in BOOLEAN : RespondReview(yes)
  <2>. PICK yes \in BOOLEAN : RespondReview(yes)
    BY <1>7
  <2>1. \A n \in Ops :
          /\ thread'[n].result = thread[n].result
          /\ thread[n].user # "none" => thread'[n].user # "none"
          /\ sender = n /\ thread[n].at = "review" => thread'[n].user # "none"
    BY <1>s DEF RespondReview, Threads
  <2>2. UNCHANGED <<snap, told, refused, stopped, cancel, command, held>> /\ sender' = 0
    BY DEF RespondReview, main, history
  <2>. QED BY <1>b, <1>f, <2>1, <2>2
<1>8. CASE StartAdmin
  BY <1>8, <1>a, <1>b DEF StartAdmin, Startup, main, history
<1>9. CASE BeginBitLocker /\ ops' = ops
  <2>1. UNCHANGED <<inner, thread>> /\ command'.at # "bitlocker"
    BY <1>9, <1>s DEF BeginBitLocker, Spawn
  <2>. QED BY <1>9, <1>a, <1>b, <2>1 DEF BeginBitLocker, inner, history
<1>10. CASE TakeReview
  <2>1. snap'.review = snap.review
    BY <1>10, <1>s DEF TakeReview, Snapshots
  <2>2. command'.at # "bitlocker"
    BY <1>10, <1>s DEF TakeReview, Types, CommandTypes
  <2>. QED BY <1>10, <1>a, <1>b, <2>1, <2>2 DEF TakeReview, history
<1>11. CASE BeginStart /\ ops' = ops
  <2>1. UNCHANGED <<inner, thread>> /\ command'.at # "bitlocker"
    BY <1>11, <1>s DEF BeginStart, Spawn
  <2>. QED BY <1>11, <1>a, <1>b, <2>1 DEF BeginStart, inner, history
<1>12. CASE Outside
  <2>. USE DEF inner, main, mutex, outside, drawn, history, Startup
  <2>1. CASE AskAdmin
    <3>1. snap'.review = snap.review
      BY <2>1, <1>s DEF AskAdmin, Snapshots
    <3>. QED BY <2>1, <3>1, <1>a, <1>b DEF AskAdmin
  <2>2. CASE \E yes \in BOOLEAN : AdminAnswered(yes)
    <3>1. snap'.review = snap.review
      BY <2>2, <1>s DEF AdminAnswered, Snapshots
    <3>. QED BY <2>2, <3>1, <1>a, <1>b DEF AdminAnswered
  <2>3. CASE ReviewExpires \/ HelperDies
    BY <2>3, <1>a, <1>b DEF ReviewExpires, HelperDies
  <2>4. CASE AppleStarts \/ AppleEnds \/ Downloaded
    BY <2>4, <1>a, <1>b DEF AppleStarts, AppleEnds, Downloaded
  <2>. QED BY <1>12, <2>1, <2>2, <2>3, <2>4 DEF Outside
<1>13. CASE UNCHANGED vars
  BY <1>13, <1>a, <1>b DEF vars, inner, main, mutex, outside, drawn, history
<1>. QED BY <1>1, <1>2, <1>3, <1>4, <1>5, <1>6, <1>7, <1>8, <1>9, <1>10, <1>11, <1>12, <1>13
         DEF QuietStep

(* Such a step keeps what the window says true.                             *)
LEMMA QuietKeepsTold ==
  ASSUME Types, Rest, Told, QuietStep, ~Impatient
  PROVE  Told'
<1>s. QuietShape /\ QuietTold /\ QuietFlags /\ QuietCommand
  BY QuietShapes, QuietTolds DEF Rest
<1>a. active_operation' <=> active_operation
  BY <1>s DEF QuietShape, active_operation
<1>r. \A n \in Ops : /\ Running(n)' <=> Running(n)
                     /\ thread'[n].at = thread[n].at
                     /\ thread'[n].kind = thread[n].kind
                     /\ thread'[n].answer = thread[n].answer
                     /\ thread'[n].result = thread[n].result
  BY <1>s DEF QuietShape, QuietTold, Running
<1>u. /\ UNCHANGED <<told, previous>> /\ snap'.status = snap.status
      /\ snap'.review = snap.review
  BY <1>s DEF QuietShape, QuietTold
<1>1. Answering'
  BY <1>r DEF Told, Answering
<1>2. Putting'
  <2>1. Rested(previous) => Rested(previous)'
    BY <1>u DEF Rested
  <2>2. command'.at = "bitlocker" => ~active_operation /\ Rested(held)'
    <3>1. CASE UNCHANGED <<command, held>>
      BY <1>u, <3>1 DEF Told, Putting, Rested
    <3>2. CASE /\ ~active_operation
               /\ held'.review = snap.review /\ held'.status = snap.status
      BY <1>u, <3>2, AtRest DEF Told, Asked, CancelledWasAsked, Rested
    <3>. QED BY <1>s, <3>1, <3>2 DEF QuietCommand
  <2>. QED BY <1>a, <1>r, <2>1, <2>2 DEF Told, Putting
<1>3. Asked'
  <2>1. CancelledWasAsked'
    BY <1>u DEF Told, Asked, CancelledWasAsked
  <2>2. \A n \in Ops : Running(n) /\ thread[n].kind \notin UsbChecks /\ cancel' => stopped'
    BY <1>s, Zenon DEF Told, Asked, QuietFlags
  <2>3. \A n \in Ops : /\ thread[n].answer = "no" => stopped' \/ refused'
                       /\ thread[n].result = "declined" => refused'
    BY <1>s, Zenon DEF Told, Asked, QuietFlags
  <2>4. \A n \in Ops : Running(n)' /\ thread'[n].kind \notin UsbChecks /\ cancel' => stopped'
    BY <1>r, <2>2, Zenon
  <2>5. \A n \in Ops : /\ thread'[n].answer = "no" => stopped' \/ refused'
                       /\ thread'[n].result = "declined" => refused'
    BY <1>r, <2>3, Zenon
  <2>. SUFFICES ASSUME NEW n \in Ops
                PROVE  /\ Running(n)' /\ thread'[n].kind \notin UsbChecks /\ cancel' => stopped'
                       /\ thread'[n].answer = "no" => stopped' \/ refused'
                       /\ thread'[n].result = "declined" => refused'
    BY <2>1 DEF Asked
  <2>6. Running(n)' /\ thread'[n].kind \notin UsbChecks /\ cancel' => stopped'
    BY <2>4
  <2>7. thread'[n].answer = "no" => stopped' \/ refused'
    BY <2>5
  <2>8. thread'[n].result = "declined" => refused'
    BY <2>5
  <2>. QED BY <2>6, <2>7, <2>8, Zenon
<1>4. ReviewIsLive'
  <2>1. sender' # 0 => sender' = sender
    BY <1>s DEF QuietTold
  <2>2. sender \in 0 .. MaxOps
    BY DEF Types, InnerTypes
  <2>3. sender' # 0 => thread'[sender'].at \in {"review", "reviewed"} /\ snap'.review = "asking"
    BY <1>r, <1>u, <2>1, <2>2, SetupAssumption DEF Told, ReviewIsLive, Ops
  <2>4. snap'.review = "asking"
          => \E n \in Ops : /\ thread'[n].at \in {"review", "reviewed"}
                            /\ sender' = n \/ thread'[n].user # "none" \/ thread'[n].at = "reviewed"
    BY <1>s, <1>r, <1>u DEF Told, ReviewIsLive, QuietTold
  <2>5. snap'.review = "approved"
          => \E n \in Ops : thread'[n].kind = "stage" /\ thread'[n].answer = "yes"
    BY <1>r, <1>u DEF Told, ReviewIsLive
  <2>. QED BY <2>3, <2>4, <2>5 DEF ReviewIsLive
<1>. QED BY <1>1, <1>2, <1>3, <1>4 DEF Told

(* What else begins with an operation: it has no outcome yet, no review is  *)
(* shown, and only a check of a USB drive can inherit a flag of Stop.       *)
LEMMA StartTolds ==
  ASSUME Types, Rest, Told, StartStep
  PROVE  /\ snap'.review = "none" /\ snap'.status # "cancelled"
         /\ UNCHANGED <<sender, told>>
         /\ thread'[ops + 1].result = "none"
         /\ cancel' => thread'[ops + 1].kind \in UsbChecks
<1>s. snap \in Snapshots /\ thread \in [Ops -> Threads] /\ ops \in Nat
  BY SetupAssumption DEF Types, SnapTypes, ThreadTypes
<1>b. ASSUME NEW kind, NEW status \in {"inspecting", "running"}, NEW target,
             begin(kind, status, target)
      PROVE  /\ snap'.review = "none" /\ snap'.status # "cancelled"
             /\ UNCHANGED sender /\ cancel' = FALSE
  BY <1>b, <1>s DEF begin, Begun, Snapshots
<1>t. ASSUME NEW kind, NEW request, Spawn(kind, request)
      PROVE  thread'[ops + 1].result = "none" /\ thread'[ops + 1].kind = kind
  <2>1. ops + 1 \in Ops
    BY <1>s, <1>t, SetupAssumption DEF Spawn, Room, Ops
  <2>. QED BY <1>s, <1>t, <2>1 DEF Spawn, NoThread
<1>f. cancel' = FALSE => (cancel' => thread'[ops + 1].kind \in UsbChecks)
  BY Zenon
<1>1. CASE \E kind \in Inventories : Inspect(kind)
  BY <1>1, <1>b, <1>t, <1>f DEF Inspect, Starts, history
<1>2. CASE Prepare
  BY <1>2, <1>b, <1>t, <1>f DEF Prepare, Starts, history
<1>3. CASE \E action \in Staged : StagedIso(action)
  BY <1>3, <1>b, <1>t, <1>f DEF StagedIso, Starts, history
<1>4. CASE \E kind \in UsbChecks, d \in Drives : InspectUsbChoice(kind, d)
  <2>. PICK kind \in UsbChecks, d \in Drives : InspectUsbChoice(kind, d)
    BY <1>4
  <2>1. snap'.review = snap.review /\ snap'.status = "running"
    BY <1>s DEF InspectUsbChoice, Snapshots
  <2>2. snap.review = "none"
    BY AtRest DEF InspectUsbChoice
  <2>3. thread'[ops + 1].result = "none" /\ thread'[ops + 1].kind \in UsbChecks
    BY <1>t DEF InspectUsbChoice
  <2>. QED BY <2>1, <2>2, <2>3 DEF InspectUsbChoice, Starts, history
<1>5. CASE BeginBitLocker /\ ops' # ops
  BY <1>5, <1>b, <1>t, <1>f DEF BeginBitLocker, history
<1>6. CASE BeginStart /\ ops' # ops
  BY <1>6, <1>b, <1>t, <1>f DEF BeginStart, history
<1>. QED BY <1>1, <1>2, <1>3, <1>4, <1>5, <1>6 DEF StartStep

(* A start keeps it: nothing else runs then.                                *)
LEMMA StartKeepsTold ==
  ASSUME Types, Rest, Told, StartStep
  PROVE  Told'
<1>. PICK t \in Threads : StartShape(t)
  BY StartShapes DEF Rest
<1>s. /\ snap'.review = "none" /\ snap'.status # "cancelled"
      /\ UNCHANGED <<sender, told>>
      /\ thread'[ops + 1].result = "none"
  BY StartTolds
<1>c. cancel' => thread'[ops + 1].kind \in UsbChecks
  BY StartTolds
<1>n. /\ \A m \in Ops : ~Running(m) /\ thread[m].at = "none" /\ thread[m].kind # "stage"
      /\ sender = 0
  BY AtRest DEF StartShape
<1>m. \A m \in Ops : thread[m].answer = "none" /\ thread[m].result = "none"
  BY <1>n DEF Told, Answering
<1>r. /\ \A m \in Ops : m # ops + 1 => thread'[m] = thread[m] /\ ~Running(m)'
      /\ thread'[ops + 1] = t /\ t.at \in {"local", "prepare"} /\ t.answer = "none"
      /\ ops + 1 \in Ops
  BY <1>n DEF StartShape, Running
<1>a. \A m \in Ops : thread'[m].answer = "none" /\ thread'[m].result = "none"
  BY <1>m, <1>r, <1>s
<1>1. Answering'
  BY <1>a, <1>n, <1>r DEF Answering
<1>2. Putting'
  <2>1. command'.at = "none"
    BY DEF StartShape
  <2>2. t.kind = "bitlocker" => Rested(previous)'
    BY <1>s DEF StartShape, Told, Putting, Rested
  <2>. QED BY <1>r, <2>1, <2>2 DEF Putting
<1>3. Asked'
  <2>1. CancelledWasAsked'
    BY <1>s DEF CancelledWasAsked
  <2>2. \A m \in Ops : thread'[m].answer # "no" /\ thread'[m].result # "declined"
    BY <1>a
  <2>3. \A m \in Ops : ~(Running(m)' /\ thread'[m].kind \notin UsbChecks /\ cancel')
    BY <1>c, <1>r, Zenon
  <2>. QED BY <2>1, <2>2, <2>3 DEF Asked
<1>4. ReviewIsLive'
  BY <1>n, <1>s DEF ReviewIsLive
<1>. QED BY <1>1, <1>2, <1>3, <1>4 DEF Told

(* What a thread's step does to its answer and its outcome.                 *)
AnswersShape(n) ==
  /\ thread'[n].at = "dialog" => thread[n].kind # "stage"
  /\ thread'[n].answer # "none" => thread'[n].at \in {"exchange", "release", "finish"}
  /\ thread'[n].result # "none" => thread'[n].at \in {"release", "finish"}
  /\ thread'[n].result = "unconfirmed" => thread'[n].answer = "no"

AnswersFlags(n) ==
  /\ thread'[n].answer = "no" => stopped \/ refused'
  /\ thread'[n].result = "declined" => refused'

(* An answer is given while the helper waits for it, an outcome at the end. *)
LEMMA WorkAnswers ==
  ASSUME Types, Rest, Told, NEW n \in Ops, Work(n) \/ \E available \in BOOLEAN : Event(n, available)
  PROVE  AnswersShape(n) /\ AnswersFlags(n) /\ UNCHANGED told
<1>s. thread \in [Ops -> Threads]
  BY DEF Types, ThreadTypes
<1>q. /\ thread[n].answer # "none" => thread[n].at \in {"exchange", "release", "finish"}
      /\ thread[n].result # "none" => thread[n].at \in {"release", "finish"}
      /\ thread[n].result = "unconfirmed" => thread[n].answer = "no"
      /\ thread[n].at = "dialog" => thread[n].kind # "stage"
  BY DEF Told, Answering
<1>f. /\ thread[n].answer = "no" => stopped \/ refused
      /\ thread[n].result = "declined" => refused
  BY Zenon DEF Told, Asked
(* The steps that leave the answer alone and give no outcome but an error.  *)
<1>a. ASSUME thread'[n].answer = thread[n].answer,
             thread'[n].result \in {thread[n].result, "error"}, UNCHANGED refused
      PROVE  AnswersFlags(n)
  <2>1. "error" # "declined"
    OBVIOUS
  <2>2. thread'[n].result = "declined" => thread[n].result = "declined"
    BY <1>a, <2>1
  <2>3. thread'[n].answer = "no" => thread[n].answer = "no"
    BY <1>a
  <2>. QED BY <1>a, <1>f, <2>2, <2>3, Zenon DEF AnswersFlags
<1>. USE DEF history, Steps
<1>1. CASE PrepareFails(n)
  <2>1. /\ thread'[n].answer = thread[n].answer /\ thread'[n].at = "finish"
        /\ thread'[n].result = "error" /\ thread[n].kind # "stage"
    BY <1>1, <1>s DEF PrepareFails, Ends, Threads, UsbWrites
  <2>. QED BY <1>1, <1>a, <2>1 DEF PrepareFails, AnswersShape
<1>2. CASE acquire_session(n) \/ Launched(n)
  <2>1. /\ thread'[n].answer = thread[n].answer /\ thread'[n].result = thread[n].result
        /\ thread'[n].at \in {"send", "prompt"} /\ thread[n].at \in {"prepare", "prompt"}
    BY <1>2, <1>s DEF acquire_session, Launched, To, Threads
  <2>. QED BY <1>2, <1>a, <1>q, <2>1 DEF acquire_session, Launched, AnswersShape
<1>3. CASE \E r \in {"declined", "error"} : NotLaunched(n, r)
  <2>. PICK r \in {"declined", "error"} : NotLaunched(n, r)
    BY <1>3
  <2>1. /\ thread'[n].answer = thread[n].answer /\ thread'[n].result = r
        /\ thread'[n].at = "finish" /\ thread[n].at = "prompt"
    BY <1>s DEF NotLaunched, Ends, Threads
  <2>2. thread'[n].answer = "none"
    BY <1>q, <2>1
  <2>3. refused' = (r = "declined")
    BY DEF NotLaunched
  <2>4. thread'[n].result = "declined" => refused'
    BY <2>1, <2>3, Zenon
  <2>5. thread'[n].answer # "no"
    BY <2>2
  <2>6. AnswersFlags(n)
    BY <2>4, <2>5, Zenon DEF AnswersFlags
  <2>. QED BY <2>1, <2>2, <2>6 DEF AnswersShape, NotLaunched
<1>4. CASE \E sent \in BOOLEAN : Register(n, sent)
  <2>1. /\ thread'[n].answer = thread[n].answer /\ thread'[n].result \in {thread[n].result, "error"}
        /\ thread[n].at = "send"
        /\ thread'[n].result # thread[n].result => thread'[n].at = "release"
        /\ thread'[n].at \in {"exchange", "release"}
    BY <1>4, <1>s DEF Register, Ends, To, Threads
  <2>. QED BY <1>4, <1>a, <1>q, <2>1 DEF Register, AnswersShape
<1>5. CASE Exchange(n)
  <2>1. CASE AskWrite(n)
    <3>1. /\ thread[n].at = "exchange" /\ thread'[n].at = "exchange"
          /\ thread'[n].result = thread[n].result /\ thread[n].kind \in UsbWrites
      BY <2>1, <1>s DEF AskWrite, Asks, Threads
    <3>2. thread[n].kind \notin UsbChecks /\ Running(n)
      BY <3>1 DEF UsbWrites, UsbChecks, Running
    <3>3. cancel => stopped
      BY <3>2, Zenon DEF Told, Asked
    <3>4. thread'[n].answer = IF cancel THEN "no" ELSE "yes"
      BY <2>1, <1>s DEF AskWrite, Threads
    <3>5. "yes" # "no"
      OBVIOUS
    <3>6. thread'[n].answer = "no" => stopped
      BY <3>3, <3>4, <3>5, Zenon
    <3>7. thread'[n].result # "declined" /\ thread'[n].result = "none"
      BY <1>q, <3>1
    <3>8. AnswersFlags(n)
      BY <3>6, <3>7, Zenon DEF AnswersFlags
    <3>. QED BY <2>1, <3>1, <3>7, <3>8 DEF AskWrite, AnswersShape
  <2>2. CASE AskRefused(n) \/ Disconnected(n)
    <3>1. /\ thread'[n].answer = thread[n].answer /\ thread'[n].result = "error"
          /\ thread'[n].at = "release"
      BY <2>2, <1>s DEF AskRefused, Disconnected, Ends, Threads
    <3>. QED BY <2>2, <1>a, <3>1 DEF AskRefused, Disconnected, AnswersShape
  <2>3. CASE AskReview(n) \/ AskDialog(n)
    <3>1. /\ thread'[n].answer = thread[n].answer /\ thread'[n].result = thread[n].result
          /\ thread[n].answer = "none" /\ thread[n].at = "exchange"
          /\ thread'[n].at = "dialog" => thread[n].kind # "stage"
      BY <2>3, <1>s DEF AskReview, AskDialog, Asks, To, Threads
    <3>. QED BY <2>3, <1>a, <1>q, <3>1 DEF AskReview, AskDialog, AnswersShape
  <2>4. CASE \E r \in {"ok", "error", "unconfirmed"} : Reports(n, r)
    <3>. PICK r \in {"ok", "error", "unconfirmed"} : Reports(n, r)
      BY <2>4
    <3>1. /\ thread'[n].answer = thread[n].answer /\ thread'[n].result = r
          /\ thread'[n].at = "release" /\ (r = "unconfirmed" => thread[n].answer = "no")
      BY <1>s DEF Reports, Threads
    <3>2. thread'[n].result # "declined" /\ (thread'[n].answer = "no" => thread[n].answer = "no")
      BY <3>1
    <3>3. UNCHANGED <<refused, told>>
      BY DEF Reports
    <3>4. AnswersFlags(n)
      BY <1>f, <3>2, <3>3, Zenon DEF AnswersFlags
    <3>. QED BY <3>1, <3>3, <3>4 DEF AnswersShape
  <2>. QED BY <1>5, <2>1, <2>2, <2>3, <2>4 DEF Exchange
<1>6. CASE ReviewEnds(n)
  <2>1. /\ thread'[n].answer = thread[n].answer /\ thread'[n].result = thread[n].result
        /\ thread'[n].at = "reviewed" /\ thread[n].at = "review"
    BY <1>6, <1>s DEF ReviewEnds, To, Threads
  <2>. QED BY <1>6, <1>a, <1>q, <2>1 DEF ReviewEnds, AnswersShape
(* An answer is given: a no, only where the user refused.                   *)
<1>7. ASSUME NEW yes \in BOOLEAN, refused' = ~yes,
             thread[n].at \in {"reviewed", "dialog"},
             thread'[n].answer = IF yes THEN "yes" ELSE "no",
             thread'[n].at = IF session = "live" THEN "exchange" ELSE "release",
             thread'[n].result = IF session = "live" THEN thread[n].result ELSE "error"
      PROVE  AnswersShape(n) /\ AnswersFlags(n)
  <2>1. "yes" # "no"
    OBVIOUS
  <2>2. thread'[n].answer = "no" => refused'
    BY <1>7, <2>1, Zenon
  <2>3. thread'[n].result # "declined"
    BY <1>7, <1>q
  <2>4. AnswersFlags(n)
    BY <2>2, <2>3, Zenon DEF AnswersFlags
  <2>. QED BY <1>7, <1>q, <2>4 DEF AnswersShape
<1>8. CASE ReviewAnswered(n)
  <2>. DEFINE yes == thread[n].user = "yes"
  <2>1. refused' = ~yes /\ yes \in BOOLEAN
    BY <1>8 DEF ReviewAnswered
  <2>2. /\ thread[n].at \in {"reviewed", "dialog"}
        /\ thread'[n].answer = IF yes THEN "yes" ELSE "no"
        /\ thread'[n].at = IF session = "live" THEN "exchange" ELSE "release"
        /\ thread'[n].result = IF session = "live" THEN thread[n].result ELSE "error"
    BY <1>8, <1>s DEF ReviewAnswered, Threads
  <2>3. UNCHANGED told
    BY <1>8 DEF ReviewAnswered
  <2>. HIDE DEF yes
  <2>. QED BY <2>1, <2>2, <2>3, <1>7
<1>9. CASE \E yes \in BOOLEAN : DialogAnswered(n, yes)
  <2>. PICK yes \in BOOLEAN : DialogAnswered(n, yes)
    BY <1>9
  <2>1. refused' = ~yes /\ UNCHANGED told
    BY DEF DialogAnswered
  <2>2. /\ thread[n].at \in {"reviewed", "dialog"}
        /\ thread'[n].answer = IF yes THEN "yes" ELSE "no"
        /\ thread'[n].at = IF session = "live" THEN "exchange" ELSE "release"
        /\ thread'[n].result = IF session = "live" THEN thread[n].result ELSE "error"
    BY <1>s DEF DialogAnswered, Threads
  <2>. QED BY <2>1, <2>2, <1>7
<1>10. CASE Release(n)
  <2>1. /\ thread'[n].answer = thread[n].answer /\ thread'[n].result = thread[n].result
        /\ thread'[n].at = "finish"
    BY <1>10, <1>s DEF Release, To, Threads
  <2>. QED BY <1>10, <1>a, <1>q, <2>1 DEF Release, AnswersShape
<1>11. CASE \E r \in {"ok", "error"} : RunLocal(n, r)
  <2>. PICK r \in {"ok", "error"} : RunLocal(n, r)
    BY <1>11
  <2>1. /\ thread'[n].answer = thread[n].answer /\ thread'[n].result = r
        /\ thread'[n].at = "finish" /\ thread[n].at = "local"
    BY <1>s DEF RunLocal, Ends, Threads
  <2>2. thread'[n].result # "declined" /\ thread'[n].answer # "no"
    BY <1>q, <2>1
  <2>3. AnswersFlags(n)
    BY <2>2, Zenon DEF AnswersFlags
  <2>. QED BY <1>q, <2>1, <2>3 DEF RunLocal, AnswersShape
<1>12. CASE \E available \in BOOLEAN : Event(n, available)
  <2>1. thread'[n] = thread[n] /\ UNCHANGED <<refused, told>>
    BY <1>12 DEF Event
  <2>. QED BY <1>a, <1>q, <2>1 DEF AnswersShape
<1>. QED BY <1>1, <1>2, <1>3, <1>4, <1>5, <1>6, <1>8, <1>9, <1>10, <1>11, <1>12 DEF Work

(* A thread's step shows a review only as it starts to wait for the answer, *)
(* and takes it down, or marks it, as it stops.                             *)
LEMMA WorkReviews ==
  ASSUME Types, Rest, Told, NEW n \in Ops, Work(n) \/ \E available \in BOOLEAN : Event(n, available)
  PROVE  ReviewIsLive'
<1>s. /\ snap \in Snapshots /\ thread \in [Ops -> Threads]
      /\ sender # 0 => sender \in Ops
  BY SetupAssumption DEF Types, SnapTypes, ThreadTypes, InnerTypes, Ops
<1>l. ReviewIsLive
  BY DEF Told
<1>w. /\ \A m \in Ops \ {n} : thread'[m] = thread[m]
      /\ thread'[n].kind = thread[n].kind
  BY WorkShapes DEF WorkShape, Rest
<1>k. thread[n].at \in {"review", "reviewed"} => thread[n].kind = "stage"
  BY DEF Rest, Placed
(* The steps of a thread that is not at a review. *)
<1>a. ASSUME UNCHANGED sender, snap'.review = snap.review,
             thread[n].at \notin {"review", "reviewed"},
             thread[n].kind = "stage" => thread'[n].answer = thread[n].answer
      PROVE  ReviewIsLive'
  <2>1. sender # 0 => thread'[sender] = thread[sender]
    BY <1>a, <1>l, <1>s, <1>w DEF ReviewIsLive
  <2>2. snap'.review = "asking"
          => \E m \in Ops : /\ thread'[m].at \in {"review", "reviewed"}
                            /\ sender' = m \/ thread'[m].user # "none" \/ thread'[m].at = "reviewed"
    BY <1>a, <1>l, <1>w DEF ReviewIsLive
  <2>3. snap'.review = "approved"
          => \E m \in Ops : thread'[m].kind = "stage" /\ thread'[m].answer = "yes"
    BY <1>a, <1>l, <1>w DEF ReviewIsLive
  <2>. QED BY <1>a, <1>l, <2>1, <2>2, <2>3 DEF ReviewIsLive
<1>. USE DEF Steps, inner
<1>1. CASE PrepareFails(n)
  <2>1. thread'[n].answer = thread[n].answer
    BY <1>1, <1>s DEF PrepareFails, Ends, Threads
  <2>. QED BY <1>1, <1>a, <2>1 DEF PrepareFails
<1>2. CASE acquire_session(n) \/ Launched(n)
  <2>1. thread'[n].answer = thread[n].answer /\ snap'.review = snap.review
    BY <1>2, <1>s DEF acquire_session, Launched, To, Threads, Snapshots
  <2>. QED BY <1>2, <1>a, <2>1 DEF acquire_session, Launched
<1>3. CASE \E r \in {"declined", "error"} : NotLaunched(n, r)
  <2>1. thread'[n].answer = thread[n].answer
    BY <1>3, <1>s DEF NotLaunched, Ends, Threads
  <2>. QED BY <1>3, <1>a, <2>1 DEF NotLaunched
<1>4. CASE \E sent \in BOOLEAN : Register(n, sent)
  <2>1. thread'[n].answer = thread[n].answer /\ snap'.review = snap.review
    BY <1>4, <1>s DEF Register, Ends, To, Threads, Snapshots
  <2>. QED BY <1>4, <1>a, <2>1 DEF Register
<1>5. CASE Exchange(n)
  <2>1. CASE AskWrite(n)
    BY <2>1, <1>a DEF AskWrite, Asks, UsbWrites
  <2>2. CASE AskRefused(n) \/ Disconnected(n)
    <3>1. thread'[n].answer = thread[n].answer
      BY <2>2, <1>s DEF AskRefused, Disconnected, Ends, Threads
    <3>. QED BY <2>2, <1>a, <3>1 DEF AskRefused, Disconnected
  <2>3. CASE AskReview(n)
    <3>1. thread'[n].at = "review" /\ snap'.review = "asking" /\ sender' = n
      BY <2>3, <1>s DEF AskReview, To, Threads, Snapshots
    <3>. QED BY <3>1 DEF ReviewIsLive
  <2>4. CASE AskDialog(n)
    <3>1. thread'[n].answer = thread[n].answer
      BY <2>4, <1>s DEF AskDialog, To, Threads
    <3>. QED BY <2>4, <1>a, <3>1 DEF AskDialog, Asks
  <2>5. CASE \E r \in {"ok", "error", "unconfirmed"} : Reports(n, r)
    <3>1. thread'[n].answer = thread[n].answer
      BY <2>5, <1>s DEF Reports, Threads
    <3>. QED BY <2>5, <1>a, <3>1 DEF Reports
  <2>. QED BY <1>5, <2>1, <2>2, <2>3, <2>4, <2>5 DEF Exchange
<1>6. CASE ReviewEnds(n)
  <2>1. /\ thread'[n].at = "reviewed" /\ thread[n].at = "review"
        /\ thread'[n].answer = thread[n].answer
        /\ UNCHANGED <<snap, sender>>
    BY <1>6, <1>s DEF ReviewEnds, To, Threads
  <2>2. sender' # 0 => thread'[sender'].at \in {"review", "reviewed"} /\ snap'.review = "asking"
    BY <1>l, <1>s, <1>w, <2>1 DEF ReviewIsLive
  <2>3. snap'.review = "asking"
          => \E m \in Ops : /\ thread'[m].at \in {"review", "reviewed"}
                            /\ sender' = m \/ thread'[m].user # "none" \/ thread'[m].at = "reviewed"
    BY <2>1
  <2>4. snap'.review = "approved"
          => \E m \in Ops : thread'[m].kind = "stage" /\ thread'[m].answer = "yes"
    BY <1>l, <1>w, <2>1 DEF ReviewIsLive
  <2>. QED BY <2>2, <2>3, <2>4 DEF ReviewIsLive
<1>7. CASE ReviewAnswered(n)
  <2>1. /\ sender' = 0 /\ thread[n].at = "reviewed"
        /\ snap'.review = IF thread[n].user = "yes" THEN "approved" ELSE "none"
        /\ thread'[n].answer = IF thread[n].user = "yes" THEN "yes" ELSE "no"
    BY <1>7, <1>s DEF ReviewAnswered, Threads, Snapshots
  <2>. QED BY <1>k, <1>w, <2>1 DEF ReviewIsLive
<1>8. CASE \E yes \in BOOLEAN : DialogAnswered(n, yes)
  <2>1. thread[n].kind # "stage"
    BY <1>8 DEF DialogAnswered, Told, Answering
  <2>. QED BY <1>8, <1>a, <2>1 DEF DialogAnswered
<1>9. CASE Release(n)
  <2>1. thread'[n].answer = thread[n].answer /\ snap'.review = snap.review
    BY <1>9, <1>s DEF Release, To, Threads, Snapshots
  <2>. QED BY <1>9, <1>a, <2>1 DEF Release
<1>10. CASE \E r \in {"ok", "error"} : RunLocal(n, r)
  <2>1. thread'[n].answer = thread[n].answer
    BY <1>10, <1>s DEF RunLocal, Ends, Threads
  <2>. QED BY <1>10, <1>a, <2>1 DEF RunLocal
<1>11. CASE \E available \in BOOLEAN : Event(n, available)
  <2>1. snap'.review = snap.review
    BY <1>11, <1>s DEF Event, Snapshots
  <2>. QED BY <1>11, <1>a, <2>1 DEF Event
<1>. QED BY <1>1, <1>2, <1>3, <1>4, <1>5, <1>6, <1>7, <1>8, <1>9, <1>10, <1>11 DEF Work

(* So does a step of the thread.                                           *)
LEMMA WorkKeepsTold ==
  ASSUME Types, Rest, Told, NEW n \in Ops, Work(n) \/ \E available \in BOOLEAN : Event(n, available)
  PROVE  Told'
<1>s. WorkShape(n) /\ AnswersShape(n) /\ AnswersFlags(n) /\ UNCHANGED told
  BY WorkShapes, WorkAnswers DEF Rest
<1>u. /\ UNCHANGED <<command, held, previous, cancel, stopped, told>> /\ snap'.status = snap.status
      /\ \A m \in Ops \ {n} : thread'[m] = thread[m]
      /\ thread'[n].at # "none" /\ thread[n].at # "none" /\ thread'[n].kind = thread[n].kind
  BY <1>s DEF WorkShape
<1>o. \A m \in Ops \ {n} : ~Running(m)
  BY <1>u DEF Rest, LastRuns, Running
<1>1. Answering'
  BY <1>s, <1>u DEF Told, Answering, AnswersShape
<1>2. Putting'
  <2>1. /\ Rested(previous) => Rested(previous)'
        /\ Rested(held) => Rested(held)'
        /\ active_operation' <=> active_operation
    BY <1>u DEF Rested, active_operation
  <2>2. \A m \in Ops : (Running(m)' <=> Running(m)) /\ thread'[m].kind = thread[m].kind
    BY <1>u DEF Running
  <2>. QED BY <1>u, <2>1, <2>2 DEF Told, Putting
<1>3. Asked'
  <2>1. CancelledWasAsked'
    BY <1>u DEF Told, Asked, CancelledWasAsked
  <2>. SUFFICES ASSUME NEW m \in Ops
                PROVE  /\ Running(m)' /\ thread'[m].kind \notin UsbChecks /\ cancel' => stopped'
                       /\ thread'[m].answer = "no" => stopped' \/ refused'
                       /\ thread'[m].result = "declined" => refused'
    BY <2>1 DEF Asked
  <2>2. CASE m = n
    <3>1. Running(n) /\ thread[n].kind \notin UsbChecks /\ cancel => stopped
      BY Zenon DEF Told, Asked
    <3>2. Running(n) /\ thread'[n].kind = thread[n].kind /\ UNCHANGED stopped /\ UNCHANGED cancel
      BY <1>u DEF Running
    <3>3. thread'[n].kind \notin UsbChecks /\ cancel' => stopped'
      BY <3>1, <3>2, Zenon
    <3>4. thread'[n].answer = "no" => stopped' \/ refused'
      BY <1>s, <3>2, Zenon DEF AnswersFlags
    <3>5. thread'[n].result = "declined" => refused'
      BY <1>s, Zenon DEF AnswersFlags
    <3>. QED BY <2>2, <3>3, <3>4, <3>5, Zenon
  <2>3. CASE m # n
    <3>1. thread[m].at = "none" /\ thread'[m] = thread[m] /\ ~Running(m)'
      BY <1>o, <1>u, <2>3 DEF Running
    <3>2. thread'[m].answer # "no" /\ thread'[m].result # "declined"
      BY <3>1 DEF Told, Answering
    <3>. QED BY <3>1, <3>2, Zenon
  <2>. QED BY <2>2, <2>3
<1>4. ReviewIsLive'
  BY WorkReviews
<1>. QED BY <1>1, <1>2, <1>3, <1>4 DEF Told

(* The end of an operation takes its review down and says "cancelled" only  *)
(* of what the user stopped or did not agree to.                            *)
LEMMA FinishKeepsTold ==
  ASSUME Types, Rest, Told, NEW n \in Ops, Finish(n)
  PROVE  Told'
<1>s. /\ snap \in Snapshots /\ previous \in Snapshots /\ thread \in [Ops -> Threads]
      /\ sender # 0 => sender \in Ops
  BY SetupAssumption DEF Types, SnapTypes, ThreadTypes, InnerTypes, Ops
<1>f. Finishes(n)
  BY Zenon
     DEF Finish, inventory, Listed, Targeted, Compatibility, Complete, Restore,
         record_failure, Tells
<1>n. /\ thread[n].at = "finish" /\ Running(n) /\ active_operation
      /\ \A m \in Ops \ {n} : ~Running(m) /\ thread[m].at = "none"
  BY <1>s, <1>f DEF Finishes, Running, Rest, LastRuns
<1>t. /\ \A m \in Ops : thread'[m].at = "none" /\ ~Running(m)' /\ thread'[m].kind # "stage"
      /\ \A m \in Ops : thread'[m].answer = "none" /\ thread'[m].result = "none"
  <2>1. thread'[n] = NoThread /\ \A m \in Ops \ {n} : thread'[m] = thread[m]
    BY <1>s, <1>f DEF Finishes
  <2>2. \A m \in Ops \ {n} : thread[m].kind # "stage" /\ thread[m].answer = "none" /\ thread[m].result = "none"
    BY <1>n DEF Told, Answering
  <2>. QED BY <1>n, <2>1, <2>2 DEF NoThread, Running
<1>1. Answering'
  BY <1>t DEF Answering
<1>2. Putting'
  <2>1. command'.at # "bitlocker"
    BY <1>n, <1>f DEF Finishes, Told, Putting
  <2>. QED BY <1>t, <2>1 DEF Putting
(* A review can only be an approved one of this thread. *)
<1>r. /\ sender = 0 /\ snap.review # "asking"
      /\ snap.review = "approved" => thread[n].kind = "stage"
  <2>1. \A m \in Ops : thread[m].at \notin {"review", "reviewed"}
    BY <1>n
  <2>2. \A m \in Ops : thread[m].kind = "stage" => m = n
    BY <1>n DEF Told, Answering
  <2>. QED BY <1>s, <2>1, <2>2 DEF Told, ReviewIsLive
<1>v. snap.review \in {"none", "asking", "approved"}
  BY <1>s DEF Snapshots
<1>p. thread[n].kind = "bitlocker" => Rested(previous)
  BY <1>n DEF Told, Putting
<1>3. snap'.review = "none"
  <2>1. CASE thread[n].kind # "stage" /\ snap'.review = snap.review
    BY <1>r, <1>v, <2>1
  <2>2. CASE Restore(n)
    BY <1>p, <2>2 DEF Restore, Rested
  <2>3. CASE \E drives \in SUBSET Drives : inventory(n, drives)
    BY <1>s, <2>1, <2>3 DEF inventory, Listed, Targeted, Inventories, Snapshots
  <2>4. CASE \E plan \in Plans \cup {NoPlan} : Compatibility(n, plan)
    BY <1>s, <2>1, <2>4 DEF Compatibility, UsbChecks, Snapshots
  <2>5. CASE Complete(n)
    <3>1. CASE thread[n].kind \in Staged
      BY <1>s, <2>5, <3>1 DEF Complete, Snapshots
    <3>2. CASE thread[n].kind \notin Staged
      BY <1>s, <2>1, <2>5, <3>2 DEF Complete, Snapshots, Staged
    <3>. QED BY <3>1, <3>2
  <2>6. CASE record_failure(n)
    BY <1>s, <2>6 DEF record_failure, Snapshots
  <2>. QED BY <2>2, <2>3, <2>4, <2>5, <2>6 DEF Finish
<1>4. CancelledWasAsked'
  <2>1. CASE Restore(n)
    BY <1>p, <2>1 DEF Restore, Rested, CancelledWasAsked
  <2>2. CASE \E drives \in SUBSET Drives : inventory(n, drives)
    BY <1>s, <2>2 DEF inventory, Listed, Targeted, Snapshots, CancelledWasAsked
  <2>3. CASE \E plan \in Plans \cup {NoPlan} : Compatibility(n, plan)
    BY <1>s, <2>3 DEF Compatibility, Snapshots, CancelledWasAsked
  <2>4. CASE Complete(n)
    BY <1>s, <2>4 DEF Complete, Snapshots, CancelledWasAsked
  <2>5. CASE record_failure(n)
    <3>1. snap'.status = Outcome(n)
      BY <1>s, <2>5 DEF record_failure, Snapshots
    <3>2. told' = IF thread[n].kind \in UsbChecks THEN "check"
                  ELSE IF stopped \/ refused THEN "asked" ELSE "unasked"
      BY <2>5 DEF record_failure, Tells
    <3>3. "failed" # "cancelled" /\ "asked" # "unasked" /\ "check" # "unasked"
      OBVIOUS
    <3>4. /\ thread[n].result = "unconfirmed" => thread[n].answer = "no"
      BY DEF Told, Answering
    <3>5. /\ thread[n].kind \notin UsbChecks /\ cancel => stopped
          /\ thread[n].answer = "no" => stopped \/ refused
          /\ thread[n].result = "declined" => refused
      BY <1>n, Zenon DEF Told, Asked
    <3>6. Outcome(n) = "cancelled"
            => \/ thread[n].result = "unconfirmed" \/ thread[n].result = "declined"
               \/ cancel
      BY <3>3, Zenon DEF Outcome
    <3>7. Outcome(n) = "cancelled" => thread[n].kind \in UsbChecks \/ stopped \/ refused
      BY <3>4, <3>5, <3>6, Zenon
    <3>8. Outcome(n) = "cancelled" => told' # "unasked"
      BY <3>2, <3>3, <3>7, Zenon
    <3>. QED BY <3>1, <3>8 DEF CancelledWasAsked
  <2>. QED BY <2>1, <2>2, <2>3, <2>4, <2>5 DEF Finish
<1>5. Asked'
  <2>1. \A m \in Ops : thread'[m].answer # "no" /\ thread'[m].result # "declined"
    BY <1>t
  <2>. QED BY <1>4, <1>t, <2>1 DEF Asked
<1>6. ReviewIsLive'
  <2>1. sender' = 0
    BY <1>f, <1>r DEF Finishes
  <2>. QED BY <1>3, <2>1 DEF ReviewIsLive
<1>. QED BY <1>1, <1>2, <1>5, <1>6 DEF Told

(* At first nothing runs and nothing was told.                              *)
LEMMA InitTold == Init => Told
<1>. SUFFICES ASSUME Init PROVE Told
  OBVIOUS
<1>1. \A n \in Ops : ~Running(n) /\ thread[n] = NoThread
  BY DEF Init, Running, NoThread
<1>2. Answering
  BY <1>1 DEF Answering, NoThread
<1>3. Putting
  BY <1>1 DEF Init, Putting, NoCommand
<1>4. Asked
  BY <1>1 DEF Init, Asked, CancelledWasAsked, NoThread, FirstSnapshot
<1>5. ReviewIsLive
  BY DEF Init, ReviewIsLive, FirstSnapshot
<1>. QED BY <1>2, <1>3, <1>4, <1>5 DEF Told

(* The invariant, on top of Inductive.                                      *)
LEMMA ToldHolds == ASSUME ~Impatient PROVE Spec => []Told
<1>1. Inductive /\ Told /\ [Next]_vars => Told'
  BY NextKinds, QuietKeepsTold, StartKeepsTold, WorkKeepsTold, FinishKeepsTold
     DEF Inductive
<1>. QED BY <1>1, InitTold, InductiveHolds, PTL DEF Spec

(* As long as prepare_bitlocker is not called while an operation is active, *)
(* a staged review is on the window exactly while its thread waits for the  *)
(* answer or takes it down next, and one that was approved until its        *)
(* operation ends.                                                          *)
THEOREM SetupReviewIsLive == ASSUME ~Impatient PROVE Spec => []ReviewIsLive
<1>1. Told => ReviewIsLive
  BY DEF Told
<1>. QED BY <1>1, ToldHolds, PTL

(* Under the same assumption, "cancelled" is said only of what the user     *)
(* stopped or did not agree to, and of the checks of a USB drive.           *)
THEOREM SetupCancelledWasAsked == ASSUME ~Impatient PROVE Spec => []CancelledWasAsked
<1>1. Told => CancelledWasAsked
  BY DEF Told, Asked
<1>. QED BY <1>1, ToldHolds, PTL
=============================================================================
