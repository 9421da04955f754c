------------------------ MODULE HelperSession_proofs ------------------------
(***************************************************************************)
(* Proofs about the helper session, for every set of operations and of     *)
(* helpers: its types, its safety properties and that it implements what a *)
(* setup operation promises.  The inductive invariants build on each other *)
(* in this order: Inv, the types and who holds the session; Safe, where an *)
(* operation's frames and its approval are; Joined and Talk, whose frames  *)
(* an exchange reads and which change the window waits for; Hears, where   *)
(* the Stop of an operation is.                                            *)
(***************************************************************************)
EXTENDS HelperSession, TLAPS

-----------------------------------------------------------------------------
(* Frames.                                                                  *)

LEMMA DesktopFrameFields ==
  ASSUME NEW f \in DesktopFrames
  PROVE  /\ f.op \in Ops
         /\ f.type \in {"request", "cancel", "answer"}
         /\ f.type = "answer" => f.binding \in Bindings /\ f.yes \in BOOLEAN
<1>1. CASE f \in {Request(o) : o \in Ops}
  BY <1>1 DEF Request
<1>2. CASE f \in {Cancel(o) : o \in Ops}
  BY <1>2 DEF Cancel
<1>3. CASE f \in {Answer(o, b, y) : o \in Ops, b \in Bindings, y \in BOOLEAN}
  BY <1>3 DEF Answer
<1> QED
  BY <1>1, <1>2, <1>3 DEF DesktopFrames

LEMMA HelperFrameFields ==
  ASSUME NEW f \in HelperFrames
  PROVE  /\ f.type \in {"event", "ask", "end"}
         /\ f.type = "event" => f.available \in BOOLEAN
         /\ f.type = "ask" => f.binding \in Bindings
         /\ f.type = "end" => f.result \in {"ok", "error"}
<1>1. CASE f \in {Event(o, a) : o \in Ops, a \in BOOLEAN}
  BY <1>1 DEF Event
<1>2. CASE f \in {Ask(o, b) : o \in Ops, b \in Bindings}
  BY <1>2 DEF Ask
<1>3. CASE f \in {End(o, r) : o \in Ops, r \in {"ok", "error"}}
  BY <1>3 DEF End
<1> QED
  BY <1>1, <1>2, <1>3 DEF HelperFrames

LEMMA FramesAreFrames ==
  ASSUME NEW o \in Ops
  PROVE  /\ Request(o) \in DesktopFrames
         /\ Cancel(o) \in DesktopFrames
         /\ \A b \in Bindings, y \in BOOLEAN : Answer(o, b, y) \in DesktopFrames
         /\ \A a \in BOOLEAN : Event(o, a) \in HelperFrames
         /\ \A b \in Bindings : Ask(o, b) \in HelperFrames
         /\ \A r \in {"ok", "error"} : End(o, r) \in HelperFrames
BY DEF DesktopFrames, HelperFrames

-----------------------------------------------------------------------------
(* The inductive invariant, by the process that owns the state.             *)

DesktopTypes ==
  /\ gone \in BOOLEAN /\ active \in BOOLEAN /\ available \in BOOLEAN
  /\ stopped \in BOOLEAN /\ admin \in BOOLEAN
  /\ fgWriter \in Helpers \cup {NoHelper} /\ bgWriter \in Helpers \cup {NoHelper}
  /\ fgId \in Ops \cup {NoOp} /\ bgId \in Ops \cup {NoOp}
  /\ check \in Statuses
  /\ pc \in [Threads -> Places]
  /\ op \in [Threads -> Ops \cup {NoOp}]
  /\ asked \in Bindings \cup {"none"}
  /\ outcome \in [Threads -> {"none", "ok", "error"}]
  /\ lock \in Threads \cup {"free", "admin"}
  /\ session \in Helpers \cup {NoHelper}
  /\ used \subseteq Ops /\ keeps \in BOOLEAN

LinkTypes ==
  /\ process \in [Helpers -> {"none", "up", "exited"}]
  /\ alive \in [Helpers -> BOOLEAN]
  /\ toHelper \in [Helpers -> Seq(DesktopFrames)]
  /\ toDesktop \in [Helpers -> Seq(HelperFrames)]

HelperTypes ==
  /\ reading \in [Helpers -> BOOLEAN]
  /\ running \in [Helpers -> Ops \cup {NoOp}]
  /\ incoming \in [Helpers -> Seq(Ops)]
  /\ main \in [Helpers -> Phases]
  /\ serving \in [Helpers -> Ops \cup {NoOp}]
  /\ broken \in [Helpers -> BOOLEAN]
  /\ cancel \in [Ops -> BOOLEAN]
  /\ answers \in [Ops -> Seq(Answers)]
  /\ done \in [Helpers -> {"none", "ok", "error"}]

HistoryTypes == approved \subseteq Ops /\ stoppedAt \subseteq Ops /\ applied \subseteq Ops

(* A worker on its way has an operation, holds the session while it talks,  *)
(* and talks to a helper; a writer is kept together with its operation.     *)
Workers ==
  /\ \A t \in Threads :
       /\ pc[t] # "none" => op[t] \in Ops
       /\ pc[t] \in Holding => lock = t
       /\ pc[t] \in Holding \ {"launch"} => session \in Helpers
  /\ admin => lock = "admin"
  /\ pc["fg"] = "ask" => asked \in Bindings
  /\ fgWriter # NoHelper => fgId \in Ops
  /\ bgWriter # NoHelper => bgId \in Ops
  /\ ~active => pc["fg"] = "none"
  /\ check \notin {"running", "stopping"} => pc["bg"] = "none"

(* A main loop at work has an operation, and one about to report has its    *)
(* outcome.                                                                 *)
MainLoops ==
  \A h \in Helpers :
    /\ main[h] \notin {"wait", "leave"} => serving[h] \in Ops
    /\ main[h] \in {"clear", "report"} => done[h] \in {"ok", "error"}

Inv == /\ DesktopTypes /\ LinkTypes /\ HelperTypes /\ HistoryTypes
       /\ Workers /\ MainLoops

LEMMA InvGivesProperties == Inv => TypeOK /\ OneWorker
BY DEF Inv, DesktopTypes, LinkTypes, HelperTypes, HistoryTypes, Workers, TypeOK,
       OneWorker

LEMMA InvInit == Init => Inv
<1> SUFFICES ASSUME Init
             PROVE  Inv
  OBVIOUS
<1> USE OpsAssumption
<1>1. DesktopTypes
  BY DEF Init, DesktopTypes, Statuses, Threads, Places
<1> <<>> \in Seq(DesktopFrames) /\ <<>> \in Seq(HelperFrames) /\ <<>> \in Seq(Ops)
      /\ <<>> \in Seq(Answers)
  OBVIOUS
<1>2. LinkTypes
  BY DEF Init, LinkTypes
<1>3. HelperTypes
  BY DEF Init, HelperTypes, Phases
<1>4. HistoryTypes
  BY DEF Init, HistoryTypes
<1>5. Workers
  BY DEF Init, Workers, Threads, Holding
<1>6. MainLoops
  BY DEF Init, MainLoops
<1> QED
  BY <1>1, <1>2, <1>3, <1>4, <1>5, <1>6 DEF Inv

(* What a step leaves alone.                                                *)
LEMMA DesktopUnchanged ==
  ASSUME Inv, UNCHANGED desktop
  PROVE  DesktopTypes' /\ Workers'
BY DEF Inv, DesktopTypes, Workers, desktop, rest, stopState, checkState, work, mutex

LEMMA LoopUnchanged ==
  ASSUME Inv, UNCHANGED <<reader, loop, flags>>
  PROVE  HelperTypes' /\ MainLoops'
BY DEF Inv, HelperTypes, MainLoops, reader, loop, flags

LEMMA LinkUnchanged ==
  ASSUME Inv, UNCHANGED link
  PROVE  LinkTypes'
BY DEF Inv, LinkTypes, link

LEMMA HistoryUnchanged ==
  ASSUME Inv, UNCHANGED history
  PROVE  HistoryTypes'
BY DEF Inv, HistoryTypes, history

(* What a step writes stays a sequence of frames.                           *)
LEMMA WriteTypes ==
  ASSUME Inv, NEW h, NEW f \in DesktopFrames, Write(h, f)
  PROVE  toHelper' \in [Helpers -> Seq(DesktopFrames)]
<1>1. toHelper \in [Helpers -> Seq(DesktopFrames)]
  BY DEF Inv, LinkTypes
<1>2. CASE process[h] = "up" /\ h \in Helpers
  <2>1. Append(toHelper[h], f) \in Seq(DesktopFrames)
    BY <1>1, <1>2
  <2> QED
    BY <1>1, <1>2, <2>1 DEF Write
<1>3. CASE ~(process[h] = "up" /\ h \in Helpers)
  BY <1>1, <1>3 DEF Write
<1> QED
  BY <1>2, <1>3

LEMMA EmitTypes ==
  ASSUME Inv, NEW h \in Helpers, NEW f \in HelperFrames, Emit(h, f)
  PROVE  /\ toDesktop' \in [Helpers -> Seq(HelperFrames)]
         /\ broken' \in [Helpers -> BOOLEAN]
         /\ cancel' \in [Ops -> BOOLEAN]
<1>1. /\ toDesktop \in [Helpers -> Seq(HelperFrames)]
      /\ broken \in [Helpers -> BOOLEAN]
      /\ cancel \in [Ops -> BOOLEAN]
  BY DEF Inv, LinkTypes, HelperTypes
<1>2. Append(toDesktop[h], f) \in Seq(HelperFrames)
  BY <1>1
<1> QED
  BY <1>1, <1>2 DEF Emit

LEMMA RequestStopTypes ==
  ASSUME Inv, RequestStop
  PROVE  /\ toHelper' \in [Helpers -> Seq(DesktopFrames)]
         /\ check' \in Statuses
         /\ check' \in {check, "stopping"}
         /\ check # "running" => check' = check
<1>1. CASE check # "running" \/ bgWriter = NoHelper
  BY <1>1 DEF RequestStop, Inv, LinkTypes, DesktopTypes, Statuses
<1>2. CASE check = "running" /\ bgWriter # NoHelper
  <2>1. Cancel(bgId) \in DesktopFrames
    BY <1>2, FramesAreFrames DEF Inv, Workers
  <2>2. Write(bgWriter, Cancel(bgId)) /\ check' = "stopping"
    BY <1>2 DEF RequestStop
  <2>3. toHelper' \in [Helpers -> Seq(DesktopFrames)]
    BY <2>1, <2>2, WriteTypes
  <2> QED
    BY <1>2, <2>2, <2>3 DEF Statuses
<1> QED
  BY <1>1, <1>2

LEMMA ReadTypes ==
  ASSUME Inv, NEW t \in Threads, Reading(t), ReadFrame
  PROVE  /\ session \in Helpers
         /\ NextFrame \in HelperFrames
         /\ toDesktop' \in [Helpers -> Seq(HelperFrames)]
<1>1. session \in Helpers
  BY DEF Inv, Workers, Reading, Holding
<1>2. toDesktop \in [Helpers -> Seq(HelperFrames)] /\ toDesktop[session] # <<>>
  BY DEF Inv, LinkTypes, Reading
<1>3. NextFrame \in HelperFrames /\ Tail(toDesktop[session]) \in Seq(HelperFrames)
  BY <1>1, <1>2 DEF NextFrame
<1> QED
  BY <1>1, <1>2, <1>3 DEF ReadFrame

-----------------------------------------------------------------------------
(* The window's commands.                                                   *)
LEMMA UserStep == Inv /\ User => Inv'
<1> SUFFICES ASSUME Inv, User
             PROVE  Inv'
  OBVIOUS
<1> USE OpsAssumption DEF Threads
<1>1. CASE Stop
  <2>1. DesktopTypes'
    BY <1>1 DEF Stop, Inv, DesktopTypes, rest, stopState, checkState, work, mutex
  <2>2. Workers'
    BY <1>1
       DEF Stop, Inv, DesktopTypes, Workers, rest, stopState, checkState, work, mutex
  <2>3. LinkTypes'
    <3>1. fgWriter # NoHelper => Cancel(fgId) \in DesktopFrames
      BY FramesAreFrames DEF Inv, Workers
    <3>2. toHelper' \in [Helpers -> Seq(DesktopFrames)]
      BY <1>1, <3>1, WriteTypes DEF Stop, Inv, LinkTypes
    <3> QED
      BY <1>1, <3>2 DEF Stop, Inv, LinkTypes
  <2>4. HelperTypes' /\ MainLoops'
    BY <1>1, LoopUnchanged DEF Stop, helper
  <2>5. HistoryTypes'
    BY <1>1 DEF Stop, Inv, HistoryTypes, DesktopTypes, HelperTypes, Workers, MainLoops
  <2> QED
    BY <2>1, <2>2, <2>3, <2>4, <2>5 DEF Inv
<1>2. CASE ReplaceCheck
  <2>1. DesktopTypes'
    BY <1>2
       DEF ReplaceCheck, RequestStop, Statuses, Inv, DesktopTypes, rest, stopState,
           checkState, work, mutex
  <2>2. Workers'
    BY <1>2
       DEF ReplaceCheck, RequestStop, Statuses, Inv, DesktopTypes, Workers, rest,
           stopState, checkState, work, mutex
  <2>3. LinkTypes'
    BY <1>2, RequestStopTypes DEF ReplaceCheck, Inv, LinkTypes
  <2>4. HelperTypes' /\ MainLoops'
    BY <1>2, LoopUnchanged DEF ReplaceCheck, helper
  <2>5. HistoryTypes'
    BY <1>2, HistoryUnchanged DEF ReplaceCheck
  <2> QED
    BY <2>1, <2>2, <2>3, <2>4, <2>5 DEF Inv
<1>3. CASE AskAdmin
  <2>1. DesktopTypes'
    BY <1>3
       DEF AskAdmin, Holding, Inv, DesktopTypes, rest, stopState, checkState, work,
           mutex
  <2>2. Workers'
    BY <1>3
       DEF AskAdmin, Holding, Inv, DesktopTypes, Workers, rest, stopState, checkState,
           work, mutex
  <2>3. LinkTypes'
    BY <1>3, LinkUnchanged DEF AskAdmin, link, helper
  <2>4. HelperTypes' /\ MainLoops'
    BY <1>3, LoopUnchanged DEF AskAdmin, helper
  <2>5. HistoryTypes'
    BY <1>3, HistoryUnchanged DEF AskAdmin
  <2> QED
    BY <2>1, <2>2, <2>3, <2>4, <2>5 DEF Inv
<1>4. CASE PlanChanged
  <2>1. DesktopTypes'
    BY <1>4
       DEF PlanChanged, Goto, Places, Inv, DesktopTypes, rest, stopState, checkState,
           work, mutex
  <2>2. Workers'
    BY <1>4
       DEF PlanChanged, Goto, Holding, Inv, DesktopTypes, Workers, rest, stopState,
           checkState, work, mutex
  <2>3. LinkTypes'
    BY <1>4, LinkUnchanged DEF PlanChanged, link, helper
  <2>4. HelperTypes' /\ MainLoops'
    BY <1>4, LoopUnchanged DEF PlanChanged, helper
  <2>5. HistoryTypes'
    BY <1>4, HistoryUnchanged DEF PlanChanged
  <2> QED
    BY <2>1, <2>2, <2>3, <2>4, <2>5 DEF Inv
<1>5. CASE Leave
  <2>1. DesktopTypes'
    BY <1>5
       DEF Leave, Holding, Places, Statuses, Inv, DesktopTypes, rest, stopState,
           checkState, work, mutex
  <2>2. Workers'
    BY <1>5
       DEF Leave, Holding, Places, Statuses, Inv, DesktopTypes, Workers, rest,
           stopState, checkState, work, mutex
  <2>3. LinkTypes'
    <3>1. toDesktop' \in [Helpers -> Seq(HelperFrames)]
      <4>1. <<>> \in Seq(HelperFrames)
        OBVIOUS
      <4> QED
        BY <1>5, <4>1 DEF Leave
    <3> QED
      BY <1>5, <3>1 DEF Leave, Inv, LinkTypes
  <2>4. HelperTypes' /\ MainLoops'
    BY <1>5, LoopUnchanged DEF Leave, helper
  <2>5. HistoryTypes'
    BY <1>5, HistoryUnchanged DEF Leave
  <2> QED
    BY <2>1, <2>2, <2>3, <2>4, <2>5 DEF Inv
<1>6. ASSUME NEW o \in Ops, Begin(o)
      PROVE  Inv'
  <2>1. DesktopTypes'
    BY <1>6
       DEF Begin, Holding, Places, Inv, DesktopTypes, rest, stopState, checkState, work,
           mutex
  <2>2. Workers'
    BY <1>6
       DEF Begin, Holding, Places, Inv, DesktopTypes, Workers, rest, stopState,
           checkState, work, mutex
  <2>3. LinkTypes'
    BY <1>6, LinkUnchanged DEF Begin, link, helper
  <2>4. HelperTypes' /\ MainLoops'
    BY <1>6, LoopUnchanged DEF Begin, helper
  <2>5. HistoryTypes'
    BY <1>6, HistoryUnchanged DEF Begin
  <2> QED
    BY <2>1, <2>2, <2>3, <2>4, <2>5 DEF Inv
<1>7. ASSUME NEW o \in Ops, BeginCheck(o)
      PROVE  Inv'
  <2>1. DesktopTypes'
    BY <1>7
       DEF BeginCheck, Holding, Places, Statuses, Inv, DesktopTypes, rest, stopState,
           checkState, work, mutex
  <2>2. Workers'
    BY <1>7
       DEF BeginCheck, Holding, Places, Statuses, Inv, DesktopTypes, Workers, rest,
           stopState, checkState, work, mutex
  <2>3. LinkTypes'
    BY <1>7, LinkUnchanged DEF BeginCheck, link, helper
  <2>4. HelperTypes' /\ MainLoops'
    BY <1>7, LoopUnchanged DEF BeginCheck, helper
  <2>5. HistoryTypes'
    BY <1>7, HistoryUnchanged DEF BeginCheck
  <2> QED
    BY <2>1, <2>2, <2>3, <2>4, <2>5 DEF Inv
<1> QED
  BY <1>1, <1>2, <1>3, <1>4, <1>5, <1>6, <1>7 DEF User

(* Answers of the user.                                                     *)
LEMMA ReplyStep == Inv /\ Reply => Inv'
<1> SUFFICES ASSUME Inv, Reply
             PROVE  Inv'
  OBVIOUS
<1> USE OpsAssumption DEF Threads
<1>1. CASE AdminAnswered
  <2>1. DesktopTypes'
    BY <1>1
       DEF AdminAnswered, Launched, Holding, Inv, DesktopTypes, rest, stopState,
           checkState, work, mutex
  <2>2. Workers'
    BY <1>1
       DEF AdminAnswered, Launched, Holding, Inv, DesktopTypes, Workers, rest,
           stopState, checkState, work, mutex
  <2>3. LinkTypes'
    BY <1>1
       DEF AdminAnswered, Launched, helper, link, Inv, DesktopTypes, LinkTypes, Workers
  <2>4. HelperTypes'
    BY <1>1
       DEF AdminAnswered, Launched, helper, Inv, HelperTypes, MainLoops, reader, loop,
           flags
  <2>5. MainLoops'
    BY <1>1
       DEF AdminAnswered, Launched, helper, Inv, HelperTypes, MainLoops, reader, loop,
           flags
  <2>6. HistoryTypes'
    BY <1>1, HistoryUnchanged DEF AdminAnswered
  <2> QED
    BY <2>1, <2>2, <2>3, <2>4, <2>5, <2>6 DEF Inv
<1>2. ASSUME NEW yes \in BOOLEAN, AnswerAsk(yes)
      PROVE  Inv'
  <2>1. DesktopTypes'
    BY <1>2
       DEF AnswerAsk, Goto, Holding, Places, Bindings, Inv, DesktopTypes, rest,
           stopState, checkState, work, mutex
  <2>2. Workers'
    BY <1>2
       DEF AnswerAsk, Goto, Holding, Places, Bindings, Inv, DesktopTypes, Workers, rest,
           stopState, checkState, work, mutex
  <2>3. LinkTypes'
    <3>1. op["fg"] \in Ops /\ asked \in Bindings
      BY <1>2 DEF AnswerAsk, Inv, Workers
    <3>2. Answer(op["fg"], asked, yes) \in DesktopFrames
      BY <3>1, FramesAreFrames
    <3>3. toHelper' \in [Helpers -> Seq(DesktopFrames)]
      BY <1>2, <3>2, WriteTypes DEF AnswerAsk
    <3> QED
      BY <1>2, <3>3 DEF AnswerAsk, Inv, LinkTypes
  <2>4. HelperTypes' /\ MainLoops'
    BY <1>2, LoopUnchanged DEF AnswerAsk, helper
  <2>5. HistoryTypes'
    BY <1>2
       DEF AnswerAsk, Inv, HistoryTypes, DesktopTypes, HelperTypes, Workers, MainLoops
  <2> QED
    BY <2>1, <2>2, <2>3, <2>4, <2>5 DEF Inv
<1> QED
  BY <1>1, <1>2 DEF Reply

(* The worker threads outside their exchange.                               *)
LEMMA WorkerStep == Inv /\ Aside => Inv'
<1> SUFFICES ASSUME Inv, Aside
             PROVE  Inv'
  OBVIOUS
<1> USE OpsAssumption DEF Threads
<1>1. CASE StopCheckFirst
  <2>1. DesktopTypes'
    BY <1>1, RequestStopTypes
       DEF StopCheckFirst, Goto, Places, Inv, DesktopTypes, rest, stopState, checkState,
           work, mutex
  <2>2. Workers'
    BY <1>1, RequestStopTypes
       DEF StopCheckFirst, Goto, Holding, Inv, DesktopTypes, Workers, rest, stopState,
           checkState, work, mutex
  <2>3. LinkTypes'
    BY <1>1, RequestStopTypes DEF StopCheckFirst, Inv, LinkTypes
  <2>4. HelperTypes' /\ MainLoops'
    BY <1>1, LoopUnchanged DEF StopCheckFirst, helper
  <2>5. HistoryTypes'
    BY <1>1, HistoryUnchanged DEF StopCheckFirst
  <2> QED
    BY <2>1, <2>2, <2>3, <2>4, <2>5 DEF Inv
<1>2. CASE Acquire
  <2>1. DesktopTypes'
    BY <1>2
       DEF Acquire, Goto, Places, Holding, Inv, DesktopTypes, rest, stopState,
           checkState, work, mutex
  <2>2. Workers'
    BY <1>2
       DEF Acquire, Goto, Places, Holding, Inv, DesktopTypes, Workers, rest, stopState,
           checkState, work, mutex
  <2>3. LinkTypes'
    BY <1>2, LinkUnchanged DEF Acquire, link, helper
  <2>4. HelperTypes' /\ MainLoops'
    BY <1>2, LoopUnchanged DEF Acquire, helper
  <2>5. HistoryTypes'
    BY <1>2, HistoryUnchanged DEF Acquire
  <2> QED
    BY <2>1, <2>2, <2>3, <2>4, <2>5 DEF Inv
<1>3. CASE Launch
  <2>1. DesktopTypes'
    BY <1>3
       DEF Launch, Launched, Goto, Places, Holding, Inv, DesktopTypes, rest, stopState,
           checkState, work, mutex
  <2>2. Workers'
    BY <1>3
       DEF Launch, Launched, Goto, Places, Holding, Inv, DesktopTypes, Workers, rest,
           stopState, checkState, work, mutex
  <2>3. LinkTypes'
    BY <1>3 DEF Launch, Launched, helper, link, Inv, DesktopTypes, LinkTypes, Workers
  <2>4. HelperTypes'
    BY <1>3
       DEF Launch, Launched, helper, Inv, HelperTypes, MainLoops, reader, loop, flags
  <2>5. MainLoops'
    BY <1>3
       DEF Launch, Launched, helper, Inv, HelperTypes, MainLoops, reader, loop, flags
  <2>6. HistoryTypes'
    BY <1>3, HistoryUnchanged DEF Launch
  <2> QED
    BY <2>1, <2>2, <2>3, <2>4, <2>5, <2>6 DEF Inv
<1>4. CASE TrySession
  <2>1. DesktopTypes'
    BY <1>4
       DEF TrySession, Goto, Places, Holding, Inv, DesktopTypes, rest, stopState,
           checkState, work, mutex
  <2>2. Workers'
    BY <1>4
       DEF TrySession, Goto, Places, Holding, Inv, DesktopTypes, Workers, rest,
           stopState, checkState, work, mutex
  <2>3. LinkTypes'
    BY <1>4, LinkUnchanged DEF TrySession, link, helper
  <2>4. HelperTypes' /\ MainLoops'
    BY <1>4, LoopUnchanged DEF TrySession, helper
  <2>5. HistoryTypes'
    BY <1>4, HistoryUnchanged DEF TrySession
  <2> QED
    BY <2>1, <2>2, <2>3, <2>4, <2>5 DEF Inv
<1>5. CASE Blocked
  <2>1. DesktopTypes'
    <3>1. /\ pc' \in [Threads -> Places]
          /\ op' \in [Threads -> Ops \cup {NoOp}]
          /\ check' \in Statuses
      BY <1>5 DEF Blocked, Goto, Places, Statuses, Inv, DesktopTypes
    <3>2. UNCHANGED <<rest, stopState, bgWriter, bgId, asked, outcome, mutex>>
      BY <1>5 DEF Blocked
    <3> QED
      BY <3>1, <3>2 DEF Inv, DesktopTypes, rest, stopState, mutex
  <2>2. Workers'
    BY <1>5
       DEF Blocked, Goto, Places, Holding, Statuses, Inv, DesktopTypes, Workers, rest,
           stopState, checkState, work, mutex
  <2>3. LinkTypes'
    BY <1>5, LinkUnchanged DEF Blocked, link, helper
  <2>4. HelperTypes' /\ MainLoops'
    BY <1>5, LoopUnchanged DEF Blocked, helper
  <2>5. HistoryTypes'
    BY <1>5, HistoryUnchanged DEF Blocked
  <2> QED
    BY <2>1, <2>2, <2>3, <2>4, <2>5 DEF Inv
<1>6. CASE Finish
  <2>1. DesktopTypes'
    BY <1>6
       DEF Finish, Goto, Places, Holding, Inv, DesktopTypes, rest, stopState,
           checkState, work, mutex
  <2>2. Workers'
    BY <1>6
       DEF Finish, Goto, Places, Holding, Inv, DesktopTypes, Workers, rest, stopState,
           checkState, work, mutex
  <2>3. LinkTypes'
    BY <1>6, LinkUnchanged DEF Finish, link, helper
  <2>4. HelperTypes' /\ MainLoops'
    BY <1>6, LoopUnchanged DEF Finish, helper
  <2>5. HistoryTypes'
    BY <1>6, HistoryUnchanged DEF Finish
  <2> QED
    BY <2>1, <2>2, <2>3, <2>4, <2>5 DEF Inv
<1>7. CASE FinishCheck
  <2>1. DesktopTypes'
    BY <1>7
       DEF FinishCheck, Goto, Places, Holding, Statuses, Inv, DesktopTypes, rest,
           stopState, checkState, work, mutex
  <2>2. Workers'
    BY <1>7
       DEF FinishCheck, Goto, Places, Holding, Statuses, Inv, DesktopTypes, Workers,
           rest, stopState, checkState, work, mutex
  <2>3. LinkTypes'
    BY <1>7, LinkUnchanged DEF FinishCheck, link, helper
  <2>4. HelperTypes' /\ MainLoops'
    BY <1>7, LoopUnchanged DEF FinishCheck, helper
  <2>5. HistoryTypes'
    BY <1>7, HistoryUnchanged DEF FinishCheck
  <2> QED
    BY <2>1, <2>2, <2>3, <2>4, <2>5 DEF Inv
<1> QED
  BY <1>1, <1>2, <1>3, <1>4, <1>5, <1>6, <1>7 DEF Aside

(* An exchange with the helper.                                             *)
LEMMA ExchangeStep == Inv /\ (\E t \in Threads : Exchange(t)) => Inv'
<1> SUFFICES ASSUME Inv, (\E t \in Threads : Exchange(t))
             PROVE  Inv'
  OBVIOUS
<1> USE OpsAssumption DEF Threads
<1>1. ASSUME NEW t \in Threads, Send(t)
      PROVE  Inv'
  <2>1. DesktopTypes'
    BY <1>1
       DEF Send, Goto, Places, Holding, Inv, DesktopTypes, rest, stopState, checkState,
           work, mutex
  <2>2. Workers'
    BY <1>1
       DEF Send, Goto, Places, Holding, Inv, DesktopTypes, Workers, rest, stopState,
           checkState, work, mutex
  <2>3. LinkTypes'
    <3>1. Request(op[t]) \in DesktopFrames
      BY <1>1, FramesAreFrames DEF Send, Inv, Workers
    <3>2. toHelper' \in [Helpers -> Seq(DesktopFrames)]
      BY <1>1, <3>1, WriteTypes DEF Send
    <3> QED
      BY <1>1, <3>2 DEF Send, Inv, LinkTypes
  <2>4. HelperTypes' /\ MainLoops'
    BY <1>1, LoopUnchanged DEF Send, helper
  <2>5. HistoryTypes'
    BY <1>1, HistoryUnchanged DEF Send
  <2> QED
    BY <2>1, <2>2, <2>3, <2>4, <2>5 DEF Inv
<1>2. ASSUME NEW t \in Threads, Register(t)
      PROVE  Inv'
  <2>1. DesktopTypes'
    BY <1>2
       DEF Register, Goto, Places, Holding, Inv, DesktopTypes, rest, stopState,
           checkState, work, mutex
  <2>2. Workers'
    BY <1>2
       DEF Register, Goto, Places, Holding, Inv, DesktopTypes, Workers, rest, stopState,
           checkState, work, mutex
  <2>3. LinkTypes'
    <3>1. Cancel(op[t]) \in DesktopFrames
      BY <1>2, FramesAreFrames DEF Register, Inv, Workers
    <3>2. toHelper' = toHelper \/ Write(session, Cancel(op[t]))
      BY <1>2 DEF Register
    <3>3. toHelper' \in [Helpers -> Seq(DesktopFrames)]
      BY <3>1, <3>2, WriteTypes DEF Inv, LinkTypes
    <3> QED
      BY <1>2, <3>3 DEF Register, Inv, LinkTypes
  <2>4. HelperTypes' /\ MainLoops'
    BY <1>2, LoopUnchanged DEF Register, helper
  <2>5. HistoryTypes'
    BY <1>2, HistoryUnchanged DEF Register
  <2> QED
    BY <2>1, <2>2, <2>3, <2>4, <2>5 DEF Inv
<1>3. ASSUME NEW t \in Threads, ReadEvent(t)
      PROVE  Inv'
  <2>1. DesktopTypes'
    BY <1>3, ReadTypes, HelperFrameFields
       DEF ReadEvent, Inv, DesktopTypes, rest, stopState, checkState, work, mutex
  <2>2. Workers'
    BY <1>3
       DEF ReadEvent, Reading, ReadFrame, NextFrame, Goto, Places, Holding, Inv,
           DesktopTypes, Workers, rest, stopState, checkState, work, mutex
  <2>3. LinkTypes'
    BY <1>3, ReadTypes DEF ReadEvent, Inv, LinkTypes
  <2>4. HelperTypes' /\ MainLoops'
    BY <1>3, LoopUnchanged DEF ReadEvent, helper
  <2>5. HistoryTypes'
    BY <1>3, HistoryUnchanged DEF ReadEvent
  <2> QED
    BY <2>1, <2>2, <2>3, <2>4, <2>5 DEF Inv
<1>4. ASSUME NEW t \in Threads, ReadAsk(t)
      PROVE  Inv'
  <2>1. DesktopTypes'
    <3>1. NextFrame.binding \in Bindings
      BY <1>4, ReadTypes, HelperFrameFields DEF ReadAsk
    <3>2. available' \in BOOLEAN
      BY <1>4 DEF ReadAsk, Inv, DesktopTypes
    <3>3. /\ pc' \in [Threads -> Places]
          /\ outcome' \in [Threads -> {"none", "ok", "error"}]
          /\ asked' \in Bindings \cup {"none"}
      <4>1. /\ pc \in [Threads -> Places] /\ asked \in Bindings \cup {"none"}
            /\ outcome \in [Threads -> {"none", "ok", "error"}]
        BY DEF Inv, DesktopTypes
      <4>2. CASE t = "fg"
        <5>1. Goto("fg", "ask") /\ asked' = NextFrame.binding /\ UNCHANGED outcome
          BY <1>4, <4>2 DEF ReadAsk
        <5> QED
          BY <3>1, <4>1, <5>1 DEF Goto, Places
      <4>3. CASE t = "bg"
        <5>1. /\ UNCHANGED asked
              /\ \/ UNCHANGED <<pc, outcome>>
                 \/ Goto("bg", "drop") /\ outcome' = [outcome EXCEPT !["bg"] = "error"]
          BY <1>4, <4>3 DEF ReadAsk
        <5> QED
          BY <4>1, <5>1 DEF Goto, Places
      <4> QED
        BY <4>2, <4>3 DEF Threads
    <3>4. UNCHANGED <<rest, stopped, fgWriter, fgId, checkState, op, mutex>>
      BY <1>4 DEF ReadAsk
    <3> QED
      BY <3>2, <3>3, <3>4 DEF Inv, DesktopTypes, rest, checkState, mutex
  <2>2. Workers'
    <3>1. NextFrame.binding \in Bindings /\ session \in Helpers
      BY <1>4, ReadTypes, HelperFrameFields DEF ReadAsk
    <3> QED
      BY <1>4, <3>1
         DEF ReadAsk, Reading, Goto, Holding, Inv, DesktopTypes, Workers, rest,
             stopState, checkState, work, mutex
  <2>3. LinkTypes'
    <3>1. NextFrame.binding \in Bindings /\ toDesktop' \in [Helpers -> Seq(HelperFrames)]
      BY <1>4, ReadTypes, HelperFrameFields DEF ReadAsk
    <3>2. t = "bg" => Answer(op["bg"], NextFrame.binding, FALSE) \in DesktopFrames
      BY <1>4, <3>1, FramesAreFrames DEF ReadAsk, Reading, Inv, Workers
    <3>3. toHelper' \in [Helpers -> Seq(DesktopFrames)]
      BY <1>4, <3>2, WriteTypes DEF ReadAsk, Inv, LinkTypes
    <3> QED
      BY <1>4, <3>1, <3>3 DEF ReadAsk, Inv, LinkTypes
  <2>4. HelperTypes' /\ MainLoops'
    BY <1>4, LoopUnchanged DEF ReadAsk, helper
  <2>5. HistoryTypes'
    BY <1>4, HistoryUnchanged DEF ReadAsk
  <2> QED
    BY <2>1, <2>2, <2>3, <2>4, <2>5 DEF Inv
<1>5. ASSUME NEW t \in Threads, ReadEnd(t)
      PROVE  Inv'
  <2>1. DesktopTypes'
    <3>1. NextFrame.result \in {"ok", "error"}
      BY <1>5, ReadTypes, HelperFrameFields DEF ReadEnd
    <3> QED
      BY <1>5, <3>1
         DEF ReadEnd, Goto, Places, Inv, DesktopTypes, rest, stopState, checkState,
             work, mutex
  <2>2. Workers'
    BY <1>5
       DEF ReadEnd, Reading, ReadFrame, NextFrame, Goto, Places, Holding, Inv,
           DesktopTypes, Workers, rest, stopState, checkState, work, mutex
  <2>3. LinkTypes'
    BY <1>5, ReadTypes DEF ReadEnd, Inv, LinkTypes
  <2>4. HelperTypes' /\ MainLoops'
    BY <1>5, LoopUnchanged DEF ReadEnd, helper
  <2>5. HistoryTypes'
    BY <1>5, HistoryUnchanged DEF ReadEnd
  <2> QED
    BY <2>1, <2>2, <2>3, <2>4, <2>5 DEF Inv
<1>6. ASSUME NEW t \in Threads, ReadClosed(t)
      PROVE  Inv'
  <2>1. DesktopTypes'
    BY <1>6
       DEF ReadClosed, Goto, Places, Holding, Inv, DesktopTypes, rest, stopState,
           checkState, work, mutex
  <2>2. Workers'
    BY <1>6
       DEF ReadClosed, Goto, Places, Holding, Inv, DesktopTypes, Workers, rest,
           stopState, checkState, work, mutex
  <2>3. LinkTypes'
    BY <1>6, LinkUnchanged DEF ReadClosed, link, helper
  <2>4. HelperTypes' /\ MainLoops'
    BY <1>6, LoopUnchanged DEF ReadClosed, helper
  <2>5. HistoryTypes'
    BY <1>6, HistoryUnchanged DEF ReadClosed
  <2> QED
    BY <2>1, <2>2, <2>3, <2>4, <2>5 DEF Inv
<1>7. ASSUME NEW t \in Threads, Release(t)
      PROVE  Inv'
  <2>1. DesktopTypes'
    BY <1>7
       DEF Release, Goto, Places, Holding, Inv, DesktopTypes, rest, stopState,
           checkState, work, mutex
  <2>2. Workers'
    BY <1>7
       DEF Release, Goto, Places, Holding, Inv, DesktopTypes, Workers, rest, stopState,
           checkState, work, mutex
  <2>3. LinkTypes'
    <3>1. <<>> \in Seq(HelperFrames)
      OBVIOUS
    <3> QED
      BY <1>7, <3>1 DEF Release, Inv, LinkTypes
  <2>4. HelperTypes' /\ MainLoops'
    BY <1>7, LoopUnchanged DEF Release, helper
  <2>5. HistoryTypes'
    BY <1>7, HistoryUnchanged DEF Release
  <2> QED
    BY <2>1, <2>2, <2>3, <2>4, <2>5 DEF Inv
<1> QED
  BY <1>1, <1>2, <1>3, <1>4, <1>5, <1>6, <1>7 DEF Exchange

(* The helper's reader thread, its death and its watcher.                   *)
LEMMA ReaderStep == Inv /\ (\E h \in Helpers : Reader(h) \/ Die(h) \/ Noticed(h)) => Inv'
<1> SUFFICES ASSUME Inv, (\E h \in Helpers : Reader(h) \/ Die(h) \/ Noticed(h))
             PROVE  Inv'
  OBVIOUS
<1> USE OpsAssumption DEF Threads
<1>1. ASSUME NEW h \in Helpers, Accept(h)
      PROVE  Inv'
  <2>1. DesktopTypes' /\ Workers'
    BY <1>1, DesktopUnchanged DEF Accept
  <2>2. LinkTypes'
    BY <1>1 DEF Accept, Inv, DesktopTypes, LinkTypes, Workers
  <2>3. HelperTypes'
    <3> DEFINE f == Head(toHelper[h])
    <3>1. f \in DesktopFrames
      BY <1>1 DEF Accept, Inv, LinkTypes
    <3>2. f.op \in Ops /\ (f.type = "answer" => [binding |-> f.binding, yes |-> f.yes] \in Answers)
      BY <3>1, DesktopFrameFields DEF Answers
    <3> HIDE DEF f
    <3>3. /\ Append(incoming[h], f.op) \in Seq(Ops)
          /\ f.type = "answer" =>
               Append(answers[f.op], [binding |-> f.binding, yes |-> f.yes]) \in Seq(Answers)
      BY <3>2 DEF Inv, HelperTypes
    <3>4. CASE f.type = "request"
      <4>1. \/ /\ running' = [running EXCEPT ![h] = f.op]
               /\ incoming' = [incoming EXCEPT ![h] = Append(incoming[h], f.op)]
               /\ UNCHANGED <<reading, flags>>
            \/ StopReading(h) /\ UNCHANGED <<running, incoming, answers>>
        BY <1>1, <3>4 DEF Accept, f
      <4>2. UNCHANGED loop
        BY <1>1 DEF Accept
      <4>3. CASE StopReading(h) /\ UNCHANGED <<running, incoming, answers>>
        <5>1. reading' \in [Helpers -> BOOLEAN] /\ cancel' \in [Ops -> BOOLEAN]
          BY <4>3 DEF StopReading, Inv, HelperTypes
        <5> QED
          BY <4>2, <4>3, <5>1 DEF Inv, HelperTypes, loop
      <4>4. CASE /\ running' = [running EXCEPT ![h] = f.op]
                 /\ incoming' = [incoming EXCEPT ![h] = Append(incoming[h], f.op)]
                 /\ UNCHANGED <<reading, flags>>
        <5>1. running' \in [Helpers -> Ops \cup {NoOp}] /\ incoming' \in [Helpers -> Seq(Ops)]
          BY <3>2, <3>3, <4>4 DEF Inv, HelperTypes
        <5> QED
          BY <4>2, <4>4, <5>1 DEF Inv, HelperTypes, loop, flags
      <4> QED
        BY <4>1, <4>3, <4>4
    <3>5. CASE f.type = "cancel"
      BY <1>1, <3>2, <3>5 DEF Accept, f, Inv, HelperTypes, reader, loop, flags
    <3>6. CASE f.type = "answer"
      BY <1>1, <3>2, <3>3, <3>6 DEF Accept, f, Inv, HelperTypes, reader, loop, flags
    <3> QED
      BY <3>1, <3>4, <3>5, <3>6, DesktopFrameFields
  <2>4. MainLoops'
    BY <1>1 DEF Accept, StopReading, Inv, HelperTypes, MainLoops, reader, loop, flags
  <2>5. HistoryTypes'
    BY <1>1, HistoryUnchanged DEF Accept
  <2> QED
    BY <2>1, <2>2, <2>3, <2>4, <2>5 DEF Inv
<1>2. ASSUME NEW h \in Helpers, Disconnected(h)
      PROVE  Inv'
  <2>1. DesktopTypes' /\ Workers'
    BY <1>2, DesktopUnchanged DEF Disconnected
  <2>2. LinkTypes'
    BY <1>2, LinkUnchanged DEF Disconnected, link, helper
  <2>3. HelperTypes'
    BY <1>2
       DEF Disconnected, StopReading, Inv, HelperTypes, MainLoops, reader, loop, flags
  <2>4. MainLoops'
    BY <1>2
       DEF Disconnected, StopReading, Inv, HelperTypes, MainLoops, reader, loop, flags
  <2>5. HistoryTypes'
    BY <1>2, HistoryUnchanged DEF Disconnected
  <2> QED
    BY <2>1, <2>2, <2>3, <2>4, <2>5 DEF Inv
<1>3. ASSUME NEW h \in Helpers, Die(h)
      PROVE  Inv'
  <2>1. DesktopTypes' /\ Workers'
    BY <1>3, DesktopUnchanged DEF Die, Exited
  <2>2. LinkTypes'
    BY <1>3 DEF Die, Exited, Inv, DesktopTypes, LinkTypes, Workers
  <2>3. HelperTypes'
    BY <1>3 DEF Die, Exited, Phases, Inv, HelperTypes, MainLoops, reader, loop, flags
  <2>4. MainLoops'
    BY <1>3 DEF Die, Exited, Phases, Inv, HelperTypes, MainLoops, reader, loop, flags
  <2>5. HistoryTypes'
    BY <1>3, HistoryUnchanged DEF Die, Exited
  <2> QED
    BY <2>1, <2>2, <2>3, <2>4, <2>5 DEF Inv
<1>4. ASSUME NEW h \in Helpers, Noticed(h)
      PROVE  Inv'
  <2>1. DesktopTypes' /\ Workers'
    BY <1>4, DesktopUnchanged DEF Noticed
  <2>2. LinkTypes'
    BY <1>4 DEF Noticed, Inv, DesktopTypes, LinkTypes, Workers
  <2>3. HelperTypes' /\ MainLoops'
    BY <1>4, LoopUnchanged DEF Noticed, helper
  <2>4. HistoryTypes'
    BY <1>4, HistoryUnchanged DEF Noticed
  <2> QED
    BY <2>1, <2>2, <2>3, <2>4 DEF Inv
<1> QED
  BY <1>1, <1>2, <1>3, <1>4 DEF Reader

(* The helper's main loop.                                                  *)
LEMMA MainLoopStep == Inv /\ (\E h \in Helpers : MainLoop(h)) => Inv'
<1> SUFFICES ASSUME Inv, (\E h \in Helpers : MainLoop(h))
             PROVE  Inv'
  OBVIOUS
<1> USE OpsAssumption DEF Threads
<1>1. ASSUME NEW h \in Helpers, Take(h)
      PROVE  Inv'
  <2>1. DesktopTypes' /\ Workers'
    BY <1>1, DesktopUnchanged DEF Take
  <2>2. LinkTypes'
    BY <1>1, LinkUnchanged DEF Take, link, helper
  <2>3. HelperTypes'
    BY <1>1
       DEF Take, At, Step, Ends, Emit, Serving, Phases, Bindings, Inv, HelperTypes,
           MainLoops, reader, loop, flags
  <2>4. MainLoops'
    BY <1>1
       DEF Take, At, Step, Ends, Emit, Serving, Phases, Bindings, Inv, HelperTypes,
           MainLoops, reader, loop, flags
  <2>5. HistoryTypes'
    BY <1>1, HistoryUnchanged DEF Take
  <2> QED
    BY <2>1, <2>2, <2>3, <2>4, <2>5 DEF Inv
<1>2. ASSUME NEW h \in Helpers, Progress(h)
      PROVE  Inv'
  <2>1. DesktopTypes' /\ Workers'
    BY <1>2, DesktopUnchanged DEF Progress
  <2>2. LinkTypes'
    <3>1. PICK a \in BOOLEAN : Emit(h, Event(serving[h], a))
      BY <1>2 DEF Progress
    <3>2. Event(serving[h], a) \in HelperFrames
      BY <1>2, FramesAreFrames DEF Progress, Inv, MainLoops
    <3> QED
      BY <1>2, <3>1, <3>2, EmitTypes DEF Progress, Inv, LinkTypes
  <2>3. HelperTypes'
    <3>1. PICK a \in BOOLEAN : Emit(h, Event(serving[h], a))
      BY <1>2 DEF Progress
    <3>2. Event(serving[h], a) \in HelperFrames
      BY <1>2, FramesAreFrames DEF Progress, Inv, MainLoops
    <3> QED
      BY <1>2, <3>1, <3>2, EmitTypes DEF Progress, Inv, HelperTypes, reader
  <2>4. MainLoops'
    BY <1>2
       DEF Progress, At, Step, Ends, Emit, Serving, Phases, Bindings, Inv, HelperTypes,
           MainLoops, reader, loop, flags
  <2>5. HistoryTypes'
    BY <1>2, HistoryUnchanged DEF Progress
  <2> QED
    BY <2>1, <2>2, <2>3, <2>4, <2>5 DEF Inv
<1>3. ASSUME NEW h \in Helpers, Prepare(h)
      PROVE  Inv'
  <2>1. DesktopTypes' /\ Workers'
    BY <1>3, DesktopUnchanged DEF Prepare
  <2>2. LinkTypes'
    <3>1. Ask(serving[h], "plan") \in HelperFrames
      BY <1>3, FramesAreFrames DEF Prepare, At, Inv, MainLoops, Bindings
    <3>2. toDesktop' \in [Helpers -> Seq(HelperFrames)]
      BY <1>3, <3>1, EmitTypes DEF Prepare, Inv, LinkTypes
    <3> QED
      BY <1>3, <3>2 DEF Prepare, Inv, LinkTypes
  <2>3. HelperTypes'
    <3>1. Ask(serving[h], "plan") \in HelperFrames
      BY <1>3, FramesAreFrames DEF Prepare, At, Inv, MainLoops, Bindings
    <3>2. broken' \in [Helpers -> BOOLEAN] /\ cancel' \in [Ops -> BOOLEAN]
      BY <1>3, <3>1, EmitTypes DEF Prepare, Inv, HelperTypes
    <3> QED
      BY <1>3, <3>2 DEF Prepare, Step, Ends, Phases, Bindings, Inv, HelperTypes, reader
  <2>4. MainLoops'
    BY <1>3
       DEF Prepare, At, Step, Ends, Emit, Serving, Phases, Bindings, Inv, HelperTypes,
           MainLoops, reader, loop, flags
  <2>5. HistoryTypes'
    BY <1>3, HistoryUnchanged DEF Prepare
  <2> QED
    BY <2>1, <2>2, <2>3, <2>4, <2>5 DEF Inv
<1>4. ASSUME NEW h \in Helpers, Answered(h)
      PROVE  Inv'
  <2>1. DesktopTypes' /\ Workers'
    BY <1>4, DesktopUnchanged DEF Answered
  <2>2. LinkTypes'
    BY <1>4, LinkUnchanged DEF Answered, link, helper
  <2>3. HelperTypes'
    <3>1. serving[h] \in Ops
      BY <1>4 DEF Answered, Bindings, Inv, MainLoops
    <3>2. Tail(answers[serving[h]]) \in Seq(Answers)
      BY <1>4, <3>1 DEF Answered, Inv, HelperTypes
    <3>3. answers' \in [Ops -> Seq(Answers)]
      BY <1>4, <3>1, <3>2 DEF Answered, Inv, HelperTypes
    <3> QED
      BY <1>4, <3>3 DEF Answered, Step, Ends, Phases, Inv, HelperTypes, reader
  <2>4. MainLoops'
    BY <1>4
       DEF Answered, At, Step, Ends, Emit, Serving, Phases, Bindings, Inv, HelperTypes,
           MainLoops, reader, loop, flags
  <2>5. HistoryTypes'
    BY <1>4, HistoryUnchanged DEF Answered
  <2> QED
    BY <2>1, <2>2, <2>3, <2>4, <2>5 DEF Inv
<1>5. ASSUME NEW h \in Helpers, Unanswered(h)
      PROVE  Inv'
  <2>1. DesktopTypes' /\ Workers'
    BY <1>5, DesktopUnchanged DEF Unanswered
  <2>2. LinkTypes'
    BY <1>5, LinkUnchanged DEF Unanswered, link, helper
  <2>3. HelperTypes'
    BY <1>5
       DEF Unanswered, At, Step, Ends, Emit, Serving, Phases, Bindings, Inv,
           HelperTypes, MainLoops, reader, loop, flags
  <2>4. MainLoops'
    BY <1>5
       DEF Unanswered, At, Step, Ends, Emit, Serving, Phases, Bindings, Inv,
           HelperTypes, MainLoops, reader, loop, flags
  <2>5. HistoryTypes'
    BY <1>5, HistoryUnchanged DEF Unanswered
  <2> QED
    BY <2>1, <2>2, <2>3, <2>4, <2>5 DEF Inv
<1>6. ASSUME NEW h \in Helpers, Apply(h)
      PROVE  Inv'
  <2>1. DesktopTypes' /\ Workers'
    BY <1>6, DesktopUnchanged DEF Apply
  <2>2. LinkTypes'
    BY <1>6, LinkUnchanged DEF Apply, link, helper
  <2>3. HelperTypes'
    BY <1>6
       DEF Apply, At, Step, Ends, Emit, Serving, Phases, Bindings, Inv, HelperTypes,
           MainLoops, reader, loop, flags
  <2>4. MainLoops'
    BY <1>6
       DEF Apply, At, Step, Ends, Emit, Serving, Phases, Bindings, Inv, HelperTypes,
           MainLoops, reader, loop, flags
  <2>5. HistoryTypes'
    <3>1. serving[h] \in Ops
      BY <1>6 DEF Apply, At, Inv, MainLoops
    <3> QED
      BY <1>6, <3>1 DEF Apply, Inv, HistoryTypes
  <2> QED
    BY <2>1, <2>2, <2>3, <2>4, <2>5 DEF Inv
<1>7. ASSUME NEW h \in Helpers, Applied(h)
      PROVE  Inv'
  <2>1. DesktopTypes' /\ Workers'
    BY <1>7, DesktopUnchanged DEF Applied
  <2>2. LinkTypes'
    <3>1. Ask(serving[h], "records") \in HelperFrames
      BY <1>7, FramesAreFrames DEF Applied, At, Inv, MainLoops, Bindings
    <3>2. toDesktop' \in [Helpers -> Seq(HelperFrames)]
      BY <1>7, <3>1, EmitTypes DEF Applied, Inv, LinkTypes
    <3> QED
      BY <1>7, <3>2 DEF Applied, Inv, LinkTypes
  <2>3. HelperTypes'
    <3>1. Ask(serving[h], "records") \in HelperFrames
      BY <1>7, FramesAreFrames DEF Applied, At, Inv, MainLoops, Bindings
    <3>2. broken' \in [Helpers -> BOOLEAN] /\ cancel' \in [Ops -> BOOLEAN]
      BY <1>7, <3>1, EmitTypes DEF Applied, Inv, HelperTypes
    <3> QED
      BY <1>7, <3>2 DEF Applied, Step, Ends, Phases, Bindings, Inv, HelperTypes, reader
  <2>4. MainLoops'
    BY <1>7
       DEF Applied, At, Step, Ends, Emit, Serving, Phases, Bindings, Inv, HelperTypes,
           MainLoops, reader, loop, flags
  <2>5. HistoryTypes'
    BY <1>7, HistoryUnchanged DEF Applied
  <2> QED
    BY <2>1, <2>2, <2>3, <2>4, <2>5 DEF Inv
<1>8. ASSUME NEW h \in Helpers, Clear(h)
      PROVE  Inv'
  <2>1. DesktopTypes' /\ Workers'
    BY <1>8, DesktopUnchanged DEF Clear
  <2>2. LinkTypes'
    BY <1>8, LinkUnchanged DEF Clear, link, helper
  <2>3. HelperTypes'
    <3>1. <<>> \in Seq(Answers)
      OBVIOUS
    <3> QED
      BY <1>8, <3>1 DEF Clear, At, Step, Phases, Inv, HelperTypes
  <2>4. MainLoops'
    BY <1>8
       DEF Clear, At, Step, Ends, Emit, Serving, Phases, Bindings, Inv, HelperTypes,
           MainLoops, reader, loop, flags
  <2>5. HistoryTypes'
    BY <1>8, HistoryUnchanged DEF Clear
  <2> QED
    BY <2>1, <2>2, <2>3, <2>4, <2>5 DEF Inv
<1>9. ASSUME NEW h \in Helpers, Report(h)
      PROVE  Inv'
  <2>1. DesktopTypes' /\ Workers'
    BY <1>9, DesktopUnchanged DEF Report
  <2>2. LinkTypes'
    <3>1. End(serving[h], done[h]) \in HelperFrames
      BY <1>9, FramesAreFrames DEF Report, At, Inv, MainLoops
    <3> QED
      BY <1>9, <3>1, EmitTypes DEF Report, Inv, LinkTypes
  <2>3. HelperTypes'
    <3>1. End(serving[h], done[h]) \in HelperFrames
      BY <1>9, FramesAreFrames DEF Report, At, Inv, MainLoops
    <3>2. broken' \in [Helpers -> BOOLEAN] /\ cancel' \in [Ops -> BOOLEAN]
      BY <1>9, <3>1, EmitTypes DEF Report
    <3> QED
      BY <1>9, <3>2 DEF Report, Step, Phases, Inv, HelperTypes, reader
  <2>4. MainLoops'
    BY <1>9
       DEF Report, At, Step, Ends, Emit, Serving, Phases, Bindings, Inv, HelperTypes,
           MainLoops, reader, loop, flags
  <2>5. HistoryTypes'
    BY <1>9, HistoryUnchanged DEF Report
  <2> QED
    BY <2>1, <2>2, <2>3, <2>4, <2>5 DEF Inv
<1>10. ASSUME NEW h \in Helpers, Exit(h)
      PROVE  Inv'
  <2>1. DesktopTypes' /\ Workers'
    BY <1>10, DesktopUnchanged DEF Exit, Exited
  <2>2. LinkTypes'
    BY <1>10 DEF Exit, Exited, At, Serving, Inv, DesktopTypes, LinkTypes, Workers
  <2>3. HelperTypes'
    BY <1>10 DEF Exit, Exited, Phases, Inv, HelperTypes, MainLoops, reader, loop, flags
  <2>4. MainLoops'
    BY <1>10 DEF Exit, Exited, Phases, Inv, HelperTypes, MainLoops, reader, loop, flags
  <2>5. HistoryTypes'
    BY <1>10, HistoryUnchanged DEF Exit, Exited
  <2> QED
    BY <2>1, <2>2, <2>3, <2>4, <2>5 DEF Inv
<1> QED
  BY <1>1, <1>2, <1>3, <1>4, <1>5, <1>6, <1>7, <1>8, <1>9, <1>10 DEF MainLoop

LEMMA InvNext == Inv /\ [Next]_vars => Inv'
<1> SUFFICES ASSUME Inv, [Next]_vars
             PROVE  Inv'
  OBVIOUS
<1>1. CASE Next
  BY <1>1, UserStep, ReplyStep, WorkerStep, ExchangeStep, ReaderStep, MainLoopStep
     DEF Next, Worker
<1>2. CASE UNCHANGED vars
  BY <1>2, DesktopUnchanged, LinkUnchanged, LoopUnchanged, HistoryUnchanged
     DEF vars, helper, Inv
<1> QED
  BY <1>1, <1>2

(* Every reachable state is well typed.                                     *)
THEOREM SessionTypes == Spec => []TypeOK
<1> QED
  BY InvInit, InvNext, InvGivesProperties, PTL DEF Spec

(* No worker outlives the status that stops a second one from starting, and *)
(* whoever exchanges frames with a helper holds the session.                *)
THEOREM SessionHasOneWorker == Spec => []OneWorker
<1> QED
  BY InvInit, InvNext, InvGivesProperties, PTL DEF Spec

-----------------------------------------------------------------------------
(* What is changed was approved and not stopped.  The invariant follows an   *)
(* operation's frames from the desktop to the helper that runs it.           *)

Go(o) == Answer(o, "plan", TRUE)
Yes == [binding |-> "plan", yes |-> TRUE]
Agreed == {"approved", "apply", "records"}
Engaged == {"prepare", "plan", "clear"} \cup Agreed

Named(o, pipe) == \E i \in 1 .. Len(pipe) : pipe[i].op = o

(* A request is the first frame of its operation.                           *)
RequestsLead(pipe) ==
  \A i, j \in 1 .. Len(pipe) :
    pipe[j].type = "request" /\ pipe[j].op = pipe[i].op => j <= i

(* A Stop reaches the operation before any approval that follows it.        *)
Ahead(o, pipe) ==
  \E i \in 1 .. Len(pipe) :
    pipe[i] = Cancel(o) /\ \A j \in 1 .. i - 1 : pipe[j] # Go(o)

(* Helper h has been sent frames of operation o, or is not through with it. *)
Near(h, o) == Named(o, toHelper[h]) \/ running[h] = o \/ serving[h] = o

(* Helper h may still run operation o.                                      *)
Due(h, o) == InPipe(Request(o), toHelper[h]) \/ running[h] = o \/ serving[h] = o

(* The registration, the request passed on and the operation at work.       *)
Loops ==
  \A h \in Helpers :
    /\ process[h] # "up" => /\ toHelper[h] = <<>> /\ running[h] = NoOp
                            /\ serving[h] = NoOp /\ incoming[h] = <<>> /\ main[h] = "wait"
    /\ main[h] \in Engaged => running[h] = serving[h] /\ incoming[h] = <<>>
    /\ main[h] \in {"wait", "leave"} => serving[h] = NoOp
    /\ main[h] \in {"wait", "leave", "report"}
         => incoming[h] = IF running[h] = NoOp THEN <<>> ELSE <<running[h]>>
    /\ main[h] = "report" => running[h] # serving[h]

(* An operation is asked of one helper, once.                               *)
Tidy ==
  /\ \A h, k \in Helpers, o \in Ops : Near(h, o) /\ Near(k, o) => h = k
  /\ \A h \in Helpers, o \in Ops :
       InPipe(Request(o), toHelper[h]) => running[h] # o /\ serving[h] # o
  /\ \A h \in Helpers : RequestsLead(toHelper[h])

Early == {"stop", "acquire", "launch", "try", "blocked", "send"}
Ending == {"keep", "drop", "finish"}

(* What the desktop knows of its operations.                                *)
Ids ==
  /\ stoppedAt \subseteq used
  /\ \A h \in Helpers, o \in Ops : Near(h, o) => o \in used
  /\ \A t \in Threads :
       /\ pc[t] # "none" => op[t] \in used
       /\ pc[t] = "none" => op[t] = NoOp
       /\ pc[t] \in Early => op[t] \notin stoppedAt /\ \A h \in Helpers : ~Near(h, op[t])
       /\ pc[t] = "register" => \A h \in Helpers : Near(h, op[t]) => h = session
  /\ op["fg"] = op["bg"] => op["fg"] = NoOp

(* Whom a Stop is written to.                                               *)
Writers ==
  /\ pc["fg"] \in {"read", "ask"} => fgWriter = session
  /\ pc["bg"] = "read" => bgWriter = session
  /\ pc["bg"] # "ask"
  /\ fgWriter # NoHelper =>
       /\ pc["fg"] \in {"read", "ask"} \cup Ending /\ fgId = op["fg"]
       /\ \A h \in Helpers : Near(h, fgId) => h = fgWriter
  /\ bgWriter # NoHelper =>
       /\ pc["bg"] \in {"read"} \cup Ending /\ bgId = op["bg"]
       /\ \A h \in Helpers : Near(h, bgId) => h = bgWriter

(* An approval comes from the user.                                         *)
Willed ==
  /\ \A h \in Helpers, o \in Ops : InPipe(Go(o), toHelper[h]) => o \in approved
  /\ \A o \in Ops : InPipe(Yes, answers[o]) => o \in approved
  /\ \A h \in Helpers : main[h] \in Agreed => serving[h] \in approved
  /\ applied \subseteq approved

Stopping(h, o) ==
  \/ cancel[o]
  \/ serving[h] = o /\ main[h] \in {"clear", "report"}
  \/ /\ Ahead(o, toHelper[h]) /\ ~InPipe(Yes, answers[o])
     /\ serving[h] = o => main[h] \notin Agreed

Halted ==
  /\ \A h \in Helpers, o \in stoppedAt : Due(h, o) => Stopping(h, o)
  /\ applied \cap stoppedAt = {}

Safe == Loops /\ Tidy /\ Ids /\ Writers /\ Willed /\ Halted

-----------------------------------------------------------------------------
(* Pipes.                                                                   *)

(* What a write at the end of a pipe changes.                               *)
LEMMA AppendPipe ==
  ASSUME NEW s \in Seq(DesktopFrames), NEW f \in DesktopFrames
  PROVE  /\ \A x : InPipe(x, Append(s, f)) <=> InPipe(x, s) \/ x = f
         /\ \A o : Named(o, Append(s, f)) <=> Named(o, s) \/ f.op = o
         /\ RequestsLead(s) /\ (f.type = "request" => ~Named(f.op, s))
              => RequestsLead(Append(s, f))
         /\ \A o : Ahead(o, s) => Ahead(o, Append(s, f))
         /\ \A o : f = Cancel(o) /\ ~InPipe(Go(o), s) => Ahead(o, Append(s, f))
<1> DEFINE n == Len(s)
           p == Append(s, f)
<1>1. /\ n \in Nat /\ Len(p) = n + 1 /\ p[n + 1] = f
      /\ \A i \in 1 .. n : p[i] = s[i]
  OBVIOUS
<1>2. \A i \in 1 .. n + 1 : i \in 1 .. n \/ i = n + 1
  BY <1>1
<1>3. 1 .. n \subseteq 1 .. n + 1 /\ n + 1 \in 1 .. n + 1
  BY <1>1
<1> HIDE DEF n, p
<1>4. \A x : InPipe(x, p) <=> InPipe(x, s) \/ x = f
  BY <1>1, <1>2, <1>3 DEF InPipe, n
<1>5. \A o : Named(o, p) <=> Named(o, s) \/ f.op = o
  BY <1>1, <1>2, <1>3 DEF Named, n
<1>6. ASSUME RequestsLead(s), f.type = "request" => ~Named(f.op, s)
      PROVE  RequestsLead(p)
  <2> SUFFICES ASSUME NEW i \in 1 .. n + 1, NEW j \in 1 .. n + 1,
                      p[j].type = "request", p[j].op = p[i].op
               PROVE  j <= i
    BY <1>1 DEF RequestsLead
  <2>1. CASE i = n + 1
    BY <1>1, <2>1
  <2>2. CASE i \in 1 .. n /\ j \in 1 .. n
    BY <1>1, <1>6, <2>2 DEF RequestsLead, n
  <2>3. CASE i \in 1 .. n /\ j = n + 1
    BY <1>1, <1>6, <2>3 DEF Named, n
  <2> QED
    BY <1>2, <2>1, <2>2, <2>3
<1>7. ASSUME NEW o, Ahead(o, s)
      PROVE  Ahead(o, p)
  <2>1. PICK i \in 1 .. n : s[i] = Cancel(o) /\ \A j \in 1 .. i - 1 : s[j] # Go(o)
    BY <1>7 DEF Ahead, n
  <2>2. \A j \in 1 .. i - 1 : j \in 1 .. n
    BY <1>1, <2>1
  <2> QED
    BY <1>1, <1>3, <2>1, <2>2 DEF Ahead
<1>8. ASSUME NEW o, f = Cancel(o), ~InPipe(Go(o), s)
      PROVE  Ahead(o, p)
  <2>1. \A j \in 1 .. (n + 1) - 1 : j \in 1 .. n /\ p[j] # Go(o)
    BY <1>1, <1>8 DEF InPipe, n
  <2> QED
    BY <1>1, <1>3, <1>8, <2>1 DEF Ahead
<1> QED
  BY <1>4, <1>5, <1>6, <1>7, <1>8 DEF p

(* What reading at the head of a pipe changes.                              *)
LEMMA TailPipe ==
  ASSUME NEW s \in Seq(DesktopFrames), s # <<>>
  PROVE  /\ Head(s) \in DesktopFrames
         /\ Tail(s) \in Seq(DesktopFrames)
         /\ \A x : InPipe(x, s) <=> InPipe(x, Tail(s)) \/ x = Head(s)
         /\ \A o : Named(o, s) <=> Named(o, Tail(s)) \/ Head(s).op = o
         /\ RequestsLead(s)
              => RequestsLead(Tail(s)) /\ ~InPipe(Request(Head(s).op), Tail(s))
         /\ \A o : Ahead(o, s) => \/ Head(s) = Cancel(o)
                                  \/ Ahead(o, Tail(s)) /\ Head(s) # Go(o)
<1> DEFINE n == Len(s)
           p == Tail(s)
           g == Head(s)
<1>1. /\ n \in Nat \ {0} /\ Len(p) = n - 1 /\ g = s[1]
      /\ \A i \in 1 .. n - 1 : p[i] = s[i + 1]
      /\ g \in DesktopFrames /\ p \in Seq(DesktopFrames)
  OBVIOUS
<1>2. /\ \A i \in 1 .. n : i = 1 \/ (i - 1 \in 1 .. n - 1 /\ (i - 1) + 1 = i)
      /\ \A i \in 1 .. n - 1 : i + 1 \in 1 .. n
      /\ 1 \in 1 .. n
  BY <1>1
<1>3. \A i \in 1 .. n : i = 1 \/ s[i] = p[i - 1]
  BY <1>1, <1>2
<1> HIDE DEF n, p, g
<1>4. \A x : InPipe(x, s) <=> InPipe(x, p) \/ x = g
  <2> TAKE x
  <2>1. InPipe(x, s) => InPipe(x, p) \/ x = g
    BY <1>1, <1>2, <1>3 DEF InPipe, n
  <2>2. InPipe(x, p) => InPipe(x, s)
    BY <1>1, <1>2 DEF InPipe, n
  <2>3. x = g => InPipe(x, s)
    BY <1>1, <1>2 DEF InPipe, n
  <2> QED
    BY <2>1, <2>2, <2>3
<1>5. \A o : Named(o, s) <=> Named(o, p) \/ g.op = o
  <2> TAKE o
  <2>1. Named(o, s) => Named(o, p) \/ g.op = o
    BY <1>1, <1>2, <1>3 DEF Named, n
  <2>2. Named(o, p) => Named(o, s)
    BY <1>1, <1>2 DEF Named, n
  <2>3. g.op = o => Named(o, s)
    BY <1>1, <1>2 DEF Named, n
  <2> QED
    BY <2>1, <2>2, <2>3
<1>6. ASSUME RequestsLead(s)
      PROVE  RequestsLead(p) /\ ~InPipe(Request(g.op), p)
  <2>1. RequestsLead(p)
    <3> SUFFICES ASSUME NEW i \in 1 .. n - 1, NEW j \in 1 .. n - 1,
                        p[j].type = "request", p[j].op = p[i].op
                 PROVE  j <= i
      BY <1>1 DEF RequestsLead
    <3>1. j + 1 <= i + 1
      BY <1>1, <1>2, <1>6 DEF RequestsLead, n
    <3> QED
      BY <1>1, <3>1
  <2>2. ASSUME NEW i \in 1 .. n - 1, p[i] = Request(g.op)
        PROVE  FALSE
    <3>1. s[i + 1].type = "request" /\ s[i + 1].op = s[1].op
      BY <1>1, <2>2 DEF Request
    <3>2. i + 1 <= 1
      BY <1>2, <1>6, <3>1 DEF RequestsLead, n
    <3> QED
      BY <1>1, <3>2
  <2> QED
    BY <1>1, <2>1, <2>2 DEF InPipe
<1>7. ASSUME NEW o, Ahead(o, s)
      PROVE  g = Cancel(o) \/ (Ahead(o, p) /\ g # Go(o))
  <2>1. PICK i \in 1 .. n : s[i] = Cancel(o) /\ \A j \in 1 .. i - 1 : s[j] # Go(o)
    BY <1>7 DEF Ahead, n
  <2>2. CASE i = 1
    BY <1>1, <2>1, <2>2
  <2>3. CASE i # 1
    <3>1. 1 \in 1 .. i - 1 /\ i - 1 \in 1 .. n - 1 /\ p[i - 1] = Cancel(o)
      BY <1>1, <1>2, <1>3, <2>1, <2>3
    <3>2. \A j \in 1 .. (i - 1) - 1 : j \in 1 .. n - 1 /\ j + 1 \in 1 .. i - 1
      BY <1>1, <2>1
    <3>3. \A j \in 1 .. (i - 1) - 1 : p[j] # Go(o)
      BY <1>1, <2>1, <3>2
    <3>4. Ahead(o, p)
      BY <1>1, <3>1, <3>3 DEF Ahead
    <3> QED
      BY <1>1, <2>1, <3>1, <3>4
  <2> QED
    BY <2>2, <2>3
<1> QED
  BY <1>1, <1>4, <1>5, <1>6, <1>7 DEF p, g

-----------------------------------------------------------------------------
(* Shapes of steps.                                                         *)

Chased == <<toHelper, running, incoming, main, serving, cancel, answers,
            approved, stoppedAt, applied>>

(* A step that leaves the frames of operations and the helpers alone.       *)
LEMMA ChasedUnchanged ==
  ASSUME Safe, UNCHANGED Chased,
         \A h \in Helpers : process[h] = "up" => process'[h] = "up"
  PROVE  /\ Loops' /\ Tidy' /\ Willed' /\ Halted'
         /\ \A h, o : Near(h, o)' = Near(h, o)
<1>1. Loops'
  BY DEF Safe, Loops, Chased
<1>2. \A h, o : Near(h, o)' = Near(h, o)
  BY DEF Chased, Near, Named
<1>3. Tidy'
  BY DEF Safe, Tidy, Chased, Near, Named, InPipe, RequestsLead
<1>4. Willed'
  BY DEF Safe, Willed, Chased, InPipe
<1>5. Halted'
  BY DEF Safe, Halted, Chased, Due, Stopping, Ahead, InPipe
<1> QED
  BY <1>1, <1>2, <1>3, <1>4, <1>5

(* A step of a helper, which is sent nothing.                               *)
LEMMA NearShrinks ==
  ASSUME Safe, UNCHANGED <<desktop, stoppedAt>>,
         \A h \in Helpers, o \in Ops : Near(h, o)' => Near(h, o),
         Inv
  PROVE  Ids' /\ Writers'
<1> USE DEF desktop, rest, stopState, checkState, work, mutex
<1>1. Ids'
  <2>1. \A h \in Helpers : pc["fg"] # "none" => (Near(h, op["fg"])' => Near(h, op["fg"]))
    BY DEF Inv, Workers, Threads
  <2>2. \A h \in Helpers : pc["bg"] # "none" => (Near(h, op["bg"])' => Near(h, op["bg"]))
    BY DEF Inv, Workers, Threads
  <2>3. \A t \in Threads, h \in Helpers :
          pc[t] # "none" => (Near(h, op[t])' => Near(h, op[t]))
    BY <2>1, <2>2 DEF Threads
  <2> QED
    BY <2>3 DEF Safe, Ids, Early
<1>2. Writers'
  BY DEF Safe, Writers, Inv, Workers
<1> QED
  BY <1>1, <1>2

(* The desktop writes a frame, if the helper has not exited.                *)
LEMMA WriteStep ==
  ASSUME Inv, Safe, NEW k \in Helpers, NEW f \in DesktopFrames, Write(k, f),
         UNCHANGED <<process, running, incoming, main, serving, cancel, answers, applied>>,
         approved \subseteq approved', stoppedAt \subseteq stoppedAt',
         f.type = "request" => \A h \in Helpers : ~Near(h, f.op),
         \A h \in Helpers : Near(h, f.op) => h = k,
         f = Go(f.op) => f.op \in approved',
         f.type = "request" => f.op \notin stoppedAt',
         \A o \in stoppedAt' \ stoppedAt : f = Cancel(o) /\ o \in Ops \ approved
  PROVE  /\ Loops' /\ Tidy' /\ Willed' /\ Halted'
         /\ \A h \in Helpers, o \in Ops : Near(h, o)' => Near(h, o) \/ (h = k /\ o = f.op)
<1>1. /\ toHelper \in [Helpers -> Seq(DesktopFrames)]
      /\ \A h \in Helpers : toHelper[h] \in Seq(DesktopFrames)
      /\ stoppedAt \subseteq Ops /\ approved \subseteq Ops /\ applied \subseteq Ops
  BY DEF Inv, LinkTypes, HistoryTypes
<1>2. toHelper' \in [Helpers -> Seq(DesktopFrames)]
  BY WriteTypes
<1>3. /\ \A h \in Helpers : h # k => toHelper'[h] = toHelper[h]
      /\ process[k] = "up" => toHelper'[k] = Append(toHelper[k], f)
      /\ process[k] # "up" => toHelper'[k] = toHelper[k]
  BY <1>1 DEF Write
<1> DEFINE s == toHelper[k]
           p == Append(s, f)
<1>10. /\ \A x : InPipe(x, p) <=> InPipe(x, s) \/ x = f
       /\ \A o : Named(o, p) <=> Named(o, s) \/ f.op = o
       /\ RequestsLead(s) /\ (f.type = "request" => ~Named(f.op, s)) => RequestsLead(p)
       /\ \A o : Ahead(o, s) => Ahead(o, p)
       /\ \A o : f = Cancel(o) /\ ~InPipe(Go(o), s) => Ahead(o, p)
  <2>1. s \in Seq(DesktopFrames)
    BY <1>1
  <2> HIDE DEF s
  <2> QED
    BY <2>1, AppendPipe DEF p
<1>11. process[k] = "up" => toHelper'[k] = p
  BY <1>3
<1> HIDE DEF p
<1>4. Loops'
  BY <1>3 DEF Safe, Loops
<1>5. \A h \in Helpers : \A x : InPipe(x, toHelper'[h])
        => InPipe(x, toHelper[h]) \/ (h = k /\ process[k] = "up" /\ x = f)
  BY <1>3, <1>10, <1>11
<1>6. \A h \in Helpers, o \in Ops : Named(o, toHelper'[h])
        => Named(o, toHelper[h]) \/ (h = k /\ process[k] = "up" /\ f.op = o)
  BY <1>3, <1>10, <1>11
<1>7. \A h \in Helpers, o \in Ops : Near(h, o)' => Near(h, o) \/ (h = k /\ o = f.op)
  BY <1>6 DEF Near
<1>8. Tidy'
  <2>1. \A h, l \in Helpers, o \in Ops : Near(h, o)' /\ Near(l, o)' => h = l
    BY <1>7 DEF Safe, Tidy
  <2>2. ASSUME NEW h \in Helpers, NEW o \in Ops, InPipe(Request(o), toHelper'[h])
        PROVE  running[h] # o /\ serving[h] # o
    <3>1. CASE InPipe(Request(o), toHelper[h])
      BY <3>1 DEF Safe, Tidy
    <3>2. CASE h = k /\ Request(o) = f
      BY <3>2 DEF Request, Near
    <3> QED
      BY <1>5, <2>2, <3>1, <3>2
  <2>3. \A h \in Helpers : RequestsLead(toHelper'[h])
    BY <1>3, <1>10, <1>11 DEF Safe, Tidy, Near
  <2> QED
    BY <2>1, <2>2, <2>3 DEF Tidy
<1>9. Willed'
  <2>1. ASSUME NEW h \in Helpers, NEW o \in Ops, InPipe(Go(o), toHelper'[h])
        PROVE  o \in approved'
    <3>1. CASE InPipe(Go(o), toHelper[h])
      BY <3>1 DEF Safe, Willed
    <3>2. CASE h = k /\ Go(o) = f
      BY <3>2 DEF Go, Answer
    <3> QED
      BY <1>5, <2>1, <3>1, <3>2
  <2> QED
    BY <2>1 DEF Safe, Willed
<1>12. Halted'
  <2>1. ASSUME NEW h \in Helpers, NEW o \in stoppedAt', Due(h, o)'
        PROVE  Stopping(h, o)'
    <3>1. process[h] = "up"
      <4> SUFFICES ASSUME process[h] # "up"
                   PROVE  FALSE
        OBVIOUS
      <4>1. toHelper'[h] = <<>> /\ running[h] = NoOp /\ serving[h] = NoOp
        BY <1>3 DEF Safe, Loops
      <4>2. ~InPipe(Request(o), toHelper'[h])
        BY <4>1 DEF InPipe
      <4>3. o \in Ops
        BY <1>1, <2>1
      <4> QED
        BY <2>1, <4>1, <4>2, <4>3, OpsAssumption DEF Due
    <3>2. CASE o \in stoppedAt
      <4>1. Due(h, o)
        BY <1>5, <2>1, <3>2 DEF Due, Request
      <4>2. Ahead(o, toHelper[h]) => Ahead(o, toHelper'[h])
        BY <1>3, <1>10, <1>11
      <4> QED
        BY <3>2, <4>1, <4>2 DEF Safe, Halted, Stopping
    <3>3. CASE o \notin stoppedAt
      <4>1. f = Cancel(o) /\ o \in Ops \ approved
        BY <2>1, <3>3
      <4>2. f.op = o /\ f # Request(o)
        BY <4>1 DEF Cancel, Request
      <4>3. Due(h, o) /\ Near(h, o)
        <5>1. InPipe(Request(o), toHelper'[h]) => InPipe(Request(o), toHelper[h])
          BY <1>5, <4>2
        <5>2. InPipe(Request(o), toHelper[h]) => Named(o, toHelper[h])
          BY DEF InPipe, Named, Request
        <5> QED
          BY <2>1, <5>1, <5>2 DEF Due, Near
      <4>4. h = k
        BY <4>2, <4>3
      <4>5. ~InPipe(Go(o), toHelper[h]) /\ ~InPipe(Yes, answers[o])
            /\ (serving[h] = o => main[h] \notin Agreed)
        BY <4>1 DEF Safe, Willed
      <4>6. Ahead(o, toHelper'[h])
        BY <1>10, <1>11, <3>1, <4>1, <4>4, <4>5
      <4> QED
        BY <4>5, <4>6 DEF Stopping
    <3> QED
      BY <3>2, <3>3
  <2>2. applied' \cap stoppedAt' = {}
    BY DEF Safe, Willed, Halted
  <2> QED
    BY <2>1, <2>2 DEF Halted
<1> QED
  BY <1>4, <1>7, <1>8, <1>9, <1>12

(* A check is told to stop by the helper it is known to talk to.            *)
LEMMA RequestStopStep ==
  ASSUME Inv, Safe, RequestStop, UNCHANGED <<process, reader, loop, flags, history>>
  PROVE  /\ Loops' /\ Tidy' /\ Willed' /\ Halted'
         /\ \A h \in Helpers, o \in Ops :
              Near(h, o)' => Near(h, o) \/ (bgWriter = h /\ bgId = o)
<1>1. CASE check # "running" \/ bgWriter = NoHelper
  <2>1. UNCHANGED Chased /\ process' = process
    BY <1>1 DEF RequestStop, Chased, reader, loop, flags, history
  <2> QED
    BY <2>1, ChasedUnchanged
<1>2. CASE check = "running" /\ bgWriter # NoHelper
  <2>1. /\ bgWriter \in Helpers /\ bgId \in Ops
        /\ \A h \in Helpers : Near(h, bgId) => h = bgWriter
    BY <1>2 DEF Inv, DesktopTypes, Workers, Safe, Writers
  <2>2. /\ Cancel(bgId) \in DesktopFrames /\ Cancel(bgId).op = bgId
        /\ Cancel(bgId).type = "cancel"
    BY <2>1, FramesAreFrames DEF Cancel
  <2>3. Cancel(bgId) # Go(Cancel(bgId).op)
    BY <2>2 DEF Go, Answer
  <2>4. /\ Write(bgWriter, Cancel(bgId))
        /\ UNCHANGED <<process, running, incoming, main, serving, cancel, answers,
                       applied, approved, stoppedAt>>
    BY <1>2 DEF RequestStop, reader, loop, flags, history
  <2> QED
    BY <2>1, <2>2, <2>3, <2>4, WriteStep
<1> QED
  BY <1>1, <1>2

-----------------------------------------------------------------------------
(* The window's commands and the user's answers.                            *)

LEMMA SafeUser == Inv /\ Safe /\ User => Safe'
<1> SUFFICES ASSUME Inv, Safe, User
             PROVE  Safe'
  OBVIOUS
<1> USE OpsAssumption DEF Threads
<1>1. CASE Stop
  <2>1. CASE fgWriter = NoHelper
    <3>1. UNCHANGED Chased /\ process' = process
      BY <1>1, <2>1 DEF Stop, Chased, reader, loop, flags, history
    <3>2. Loops' /\ Tidy' /\ Willed' /\ Halted' /\ \A h, o : Near(h, o)' = Near(h, o)
      BY <3>1, ChasedUnchanged
    <3>3. Ids'
      BY <1>1, <2>1, <3>2 DEF Stop, Safe, Ids, work, rest, mutex
    <3>4. Writers'
      BY <1>1, <2>1, <3>2 DEF Stop, Safe, Writers, work, rest, mutex, checkState
    <3> QED
      BY <3>2, <3>3, <3>4 DEF Safe
  <2>2. CASE fgWriter # NoHelper
    <3>1. /\ fgWriter \in Helpers /\ fgId \in Ops /\ fgId = op["fg"]
          /\ pc["fg"] \in {"read", "ask"} \cup Ending
          /\ \A h \in Helpers : Near(h, fgId) => h = fgWriter
      BY <2>2 DEF Inv, DesktopTypes, Workers, Safe, Writers
    <3>2. Cancel(fgId) \in DesktopFrames /\ Cancel(fgId).op = fgId
          /\ Cancel(fgId).type = "cancel"
      BY <3>1, FramesAreFrames DEF Cancel
    <3>3. Cancel(fgId) # Go(Cancel(fgId).op)
      BY <3>2 DEF Go, Answer
    <3>4. /\ Write(fgWriter, Cancel(fgId))
          /\ stoppedAt' = stoppedAt \cup ({fgId} \ approved)
          /\ UNCHANGED <<process, running, incoming, main, serving, cancel, answers,
                         applied, approved>>
      BY <1>1, <2>2 DEF Stop, reader, loop, flags
    <3>5. /\ Loops' /\ Tidy' /\ Willed' /\ Halted'
          /\ \A h \in Helpers, o \in Ops :
               Near(h, o)' => Near(h, o) \/ (h = fgWriter /\ o = fgId)
      BY <3>1, <3>2, <3>3, <3>4, WriteStep
    <3>6. Ids'
      BY <1>1, <3>1, <3>4, <3>5
         DEF Stop, Safe, Ids, Early, Ending, work, rest, mutex, Inv, Workers
    <3>7. Writers'
      BY <1>1, <3>1, <3>4, <3>5
         DEF Stop, Safe, Writers, Ids, work, rest, mutex, checkState, Inv, Workers
    <3> QED
      BY <3>5, <3>6, <3>7 DEF Safe
  <2> QED
    BY <2>1, <2>2
<1>2. CASE ReplaceCheck
  <2>1. RequestStop /\ UNCHANGED <<process, reader, loop, flags, history>>
    BY <1>2 DEF ReplaceCheck
  <2>2. /\ Loops' /\ Tidy' /\ Willed' /\ Halted'
        /\ \A h \in Helpers, o \in Ops :
             Near(h, o)' => Near(h, o) \/ (bgWriter = h /\ bgId = o)
    BY <2>1, RequestStopStep
  <2>3. /\ UNCHANGED <<pc, op, session, used, stoppedAt, stopState, bgWriter, bgId>>
        /\ bgWriter \in Helpers \cup {NoHelper}
        /\ bgWriter # NoHelper => bgId \in used
    BY <1>2 DEF ReplaceCheck, work, mutex, rest, history, Safe, Ids, Writers, Inv,
                DesktopTypes, Ending
  <2>4. Ids'
    BY <2>2, <2>3 DEF Safe, Ids, Writers, Early, Ending, Inv, Workers
  <2>5. Writers'
    BY <2>2, <2>3 DEF Safe, Writers, Ids, stopState, Inv, Workers
  <2> QED
    BY <2>2, <2>4, <2>5 DEF Safe
<1>3. CASE AskAdmin
  <2>1. UNCHANGED Chased /\ process' = process
    BY <1>3 DEF AskAdmin, Chased, helper, link, reader, loop, flags, history
  <2>2. Loops' /\ Tidy' /\ Willed' /\ Halted' /\ \A h, o : Near(h, o)' = Near(h, o)
    BY <2>1, ChasedUnchanged
  <2>3. Ids'
    BY <1>3, <2>1, <2>2 DEF AskAdmin, Safe, Ids, Chased, work, rest
  <2>4. Writers'
    BY <1>3, <2>2 DEF AskAdmin, Safe, Writers, work, rest, stopState, checkState
  <2> QED
    BY <2>2, <2>3, <2>4 DEF Safe
<1>4. CASE PlanChanged
  <2>1. UNCHANGED Chased /\ process' = process
    BY <1>4 DEF PlanChanged, Chased, helper, link, reader, loop, flags, history
  <2>2. Loops' /\ Tidy' /\ Willed' /\ Halted' /\ \A h, o : Near(h, o)' = Near(h, o)
    BY <2>1, ChasedUnchanged
  <2>3. Ids'
    BY <1>4, <2>1, <2>2
       DEF PlanChanged, Goto, Safe, Ids, Early, Chased, rest, mutex, Inv, DesktopTypes
  <2>4. Writers'
    BY <1>4, <2>2
       DEF PlanChanged, Goto, Safe, Writers, Ending, rest, mutex, stopState, checkState,
           Inv, DesktopTypes
  <2> QED
    BY <2>2, <2>3, <2>4 DEF Safe
<1>5. CASE Leave
  <2>1. UNCHANGED Chased /\ process' = process
    BY <1>5 DEF Leave, Chased, reader, loop, flags, history
  <2>2. Loops' /\ Tidy' /\ Willed' /\ Halted' /\ \A h, o : Near(h, o)' = Near(h, o)
    BY <2>1, ChasedUnchanged
  <2>3. Ids'
    BY <1>5, <2>1, <2>2 DEF Leave, Safe, Ids, Early, Chased
  <2>4. Writers'
    BY <1>5, <2>2 DEF Leave, Safe, Writers
  <2> QED
    BY <2>2, <2>3, <2>4 DEF Safe
<1>6. ASSUME NEW o \in Ops, Begin(o)
      PROVE  Safe'
  <2>1. UNCHANGED Chased /\ process' = process
    BY <1>6 DEF Begin, Chased, helper, link, reader, loop, flags, history
  <2>2. Loops' /\ Tidy' /\ Willed' /\ Halted' /\ \A h, l : Near(h, l)' = Near(h, l)
    BY <2>1, ChasedUnchanged
  <2>3. pc["fg"] = "none" /\ o \notin stoppedAt /\ \A h \in Helpers : ~Near(h, o)
    BY <1>6 DEF Begin, Inv, Workers, Safe, Ids
  <2>4. Ids'
    BY <1>6, <2>1, <2>2, <2>3
       DEF Begin, Safe, Ids, Early, Chased, mutex, Inv, DesktopTypes
  <2>5. Writers'
    BY <1>6, <2>2, <2>3
       DEF Begin, Safe, Writers, Ending, mutex, checkState, Inv, DesktopTypes
  <2> QED
    BY <2>2, <2>4, <2>5 DEF Safe
<1>7. ASSUME NEW o \in Ops, BeginCheck(o)
      PROVE  Safe'
  <2>1. UNCHANGED Chased /\ process' = process
    BY <1>7 DEF BeginCheck, Chased, helper, link, reader, loop, flags, history
  <2>2. Loops' /\ Tidy' /\ Willed' /\ Halted' /\ \A h, l : Near(h, l)' = Near(h, l)
    BY <2>1, ChasedUnchanged
  <2>3. pc["bg"] = "none" /\ o \notin stoppedAt /\ \A h \in Helpers : ~Near(h, o)
    BY <1>7 DEF BeginCheck, Inv, Workers, Safe, Ids
  <2>4. Ids'
    BY <1>7, <2>1, <2>2, <2>3
       DEF BeginCheck, Safe, Ids, Early, Chased, mutex, Inv, DesktopTypes
  <2>5. Writers'
    BY <1>7, <2>2, <2>3
       DEF BeginCheck, Safe, Writers, Ending, mutex, stopState, Inv, DesktopTypes
  <2> QED
    BY <2>2, <2>4, <2>5 DEF Safe
<1> QED
  BY <1>1, <1>2, <1>3, <1>4, <1>5, <1>6, <1>7 DEF User

LEMMA SafeReply == Inv /\ Safe /\ Reply => Safe'
<1> SUFFICES ASSUME Inv, Safe, Reply
             PROVE  Safe'
  OBVIOUS
<1> USE OpsAssumption DEF Threads
<1>1. CASE AdminAnswered
  <2>1. UNCHANGED Chased /\ \A h \in Helpers : process[h] = "up" => process'[h] = "up"
    BY <1>1
       DEF AdminAnswered, Launched, Chased, helper, link, reader, loop, flags, history,
           Inv, LinkTypes
  <2>2. Loops' /\ Tidy' /\ Willed' /\ Halted' /\ \A h, o : Near(h, o)' = Near(h, o)
    BY <2>1, ChasedUnchanged
  <2>3. \A t \in Threads : pc[t] \notin Holding
    BY <1>1 DEF AdminAnswered, Inv, Workers
  <2>4. Ids'
    BY <1>1, <2>1, <2>2, <2>3
       DEF AdminAnswered, Safe, Ids, Early, Holding, Chased, rest, work
  <2>5. Writers'
    BY <1>1, <2>2, <2>3
       DEF AdminAnswered, Safe, Writers, Holding, work, stopState, checkState
  <2> QED
    BY <2>2, <2>4, <2>5 DEF Safe
<1>2. ASSUME NEW yes \in BOOLEAN, AnswerAsk(yes)
      PROVE  Safe'
  <2>1. /\ pc["fg"] = "ask" /\ op["fg"] \in Ops /\ session \in Helpers
        /\ asked \in Bindings /\ fgWriter = session /\ fgId = op["fg"]
        /\ \A h \in Helpers : Near(h, op["fg"]) => h = session
    BY <1>2 DEF AnswerAsk, Inv, Workers, Holding, Safe, Writers
  <2> DEFINE f == Answer(op["fg"], asked, yes)
  <2>2. f \in DesktopFrames /\ f.op = op["fg"] /\ f.type = "answer"
    BY <2>1, FramesAreFrames DEF Answer
  <2>3. f = Go(f.op) => yes /\ asked = "plan"
    BY DEF Go, Answer
  <2>4. f # Cancel(f.op)
    BY DEF Cancel, Answer
  <2>5. /\ Write(session, f)
        /\ approved' = IF yes /\ asked = "plan" THEN approved \cup {op["fg"]} ELSE approved
        /\ UNCHANGED <<process, running, incoming, main, serving, cancel, answers,
                       applied, stoppedAt>>
    BY <1>2 DEF AnswerAsk, reader, loop, flags
  <2>6. f = Go(f.op) => f.op \in approved'
    BY <2>2, <2>3, <2>5
  <2> HIDE DEF f
  <2>7. /\ Loops' /\ Tidy' /\ Willed' /\ Halted'
        /\ \A h \in Helpers, o \in Ops :
             Near(h, o)' => Near(h, o) \/ (h = session /\ o = f.op)
    BY <2>1, <2>2, <2>5, <2>6, WriteStep
  <2>8. /\ UNCHANGED <<op, session, used, stoppedAt, stopState, checkState>>
        /\ pc["fg"] = "ask" /\ pc'["fg"] \in {"read", "drop"} /\ pc'["bg"] = pc["bg"]
    BY <1>2, <2>5 DEF AnswerAsk, Goto, rest, mutex, Inv, DesktopTypes
  <2>9. Ids'
    BY <2>1, <2>2, <2>7, <2>8 DEF Safe, Ids, Early, Inv, Workers
  <2>10. Writers'
    BY <2>1, <2>2, <2>7, <2>8
       DEF Safe, Writers, Ids, Ending, stopState, checkState, Inv, Workers
  <2> QED
    BY <2>7, <2>9, <2>10 DEF Safe
<1> QED
  BY <1>1, <1>2 DEF Reply

-----------------------------------------------------------------------------
(* The workers.                                                             *)

LEMMA SafeAside == Inv /\ Safe /\ Aside => Safe'
<1> SUFFICES ASSUME Inv, Safe, Aside
             PROVE  Safe'
  OBVIOUS
<1> USE OpsAssumption DEF Threads
<1>1. CASE StopCheckFirst
  <2>1. RequestStop /\ UNCHANGED <<process, reader, loop, flags, history>>
    BY <1>1 DEF StopCheckFirst
  <2>2. /\ Loops' /\ Tidy' /\ Willed' /\ Halted'
        /\ \A h \in Helpers, o \in Ops :
             Near(h, o)' => Near(h, o) \/ (bgWriter = h /\ bgId = o)
    BY <2>1, RequestStopStep
  <2>3. /\ UNCHANGED <<op, session, used, stoppedAt, stopState, bgWriter, bgId>>
        /\ pc["fg"] = "stop" /\ pc' = [pc EXCEPT !["fg"] = "acquire"]
        /\ bgWriter \in Helpers \cup {NoHelper}
        /\ bgWriter # NoHelper => bgId = op["bg"] /\ bgId \in used
                                  /\ pc["bg"] \in {"read"} \cup Ending
    BY <1>1 DEF StopCheckFirst, Goto, mutex, rest, history, Safe, Ids, Writers, Inv,
                DesktopTypes, Ending
  <2>4. Ids'
    BY <2>2, <2>3 DEF Safe, Ids, Writers, Early, Ending, Inv, Workers, DesktopTypes
  <2>5. Writers'
    BY <2>2, <2>3 DEF Safe, Writers, Ids, Ending, stopState, Inv, Workers, DesktopTypes
  <2> QED
    BY <2>2, <2>4, <2>5 DEF Safe
<1>2. CASE Acquire
  <2>1. UNCHANGED Chased /\ process' = process
    BY <1>2 DEF Acquire, Chased, helper, link, reader, loop, flags, history
  <2>2. Loops' /\ Tidy' /\ Willed' /\ Halted' /\ \A h, o : Near(h, o)' = Near(h, o)
    BY <2>1, ChasedUnchanged
  <2>3. /\ pc["fg"] = "acquire" /\ \E p \in {"send", "launch"} : pc' = [pc EXCEPT !["fg"] = p]
        /\ \A t \in Threads : pc[t] \notin Holding
        /\ UNCHANGED <<op, used, stoppedAt, stopState, checkState>>
    BY <1>2 DEF Acquire, Goto, rest, history, Inv, Workers
  <2>4. Ids'
    BY <2>2, <2>3 DEF Safe, Ids, Early, Holding, Inv, DesktopTypes
  <2>5. Writers'
    BY <2>2, <2>3 DEF Safe, Writers, Ending, Holding, stopState, checkState, Inv, DesktopTypes
  <2> QED
    BY <2>2, <2>4, <2>5 DEF Safe
<1>3. CASE Launch
  <2>1. UNCHANGED Chased /\ \A h \in Helpers : process[h] = "up" => process'[h] = "up"
    BY <1>3
       DEF Launch, Launched, Chased, helper, link, reader, loop, flags, history,
           Inv, LinkTypes
  <2>2. Loops' /\ Tidy' /\ Willed' /\ Halted' /\ \A h, o : Near(h, o)' = Near(h, o)
    BY <2>1, ChasedUnchanged
  <2>3. /\ pc["fg"] = "launch" /\ \E p \in {"send", "finish"} : pc' = [pc EXCEPT !["fg"] = p]
        /\ pc["bg"] \notin Holding
        /\ UNCHANGED <<op, used, stoppedAt, stopState, checkState>>
    BY <1>3 DEF Launch, Goto, rest, history, Inv, Workers, Holding
  <2>4. Ids'
    BY <2>2, <2>3 DEF Safe, Ids, Early, Holding, Inv, DesktopTypes
  <2>5. Writers'
    BY <2>2, <2>3 DEF Safe, Writers, Ending, Holding, stopState, checkState, Inv, DesktopTypes
  <2> QED
    BY <2>2, <2>4, <2>5 DEF Safe
<1>4. CASE TrySession
  <2>1. UNCHANGED Chased /\ process' = process
    BY <1>4 DEF TrySession, Chased, helper, link, reader, loop, flags, history
  <2>2. Loops' /\ Tidy' /\ Willed' /\ Halted' /\ \A h, o : Near(h, o)' = Near(h, o)
    BY <2>1, ChasedUnchanged
  <2>3. /\ pc["bg"] = "try" /\ \E p \in {"send", "blocked"} : pc' = [pc EXCEPT !["bg"] = p]
        /\ UNCHANGED <<op, used, session, stoppedAt, stopState, checkState>>
    BY <1>4 DEF TrySession, Goto, rest, history
  <2>4. Ids'
    BY <2>2, <2>3 DEF Safe, Ids, Early, Inv, DesktopTypes
  <2>5. Writers'
    BY <2>2, <2>3 DEF Safe, Writers, Ending, stopState, checkState, Inv, DesktopTypes
  <2> QED
    BY <2>2, <2>4, <2>5 DEF Safe
<1>5. CASE Blocked
  <2>1. UNCHANGED Chased /\ process' = process
    BY <1>5 DEF Blocked, Chased, helper, link, reader, loop, flags, history
  <2>2. Loops' /\ Tidy' /\ Willed' /\ Halted' /\ \A h, o : Near(h, o)' = Near(h, o)
    BY <2>1, ChasedUnchanged
  <2>3. /\ pc["bg"] = "blocked" /\ pc' = [pc EXCEPT !["bg"] = "none"]
        /\ op' = [op EXCEPT !["bg"] = NoOp]
        /\ UNCHANGED <<used, session, stoppedAt, stopState, bgWriter, bgId>>
    BY <1>5 DEF Blocked, Goto, rest, history, mutex
  <2>4. Ids'
    BY <2>2, <2>3 DEF Safe, Ids, Early, Inv, DesktopTypes
  <2>5. Writers'
    BY <2>2, <2>3 DEF Safe, Writers, Ending, stopState, Inv, DesktopTypes
  <2> QED
    BY <2>2, <2>4, <2>5 DEF Safe
<1>6. CASE Finish
  <2>1. UNCHANGED Chased /\ process' = process
    BY <1>6 DEF Finish, Chased, helper, link, reader, loop, flags, history
  <2>2. Loops' /\ Tidy' /\ Willed' /\ Halted' /\ \A h, o : Near(h, o)' = Near(h, o)
    BY <2>1, ChasedUnchanged
  <2>3. /\ pc["fg"] = "finish" /\ pc' = [pc EXCEPT !["fg"] = "none"]
        /\ op' = [op EXCEPT !["fg"] = NoOp] /\ fgWriter' = NoHelper
        /\ UNCHANGED <<used, session, stoppedAt, checkState>>
    BY <1>6 DEF Finish, Goto, history, mutex
  <2>4. Ids'
    BY <2>2, <2>3 DEF Safe, Ids, Early, Inv, DesktopTypes, Workers
  <2>5. Writers'
    BY <2>2, <2>3 DEF Safe, Writers, Ending, checkState, Inv, DesktopTypes
  <2> QED
    BY <2>2, <2>4, <2>5 DEF Safe
<1>7. CASE FinishCheck
  <2>1. UNCHANGED Chased /\ process' = process
    BY <1>7 DEF FinishCheck, Chased, helper, link, reader, loop, flags, history
  <2>2. Loops' /\ Tidy' /\ Willed' /\ Halted' /\ \A h, o : Near(h, o)' = Near(h, o)
    BY <2>1, ChasedUnchanged
  <2>3. /\ pc["bg"] = "finish" /\ pc' = [pc EXCEPT !["bg"] = "none"]
        /\ op' = [op EXCEPT !["bg"] = NoOp] /\ bgWriter' = NoHelper
        /\ UNCHANGED <<used, session, stoppedAt, stopState>>
    BY <1>7 DEF FinishCheck, Goto, rest, history, mutex
  <2>4. Ids'
    BY <2>2, <2>3 DEF Safe, Ids, Early, Inv, DesktopTypes, Workers
  <2>5. Writers'
    BY <2>2, <2>3 DEF Safe, Writers, Ending, stopState, Inv, DesktopTypes
  <2> QED
    BY <2>2, <2>4, <2>5 DEF Safe
<1> QED
  BY <1>1, <1>2, <1>3, <1>4, <1>5, <1>6, <1>7 DEF Aside

LEMMA SafeExchange == Inv /\ Safe /\ (\E t \in Threads : Exchange(t)) => Safe'
<1> SUFFICES ASSUME Inv, Safe, NEW t \in Threads, Exchange(t)
             PROVE  Safe'
  OBVIOUS
<1> USE OpsAssumption DEF Threads
<1>1. CASE Send(t)
  <2>1. /\ pc[t] = "send" /\ op[t] \in Ops /\ session \in Helpers
        /\ op[t] \notin stoppedAt /\ op[t] \in used
        /\ \A h \in Helpers : ~Near(h, op[t])
    BY <1>1 DEF Send, Inv, Workers, Holding, Safe, Ids, Early
  <2> DEFINE f == Request(op[t])
  <2>2. f \in DesktopFrames /\ f.op = op[t] /\ f.type = "request"
    BY <2>1, FramesAreFrames DEF Request
  <2>3. f # Go(f.op)
    BY DEF Go, Answer, Request
  <2>4. /\ Write(session, f)
        /\ UNCHANGED <<process, running, incoming, main, serving, cancel, answers,
                       applied, stoppedAt, approved>>
    BY <1>1 DEF Send, reader, loop, flags, history
  <2> HIDE DEF f
  <2>5. /\ Loops' /\ Tidy' /\ Willed' /\ Halted'
        /\ \A h \in Helpers, o \in Ops :
             Near(h, o)' => Near(h, o) \/ (h = session /\ o = op[t])
    BY <2>1, <2>2, <2>3, <2>4, WriteStep
  <2>6. /\ UNCHANGED <<op, session, used, stoppedAt, stopState, checkState>>
        /\ \E p \in {"register", "drop"} : pc' = [pc EXCEPT ![t] = p]
    BY <1>1 DEF Send, Goto, rest, mutex, history
  <2>7. Ids'
    BY <2>1, <2>5, <2>6 DEF Safe, Ids, Early, Inv, Workers, DesktopTypes
  <2>8. Writers'
    BY <2>1, <2>5, <2>6
       DEF Safe, Writers, Ids, Ending, stopState, checkState, Inv, Workers, DesktopTypes
  <2> QED
    BY <2>5, <2>7, <2>8 DEF Safe
<1>2. CASE Register(t)
  <2>1. /\ pc[t] = "register" /\ op[t] \in Ops /\ session \in Helpers /\ op[t] \in used
        /\ \A h \in Helpers : Near(h, op[t]) => h = session
    BY <1>2 DEF Register, Inv, Workers, Holding, Safe, Ids
  <2>2. /\ Loops' /\ Tidy' /\ Willed' /\ Halted'
        /\ \A h \in Helpers, o \in Ops :
             Near(h, o)' => Near(h, o) \/ (h = session /\ o = op[t])
    <3>1. CASE UNCHANGED toHelper
      <4>1. UNCHANGED Chased /\ process' = process
        BY <1>2, <3>1 DEF Register, Chased, reader, loop, flags, history
      <4> QED
        BY <4>1, ChasedUnchanged
    <3>2. CASE Write(session, Cancel(op[t]))
      <4>1. /\ Cancel(op[t]) \in DesktopFrames /\ Cancel(op[t]).op = op[t]
            /\ Cancel(op[t]).type = "cancel"
        BY <2>1, FramesAreFrames DEF Cancel
      <4>2. Cancel(op[t]) # Go(Cancel(op[t]).op)
        BY <4>1 DEF Go, Answer
      <4>3. UNCHANGED <<process, running, incoming, main, serving, cancel, answers,
                        applied, approved, stoppedAt>>
        BY <1>2 DEF Register, reader, loop, flags, history
      <4> QED
        BY <2>1, <3>2, <4>1, <4>2, <4>3, WriteStep
    <3> QED
      BY <1>2, <3>1, <3>2 DEF Register
  <2>3. /\ UNCHANGED <<op, session, used, stoppedAt>>
        /\ pc' = [pc EXCEPT ![t] = "read"]
        /\ \/ /\ t = "fg" /\ fgWriter' = session /\ fgId' = op["fg"]
              /\ UNCHANGED <<bgWriter, bgId>>
           \/ /\ t = "bg" /\ bgWriter' = session /\ bgId' = op["bg"]
              /\ UNCHANGED <<fgWriter, fgId>>
    BY <1>2 DEF Register, Goto, rest, mutex, history
  <2>4. Ids'
    BY <2>1, <2>2, <2>3 DEF Safe, Ids, Early, Inv, Workers, DesktopTypes
  <2>5. Writers'
    BY <2>1, <2>2, <2>3 DEF Safe, Writers, Ids, Ending, Inv, Workers, DesktopTypes
  <2> QED
    BY <2>2, <2>4, <2>5 DEF Safe
<1>3. CASE ReadEvent(t)
  <2>1. UNCHANGED Chased /\ process' = process
    BY <1>3 DEF ReadEvent, Chased, reader, loop, flags, history
  <2>2. Loops' /\ Tidy' /\ Willed' /\ Halted' /\ \A h, o : Near(h, o)' = Near(h, o)
    BY <2>1, ChasedUnchanged
  <2>3. UNCHANGED <<pc, op, session, used, stoppedAt, fgWriter, fgId, bgWriter, bgId>>
    BY <1>3 DEF ReadEvent, rest, mutex, history, work, checkState
  <2>4. Ids'
    BY <2>2, <2>3 DEF Safe, Ids
  <2>5. Writers'
    BY <2>2, <2>3 DEF Safe, Writers
  <2> QED
    BY <2>2, <2>4, <2>5 DEF Safe
<1>4. CASE ReadAsk(t) /\ t = "fg"
  <2>1. UNCHANGED Chased /\ process' = process
    BY <1>4 DEF ReadAsk, Chased, reader, loop, flags, history
  <2>2. Loops' /\ Tidy' /\ Willed' /\ Halted' /\ \A h, o : Near(h, o)' = Near(h, o)
    BY <2>1, ChasedUnchanged
  <2>3. /\ UNCHANGED <<op, session, used, stoppedAt, fgWriter, fgId, bgWriter, bgId>>
        /\ pc["fg"] = "read" /\ pc' = [pc EXCEPT !["fg"] = "ask"]
    BY <1>4 DEF ReadAsk, Reading, Goto, rest, mutex, history, checkState
  <2>4. Ids'
    BY <2>2, <2>3 DEF Safe, Ids, Early, Inv, DesktopTypes
  <2>5. Writers'
    BY <2>2, <2>3 DEF Safe, Writers, Inv, DesktopTypes
  <2> QED
    BY <2>2, <2>4, <2>5 DEF Safe
<1>5. CASE ReadAsk(t) /\ t = "bg"
  <2>1. /\ pc["bg"] = "read" /\ op["bg"] \in Ops /\ session \in Helpers /\ op["bg"] \in used
        /\ bgWriter = session /\ bgId = op["bg"]
        /\ \A h \in Helpers : Near(h, op["bg"]) => h = session
        /\ NextFrame.binding \in Bindings
    <3>1. NextFrame.binding \in Bindings
      BY <1>5, ReadTypes, HelperFrameFields DEF ReadAsk
    <3> QED
      BY <1>5, <3>1 DEF ReadAsk, Reading, Inv, Workers, Holding, Safe, Ids, Writers
  <2> DEFINE f == Answer(op["bg"], NextFrame.binding, FALSE)
  <2>2. f \in DesktopFrames /\ f.op = op["bg"] /\ f.type = "answer"
    BY <2>1, FramesAreFrames DEF Answer
  <2>3. f # Go(f.op)
    BY DEF Go, Answer
  <2>4. /\ Write(session, f)
        /\ UNCHANGED <<process, running, incoming, main, serving, cancel, answers,
                       applied, stoppedAt, approved>>
    BY <1>5 DEF ReadAsk, reader, loop, flags, history
  <2> HIDE DEF f
  <2>5. /\ Loops' /\ Tidy' /\ Willed' /\ Halted'
        /\ \A h \in Helpers, o \in Ops :
             Near(h, o)' => Near(h, o) \/ (h = session /\ o = op["bg"])
    BY <2>1, <2>2, <2>3, <2>4, WriteStep
  <2>6. /\ UNCHANGED <<op, session, used, stoppedAt, fgWriter, fgId, bgWriter, bgId>>
        /\ \E p \in {"read", "drop"} : pc' = [pc EXCEPT !["bg"] = p]
    BY <1>5, <2>1 DEF ReadAsk, Goto, rest, mutex, history, checkState, Inv, DesktopTypes
  <2>7. Ids'
    BY <2>1, <2>5, <2>6 DEF Safe, Ids, Early, Inv, Workers, DesktopTypes
  <2>8. Writers'
    BY <2>1, <2>5, <2>6 DEF Safe, Writers, Ids, Ending, Inv, Workers, DesktopTypes
  <2> QED
    BY <2>5, <2>7, <2>8 DEF Safe
<1>6. CASE ReadEnd(t) \/ ReadClosed(t)
  <2>1. UNCHANGED Chased /\ process' = process
    BY <1>6 DEF ReadEnd, ReadClosed, Chased, helper, link, reader, loop, flags, history
  <2>2. Loops' /\ Tidy' /\ Willed' /\ Halted' /\ \A h, o : Near(h, o)' = Near(h, o)
    BY <2>1, ChasedUnchanged
  <2>3. /\ UNCHANGED <<op, session, used, stoppedAt, stopState, checkState>>
        /\ pc[t] = "read" /\ \E p \in {"keep", "drop"} : pc' = [pc EXCEPT ![t] = p]
    BY <1>6 DEF ReadEnd, ReadClosed, Reading, Goto, rest, mutex, history
  <2>4. Ids'
    BY <2>2, <2>3 DEF Safe, Ids, Early, Inv, DesktopTypes
  <2>5. Writers'
    BY <2>2, <2>3 DEF Safe, Writers, Ending, stopState, checkState, Inv, DesktopTypes
  <2> QED
    BY <2>2, <2>4, <2>5 DEF Safe
<1>7. CASE Release(t)
  <2>1. UNCHANGED Chased /\ process' = process
    BY <1>7 DEF Release, Chased, reader, loop, flags, history
  <2>2. Loops' /\ Tidy' /\ Willed' /\ Halted' /\ \A h, o : Near(h, o)' = Near(h, o)
    BY <2>1, ChasedUnchanged
  <2>3. /\ UNCHANGED <<op, used, stoppedAt, stopState, checkState>>
        /\ pc[t] \in {"keep", "drop"} /\ pc' = [pc EXCEPT ![t] = "finish"]
        /\ \A u \in Threads : u # t => pc[u] \notin Holding
    BY <1>7 DEF Release, Goto, rest, history, Inv, Workers, Holding
  <2>4. Ids'
    BY <2>2, <2>3 DEF Safe, Ids, Early, Holding, Inv, DesktopTypes
  <2>5. Writers'
    BY <2>2, <2>3
       DEF Safe, Writers, Ending, Holding, stopState, checkState, Inv, DesktopTypes
  <2> QED
    BY <2>2, <2>4, <2>5 DEF Safe
<1> QED
  BY <1>1, <1>2, <1>3, <1>4, <1>5, <1>6, <1>7 DEF Exchange

-----------------------------------------------------------------------------
(* The helper.                                                              *)

LEMMA DueIsNear ==
  ASSUME NEW h, NEW o, Due(h, o)
  PROVE  Near(h, o)
BY DEF Due, Near, InPipe, Named, Request

CancelGrows == \A o \in Ops : cancel[o] => cancel'[o]

LEMMA CancelsGrow ==
  ASSUME Inv, NEW h \in Helpers
  PROVE  /\ \A f : Emit(h, f) => CancelGrows
         /\ StopReading(h) => CancelGrows
         /\ UNCHANGED cancel => CancelGrows
<1>1. cancel \in [Ops -> BOOLEAN] /\ running[h] \in Ops \cup {NoOp}
  BY DEF Inv, HelperTypes
<1> QED
  BY <1>1 DEF Emit, StopReading, CancelGrows

(* A step that only sets flags.                                             *)
LEMMA FlagStep ==
  ASSUME Inv, Safe, CancelGrows,
         UNCHANGED <<desktop, process, toHelper, running, incoming, main, serving,
                     answers, approved, stoppedAt, applied>>
  PROVE  Safe'
<1>1. \A h, o : Near(h, o)' = Near(h, o)
  BY DEF Near, Named
<1>2. Ids' /\ Writers'
  BY <1>1, NearShrinks
<1>3. Loops'
  BY DEF Safe, Loops
<1>4. Tidy'
  BY <1>1 DEF Safe, Tidy, InPipe, RequestsLead
<1>5. Willed'
  BY DEF Safe, Willed, InPipe
<1>6. Halted'
  <2>1. ASSUME NEW h \in Helpers, NEW o \in stoppedAt, Due(h, o)'
        PROVE  Stopping(h, o)'
    <3>1. Due(h, o) /\ o \in Ops
      BY <2>1 DEF Due, InPipe, Inv, HistoryTypes
    <3> QED
      BY <3>1, <2>1 DEF Safe, Halted, Stopping, CancelGrows, Ahead, InPipe
  <2> QED
    BY <2>1 DEF Safe, Halted
<1> QED
  BY <1>2, <1>3, <1>4, <1>5, <1>6 DEF Safe

(* A step of the operation at work, which may begin its change.             *)
LEMMA MoveStep ==
  ASSUME Inv, Safe, NEW h \in Helpers, NEW m \in Engaged, CancelGrows,
         UNCHANGED <<desktop, process, toHelper, running, incoming, serving,
                     approved, stoppedAt>>,
         main[h] \in Engaged \ {"clear"},
         Serving(h), Step(h, m),
         \A o \in Ops : InPipe(Yes, answers'[o]) => InPipe(Yes, answers[o]),
         m \in Agreed => main[h] \in Agreed \/ InPipe(Yes, answers[serving[h]]),
         \/ applied' = applied
         \/ /\ applied' = applied \cup {serving[h]}
            /\ main[h] = "approved" /\ ~cancel[serving[h]]
  PROVE  Safe'
<1>1. \A k, o : Near(k, o)' = Near(k, o)
  BY DEF Near, Named
<1>2. Ids' /\ Writers'
  BY <1>1, NearShrinks
<1>3. /\ main' = [main EXCEPT ![h] = m] /\ main \in [Helpers -> Phases]
      /\ serving[h] \in Ops
  BY DEF Step, Inv, HelperTypes, MainLoops, Engaged, Agreed
<1>4. /\ main'[h] = m /\ \A k \in Helpers : k # h => main'[k] = main[k]
      /\ m \notin {"wait", "leave", "report"}
  BY <1>3 DEF Engaged, Agreed
<1>5. Loops'
  BY <1>4 DEF Safe, Loops, Serving, Engaged, Agreed
<1>6. Tidy'
  BY <1>1 DEF Safe, Tidy, InPipe, RequestsLead
<1>7. serving[h] \in approved \/ m \notin Agreed
  BY <1>3 DEF Safe, Willed
<1>8. serving[h] \in approved \/ applied' = applied
  BY DEF Safe, Willed, Agreed
<1>9. Willed'
  BY <1>4, <1>7, <1>8 DEF Safe, Willed, InPipe
<1>10. Halted'
  <2>1. ASSUME NEW k \in Helpers, NEW o \in stoppedAt, Due(k, o)'
        PROVE  Stopping(k, o)'
    <3>1. Due(k, o) /\ o \in Ops
      BY <2>1 DEF Due, InPipe, Inv, HistoryTypes
    <3>2. Stopping(k, o)
      BY <3>1 DEF Safe, Halted
    <3>3. CASE cancel[o]
      BY <3>1, <3>3 DEF Stopping, CancelGrows
    <3>4. CASE serving[k] = o /\ main[k] \in {"clear", "report"}
      <4>1. k # h
        BY <3>4 DEF Engaged, Agreed
      <4> QED
        BY <1>4, <3>4, <4>1 DEF Stopping
    <3>5. CASE /\ Ahead(o, toHelper[k]) /\ ~InPipe(Yes, answers[o])
               /\ serving[k] = o => main[k] \notin Agreed
      <4>1. Ahead(o, toHelper[k])' /\ ~InPipe(Yes, answers'[o])
        BY <3>1, <3>5 DEF Ahead
      <4>2. serving[k] = o => main'[k] \notin Agreed
        BY <1>4, <3>5
      <4> QED
        BY <4>1, <4>2 DEF Stopping, InPipe
    <3> QED
      BY <3>2, <3>3, <3>4, <3>5 DEF Stopping
  <2>2. ASSUME applied' # applied
        PROVE  serving[h] \notin stoppedAt
    <3>1. Due(h, serving[h])
      BY DEF Due
    <3>2. ~Stopping(h, serving[h])
      BY <2>2 DEF Stopping, Agreed
    <3> QED
      BY <3>1, <3>2 DEF Safe, Halted
  <2>3. applied' \cap stoppedAt = {}
    BY <2>2 DEF Safe, Halted
  <2> QED
    BY <2>1, <2>3 DEF Halted
<1> QED
  BY <1>2, <1>5, <1>6, <1>9, <1>10 DEF Safe

(* The steps of the operation at work.                                      *)
LEMMA SafeMoves ==
  ASSUME Inv, Safe, NEW h \in Helpers,
         Prepare(h) \/ Answered(h) \/ Unanswered(h) \/ Apply(h) \/ Applied(h)
  PROVE  Safe'
<1> DEFINE Kept == UNCHANGED <<desktop, process, toHelper, running, incoming, serving,
                               approved, stoppedAt>>
           Heard == \A o \in Ops : InPipe(Yes, answers'[o]) => InPipe(Yes, answers[o])
<1>1. answers' = answers => Heard
  OBVIOUS
<1>2. serving[h] \in Ops /\ answers \in [Ops -> Seq(Answers)]
  BY DEF Prepare, Answered, Unanswered, Apply, Applied, At, Bindings, Inv, MainLoops,
         HelperTypes
<1>3. CASE Prepare(h)
  <2>1. CancelGrows
    BY <1>3, CancelsGrow DEF Prepare
  <2>2. /\ Kept /\ Heard /\ applied' = applied /\ Serving(h)
        /\ main[h] \in Engaged \ {"clear"}
    BY <1>1, <1>3 DEF Prepare, At, reader, history, Engaged, Agreed
  <2>3. \E m \in Engaged \ Agreed : Step(h, m)
    BY <1>3 DEF Prepare, Ends, Engaged, Agreed
  <2> QED
    BY <2>1, <2>2, <2>3, MoveStep
<1>4. CASE Answered(h)
  <2>1. CancelGrows
    BY <1>4, CancelsGrow DEF Answered
  <2>2. /\ Kept /\ applied' = applied /\ Serving(h)
        /\ main[h] \in Engaged \ {"clear"} /\ main[h] \in Bindings
    BY <1>4 DEF Answered, link, reader, history, Engaged, Agreed, Bindings
  <2>3. /\ answers[serving[h]] # <<>>
        /\ answers' = [answers EXCEPT ![serving[h]] = Tail(@)]
    BY <1>4 DEF Answered
  <2>4. Heard
    <3> SUFFICES ASSUME NEW o \in Ops, InPipe(Yes, answers'[o]), o = serving[h]
                 PROVE  InPipe(Yes, answers[o])
      BY <1>2, <2>3
    <3> DEFINE s == answers[o]
    <3>1. s \in Seq(Answers) /\ s # <<>> /\ answers'[o] = Tail(s)
      BY <1>2, <2>3
    <3> HIDE DEF s
    <3>2. PICK i \in 1 .. Len(Tail(s)) : Tail(s)[i] = Yes
      BY <3>1 DEF InPipe
    <3>3. i + 1 \in 1 .. Len(s) /\ s[i + 1] = Yes
      BY <3>1, <3>2
    <3> QED
      BY <3>3 DEF InPipe, s
  <2>5. \E m \in Engaged : /\ Step(h, m)
                           /\ m \in Agreed => InPipe(Yes, answers[serving[h]])
    <3>1. CASE main[h] # "records" /\ Head(answers[serving[h]]).binding = "plan"
               /\ Head(answers[serving[h]]).yes
      <4> DEFINE s == answers[serving[h]]
      <4>1. s \in Seq(Answers) /\ s # <<>>
        BY <1>2, <2>3
      <4> HIDE DEF s
      <4>2. Head(s) \in Answers /\ 1 \in 1 .. Len(s) /\ s[1] = Head(s)
        BY <4>1
      <4>3. Head(s) = Yes
        BY <3>1, <4>2 DEF Answers, Yes, s
      <4>4. InPipe(Yes, s)
        BY <4>2, <4>3 DEF InPipe
      <4>5. Step(h, "approved")
        BY <1>4, <3>1 DEF Answered
      <4> QED
        BY <4>4, <4>5 DEF Engaged, Agreed, s
    <3>2. CASE ~(main[h] # "records" /\ Head(answers[serving[h]]).binding = "plan"
                 /\ Head(answers[serving[h]]).yes)
      BY <1>4, <3>2 DEF Answered, Ends, Engaged, Agreed
    <3> QED
      BY <3>1, <3>2
  <2> QED
    BY <2>1, <2>2, <2>4, <2>5, MoveStep
<1>5. CASE Unanswered(h)
  <2>1. CancelGrows
    BY <1>5, CancelsGrow DEF Unanswered, flags
  <2>2. /\ Kept /\ Heard /\ applied' = applied /\ Serving(h)
        /\ main[h] \in Engaged \ {"clear"}
    BY <1>1, <1>5 DEF Unanswered, link, reader, flags, history, Engaged, Agreed, Bindings
  <2>3. \E m \in Engaged \ Agreed : Step(h, m)
    BY <1>5 DEF Unanswered, Ends, Engaged, Agreed
  <2> QED
    BY <2>1, <2>2, <2>3, MoveStep
<1>6. CASE Apply(h)
  <2>1. CancelGrows
    BY <1>6, CancelsGrow DEF Apply, flags
  <2>2. /\ Kept /\ Heard /\ Serving(h)
        /\ main[h] = "approved" /\ main[h] \in Agreed /\ main[h] \in Engaged \ {"clear"}
    BY <1>1, <1>6 DEF Apply, At, link, reader, flags, Engaged, Agreed
  <2>3. /\ \E m \in Engaged : Step(h, m)
        /\ \/ applied' = applied
           \/ applied' = applied \cup {serving[h]} /\ ~cancel[serving[h]]
    BY <1>6 DEF Apply, Ends, Engaged, Agreed
  <2> QED
    BY <2>1, <2>2, <2>3, MoveStep
<1>7. CASE Applied(h)
  <2>1. CancelGrows
    BY <1>7, CancelsGrow DEF Applied
  <2>2. /\ Kept /\ Heard /\ applied' = applied /\ Serving(h)
        /\ main[h] \in Agreed /\ main[h] \in Engaged \ {"clear"}
    BY <1>1, <1>7 DEF Applied, At, reader, history, Engaged, Agreed
  <2>3. \E m \in Engaged : Step(h, m)
    BY <1>7 DEF Applied, Ends, Engaged, Agreed
  <2> QED
    BY <2>1, <2>2, <2>3, MoveStep
<1> QED
  BY <1>3, <1>4, <1>5, <1>6, <1>7

(* The main loop takes a request: it was registered, and no other waits.    *)
LEMMA SafeTake ==
  ASSUME Inv, Safe, NEW h \in Helpers, Take(h)
  PROVE  Safe'
<1> USE OpsAssumption
<1>1. /\ main \in [Helpers -> Phases] /\ serving \in [Helpers -> Ops \cup {NoOp}]
      /\ incoming \in [Helpers -> Seq(Ops)] /\ running \in [Helpers -> Ops \cup {NoOp}]
  BY DEF Inv, HelperTypes
<1>2. /\ main[h] = "wait" /\ serving[h] = NoOp /\ incoming[h] = <<running[h]>>
      /\ running[h] # NoOp /\ process[h] = "up"
  BY DEF Take, At, Serving, Safe, Loops
<1>3. Head(incoming[h]) = running[h] /\ Tail(incoming[h]) = <<>>
  BY <1>2
<1>4. /\ serving' = [serving EXCEPT ![h] = running[h]]
      /\ incoming' = [incoming EXCEPT ![h] = <<>>]
      /\ main' = [main EXCEPT ![h] = "prepare"]
  BY <1>1, <1>3 DEF Take, Step
<1>5. UNCHANGED <<desktop, process, toHelper, running, cancel, answers, approved,
                  stoppedAt, applied>>
  BY DEF Take, link, flags, history
<1>6. \A k \in Helpers, o \in Ops : Near(k, o)' => Near(k, o)
  BY <1>1, <1>4, <1>5 DEF Near, Named
<1>7. Ids' /\ Writers'
  BY <1>5, <1>6, NearShrinks
<1>8. Loops'
  BY <1>1, <1>2, <1>4, <1>5 DEF Safe, Loops, Engaged, Agreed
<1>9. Tidy'
  BY <1>1, <1>4, <1>5, <1>6 DEF Safe, Tidy, InPipe, RequestsLead
<1>10. Willed'
  BY <1>1, <1>4, <1>5 DEF Safe, Willed, InPipe, Agreed
<1>11. Halted'
  <2>1. ASSUME NEW k \in Helpers, NEW o \in stoppedAt, Due(k, o)'
        PROVE  Stopping(k, o)'
    <3>1. Due(k, o) /\ o \in Ops
      BY <1>1, <1>4, <1>5, <2>1 DEF Due, InPipe, Inv, HistoryTypes
    <3>2. Stopping(k, o)
      BY <3>1 DEF Safe, Halted
    <3> QED
      BY <1>1, <1>2, <1>4, <1>5, <3>1, <3>2 DEF Stopping, Ahead, InPipe, Agreed
  <2> QED
    BY <1>5, <2>1 DEF Safe, Halted
<1> QED
  BY <1>7, <1>8, <1>9, <1>10, <1>11 DEF Safe

(* The registration is cleared, with its flag and its answers.              *)
LEMMA SafeClear ==
  ASSUME Inv, Safe, NEW h \in Helpers, Clear(h)
  PROVE  Safe'
<1> USE OpsAssumption
<1>1. /\ main \in [Helpers -> Phases] /\ running \in [Helpers -> Ops \cup {NoOp}]
      /\ cancel \in [Ops -> BOOLEAN] /\ answers \in [Ops -> Seq(Answers)]
  BY DEF Inv, HelperTypes
<1>2. /\ main[h] = "clear" /\ serving[h] = running[h] /\ incoming[h] = <<>>
      /\ process[h] = "up" /\ serving[h] \in Ops
  BY DEF Clear, At, Serving, Safe, Loops, Engaged, Inv, MainLoops
<1>3. /\ running' = [running EXCEPT ![h] = NoOp]
      /\ cancel' = [cancel EXCEPT ![serving[h]] = FALSE]
      /\ answers' = [answers EXCEPT ![serving[h]] = <<>>]
      /\ main' = [main EXCEPT ![h] = "report"]
  BY DEF Clear, Step
<1>4. UNCHANGED <<desktop, process, toHelper, incoming, serving, approved, stoppedAt,
                  applied>>
  BY DEF Clear, link, history
<1>5. \A k \in Helpers, o \in Ops : Near(k, o)' => Near(k, o)
  BY <1>1, <1>3, <1>4 DEF Near, Named
<1>6. Ids' /\ Writers'
  BY <1>4, <1>5, NearShrinks
<1>7. Loops'
  BY <1>1, <1>2, <1>3, <1>4 DEF Safe, Loops, Engaged, Agreed
<1>8. Tidy'
  BY <1>1, <1>3, <1>4, <1>5 DEF Safe, Tidy, InPipe, RequestsLead
<1>9. ~InPipe(Yes, answers'[serving[h]])
  BY <1>1, <1>2, <1>3 DEF InPipe
<1>10. Willed'
  <2>1. \A o \in Ops : InPipe(Yes, answers'[o]) => InPipe(Yes, answers[o])
    BY <1>1, <1>3, <1>9
  <2>2. \A k \in Helpers : main'[k] \in Agreed => main[k] \in Agreed
    BY <1>1, <1>3 DEF Agreed
  <2> QED
    BY <1>4, <2>1, <2>2 DEF Safe, Willed, InPipe
<1>11. Halted'
  <2>1. ASSUME NEW k \in Helpers, NEW o \in stoppedAt, Due(k, o)'
        PROVE  Stopping(k, o)'
    <3>1. Due(k, o) /\ o \in Ops
      BY <1>1, <1>3, <1>4, <2>1 DEF Due, InPipe, Inv, HistoryTypes
    <3>2. Stopping(k, o)
      BY <3>1 DEF Safe, Halted
    <3>3. CASE o = serving[h]
      <4>1. Near(k, o) /\ Near(h, o)
        BY <3>1, <3>3, DueIsNear DEF Near
      <4>2. k = h
        BY <3>1, <4>1 DEF Safe, Tidy
      <4> QED
        BY <1>1, <1>3, <1>4, <3>3, <4>2 DEF Stopping
    <3>4. CASE o # serving[h]
      <4>1. cancel'[o] = cancel[o] /\ answers'[o] = answers[o]
        BY <1>1, <1>3, <3>1, <3>4
      <4>2. serving[k] = o => main'[k] = main[k]
        BY <1>1, <1>3, <3>4
      <4> QED
        BY <1>4, <3>2, <4>1, <4>2 DEF Stopping, Ahead, InPipe
    <3> QED
      BY <3>3, <3>4
  <2> QED
    BY <1>4, <2>1 DEF Safe, Halted
<1> QED
  BY <1>6, <1>7, <1>8, <1>10, <1>11 DEF Safe

(* The operation is reported, and the loop is free for the next.            *)
LEMMA SafeReport ==
  ASSUME Inv, Safe, NEW h \in Helpers, Report(h)
  PROVE  Safe'
<1> USE OpsAssumption
<1>1. /\ main \in [Helpers -> Phases] /\ serving \in [Helpers -> Ops \cup {NoOp}]
      /\ running \in [Helpers -> Ops \cup {NoOp}]
  BY DEF Inv, HelperTypes
<1>2. /\ main[h] = "report" /\ running[h] # serving[h] /\ process[h] = "up"
      /\ incoming[h] = IF running[h] = NoOp THEN <<>> ELSE <<running[h]>>
      /\ serving[h] \in Ops
  BY DEF Report, At, Serving, Safe, Loops, Inv, MainLoops
<1>3. /\ serving' = [serving EXCEPT ![h] = NoOp]
      /\ \E m \in {"leave", "wait"} : main' = [main EXCEPT ![h] = m]
  BY DEF Report, Step
<1>4. UNCHANGED <<desktop, process, toHelper, running, incoming, answers, approved,
                  stoppedAt, applied>>
  BY DEF Report, reader, history
<1>5. CancelGrows
  BY CancelsGrow DEF Report
<1>6. \A k \in Helpers, o \in Ops : Near(k, o)' => Near(k, o)
  BY <1>1, <1>3, <1>4 DEF Near, Named
<1>7. Ids' /\ Writers'
  BY <1>4, <1>6, NearShrinks
<1>8. Loops'
  BY <1>1, <1>2, <1>3, <1>4 DEF Safe, Loops, Engaged, Agreed
<1>9. Tidy'
  BY <1>1, <1>3, <1>4, <1>6 DEF Safe, Tidy, InPipe, RequestsLead
<1>10. Willed'
  BY <1>1, <1>3, <1>4 DEF Safe, Willed, InPipe, Agreed
<1>11. Halted'
  <2>1. ASSUME NEW k \in Helpers, NEW o \in stoppedAt, Due(k, o)'
        PROVE  Stopping(k, o)'
    <3>1. Due(k, o) /\ o \in Ops /\ (InPipe(Request(o), toHelper[k]) \/ running[k] = o
                                     \/ k # h)
      BY <1>1, <1>3, <1>4, <2>1 DEF Due, InPipe, Inv, HistoryTypes
    <3>2. Stopping(k, o)
      BY <3>1 DEF Safe, Halted
    <3>3. k = h => serving[k] # o
      BY <1>2, <3>1 DEF Safe, Tidy
    <3>4. CASE k = h
      BY <1>1, <1>3, <1>4, <1>5, <3>1, <3>2, <3>3, <3>4
         DEF Stopping, Ahead, InPipe, CancelGrows
    <3>5. CASE k # h
      BY <1>1, <1>3, <1>4, <1>5, <3>1, <3>2, <3>5
         DEF Stopping, Ahead, InPipe, CancelGrows
    <3> QED
      BY <3>4, <3>5
  <2> QED
    BY <1>4, <2>1 DEF Safe, Halted
<1> QED
  BY <1>7, <1>8, <1>9, <1>10, <1>11 DEF Safe

(* The process is gone, and what it was sent with it.                       *)
LEMMA SafeExited ==
  ASSUME Inv, Safe, NEW h \in Helpers, Exited(h)
  PROVE  Safe'
<1> USE OpsAssumption
<1>1. /\ main \in [Helpers -> Phases] /\ serving \in [Helpers -> Ops \cup {NoOp}]
      /\ incoming \in [Helpers -> Seq(Ops)] /\ running \in [Helpers -> Ops \cup {NoOp}]
      /\ process \in [Helpers -> {"none", "up", "exited"}]
      /\ toHelper \in [Helpers -> Seq(DesktopFrames)]
  BY DEF Inv, HelperTypes, LinkTypes
<1>2. /\ \A k \in Helpers : k # h => /\ toHelper'[k] = toHelper[k]
                                    /\ running'[k] = running[k]
                                    /\ serving'[k] = serving[k]
                                    /\ incoming'[k] = incoming[k]
                                    /\ main'[k] = main[k]
                                    /\ process'[k] = process[k]
      /\ toHelper'[h] = <<>> /\ running'[h] = NoOp /\ serving'[h] = NoOp
      /\ incoming'[h] = <<>> /\ main'[h] = "wait"
  BY <1>1 DEF Exited
<1>3. UNCHANGED <<desktop, cancel, answers, approved, stoppedAt, applied>>
  BY DEF Exited, flags, history
<1>4. \A o \in Ops : ~Near(h, o)' /\ ~Due(h, o)'
  BY <1>2 DEF Near, Named, Due, InPipe
<1>5. \A k \in Helpers : k # h => \A o : Near(k, o)' = Near(k, o)
  BY <1>2 DEF Near, Named
<1>6. Ids' /\ Writers'
  BY <1>3, <1>4, <1>5, NearShrinks
<1>7. Loops'
  BY <1>2 DEF Safe, Loops, Engaged, Agreed
<1>8. Tidy'
  <2>1. \A k, l \in Helpers, o \in Ops : Near(k, o)' /\ Near(l, o)' => k = l
    BY <1>4, <1>5 DEF Safe, Tidy
  <2>2. \A k \in Helpers, o \in Ops :
          InPipe(Request(o), toHelper'[k]) => running'[k] # o /\ serving'[k] # o
    BY <1>2 DEF Safe, Tidy
  <2>3. \A k \in Helpers : RequestsLead(toHelper'[k])
    <3>1. RequestsLead(<<>>)
      BY DEF RequestsLead
    <3> QED
      BY <1>2, <3>1 DEF Safe, Tidy
  <2> QED
    BY <2>1, <2>2, <2>3 DEF Tidy
<1>9. Willed'
  <2>1. \A o : ~InPipe(Go(o), <<>>)
    BY DEF InPipe
  <2> QED
    BY <1>2, <1>3, <2>1 DEF Safe, Willed, Agreed
<1>10. Halted'
  <2>1. ASSUME NEW k \in Helpers, NEW o \in stoppedAt, Due(k, o)'
        PROVE  Stopping(k, o)'
    <3>1. k # h /\ o \in Ops
      BY <1>4, <2>1 DEF Inv, HistoryTypes
    <3>2. Due(k, o)
      BY <1>2, <2>1, <3>1 DEF Due
    <3> QED
      BY <1>2, <1>3, <3>1, <3>2 DEF Safe, Halted, Stopping
  <2> QED
    BY <1>3, <2>1 DEF Safe, Halted
<1> QED
  BY <1>6, <1>7, <1>8, <1>9, <1>10 DEF Safe

(* The reader takes one frame.                                              *)
LEMMA SafeAccept ==
  ASSUME Inv, Safe, NEW h \in Helpers, Accept(h)
  PROVE  Safe'
<1> USE OpsAssumption
<1> DEFINE s == toHelper[h]
           f == Head(s)
           p == Tail(s)
<1>1. /\ toHelper \in [Helpers -> Seq(DesktopFrames)]
      /\ main \in [Helpers -> Phases] /\ serving \in [Helpers -> Ops \cup {NoOp}]
      /\ incoming \in [Helpers -> Seq(Ops)] /\ running \in [Helpers -> Ops \cup {NoOp}]
      /\ cancel \in [Ops -> BOOLEAN] /\ answers \in [Ops -> Seq(Answers)]
  BY DEF Inv, HelperTypes, LinkTypes
<1>2. s \in Seq(DesktopFrames) /\ s # <<>> /\ process[h] = "up"
  BY <1>1 DEF Accept, Serving
<1>3. /\ toHelper'[h] = p
      /\ \A k \in Helpers : k # h => toHelper'[k] = toHelper[k]
  BY <1>1 DEF Accept
<1>4. UNCHANGED <<desktop, process, main, serving, approved, stoppedAt, applied>>
  BY DEF Accept, loop, history
<1>5. \/ /\ f.type = "request" /\ running[h] = NoOp
         /\ running' = [running EXCEPT ![h] = f.op]
         /\ incoming' = [incoming EXCEPT ![h] = Append(@, f.op)]
         /\ UNCHANGED <<cancel, answers>>
      \/ /\ f.type = "request" /\ StopReading(h)
         /\ UNCHANGED <<running, incoming, answers>>
      \/ /\ f.type = "cancel"
         /\ cancel' = IF running[h] = f.op THEN [cancel EXCEPT ![f.op] = TRUE] ELSE cancel
         /\ UNCHANGED <<running, incoming, answers>>
      \/ /\ f.type = "answer"
         /\ answers' = IF running[h] = f.op
                       THEN [answers EXCEPT ![f.op] =
                               Append(@, [binding |-> f.binding, yes |-> f.yes])]
                       ELSE answers
         /\ UNCHANGED <<running, incoming, cancel>>
  BY DEF Accept, flags, reader
<1> HIDE DEF s
<1>6. /\ f \in DesktopFrames
      /\ p \in Seq(DesktopFrames)
      /\ \A x : InPipe(x, s) <=> InPipe(x, p) \/ x = f
      /\ \A o : Named(o, s) <=> Named(o, p) \/ f.op = o
      /\ RequestsLead(s) => RequestsLead(p) /\ ~InPipe(Request(f.op), p)
      /\ \A o : Ahead(o, s) => f = Cancel(o) \/ (Ahead(o, p) /\ f # Go(o))
  BY <1>2, TailPipe
<1>7. /\ f.op \in Ops
      /\ f.type = "request" => f = Request(f.op)
      /\ f.type = "cancel" => f = Cancel(f.op)
      /\ f.type = "answer" => f = Answer(f.op, f.binding, f.yes)
  <2> HIDE DEF f
  <2>1. CASE f \in {Request(o) : o \in Ops}
    BY <2>1 DEF Request
  <2>2. CASE f \in {Cancel(o) : o \in Ops}
    BY <2>2 DEF Cancel
  <2>3. CASE f \in {Answer(o, b, y) : o \in Ops, b \in Bindings, y \in BOOLEAN}
    BY <2>3 DEF Answer
  <2> QED
    BY <1>6, <2>1, <2>2, <2>3 DEF DesktopFrames
<1> HIDE DEF f, p
<1>8. /\ RequestsLead(p) /\ ~InPipe(Request(f.op), p)
      /\ f.type = "request" => running[h] # f.op /\ serving[h] # f.op
  BY <1>6, <1>7 DEF Safe, Tidy, s
<1>9. /\ \A k \in Helpers : k # h => running'[k] = running[k] /\ incoming'[k] = incoming[k]
      /\ \/ /\ f.type = "request" /\ running[h] = NoOp /\ running'[h] = f.op
            /\ incoming'[h] = Append(incoming[h], f.op)
         \/ running'[h] = running[h] /\ incoming'[h] = incoming[h]
  BY <1>1, <1>5
<1>10. \A k \in Helpers, o \in Ops : Near(k, o)' => Near(k, o)
  <2>1. \A o \in Ops : Near(h, o)' => Near(h, o)
    BY <1>3, <1>4, <1>6, <1>9 DEF Near, s
  <2>2. \A k \in Helpers, o \in Ops : k # h => (Near(k, o)' => Near(k, o))
    BY <1>3, <1>4, <1>9 DEF Near
  <2> QED
    BY <2>1, <2>2
<1>11. \A k \in Helpers, o \in Ops : Due(k, o)' => Due(k, o)
  <2>1. \A o \in Ops : Due(h, o)' => Due(h, o)
    BY <1>3, <1>4, <1>6, <1>7, <1>9 DEF Due, s
  <2>2. \A k \in Helpers, o \in Ops : k # h => (Due(k, o)' => Due(k, o))
    BY <1>3, <1>4, <1>9 DEF Due
  <2> QED
    BY <2>1, <2>2
<1>12. Ids' /\ Writers'
  BY <1>4, <1>10, NearShrinks
<1>13. Loops'
  <2>1. CASE running'[h] = running[h] /\ incoming'[h] = incoming[h]
    BY <1>2, <1>3, <1>4, <1>9, <2>1 DEF Safe, Loops
  <2>2. CASE /\ f.type = "request" /\ running[h] = NoOp /\ running'[h] = f.op
             /\ incoming'[h] = Append(incoming[h], f.op)
    <3>1. main[h] \in {"wait", "leave", "report"}
      <4>1. main[h] \in Engaged => running[h] = serving[h]
        BY DEF Safe, Loops
      <4>2. main[h] \in Engaged => serving[h] \in Ops
        BY DEF Inv, MainLoops, Engaged, Agreed
      <4>3. main[h] \in Phases
        BY <1>1
      <4> QED
        BY <2>2, <4>1, <4>2, <4>3 DEF Phases, Bindings, Engaged, Agreed
    <3>2. incoming[h] = <<>>
      BY <2>2, <3>1 DEF Safe, Loops
    <3>3. incoming'[h] = <<f.op>> /\ f.op # NoOp /\ serving[h] # f.op
      BY <1>7, <1>8, <2>2, <3>2
    <3>4. main[h] \notin Engaged
      BY <3>1 DEF Engaged, Agreed
    <3> DEFINE Part(k) ==
          /\ process[k] # "up" => /\ toHelper[k] = <<>> /\ running[k] = NoOp
                                  /\ serving[k] = NoOp /\ incoming[k] = <<>>
                                  /\ main[k] = "wait"
          /\ main[k] \in Engaged => running[k] = serving[k] /\ incoming[k] = <<>>
          /\ main[k] \in {"wait", "leave"} => serving[k] = NoOp
          /\ main[k] \in {"wait", "leave", "report"}
               => incoming[k] = IF running[k] = NoOp THEN <<>> ELSE <<running[k]>>
          /\ main[k] = "report" => running[k] # serving[k]
    <3>5. Part(h)'
      BY <1>2, <1>4, <2>2, <3>3, <3>4 DEF Safe, Loops
    <3>6. \A k \in Helpers : k # h => Part(k)'
      BY <1>3, <1>4, <1>9 DEF Safe, Loops
    <3> QED
      BY <3>5, <3>6 DEF Loops
  <2> QED
    BY <1>9, <2>1, <2>2
<1>14. Tidy'
  <2>1. \A k, l \in Helpers, o \in Ops : Near(k, o)' /\ Near(l, o)' => k = l
    BY <1>10 DEF Safe, Tidy
  <2>2. ASSUME NEW k \in Helpers, NEW o \in Ops, InPipe(Request(o), toHelper'[k])
        PROVE  running'[k] # o /\ serving'[k] # o
    <3>1. CASE k # h
      BY <1>3, <1>4, <1>9, <2>2, <3>1 DEF Safe, Tidy
    <3>2. CASE k = h
      <4>1. InPipe(Request(o), s) /\ o # f.op
        BY <1>3, <1>6, <1>8, <2>2, <3>2
      <4> QED
        BY <1>4, <1>9, <3>2, <4>1 DEF Safe, Tidy, s
    <3> QED
      BY <3>1, <3>2
  <2>3. \A k \in Helpers : RequestsLead(toHelper'[k])
    BY <1>3, <1>8 DEF Safe, Tidy
  <2> QED
    BY <2>1, <2>2, <2>3 DEF Tidy
<1>15. ASSUME NEW o \in Ops, InPipe(Yes, answers'[o]), ~InPipe(Yes, answers[o])
       PROVE  f = Go(o)
  <2> DEFINE a == [binding |-> f.binding, yes |-> f.yes]
             r == answers[o]
  <2>1. o = f.op /\ f.type = "answer" /\ answers'[o] = Append(r, a)
    BY <1>1, <1>5, <1>7, <1>15
  <2>2. r \in Seq(Answers) /\ a \in Answers
    <3>1. f.binding \in Bindings /\ f.yes \in BOOLEAN
      BY <1>6, <2>1, DesktopFrameFields
    <3> QED
      BY <1>1, <3>1 DEF Answers
  <2> HIDE DEF r, a
  <2>3. PICK i \in 1 .. Len(Append(r, a)) : Append(r, a)[i] = Yes
    BY <1>15, <2>1 DEF InPipe
  <2>4. i = Len(r) + 1 \/ (i \in 1 .. Len(r) /\ r[i] = Yes)
    BY <2>2, <2>3
  <2>5. a = Yes
    BY <1>15, <2>2, <2>3, <2>4 DEF InPipe, r
  <2> QED
    BY <1>7, <2>1, <2>5 DEF Yes, Go, a
<1>16. Willed'
  <2>1. ASSUME NEW k \in Helpers, NEW o \in Ops, InPipe(Go(o), toHelper'[k])
        PROVE  o \in approved
    <3>1. InPipe(Go(o), toHelper[k])
      BY <1>3, <1>6, <2>1 DEF s
    <3> QED
      BY <3>1 DEF Safe, Willed
  <2>2. ASSUME NEW o \in Ops, InPipe(Yes, answers'[o])
        PROVE  o \in approved
    <3>1. CASE InPipe(Yes, answers[o])
      BY <3>1 DEF Safe, Willed
    <3>2. CASE ~InPipe(Yes, answers[o])
      <4>1. f = Go(o)
        BY <1>15, <2>2, <3>2
      <4>2. InPipe(Go(o), toHelper[h])
        BY <1>6, <4>1 DEF s
      <4> QED
        BY <4>2 DEF Safe, Willed
    <3> QED
      BY <3>1, <3>2
  <2> QED
    BY <1>4, <2>1, <2>2 DEF Safe, Willed
<1>17. CancelGrows
  BY <1>1, <1>5, CancelsGrow DEF CancelGrows
<1>18. Halted'
  <2>1. ASSUME NEW k \in Helpers, NEW o \in stoppedAt, Due(k, o)'
        PROVE  Stopping(k, o)'
    <3>1. Due(k, o) /\ o \in Ops
      BY <1>11, <2>1 DEF Inv, HistoryTypes
    <3>2. Stopping(k, o)
      BY <3>1 DEF Safe, Halted
    <3>3. CASE cancel[o]
      BY <1>17, <3>1, <3>3 DEF Stopping, CancelGrows
    <3>4. CASE serving[k] = o /\ main[k] \in {"clear", "report"}
      BY <1>4, <3>4 DEF Stopping
    <3>5. CASE /\ Ahead(o, toHelper[k]) /\ ~InPipe(Yes, answers[o])
               /\ serving[k] = o => main[k] \notin Agreed
      <4>1. CASE k # h
        <5>1. f # Go(o)
          <6> SUFFICES ASSUME f = Go(o)
                       PROVE  FALSE
            OBVIOUS
          <6>1. Near(h, o)
            BY <1>6 DEF Near, Go, Answer, s
          <6>2. Near(k, o)
            BY <3>1, DueIsNear
          <6> QED
            BY <3>1, <4>1, <6>1, <6>2 DEF Safe, Tidy
        <5> QED
          BY <1>3, <1>4, <1>15, <3>1, <3>5, <4>1, <5>1 DEF Stopping
      <4>2. CASE k = h /\ Ahead(o, p) /\ f # Go(o)
        BY <1>3, <1>4, <1>15, <3>1, <3>5, <4>2 DEF Stopping
      <4>3. CASE k = h /\ f = Cancel(o)
        <5>1. f.op = o /\ f.type = "cancel"
          BY <4>3 DEF Cancel
        <5>2. CASE running[h] = o
          BY <1>1, <1>5, <3>1, <5>1, <5>2 DEF Stopping
        <5>3. CASE running[h] # o
          <6>1. ~InPipe(Request(o), p) /\ running'[h] = running[h]
            BY <1>8, <1>9, <5>1
          <6>2. serving[h] = o
            BY <1>3, <1>4, <2>1, <4>3, <5>3, <6>1 DEF Due
          <6>3. main[h] \notin Engaged /\ main[h] \notin {"wait", "leave"}
            BY <3>1, <5>3, <6>2 DEF Safe, Loops
          <6>4. main[h] = "report"
            BY <1>1, <6>3 DEF Phases, Bindings, Engaged, Agreed
          <6> QED
            BY <1>4, <4>3, <6>2, <6>4 DEF Stopping
        <5> QED
          BY <5>2, <5>3
      <4> QED
        BY <1>6, <3>5, <4>1, <4>2, <4>3 DEF s
    <3> QED
      BY <3>2, <3>3, <3>4, <3>5 DEF Stopping
  <2> QED
    BY <1>4, <2>1 DEF Safe, Halted
<1> QED
  BY <1>12, <1>13, <1>14, <1>16, <1>18 DEF Safe

-----------------------------------------------------------------------------
(* Every step, and the theorem.                                             *)

LEMMA SafeHelper ==
  ASSUME Inv, Safe, NEW h \in Helpers,
         Reader(h) \/ MainLoop(h) \/ Die(h) \/ Noticed(h)
  PROVE  Safe'
<1>1. CASE Accept(h)
  BY <1>1, SafeAccept
<1>2. CASE Disconnected(h) \/ Progress(h) \/ Noticed(h)
  <2>1. CancelGrows
    BY <1>2, CancelsGrow DEF Disconnected, Progress, Noticed, flags
  <2>2. UNCHANGED <<desktop, process, toHelper, running, incoming, main, serving,
                    answers, approved, stoppedAt, applied>>
    BY <1>2 DEF Disconnected, Progress, Noticed, link, reader, loop, flags, history
  <2> QED
    BY <2>1, <2>2, FlagStep
<1>3. CASE Prepare(h) \/ Answered(h) \/ Unanswered(h) \/ Apply(h) \/ Applied(h)
  BY <1>3, SafeMoves
<1>4. CASE Take(h)
  BY <1>4, SafeTake
<1>5. CASE Clear(h)
  BY <1>5, SafeClear
<1>6. CASE Report(h)
  BY <1>6, SafeReport
<1>7. CASE Exit(h) \/ Die(h)
  BY <1>7, SafeExited DEF Exit, Die
<1> QED
  BY <1>1, <1>2, <1>3, <1>4, <1>5, <1>6, <1>7 DEF Reader, MainLoop

LEMMA EmptyPipe ==
  /\ \A x : ~InPipe(x, <<>>) /\ ~Named(x, <<>>)
  /\ RequestsLead(<<>>)
<1>1. \A i : i \notin 1 .. Len(<<>>)
  OBVIOUS
<1> QED
  BY <1>1 DEF InPipe, Named, RequestsLead

LEMMA SafeInit == Init => Safe
<1> SUFFICES ASSUME Init
             PROVE  Safe
  OBVIOUS
<1> USE OpsAssumption DEF Init
<1>8. /\ \A h \in Helpers : toHelper[h] = <<>> /\ running[h] = NoOp /\ serving[h] = NoOp
      /\ \A o \in Ops : answers[o] = <<>>
  OBVIOUS
<1>9. (\A x : ~InPipe(x, <<>>) /\ ~Named(x, <<>>)) /\ RequestsLead(<<>>)
  BY EmptyPipe
<1>1. \A h \in Helpers, o \in Ops : ~Near(h, o) /\ ~Due(h, o)
  BY <1>8, <1>9 DEF Near, Due
<1>2. Loops
  BY DEF Loops, Engaged, Agreed
<1>3. Tidy
  BY <1>1, <1>8, <1>9 DEF Tidy
<1>4. Ids
  BY <1>1 DEF Ids, Early, Threads
<1>5. Writers
  BY DEF Writers, Threads
<1>6. Willed
  BY <1>8, <1>9 DEF Willed, Agreed
<1>7. Halted
  BY DEF Halted
<1> QED
  BY <1>2, <1>3, <1>4, <1>5, <1>6, <1>7 DEF Safe

LEMMA SafeNext == Inv /\ Safe /\ [Next]_vars => Safe'
<1> SUFFICES ASSUME Inv, Safe, [Next]_vars
             PROVE  Safe'
  OBVIOUS
<1>1. CASE Next
  BY <1>1, SafeUser, SafeReply, SafeAside, SafeExchange, SafeHelper DEF Next, Worker
<1>2. CASE UNCHANGED vars
  <2>1. CancelGrows
    BY <1>2 DEF CancelGrows, vars, helper, flags
  <2> QED
    BY <1>2, <2>1, FlagStep DEF vars, helper, link, reader, loop, flags, history
<1> QED
  BY <1>1, <1>2

LEMMA SafeGivesProperties == Safe => OnlyApproved
BY DEF Safe, Willed, Halted, OnlyApproved

(* Whatever the number of operations and of helpers, nothing is changed that *)
(* the user did not approve, nor for an operation stopped before that.       *)
THEOREM SessionChangesApproved == Spec => []OnlyApproved
<1> QED
  BY InvInit, InvNext, SafeInit, SafeNext, SafeGivesProperties, PTL DEF Spec

-----------------------------------------------------------------------------
(* Whose frames the desktop reads.  The invariant says when a session is at  *)
(* rest, what an exchange may find in its pipe, and where the plan is that   *)
(* waits for its approval.                                                   *)

Exchanging == {"register", "read", "ask"}

Mine(o, pipe) == \A i \in 1 .. Len(pipe) : pipe[i].op = o
Ended(pipe) == \E i \in 1 .. Len(pipe) : pipe[i].type = "end"
EndsLast(pipe) == \A i \in 1 .. Len(pipe) : pipe[i].type = "end" => i = Len(pipe)
Once(x, pipe) == \A i, j \in 1 .. Len(pipe) : pipe[i] = x /\ pipe[j] = x => i = j

PlanAsk(o) == Ask(o, "plan")
Plans(pipe) ==
  \A i \in 1 .. Len(pipe) :
    pipe[i].type = "ask" /\ pipe[i].binding = "plan"
      => pipe[i] = PlanAsk(pipe[i].op) /\ pipe[i].op \in Changes

Quiet(h) == toDesktop[h] = <<>> /\ \A o \in Ops : ~Due(h, o)

(* A session nobody holds, or that is about to be used, is at rest.         *)
Rests ==
  /\ \A h \in Helpers : process[h] = "none" => toDesktop[h] = <<>>
  /\ session # NoHelper /\ lock = "free" => Quiet(session) /\ keeps
  /\ lock = "admin" \/ pc["fg"] = "launch" => session = NoHelper
  /\ \A t \in Threads : pc[t] \in {"send", "keep"} => Quiet(session)
  /\ admin \/ pc["bg"] # "none" \/ pc["fg"] = "keep" => keeps

(* An exchange reads its own frames, the outcome last.                      *)
Owns ==
  /\ \A h \in Helpers, o, p \in Ops : Due(h, o) /\ Due(h, p) => o = p
  /\ \A t \in Threads : pc[t] \in Exchanging =>
       /\ \A o \in Ops : Due(session, o) => o = op[t]
       /\ Mine(op[t], toDesktop[session])
       /\ EndsLast(toDesktop[session])
       /\ Ended(toDesktop[session]) => ~Due(session, op[t])

(* The plan of operation o has still to be asked about.                     *)
Unasked(h, o) ==
  \/ InPipe(Request(o), toHelper[h])
  \/ running[h] = o /\ serving[h] # o
  \/ serving[h] = o /\ main[h] = "prepare"

(* A change is asked about once, and only then approved and begun.          *)
AsksOnce ==
  /\ approved \subseteq used
  /\ \A h \in Helpers : Plans(toDesktop[h])
  /\ \A t \in Threads : pc[t] \in Early => op[t] \notin approved
  /\ \A h \in Helpers, o \in Ops : Unasked(h, o) => o \notin approved
  /\ \A h \in Helpers : main[h] \in {"plan", "approved"} => serving[h] \notin applied
  /\ pc["fg"] = "ask" /\ asked = "plan" =>
       /\ op["fg"] \in Changes \ approved /\ ~Unasked(session, op["fg"])
       /\ ~InPipe(PlanAsk(op["fg"]), toDesktop[session])
  /\ pc["fg"] \in Exchanging /\ InPipe(PlanAsk(op["fg"]), toDesktop[session]) =>
       /\ op["fg"] \notin approved /\ ~Unasked(session, op["fg"])
       /\ Once(PlanAsk(op["fg"]), toDesktop[session])

(* An approved operation that is not over is the one the window waits for.  *)
Watches ==
  ~gone => \A h \in Helpers, o \in approved :
             Due(h, o) => pc["fg"] \in {"read", "ask"} /\ session = h /\ op["fg"] = o

Talk == Rests /\ Owns /\ AsksOnce /\ Watches

(* What a helper's write changes.                                           *)
LEMMA AppendFrames ==
  ASSUME NEW s \in Seq(HelperFrames), NEW f \in HelperFrames
  PROVE  /\ \A x : InPipe(x, Append(s, f)) <=> InPipe(x, s) \/ x = f
         /\ \A o : Mine(o, s) /\ f.op = o => Mine(o, Append(s, f))
         /\ Ended(Append(s, f)) <=> Ended(s) \/ f.type = "end"
         /\ ~Ended(s) => EndsLast(Append(s, f))
         /\ /\ Plans(s)
            /\ f.type = "ask" /\ f.binding = "plan" => f = PlanAsk(f.op) /\ f.op \in Changes
            => Plans(Append(s, f))
         /\ \A x : Once(x, s) /\ ~(x = f /\ InPipe(x, s)) => Once(x, Append(s, f))
<1> DEFINE n == Len(s)
           p == Append(s, f)
<1>1. /\ n \in Nat /\ Len(p) = n + 1 /\ p[n + 1] = f
      /\ \A i \in 1 .. n : p[i] = s[i]
  OBVIOUS
<1>2. \A i \in 1 .. n + 1 : i \in 1 .. n \/ i = n + 1
  BY <1>1
<1>3. 1 .. n \subseteq 1 .. n + 1 /\ n + 1 \in 1 .. n + 1
  BY <1>1
<1> HIDE DEF n, p
<1>4. \A x : InPipe(x, p) <=> InPipe(x, s) \/ x = f
  BY <1>1, <1>2, <1>3 DEF InPipe, n
<1>5. \A o : Mine(o, s) /\ f.op = o => Mine(o, p)
  BY <1>1, <1>2, <1>3 DEF Mine, n
<1>6. Ended(p) <=> Ended(s) \/ f.type = "end"
  BY <1>1, <1>2, <1>3 DEF Ended, n
<1>7. ~Ended(s) => EndsLast(p)
  BY <1>1, <1>2, <1>3 DEF Ended, EndsLast, n
<1>8. /\ Plans(s)
      /\ f.type = "ask" /\ f.binding = "plan" => f = PlanAsk(f.op) /\ f.op \in Changes
      => Plans(p)
  BY <1>1, <1>2, <1>3 DEF Plans, n
<1>9. \A x : Once(x, s) /\ ~(x = f /\ InPipe(x, s)) => Once(x, p)
  BY <1>1, <1>2, <1>3 DEF Once, InPipe, n
<1> QED
  BY <1>4, <1>5, <1>6, <1>7, <1>8, <1>9 DEF p

(* What reading a helper's frame changes.                                   *)
LEMMA TailFrames ==
  ASSUME NEW s \in Seq(HelperFrames), s # <<>>
  PROVE  /\ Head(s) \in HelperFrames
         /\ Tail(s) \in Seq(HelperFrames)
         /\ \A x : InPipe(x, s) <=> InPipe(x, Tail(s)) \/ x = Head(s)
         /\ \A o : Mine(o, s) => Mine(o, Tail(s)) /\ Head(s).op = o
         /\ Ended(s) <=> Ended(Tail(s)) \/ Head(s).type = "end"
         /\ EndsLast(s) => EndsLast(Tail(s)) /\ (Head(s).type = "end" => Tail(s) = <<>>)
         /\ Plans(s) =>
              /\ Plans(Tail(s))
              /\ Head(s).type = "ask" /\ Head(s).binding = "plan"
                   => Head(s) = PlanAsk(Head(s).op) /\ Head(s).op \in Changes
         /\ \A x : Once(x, s) => Once(x, Tail(s)) /\ (x = Head(s) => ~InPipe(x, Tail(s)))
<1> DEFINE n == Len(s)
           p == Tail(s)
           g == Head(s)
<1>1. /\ n \in Nat \ {0} /\ Len(p) = n - 1 /\ g = s[1]
      /\ \A i \in 1 .. n - 1 : p[i] = s[i + 1]
      /\ g \in HelperFrames /\ p \in Seq(HelperFrames)
  OBVIOUS
<1>2. /\ \A i \in 1 .. n : i = 1 \/ (i - 1 \in 1 .. n - 1 /\ (i - 1) + 1 = i)
      /\ \A i \in 1 .. n - 1 : i + 1 \in 1 .. n
      /\ 1 \in 1 .. n
  <2>1. \A i \in 1 .. n : i = 1 \/ (i - 1 \in 1 .. n - 1 /\ (i - 1) + 1 = i)
    BY <1>1
  <2>2. \A i \in 1 .. n - 1 : i + 1 \in 1 .. n
    BY <1>1
  <2> QED
    BY <1>1, <2>1, <2>2
<1>3. \A i \in 1 .. n : i = 1 \/ s[i] = p[i - 1]
  BY <1>1, <1>2
<1> HIDE DEF n, p, g
<1>4. n - 1 = 0 => p = <<>>
  <2>1. \A q \in Seq(HelperFrames) : Len(q) = 0 => q = <<>>
    OBVIOUS
  <2> QED
    BY <1>1, <2>1
<1>5. \A x : InPipe(x, s) <=> InPipe(x, p) \/ x = g
  <2> TAKE x
  <2>1. InPipe(x, s) => InPipe(x, p) \/ x = g
    BY <1>1, <1>2, <1>3 DEF InPipe, n
  <2>2. InPipe(x, p) => InPipe(x, s)
    BY <1>1, <1>2 DEF InPipe, n
  <2>3. x = g => InPipe(x, s)
    BY <1>1, <1>2 DEF InPipe, n
  <2> QED
    BY <2>1, <2>2, <2>3
<1>6. \A o : Mine(o, s) => Mine(o, p) /\ g.op = o
  BY <1>1, <1>2 DEF Mine, n
<1>7. Ended(s) <=> Ended(p) \/ g.type = "end"
  <2>1. Ended(s) => Ended(p) \/ g.type = "end"
    BY <1>1, <1>2, <1>3 DEF Ended, n
  <2>2. Ended(p) => Ended(s)
    BY <1>1, <1>2 DEF Ended, n
  <2>3. g.type = "end" => Ended(s)
    BY <1>1, <1>2 DEF Ended, n
  <2> QED
    BY <2>1, <2>2, <2>3
<1>8. EndsLast(s) => EndsLast(p) /\ (g.type = "end" => p = <<>>)
  <2>1. ASSUME EndsLast(s), NEW i \in 1 .. n - 1, p[i].type = "end"
        PROVE  i = n - 1
    <3>1. i + 1 = n
      BY <1>1, <1>2, <2>1 DEF EndsLast, n
    <3> QED
      BY <1>1, <1>2, <3>1
  <2>2. EndsLast(s) /\ g.type = "end" => p = <<>>
    BY <1>1, <1>2, <1>4 DEF EndsLast, n
  <2> QED
    BY <1>1, <2>1, <2>2 DEF EndsLast
<1>9. Plans(s) => /\ Plans(p)
                  /\ g.type = "ask" /\ g.binding = "plan" => g = PlanAsk(g.op) /\ g.op \in Changes
  BY <1>1, <1>2 DEF Plans, n
<1>10. ASSUME NEW x, Once(x, s)
       PROVE  Once(x, p) /\ (x = g => ~InPipe(x, p))
  <2>1. ASSUME NEW i \in 1 .. n - 1, NEW j \in 1 .. n - 1, p[i] = x, p[j] = x
        PROVE  i = j
    <3>1. i + 1 = j + 1
      BY <1>1, <1>2, <1>10, <2>1 DEF Once, n
    <3> QED
      BY <1>2, <3>1
  <2>2. ASSUME x = g, NEW i \in 1 .. n - 1, p[i] = x
        PROVE  FALSE
    <3>1. i + 1 = 1
      BY <1>1, <1>2, <1>10, <2>2 DEF Once, n
    <3> QED
      BY <1>1, <1>2, <3>1
  <2> QED
    BY <1>1, <2>1, <2>2 DEF Once, InPipe
<1> QED
  BY <1>1, <1>5, <1>6, <1>7, <1>8, <1>9, <1>10 DEF p, g

LEMMA EmptyFrames ==
  /\ \A x : ~InPipe(x, <<>>) /\ Once(x, <<>>) /\ Mine(x, <<>>)
  /\ ~Ended(<<>>) /\ EndsLast(<<>>) /\ Plans(<<>>)
<1>1. \A i : i \notin 1 .. Len(<<>>)
  OBVIOUS
<1> QED
  BY <1>1 DEF InPipe, Once, Mine, Ended, EndsLast, Plans

-----------------------------------------------------------------------------
(* Only a request makes a helper owe an operation.                          *)

Dwindle ==
  \A h \in Helpers, o \in Ops :
    (Due(h, o)' => Due(h, o)) /\ (Unasked(h, o)' => Unasked(h, o))

LEMMA DwindleKept ==
  ASSUME UNCHANGED <<toHelper, running, serving, main>>
  PROVE  Dwindle
BY DEF Dwindle, Due, Unasked, InPipe

LEMMA DwindleWrite ==
  ASSUME Inv, NEW k, NEW f \in DesktopFrames, Write(k, f), f.type # "request",
         UNCHANGED <<running, serving, main>>
  PROVE  Dwindle
<1>1. \A h \in Helpers : toHelper[h] \in Seq(DesktopFrames)
  BY DEF Inv, LinkTypes
<1>2. toHelper \in [Helpers -> Seq(DesktopFrames)]
  BY DEF Inv, LinkTypes
<1>3. ASSUME NEW h \in Helpers, NEW o \in Ops, InPipe(Request(o), toHelper'[h])
      PROVE  InPipe(Request(o), toHelper[h])
  <2>1. f # Request(o)
    BY DEF Request
  <2>2. CASE toHelper'[h] = toHelper[h]
    BY <1>3, <2>2
  <2>3. CASE toHelper'[h] = Append(toHelper[h], f)
    <3> DEFINE s == toHelper[h]
    <3>1. s \in Seq(DesktopFrames) /\ InPipe(Request(o), Append(s, f))
      BY <1>1, <1>3, <2>3
    <3> HIDE DEF s
    <3>2. InPipe(Request(o), s)
      BY <2>1, <3>1, AppendPipe
    <3> QED
      BY <3>2 DEF s
  <2> QED
    BY <1>2, <2>2, <2>3 DEF Write
<1> QED
  BY <1>3 DEF Dwindle, Due, Unasked

LEMMA DwindleStop ==
  ASSUME Inv, RequestStop, UNCHANGED <<running, serving, main>>
  PROVE  Dwindle
<1>1. CASE UNCHANGED toHelper
  BY <1>1, DwindleKept
<1>2. CASE bgWriter # NoHelper /\ Write(bgWriter, Cancel(bgId))
  <2>1. bgId \in Ops
    BY <1>2 DEF Inv, Workers
  <2>2. Cancel(bgId) \in DesktopFrames /\ Cancel(bgId).type # "request"
    BY <2>1, FramesAreFrames DEF Cancel
  <2> QED
    BY <1>2, <2>2, DwindleWrite
<1> QED
  BY <1>1, <1>2 DEF RequestStop

LEMMA DwindleDesktop ==
  ASSUME Inv, Safe,
         User \/ Reply \/ Aside \/ \E t \in Threads : Exchange(t) /\ ~Send(t)
  PROVE  Dwindle /\ UNCHANGED <<running, serving, main, applied>>
<1> USE DEF Threads
<1>1. CASE Stop
  <2>1. fgWriter # NoHelper => fgId \in Ops
    BY DEF Inv, Workers
  <2>2. fgId \in Ops => Cancel(fgId) \in DesktopFrames /\ Cancel(fgId).type # "request"
    BY FramesAreFrames DEF Cancel
  <2>3. UNCHANGED <<running, serving, main, applied>>
    BY <1>1 DEF Stop, reader, loop
  <2> QED
    BY <1>1, <2>1, <2>2, <2>3, DwindleWrite, DwindleKept DEF Stop
<1>2. CASE ReplaceCheck \/ StopCheckFirst
  <2>1. RequestStop /\ UNCHANGED <<running, serving, main, applied>>
    BY <1>2 DEF ReplaceCheck, StopCheckFirst, reader, loop, history
  <2> QED
    BY <2>1, DwindleStop
<1>3. ASSUME NEW yes \in BOOLEAN, AnswerAsk(yes)
      PROVE  Dwindle /\ UNCHANGED <<running, serving, main, applied>>
  <2>1. op["fg"] \in Ops /\ asked \in Bindings
    BY <1>3 DEF AnswerAsk, Inv, Workers
  <2>2. /\ Answer(op["fg"], asked, yes) \in DesktopFrames
        /\ Answer(op["fg"], asked, yes).type # "request"
    BY <2>1, FramesAreFrames DEF Answer
  <2>3. UNCHANGED <<running, serving, main, applied>>
    BY <1>3 DEF AnswerAsk, reader, loop
  <2> QED
    BY <1>3, <2>2, <2>3, DwindleWrite DEF AnswerAsk
<1>4. ASSUME NEW t \in Threads, Register(t)
      PROVE  Dwindle /\ UNCHANGED <<running, serving, main, applied>>
  <2>1. op[t] \in Ops
    BY <1>4 DEF Register, Inv, Workers
  <2>2. Cancel(op[t]) \in DesktopFrames /\ Cancel(op[t]).type # "request"
    BY <2>1, FramesAreFrames DEF Cancel
  <2>3. UNCHANGED <<running, serving, main, applied>>
    BY <1>4 DEF Register, reader, loop, history
  <2> QED
    BY <1>4, <2>2, <2>3, DwindleWrite, DwindleKept DEF Register
<1>5. ASSUME NEW t \in Threads, ReadAsk(t)
      PROVE  Dwindle /\ UNCHANGED <<running, serving, main, applied>>
  <2>1. op[t] \in Ops
    BY <1>5 DEF ReadAsk, Reading, Inv, Workers
  <2>2. NextFrame.binding \in Bindings
    BY <1>5, ReadTypes, HelperFrameFields DEF ReadAsk
  <2> DEFINE f == Answer(op[t], NextFrame.binding, FALSE)
  <2>3. f \in DesktopFrames /\ f.type # "request"
    BY <2>1, <2>2, FramesAreFrames DEF Answer
  <2>4. UNCHANGED <<running, serving, main, applied>>
    BY <1>5 DEF ReadAsk, reader, loop, history
  <2>5. UNCHANGED toHelper \/ Write(session, f)
    BY <1>5 DEF ReadAsk
  <2> HIDE DEF f
  <2> QED
    BY <2>3, <2>4, <2>5, DwindleWrite, DwindleKept
<1>6. CASE AskAdmin \/ PlanChanged \/ Leave \/ \E o \in Ops : Begin(o) \/ BeginCheck(o)
  BY <1>6, DwindleKept
     DEF AskAdmin, PlanChanged, Leave, Begin, BeginCheck, helper, link, reader, loop, history
<1>7. CASE AdminAnswered \/ Launch
  BY <1>7, DwindleKept
     DEF AdminAnswered, Launch, Launched, helper, link, reader, loop, history
<1>8. CASE Acquire \/ TrySession \/ Blocked \/ Finish \/ FinishCheck
  BY <1>8, DwindleKept
     DEF Acquire, TrySession, Blocked, Finish, FinishCheck, helper, link, reader, loop,
         history
<1>9. ASSUME NEW t \in Threads, ReadEvent(t) \/ ReadEnd(t) \/ ReadClosed(t) \/ Release(t)
      PROVE  Dwindle /\ UNCHANGED <<running, serving, main, applied>>
  BY <1>9, DwindleKept
     DEF ReadEvent, ReadEnd, ReadClosed, Release, helper, link, reader, loop, history
<1> QED
  BY <1>1, <1>2, <1>3, <1>4, <1>5, <1>6, <1>7, <1>8, <1>9
     DEF User, Reply, Aside, Exchange

LEMMA DwindleHelper ==
  ASSUME Inv, Safe, NEW h \in Helpers,
         Reader(h) \/ MainLoop(h) \/ Die(h) \/ Noticed(h)
  PROVE  Dwindle
<1> USE OpsAssumption
<1>1. /\ toHelper \in [Helpers -> Seq(DesktopFrames)]
      /\ main \in [Helpers -> Phases] /\ serving \in [Helpers -> Ops \cup {NoOp}]
      /\ incoming \in [Helpers -> Seq(Ops)] /\ running \in [Helpers -> Ops \cup {NoOp}]
  BY DEF Inv, HelperTypes, LinkTypes
<1>2. CASE Accept(h)
  <2> DEFINE s == toHelper[h]
             f == Head(s)
             p == Tail(s)
  <2>1. s \in Seq(DesktopFrames) /\ s # <<>>
    BY <1>1, <1>2 DEF Accept
  <2>2. /\ toHelper'[h] = p /\ \A k \in Helpers : k # h => toHelper'[k] = toHelper[k]
        /\ UNCHANGED <<serving, main>>
        /\ \/ running' = running
           \/ f.type = "request" /\ running' = [running EXCEPT ![h] = f.op]
    BY <1>1, <1>2 DEF Accept, loop, reader, flags
  <2> HIDE DEF s
  <2>3. f \in DesktopFrames /\ \A x : InPipe(x, s) <=> InPipe(x, p) \/ x = f
    BY <2>1, TailPipe
  <2>4. f.type = "request" => f.op \in Ops /\ f = Request(f.op)
    <3> HIDE DEF f
    <3>1. CASE f \in {Request(o) : o \in Ops}
      BY <3>1 DEF Request
    <3>2. CASE f \notin {Request(o) : o \in Ops}
      BY <2>3, <3>2 DEF DesktopFrames, Cancel, Answer
    <3> QED
      BY <3>1, <3>2
  <2> HIDE DEF f, p
  <2>5. \A o \in Ops : (Due(h, o)' => Due(h, o)) /\ (Unasked(h, o)' => Unasked(h, o))
    <3> TAKE o \in Ops
    <3>1. InPipe(Request(o), toHelper'[h]) => InPipe(Request(o), toHelper[h])
      BY <2>2, <2>3 DEF s
    <3>2. running'[h] = o => running[h] = o \/ InPipe(Request(o), toHelper[h])
      BY <1>1, <2>2, <2>3, <2>4 DEF s
    <3> QED
      BY <2>2, <3>1, <3>2 DEF Due, Unasked
  <2>6. \A k \in Helpers : k # h => running'[k] = running[k]
    BY <1>1, <2>2
  <2>7. \A k \in Helpers, o \in Ops :
          k # h => (Due(k, o)' => Due(k, o)) /\ (Unasked(k, o)' => Unasked(k, o))
    BY <2>2, <2>6 DEF Due, Unasked
  <2> QED
    BY <2>5, <2>7 DEF Dwindle
<1>3. CASE Disconnected(h) \/ Progress(h) \/ Noticed(h)
  BY <1>3, DwindleKept DEF Disconnected, Progress, Noticed, link, loop, reader
<1>4. CASE Prepare(h) \/ Answered(h) \/ Unanswered(h) \/ Apply(h) \/ Applied(h)
  <2>1. /\ UNCHANGED <<toHelper, running, serving>>
        /\ \E m \in Phases \ {"prepare"} : main' = [main EXCEPT ![h] = m]
    BY <1>4 DEF Prepare, Answered, Unanswered, Apply, Applied, Ends, Step, link, reader,
                Phases, Bindings
  <2> QED
    BY <1>1, <2>1 DEF Dwindle, Due, Unasked, InPipe
<1>5. CASE Take(h)
  <2>1. /\ serving[h] = NoOp /\ incoming[h] = <<running[h]>> /\ running[h] # NoOp
    BY <1>5 DEF Take, At, Serving, Safe, Loops
  <2>2. Head(incoming[h]) = running[h]
    BY <2>1
  <2>3. /\ UNCHANGED <<toHelper, running>>
        /\ serving' = [serving EXCEPT ![h] = running[h]]
        /\ main' = [main EXCEPT ![h] = "prepare"]
    BY <1>5, <2>2 DEF Take, Step, link
  <2> QED
    BY <1>1, <2>1, <2>3 DEF Dwindle, Due, Unasked, InPipe
<1>6. CASE Clear(h)
  <2>1. /\ UNCHANGED <<toHelper, serving>>
        /\ running' = [running EXCEPT ![h] = NoOp]
        /\ main' = [main EXCEPT ![h] = "report"]
    BY <1>6 DEF Clear, Step, link
  <2> QED
    BY <1>1, <2>1 DEF Dwindle, Due, Unasked, InPipe
<1>7. CASE Report(h)
  <2>1. /\ UNCHANGED <<toHelper, running>>
        /\ serving' = [serving EXCEPT ![h] = NoOp]
        /\ \E m \in {"leave", "wait"} : main' = [main EXCEPT ![h] = m]
        /\ running[h] # serving[h]
    BY <1>7 DEF Report, Step, reader, At, Safe, Loops
  <2> QED
    BY <1>1, <2>1 DEF Dwindle, Due, Unasked, InPipe
<1>8. CASE Exit(h) \/ Die(h)
  <2>1. /\ toHelper' = [toHelper EXCEPT ![h] = <<>>]
        /\ running' = [running EXCEPT ![h] = NoOp]
        /\ serving' = [serving EXCEPT ![h] = NoOp]
        /\ main' = [main EXCEPT ![h] = "wait"]
    BY <1>8 DEF Exit, Die, Exited
  <2>2. \A x : ~InPipe(x, <<>>)
    BY EmptyPipe
  <2>3. \A o \in Ops : ~Due(h, o)' /\ ~Unasked(h, o)'
    BY <1>1, <2>1, <2>2 DEF Due, Unasked
  <2>4. \A k \in Helpers, o \in Ops :
          k # h => (Due(k, o)' => Due(k, o)) /\ (Unasked(k, o)' => Unasked(k, o))
    BY <1>1, <2>1 DEF Due, Unasked
  <2> QED
    BY <2>3, <2>4 DEF Dwindle
<1> QED
  BY <1>2, <1>3, <1>4, <1>5, <1>6, <1>7, <1>8 DEF Reader, MainLoop

LEMMA IdleHelpers ==
  ASSUME Safe, NEW h \in Helpers, process[h] # "up", NEW o \in Ops
  PROVE  ~Due(h, o) /\ ~Unasked(h, o)
<1>1. toHelper[h] = <<>> /\ running[h] = NoOp /\ serving[h] = NoOp
  BY DEF Safe, Loops
<1>2. ~InPipe(Request(o), toHelper[h])
  BY <1>1, EmptyPipe
<1> QED
  BY <1>1, <1>2, OpsAssumption DEF Due, Unasked

LEMMA UnaskedIsDue ==
  ASSUME NEW h, NEW o, Unasked(h, o)
  PROVE  Due(h, o)
BY DEF Unasked, Due


-----------------------------------------------------------------------------
(* The window's commands.                                                   *)

LEMMA TalkUser == Inv /\ Safe /\ Talk /\ User => Talk'
<1> SUFFICES ASSUME Inv, Safe, Talk, User
             PROVE  Talk'
  OBVIOUS
<1> USE OpsAssumption DEF Threads
<1>1. Dwindle /\ UNCHANGED <<running, serving, main, applied>>
  BY DwindleDesktop
<1>2. CASE Stop \/ ReplaceCheck
  <2>1. /\ ~gone
        /\ UNCHANGED <<pc, op, asked, admin, lock, session, used, keeps, toDesktop, process, approved>>
        /\ UNCHANGED gone
    BY <1>2 DEF Stop, ReplaceCheck, rest, work, mutex, history
  <2>2. Rests'
    BY <1>1, <2>1 DEF Talk, Rests, Quiet, Dwindle, Holding, Inv, DesktopTypes, Workers
  <2>3. Owns'
    BY <1>1, <2>1
       DEF Talk, Owns, Rests, Quiet, Exchanging, Dwindle, Holding, Inv, DesktopTypes,
           Workers
  <2>4. AsksOnce'
    BY <1>1, <2>1, EmptyFrames
       DEF Talk, AsksOnce, Rests, Quiet, Exchanging, Early, Dwindle, Holding, Safe,
           Ids, Inv, DesktopTypes, Workers
  <2>5. Watches'
    BY <1>1, <2>1
       DEF Talk, Watches, AsksOnce, Exchanging, Dwindle, Holding, Safe, Ids, Inv,
           DesktopTypes, Workers
  <2> QED
    BY <2>2, <2>3, <2>4, <2>5 DEF Talk
<1>3. CASE AskAdmin
  <2>1. /\ ~gone /\ keeps /\ lock = "free" /\ session = NoHelper
        /\ lock' = "admin"
        /\ UNCHANGED <<gone, pc, op, asked, session, used, keeps, toDesktop, process, approved>>
    BY <1>3 DEF AskAdmin, helper, link, rest, work, mutex, history
  <2>2. Rests'
    BY <1>1, <2>1 DEF Talk, Rests, Quiet, Dwindle, Holding, Inv, DesktopTypes, Workers
  <2>3. Owns'
    BY <1>1, <2>1
       DEF Talk, Owns, Rests, Quiet, Exchanging, Dwindle, Holding, Inv, DesktopTypes,
           Workers
  <2>4. AsksOnce'
    BY <1>1, <2>1, EmptyFrames
       DEF Talk, AsksOnce, Rests, Quiet, Exchanging, Early, Dwindle, Holding, Safe,
           Ids, Inv, DesktopTypes, Workers
  <2>5. Watches'
    BY <1>1, <2>1
       DEF Talk, Watches, AsksOnce, Exchanging, Dwindle, Holding, Safe, Ids, Inv,
           DesktopTypes, Workers
  <2> QED
    BY <2>2, <2>3, <2>4, <2>5 DEF Talk
<1>4. CASE PlanChanged
  <2>1. /\ ~gone /\ pc["fg"] = "ask" /\ asked = "plan"
        /\ pc' = [pc EXCEPT !["fg"] = "drop"]
        /\ UNCHANGED <<gone, op, admin, lock, session, used, keeps, toDesktop, process, approved>>
    BY <1>4 DEF PlanChanged, Goto, helper, link, rest, work, mutex, history
  <2>2. Rests'
    BY <1>1, <2>1 DEF Talk, Rests, Quiet, Dwindle, Holding, Inv, DesktopTypes, Workers
  <2>3. Owns'
    BY <1>1, <2>1
       DEF Talk, Owns, Rests, Quiet, Exchanging, Dwindle, Holding, Inv, DesktopTypes,
           Workers
  <2>4. AsksOnce'
    BY <1>1, <2>1, EmptyFrames
       DEF Talk, AsksOnce, Rests, Quiet, Exchanging, Early, Dwindle, Holding, Safe,
           Ids, Inv, DesktopTypes, Workers
  <2>5. Watches'
    BY <1>1, <2>1
       DEF Talk, Watches, AsksOnce, Exchanging, Dwindle, Holding, Safe, Ids, Inv,
           DesktopTypes, Workers
  <2> QED
    BY <2>2, <2>3, <2>4, <2>5 DEF Talk
<1>5. CASE Leave
  <2>1. /\ gone' /\ session' = NoHelper /\ lock' = "free" /\ ~admin'
        /\ pc' = [t \in Threads |-> "none"]
        /\ \A h \in Helpers : toDesktop'[h] = <<>>
        /\ UNCHANGED <<used, keeps, process, approved>>
    BY <1>5 DEF Leave, history
  <2>2. Rests'
    BY <1>1, <2>1 DEF Talk, Rests, Quiet, Dwindle, Holding, Inv, DesktopTypes, Workers
  <2>3. Owns'
    BY <1>1, <2>1
       DEF Talk, Owns, Rests, Quiet, Exchanging, Dwindle, Holding, Inv, DesktopTypes,
           Workers
  <2>4. AsksOnce'
    BY <1>1, <2>1, EmptyFrames
       DEF Talk, AsksOnce, Rests, Quiet, Exchanging, Early, Dwindle, Holding, Safe,
           Ids, Inv, DesktopTypes, Workers
  <2>5. Watches'
    BY <1>1, <2>1
       DEF Talk, Watches, AsksOnce, Exchanging, Dwindle, Holding, Safe, Ids, Inv,
           DesktopTypes, Workers
  <2> QED
    BY <2>2, <2>3, <2>4, <2>5 DEF Talk
<1>6. ASSUME NEW o \in Ops, Begin(o)
      PROVE  Talk'
  <2>1. /\ ~gone /\ o \notin used
        /\ pc["fg"] = "none" /\ pc' = [pc EXCEPT !["fg"] = "stop"]
        /\ op' = [op EXCEPT !["fg"] = o]
        /\ used' = used \cup {o}
        /\ UNCHANGED <<gone, admin, lock, session, keeps, toDesktop, process, approved>>
    BY <1>6 DEF Begin, helper, link, mutex, history, Inv, Workers
  <2>2. Rests'
    BY <1>1, <2>1 DEF Talk, Rests, Quiet, Dwindle, Holding, Inv, DesktopTypes, Workers
  <2>3. Owns'
    BY <1>1, <2>1
       DEF Talk, Owns, Rests, Quiet, Exchanging, Dwindle, Holding, Inv, DesktopTypes,
           Workers
  <2>4. AsksOnce'
    BY <1>1, <2>1, EmptyFrames
       DEF Talk, AsksOnce, Rests, Quiet, Exchanging, Early, Dwindle, Holding, Safe,
           Ids, Inv, DesktopTypes, Workers
  <2>5. Watches'
    BY <1>1, <2>1
       DEF Talk, Watches, AsksOnce, Exchanging, Dwindle, Holding, Safe, Ids, Inv,
           DesktopTypes, Workers
  <2> QED
    BY <2>2, <2>3, <2>4, <2>5 DEF Talk
<1>7. ASSUME NEW o \in Ops, BeginCheck(o)
      PROVE  Talk'
  <2>1. /\ ~gone /\ keeps /\ o \notin used
        /\ pc["bg"] = "none" /\ pc' = [pc EXCEPT !["bg"] = "try"]
        /\ op' = [op EXCEPT !["bg"] = o]
        /\ used' = used \cup {o}
        /\ UNCHANGED <<gone, admin, asked, lock, session, keeps, toDesktop, process, approved>>
    BY <1>7 DEF BeginCheck, helper, link, mutex, history, Inv, Workers
  <2>2. Rests'
    BY <1>1, <2>1 DEF Talk, Rests, Quiet, Dwindle, Holding, Inv, DesktopTypes, Workers
  <2>3. Owns'
    BY <1>1, <2>1
       DEF Talk, Owns, Rests, Quiet, Exchanging, Dwindle, Holding, Inv, DesktopTypes,
           Workers
  <2>4. AsksOnce'
    BY <1>1, <2>1, EmptyFrames
       DEF Talk, AsksOnce, Rests, Quiet, Exchanging, Early, Dwindle, Holding, Safe,
           Ids, Inv, DesktopTypes, Workers
  <2>5. Watches'
    BY <1>1, <2>1
       DEF Talk, Watches, AsksOnce, Exchanging, Dwindle, Holding, Safe, Ids, Inv,
           DesktopTypes, Workers
  <2> QED
    BY <2>2, <2>3, <2>4, <2>5 DEF Talk
<1> QED
  BY <1>2, <1>3, <1>4, <1>5, <1>6, <1>7 DEF User


LEMMA TalkReply == Inv /\ Safe /\ Talk /\ Reply => Talk'
<1> SUFFICES ASSUME Inv, Safe, Talk, Reply
             PROVE  Talk'
  OBVIOUS
<1> USE OpsAssumption DEF Threads
<1>1. Dwindle /\ UNCHANGED <<running, serving, main, applied>>
  BY DwindleDesktop
<1>8. \A h \in Helpers, o \in Ops : process[h] # "up" => ~Due(h, o) /\ ~Unasked(h, o)
  BY IdleHelpers
<1>2. CASE AdminAnswered
  <2>1. /\ ~gone /\ admin /\ lock' = "free" /\ admin' = FALSE
        /\ session' = session \/ (session' \in Helpers /\ process[session'] = "none")
        /\ \A h \in Helpers : process'[h] = "none" => process[h] = "none"
        /\ UNCHANGED <<gone, pc, op, asked, used, keeps, toDesktop, approved>>
    BY <1>2
       DEF AdminAnswered, Launched, helper, link, rest, work, history, Inv, LinkTypes
  <2>2. Rests'
    BY <1>1, <1>8, <2>1
       DEF Talk, Rests, Quiet, Dwindle, Holding, Inv, DesktopTypes, Workers
  <2>3. Owns'
    BY <1>1, <1>8, <2>1
       DEF Talk, Owns, Rests, Quiet, Exchanging, Dwindle, Holding, Inv, DesktopTypes,
           Workers
  <2>4. AsksOnce'
    BY <1>1, <1>8, <2>1, EmptyFrames
       DEF Talk, AsksOnce, Rests, Quiet, Exchanging, Early, Dwindle, Holding, Safe,
           Ids, Inv, DesktopTypes, Workers
  <2>5. Watches'
    BY <1>1, <1>8, <2>1
       DEF Talk, Watches, AsksOnce, Exchanging, Dwindle, Holding, Safe, Ids, Inv,
           DesktopTypes, Workers
  <2> QED
    BY <2>2, <2>3, <2>4, <2>5 DEF Talk
<1>3. ASSUME NEW yes \in BOOLEAN, AnswerAsk(yes)
      PROVE  Talk'
  <2>1. /\ ~gone /\ pc["fg"] = "ask" /\ op["fg"] \in used /\ session \in Helpers
        /\ approved' = approved \/ (asked = "plan" /\ approved' = approved \cup {op["fg"]})
        /\ \E p \in {"read", "drop"} : pc' = [pc EXCEPT !["fg"] = p]
        /\ process[session] = "up" => pc'["fg"] = "read"
        /\ asked' = "none"
        /\ \A h \in Helpers : Due(h, op["fg"]) \/ Unasked(h, op["fg"]) => h = session
        /\ UNCHANGED <<gone, op, admin, lock, session, used, keeps, toDesktop, process>>
    BY <1>3, DueIsNear, UnaskedIsDue
       DEF AnswerAsk, Goto, rest, mutex, Inv, DesktopTypes, Workers, Holding, Safe,
           Ids, Writers
  <2>2. Rests'
    BY <1>1, <1>8, <2>1
       DEF Talk, Rests, Quiet, Dwindle, Holding, Inv, DesktopTypes, Workers
  <2>3. Owns'
    BY <1>1, <1>8, <2>1
       DEF Talk, Owns, Rests, Quiet, Exchanging, Dwindle, Holding, Inv, DesktopTypes,
           Workers
  <2>4. AsksOnce'
    BY <1>1, <1>8, <2>1, EmptyFrames
       DEF Talk, AsksOnce, Rests, Quiet, Exchanging, Early, Dwindle, Holding, Safe,
           Ids, Inv, DesktopTypes, Workers
  <2>5. Watches'
    BY <1>1, <1>8, <2>1
       DEF Talk, Watches, AsksOnce, Exchanging, Dwindle, Holding, Safe, Ids, Inv,
           DesktopTypes, Workers
  <2> QED
    BY <2>2, <2>3, <2>4, <2>5 DEF Talk
<1> QED
  BY <1>2, <1>3 DEF Reply


-----------------------------------------------------------------------------
(* The workers.                                                             *)

LEMMA TalkAside == Inv /\ Safe /\ Talk /\ Aside => Talk'
<1> SUFFICES ASSUME Inv, Safe, Talk, Aside
             PROVE  Talk'
  OBVIOUS
<1> USE OpsAssumption DEF Threads
<1>1. Dwindle /\ UNCHANGED <<running, serving, main, applied>>
  BY DwindleDesktop
<1>9. \A h \in Helpers, o \in Ops : process[h] # "up" => ~Due(h, o) /\ ~Unasked(h, o)
  BY IdleHelpers
<1>2. CASE StopCheckFirst
  <2>1. /\ ~gone /\ pc["fg"] = "stop" /\ pc' = [pc EXCEPT !["fg"] = "acquire"]
        /\ UNCHANGED <<gone, op, admin, lock, session, used, keeps, toDesktop, process,
                       approved>>
    BY <1>2 DEF StopCheckFirst, Goto, rest, mutex, history
  <2>2. Rests'
    BY <1>1, <1>9, <2>1
       DEF Talk, Rests, Quiet, Dwindle, Holding, Inv, DesktopTypes, Workers
  <2>3. Owns'
    BY <1>1, <1>9, <2>1
       DEF Talk, Owns, Rests, Quiet, Exchanging, Dwindle, Holding, Inv, DesktopTypes,
           Workers
  <2>4. AsksOnce'
    BY <1>1, <1>9, <2>1, EmptyFrames
       DEF Talk, AsksOnce, Rests, Quiet, Exchanging, Early, Dwindle, Holding, Safe,
           Ids, Inv, DesktopTypes, Workers
  <2>5. Watches'
    BY <1>1, <1>9, <2>1
       DEF Talk, Watches, AsksOnce, Exchanging, Dwindle, Holding, Safe, Ids, Inv,
           DesktopTypes, Workers
  <2> QED
    BY <2>2, <2>3, <2>4, <2>5 DEF Talk
<1>3. CASE Acquire
  <2>1. /\ ~gone /\ pc["fg"] = "acquire" /\ lock = "free" /\ lock' = "fg"
        /\ \/ /\ session # NoHelper /\ session' = session
              /\ pc' = [pc EXCEPT !["fg"] = "send"]
           \/ /\ session' = NoHelper /\ pc' = [pc EXCEPT !["fg"] = "launch"]
        /\ UNCHANGED <<gone, op, admin, used, keeps, toDesktop, process, approved>>
    BY <1>3 DEF Acquire, Goto, helper, link, rest, history
  <2>2. Rests'
    BY <1>1, <1>9, <2>1
       DEF Talk, Rests, Quiet, Dwindle, Holding, Inv, DesktopTypes, Workers
  <2>3. Owns'
    BY <1>1, <1>9, <2>1
       DEF Talk, Owns, Rests, Quiet, Exchanging, Dwindle, Holding, Inv, DesktopTypes,
           Workers
  <2>4. AsksOnce'
    BY <1>1, <1>9, <2>1, EmptyFrames
       DEF Talk, AsksOnce, Rests, Quiet, Exchanging, Early, Dwindle, Holding, Safe,
           Ids, Inv, DesktopTypes, Workers
  <2>5. Watches'
    BY <1>1, <1>9, <2>1
       DEF Talk, Watches, AsksOnce, Exchanging, Dwindle, Holding, Safe, Ids, Inv,
           DesktopTypes, Workers
  <2> QED
    BY <2>2, <2>3, <2>4, <2>5 DEF Talk
<1>4. CASE Launch
  <2>1. /\ ~gone /\ pc["fg"] = "launch" /\ session = NoHelper
        /\ \/ /\ session' \in Helpers /\ process[session'] = "none" /\ lock' = lock
              /\ pc' = [pc EXCEPT !["fg"] = "send"]
           \/ /\ session' = NoHelper /\ lock' = "free"
              /\ pc' = [pc EXCEPT !["fg"] = "finish"]
        /\ \A h \in Helpers : process'[h] = "none" => process[h] = "none"
        /\ UNCHANGED <<gone, op, admin, used, keeps, toDesktop, approved>>
    BY <1>4
       DEF Launch, Launched, Goto, helper, link, rest, history, Inv, LinkTypes, Talk,
           Rests
  <2>2. Rests'
    BY <1>1, <1>9, <2>1
       DEF Talk, Rests, Quiet, Dwindle, Holding, Inv, DesktopTypes, Workers
  <2>3. Owns'
    BY <1>1, <1>9, <2>1
       DEF Talk, Owns, Rests, Quiet, Exchanging, Dwindle, Holding, Inv, DesktopTypes,
           Workers
  <2>4. AsksOnce'
    BY <1>1, <1>9, <2>1, EmptyFrames
       DEF Talk, AsksOnce, Rests, Quiet, Exchanging, Early, Dwindle, Holding, Safe,
           Ids, Inv, DesktopTypes, Workers
  <2>5. Watches'
    BY <1>1, <1>9, <2>1
       DEF Talk, Watches, AsksOnce, Exchanging, Dwindle, Holding, Safe, Ids, Inv,
           DesktopTypes, Workers
  <2> QED
    BY <2>2, <2>3, <2>4, <2>5 DEF Talk
<1>5. CASE TrySession
  <2>1. /\ ~gone /\ pc["bg"] = "try"
        /\ \/ /\ lock = "free" /\ lock' = "bg" /\ session # NoHelper
              /\ pc' = [pc EXCEPT !["bg"] = "send"]
           \/ lock' = lock /\ pc' = [pc EXCEPT !["bg"] = "blocked"]
        /\ UNCHANGED <<gone, op, admin, asked, session, used, keeps, toDesktop, process, approved>>
    BY <1>5 DEF TrySession, Goto, helper, link, rest, history
  <2>2. Rests'
    BY <1>1, <1>9, <2>1
       DEF Talk, Rests, Quiet, Dwindle, Holding, Inv, DesktopTypes, Workers
  <2>3. Owns'
    BY <1>1, <1>9, <2>1
       DEF Talk, Owns, Rests, Quiet, Exchanging, Dwindle, Holding, Inv, DesktopTypes,
           Workers
  <2>4. AsksOnce'
    BY <1>1, <1>9, <2>1, EmptyFrames
       DEF Talk, AsksOnce, Rests, Quiet, Exchanging, Early, Dwindle, Holding, Safe,
           Ids, Inv, DesktopTypes, Workers
  <2>5. Watches'
    BY <1>1, <1>9, <2>1
       DEF Talk, Watches, AsksOnce, Exchanging, Dwindle, Holding, Safe, Ids, Inv,
           DesktopTypes, Workers
  <2> QED
    BY <2>2, <2>3, <2>4, <2>5 DEF Talk
<1>6. CASE Blocked
  <2>1. /\ ~gone /\ pc["bg"] = "blocked" /\ pc' = [pc EXCEPT !["bg"] = "none"]
        /\ op' = [op EXCEPT !["bg"] = NoOp]
        /\ UNCHANGED <<gone, admin, asked, lock, session, used, keeps, toDesktop, process,
                       approved>>
    BY <1>6 DEF Blocked, Goto, helper, link, rest, mutex, history
  <2>2. Rests'
    BY <1>1, <1>9, <2>1
       DEF Talk, Rests, Quiet, Dwindle, Holding, Inv, DesktopTypes, Workers
  <2>3. Owns'
    BY <1>1, <1>9, <2>1
       DEF Talk, Owns, Rests, Quiet, Exchanging, Dwindle, Holding, Inv, DesktopTypes,
           Workers
  <2>4. AsksOnce'
    BY <1>1, <1>9, <2>1, EmptyFrames
       DEF Talk, AsksOnce, Rests, Quiet, Exchanging, Early, Dwindle, Holding, Safe,
           Ids, Inv, DesktopTypes, Workers
  <2>5. Watches'
    BY <1>1, <1>9, <2>1
       DEF Talk, Watches, AsksOnce, Exchanging, Dwindle, Holding, Safe, Ids, Inv,
           DesktopTypes, Workers
  <2> QED
    BY <2>2, <2>3, <2>4, <2>5 DEF Talk
<1>7. CASE Finish
  <2>1. /\ ~gone /\ pc["fg"] = "finish" /\ pc' = [pc EXCEPT !["fg"] = "none"]
        /\ op' = [op EXCEPT !["fg"] = NoOp]
        /\ UNCHANGED <<gone, admin, lock, session, used, keeps, toDesktop, process, approved>>
    BY <1>7 DEF Finish, Goto, helper, link, mutex, history
  <2>2. Rests'
    BY <1>1, <1>9, <2>1
       DEF Talk, Rests, Quiet, Dwindle, Holding, Inv, DesktopTypes, Workers
  <2>3. Owns'
    BY <1>1, <1>9, <2>1
       DEF Talk, Owns, Rests, Quiet, Exchanging, Dwindle, Holding, Inv, DesktopTypes,
           Workers
  <2>4. AsksOnce'
    BY <1>1, <1>9, <2>1, EmptyFrames
       DEF Talk, AsksOnce, Rests, Quiet, Exchanging, Early, Dwindle, Holding, Safe,
           Ids, Inv, DesktopTypes, Workers
  <2>5. Watches'
    BY <1>1, <1>9, <2>1
       DEF Talk, Watches, AsksOnce, Exchanging, Dwindle, Holding, Safe, Ids, Inv,
           DesktopTypes, Workers
  <2> QED
    BY <2>2, <2>3, <2>4, <2>5 DEF Talk
<1>8. CASE FinishCheck
  <2>1. /\ ~gone /\ pc["bg"] = "finish" /\ pc' = [pc EXCEPT !["bg"] = "none"]
        /\ op' = [op EXCEPT !["bg"] = NoOp]
        /\ UNCHANGED <<gone, admin, asked, lock, session, used, keeps, toDesktop, process,
                       approved>>
    BY <1>8 DEF FinishCheck, Goto, helper, link, rest, mutex, history
  <2>2. Rests'
    BY <1>1, <1>9, <2>1
       DEF Talk, Rests, Quiet, Dwindle, Holding, Inv, DesktopTypes, Workers
  <2>3. Owns'
    BY <1>1, <1>9, <2>1
       DEF Talk, Owns, Rests, Quiet, Exchanging, Dwindle, Holding, Inv, DesktopTypes,
           Workers
  <2>4. AsksOnce'
    BY <1>1, <1>9, <2>1, EmptyFrames
       DEF Talk, AsksOnce, Rests, Quiet, Exchanging, Early, Dwindle, Holding, Safe,
           Ids, Inv, DesktopTypes, Workers
  <2>5. Watches'
    BY <1>1, <1>9, <2>1
       DEF Talk, Watches, AsksOnce, Exchanging, Dwindle, Holding, Safe, Ids, Inv,
           DesktopTypes, Workers
  <2> QED
    BY <2>2, <2>3, <2>4, <2>5 DEF Talk
<1> QED
  BY <1>2, <1>3, <1>4, <1>5, <1>6, <1>7, <1>8 DEF Aside


LEMMA TalkSend ==
  ASSUME Inv, Safe, Talk, NEW t \in Threads, Send(t)
  PROVE  Talk'
<1> USE OpsAssumption DEF Threads
<1>1. /\ ~gone /\ pc[t] = "send" /\ lock = t /\ session \in Helpers
      /\ op[t] \in Ops /\ op[t] \in used /\ op[t] \notin approved
      /\ \E p \in {"register", "drop"} : pc' = [pc EXCEPT ![t] = p]
      /\ UNCHANGED <<gone, op, asked, admin, lock, session, used, keeps, toDesktop,
                     process, running, serving, main, approved, applied>>
  BY
     DEF Send, Goto, rest, mutex, reader, loop, history, Inv, Workers, Holding, Safe,
         Ids,
         Talk, AsksOnce, Early
<1>2. toDesktop[session] = <<>> /\ \A o \in Ops : ~Due(session, o)
  BY <1>1 DEF Talk, Rests, Quiet
<1>3. \A h \in Helpers, o \in Ops :
        InPipe(Request(o), toHelper'[h])
          => InPipe(Request(o), toHelper[h]) \/ (h = session /\ o = op[t])
  <2> DEFINE s == toHelper[session]
             f == Request(op[t])
  <2>1. s \in Seq(DesktopFrames) /\ toHelper \in [Helpers -> Seq(DesktopFrames)]
    BY <1>1 DEF Inv, LinkTypes
  <2>2. f \in DesktopFrames /\ \A o : Request(o) = f => o = op[t]
    BY <1>1, FramesAreFrames DEF Request
  <2>3. \/ toHelper' = toHelper
        \/ /\ toHelper'[session] = Append(s, f)
           /\ \A h \in Helpers : h # session => toHelper'[h] = toHelper[h]
    BY <1>1, <2>1 DEF Send, Write
  <2> HIDE DEF s, f
  <2>4. \A x : InPipe(x, Append(s, f)) <=> InPipe(x, s) \/ x = f
    BY <2>1, <2>2, AppendPipe
  <2> QED
    BY <2>2, <2>3, <2>4 DEF s
<1>4. \A h \in Helpers, o \in Ops :
        /\ Due(h, o)' => Due(h, o) \/ (h = session /\ o = op[t])
        /\ Unasked(h, o)' => Unasked(h, o) \/ (h = session /\ o = op[t])
  BY <1>1, <1>3 DEF Due, Unasked
<1>9. /\ pc'[t] \in {"register", "drop"}
      /\ \A u \in Threads : u # t => pc'[u] = pc[u] /\ pc[u] \notin Holding
  BY <1>1 DEF Inv, DesktopTypes, Workers
<1>5. Rests'
  BY <1>1, <1>4, <1>9 DEF Talk, Rests, Quiet, Holding, Inv, DesktopTypes, Workers
<1>6. Owns'
  <2>1. ASSUME NEW h \in Helpers, NEW o \in Ops, NEW p \in Ops, Due(h, o)', Due(h, p)'
        PROVE  o = p
    <3>1. CASE h = session
      BY <1>1, <1>2, <1>4, <2>1, <3>1
    <3>2. CASE h # session
      BY <1>4, <2>1, <3>2 DEF Talk, Owns
    <3> QED
      BY <3>1, <3>2
  <2>2. \A o \in Ops : Due(session, o)' => o = op[t]
    BY <1>1, <1>2, <1>4
  <2>3. /\ Mine(op[t], toDesktop'[session]) /\ EndsLast(toDesktop'[session])
        /\ ~Ended(toDesktop'[session])
    BY <1>1, <1>2, EmptyFrames
  <2>4. \A u \in Threads : pc'[u] \in Exchanging => u = t
    BY <1>9 DEF Exchanging, Holding
  <2> QED
    BY <1>1, <2>1, <2>2, <2>3, <2>4 DEF Owns
<1>7. AsksOnce'
  BY <1>1, <1>2, <1>4, EmptyFrames
     DEF Talk, AsksOnce, Exchanging, Early, Holding, Inv, DesktopTypes, Workers
<1>8. Watches'
  <2>1. \A h \in Helpers, o \in approved : Due(h, o)' => Due(h, o)
    BY <1>1, <1>4 DEF Inv, HistoryTypes
  <2>2. pc["fg"] \notin {"read", "ask"}
    BY <1>1, <1>9 DEF Holding
  <2> QED
    BY <1>1, <2>1, <2>2 DEF Talk, Watches
<1> QED
  BY <1>5, <1>6, <1>7, <1>8 DEF Talk

(* One frame less to read.                                                  *)
LEMMA ReadsOne ==
  ASSUME Inv, Talk, NEW t \in Threads, Reading(t), ReadFrame
  PROVE  LET s == toDesktop[session]
             p == toDesktop'[session]
         IN  /\ process[session] # "none"
             /\ session \in Helpers /\ lock = t /\ op[t] \in Ops
             /\ \A h \in Helpers : h # session => toDesktop'[h] = toDesktop[h]
             /\ Mine(op[t], p) /\ NextFrame.op = op[t]
             /\ EndsLast(p)
             /\ Ended(p) => Ended(s)
             /\ NextFrame.type = "end" => Ended(s) /\ p = <<>>
             /\ Plans(p)
             /\ NextFrame.type = "ask" /\ NextFrame.binding = "plan"
                  => /\ NextFrame = PlanAsk(op[t]) /\ op[t] \in Changes
                     /\ InPipe(PlanAsk(op[t]), s)
             /\ \A x : InPipe(x, p) => InPipe(x, s)
             /\ \A x : Once(x, s) => Once(x, p) /\ (x = NextFrame => ~InPipe(x, p))
<1> DEFINE s == toDesktop[session]
<1>1. session \in Helpers /\ lock = t /\ op[t] \in Ops /\ pc[t] = "read"
  BY DEF Inv, Workers, Reading, Holding
<1>2. toDesktop \in [Helpers -> Seq(HelperFrames)] /\ s \in Seq(HelperFrames) /\ s # <<>>
  BY <1>1 DEF Inv, LinkTypes, Reading
<1>3. /\ toDesktop'[session] = Tail(s)
      /\ \A h \in Helpers : h # session => toDesktop'[h] = toDesktop[h]
  BY <1>1, <1>2 DEF ReadFrame
<1>6. process[session] # "none"
  BY <1>1, <1>2 DEF Talk, Rests
<1>4. Mine(op[t], s) /\ EndsLast(s) /\ Plans(s) /\ NextFrame = Head(s)
  BY <1>1 DEF Talk, Owns, AsksOnce, Exchanging, NextFrame
<1> HIDE DEF s
<1>5. /\ \A x : InPipe(x, s) <=> InPipe(x, Tail(s)) \/ x = Head(s)
      /\ \A o : Mine(o, s) => Mine(o, Tail(s)) /\ Head(s).op = o
      /\ Ended(s) <=> Ended(Tail(s)) \/ Head(s).type = "end"
      /\ EndsLast(s) => EndsLast(Tail(s)) /\ (Head(s).type = "end" => Tail(s) = <<>>)
      /\ Plans(s) =>
           /\ Plans(Tail(s))
           /\ Head(s).type = "ask" /\ Head(s).binding = "plan"
                => Head(s) = PlanAsk(Head(s).op) /\ Head(s).op \in Changes
      /\ \A x : Once(x, s) => Once(x, Tail(s)) /\ (x = Head(s) => ~InPipe(x, Tail(s)))
  BY <1>2, TailFrames
<1> QED
  BY <1>1, <1>3, <1>4, <1>5, <1>6 DEF s

LEMMA TalkExchange ==
  ASSUME Inv, Safe, Talk, NEW t \in Threads, Exchange(t)
  PROVE  Talk'
<1> USE OpsAssumption DEF Threads
<1>8. CASE Send(t)
  BY <1>8, TalkSend
<1> SUFFICES ASSUME ~Send(t)
             PROVE  Talk'
  BY <1>8
<1>1. Dwindle /\ UNCHANGED <<running, serving, main, applied>>
  BY DwindleDesktop
<1>9. \A h \in Helpers, o \in Ops : process[h] # "up" => ~Due(h, o) /\ ~Unasked(h, o)
  BY IdleHelpers
<1>2. CASE Register(t)
  <2>1. /\ ~gone /\ pc[t] = "register" /\ pc' = [pc EXCEPT ![t] = "read"]
        /\ UNCHANGED <<gone, op, asked, admin, lock, session, used, keeps, toDesktop, process,
                       approved>>
    BY <1>2 DEF Register, Goto, rest, mutex, history
  <2>2. Rests'
    BY <1>1, <1>9, <2>1
       DEF Talk, Rests, Quiet, Dwindle, Holding, Inv, DesktopTypes, Workers
  <2>3. Owns'
    BY <1>1, <1>9, <2>1
       DEF Talk, Owns, Rests, Quiet, Exchanging, Dwindle, Holding, Inv, DesktopTypes,
           Workers
  <2>4. AsksOnce'
    BY <1>1, <1>9, <2>1, EmptyFrames
       DEF Talk, AsksOnce, Rests, Quiet, Exchanging, Early, Dwindle, Holding, Safe,
           Ids, Inv, DesktopTypes, Workers
  <2>5. Watches'
    BY <1>1, <1>9, <2>1
       DEF Talk, Watches, AsksOnce, Exchanging, Dwindle, Holding, Safe, Ids, Inv,
           DesktopTypes, Workers
  <2> QED
    BY <2>2, <2>3, <2>4, <2>5 DEF Talk
<1>3. CASE ReadEvent(t)
  <2>1. /\ process[session] # "none"
        /\ \A u \in Threads : u # t => pc[u] \notin Holding
        /\ ~gone /\ pc[t] = "read" /\ session \in Helpers /\ lock = t /\ op[t] \in Ops
        /\ \A h \in Helpers : h # session => toDesktop'[h] = toDesktop[h]
        /\ Mine(op[t], toDesktop'[session]) /\ EndsLast(toDesktop'[session])
        /\ Ended(toDesktop'[session]) => Ended(toDesktop[session])
        /\ Plans(toDesktop'[session])
        /\ \A x : InPipe(x, toDesktop'[session]) => InPipe(x, toDesktop[session])
        /\ \A x : Once(x, toDesktop[session]) => Once(x, toDesktop'[session])
        /\ UNCHANGED <<pc, asked>>
        /\ UNCHANGED <<gone, op, admin, lock, session, used, keeps, process, approved>>
    BY <1>3, ReadsOne
       DEF ReadEvent, Reading, rest, work, mutex, history, Inv, Workers, Holding,
           DesktopTypes
  <2>2. Rests'
    BY <1>1, <1>9, <2>1
       DEF Talk, Rests, Quiet, Dwindle, Holding, Inv, DesktopTypes, Workers
  <2>3. Owns'
    BY <1>1, <1>9, <2>1
       DEF Talk, Owns, Rests, Quiet, Exchanging, Dwindle, Holding, Inv, DesktopTypes,
           Workers
  <2>4. AsksOnce'
    BY <1>1, <1>9, <2>1, EmptyFrames
       DEF Talk, AsksOnce, Rests, Quiet, Exchanging, Early, Dwindle, Holding, Safe,
           Ids, Inv, DesktopTypes, Workers
  <2>5. Watches'
    BY <1>1, <1>9, <2>1
       DEF Talk, Watches, AsksOnce, Exchanging, Dwindle, Holding, Safe, Ids, Inv,
           DesktopTypes, Workers
  <2> QED
    BY <2>2, <2>3, <2>4, <2>5 DEF Talk
<1>4. CASE ReadAsk(t) /\ t = "fg"
  <2>1. /\ process[session] # "none"
        /\ \A u \in Threads : u # t => pc[u] \notin Holding
        /\ ~gone /\ pc[t] = "read" /\ session \in Helpers /\ lock = t /\ op[t] \in Ops
        /\ \A h \in Helpers : h # session => toDesktop'[h] = toDesktop[h]
        /\ Mine(op[t], toDesktop'[session]) /\ EndsLast(toDesktop'[session])
        /\ Ended(toDesktop'[session]) => Ended(toDesktop[session])
        /\ Plans(toDesktop'[session])
        /\ \A x : InPipe(x, toDesktop'[session]) => InPipe(x, toDesktop[session])
        /\ \A x : Once(x, toDesktop[session]) => Once(x, toDesktop'[session])
        /\ t = "fg" /\ pc' = [pc EXCEPT !["fg"] = "ask"]
        /\ asked' = "plan" => /\ op["fg"] \in Changes
                               /\ InPipe(PlanAsk(op["fg"]), toDesktop[session])
                               /\ (Once(PlanAsk(op["fg"]), toDesktop[session])
                                    => ~InPipe(PlanAsk(op["fg"]), toDesktop'[session]))
        /\ UNCHANGED <<gone, op, admin, lock, session, used, keeps, process, approved>>
    BY <1>4, ReadsOne
       DEF ReadAsk, Reading, Goto, rest, mutex, history, Inv, Workers, Holding,
           DesktopTypes
  <2>6. asked' = "plan" => /\ op["fg"] \in Changes \ approved
                          /\ ~Unasked(session, op["fg"])
                          /\ ~InPipe(PlanAsk(op["fg"]), toDesktop'[session])
    BY <2>1 DEF Talk, AsksOnce, Exchanging
  <2>2. Rests'
    BY <1>1, <1>9, <2>1
       DEF Talk, Rests, Quiet, Dwindle, Holding, Inv, DesktopTypes, Workers
  <2>3. Owns'
    BY <1>1, <1>9, <2>1
       DEF Talk, Owns, Rests, Quiet, Exchanging, Dwindle, Holding, Inv, DesktopTypes,
           Workers
  <2>4. AsksOnce'
    BY <1>1, <1>9, <2>1, <2>6, EmptyFrames
       DEF Talk, AsksOnce, Rests, Quiet, Exchanging, Early, Dwindle, Holding, Safe,
           Ids, Inv, DesktopTypes, Workers
  <2>5. Watches'
    BY <1>1, <1>9, <2>1
       DEF Talk, Watches, AsksOnce, Exchanging, Dwindle, Holding, Safe, Ids, Inv,
           DesktopTypes, Workers
  <2> QED
    BY <2>2, <2>3, <2>4, <2>5 DEF Talk
<1>5. CASE ReadAsk(t) /\ t = "bg"
  <2>1. /\ process[session] # "none"
        /\ \A u \in Threads : u # t => pc[u] \notin Holding
        /\ ~gone /\ pc[t] = "read" /\ session \in Helpers /\ lock = t /\ op[t] \in Ops
        /\ \A h \in Helpers : h # session => toDesktop'[h] = toDesktop[h]
        /\ Mine(op[t], toDesktop'[session]) /\ EndsLast(toDesktop'[session])
        /\ Ended(toDesktop'[session]) => Ended(toDesktop[session])
        /\ Plans(toDesktop'[session])
        /\ \A x : InPipe(x, toDesktop'[session]) => InPipe(x, toDesktop[session])
        /\ \A x : Once(x, toDesktop[session]) => Once(x, toDesktop'[session])
        /\ t = "bg" /\ \E p \in {"read", "drop"} : pc' = [pc EXCEPT !["bg"] = p]
        /\ asked' = asked
        /\ UNCHANGED <<gone, op, admin, lock, session, used, keeps, process, approved>>
    BY <1>5, ReadsOne
       DEF ReadAsk, Reading, Goto, rest, mutex, history, Inv, Workers, Holding,
           DesktopTypes
  <2>2. Rests'
    BY <1>1, <1>9, <2>1
       DEF Talk, Rests, Quiet, Dwindle, Holding, Inv, DesktopTypes, Workers
  <2>3. Owns'
    BY <1>1, <1>9, <2>1
       DEF Talk, Owns, Rests, Quiet, Exchanging, Dwindle, Holding, Inv, DesktopTypes,
           Workers
  <2>4. AsksOnce'
    BY <1>1, <1>9, <2>1, EmptyFrames
       DEF Talk, AsksOnce, Rests, Quiet, Exchanging, Early, Dwindle, Holding, Safe,
           Ids, Inv, DesktopTypes, Workers
  <2>5. Watches'
    BY <1>1, <1>9, <2>1
       DEF Talk, Watches, AsksOnce, Exchanging, Dwindle, Holding, Safe, Ids, Inv,
           DesktopTypes, Workers
  <2> QED
    BY <2>2, <2>3, <2>4, <2>5 DEF Talk
<1>6. CASE ReadEnd(t)
  <2>1. /\ process[session] # "none"
        /\ \A u \in Threads : u # t => pc[u] \notin Holding
        /\ ~gone /\ pc[t] = "read" /\ session \in Helpers /\ lock = t /\ op[t] \in Ops
        /\ \A h \in Helpers : h # session => toDesktop'[h] = toDesktop[h]
        /\ Mine(op[t], toDesktop'[session]) /\ EndsLast(toDesktop'[session])
        /\ Ended(toDesktop'[session]) => Ended(toDesktop[session])
        /\ Plans(toDesktop'[session])
        /\ \A x : InPipe(x, toDesktop'[session]) => InPipe(x, toDesktop[session])
        /\ \A x : Once(x, toDesktop[session]) => Once(x, toDesktop'[session])
        /\ \E p \in {"keep", "drop"} :
             pc' = [pc EXCEPT ![t] = p] /\ (p = "keep" => keeps \/ t = "bg")
        /\ toDesktop'[session] = <<>> /\ Ended(toDesktop[session])
        /\ UNCHANGED <<gone, op, admin, lock, session, used, keeps, process, approved>>
    BY <1>6, ReadsOne
       DEF ReadEnd, Reading, Goto, rest, mutex, history, Inv, Workers, Holding,
           DesktopTypes
  <2>6. \A o \in Ops : ~Due(session, o)
    BY <2>1 DEF Talk, Owns, Exchanging
  <2>2. Rests'
    BY <1>1, <1>9, <2>1, <2>6
       DEF Talk, Rests, Quiet, Dwindle, Holding, Inv, DesktopTypes, Workers
  <2>3. Owns'
    BY <1>1, <1>9, <2>1
       DEF Talk, Owns, Rests, Quiet, Exchanging, Dwindle, Holding, Inv, DesktopTypes,
           Workers
  <2>4. AsksOnce'
    BY <1>1, <1>9, <2>1, EmptyFrames
       DEF Talk, AsksOnce, Rests, Quiet, Exchanging, Early, Dwindle, Holding, Safe,
           Ids, Inv, DesktopTypes, Workers
  <2>5. Watches'
    BY <1>1, <1>9, <2>1, <2>6
       DEF Talk, Watches, AsksOnce, Exchanging, Dwindle, Holding, Safe, Ids, Inv,
           DesktopTypes, Workers
  <2> QED
    BY <2>2, <2>3, <2>4, <2>5 DEF Talk
<1>7. CASE ReadClosed(t)
  <2>1. /\ ~gone /\ pc[t] = "read" /\ pc' = [pc EXCEPT ![t] = "drop"]
        /\ process[session] # "up" /\ session \in Helpers
        /\ UNCHANGED <<gone, op, admin, lock, session, used, keeps, toDesktop, process,
                       approved>>
    BY <1>7
       DEF ReadClosed, Goto, helper, link, rest, mutex, history, Inv, Workers, Holding
  <2>2. Rests'
    BY <1>1, <1>9, <2>1
       DEF Talk, Rests, Quiet, Dwindle, Holding, Inv, DesktopTypes, Workers
  <2>3. Owns'
    BY <1>1, <1>9, <2>1
       DEF Talk, Owns, Rests, Quiet, Exchanging, Dwindle, Holding, Inv, DesktopTypes,
           Workers
  <2>4. AsksOnce'
    BY <1>1, <1>9, <2>1, EmptyFrames
       DEF Talk, AsksOnce, Rests, Quiet, Exchanging, Early, Dwindle, Holding, Safe,
           Ids, Inv, DesktopTypes, Workers
  <2>5. Watches'
    BY <1>1, <1>9, <2>1
       DEF Talk, Watches, AsksOnce, Exchanging, Dwindle, Holding, Safe, Ids, Inv,
           DesktopTypes, Workers
  <2> QED
    BY <2>2, <2>3, <2>4, <2>5 DEF Talk
<1>10. CASE Release(t)
  <2>1. /\ ~gone /\ lock = t /\ lock' = "free" /\ pc' = [pc EXCEPT ![t] = "finish"]
        /\ \/ pc[t] = "keep" /\ UNCHANGED <<session, toDesktop>>
           \/ /\ pc[t] = "drop" /\ session' = NoHelper
              /\ \A h \in Helpers : toDesktop'[h] = toDesktop[h] \/ toDesktop'[h] = <<>>
        /\ UNCHANGED <<gone, op, admin, used, keeps, process, approved>>
    BY <1>10 DEF Release, Goto, rest, history, Inv, LinkTypes, Workers, Holding
  <2>2. Rests'
    BY <1>1, <1>9, <2>1
       DEF Talk, Rests, Quiet, Dwindle, Holding, Inv, DesktopTypes, Workers
  <2>3. Owns'
    BY <1>1, <1>9, <2>1
       DEF Talk, Owns, Rests, Quiet, Exchanging, Dwindle, Holding, Inv, DesktopTypes,
           Workers
  <2>4. AsksOnce'
    BY <1>1, <1>9, <2>1, EmptyFrames
       DEF Talk, AsksOnce, Rests, Quiet, Exchanging, Early, Dwindle, Holding, Safe,
           Ids, Inv, DesktopTypes, Workers
  <2>5. Watches'
    BY <1>1, <1>9, <2>1
       DEF Talk, Watches, AsksOnce, Exchanging, Dwindle, Holding, Safe, Ids, Inv,
           DesktopTypes, Workers
  <2> QED
    BY <2>2, <2>3, <2>4, <2>5 DEF Talk
<1> QED
  BY <1>2, <1>3, <1>4, <1>5, <1>6, <1>7, <1>10 DEF Exchange

-----------------------------------------------------------------------------
(* The helper's steps.                                                      *)

Unapplied ==
  \A k \in Helpers : main[k] \in {"plan", "approved"} => serving[k] \notin applied

(* A step of a helper that writes nothing to the desktop.                   *)
LEMMA TalkSilent ==
  ASSUME Inv, Talk, Dwindle, UNCHANGED <<desktop, toDesktop, approved>>, Unapplied',
         \A k \in Helpers : process'[k] = "none" => process[k] = "none"
  PROVE  Talk'
<1>1. UNCHANGED <<gone, pc, op, asked, admin, lock, session, used, keeps, toDesktop,
                  approved>>
  BY DEF desktop, rest, work, mutex
<1>2. Rests'
  BY <1>1 DEF Talk, Rests, Quiet, Dwindle, Inv, DesktopTypes, Workers, Holding
<1>3. Owns'
  BY <1>1 DEF Talk, Owns, Dwindle, Mine, EndsLast, Ended, Exchanging, Inv, Workers,
              Holding
<1>4. AsksOnce'
  BY <1>1 
     DEF Talk, AsksOnce, Dwindle, Unapplied, Plans, InPipe, Once, Exchanging, Inv,
         Workers, Holding, Threads
<1>5. Watches'
  BY <1>1 DEF Talk, Watches, Dwindle, Inv, HistoryTypes
<1> QED
  BY <1>2, <1>3, <1>4, <1>5 DEF Talk

(* A step that writes a frame of its operation.                             *)
LEMMA TalkEmit ==
  ASSUME Inv, Safe, Talk, NEW h \in Helpers, NEW o \in Ops, NEW f \in HelperFrames,
         process[h] = "up", serving[h] = o, f.op = o, Emit(h, f), Dwindle,
         UNCHANGED <<desktop, process, approved>>, Unapplied',
         f.type = "end" => ~Due(h, o)',
         f.type = "ask" /\ f.binding = "plan" =>
           f = PlanAsk(o) /\ o \in Changes /\ Unasked(h, o) /\ ~Unasked(h, o)'
  PROVE  Talk'
<1> DEFINE s == toDesktop[session]
<1>1. UNCHANGED <<gone, pc, op, asked, admin, lock, session, used, keeps, process,
                  approved>>
  BY DEF desktop, rest, work, mutex
<1>2. CASE toDesktop' = toDesktop
  BY <1>2, TalkSilent
<1>3. CASE toDesktop' # toDesktop
  <2>1. h = session /\ session \in Helpers /\ Due(session, o)
    BY <1>3 DEF Emit, Due
  <2>2. /\ s \in Seq(HelperFrames) /\ toDesktop'[session] = Append(s, f)
        /\ \A k \in Helpers : k # session => toDesktop'[k] = toDesktop[k]
    BY <1>3, <2>1 DEF Emit, Inv, LinkTypes
  <2>3. /\ lock # "free" /\ session # NoHelper
        /\ \A t \in Threads : pc[t] \notin {"send", "keep"}
    BY <2>1, OpsAssumption DEF Talk, Rests, Quiet
  <2>4. \A t \in Threads : pc[t] \in Exchanging => op[t] = o /\ ~Ended(s) /\ Mine(o, s)
    BY <2>1 DEF Talk, Owns
  <2> HIDE DEF s
  <2>5. /\ \A x : InPipe(x, Append(s, f)) <=> InPipe(x, s) \/ x = f
        /\ \A p : Mine(p, s) /\ f.op = p => Mine(p, Append(s, f))
        /\ Ended(Append(s, f)) <=> Ended(s) \/ f.type = "end"
        /\ ~Ended(s) => EndsLast(Append(s, f))
        /\ /\ Plans(s)
           /\ f.type = "ask" /\ f.binding = "plan" => f = PlanAsk(f.op) /\ f.op \in Changes
           => Plans(Append(s, f))
        /\ \A x : Once(x, s) /\ ~(x = f /\ InPipe(x, s)) => Once(x, Append(s, f))
    BY <2>2, AppendFrames
  <2>6. Rests'
    BY <1>1, <2>1, <2>2, <2>3 DEF Talk, Rests, Quiet, Dwindle
  <2>7. Owns'
    <3>1. \A k \in Helpers, p, q \in Ops : Due(k, p)' /\ Due(k, q)' => p = q
      BY DEF Talk, Owns, Dwindle
    <3>2. ASSUME NEW t \in Threads, pc[t] \in Exchanging
          PROVE  /\ \A p \in Ops : Due(session, p)' => p = op[t]
                 /\ Mine(op[t], Append(s, f)) /\ EndsLast(Append(s, f))
                 /\ Ended(Append(s, f)) => ~Due(session, op[t])'
      <4>1. \A p \in Ops : Due(session, p)' => p = op[t]
        BY <1>1, <2>1, <3>2 DEF Talk, Owns, Dwindle
      <4>2. op[t] = o /\ ~Ended(s) /\ Mine(o, s)
        BY <2>4, <3>2
      <4>3. Ended(Append(s, f)) => ~Due(session, o)'
        BY <1>1, <2>1, <2>5, <4>2
      <4>4. UNCHANGED <<op, session>>
        BY <1>1
      <4>5. Ended(Append(s, f)) => ~Due(session, op[t])'
        BY <4>2, <4>3, <4>4
      <4> QED
        BY <2>5, <4>1, <4>2, <4>5
    <3> QED
      BY <1>1, <2>2, <3>1, <3>2 DEF Owns
  <2>8. AsksOnce'
    <3>1. \A k \in Helpers : Plans(toDesktop'[k])
      BY <2>2, <2>5 DEF Talk, AsksOnce, s
    <3>2. \A t \in Threads : pc'[t] \in Early => op'[t] \notin approved'
      BY <1>1 DEF Talk, AsksOnce
    <3>3. \A k \in Helpers, p \in Ops : Unasked(k, p)' => p \notin approved'
      BY <1>1 DEF Talk, AsksOnce, Dwindle
    <3>4. approved' \subseteq used'
      BY <1>1 DEF Talk, AsksOnce
    <3>5. pc["fg"] = "ask" /\ asked = "plan" =>
            /\ op["fg"] \in Changes \ approved /\ ~Unasked(session, op["fg"])'
            /\ ~InPipe(PlanAsk(op["fg"]), toDesktop'[session])
      <4> SUFFICES ASSUME pc["fg"] = "ask", asked = "plan"
                   PROVE  /\ op["fg"] \in Changes \ approved
                          /\ ~Unasked(session, op["fg"])'
                          /\ ~InPipe(PlanAsk(op["fg"]), toDesktop'[session])
        OBVIOUS
      <4>1. /\ op["fg"] = o /\ o \in Changes \ approved /\ ~Unasked(session, o)
            /\ ~InPipe(PlanAsk(o), s)
        BY <2>4 DEF Talk, AsksOnce, Exchanging, s, Threads
      <4>2. f # PlanAsk(o)
        BY <2>1, <4>1 DEF PlanAsk, Ask
      <4>3. ~Unasked(session, o)' /\ UNCHANGED <<op, session>>
        BY <1>1, <2>1, <4>1 DEF Dwindle
      <4> QED
        BY <2>2, <2>5, <4>1, <4>2, <4>3
    <3>6. pc["fg"] \in Exchanging /\ InPipe(PlanAsk(op["fg"]), toDesktop'[session]) =>
            /\ op["fg"] \notin approved /\ ~Unasked(session, op["fg"])'
            /\ Once(PlanAsk(op["fg"]), toDesktop'[session])
      <4> SUFFICES ASSUME pc["fg"] \in Exchanging,
                          InPipe(PlanAsk(op["fg"]), toDesktop'[session])
                   PROVE  /\ op["fg"] \notin approved /\ ~Unasked(session, op["fg"])'
                          /\ Once(PlanAsk(op["fg"]), toDesktop'[session])
        OBVIOUS
      <4>1. op["fg"] = o /\ UNCHANGED <<op, session>>
        BY <1>1, <2>4 DEF Threads
      <4>2. InPipe(PlanAsk(o), s) => o \notin approved /\ ~Unasked(session, o)
                                       /\ Once(PlanAsk(o), s)
        BY <4>1 DEF Talk, AsksOnce, s
      <4>3. InPipe(PlanAsk(o), s) \/ PlanAsk(o) = f
        BY <2>2, <2>5, <4>1
      <4>4. PlanAsk(o) = f => Unasked(session, o) /\ ~Unasked(session, o)'
        BY <1>1, <2>1 DEF PlanAsk, Ask
      <4>5. Unasked(session, o) => o \notin approved
        BY <2>1 DEF Talk, AsksOnce
      <4>6. ~Unasked(session, o) => ~Unasked(session, o)'
        BY <1>1, <2>1 DEF Dwindle
      <4>7. ~InPipe(PlanAsk(o), s) => Once(PlanAsk(o), s)
        BY DEF Once, InPipe
      <4>8. Once(PlanAsk(o), Append(s, f))
        BY <2>5, <4>2, <4>4, <4>7
      <4> QED
        BY <2>2, <4>1, <4>2, <4>3, <4>4, <4>5, <4>6, <4>8
    <3>7. UNCHANGED <<pc, op, asked, session, approved>>
      BY <1>1
    <3>8. \A k \in Helpers : main'[k] \in {"plan", "approved"} => serving'[k] \notin applied'
      BY DEF Unapplied
    <3> QED
      BY <3>1, <3>2, <3>3, <3>4, <3>5, <3>6, <3>7, <3>8 DEF AsksOnce
  <2>9. Watches'
    BY <1>1 DEF Talk, Watches, Dwindle, Inv, HistoryTypes
  <2> QED
    BY <2>6, <2>7, <2>8, <2>9 DEF Talk
<1> QED
  BY <1>2, <1>3

LEMMA TalkHelper ==
  ASSUME Inv, Safe, Talk, NEW h \in Helpers,
         Reader(h) \/ MainLoop(h) \/ Die(h) \/ Noticed(h)
  PROVE  Talk'
<1> USE OpsAssumption
<1>1. /\ main \in [Helpers -> Phases] /\ serving \in [Helpers -> Ops \cup {NoOp}]
      /\ running \in [Helpers -> Ops \cup {NoOp}]
      /\ process \in [Helpers -> {"none", "up", "exited"}]
  BY DEF Inv, HelperTypes, LinkTypes
<1>2. Dwindle
  BY DwindleHelper
<1>3. Unapplied
  BY DEF Talk, AsksOnce, Unapplied
<1>4. CASE Reader(h) \/ Noticed(h)
  <2>1. UNCHANGED <<desktop, toDesktop, approved, process, main, serving, applied>>
    BY <1>4 DEF Reader, Accept, Disconnected, Noticed, link, loop, history
  <2>2. Unapplied'
    BY <1>3, <2>1 DEF Unapplied
  <2> QED
    BY <1>2, <2>1, <2>2, TalkSilent
<1>5. CASE Take(h) \/ Clear(h) \/ Exit(h) \/ Die(h) \/ Unanswered(h)
  <2>1. /\ UNCHANGED <<desktop, toDesktop, approved, applied>>
        /\ \A k \in Helpers : process'[k] = "none" => process[k] = "none"
        /\ \E m \in {"prepare", "clear", "report", "wait"} :
             main' = [main EXCEPT ![h] = m]
        /\ \A k \in Helpers : k # h => serving'[k] = serving[k]
    BY <1>1, <1>5
       DEF Take, Clear, Exit, Die, Exited, Unanswered, Ends, Step, link, loop, history
  <2>2. Unapplied'
    BY <1>1, <1>3, <2>1 DEF Unapplied
  <2> QED
    BY <1>2, <2>1, <2>2, TalkSilent
<1>6. CASE Answered(h)
  <2>1. /\ UNCHANGED <<desktop, toDesktop, approved, applied, process, serving>>
        /\ \/ main[h] = "plan" /\ main' = [main EXCEPT ![h] = "approved"]
           \/ main' = [main EXCEPT ![h] = "clear"]
    BY <1>6 DEF Answered, Ends, Step, link, history, Bindings
  <2>2. Unapplied'
    BY <1>1, <1>3, <2>1 DEF Unapplied
  <2> QED
    BY <1>2, <2>1, <2>2, TalkSilent
<1>7. CASE Apply(h)
  <2>1. /\ UNCHANGED <<desktop, toDesktop, approved, process, serving>>
        /\ \E m \in {"clear", "apply"} : main' = [main EXCEPT ![h] = m]
        /\ applied' = applied \/ applied' = applied \cup {serving[h]}
        /\ serving[h] \in Ops
    BY <1>7 DEF Apply, Ends, Step, link, At, Inv, MainLoops
  <2>2. \A k \in Helpers : k # h => serving[k] # serving[h]
    BY <2>1 DEF Safe, Tidy, Near
  <2>3. Unapplied'
    BY <1>1, <1>3, <2>1, <2>2 DEF Unapplied
  <2> QED
    BY <1>2, <2>1, <2>3, TalkSilent
<1>8. CASE Progress(h)
  <2>1. PICK a \in BOOLEAN : Emit(h, Event(serving[h], a))
    BY <1>8 DEF Progress
  <2> DEFINE o == serving[h]
             f == Event(o, a)
  <2>2. /\ process[h] = "up" /\ o \in Ops
        /\ UNCHANGED <<desktop, process, approved, main, serving, applied>>
    BY <1>8 DEF Progress, Serving, Inv, MainLoops, history
  <2>3. f \in HelperFrames /\ f.op = o /\ f.type = "event"
    BY <2>2, FramesAreFrames DEF Event
  <2>4. Unapplied'
    BY <1>3, <2>2 DEF Unapplied
  <2>5. Emit(h, f) /\ serving[h] = o
    BY <2>1
  <2> HIDE DEF o, f
  <2> QED
    BY <1>2, <2>2, <2>3, <2>4, <2>5, TalkEmit
<1>9. CASE Prepare(h)
  <2>0. serving[h] \in Ops
    BY <1>9 DEF Prepare, At, Inv, MainLoops
  <2> PICK o \in Ops : serving[h] = o
    BY <2>0
  <2> DEFINE f == PlanAsk(o)
  <2>1. /\ process[h] = "up" /\ o \in Ops /\ main[h] = "prepare" /\ running[h] = o
        /\ UNCHANGED <<desktop, process, toHelper, running, serving, approved, applied>>
    BY <1>9 DEF Prepare, At, Serving, Inv, MainLoops, history, Safe, Loops, Engaged, reader
  <2>2. CASE toDesktop' = toDesktop /\ main' = [main EXCEPT ![h] = "clear"]
    <3>1. Unapplied'
      BY <1>1, <1>3, <2>1, <2>2 DEF Unapplied
    <3> QED
      BY <1>2, <2>1, <2>2, <3>1, TalkSilent
  <2>3. CASE o \in Changes /\ main' = [main EXCEPT ![h] = "plan"] /\ Emit(h, f)
    <3>1. Unasked(h, o) /\ o \notin applied
      BY <2>1 DEF Unasked, Talk, AsksOnce, Safe, Willed
    <3>2. ~InPipe(Request(o), toHelper[h])
      BY <2>1 DEF Safe, Tidy
    <3>3. serving' = serving /\ main'[h] = "plan" /\ running' = running /\ toHelper' = toHelper
      BY <1>1, <2>1, <2>3
    <3>4. Unapplied'
      BY <1>1, <1>3, <2>1, <2>3, <3>1 DEF Unapplied
    <3>5. f \in HelperFrames /\ f.op = o /\ f.type = "ask"
      BY <2>1, FramesAreFrames DEF PlanAsk, Ask, Bindings
    <3>6. serving[h] = o /\ Emit(h, f) /\ f = PlanAsk(o) /\ o \in Changes
      BY <2>3
    <3> HIDE DEF f
    <3>7. ~Unasked(h, o)'
      BY <2>1, <3>2, <3>3, <3>6 DEF Unasked
    <3> QED
      BY <1>2, <2>1, <3>1, <3>4, <3>5, <3>6, <3>7, TalkEmit
  <2> QED
    BY <1>9, <2>2, <2>3 DEF Prepare, Ends, Step, PlanAsk
<1>10. CASE Applied(h)
  <2> DEFINE o == serving[h]
             f == Ask(o, "records")
  <2>1. /\ process[h] = "up" /\ o \in Ops
        /\ UNCHANGED <<desktop, process, serving, approved, applied>>
        /\ \E m \in {"clear", "records"} : main' = [main EXCEPT ![h] = m]
    BY <1>10 DEF Applied, At, Serving, Inv, MainLoops, history, Ends, Step
  <2>2. Unapplied'
    BY <1>1, <1>3, <2>1 DEF Unapplied
  <2>3. CASE toDesktop' = toDesktop
    BY <1>2, <2>1, <2>2, <2>3, TalkSilent
  <2>4. CASE Emit(h, f)
    <3>1. f \in HelperFrames /\ f.op = o /\ f.type = "ask" /\ f.binding = "records"
      BY <2>1, FramesAreFrames DEF Ask, Bindings
    <3>2. serving[h] = o /\ Emit(h, f)
      BY <2>4
    <3> HIDE DEF o, f
    <3> QED
      BY <1>2, <2>1, <2>2, <3>1, <3>2, TalkEmit
  <2> QED
    BY <1>10, <2>3, <2>4 DEF Applied
<1>11. CASE Report(h)
  <2>0. serving[h] \in Ops
    BY <1>11 DEF Report, At, Inv, MainLoops
  <2> PICK o \in Ops : serving[h] = o
    BY <2>0
  <2> DEFINE f == End(o, done[h])
  <2>1. /\ process[h] = "up" /\ o \in Ops /\ done[h] \in {"ok", "error"}
        /\ running[h] # o
        /\ UNCHANGED <<desktop, process, toHelper, running, approved, applied>>
        /\ serving' = [serving EXCEPT ![h] = NoOp]
        /\ \E m \in {"leave", "wait"} : main' = [main EXCEPT ![h] = m]
    BY <1>11
       DEF Report, At, Serving, Inv, MainLoops, history, reader, Step, Safe, Loops
  <2>2. Unapplied'
    BY <1>1, <1>3, <2>1 DEF Unapplied
  <2>3. ~InPipe(Request(o), toHelper[h]) /\ o # NoOp
    BY <2>1 DEF Safe, Tidy
  <2>4. f \in HelperFrames /\ f.op = o /\ f.type = "end"
    BY <2>1, FramesAreFrames DEF End
  <2>5. serving[h] = o /\ Emit(h, f)
    BY <1>11 DEF Report
  <2>6. serving'[h] = NoOp
    BY <1>1, <2>1
  <2> HIDE DEF f
  <2>7. ~Due(h, o)'
    BY <2>1, <2>3, <2>6 DEF Due
  <2> QED
    BY <1>2, <2>1, <2>2, <2>4, <2>5, <2>7, TalkEmit
<1> QED
  BY <1>4, <1>5, <1>6, <1>7, <1>8, <1>9, <1>10, <1>11 DEF MainLoop

-----------------------------------------------------------------------------
(* A helper that could not write is not the session any more.               *)

Joined ==
  /\ \A h \in Helpers : /\ process[h] = "none" => ~broken[h]
                        /\ main[h] = "leave" => broken[h]
  /\ ~gone /\ session # NoHelper => ~broken[session]

LEMMA JoinedEmit ==
  ASSUME Inv, NEW h \in Helpers, NEW f, Emit(h, f), UNCHANGED <<gone, session>>, Joined
  PROVE  /\ \A k \in Helpers : k # h => broken'[k] = broken[k]
         /\ broken[h] => broken'[h]
         /\ ~gone /\ session # NoHelper => ~broken'[session]
BY OpsAssumption DEF Emit, Readable, Open, Joined, Inv, DesktopTypes, HelperTypes

LEMMA JoinedNext == Inv /\ Safe /\ Joined /\ [Next]_vars => Joined'
<1> SUFFICES ASSUME Inv, Safe, Joined, [Next]_vars
             PROVE  Joined'
  OBVIOUS
<1> USE OpsAssumption
<1>1. /\ main \in [Helpers -> Phases] /\ broken \in [Helpers -> BOOLEAN]
      /\ process \in [Helpers -> {"none", "up", "exited"}]
      /\ session \in Helpers \cup {NoHelper}
  BY DEF Inv, DesktopTypes, HelperTypes, LinkTypes
<1>2. CASE UNCHANGED vars
  BY <1>2 DEF vars, desktop, rest, mutex, helper, link, loop, Joined
<1>3. CASE User \/ Reply \/ Aside \/ \E t \in Threads : Exchange(t)
  <2>1. CASE AdminAnswered \/ Launch
    BY <1>1, <2>1
       DEF AdminAnswered, Launch, Launched, rest, helper, link, loop, mutex, Joined, Safe, Loops
  <2>2. CASE User
    BY <1>1, <2>2
       DEF User, Stop, ReplaceCheck, AskAdmin, PlanChanged, Leave, Begin, BeginCheck, rest,
           helper, link, loop, mutex, Joined
  <2>3. CASE Aside /\ ~Launch
    BY <1>1, <2>3
       DEF Aside, StopCheckFirst, Acquire, TrySession, Blocked, Finish, FinishCheck, rest,
           helper, link, loop, mutex, Joined
  <2>4. ASSUME NEW yes \in BOOLEAN, AnswerAsk(yes)
        PROVE  Joined'
    BY <1>1, <2>4 DEF AnswerAsk, rest, loop, mutex, Joined
  <2>5. ASSUME NEW t \in Threads, Exchange(t)
        PROVE  Joined'
    BY <1>1, <2>5
       DEF Exchange, Send, Register, ReadEvent, ReadAsk, ReadEnd, ReadClosed, Release, rest,
           helper, link, loop, mutex, Joined
  <2> QED
    BY <1>3, <2>1, <2>2, <2>3, <2>4, <2>5 DEF Reply, Aside
<1>4. ASSUME NEW h \in Helpers, Reader(h) \/ MainLoop(h) \/ Die(h) \/ Noticed(h)
      PROVE  Joined'
  <2>1. UNCHANGED <<gone, session>>
    BY <1>4
       DEF Reader, Accept, Disconnected, Noticed, MainLoop, Take, Progress, Prepare, Answered,
           Unanswered, Apply, Applied, Clear, Report, Exit, Die, Exited, desktop, rest, mutex
  <2>2. CASE Reader(h) \/ Noticed(h)
    BY <1>1, <2>1, <2>2 DEF Reader, Accept, Disconnected, Noticed, link, loop, Joined
  <2>3. CASE Take(h) \/ Answered(h) \/ Unanswered(h) \/ Apply(h) \/ Clear(h)
    <3>1. /\ UNCHANGED <<process, broken>> /\ process[h] = "up"
          /\ \E m \in Phases \ {"leave"} : main' = [main EXCEPT ![h] = m]
          /\ main[h] # "leave"
      BY <2>3
         DEF Take, Answered, Unanswered, Apply, Clear, Ends, Step, link, At, Serving, Phases,
             Bindings
    <3> QED
      BY <1>1, <2>1, <3>1 DEF Joined
  <2>4. CASE Progress(h) \/ Prepare(h) \/ Applied(h)
    <3>1. /\ UNCHANGED process /\ process[h] = "up"
          /\ \E m \in Phases \ {"leave"} : main' = [main EXCEPT ![h] = m]
          /\ broken' = broken \/ \E f : Emit(h, f)
      BY <1>1, <2>4
         DEF Progress, Prepare, Applied, Ends, Step, At, Serving, Phases, Bindings
    <3>2. /\ \A k \in Helpers : k # h => broken'[k] = broken[k]
          /\ ~gone /\ session # NoHelper => ~broken'[session]
      BY <2>1, <3>1, JoinedEmit DEF Joined
    <3> QED
      BY <1>1, <2>1, <3>1, <3>2 DEF Joined
  <2>5. CASE Report(h)
    <3>1. /\ UNCHANGED process /\ process[h] = "up"
          /\ main' = [main EXCEPT ![h] = IF broken'[h] THEN "leave" ELSE "wait"]
          /\ Emit(h, End(serving[h], done[h]))
      BY <2>5 DEF Report, Step, At, Serving
    <3>2. /\ \A k \in Helpers : k # h => broken'[k] = broken[k]
          /\ ~gone /\ session # NoHelper => ~broken'[session]
      BY <2>1, <3>1, JoinedEmit
    <3>3. broken' \in [Helpers -> BOOLEAN]
      BY <1>1, <3>1 DEF Emit
    <3> QED
      BY <1>1, <2>1, <3>1, <3>2, <3>3 DEF Joined
  <2>6. CASE Exit(h) \/ Die(h)
    BY <1>1, <2>1, <2>6 DEF Exit, Die, Exited, Joined
  <2> QED
    BY <1>4, <2>2, <2>3, <2>4, <2>5, <2>6 DEF MainLoop
<1> QED
  BY <1>2, <1>3, <1>4 DEF Next, Worker

LEMMA JoinedInit == Init => Joined
BY DEF Init, Joined

LEMMA TalkInit == Init => Talk
<1> SUFFICES ASSUME Init
             PROVE  Talk
  OBVIOUS
<1> USE OpsAssumption DEF Init
<1>1. /\ \A h \in Helpers : toHelper[h] = <<>> /\ running[h] = NoOp /\ serving[h] = NoOp
      /\ \A h \in Helpers : toDesktop[h] = <<>> /\ main[h] = "wait"
      /\ \A t \in Threads : pc[t] = "none"
  OBVIOUS
<1>2. \A x : ~InPipe(x, <<>>)
  BY EmptyPipe
<1>3. \A h \in Helpers, o \in Ops : ~Due(h, o) /\ ~Unasked(h, o)
  BY <1>1, <1>2 DEF Due, Unasked
<1>4. Rests
  BY <1>1 DEF Rests, Threads
<1>5. Owns
  BY <1>1, <1>3 DEF Owns, Exchanging
<1>6. AsksOnce
  BY <1>1, <1>3, EmptyFrames DEF AsksOnce, Early, Exchanging, Threads
<1>7. Watches
  BY DEF Watches
<1> QED
  BY <1>4, <1>5, <1>6, <1>7 DEF Talk

LEMMA TalkNext == Inv /\ Safe /\ Talk /\ [Next]_vars => Talk'
<1> SUFFICES ASSUME Inv, Safe, Talk, [Next]_vars
             PROVE  Talk'
  OBVIOUS
<1>1. CASE Next
  BY <1>1, TalkUser, TalkReply, TalkAside, TalkExchange, TalkHelper DEF Next, Worker
<1>2. CASE UNCHANGED vars
  <2>1. Dwindle
    BY <1>2, DwindleKept DEF vars, helper, link, reader, loop
  <2>2. /\ UNCHANGED <<desktop, toDesktop, approved, process, main, serving, applied>>
        /\ Unapplied
    BY <1>2 DEF vars, helper, link, loop, history, Talk, AsksOnce, Unapplied
  <2>3. Unapplied'
    BY <2>2 DEF Unapplied
  <2> QED
    BY <2>1, <2>2, <2>3, TalkSilent
<1> QED
  BY <1>1, <1>2

(* A helper reads its next request only when it is through with the last.   *)
LEMMA TalkGivesProperties ==
  ASSUME Inv, Safe, Joined, Talk
  PROVE  OwnFrames /\ ChangeIsWatched
<1> USE OpsAssumption
<1>1. ASSUME NEW t \in Threads, ~gone, pc[t] \in {"register", "read", "ask"},
             NEW i \in 1 .. Len(toDesktop[session])
      PROVE  toDesktop[session][i].op = op[t]
  BY <1>1 DEF Talk, Owns, Exchanging, Mine
<1>2. ASSUME ~gone, lock = "free", session # NoHelper, Serving(session)
      PROVE  /\ keeps
             /\ running[session] = NoOp
             /\ incoming[session] = <<>>
             /\ toDesktop[session] = <<>>
             /\ main[session] = "wait"
  <2>1. session \in Helpers /\ keeps /\ Quiet(session)
    BY <1>2 DEF Inv, DesktopTypes, Talk, Rests
  <2>2. running[session] = NoOp /\ serving[session] = NoOp /\ toDesktop[session] = <<>>
    BY <2>1 DEF Quiet, Due, Inv, HelperTypes
  <2>3. main[session] \in {"wait", "leave"}
    BY <2>1, <2>2 DEF Inv, HelperTypes, MainLoops
  <2>4. incoming[session] = <<>>
    BY <2>1, <2>2, <2>3 DEF Safe, Loops
  <2>5. main[session] # "leave"
    BY <1>2, <2>1 DEF Joined
  <2> QED
    BY <2>1, <2>2, <2>3, <2>4, <2>5
<1>3. ASSUME NEW h \in Helpers, toHelper[h] # <<>>, Head(toHelper[h]).type = "request"
      PROVE  running[h] = NoOp
  <2> DEFINE o == Head(toHelper[h]).op
  <2>1. toHelper[h] \in Seq(DesktopFrames)
    BY DEF Inv, LinkTypes
  <2>2. Head(toHelper[h]) \in DesktopFrames /\ InPipe(Head(toHelper[h]), toHelper[h])
    BY <1>3, <2>1, TailPipe
  <2>3. o \in Ops /\ Head(toHelper[h]) = Request(o)
    <3>1. \A f \in DesktopFrames : f.type = "request" => f.op \in Ops /\ f = Request(f.op)
      BY DEF DesktopFrames, Request, Cancel, Answer
    <3> QED
      BY <1>3, <2>2, <3>1
  <2> HIDE DEF o
  <2>4. InPipe(Request(o), toHelper[h]) /\ Due(h, o) /\ running[h] # o
    BY <2>2, <2>3 DEF Due, Safe, Tidy
  <2>5. running[h] \in Ops => running[h] = o
    BY <2>3, <2>4 DEF Due, Talk, Owns
  <2> QED
    BY <2>4, <2>5 DEF Inv, HelperTypes
<1>4. ASSUME NEW h \in Helpers, Serving(h), main[h] \in {"approved", "apply", "records"},
             ~gone
      PROVE  active /\ session = h /\ serving[h] = op["fg"]
  <2>1. serving[h] \in approved /\ Due(h, serving[h])
    BY <1>4 DEF Safe, Willed, Agreed, Due
  <2>2. pc["fg"] \in {"read", "ask"} /\ session = h /\ op["fg"] = serving[h]
    BY <1>4, <2>1 DEF Talk, Watches
  <2> QED
    BY <2>2 DEF Inv, Workers
<1> QED
  BY <1>1, <1>2, <1>3, <1>4 DEF OwnFrames, ChangeIsWatched

(* What an exchange reads was sent for its own operation, a session nobody   *)
(* holds is at rest, and no request reaches a helper out of turn.            *)
THEOREM SessionOwnsItsFrames == Spec => []OwnFrames
<1>1. Inv /\ Safe /\ Joined /\ Talk => OwnFrames
  BY TalkGivesProperties
<1> QED
  BY InvInit, InvNext, SafeInit, SafeNext, JoinedInit, JoinedNext, TalkInit, TalkNext, <1>1,
     PTL DEF Spec

(* A change under way is the active operation, on the helper the desktop     *)
(* holds.                                                                    *)
THEOREM SessionWatchesChanges == Spec => []ChangeIsWatched
<1>1. Inv /\ Safe /\ Joined /\ Talk => ChangeIsWatched
  BY TalkGivesProperties
<1> QED
  BY InvInit, InvNext, SafeInit, SafeNext, JoinedInit, JoinedNext, TalkInit, TalkNext, <1>1,
     PTL DEF Spec

-----------------------------------------------------------------------------
(* The refinement.                                                          *)

Kept == UNCHANGED <<gone, approved, stoppedAt, applied>> /\ op'["fg"] = op["fg"]

LEMMA KeptStutters == Kept => UNCHANGED Promise!vars
BY DEF Kept, Promise!vars

LEMMA PromiseInit == Init => Promise!Init
<1> SUFFICES ASSUME Init
             PROVE  Promise!Init
  OBVIOUS
<1>1. /\ gone = FALSE /\ approved = {} /\ stoppedAt = {} /\ applied = {}
      /\ op["fg"] = NoOp
  BY DEF Init, Threads
<1> QED
  BY <1>1 DEF Promise!Init

LEMMA PromiseUser ==
  ASSUME Inv, Safe, Talk, User
  PROVE  [Promise!Next]_Promise!vars
<1> USE OpsAssumption DEF Threads
<1>1. ASSUME NEW o \in Ops, Begin(o)
      PROVE  Promise!Start(o)
  <2>1. /\ ~gone /\ op["fg"] = NoOp /\ o \notin used
        /\ UNCHANGED <<gone, approved, stoppedAt, applied>>
        /\ op'["fg"] = o
    BY <1>1 DEF Begin, history, Inv, DesktopTypes, Workers, Safe, Ids
  <2>2. o \notin approved \cup stoppedAt \cup applied
    BY <2>1 DEF Safe, Ids, Willed, Talk, AsksOnce
  <2> QED
    BY <2>1, <2>2 DEF Promise!Start
<1>2. CASE Stop
  <2>1. UNCHANGED <<gone, approved, applied>> /\ op' = op
    BY <1>2 DEF Stop, rest, work
  <2>2. CASE stoppedAt' = stoppedAt
    BY <2>1, <2>2, KeptStutters DEF Kept
  <2>3. CASE stoppedAt' # stoppedAt
    <3>1. /\ fgId = op["fg"] /\ op["fg"] \in Ops
          /\ stoppedAt' = stoppedAt \cup ({op["fg"]} \ approved)
      BY <1>2, <2>3 DEF Stop, Safe, Writers, Inv, Workers
    <3>2. Promise!Stop
      BY <2>1, <2>3, <3>1 DEF Promise!Stop
    <3> QED
      BY <3>2 DEF Promise!Next
  <2> QED
    BY <2>2, <2>3
<1>3. CASE Leave
  <2>1. Promise!Leave
    BY <1>3 DEF Leave, history, Promise!Leave
  <2> QED
    BY <2>1 DEF Promise!Next
<1>4. CASE ReplaceCheck \/ AskAdmin \/ PlanChanged \/ \E o \in Ops : BeginCheck(o)
  <2>1. Kept
    BY <1>4
       DEF ReplaceCheck, AskAdmin, PlanChanged, BeginCheck, Kept, rest, work, history, Inv,
           DesktopTypes
  <2> QED
    BY <2>1, KeptStutters
<1> QED
  BY <1>1, <1>2, <1>3, <1>4 DEF User, Promise!Next, Ops

LEMMA PromiseWorkers ==
  ASSUME Inv, Safe, Talk, Reply \/ Worker
  PROVE  [Promise!Next]_Promise!vars
<1> USE OpsAssumption DEF Threads
<1>1. ASSUME NEW yes \in BOOLEAN, AnswerAsk(yes)
      PROVE  [Promise!Next]_Promise!vars
  <2>1. UNCHANGED <<gone, stoppedAt, applied>> /\ op' = op
    BY <1>1 DEF AnswerAsk, rest
  <2>2. CASE approved' = approved
    BY <2>1, <2>2, KeptStutters DEF Kept
  <2>3. CASE approved' # approved
    <3>1. asked = "plan" /\ approved' = approved \cup {op["fg"]} /\ pc["fg"] = "ask"
      BY <1>1, <2>3 DEF AnswerAsk
    <3>2. op["fg"] \in Changes
      BY <3>1 DEF Talk, AsksOnce
    <3>3. Promise!Approve
      BY <2>1, <3>1, <3>2 DEF Promise!Approve
    <3> QED
      BY <3>3 DEF Promise!Next
  <2> QED
    BY <2>2, <2>3
<1>2. CASE Finish
  <2>1. /\ UNCHANGED <<gone, approved, stoppedAt, applied>>
        /\ op["fg"] \in Ops /\ op'["fg"] = NoOp
    BY <1>2 DEF Finish, history, Inv, DesktopTypes, Workers
  <2>2. Promise!End
    BY <2>1 DEF Promise!End
  <2> QED
    BY <2>2 DEF Promise!Next
<1>3. CASE AdminAnswered \/ StopCheckFirst \/ Acquire \/ Launch \/ TrySession \/ Blocked
             \/ FinishCheck
  <2>1. Kept
    BY <1>3
       DEF AdminAnswered, StopCheckFirst, Acquire, Launch, TrySession, Blocked, FinishCheck,
           Kept, rest, work, history, Inv, DesktopTypes
  <2> QED
    BY <2>1, KeptStutters
<1>4. ASSUME NEW t \in Threads, Exchange(t)
      PROVE  [Promise!Next]_Promise!vars
  <2>1. Kept
    BY <1>4
       DEF Exchange, Send, Register, ReadEvent, ReadAsk, ReadEnd, ReadClosed, Release, Kept,
           rest, work, history
  <2> QED
    BY <2>1, KeptStutters
<1> QED
  BY <1>1, <1>2, <1>3, <1>4 DEF Reply, Worker, Aside

LEMMA PromiseHelper ==
  ASSUME Inv, Safe, Joined, Talk, NEW h \in Helpers,
         Reader(h) \/ MainLoop(h) \/ Die(h) \/ Noticed(h)
  PROVE  [Promise!Next]_Promise!vars
<1> USE OpsAssumption
<1>1. UNCHANGED <<gone, op, approved, stoppedAt>>
  BY DEF Reader, Accept, Disconnected, Noticed, MainLoop, Take, Progress, Prepare, Answered,
         Unanswered, Apply, Applied, Clear, Report, Exit, Die, Exited, desktop, rest, work,
         history
<1>2. CASE applied' = applied
  BY <1>1, <1>2, KeptStutters DEF Kept
<1>3. CASE applied' # applied
  <2> DEFINE o == serving[h]
  <2>1. Apply(h)
    BY <1>3
       DEF Reader, Accept, Disconnected, Noticed, MainLoop, Take, Progress, Prepare,
           Answered, Unanswered, Applied, Clear, Report, Exit, Die, Exited, history
  <2>2. /\ process[h] = "up" /\ main[h] = "approved" /\ ~cancel[o] /\ o \in Ops
        /\ applied' = applied \cup {o}
    BY <1>3, <2>1 DEF Apply, At, Serving, Inv, MainLoops
  <2>3. gone \/ o = op["fg"]
    BY <2>2, TalkGivesProperties DEF ChangeIsWatched, Serving
  <2>4. o \in approved /\ o \notin applied
    BY <2>2 DEF Safe, Willed, Agreed, Talk, AsksOnce
  <2>5. o \notin stoppedAt
    <3>1. ~Stopping(h, o)
      BY <2>2 DEF Stopping, Agreed
    <3> QED
      BY <3>1 DEF Safe, Halted, Due
  <2>6. Promise!Apply(o)
    BY <1>1, <2>2, <2>3, <2>4, <2>5 DEF Promise!Apply
  <2> QED
    BY <2>2, <2>6 DEF Promise!Next, Ops
<1> QED
  BY <1>2, <1>3

LEMMA PromiseNext ==
  Inv /\ Safe /\ Joined /\ Talk /\ [Next]_vars => [Promise!Next]_Promise!vars
<1> SUFFICES ASSUME Inv, Safe, Joined, Talk, [Next]_vars
             PROVE  [Promise!Next]_Promise!vars
  OBVIOUS
<1>1. CASE Next
  BY <1>1, PromiseUser, PromiseWorkers, PromiseHelper DEF Next
<1>2. CASE UNCHANGED vars
  BY <1>2, KeptStutters DEF vars, desktop, rest, work, history, Kept
<1> QED
  BY <1>1, <1>2

(* The session implements what an operation promises: whatever the threads,  *)
(* the pipes and the processes do, operations run one at a time, and only    *)
(* the one the window shows changes anything, once, as approved.             *)
THEOREM SessionKeepsPromise == Spec => KeepsPromise
<1> QED
  BY InvInit, InvNext, SafeInit, SafeNext, JoinedInit, JoinedNext, TalkInit, TalkNext,
     PromiseInit, PromiseNext, PTL DEF Spec, KeepsPromise, Promise!Spec

-----------------------------------------------------------------------------
(* A Stop is heard.  The invariant says, for the operation of either worker, *)
(* where the Stop is that it was sent.                                      *)

Heard(h, o) ==
  process[h] = "up"
    => \/ cancel[o]
       \/ InPipe(Cancel(o), toHelper[h])
       \/ running[h] # o /\ ~InPipe(Request(o), toHelper[h])

Hears ==
  /\ available => pc["fg"] \in {"read", "ask"} \cup Ending
  /\ stopped => pc["fg"] \notin Early \cup {"register"}
  /\ \A t \in Threads : lock = t => pc[t] \in Holding
  /\ pc["fg"] = "acquire" => check # "running"
  /\ pc["bg"] \notin {"stop", "acquire", "launch"}
  /\ stopped /\ pc["fg"] \in {"read", "ask"} => Heard(fgWriter, op["fg"])
  /\ check = "stopping" /\ pc["bg"] = "read" => Heard(bgWriter, op["bg"])

(* A write of anything but a request, and a flag that is set.               *)
LEMMA HeardKept ==
  ASSUME Inv, NEW h \in Helpers, NEW o \in Ops, Heard(h, o),
         process'[h] = "up" => process[h] = "up",
         CancelGrows, running'[h] = running[h],
         UNCHANGED toHelper \/ \E k, f : Write(k, f) /\ f \in DesktopFrames /\ f # Request(o)
  PROVE  Heard(h, o)'
<1> DEFINE s == toHelper[h]
<1>1. s \in Seq(DesktopFrames) /\ toHelper \in [Helpers -> Seq(DesktopFrames)]
  BY DEF Inv, LinkTypes
<1>2. CASE toHelper'[h] = s
  BY <1>2 DEF Heard, CancelGrows
<1>3. CASE toHelper'[h] # s
  <2>1. PICK f \in DesktopFrames : f # Request(o) /\ toHelper'[h] = Append(s, f)
    BY <1>1, <1>3 DEF Write
  <2> HIDE DEF s
  <2>2. \A x : InPipe(x, Append(s, f)) <=> InPipe(x, s) \/ x = f
    BY <1>1, AppendPipe
  <2> QED
    BY <2>1, <2>2 DEF Heard, CancelGrows, s
<1> QED
  BY <1>2, <1>3

(* A Stop is in the pipe once it is written.                                *)
LEMMA HeardNow ==
  ASSUME Inv, NEW h \in Helpers, NEW o \in Ops, Write(h, Cancel(o)), UNCHANGED process
  PROVE  Heard(h, o)'
<1> DEFINE s == toHelper[h]
<1>1. s \in Seq(DesktopFrames) /\ toHelper \in [Helpers -> Seq(DesktopFrames)]
  BY DEF Inv, LinkTypes
<1>2. process[h] = "up" => toHelper'[h] = Append(s, Cancel(o))
  BY <1>1 DEF Write
<1>3. Cancel(o) \in DesktopFrames
  BY FramesAreFrames
<1> HIDE DEF s
<1>4. InPipe(Cancel(o), Append(s, Cancel(o)))
  BY <1>1, <1>3, AppendPipe
<1> QED
  BY <1>2, <1>4 DEF Heard

(* The helper it was written to sets the flag, or is through.               *)
LEMMA HeardHelper ==
  ASSUME Inv, Safe, NEW h \in Helpers, NEW o \in Ops, Heard(h, o),
         \A k \in Helpers : Near(k, o) => k = h,
         NEW k \in Helpers, Reader(k) \/ MainLoop(k) \/ Die(k) \/ Noticed(k)
  PROVE  Heard(h, o)'
<1> USE OpsAssumption
<1>1. /\ toHelper \in [Helpers -> Seq(DesktopFrames)] /\ cancel \in [Ops -> BOOLEAN]
      /\ running \in [Helpers -> Ops \cup {NoOp}]
      /\ process \in [Helpers -> {"none", "up", "exited"}]
  BY DEF Inv, HelperTypes, LinkTypes
<1>2. CASE Accept(k)
  <2>1. CASE k # h
    <3>1. CancelGrows
      BY <1>1, <1>2, CancelsGrow DEF Accept, flags, CancelGrows
    <3>2. UNCHANGED <<process, toHelper[h], running[h]>>
      BY <1>1, <1>2, <2>1 DEF Accept, reader
    <3> QED
      BY <3>1, <3>2 DEF Heard, CancelGrows
  <2>2. CASE k = h
    <3> DEFINE s == toHelper[h]
               f == Head(s)
               p == Tail(s)
    <3>1. s \in Seq(DesktopFrames) /\ s # <<>> /\ toHelper'[h] = p /\ UNCHANGED process
      BY <1>1, <1>2, <2>2 DEF Accept
    <3>2. RequestsLead(s)
      BY DEF Safe, Tidy
    <3> HIDE DEF s
    <3>3. /\ f \in DesktopFrames
          /\ \A x : InPipe(x, s) <=> InPipe(x, p) \/ x = f
          /\ ~InPipe(Request(f.op), p)
      BY <3>1, <3>2, TailPipe
    <3>4. CancelGrows
      BY <1>1, <1>2, CancelsGrow DEF Accept, flags, CancelGrows
    <3>5. process[h] = "up"
      BY <1>2, <2>2 DEF Accept, Serving
    <3>6. CASE f = Cancel(o)
      <4>1. running[h] = o => cancel'[o]
        BY <1>1, <1>2, <2>2, <3>6 DEF Accept, Cancel, s
      <4>2. running'[h] = running[h]
        BY <1>2, <2>2, <3>6 DEF Accept, Cancel, reader, s
      <4>3. ~InPipe(Request(o), p)
        BY <3>3, <3>6 DEF Cancel
      <4> QED
        BY <3>1, <4>1, <4>2, <4>3 DEF Heard
    <3>7. CASE f # Cancel(o)
      <4>1. running'[h] # running[h] => running'[h] = f.op /\ f = Request(f.op)
        <5>1. f.type = "request" => f = Request(f.op)
          BY <3>3 DEF DesktopFrames, Request, Cancel, Answer
        <5> QED
          BY <1>1, <1>2, <2>2, <5>1 DEF Accept, reader, StopReading, s
      <4>2. InPipe(Cancel(o), s) => InPipe(Cancel(o), p)
        BY <3>3, <3>7
      <4>3. /\ running[h] # o /\ ~InPipe(Request(o), s)
            => running'[h] # o /\ ~InPipe(Request(o), p)
        BY <3>3, <4>1
      <4> QED
        BY <3>1, <3>4, <3>5, <4>2, <4>3 DEF Heard, CancelGrows, s
    <3> QED
      BY <3>6, <3>7
  <2> QED
    BY <2>1, <2>2
<1>3. CASE Clear(k)
  <2>1. /\ UNCHANGED <<process, toHelper>>
        /\ running' = [running EXCEPT ![k] = NoOp]
        /\ cancel' = [cancel EXCEPT ![serving[k]] = FALSE]
        /\ running[k] = serving[k]
    BY <1>3 DEF Clear, link, At, Safe, Loops, Engaged
  <2>2. CASE serving[k] = o
    <3>1. k = h
      BY <2>2 DEF Near
    <3>2. ~InPipe(Request(o), toHelper[h]) /\ running'[h] # o
      BY <1>1, <2>1, <2>2, <3>1 DEF Safe, Tidy
    <3> QED
      BY <2>1, <3>2 DEF Heard, InPipe
  <2>3. CASE serving[k] # o
    <3>1. cancel'[o] = cancel[o] /\ (running[h] # o => running'[h] # o)
      BY <1>1, <2>1, <2>3
    <3> QED
      BY <2>1, <3>1 DEF Heard, InPipe
  <2> QED
    BY <2>2, <2>3
<1>4. CASE Exit(k) \/ Die(k)
  BY <1>1, <1>4 DEF Exit, Die, Exited, flags, Heard, InPipe
<1>5. CASE ~(Accept(k) \/ Clear(k) \/ Exit(k) \/ Die(k))
  <2>1. UNCHANGED <<process, toHelper, running>>
    BY <1>5
       DEF Reader, Disconnected, Noticed, MainLoop, Take, Progress, Prepare, Answered,
           Unanswered, Apply, Applied, Report, link, reader
  <2>2. CancelGrows
    BY <1>5, CancelsGrow
       DEF Reader, Disconnected, Noticed, MainLoop, Take, Progress, Prepare, Answered,
           Unanswered, Apply, Applied, Report, flags
  <2> QED
    BY <2>1, <2>2, HeardKept
<1> QED
  BY <1>2, <1>3, <1>4, <1>5

LEMMA HeardDesktop ==
  ASSUME Inv, Safe,
         User \/ (\E yes \in BOOLEAN : AnswerAsk(yes)) \/ (Aside /\ ~Launch)
           \/ (\E t \in Threads : Exchange(t) /\ ~Send(t)),
         NEW h \in Helpers, NEW o \in Ops, Heard(h, o)
  PROVE  Heard(h, o)'
<1> USE DEF Threads
<1>1. ASSUME UNCHANGED <<process, toHelper, running, cancel>>
      PROVE  Heard(h, o)'
  BY <1>1, HeardKept DEF CancelGrows
<1>2. ASSUME UNCHANGED <<process, running, cancel>>,
             NEW k, NEW f \in DesktopFrames, Write(k, f), f.type # "request"
      PROVE  Heard(h, o)'
  <2>1. f # Request(o)
    BY <1>2 DEF Request
  <2> QED
    BY <1>2, <2>1, HeardKept DEF CancelGrows
<1>3. CASE Stop
  <2>1. fgWriter # NoHelper =>
          Cancel(fgId) \in DesktopFrames /\ Cancel(fgId).type # "request"
    BY FramesAreFrames DEF Cancel, Inv, Workers
  <2>2. UNCHANGED <<process, running, cancel>>
    BY <1>3 DEF Stop, reader, flags
  <2>3. UNCHANGED toHelper \/ (fgWriter # NoHelper /\ Write(fgWriter, Cancel(fgId)))
    BY <1>3 DEF Stop
  <2> QED
    BY <1>1, <1>2, <2>1, <2>2, <2>3
<1>4. CASE ReplaceCheck \/ StopCheckFirst
  <2>1. bgWriter # NoHelper =>
          Cancel(bgId) \in DesktopFrames /\ Cancel(bgId).type # "request"
    BY FramesAreFrames DEF Cancel, Inv, Workers
  <2>2. UNCHANGED <<process, running, cancel>>
    BY <1>4 DEF ReplaceCheck, StopCheckFirst, reader, flags
  <2>3. UNCHANGED toHelper \/ (bgWriter # NoHelper /\ Write(bgWriter, Cancel(bgId)))
    BY <1>4 DEF ReplaceCheck, StopCheckFirst, RequestStop
  <2> QED
    BY <1>1, <1>2, <2>1, <2>2, <2>3
<1>5. ASSUME NEW yes \in BOOLEAN, AnswerAsk(yes)
      PROVE  Heard(h, o)'
  <2> DEFINE f == Answer(op["fg"], asked, yes)
  <2>1. op["fg"] \in Ops /\ asked \in Bindings
    BY <1>5 DEF AnswerAsk, Inv, Workers
  <2>2. f \in DesktopFrames /\ f.type # "request"
    BY <2>1, FramesAreFrames DEF Answer
  <2>3. UNCHANGED <<process, running, cancel>> /\ Write(session, f)
    BY <1>5 DEF AnswerAsk, reader, flags
  <2> HIDE DEF f
  <2> QED
    BY <1>2, <2>2, <2>3
<1>6. ASSUME NEW t \in Threads, Register(t)
      PROVE  Heard(h, o)'
  <2>1. Cancel(op[t]) \in DesktopFrames /\ Cancel(op[t]).type # "request"
    BY <1>6, FramesAreFrames DEF Cancel, Register, Inv, Workers
  <2>2. UNCHANGED <<process, running, cancel>>
    BY <1>6 DEF Register, reader, flags
  <2>3. UNCHANGED toHelper \/ Write(session, Cancel(op[t]))
    BY <1>6 DEF Register
  <2> QED
    BY <1>1, <1>2, <2>1, <2>2, <2>3
<1>7. ASSUME NEW t \in Threads, ReadAsk(t)
      PROVE  Heard(h, o)'
  <2> DEFINE f == Answer(op[t], NextFrame.binding, FALSE)
  <2>1. op[t] \in Ops /\ NextFrame.binding \in Bindings
    BY <1>7, ReadTypes, HelperFrameFields DEF ReadAsk, Reading, Inv, Workers
  <2>2. f \in DesktopFrames /\ f.type # "request"
    BY <2>1, FramesAreFrames DEF Answer
  <2>3. UNCHANGED <<process, running, cancel>> /\ (UNCHANGED toHelper \/ Write(session, f))
    BY <1>7 DEF ReadAsk, reader, flags
  <2> HIDE DEF f
  <2> QED
    BY <1>1, <1>2, <2>2, <2>3
<1>8. CASE AskAdmin \/ PlanChanged \/ Leave \/ \E p \in Ops : Begin(p) \/ BeginCheck(p)
  BY <1>1, <1>8
     DEF AskAdmin, PlanChanged, Leave, Begin, BeginCheck, helper, link, reader, flags
<1>9. CASE Acquire \/ TrySession \/ Blocked \/ Finish \/ FinishCheck
  BY <1>1, <1>9
     DEF Acquire, TrySession, Blocked, Finish, FinishCheck, helper, link, reader, flags
<1>10. ASSUME NEW t \in Threads, ReadEvent(t) \/ ReadEnd(t) \/ ReadClosed(t) \/ Release(t)
       PROVE  Heard(h, o)'
  BY <1>1, <1>10
     DEF ReadEvent, ReadEnd, ReadClosed, Release, helper, link, reader, flags
<1> QED
  BY <1>3, <1>4, <1>5, <1>6, <1>7, <1>8, <1>9, <1>10 DEF User, Aside, Exchange

LEMMA HearsUser ==
  ASSUME Inv, Safe, Hears, User
  PROVE  Hears'
<1> USE OpsAssumption DEF Threads
<1>1. \A h \in Helpers, o \in Ops : Heard(h, o) => Heard(h, o)'
  BY HeardDesktop
<1>2. ASSUME NEW o \in Ops, Begin(o)
      PROVE  Hears'
  BY <1>1, <1>2
     DEF Begin, Hears, checkState, mutex, Inv, DesktopTypes, Workers, Safe, Writers, Early,
         Ending, Holding
<1>3. CASE Stop
  <2>1. /\ stopped' = TRUE /\ pc["fg"] \in {"read", "ask"} \cup Ending
        /\ UNCHANGED <<gone, available, fgWriter, check, bgWriter, pc, op, lock, process>>
    BY <1>3 DEF Stop, rest, checkState, work, mutex, Hears
  <2>2. pc["fg"] \in {"read", "ask"} => Heard(fgWriter, op["fg"])'
    <3> SUFFICES ASSUME pc["fg"] \in {"read", "ask"}
                 PROVE  Heard(fgWriter, op["fg"])'
      OBVIOUS
    <3>1. fgWriter \in Helpers /\ op["fg"] \in Ops /\ fgId = op["fg"]
      BY DEF Inv, Workers, Holding, Safe, Writers
    <3>2. Write(fgWriter, Cancel(op["fg"]))
      BY <1>3, <3>1 DEF Stop
    <3> QED
      BY <2>1, <3>1, <3>2, HeardNow
  <2>3. check = "stopping" /\ pc["bg"] = "read" => Heard(bgWriter, op["bg"])'
    BY <1>1, <2>1 DEF Hears, Inv, Workers, Holding, Safe, Writers
  <2> QED
    BY <2>1, <2>2, <2>3 DEF Hears, Early, Ending
<1>4. CASE ReplaceCheck
  <2>1. /\ check = "running" /\ check' = "stopping"
        /\ UNCHANGED <<available, stopped, fgWriter, bgWriter, pc, op, lock, process>>
    BY <1>4 DEF ReplaceCheck, RequestStop, rest, stopState, work, mutex
  <2>2. pc["bg"] = "read" => Heard(bgWriter, op["bg"])'
    <3> SUFFICES ASSUME pc["bg"] = "read"
                 PROVE  Heard(bgWriter, op["bg"])'
      OBVIOUS
    <3>1. bgWriter \in Helpers /\ op["bg"] \in Ops /\ bgId = op["bg"]
      BY DEF Inv, Workers, Holding, Safe, Writers
    <3>2. Write(bgWriter, Cancel(op["bg"]))
      BY <1>4, <3>1 DEF ReplaceCheck, RequestStop
    <3> QED
      BY <2>1, <3>1, <3>2, HeardNow
  <2>3. stopped /\ pc["fg"] \in {"read", "ask"} => Heard(fgWriter, op["fg"])'
    BY <1>1, <2>1 DEF Hears, Inv, Workers, Holding, Safe, Writers
  <2> QED
    BY <2>1, <2>2, <2>3 DEF Hears
<1>5. CASE AskAdmin
  BY <1>1, <1>5
     DEF AskAdmin, Hears, rest, stopState, checkState, work, Inv, DesktopTypes, Workers,
         Safe, Writers, Holding
<1>6. CASE PlanChanged
  BY <1>1, <1>6
     DEF PlanChanged, Goto, Hears, rest, stopState, checkState, mutex, Inv, DesktopTypes,
         Workers, Safe, Writers, Early, Ending, Holding
<1>7. CASE Leave
  BY <1>7 DEF Leave, Hears, Early
<1>8. ASSUME NEW o \in Ops, BeginCheck(o)
      PROVE  Hears'
  BY <1>1, <1>8
     DEF BeginCheck, Hears, stopState, mutex, Inv, DesktopTypes, Workers, Safe, Writers,
         Early, Ending, Holding
<1> QED
  BY <1>2, <1>3, <1>4, <1>5, <1>6, <1>7, <1>8 DEF User, Ops

LEMMA HearsReply ==
  ASSUME Inv, Safe, Hears, Reply
  PROVE  Hears'
<1> USE OpsAssumption DEF Threads
<1>1. CASE AdminAnswered
  BY <1>1
     DEF AdminAnswered, Hears, rest, stopState, checkState, work, Inv, DesktopTypes,
         Workers, Safe, Writers, Early, Ending, Holding
<1>2. ASSUME NEW yes \in BOOLEAN, AnswerAsk(yes)
      PROVE  Hears'
  <2>1. \A h \in Helpers, o \in Ops : Heard(h, o) => Heard(h, o)'
    BY <1>2, HeardDesktop
  <2> QED
    BY <1>2, <2>1
       DEF AnswerAsk, Goto, Hears, rest, stopState, checkState, mutex, Inv, DesktopTypes,
           Workers, Safe, Writers, Early, Ending, Holding
<1> QED
  BY <1>1, <1>2 DEF Reply

LEMMA HearsAside ==
  ASSUME Inv, Safe, Hears, Aside
  PROVE  Hears'
<1> USE OpsAssumption DEF Threads
<1>1. ~Launch => \A h \in Helpers, o \in Ops : Heard(h, o) => Heard(h, o)'
  BY HeardDesktop
<1>2. CASE StopCheckFirst
  <2>1. /\ pc["fg"] = "stop" /\ pc' = [pc EXCEPT !["fg"] = "acquire"]
        /\ UNCHANGED <<available, stopped, bgWriter, bgId, op, lock, process>>
        /\ RequestStop /\ ~Launch
    BY <1>2 DEF StopCheckFirst, Goto, rest, stopState, mutex, Launch
  <2>2. check' # "running" /\ (check' = check \/ (check = "running" /\ check' = "stopping"))
    BY <2>1 DEF RequestStop
  <2>3. check' = "stopping" /\ pc["bg"] = "read" => Heard(bgWriter, op["bg"])'
    <3> SUFFICES ASSUME check' = "stopping", pc["bg"] = "read"
                 PROVE  Heard(bgWriter, op["bg"])'
      OBVIOUS
    <3>1. bgWriter \in Helpers /\ op["bg"] \in Ops /\ bgId = op["bg"]
      BY DEF Inv, Workers, Holding, Safe, Writers
    <3>2. CASE check = "stopping"
      <4>1. Heard(bgWriter, op["bg"])
        BY <3>2 DEF Hears
      <4> QED
        BY <1>1, <2>1, <3>1, <4>1
    <3>3. CASE check = "running"
      <4>1. Write(bgWriter, Cancel(op["bg"]))
        BY <2>1, <3>1, <3>3 DEF RequestStop
      <4> QED
        BY <2>1, <3>1, <4>1, HeardNow
    <3> QED
      BY <2>2, <3>2, <3>3
  <2> QED
    BY <2>1, <2>2, <2>3 DEF Hears, Early, Ending, Holding, Inv, DesktopTypes
<1>3. CASE Acquire
  BY <1>1, <1>3
     DEF Acquire, Goto, Hears, rest, stopState, checkState, Inv, DesktopTypes, Workers,
         Safe, Writers, Early, Ending, Holding, Launch
<1>4. CASE Launch
  BY <1>4
     DEF Launch, Goto, Hears, rest, stopState, checkState, Inv, DesktopTypes, Workers,
         Safe, Writers, Early, Ending, Holding
<1>5. CASE TrySession
  BY <1>1, <1>5
     DEF TrySession, Goto, Hears, rest, stopState, checkState, Inv, DesktopTypes, Workers,
         Safe, Writers, Early, Ending, Holding, Launch
<1>6. CASE Blocked
  BY <1>1, <1>6
     DEF Blocked, Goto, Hears, rest, stopState, mutex, Inv, DesktopTypes, Workers, Safe,
         Writers, Early, Ending, Holding, Launch
<1>7. CASE Finish
  BY <1>1, <1>7
     DEF Finish, Goto, Hears, checkState, mutex, Inv, DesktopTypes, Workers, Safe,
         Writers, Early, Ending, Holding, Launch
<1>8. CASE FinishCheck
  BY <1>1, <1>8
     DEF FinishCheck, Goto, Hears, rest, stopState, mutex, Inv, DesktopTypes, Workers,
         Safe, Writers, Early, Ending, Holding, Launch
<1> QED
  BY <1>2, <1>3, <1>4, <1>5, <1>6, <1>7, <1>8 DEF Aside

LEMMA HearsExchange ==
  ASSUME Inv, Safe, Hears, NEW t \in Threads, Exchange(t)
  PROVE  Hears'
<1> USE OpsAssumption DEF Threads
<1>1. ~Send(t) => \A h \in Helpers, o \in Ops : Heard(h, o) => Heard(h, o)'
  BY HeardDesktop
<1>2. CASE Send(t)
  <2>1. /\ pc[t] = "send" /\ lock = t
        /\ \E p \in {"register", "drop"} : pc' = [pc EXCEPT ![t] = p]
        /\ UNCHANGED <<available, stopped, check, lock>>
    BY <1>2 DEF Send, Goto, rest, stopState, checkState, mutex, Inv, Workers, Holding
  <2>2. ~stopped \/ t = "bg"
    BY <2>1 DEF Hears, Early
  <2> QED
    BY <2>1, <2>2 DEF Hears, Inv, DesktopTypes, Workers, Early, Ending, Holding
<1>3. CASE Register(t)
  <2>1. /\ pc[t] = "register" /\ lock = t /\ pc' = [pc EXCEPT ![t] = "read"]
        /\ UNCHANGED <<stopped, check, op, lock, process>>
        /\ t = "bg" => /\ UNCHANGED <<available, fgWriter>>
                       /\ bgWriter' = session
                       /\ check = "stopping" => Write(session, Cancel(op["bg"]))
        /\ t = "fg" => ~stopped
        /\ session \in Helpers /\ op[t] \in Ops
    BY <1>3
       DEF Register, Goto, rest, mutex, Inv, Workers, Holding, Hears
  <2>2. t = "bg" /\ check = "stopping" => Heard(bgWriter, op["bg"])'
    <3> SUFFICES ASSUME t = "bg", check = "stopping"
                 PROVE  Heard(bgWriter, op["bg"])'
      OBVIOUS
    <3>1. PICK h \in Helpers, o \in Ops : h = session /\ o = op["bg"]
      BY <2>1
    <3>2. Heard(h, o)'
      BY <2>1, <3>1, HeardNow
    <3> QED
      BY <2>1, <3>1, <3>2
  <2>3. \A u \in Threads : u # t => pc[u] \notin Holding
    BY <2>1 DEF Inv, Workers
  <2> QED
    BY <2>1, <2>2, <2>3 DEF Hears, Inv, DesktopTypes, Early, Ending, Holding
<1>4. CASE ReadEvent(t)
  BY <1>1, <1>4
     DEF ReadEvent, Reading, Hears, rest, checkState, work, mutex, Inv, DesktopTypes,
         Workers, Safe, Writers, Early, Ending, Holding, Send
<1>5. CASE ReadAsk(t)
  <2>1. /\ pc[t] = "read" /\ lock = t /\ ~Send(t)
        /\ UNCHANGED <<stopped, fgWriter, check, bgWriter, op, lock>>
        /\ \/ t = "fg" /\ pc' = [pc EXCEPT !["fg"] = "ask"]
           \/ /\ t = "bg" /\ available' = available
              /\ pc' = pc \/ pc' = [pc EXCEPT !["bg"] = "drop"]
    BY <1>5
       DEF ReadAsk, Reading, Goto, mutex, checkState, Inv, Workers, Holding, Send
  <2> QED
    BY <1>1, <2>1
       DEF Hears, Inv, DesktopTypes, Workers, Safe, Writers, Early, Ending, Holding
<1>6. CASE ReadEnd(t) \/ ReadClosed(t)
  BY <1>1, <1>6
     DEF ReadEnd, ReadClosed, Reading, Goto, Hears, rest, stopState, checkState, mutex,
         Inv, DesktopTypes, Workers, Safe, Writers, Early, Ending, Holding, Send
<1>7. CASE Release(t)
  BY <1>1, <1>7
     DEF Release, Goto, Hears, rest, stopState, checkState, mutex, Inv, DesktopTypes,
         Workers, Safe, Writers, Early, Ending, Holding, Send
<1> QED
  BY <1>2, <1>3, <1>4, <1>5, <1>6, <1>7 DEF Exchange

LEMMA HearsHelper ==
  ASSUME Inv, Safe, Hears, NEW k \in Helpers,
         Reader(k) \/ MainLoop(k) \/ Die(k) \/ Noticed(k)
  PROVE  Hears'
<1> USE OpsAssumption
<1>1. UNCHANGED desktop
  BY DEF Reader, Accept, Disconnected, Noticed, MainLoop, Take, Progress, Prepare, Answered,
         Unanswered, Apply, Applied, Clear, Report, Exit, Die, Exited
<1>2. UNCHANGED <<available, stopped, fgWriter, check, bgWriter, pc, op, lock>>
  BY <1>1 DEF desktop, stopState, checkState, work, mutex
<1>3. stopped /\ pc["fg"] \in {"read", "ask"} => Heard(fgWriter, op["fg"])'
  <2> SUFFICES ASSUME stopped, pc["fg"] \in {"read", "ask"}
               PROVE  Heard(fgWriter, op["fg"])'
    OBVIOUS
  <2>1. /\ fgWriter \in Helpers /\ op["fg"] \in Ops
        /\ \A j \in Helpers : Near(j, op["fg"]) => j = fgWriter
    BY DEF Inv, Workers, Holding, Safe, Writers, Threads
  <2>2. Heard(fgWriter, op["fg"])
    BY DEF Hears
  <2>3. PICK h \in Helpers, o \in Ops : h = fgWriter /\ o = op["fg"]
    BY <2>1
  <2>4. Heard(h, o)'
    BY <2>1, <2>2, <2>3, HeardHelper
  <2> QED
    BY <1>2, <2>3, <2>4
<1>4. check = "stopping" /\ pc["bg"] = "read" => Heard(bgWriter, op["bg"])'
  <2> SUFFICES ASSUME check = "stopping", pc["bg"] = "read"
               PROVE  Heard(bgWriter, op["bg"])'
    OBVIOUS
  <2>1. /\ bgWriter \in Helpers /\ op["bg"] \in Ops
        /\ \A j \in Helpers : Near(j, op["bg"]) => j = bgWriter
    BY DEF Inv, Workers, Holding, Safe, Writers, Threads
  <2>2. Heard(bgWriter, op["bg"])
    BY DEF Hears
  <2>3. PICK h \in Helpers, o \in Ops : h = bgWriter /\ o = op["bg"]
    BY <2>1
  <2>4. Heard(h, o)'
    BY <2>1, <2>2, <2>3, HeardHelper
  <2> QED
    BY <1>2, <2>3, <2>4
<1> QED
  BY <1>2, <1>3, <1>4 DEF Hears

LEMMA HearsInit == Init => Hears
BY DEF Init, Hears, Threads

LEMMA HearsNext == Inv /\ Safe /\ Hears /\ [Next]_vars => Hears'
<1> SUFFICES ASSUME Inv, Safe, Hears, [Next]_vars
             PROVE  Hears'
  OBVIOUS
<1>1. CASE Next
  BY <1>1, HearsUser, HearsReply, HearsAside, HearsExchange, HearsHelper DEF Next, Worker
<1>2. CASE UNCHANGED vars
  BY <1>2
     DEF vars, desktop, rest, stopState, checkState, work, mutex, helper, link, reader,
         flags, Hears, Heard
<1> QED
  BY <1>1, <1>2

LEMMA HearsGivesProperties ==
  ASSUME Inv, Safe, Hears
  PROVE  StopIsKept /\ CheckYields
<1> USE DEF Threads
<1>1. StopIsKept
  BY DEF Hears, Heard, StopIsKept, Serving
<1>2. CheckYields
  <2> SUFFICES ASSUME ~gone, pc["fg"] = "acquire", lock = "bg", Serving(session)
               PROVE  \/ pc["bg"] \in {"keep", "drop"}
                      \/ /\ check = "stopping"
                         /\ \/ pc["bg"] \in {"send", "register"}
                            \/ cancel[op["bg"]]
                            \/ InPipe(Cancel(op["bg"]), toHelper[session])
                            \/ running[session] # op["bg"]
    BY DEF CheckYields
  <2>1. pc["bg"] \in {"send", "register", "read", "keep", "drop"}
    BY DEF Hears, Holding, Safe, Writers
  <2>2. check = "stopping"
    BY <2>1 DEF Hears, Inv, Workers
  <2>3. pc["bg"] = "read" => Heard(session, op["bg"])
    BY <2>2 DEF Hears, Safe, Writers
  <2> QED
    BY <2>1, <2>2, <2>3 DEF Heard, Serving
<1> QED
  BY <1>1, <1>2

(* A Stop the desktop accepted is not lost on its way to the operation.      *)
THEOREM SessionKeepsStops == Spec => []StopIsKept
<1>1. Inv /\ Safe /\ Hears => StopIsKept
  BY HearsGivesProperties
<1> QED
  BY InvInit, InvNext, SafeInit, SafeNext, HearsInit, HearsNext, <1>1, PTL DEF Spec

(* A background check that holds the session when an operation wants it has  *)
(* been told to stop, or is about to tell its helper.                        *)
THEOREM SessionChecksYield == Spec => []CheckYields
<1>1. Inv /\ Safe /\ Hears => CheckYields
  BY HearsGivesProperties
<1> QED
  BY InvInit, InvNext, SafeInit, SafeNext, HearsInit, HearsNext, <1>1, PTL DEF Spec
=============================================================================
