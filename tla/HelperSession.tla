--------------------------- MODULE HelperSession ---------------------------
(***************************************************************************)
(* The desktop and its elevated helper (setup.rs and setup_helper.rs).     *)
(*                                                                         *)
(* The desktop is one main thread, whose commands run one after another,   *)
(* a worker thread for the one foreground operation, a worker thread for   *)
(* the background disk check and a thread that asks for administrator      *)
(* access when the window opens.  They share the helper session behind a   *)
(* mutex.  A helper is a process with a reader thread, which registers     *)
(* requests and routes cancel and confirmation frames, and a main loop     *)
(* that runs one operation at a time.  A pipe in each direction joins the  *)
(* two; a pipe is a sequence of frames, read at its head.                  *)
(***************************************************************************)
EXTENDS Naturals, Sequences

CONSTANTS
  Checks,       \* operation IDs that only inspect (disk checks)
  Changes,      \* operation IDs that change something once approved
  Helpers,      \* helper processes that can be launched
  NoOp,         \* no operation
  NoHelper,     \* no helper
  KeepSession,  \* values of KEEP_SESSION: TRUE on Windows, else FALSE
  Window        \* bound: unread frames an event may queue behind

Ops == Checks \cup Changes

ASSUME OpsAssumption ==
  /\ Checks \cap Changes = {}
  /\ NoOp \notin Ops
  /\ NoHelper \notin Helpers
  /\ KeepSession \subseteq BOOLEAN
  /\ Window \in Nat

Threads == {"fg", "bg"}

VARIABLES
  gone,       \* the desktop process has ended
  active,     \* the snapshot's status is "inspecting" or "running"
  available,  \* snapshot.cancel_available
  stopped,    \* inner.cancel: the user stopped this operation
  fgWriter,   \* inner.writer: the helper whose pipe Stop writes to
  fgId,       \* inner.operation: the ID Stop repeats
  check,      \* Check.status of the background check
  bgWriter,   \* Check.writer
  bgId,       \* Check.operation
  pc,         \* where each worker thread is
  op,         \* the operation each worker thread runs
  asked,      \* the confirmation the foreground thread is showing
  outcome,    \* how each worker's exchange ended
  admin,      \* the thread of start_admin_session
  lock,       \* who holds the session mutex
  session,    \* the helper the session talks to
  used,       \* operation IDs drawn so far
  keeps       \* KEEP_SESSION of this build, which never changes

rest       == <<gone, active, used, keeps>>
stopState  == <<available, stopped, fgWriter, fgId>>
checkState == <<check, bgWriter, bgId>>
work       == <<pc, op, asked, outcome>>
mutex      == <<admin, lock, session>>
desktop    == <<rest, stopState, checkState, work, mutex>>

VARIABLES
  process,    \* each helper's process: "none", "up" or "exited"
  alive,      \* the desktop's view of it, cleared by a watcher thread
  toHelper,   \* frames written by the desktop, unread
  toDesktop,  \* frames written by the helper, unread
  reading,    \* the reader thread still accepts frames
  running,    \* the operation registered by the reader
  incoming,   \* requests passed on to the main loop
  main,       \* where the main loop is
  serving,    \* the operation the main loop has taken
  broken,     \* Watched.broken: a write to the desktop failed
  cancel,     \* each operation's cancellation flag
  answers,    \* each operation's channel of confirmation answers
  done        \* the outcome the main loop will report

link   == <<process, alive, toHelper, toDesktop>>
reader == <<reading, running, incoming>>
loop   == <<main, serving, broken, done>>
flags  == <<cancel, answers>>
helper == <<link, reader, loop, flags>>

VARIABLES
  approved,   \* history: operations the user approved
  stoppedAt,  \* history: operations stopped before they were approved
  applied     \* history: operations that began to change something

history == <<approved, stoppedAt, applied>>

vars == <<desktop, helper, history>>

-----------------------------------------------------------------------------
(* Frames.  Only "end" frames carry the operation in the code; "op" of an   *)
(* "event" or "ask" is there for the properties.                            *)

Request(o)      == [type |-> "request", op |-> o]
Cancel(o)       == [type |-> "cancel", op |-> o]
Answer(o, b, y) == [type |-> "answer", op |-> o, binding |-> b, yes |-> y]
Event(o, a)     == [type |-> "event", op |-> o, available |-> a]
Ask(o, b)       == [type |-> "ask", op |-> o, binding |-> b]
End(o, r)       == [type |-> "end", op |-> o, result |-> r]

Bindings == {"plan", "records"}
Answers  == [binding : Bindings, yes : BOOLEAN]

DesktopFrames == {Request(o) : o \in Ops} \cup {Cancel(o) : o \in Ops}
                   \cup {Answer(o, b, y) : o \in Ops, b \in Bindings, y \in BOOLEAN}
HelperFrames  == {Event(o, a) : o \in Ops, a \in BOOLEAN}
                   \cup {Ask(o, b) : o \in Ops, b \in Bindings}
                   \cup {End(o, r) : o \in Ops, r \in {"ok", "error"}}

(* The desktop's end of a connection closes with its last owner: the        *)
(* session, or a clone of the writer kept for Stop.                         *)
Open(h) == ~gone /\ h \in {session, fgWriter, bgWriter}

InPipe(f, pipe) == \E i \in 1 .. Len(pipe) : pipe[i] = f

(* A write reaches a helper that has not exited; any other write fails.     *)
Write(h, f) ==
  toHelper' = IF process[h] = "up"
              THEN [toHelper EXCEPT ![h] = Append(@, f)]
              ELSE toHelper

-----------------------------------------------------------------------------
(* The desktop's main thread: commands of the window.                       *)

(* Setup::begin and the spawn of the worker.  The ID is drawn by            *)
(* run_elevated; nothing sees it before the request is written.             *)
Begin(o) ==
  /\ ~gone /\ ~active
  /\ o \in Ops \ used
  /\ active' = TRUE
  /\ available' = FALSE
  /\ stopped' = FALSE
  /\ pc' = [pc EXCEPT !["fg"] = "stop"]
  /\ op' = [op EXCEPT !["fg"] = o]
  /\ used' = used \cup {o}
  /\ UNCHANGED <<gone, keeps, fgWriter, fgId, checkState, asked, outcome, mutex,
                 helper, history>>

(* cancel_setup: allowed only while the operation says it can be stopped.   *)
(* Bound: not again while the last Stop is unread.                          *)
Stop ==
  /\ ~gone /\ active /\ available
  /\ fgWriter # NoHelper => ~InPipe(Cancel(fgId), toHelper[fgWriter])
  /\ stopped' = TRUE
  /\ IF fgWriter = NoHelper
     THEN UNCHANGED <<toHelper, stoppedAt>>
     ELSE /\ Write(fgWriter, Cancel(fgId))
          /\ stoppedAt' = stoppedAt \cup ({fgId} \ approved)
  /\ UNCHANGED <<rest, available, fgWriter, fgId, checkState, work, mutex,
                 process, alive, toDesktop, reader, loop, flags, approved,
                 applied>>

(* Mutant: a check that has not registered yet is left alone.               *)
RequestStop_registered ==
  IF check # "running" \/ bgWriter = NoHelper
  THEN UNCHANGED <<check, toHelper>>
  ELSE check' = "stopping" /\ Write(bgWriter, Cancel(bgId))

(* request_stop and send_stop: a running check is marked, and told once it  *)
(* has registered its writer.                                               *)
RequestStop ==
  IF check # "running"
  THEN UNCHANGED <<check, toHelper>>
  ELSE /\ check' = "stopping"
       /\ IF bgWriter = NoHelper
          THEN UNCHANGED toHelper
          ELSE Write(bgWriter, Cancel(bgId))

(* staged_background_check and begin_check: never ahead of a foreground     *)
(* operation, and marked running before its thread exists.                  *)
BeginCheck(o) ==
  /\ ~gone /\ keeps /\ ~active
  /\ check \notin {"running", "stopping"}
  /\ o \in Checks \ used
  /\ check' = "running"
  /\ pc' = [pc EXCEPT !["bg"] = "try"]
  /\ op' = [op EXCEPT !["bg"] = o]
  /\ used' = used \cup {o}
  /\ UNCHANGED <<gone, active, keeps, stopState, bgWriter, bgId, asked, outcome,
                 mutex, helper, history>>

(* staged_background_check for another image while a check runs.            *)
ReplaceCheck ==
  /\ ~gone /\ keeps /\ ~active
  /\ check = "running"
  /\ RequestStop
  /\ UNCHANGED <<rest, stopState, bgWriter, bgId, work, mutex, process, alive,
                 toDesktop, reader, loop, flags, history>>

(* The window closes, or the desktop process is killed: its memory and its  *)
(* ends of the pipes are gone.                                              *)
Leave ==
  /\ ~gone
  /\ gone' = TRUE
  /\ active' = FALSE /\ available' = FALSE /\ stopped' = FALSE
  /\ fgWriter' = NoHelper /\ fgId' = NoOp
  /\ check' = "" /\ bgWriter' = NoHelper /\ bgId' = NoOp
  /\ pc' = [t \in Threads |-> "none"]
  /\ op' = [t \in Threads |-> NoOp]
  /\ asked' = "none"
  /\ outcome' = [t \in Threads |-> "none"]
  /\ admin' = FALSE /\ lock' = "free" /\ session' = NoHelper
  /\ alive' = [h \in Helpers |-> FALSE]
  /\ toDesktop' = [h \in Helpers |-> <<>>]
  /\ UNCHANGED <<used, keeps, process, toHelper, reader, loop, flags, history>>

-----------------------------------------------------------------------------
(* start_admin_session: the prompt at startup, holding the session mutex.   *)

(* elevation::launch: a helper connects, or the user declines the prompt.   *)
Launched(h) ==
  /\ process[h] = "none"
  /\ process' = [process EXCEPT ![h] = "up"]
  /\ alive' = [alive EXCEPT ![h] = TRUE]
  /\ reading' = [reading EXCEPT ![h] = TRUE]
  /\ session' = h
  /\ UNCHANGED <<toHelper, toDesktop, running, incoming, loop, flags>>

AskAdmin ==
  /\ ~gone /\ keeps /\ ~admin
  /\ lock = "free" /\ session = NoHelper
  /\ admin' = TRUE
  /\ lock' = "admin"
  /\ UNCHANGED <<rest, stopState, checkState, work, session, helper, history>>

AdminAnswered ==
  /\ ~gone /\ admin
  /\ admin' = FALSE
  /\ lock' = "free"
  /\ \/ \E h \in Helpers : Launched(h)
     \/ UNCHANGED <<session, helper>>
  /\ UNCHANGED <<rest, stopState, checkState, work, history>>

-----------------------------------------------------------------------------
(* The worker threads: run_elevated for the foreground operation ("fg") and *)
(* the closure of staged_background_check ("bg").                           *)

Goto(t, next) == pc' = [pc EXCEPT ![t] = next]

(* run_elevated: stop_background_check, before it waits for the session.    *)
StopCheckFirst ==
  /\ ~gone /\ pc["fg"] = "stop"
  /\ RequestStop
  /\ Goto("fg", "acquire")
  /\ UNCHANGED <<rest, stopState, bgWriter, bgId, op, asked, outcome, mutex,
                 process, alive, toDesktop, reader, loop, flags, history>>

(* acquire_session: waits for the mutex, forgets a helper known to have     *)
(* exited, and launches one only if there is none.                          *)
Acquire ==
  /\ ~gone /\ pc["fg"] = "acquire"
  /\ lock = "free"
  /\ lock' = "fg"
  /\ IF session # NoHelper /\ alive[session]
     THEN Goto("fg", "send") /\ UNCHANGED session
     ELSE Goto("fg", "launch") /\ session' = NoHelper
  /\ UNCHANGED <<rest, stopState, checkState, op, asked, outcome, admin,
                 helper, history>>

Launch ==
  /\ ~gone /\ pc["fg"] = "launch"
  /\ \/ /\ \E h \in Helpers : Launched(h)
        /\ Goto("fg", "send")
        /\ UNCHANGED <<outcome, lock>>
     \/ /\ lock' = "free"
        /\ Goto("fg", "finish")
        /\ outcome' = [outcome EXCEPT !["fg"] = "error"]
        /\ UNCHANGED <<session, helper>>
  /\ UNCHANGED <<rest, stopState, checkState, op, asked, admin, history>>

(* The check's thread only tries the mutex, and only uses a live helper.    *)
TrySession ==
  /\ ~gone /\ pc["bg"] = "try"
  /\ IF lock = "free" /\ session # NoHelper /\ alive[session]
     THEN lock' = "bg" /\ Goto("bg", "send")
     ELSE Goto("bg", "blocked") /\ UNCHANGED lock
  /\ UNCHANGED <<rest, stopState, checkState, op, asked, outcome, admin,
                 session, helper, history>>

Blocked ==
  /\ ~gone /\ pc["bg"] = "blocked"
  /\ check' = IF lock = "free" THEN "" ELSE "stopped"
  /\ Goto("bg", "none")
  /\ op' = [op EXCEPT !["bg"] = NoOp]
  /\ UNCHANGED <<rest, stopState, bgWriter, bgId, asked, outcome, mutex,
                 helper, history>>

(* exchange: write the request.  A failed write ends the exchange.          *)
Send(t) ==
  /\ ~gone /\ pc[t] = "send"
  /\ Write(session, Request(op[t]))
  /\ IF process[session] = "up"
     THEN Goto(t, "register") /\ UNCHANGED outcome
     ELSE Goto(t, "drop") /\ outcome' = [outcome EXCEPT ![t] = "error"]
  /\ UNCHANGED <<rest, stopState, checkState, op, asked, mutex, process,
                 alive, toDesktop, reader, loop, flags, history>>

(* Mutant: the ID that Stop repeats stays the last operation's.             *)
Register_stale(t) ==
  /\ ~gone /\ pc[t] = "register"
  /\ Goto(t, "read")
  /\ IF t = "fg"
     THEN /\ fgWriter' = session /\ available' = TRUE
          /\ UNCHANGED <<bgWriter, bgId, toHelper>>
     ELSE /\ bgWriter' = session /\ bgId' = op["bg"]
          /\ UNCHANGED <<available, fgWriter, toHelper>>
  /\ UNCHANGED <<rest, stopped, fgId, check, op, asked, outcome, mutex, process,
                 alive, toDesktop, reader, loop, flags, history>>

(* exchange: keep the writer for Stop.  A check that was asked to stop      *)
(* before it could be told sends its own cancel.                            *)
Register(t) ==
  /\ ~gone /\ pc[t] = "register"
  /\ Goto(t, "read")
  /\ \/ /\ t = "fg"
        /\ fgWriter' = session /\ fgId' = op["fg"]
        /\ available' = TRUE
        /\ UNCHANGED <<bgWriter, bgId, toHelper>>
     \/ /\ t = "bg"
        /\ bgWriter' = session /\ bgId' = op["bg"]
        /\ IF check = "stopping"
           THEN Write(session, Cancel(op["bg"]))
           ELSE UNCHANGED toHelper
        /\ UNCHANGED <<available, fgWriter, fgId>>
  /\ UNCHANGED <<rest, stopped, check, op, asked, outcome, mutex, process,
                 alive, toDesktop, reader, loop, flags, history>>

(* exchange: one frame from the helper.                                     *)
NextFrame == Head(toDesktop[session])

Reading(t) == ~gone /\ pc[t] = "read" /\ toDesktop[session] # <<>>

ReadFrame == toDesktop' = [toDesktop EXCEPT ![session] = Tail(@)]

ReadEvent(t) ==
  /\ Reading(t) /\ NextFrame.type = "event"
  /\ ReadFrame
  /\ available' = IF t = "fg" THEN NextFrame.available ELSE available
  /\ UNCHANGED <<rest, stopped, fgWriter, fgId, checkState, work, mutex,
                 process, alive, toHelper, reader, loop, flags, history>>

(* A confirmation: the foreground shows it (a staged review withdraws Stop  *)
(* while it is shown); a check refuses whatever it is asked.                *)
ReadAsk(t) ==
  /\ Reading(t) /\ NextFrame.type = "ask"
  /\ ReadFrame
  /\ \/ /\ t = "fg"
        /\ Goto("fg", "ask")
        /\ asked' = NextFrame.binding
        /\ available' \in {available, FALSE}
        /\ UNCHANGED <<outcome, toHelper>>
     \/ /\ t = "bg"
        /\ Write(session, Answer(op["bg"], NextFrame.binding, FALSE))
        /\ IF process[session] = "up"
           THEN UNCHANGED <<pc, outcome>>
           ELSE Goto("bg", "drop") /\ outcome' = [outcome EXCEPT !["bg"] = "error"]
        /\ UNCHANGED <<available, asked>>
  /\ UNCHANGED <<rest, stopped, fgWriter, fgId, checkState, op, mutex,
                 process, alive, reader, loop, flags, history>>

(* A result or error of this operation is a normal ending, which keeps the  *)
(* session; an answer for another operation is not.                         *)
ReadEnd(t) ==
  /\ Reading(t) /\ NextFrame.type = "end"
  /\ ReadFrame
  /\ IF NextFrame.op = op[t]
     THEN /\ Goto(t, IF keeps \/ t = "bg" THEN "keep" ELSE "drop")
          /\ outcome' = [outcome EXCEPT ![t] = NextFrame.result]
     ELSE /\ Goto(t, "drop")
          /\ outcome' = [outcome EXCEPT ![t] = "error"]
  /\ UNCHANGED <<rest, stopState, checkState, op, asked, mutex, process,
                 alive, toHelper, reader, loop, flags, history>>

(* Mutant: a helper that is silent for a while counts as disconnected.      *)
ReadClosed_impatient(t) ==
  /\ ~gone /\ pc[t] = "read"
  /\ toDesktop[session] = <<>>
  /\ Goto(t, "drop")
  /\ outcome' = [outcome EXCEPT ![t] = "error"]
  /\ UNCHANGED <<rest, stopState, checkState, op, asked, mutex, helper, history>>

(* The pipe is closed and drained: the helper disconnected.                 *)
ReadClosed(t) ==
  /\ ~gone /\ pc[t] = "read"
  /\ toDesktop[session] = <<>> /\ process[session] = "exited"
  /\ Goto(t, "drop")
  /\ outcome' = [outcome EXCEPT ![t] = "error"]
  /\ UNCHANGED <<rest, stopState, checkState, op, asked, mutex, helper,
                 history>>

(* The user answers, or the records are saved; the answer is written.       *)
AnswerAsk(yes) ==
  /\ ~gone /\ pc["fg"] = "ask"
  /\ Write(session, Answer(op["fg"], asked, yes))
  /\ asked' = "none"
  /\ IF process[session] = "up"
     THEN Goto("fg", "read") /\ UNCHANGED outcome
     ELSE Goto("fg", "drop") /\ outcome' = [outcome EXCEPT !["fg"] = "error"]
  /\ approved' = IF yes /\ asked = "plan" THEN approved \cup {op["fg"]} ELSE approved
  /\ UNCHANGED <<rest, stopState, checkState, op, mutex, process, alive,
                 toDesktop, reader, loop, flags, stoppedAt, applied>>

(* consume_usb_confirmation: the plan differs from the reviewed one, so the *)
(* exchange ends with no answer at all.                                     *)
PlanChanged ==
  /\ ~gone /\ pc["fg"] = "ask" /\ asked = "plan"
  /\ asked' = "none"
  /\ Goto("fg", "drop")
  /\ outcome' = [outcome EXCEPT !["fg"] = "error"]
  /\ UNCHANGED <<rest, stopState, checkState, op, mutex, helper, history>>

(* Mutant: the session outlives an exchange that did not end normally.      *)
Release_always(t) ==
  /\ ~gone /\ pc[t] \in {"keep", "drop"}
  /\ lock' = "free"
  /\ Goto(t, "finish")
  /\ UNCHANGED <<rest, stopState, checkState, op, asked, outcome, admin,
                 session, helper, history>>

(* The end of an exchange: the mutex is released, with the session only if  *)
(* the operation ended normally; what a dropped one left unread is gone.    *)
Release(t) ==
  /\ ~gone /\ pc[t] \in {"keep", "drop"}
  /\ IF pc[t] = "keep"
     THEN UNCHANGED <<session, toDesktop>>
     ELSE /\ session' = NoHelper
          /\ toDesktop' = [toDesktop EXCEPT ![session] = <<>>]
  /\ lock' = "free"
  /\ Goto(t, "finish")
  /\ UNCHANGED <<rest, stopState, checkState, op, asked, outcome, admin,
                 process, alive, toHelper, reader, loop, flags, history>>

(* The worker's last update: complete, prepared, failed or cancelled.       *)
Finish ==
  /\ ~gone /\ pc["fg"] = "finish"
  /\ active' = FALSE
  /\ available' = FALSE
  /\ fgWriter' = NoHelper
  /\ Goto("fg", "none")
  /\ op' = [op EXCEPT !["fg"] = NoOp]
  /\ outcome' = [outcome EXCEPT !["fg"] = "none"]
  /\ UNCHANGED <<gone, used, keeps, stopped, fgId, checkState, asked, mutex, helper,
                 history>>

(* finish_check.                                                            *)
FinishCheck ==
  /\ ~gone /\ pc["bg"] = "finish"
  /\ bgWriter' = NoHelper /\ bgId' = NoOp
  /\ check' = IF outcome["bg"] = "ok" THEN "done"
              ELSE IF check = "stopping" THEN "stopped" ELSE "failed"
  /\ Goto("bg", "none")
  /\ op' = [op EXCEPT !["bg"] = NoOp]
  /\ outcome' = [outcome EXCEPT !["bg"] = "none"]
  /\ UNCHANGED <<rest, stopState, asked, mutex, helper, history>>

-----------------------------------------------------------------------------
(* The helper's reader thread (serve): one frame of the desktop.            *)

Serving(h) == process[h] = "up"

(* The reader gives up: the running operation is cancelled and no request   *)
(* is accepted any more.                                                    *)
StopReading(h) ==
  /\ reading' = [reading EXCEPT ![h] = FALSE]
  /\ cancel' = IF running[h] = NoOp THEN cancel
               ELSE [cancel EXCEPT ![running[h]] = TRUE]

Accept(h) ==
  /\ Serving(h) /\ reading[h] /\ toHelper[h] # <<>>
  /\ toHelper' = [toHelper EXCEPT ![h] = Tail(@)]
  /\ LET f == Head(toHelper[h])
     IN  \/ (* a request while none is registered *)
            /\ f.type = "request" /\ running[h] = NoOp
            /\ running' = [running EXCEPT ![h] = f.op]
            /\ incoming' = [incoming EXCEPT ![h] = Append(@, f.op)]
            /\ UNCHANGED <<reading, flags>>
         \/ (* a request out of turn ends the session *)
            /\ f.type = "request" /\ running[h] # NoOp
            /\ StopReading(h)
            /\ UNCHANGED <<running, incoming, answers>>
         \/ (* a Stop reaches the operation it names, or nothing *)
            /\ f.type = "cancel"
            /\ cancel' = IF running[h] = f.op
                         THEN [cancel EXCEPT ![f.op] = TRUE] ELSE cancel
            /\ UNCHANGED <<reader, answers>>
         \/ (* so does an answer *)
            /\ f.type = "answer"
            /\ answers' = IF running[h] = f.op
                          THEN [answers EXCEPT ![f.op] =
                                  Append(@, [binding |-> f.binding, yes |-> f.yes])]
                          ELSE answers
            /\ UNCHANGED <<reader, cancel>>
  /\ UNCHANGED <<desktop, process, alive, toDesktop, loop, history>>

(* End of file: every frame is read and the desktop's end is closed.        *)
Disconnected(h) ==
  /\ Serving(h) /\ reading[h] /\ toHelper[h] = <<>> /\ ~Open(h)
  /\ StopReading(h)
  /\ UNCHANGED <<desktop, link, running, incoming, loop, answers, history>>

-----------------------------------------------------------------------------
(* The helper's main loop (serve) and the operation it runs (execute and    *)
(* confirm), from its first preparations to its outcome.                    *)

(* Windows has a pipe for each direction, and the session alone owns the    *)
(* end that reads; elsewhere one socket stays open as long as any clone.    *)
Readable(h) == IF keeps THEN ~gone /\ h = session ELSE Open(h)

(* Watched: a failed write breaks the channel and cancels the operation.    *)
(* What is written to a session already dropped is never read.              *)
Emit(h, f) ==
  IF Readable(h)
  THEN /\ toDesktop' = IF h = session
                       THEN [toDesktop EXCEPT ![h] = Append(@, f)]
                       ELSE toDesktop
       /\ UNCHANGED <<broken, cancel>>
  ELSE /\ broken' = [broken EXCEPT ![h] = TRUE]
       /\ cancel' = IF running[h] = NoOp THEN cancel
                    ELSE [cancel EXCEPT ![running[h]] = TRUE]
       /\ UNCHANGED toDesktop

At(h, where) == Serving(h) /\ main[h] = where
Step(h, next) == main' = [main EXCEPT ![h] = next]

(* The operation ends with an outcome, which the main loop will report.     *)
Ends(h, r) == Step(h, "clear") /\ done' = [done EXCEPT ![h] = r]

Take(h) ==
  /\ At(h, "wait") /\ incoming[h] # <<>>
  /\ serving' = [serving EXCEPT ![h] = Head(incoming[h])]
  /\ incoming' = [incoming EXCEPT ![h] = Tail(@)]
  /\ Step(h, "prepare")
  /\ UNCHANGED <<desktop, link, reading, running, broken, done, flags,
                 history>>

Progress(h) ==
  /\ Serving(h) /\ main[h] \in {"prepare", "apply"}
  /\ Len(toDesktop[h]) < Window
  /\ \E a \in BOOLEAN : Emit(h, Event(serving[h], a))
  /\ UNCHANGED <<desktop, process, alive, toHelper, reader, main, serving,
                 done, answers, history>>

(* Preparation ends: an inspection has its result, anything may fail, and a *)
(* change asks for its confirmation unless it was stopped first.            *)
Prepare(h) ==
  /\ At(h, "prepare")
  /\ \/ /\ serving[h] \in Checks
        /\ Ends(h, "ok")
        /\ UNCHANGED <<toDesktop, broken, cancel>>
     \/ /\ Ends(h, "error")
        /\ UNCHANGED <<toDesktop, broken, cancel>>
     \/ /\ serving[h] \in Changes /\ ~cancel[serving[h]]
        /\ Step(h, "plan")
        /\ Emit(h, Ask(serving[h], "plan"))
        /\ UNCHANGED done
  /\ UNCHANGED <<desktop, process, alive, toHelper, reader, serving, answers,
                 history>>

(* Mutant: any answer to the confirmation counts as an approval.            *)
Answered_any(h) ==
  /\ Serving(h) /\ main[h] \in Bindings
  /\ LET o == serving[h]
     IN  /\ answers[o] # <<>>
         /\ answers' = [answers EXCEPT ![o] = Tail(@)]
         /\ IF main[h] = "records"
            THEN Ends(h, "ok")
            ELSE Step(h, "approved") /\ UNCHANGED done
  /\ UNCHANGED <<desktop, link, reader, serving, broken, cancel, history>>

(* confirm: the next answer decides, if it is bound to what was asked.      *)
Answered(h) ==
  /\ Serving(h) /\ main[h] \in Bindings
  /\ LET o == serving[h]
         a == Head(answers[o])
     IN  /\ answers[o] # <<>>
         /\ answers' = [answers EXCEPT ![o] = Tail(@)]
         /\ IF main[h] = "records"
            THEN Ends(h, "ok")
            ELSE IF a.binding = "plan" /\ a.yes
                 THEN Step(h, "approved") /\ UNCHANGED done
                 ELSE Ends(h, "error")
  /\ UNCHANGED <<desktop, link, reader, serving, broken, cancel, history>>

(* confirm: stopped, or 15 minutes without an answer.                       *)
Unanswered(h) ==
  /\ Serving(h) /\ main[h] \in Bindings
  /\ Ends(h, IF main[h] = "records" THEN "ok" ELSE "error")
  /\ UNCHANGED <<desktop, link, reader, serving, broken, flags, history>>

(* provider_process::run refuses to start for a stopped operation.          *)
Apply(h) ==
  /\ At(h, "approved")
  /\ IF cancel[serving[h]]
     THEN Ends(h, "error") /\ UNCHANGED applied
     ELSE /\ Step(h, "apply")
          /\ applied' = applied \cup {serving[h]}
          /\ UNCHANGED done
  /\ UNCHANGED <<desktop, link, reader, serving, broken, flags, approved,
                 stoppedAt>>

(* The change ends.  A completed one may ask the desktop to save its        *)
(* records, unless it was stopped meanwhile.                                *)
Applied(h) ==
  /\ At(h, "apply")
  /\ \/ \E r \in {"ok", "error"} :
          Ends(h, r) /\ UNCHANGED <<toDesktop, broken, cancel>>
     \/ /\ ~cancel[serving[h]]
        /\ Step(h, "records")
        /\ Emit(h, Ask(serving[h], "records"))
        /\ UNCHANGED done
  /\ UNCHANGED <<desktop, process, alive, toHelper, reader, serving, answers,
                 history>>

(* serve: the registration, with its flag and its channel, is cleared       *)
(* before the outcome is reported, so the next request is accepted.         *)
Clear(h) ==
  /\ At(h, "clear")
  /\ running' = [running EXCEPT ![h] = NoOp]
  /\ cancel' = [cancel EXCEPT ![serving[h]] = FALSE]
  /\ answers' = [answers EXCEPT ![serving[h]] = <<>>]
  /\ Step(h, "report")
  /\ UNCHANGED <<desktop, link, reading, incoming, serving, broken, done,
                 history>>

(* Mutant: a failed operation is not reported.                              *)
Report_success(h) ==
  /\ At(h, "report")
  /\ IF done[h] = "ok" THEN Emit(h, End(serving[h], "ok"))
     ELSE UNCHANGED <<toDesktop, broken, cancel>>
  /\ Step(h, IF broken[h] THEN "leave" ELSE "wait")
  /\ serving' = [serving EXCEPT ![h] = NoOp]
  /\ done' = [done EXCEPT ![h] = "none"]
  /\ UNCHANGED <<desktop, process, alive, toHelper, reader, answers, history>>

(* The outcome is reported and the loop goes on unless a write failed.      *)
Report(h) ==
  /\ At(h, "report")
  /\ Emit(h, End(serving[h], done[h]))
  /\ Step(h, IF broken'[h] THEN "leave" ELSE "wait")
  /\ serving' = [serving EXCEPT ![h] = NoOp]
  /\ done' = [done EXCEPT ![h] = "none"]
  /\ UNCHANGED <<desktop, process, alive, toHelper, reader, answers, history>>

(* The helper's memory and its end of the pipes go with its process; what   *)
(* it wrote can still be read.                                              *)
Exited(h) ==
  /\ process' = [process EXCEPT ![h] = "exited"]
  /\ toHelper' = [toHelper EXCEPT ![h] = <<>>]
  /\ reading' = [reading EXCEPT ![h] = FALSE]
  /\ running' = [running EXCEPT ![h] = NoOp]
  /\ incoming' = [incoming EXCEPT ![h] = <<>>]
  /\ main' = [main EXCEPT ![h] = "wait"]
  /\ serving' = [serving EXCEPT ![h] = NoOp]
  /\ broken' = [broken EXCEPT ![h] = FALSE]
  /\ done' = [done EXCEPT ![h] = "none"]
  /\ UNCHANGED <<desktop, alive, toDesktop, flags, history>>

(* Mutant: the loop goes on waiting when its reader has ended.              *)
Exit_broken(h) == At(h, "leave") /\ Exited(h)

(* The loop broke, or no request can come any more.                         *)
Exit(h) ==
  /\ \/ At(h, "leave")
     \/ At(h, "wait") /\ incoming[h] = <<>> /\ ~reading[h]
  /\ Exited(h)

(* The helper process is killed.                                            *)
Die(h) == Serving(h) /\ Exited(h)

(* elevation: a thread of the desktop waits for the process to exit.        *)
Noticed(h) ==
  /\ ~gone /\ process[h] = "exited" /\ alive[h]
  /\ alive' = [alive EXCEPT ![h] = FALSE]
  /\ UNCHANGED <<desktop, process, toHelper, toDesktop, reader, loop, flags,
                 history>>

-----------------------------------------------------------------------------
Init ==
  /\ gone = FALSE /\ active = FALSE /\ available = FALSE /\ stopped = FALSE
  /\ fgWriter = NoHelper /\ fgId = NoOp
  /\ check = "" /\ bgWriter = NoHelper /\ bgId = NoOp
  /\ pc = [t \in Threads |-> "none"]
  /\ op = [t \in Threads |-> NoOp]
  /\ asked = "none"
  /\ outcome = [t \in Threads |-> "none"]
  /\ admin = FALSE /\ lock = "free" /\ session = NoHelper
  /\ used = {} /\ keeps \in KeepSession
  /\ process = [h \in Helpers |-> "none"]
  /\ alive = [h \in Helpers |-> FALSE]
  /\ toHelper = [h \in Helpers |-> <<>>]
  /\ toDesktop = [h \in Helpers |-> <<>>]
  /\ reading = [h \in Helpers |-> FALSE]
  /\ running = [h \in Helpers |-> NoOp]
  /\ incoming = [h \in Helpers |-> <<>>]
  /\ main = [h \in Helpers |-> "wait"]
  /\ serving = [h \in Helpers |-> NoOp]
  /\ broken = [h \in Helpers |-> FALSE]
  /\ cancel = [o \in Ops |-> FALSE]
  /\ answers = [o \in Ops |-> <<>>]
  /\ done = [h \in Helpers |-> "none"]
  /\ approved = {} /\ stoppedAt = {} /\ applied = {}

Exchange(t) == Send(t) \/ Register(t) \/ ReadEvent(t) \/ ReadAsk(t)
                 \/ ReadEnd(t) \/ ReadClosed(t) \/ Release(t)

Aside == StopCheckFirst \/ Acquire \/ Launch \/ TrySession \/ Blocked
           \/ Finish \/ FinishCheck

Worker == Aside \/ \E t \in Threads : Exchange(t)

User == Stop \/ ReplaceCheck \/ AskAdmin \/ PlanChanged \/ Leave
          \/ (\E o \in Ops : Begin(o) \/ BeginCheck(o))

Reply == AdminAnswered \/ \E yes \in BOOLEAN : AnswerAsk(yes)

Reader(h) == Accept(h) \/ Disconnected(h)

MainLoop(h) == Take(h) \/ Progress(h) \/ Prepare(h) \/ Answered(h)
                 \/ Unanswered(h) \/ Apply(h) \/ Applied(h) \/ Clear(h)
                 \/ Report(h) \/ Exit(h)

Next == Worker \/ User \/ Reply
          \/ \E h \in Helpers : Reader(h) \/ MainLoop(h) \/ Die(h) \/ Noticed(h)

Spec == Init /\ [][Next]_vars

-----------------------------------------------------------------------------
(* Fairness: threads of a live desktop run, a user answers a prompt or a    *)
(* dialog at last, frames are read and operations end (every step of one is *)
(* bounded, a confirmation by its 15 minutes).  A waiting thread gets the   *)
(* mutex at last.  Commands, deaths and further progress are not owed.      *)
Advance(h) == Take(h) \/ Prepare(h) \/ Answered(h) \/ Unanswered(h)
                \/ Apply(h) \/ Applied(h) \/ Clear(h) \/ Report(h)
                \/ Exit(h)

Fairness ==
  /\ WF_vars(StopCheckFirst) /\ SF_vars(Acquire) /\ WF_vars(Launch)
  /\ WF_vars(Finish)
  /\ WF_vars(TrySession) /\ WF_vars(Blocked) /\ WF_vars(FinishCheck)
  /\ WF_vars(Reply)
  /\ \A t \in Threads : WF_vars(Exchange(t))
  /\ \A h \in Helpers : WF_vars(Reader(h)) /\ WF_vars(Advance(h))

FairSpec == Spec /\ Fairness

-----------------------------------------------------------------------------
(* Properties.                                                              *)

Statuses == {"", "running", "stopping", "stopped", "done", "failed"}
Places == {"none", "stop", "acquire", "launch", "try", "blocked", "send",
           "register", "read", "ask", "keep", "drop", "finish"}
Phases == {"wait", "prepare", "approved", "apply", "clear", "report",
           "leave"} \cup Bindings
Holding == {"launch", "send", "register", "read", "ask", "keep", "drop"}

(* Every variable stays within the values its Rust type and use allow.      *)
TypeOK ==
  /\ gone \in BOOLEAN /\ active \in BOOLEAN /\ available \in BOOLEAN
  /\ stopped \in BOOLEAN /\ admin \in BOOLEAN
  /\ fgWriter \in Helpers \cup {NoHelper} /\ bgWriter \in Helpers \cup {NoHelper}
  /\ fgId \in Ops \cup {NoOp} /\ bgId \in Ops \cup {NoOp}
  /\ check \in Statuses
  /\ pc \in [Threads -> Places]
  /\ op \in [Threads -> Ops \cup {NoOp}]
  /\ asked \in Bindings \cup {"none"}
  /\ outcome \in [Threads -> {"none", "ok", "error"}]
  /\ lock \in Threads \cup {"free", "admin"}
  /\ session \in Helpers \cup {NoHelper}
  /\ used \subseteq Ops /\ keeps \in BOOLEAN
  /\ process \in [Helpers -> {"none", "up", "exited"}]
  /\ alive \in [Helpers -> BOOLEAN]
  /\ toHelper \in [Helpers -> Seq(DesktopFrames)]
  /\ toDesktop \in [Helpers -> Seq(HelperFrames)]
  /\ reading \in [Helpers -> BOOLEAN]
  /\ running \in [Helpers -> Ops \cup {NoOp}]
  /\ incoming \in [Helpers -> Seq(Ops)]
  /\ main \in [Helpers -> Phases]
  /\ serving \in [Helpers -> Ops \cup {NoOp}]
  /\ broken \in [Helpers -> BOOLEAN]
  /\ cancel \in [Ops -> BOOLEAN]
  /\ answers \in [Ops -> Seq(Answers)]
  /\ done \in [Helpers -> {"none", "ok", "error"}]
  /\ approved \subseteq Ops /\ stoppedAt \subseteq Ops /\ applied \subseteq Ops

(* The operations that share a session never meet in it.  What an exchange   *)
(* reads was sent for its own operation, though events and confirmations     *)
(* carry no ID.  A session nobody holds is one of a build that keeps them,   *)
(* and at rest: its helper runs nothing and left nothing in the pipe.  The   *)
(* helper reads no request while an operation is registered, which it would  *)
(* answer by ending the session: "The desktop sends a request only after     *)
(* the previous result" (serve's reader).                                    *)
OwnFrames ==
  /\ \A t \in Threads :
       ~gone /\ pc[t] \in {"register", "read", "ask"}
         => \A i \in 1 .. Len(toDesktop[session]) : toDesktop[session][i].op = op[t]
  /\ ~gone /\ lock = "free" /\ session # NoHelper /\ Serving(session)
       => /\ keeps
          /\ running[session] = NoOp
          /\ incoming[session] = <<>>
          /\ toDesktop[session] = <<>>
          /\ main[session] = "wait"
  /\ \A h \in Helpers :
       /\ Serving(h) /\ reading[h] /\ toHelper[h] # <<>>
       /\ Head(toHelper[h]).type = "request"
       => running[h] = NoOp

(* A Stop the desktop accepted is not lost on the way: it is still in the   *)
(* pipe, or the operation's flag is set, or the operation is over.          *)
StopIsKept ==
  LET h == fgWriter
      o == op["fg"]
  IN  ~gone /\ stopped /\ pc["fg"] \in {"read", "ask"} /\ Serving(h)
        => \/ cancel[o]
           \/ InPipe(Cancel(o), toHelper[h])
           \/ running[h] # o /\ ~InPipe(Request(o), toHelper[h])

(* A foreground operation never waits out a whole background check: the     *)
(* check that holds the session has been told to stop, or is about to tell  *)
(* the helper itself.                                                       *)
CheckYields ==
  ~gone /\ pc["fg"] = "acquire" /\ lock = "bg" /\ Serving(session)
    => \/ pc["bg"] \in {"keep", "drop"}
       \/ /\ check = "stopping"
          /\ \/ pc["bg"] \in {"send", "register"}
             \/ cancel[op["bg"]]
             \/ InPipe(Cancel(op["bg"]), toHelper[session])
             \/ running[session] # op["bg"]

(* Nothing is changed without an approval of its plan, and nothing is       *)
(* changed for an operation that was stopped before it was approved.        *)
OnlyApproved == applied \subseteq approved \ stoppedAt

(* A change under way is the operation the desktop shows as active, on the  *)
(* helper it holds: so there is one at a time, and the window refuses to    *)
(* close during it ("one active, independently elevated operation").        *)
ChangeIsWatched ==
  \A h \in Helpers :
    Serving(h) /\ main[h] \in {"approved", "apply", "records"} /\ ~gone
      => active /\ session = h /\ serving[h] = op["fg"]

(* The commands only ever start a worker when the last one has ended.       *)
OneWorker ==
  /\ ~active => pc["fg"] = "none"
  /\ check \notin {"running", "stopping"} => pc["bg"] = "none"
  /\ \A t \in Threads : pc[t] \in Holding => lock = t

(* The whole session implements what an operation promises its user.        *)
Promise == INSTANCE SetupPromise WITH current <- op["fg"], left <- gone,
                                      stoppedEarly <- stoppedAt

KeepsPromise == Promise!Spec

(* While the desktop lives, an operation that began ends; so does a          *)
(* background check, also one that was asked to stop or found no session.   *)
OperationEnds ==
  /\ active ~> (~active \/ gone)
  /\ check \in {"running", "stopping"} ~>
       (check \notin {"running", "stopping"} \/ gone)

(* An elevated helper nobody is connected to finishes and exits.            *)
HelperLeaves ==
  \A h \in Helpers : (process[h] = "up" /\ ~Open(h)) ~> process[h] = "exited"
=============================================================================
