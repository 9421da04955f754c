---------------------------- MODULE AppleSetup -----------------------------
(***************************************************************************)
(* The desktop side of the Apple installer:                                *)
(* apps/desktop/src-tauri/src/apple_setup.rs, with the companions of       *)
(* AppleBridge at the other end of its pipes.                              *)
(*                                                                         *)
(* A request of the window is accepted under the lock and performed by a   *)
(* thread: it connects, talks to the companion through call, opens the     *)
(* dialogs, and writes a record to disk (the marker) before it submits     *)
(* anything that changes the disk.  A reader thread applies what the       *)
(* companion publishes and hands each reply to its caller.  The desktop    *)
(* may crash and be started again; the marker and the companion stay.      *)
(*                                                                         *)
(* A request carries the revision of the state its user saw and is refused *)
(* when that is not the current one, so an accepted request is one made in *)
(* the current state; the refused ones change nothing and are left out.    *)
(* The status line, the error text and the probe are for display.          *)
(***************************************************************************)
EXTENDS AppleBridge, FiniteSets

CONSTANT MaxCrashes      \* how often the desktop dies

ASSUME MaxCrashesAssumption == MaxCrashes \in Nat

VARIABLES
  app,       \* the service: what its lock protects
  act,       \* the thread of the accepted action
  conn,      \* the connection the service holds, with its two threads
  marker,    \* the record on disk: the plan it names
  crashes    \* bounds the crashes

vars == <<app, act, conn, marker, crashes, bridge, run>>

Intents == {"connect", "inspect", "prepare_plan", "choose_storage", "review_plan",
            "approve_plan", "execute", "retry_recovery", "cancel", "refresh"}

\* Requests that are waited for without a limit of time.
Unlimited == {"prepare_plan", "choose_storage"} \cup Mutating

NewApp == [up |-> TRUE, checked |-> FALSE, busy |-> FALSE, unknown |-> FALSE,
           available |-> FALSE, view |-> NoView, plan |-> NoDigest,
           approved |-> NoDigest]

NoAction == [at |-> "idle", intent |-> "none", cmd |-> "none", digest |-> NoDigest]

NoConn == [bridge |-> 0, current |-> FALSE, alive |-> FALSE, writable |-> FALSE,
           mutating |-> FALSE, pending |-> "none", reply |-> "none",
           reader |-> "done", exited |-> TRUE]

Init ==
  /\ BridgeInit
  /\ app = NewApp /\ act = NoAction /\ conn = NoConn
  /\ marker = NoDigest /\ crashes = 0

(***************************************************************************)
(* The commands of the window.                                             *)
(***************************************************************************)

\* check_previous_operation, before every command until it succeeds once: a
\* record on disk means a submitted operation nobody knows the outcome of.
Look ==
  /\ app.up /\ ~app.checked
  /\ app' = [app EXCEPT !.checked = TRUE, !.unknown = @ \/ marker # NoDigest]
  /\ UNCHANGED <<act, conn, marker, crashes, bridge, run>>

\* validate_intent.
Valid(intent) ==
  \/ intent = "connect"
  \/ /\ app.available
     /\ \/ intent = "refresh"
        \/ intent = "inspect" /\ ~app.view.started
        \/ intent = "prepare_plan" /\ app.view.phase \in {"welcome", "prepared", "review"}
        \/ intent = "review_plan" /\ app.view.phase = "prepared"
        \/ intent = "choose_storage" /\ app.view.phase = "choice" /\ ~app.view.started
        \/ intent = "approve_plan" /\ app.view.phase = "review" /\ app.plan # NoDigest
        \/ /\ intent = "execute" /\ app.view.phase = "awaiting"
           /\ app.view.execute /\ app.approved # NoDigest
        \/ intent = "retry_recovery" /\ app.view.retry /\ app.approved # NoDigest
        \/ intent = "cancel" /\ app.view.cancel

\* Where the thread starts: retained_plan is read and shown at once.
Begins(intent) ==
  CASE intent = "connect" -> [NoAction EXCEPT !.at = "connect", !.intent = intent]
    [] intent \in Working -> [NoAction EXCEPT !.at = "clear", !.intent = intent, !.cmd = intent]
    [] intent \in {"approve_plan"} \cup Mutating ->
         [NoAction EXCEPT !.at = IF app.plan = NoDigest THEN "end" ELSE "ask",
                          !.intent = intent, !.digest = app.plan]
    [] intent = "refresh" -> [NoAction EXCEPT !.at = "call", !.intent = intent, !.cmd = "refresh_helper"]
    [] OTHER -> [NoAction EXCEPT !.at = "call", !.intent = intent, !.cmd = intent]

\* start_action.
Start(intent) ==
  /\ app.up /\ app.checked
  /\ ~app.busy
  /\ ~app.unknown
  /\ Valid(intent)
  /\ app' = [app EXCEPT !.busy = TRUE]
  /\ act' = Begins(intent)
  /\ UNCHANGED <<conn, marker, crashes, bridge, run>>

\* The end of the thread, however the action went.
End ==
  /\ act.at = "end"
  /\ app' = [app EXCEPT !.busy = FALSE]
  /\ act' = NoAction
  /\ UNCHANGED <<conn, marker, crashes, bridge, run>>

Goes(at) == act' = [act EXCEPT !.at = at]
Asks(cmd) == act' = [act EXCEPT !.at = "call", !.cmd = cmd]

\* clear_plan, before a request that makes the old plan obsolete and after a
\* cancel that discarded it.
Clear ==
  /\ act.at \in {"clear", "cleared"}
  /\ app' = [app EXCEPT !.plan = NoDigest, !.approved = NoDigest]
  /\ Goes(IF act.at = "clear" THEN "call" ELSE "end")
  /\ UNCHANGED <<conn, marker, crashes, bridge, run>>

\* The companion's input ends with the connection that held it.
Dropped == IF conn.bridge = 0 THEN bridge ELSE [bridge EXCEPT ![conn.bridge].open = FALSE]

\* Nobody holds either pipe of the companion any more.
Abandoned ==
  IF conn.bridge = 0 THEN bridge
  ELSE [bridge EXCEPT ![conn.bridge].open = FALSE, ![conn.bridge].deaf = TRUE,
                      ![conn.bridge].output = <<>>]

(***************************************************************************)
(* connect.                                                                *)
(***************************************************************************)

\* The lock: a living connection is used again; a companion that has not
\* exited, or one that executed, forbids another.  A new generation begins:
\* the connection before, even if no other comes, is not the current one.
Connect ==
  /\ act.at = "connect"
  /\ \/ conn.alive /\ Asks("probe") /\ UNCHANGED conn
     \/ /\ ~conn.alive
        /\ ~conn.exited \/ (conn.bridge # 0 /\ app.view.started)
        /\ Goes("end") /\ UNCHANGED conn
     \/ /\ ~conn.alive /\ conn.exited
        /\ conn.bridge # 0 => ~app.view.started
        /\ conn' = [conn EXCEPT !.current = FALSE]
        /\ Goes("spawn")
  /\ UNCHANGED <<app, marker, crashes, bridge, run>>

\* The bundle is checked and the companion started, or neither succeeds.
\* The reader of the connection before, if it still has something to report,
\* finds another generation and changes nothing.
Spawn ==
  /\ act.at = "spawn"
  /\ \/ Goes("end") /\ UNCHANGED <<app, conn, bridge>>
     \/ \E b \in Bridges :
          /\ bridge[b].state = "unborn" /\ \A c \in 1..(b - 1) : bridge[c].state # "unborn"
          /\ bridge' = [Abandoned EXCEPT ![b].state = "starting", ![b].open = TRUE]
          /\ conn' = [bridge |-> b, current |-> TRUE, alive |-> TRUE, writable |-> TRUE,
                      mutating |-> FALSE, pending |-> "none", reply |-> "none",
                      reader |-> "reading", exited |-> FALSE]
          /\ app' = [app EXCEPT !.view = NoView, !.plan = NoDigest, !.approved = NoDigest]
          /\ Asks("probe")
  /\ UNCHANGED <<marker, crashes, run>>

(***************************************************************************)
(* Connection.call and close.                                              *)
(***************************************************************************)

\* Mutant: whoever waits is forgotten.
Closed_silently(c) == [c EXCEPT !.alive = FALSE, !.writable = FALSE, !.pending = "none"]

\* close: the input is dropped, whoever waits is told so.  Nothing is killed.
Closed(c) ==
  [c EXCEPT !.alive = FALSE, !.writable = FALSE, !.pending = "none",
            !.reply = IF c.pending # "none" THEN "error" ELSE @]

\* The connection must be alive.
Call ==
  /\ act.at = "call"
  /\ IF conn.alive
     THEN Goes("enlist") /\ UNCHANGED conn
     ELSE Goes("answered") /\ conn' = [conn EXCEPT !.reply = "error"]
  /\ UNCHANGED <<app, marker, crashes, bridge, run>>

\* The caller is entered; a mutating one is marked before anything is sent.
Enlist ==
  /\ act.at = "enlist"
  /\ conn' = [conn EXCEPT !.pending = act.cmd, !.reply = "none",
                          !.mutating = @ \/ act.cmd \in Mutating]
  /\ Goes("send")
  /\ UNCHANGED <<app, marker, crashes, bridge, run>>

\* The request is written, or the pipe is gone and the connection closed.
Send ==
  /\ act.at = "send"
  /\ IF conn.writable /\ bridge[conn.bridge].state \in {"starting", "running"}
     THEN /\ bridge' = [bridge EXCEPT ![conn.bridge].input =
                          Append(@, [cmd |-> act.cmd, digest |-> act.digest])]
          /\ Goes("wait") /\ UNCHANGED conn
     ELSE /\ conn' = [Closed(conn) EXCEPT !.reply = "error"]
          /\ bridge' = Dropped
          /\ Goes("answered")
  /\ UNCHANGED <<app, marker, crashes, run>>

\* The reply came.
Receive ==
  /\ act.at = "wait" /\ conn.reply # "none"
  /\ Goes("answered")
  /\ UNCHANGED <<app, conn, marker, crashes, bridge, run>>

\* recv_timeout.
TimeOut ==
  /\ act.at = "wait" /\ conn.reply = "none" /\ act.cmd \notin Unlimited
  /\ conn' = [Closed(conn) EXCEPT !.reply = "error"]
  /\ bridge' = Dropped
  /\ Goes("answered")
  /\ UNCHANGED <<app, marker, crashes, run>>

(***************************************************************************)
(* What perform does with a reply.                                         *)
(***************************************************************************)

Failed == conn.reply = "error"
Answered(cmds) == act.at = "answered" /\ act.cmd \in cmds

\* The probe of a connect either matches this build or closes the companion.
Probed ==
  /\ Answered({"probe"})
  /\ \/ Failed /\ UNCHANGED <<app, conn, bridge>>
     \/ ~Failed /\ act.intent = "connect" /\ conn' = Closed(conn) /\ bridge' = Dropped /\ UNCHANGED app
     \/ /\ ~Failed /\ UNCHANGED <<conn, bridge>>
        /\ app' = [app EXCEPT !.available = @ \/ act.intent = "connect"]
  /\ Goes("end")
  /\ UNCHANGED <<marker, crashes, run>>

\* The other requests; approve remembers the plan that now awaits its start.
Replied ==
  /\ Answered({"inspect", "prepare_plan", "choose_storage", "review_plan",
               "refresh_helper", "cancel", "acknowledge", "approve"})
  /\ CASE Failed -> Goes("end")
       [] ~Failed /\ act.cmd = "refresh_helper" -> Asks("probe")
       [] ~Failed /\ act.cmd = "acknowledge"    -> Asks("approve")
       [] ~Failed /\ act.cmd = "cancel"         -> Goes("cleared")
       [] OTHER                                 -> Goes("end")
  /\ app' = [app EXCEPT !.approved =
               IF act.cmd = "approve" /\ conn.reply = "awaiting" THEN act.digest ELSE @]
  /\ UNCHANGED <<conn, marker, crashes, bridge, run>>

(***************************************************************************)
(* approve and execute.                                                    *)
(***************************************************************************)

\* The user answers the dialog that shows the retained plan.
Confirm ==
  /\ act.at = "ask"
  /\ Goes("end") \/ Goes(IF act.intent \in Mutating THEN "password" ELSE "check")
  /\ UNCHANGED <<app, conn, marker, crashes, bridge, run>>

\* The dialog of the machine owner's credentials.
Authorize ==
  /\ act.at = "password"
  /\ Goes("end") \/ Goes("check")
  /\ UNCHANGED <<app, conn, marker, crashes, bridge, run>>

\* assert_current_plan.
Current ==
  /\ conn.current
  /\ conn.alive
  /\ ~app.unknown
  /\ app.plan = act.digest
  /\ act.intent = "approve_plan" => app.view.phase = "review"
  /\ act.intent = "execute" => app.view.phase = "awaiting"

Check ==
  /\ act.at = "check"
  /\ IF ~Current THEN Goes("end")
     ELSE IF act.intent = "approve_plan" THEN Asks("acknowledge")
     ELSE Goes("ready")
  /\ UNCHANGED <<app, conn, marker, crashes, bridge, run>>

\* The second lock: the approval is this plan's and the companion is ready.
Ready ==
  /\ act.at = "ready"
  /\ Goes(IF /\ app.approved = act.digest
             /\ IF act.intent = "execute" THEN app.view.execute ELSE app.view.retry
          THEN "mark" ELSE "end")
  /\ UNCHANGED <<app, conn, marker, crashes, bridge, run>>

\* The record is created, flushed and only then is anything submitted.  A
\* record that is there, or a disk that fails, ends the action; a record that
\* was created and not written is not taken away.
Mark ==
  /\ act.at = "mark"
  /\ \/ marker # NoDigest /\ Goes("end") /\ UNCHANGED marker
     \/ marker = NoDigest /\ Goes("end") /\ marker' \in {NoDigest, act.digest}
     \/ /\ marker = NoDigest
        /\ marker' = act.digest
        /\ Asks(act.intent)
  /\ UNCHANGED <<app, conn, crashes, bridge, run>>

\* Mutant: any error counts as a refusal.
Rejected_anyhow == Failed

\* rejected_before_submission.
Rejected == Failed /\ ~conn.mutating

\* An answer, or a refusal, settles the operation and the record goes; it may
\* also prove impossible to remove.  Anything else leaves it: unknown.
Settle ==
  /\ Answered(Mutating)
  /\ \/ /\ ~Failed \/ Rejected
        /\ marker' \in {NoDigest, marker}
        /\ UNCHANGED app
     \/ /\ Failed /\ ~Rejected
        /\ app' = [app EXCEPT !.unknown = TRUE]
        /\ UNCHANGED marker
  /\ Goes("end")
  /\ UNCHANGED <<conn, crashes, bridge, run>>

(***************************************************************************)
(* The reader thread and the thread that waits for the process.            *)
(***************************************************************************)

Output == bridge[conn.bridge].output

\* apply_native: a plan is kept until another one comes; an old generation's
\* state is not taken.
Applied(view) ==
  IF ~conn.current THEN app
  ELSE [app EXCEPT !.view = view, !.plan = IF view.plan # NoDigest THEN view.plan ELSE @]

\* receive: a state is applied; a reply is applied, if it is a state, and
\* handed to its caller.  With the reply of a mutation its outcome is known.
Read ==
  /\ conn.reader = "reading" /\ Output # <<>>
  /\ LET frame == Head(Output)
         taken == frame.kind # "state" /\ conn.pending # "none"
     IN  /\ bridge' = [bridge EXCEPT ![conn.bridge].output = Tail(@)]
         /\ app' = IF frame.kind \in {"state", "result"} THEN Applied(frame.view) ELSE app
         /\ conn' = IF ~taken THEN conn
                    ELSE [conn EXCEPT !.pending = "none",
                            !.mutating = @ /\ conn.pending \notin Mutating,
                            !.reply = IF frame.view.phase = "awaiting" THEN "awaiting" ELSE frame.kind]
         /\ run' = IF taken /\ conn.pending \in Mutating
                   THEN [run EXCEPT ![conn.bridge] = NoDigest] ELSE run
  /\ UNCHANGED <<act, marker, crashes>>

\* The end of the output, or a frame that is too long or makes no sense.
Break ==
  /\ conn.reader = "reading"
  /\ conn' = [Closed(conn) EXCEPT !.reader = "broken"]
  /\ bridge' = Abandoned
  /\ UNCHANGED <<app, act, marker, crashes, run>>

EndOfOutput == Break /\ Output = <<>> /\ bridge[conn.bridge].state = "gone"
BadFrame == Break /\ Output # <<>>

\* The reader's last words.
Report ==
  /\ conn.reader = "broken"
  /\ conn' = [conn EXCEPT !.reader = "done"]
  /\ app' = IF ~conn.current THEN app
            ELSE [app EXCEPT !.available = FALSE, !.unknown = @ \/ conn.mutating]
  /\ UNCHANGED <<act, marker, crashes, bridge, run>>

\* child.wait.
Reap ==
  /\ conn.bridge # 0 /\ ~conn.exited /\ bridge[conn.bridge].state = "gone"
  /\ conn' = [conn EXCEPT !.exited = TRUE]
  /\ UNCHANGED <<app, act, marker, crashes, bridge, run>>

(***************************************************************************)
(* The desktop dies at any moment; its pipes close.                        *)
(***************************************************************************)

Crash ==
  /\ app.up /\ crashes < MaxCrashes
  /\ crashes' = crashes + 1
  /\ app' = [NewApp EXCEPT !.up = FALSE]
  /\ act' = NoAction /\ conn' = NoConn
  /\ bridge' = Abandoned
  /\ UNCHANGED <<marker, run>>

Launched ==
  /\ ~app.up
  /\ app' = NewApp
  /\ UNCHANGED <<act, conn, marker, crashes, bridge, run>>

Thread ==
  \/ Clear \/ Connect \/ Spawn \/ Call \/ Enlist \/ Send \/ Receive \/ TimeOut
  \/ Probed \/ Replied \/ Confirm \/ Authorize \/ Check \/ Ready \/ Mark
  \/ Settle \/ End

Reader == Read \/ EndOfOutput \/ Report

Desktop ==
  \/ Look \/ (\E intent \in Intents : Start(intent))
  \/ Thread \/ Reader \/ BadFrame \/ Reap \/ Crash \/ Launched

Companions == BridgeNext /\ UNCHANGED <<app, act, conn, marker, crashes>>

Next == Desktop \/ Companions

Spec == Init /\ [][Next]_vars

\* The threads run, the dialogs are answered, and a companion that is neither
\* killed nor hung serves its requests and ends its tasks.  No user is owed.
Fairness ==
  /\ WF_vars(Thread) /\ WF_vars(Reader)
  /\ \A b \in Bridges : WF_vars(Serves(b) /\ UNCHANGED <<app, act, conn, marker, crashes>>)

FairSpec == Spec /\ Fairness

(***************************************************************************)
(* Properties.                                                             *)
(***************************************************************************)

TypeOK ==
  /\ BridgeTypeOK
  /\ {app.up, app.checked, app.busy, app.unknown, app.available} \subseteq BOOLEAN
  /\ {app.plan, app.approved, act.digest, marker} \subseteq Digests \cup {NoDigest}
  /\ act.intent \in Intents \cup {"none"}
  /\ conn.bridge \in Bridges \cup {0}
  /\ conn.reader \in {"reading", "broken", "done"}

\* Native work whose outcome the desktop was never told is on record on disk,
\* and there is never a second such work beside it, whatever died in between:
\* the desktop, the companion, or both (execute, check_previous_operation).
RunsAreRecorded ==
  LET Open == {b \in Bridges : run[b] # NoDigest} IN
  /\ Cardinality(Open) <= 1
  /\ \A b \in Open : marker = run[b]

\* Every accepted action ends, unless the desktop dies under it: no caller is
\* forgotten by a companion that dies, by a closed connection or by a reply
\* that comes too late (call, close, the reader thread).
CallsEnd == app.busy ~> ~app.busy
=============================================================================
