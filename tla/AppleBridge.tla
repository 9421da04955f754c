---------------------------- MODULE AppleBridge ----------------------------
(***************************************************************************)
(* The native companion of the Apple installer:                            *)
(* providers/direct-apple/Sources/BridgeMain.swift.                        *)
(*                                                                         *)
(* Each companion is a process with a pipe in and a pipe out.  It takes an *)
(* instance lease, answers one request at a time, runs the long ones in    *)
(* one task beside its input loop, and publishes its state when that       *)
(* changes.  Losing its input cancels nothing: it finishes the task it     *)
(* has, then exits.  It may also be killed at any moment, and the root     *)
(* work it submitted goes on without it.                                   *)
(*                                                                         *)
(* The session itself (InstallerSession, the plans, the helper) is the     *)
(* upstream library's; its outcomes are nondeterministic here.             *)
(***************************************************************************)
EXTENDS Naturals, Sequences

CONSTANTS
  Digests,      \* binding digests of native plans
  NoDigest,     \* no plan
  MaxBridges    \* how many companions are started in all

ASSUME BridgeAssumption ==
  /\ NoDigest \notin Digests
  /\ MaxBridges \in Nat \ {0}

VARIABLES
  bridge,       \* the companions, by the order of their start
  run           \* by companion: the plan whose native work it began and
                \* whose outcome the desktop has not been told

bridgeVars == <<bridge, run>>

Bridges == 1..MaxBridges

Working == {"inspect", "prepare_plan", "choose_storage"}
Mutating == {"execute", "retry_recovery"}

Phases == {"idle", "inspecting", "unsupported", "welcome", "choice",
           "preparing", "prepared", "review", "awaiting", "installing",
           "done", "failed"}

\* The part of snapshot() the desktop acts on.  A plan is in it only while
\* the session shows one.
View(w) ==
  [phase   |-> w.phase,
   plan    |-> IF w.phase \in {"prepared", "review", "awaiting"} THEN w.plan ELSE NoDigest,
   execute |-> w.phase = "awaiting" /\ w.active = "none",
   retry   |-> w.retry /\ w.active = "none",
   cancel  |-> w.active = "none" /\ ~w.started,
   started |-> w.started]

NoView == [phase |-> "idle", plan |-> NoDigest, execute |-> FALSE,
           retry |-> FALSE, cancel |-> FALSE, started |-> FALSE]

Fresh == [phase |-> "idle", plan |-> NoDigest, acked |-> FALSE,
          approved |-> NoDigest, active |-> "none", started |-> FALSE,
          retry |-> FALSE]

Unborn == [state |-> "unborn", open |-> FALSE, deaf |-> FALSE,
           input |-> <<>>, output |-> <<>>, session |-> Fresh]

BridgeInit ==
  /\ bridge = [b \in Bridges |-> Unborn]
  /\ run = [b \in Bridges |-> NoDigest]

Up(b) == bridge[b].state = "running"

\* send: what it sends is lost once its input ended or its output has no
\* reader.
Sent(b, frames) ==
  IF bridge[b].deaf THEN bridge[b].output ELSE bridge[b].output \o frames

\* publishState, after a request, after a task and every 250 ms: a state frame
\* follows every change.
News(old, new) ==
  IF View(old) = View(new) THEN <<>> ELSE <<[kind |-> "state", view |-> View(new)]>>

Result(w) == [kind |-> "result", view |-> View(w)]

\* A process that is gone leaves what it sent.
Gone(b) == [Unborn EXCEPT !.state = "gone", !.deaf = TRUE, !.output = bridge[b].output]

\* The session becomes w; frames and the change of state are sent.
Moves(b, w, input, frames) ==
  bridge' = [bridge EXCEPT ![b].session = w, ![b].input = input,
               ![b].output = Sent(b, frames \o News(bridge[b].session, w))]

\* The request at hand is answered.
Answers(b, w, frame) == Moves(b, w, <<>>, <<frame>>)

\* BridgeMain.main and run: one companion at a time holds the lease.
Lease(b) ==
  /\ bridge[b].state = "starting"
  /\ bridge' = [bridge EXCEPT ![b] =
                  IF \E c \in Bridges : Up(c) THEN Gone(b)
                  ELSE [@ EXCEPT !.state = "running",
                                 !.output = Sent(b, <<[kind |-> "state", view |-> View(Fresh)]>>)]]
  /\ UNCHANGED run

(***************************************************************************)
(* The requests.  Asked is the request at hand; Allowed the guards of      *)
(* receive and dispatch.                                                   *)
(***************************************************************************)

Asked(b, cmd) == Up(b) /\ bridge[b].input # <<>> /\ Head(bridge[b].input).cmd = cmd

Allowed(w, r) ==
  /\ r.cmd # "probe" => w.active = "none"
  /\ r.cmd \in {"cancel", "inspect", "prepare_plan", "choose_storage"} => ~w.started
  /\ r.cmd = "prepare_plan" => w.phase \in {"welcome", "prepared", "review"}
  /\ r.cmd = "choose_storage" => w.phase = "choice"
  /\ r.cmd = "review_plan" => w.phase = "prepared"
  /\ r.cmd = "acknowledge" => w.phase = "review"
  /\ r.cmd = "approve" => w.phase = "review" /\ w.acked /\ r.digest = w.plan
  /\ r.cmd \in Mutating => w.approved # NoDigest /\ r.digest = w.approved
  /\ r.cmd = "execute" => w.phase = "awaiting"
  /\ r.cmd = "retry_recovery" => w.retry

\* What can also refuse a request: admission, the helper, the host's
\* readiness, and the form of the credentials.
MayRefuse == Mutating \cup {"prepare_plan", "choose_storage"}

Refuse(b) ==
  /\ Up(b) /\ bridge[b].input # <<>>
  /\ LET r == Head(bridge[b].input)
         w == bridge[b].session
     IN  /\ ~Allowed(w, r) \/ r.cmd \in MayRefuse
         /\ Answers(b, w, [kind |-> "error", view |-> NoView])
  /\ UNCHANGED run

\* probe and refresh_helper: nothing of the session changes.
Tell(b) ==
  LET w == bridge[b].session IN
  /\ \/ Asked(b, "probe") /\ Answers(b, w, [kind |-> "facts", view |-> NoView])
     \/ Asked(b, "refresh_helper") /\ w.active = "none" /\ Answers(b, w, Result(w))
  /\ UNCHANGED run

\* cancel: the approval and the session are discarded.
Discard(b) ==
  /\ Asked(b, "cancel") /\ Allowed(bridge[b].session, Head(bridge[b].input))
  /\ Answers(b, Fresh, Result(Fresh))
  /\ UNCHANGED run

\* review_plan, acknowledge and approve, answered at once.
Step(b) ==
  LET w == bridge[b].session IN
  \E cmd \in {"review_plan", "acknowledge", "approve"} :
    LET v == CASE cmd = "review_plan" -> [w EXCEPT !.phase = "review", !.acked = FALSE]
               [] cmd = "acknowledge" -> [w EXCEPT !.acked = TRUE]
               [] cmd = "approve"     -> [w EXCEPT !.phase = "awaiting", !.approved = w.plan]
    IN  /\ Asked(b, cmd) /\ Allowed(w, Head(bridge[b].input))
        /\ Answers(b, v, Result(v))
        /\ UNCHANGED run

\* launch: the request is taken, its answer comes when the task ends.
Launch(b) ==
  LET w == bridge[b].session IN
  \E cmd \in Working \cup Mutating :
    /\ Asked(b, cmd) /\ Allowed(w, Head(bridge[b].input))
    /\ Moves(b, IF cmd \in Mutating THEN [w EXCEPT !.active = cmd]
                ELSE [w EXCEPT !.active = cmd, !.approved = NoDigest,
                               !.phase = IF cmd = "inspect" THEN "inspecting" ELSE "preparing"],
             <<>>, <<>>)
    /\ UNCHANGED run

\* The task of a launch ends and its result is sent.
Ends(b, w) == Moves(b, w, bridge[b].input, <<Result(w)>>)

Inspected(b) ==
  LET w == bridge[b].session IN
  /\ Up(b) /\ w.active = "inspect"
  /\ \E phase \in {"unsupported", "welcome", "choice"} :
       Ends(b, [Fresh EXCEPT !.phase = phase])
  /\ UNCHANGED run

Prepared(b) ==
  LET w == bridge[b].session IN
  /\ Up(b) /\ w.active \in {"prepare_plan", "choose_storage"}
  /\ \/ \E d \in Digests : Ends(b, [Fresh EXCEPT !.phase = "prepared", !.plan = d])
     \/ Ends(b, [Fresh EXCEPT !.phase = "failed"])
  /\ UNCHANGED run

\* session.submit: the credentials hold and the root helper starts to work.
Begin(b) ==
  LET w == bridge[b].session IN
  /\ Up(b) /\ w.active \in Mutating /\ w.phase # "installing"
  /\ Moves(b, [w EXCEPT !.phase = "installing", !.started = TRUE], bridge[b].input, <<>>)
  /\ run' = [run EXCEPT ![b] = w.approved]

\* session.submit: the credentials are rejected and nothing was started.
Reject(b) ==
  LET w == bridge[b].session IN
  /\ Up(b) /\ w.active \in Mutating /\ w.phase # "installing"
  /\ Ends(b, [w EXCEPT !.active = "none"])
  /\ UNCHANGED run

\* The native work ended; upstream may offer its Recovery step again.
Finish(b) ==
  LET w == bridge[b].session IN
  /\ Up(b) /\ w.active \in Mutating /\ w.phase = "installing"
  /\ \E phase \in {"done", "failed"}, retry \in BOOLEAN :
       Ends(b, [w EXCEPT !.active = "none", !.phase = phase, !.retry = retry])
  /\ UNCHANGED run

\* readBridgeInput returns at the end of the input; nothing more is sent.
HearEnd(b) ==
  /\ Up(b) /\ ~bridge[b].open /\ bridge[b].input = <<>> /\ ~bridge[b].deaf
  /\ bridge' = [bridge EXCEPT ![b].deaf = TRUE]
  /\ UNCHANGED run

\* run returns when the task has settled.
Exit(b) ==
  /\ Up(b) /\ ~bridge[b].open /\ bridge[b].deaf /\ bridge[b].session.active = "none"
  /\ bridge' = [bridge EXCEPT ![b] = Gone(b)]
  /\ UNCHANGED run

\* The process is killed or crashes.
Die(b) ==
  /\ bridge[b].state \in {"starting", "running"}
  /\ bridge' = [bridge EXCEPT ![b] = Gone(b)]
  /\ UNCHANGED run

\* What a companion does of itself.
Serves(b) ==
  \/ Lease(b) \/ Refuse(b) \/ Tell(b) \/ Discard(b) \/ Step(b) \/ Launch(b)
  \/ Inspected(b) \/ Prepared(b) \/ Begin(b) \/ Reject(b) \/ Finish(b)
  \/ HearEnd(b) \/ Exit(b)

BridgeNext == \E b \in Bridges : Serves(b) \/ Die(b)

BridgeTypeOK ==
  /\ \A b \in Bridges :
       /\ bridge[b].state \in {"unborn", "starting", "running", "gone"}
       /\ {bridge[b].open, bridge[b].deaf} \subseteq BOOLEAN
       /\ Len(bridge[b].input) <= 1
       /\ bridge[b].session.phase \in Phases
       /\ bridge[b].session.active \in Working \cup Mutating \cup {"none"}
       /\ {bridge[b].session.plan, bridge[b].session.approved} \subseteq Digests \cup {NoDigest}
  /\ run \in [Bridges -> Digests \cup {NoDigest}]
=============================================================================
