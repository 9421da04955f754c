---------------------------- MODULE ProviderRun ----------------------------
(***************************************************************************)
(* One provider process and the loop that runs it: run_inner in            *)
(* apps/desktop/src-tauri/src/provider_process.rs.                         *)
(*                                                                         *)
(* The elevated helper starts a child (the media writer's Node program or  *)
(* a PowerShell script), reads the frames it prints until its output       *)
(* closes, watches the operation's Stop, and returns only after the child  *)
(* was reaped.  How a Stop reaches the child depends on the arguments of   *)
(* the run: a media worker gets an abort frame and, three seconds later, a *)
(* kill; a build or a staging gets a cancellation file it polls; any other *)
(* run is not told at all.                                                 *)
(*                                                                         *)
(* Progress events change nothing here and are left out.  A frame is one   *)
(* of: a completion record, an error, an object that breaks the protocol   *)
(* (wrong version, action or shape: "junk"), and bytes that are no frame   *)
(* at all ("broken").                                                      *)
(***************************************************************************)
EXTENDS Naturals, Sequences

CONSTANT MaxFrames        \* how many frames one child prints at most

ASSUME MaxFramesAssumption == MaxFrames \in Nat

VARIABLES
  cancel,     \* the operation's Stop flag, set by the reader thread
  mode,       \* the arguments of the current run
  loop,       \* where the loop is: "idle", "stop", "receive", "wait", and
              \* "ok" or "err" once it has returned
  child,      \* "none", "running", or how it ended: "good", "bad", "killed"
  said,       \* the frames the child has printed
  heard,      \* how many of them the loop has taken
  told,       \* how the child was asked to stop
  hardStop,   \* a kill is due (three seconds after the abort frame)
  got         \* what the loop remembers

runVars == <<mode, loop, child, said, heard, told, hardStop, got>>

Frames == {"result", "error", "junk", "broken"}

\* The four ways the helper calls it: drive discovery, the media write, a
\* script that can be asked to stop, and a script that cannot.
List  == [media |-> TRUE,  abort |-> FALSE, file |-> FALSE]
Write == [media |-> TRUE,  abort |-> TRUE,  file |-> FALSE]
Paced == [media |-> FALSE, abort |-> TRUE,  file |-> TRUE]
Quiet == [media |-> FALSE, abort |-> FALSE, file |-> FALSE]
Modes == {List, Write, Paced, Quiet}

Nothing == [result |-> FALSE, failure |-> FALSE, cancelled |-> FALSE,
            stopped |-> FALSE, closed |-> FALSE]

RunTypeOK ==
  /\ cancel \in BOOLEAN
  /\ mode \in Modes
  /\ loop \in {"idle", "stop", "receive", "wait", "ok", "err"}
  /\ child \in {"none", "running", "good", "bad", "killed"}
  /\ said \in Seq(Frames)
  /\ heard \in 0..Len(said)
  /\ told \subseteq {"abort", "file"}
  /\ hardStop \in BOOLEAN
  /\ got \in [DOMAIN Nothing -> BOOLEAN]

RunInit ==
  /\ mode = Quiet
  /\ loop = "idle"
  /\ child = "none"
  /\ said = <<>>
  /\ heard = 0
  /\ told = {}
  /\ hardStop = FALSE
  /\ got = Nothing

-----------------------------------------------------------------------------
(* The loop *)

\* A Stop that came earlier, or a process that does not start, ends the run
\* at once.  A media worker that dies early may not take its request.
Spawn(m) ==
  /\ loop = "idle"
  /\ mode' = m
  /\ \/ /\ ~cancel
        /\ child' = "running"
        /\ loop' = "stop"
        /\ \E taken \in BOOLEAN :
             /\ m.media \/ taken
             /\ got' = [Nothing EXCEPT !.failure = ~taken]
     \/ /\ child' = "none"
        /\ loop' = "err"
        /\ got' = Nothing
  /\ said' = <<>>
  /\ heard' = 0
  /\ told' = {}
  /\ hardStop' = FALSE

UserStop == mode.abort /\ cancel

StopDue ==
  ~got.stopped /\ (UserStop \/ (got.failure /\ (mode.media \/ mode.abort)))

\* Mutant: a writer that was told to stop is trusted to do so.
LookForStop_soft ==
  /\ loop = "stop"
  /\ loop' = "receive"
  /\ IF StopDue
     THEN /\ told' = told \cup {IF mode.file THEN "file" ELSE "abort"}
          /\ got' = [got EXCEPT !.stopped = TRUE, !.cancelled = @ \/ UserStop]
     ELSE UNCHANGED <<told, got>>
  /\ UNCHANGED <<mode, hardStop, child, said, heard>>

LookForStop ==
  /\ loop = "stop"
  /\ loop' = "receive"
  /\ \/ /\ ~StopDue
        /\ UNCHANGED <<told, hardStop, got>>
     \/ /\ StopDue
        /\ mode.file
        /\ \E made \in BOOLEAN :
             /\ told' = IF made THEN told \cup {"file"} ELSE told
             /\ got' = [got EXCEPT !.stopped = TRUE,
                                   !.cancelled = @ \/ UserStop,
                                   !.failure = @ \/ ~made]
        /\ UNCHANGED hardStop
     \/ /\ StopDue
        /\ ~mode.file
        /\ told' = told \cup {"abort"}
        /\ hardStop' = TRUE
        /\ got' = [got EXCEPT !.stopped = TRUE, !.cancelled = @ \/ UserStop]
  /\ UNCHANGED <<mode, child, said, heard>>

Killed == IF child = "running" THEN "killed" ELSE child

\* The deadline has passed.
HardStop ==
  /\ loop = "stop"
  /\ hardStop
  /\ hardStop' = FALSE
  /\ child' = Killed
  /\ UNCHANGED <<mode, loop, said, heard, told, got>>

\* Frames that break the protocol go straight back to the top of the loop.
Hear ==
  /\ loop = "receive"
  /\ ~got.closed
  /\ heard < Len(said)
  /\ heard' = heard + 1
  /\ LET f == said[heard + 1]
         first == f = "result" /\ ~got.result
     IN  /\ got' = IF first THEN [got EXCEPT !.result = TRUE]
                            ELSE [got EXCEPT !.failure = TRUE]
         /\ loop' = IF first \/ f \in {"error", "broken"} THEN "wait" ELSE "stop"
  /\ UNCHANGED <<mode, child, said, told, hardStop>>

\* Nothing arrived for 150 ms.
HearNothing ==
  /\ loop = "receive"
  /\ got.closed \/ (heard = Len(said) /\ child = "running")
  /\ loop' = "wait"
  /\ UNCHANGED <<mode, child, said, heard, told, hardStop, got>>

\* The child's output ends with the child; the reader thread then hangs up.
HearEnd ==
  /\ loop = "receive"
  /\ ~got.closed
  /\ heard = Len(said)
  /\ child # "running"
  /\ got' = [got EXCEPT !.closed = TRUE]
  /\ loop' = "wait"
  /\ UNCHANGED <<mode, child, said, heard, told, hardStop>>

\* What a run that is over makes of it: a completion record counts only with
\* no failure, no Stop acted upon, and a good exit.
Accepted == ~got.failure /\ ~got.cancelled /\ child = "good" /\ got.result

TryWait ==
  /\ loop = "wait"
  /\ loop' = IF child # "running" /\ got.closed
             THEN IF Accepted THEN "ok" ELSE "err"
             ELSE "stop"
  /\ UNCHANGED <<mode, child, said, heard, told, hardStop, got>>

\* The system cannot report on the child: only a media worker is killed.
TryWaitFails ==
  /\ loop = "wait"
  /\ child = "running"
  /\ ~got.failure
  /\ got' = [got EXCEPT !.failure = TRUE]
  /\ child' = IF mode.media THEN Killed ELSE child
  /\ loop' = "stop"
  /\ UNCHANGED <<mode, said, heard, told, hardStop>>

LoopStep ==
  LookForStop \/ Hear \/ HearNothing \/ HearEnd \/ TryWait

-----------------------------------------------------------------------------
(* A child whose program is not modelled: it prints what it likes, and ends. *)

Says(f) ==
  /\ child = "running"
  /\ Len(said) < MaxFrames
  /\ \A i \in 1..Len(said) : said[i] # "broken"
  /\ said' = Append(said, f)
  /\ UNCHANGED <<mode, loop, child, heard, told, hardStop, got>>

Ends ==
  /\ child = "running"
  /\ child' \in {"good", "bad"}
  /\ UNCHANGED <<mode, loop, said, heard, told, hardStop, got>>

Returned == loop \in {"ok", "err"}

-----------------------------------------------------------------------------
(* What a run promises *)

\* A run that reports success heard everything its child said, and that was
\* one completion record and nothing else; the child exited well by itself,
\* and no Stop was acted upon.
SuccessIsWhole ==
  loop = "ok" =>
    /\ child = "good"
    /\ said = <<"result">>
    /\ heard = Len(said)
    /\ told = {}

\* Only a media worker is ever killed.  A script that may be changing disks
\* ends by itself, however its output, its observation or a Stop turns out.
OnlyMediaIsKilled == child = "killed" => mode.media
=============================================================================
