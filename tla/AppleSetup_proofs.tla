------------------------- MODULE AppleSetup_proofs -------------------------
(* What AppleSetup keeps, for any plans, any number of companions and any    *)
(* number of crashes.                                                        *)
EXTENDS AppleSetup, TLAPS, FiniteSetTheorems

-----------------------------------------------------------------------------
(* The values of the variables.                                              *)

Plans == Digests \cup {NoDigest}
Requests == {"probe", "refresh_helper", "cancel", "review_plan", "acknowledge", "approve"}
            \cup Working \cup Mutating
Views == [phase : Phases, plan : Plans, execute : BOOLEAN, retry : BOOLEAN,
          cancel : BOOLEAN, started : BOOLEAN]
Kinds == {"state", "result", "error", "facts"}
Frames == [kind : Kinds, view : Views]
Orders == [cmd : Requests, digest : Plans]
Sessions == [phase : Phases, plan : Plans, acked : BOOLEAN, approved : Plans,
             active : Working \cup Mutating \cup {"none"}, started : BOOLEAN,
             retry : BOOLEAN]
Processes == [state : {"unborn", "starting", "running", "gone"}, open : BOOLEAN,
              deaf : BOOLEAN, input : Seq(Orders), output : Seq(Frames),
              session : Sessions]
Apps == [up : BOOLEAN, checked : BOOLEAN, busy : BOOLEAN, unknown : BOOLEAN,
         available : BOOLEAN, view : Views, plan : Plans, approved : Plans]
Places == {"idle", "connect", "spawn", "clear", "cleared", "call", "enlist", "send",
           "wait", "answered", "ask", "password", "check", "ready", "mark", "end"}
Acts == [at : Places, intent : Intents \cup {"none"}, cmd : Requests \cup {"none"},
         digest : Plans]
Conns == [bridge : Bridges \cup {0}, current : BOOLEAN, alive : BOOLEAN,
          writable : BOOLEAN, mutating : BOOLEAN, pending : Requests \cup {"none"},
          reply : {"none", "awaiting"} \cup Kinds,
          reader : {"reading", "broken", "done"}, exited : BOOLEAN]

Typed ==
  /\ bridge \in [Bridges -> Processes] /\ run \in [Bridges -> Plans]
  /\ app \in Apps /\ act \in Acts /\ conn \in Conns
  /\ marker \in Plans

-----------------------------------------------------------------------------
(* The invariant.                                                            *)

(* An output without a reply, and one with at most one.                      *)
Quiet(s) == \A i \in 1 .. Len(s) : s[i].kind = "state"
Once(s) == \A i, j \in 1 .. Len(s) : s[i].kind # "state" /\ s[j].kind # "state" => i = j

(* Nothing is asked of companion b, and nothing is to be answered.           *)
Idle(b) ==
  /\ bridge[b].input = <<>> /\ bridge[b].session.active = "none"
  /\ Quiet(bridge[b].output)

(* A companion has one request, one task or one reply.                       *)
Single(b) ==
  /\ Len(bridge[b].input) <= 1
  /\ bridge[b].input # <<>> => bridge[b].session.active = "none"
  /\ bridge[b].input # <<>> \/ bridge[b].session.active # "none"
       => Quiet(bridge[b].output)
  /\ Once(bridge[b].output)
  /\ bridge[b].state = "unborn" => Idle(b)

(* Who waits for a reply, and when no reply is due.                          *)
Talking ==
  /\ conn.reader # "done" => conn.bridge \in Bridges
  /\ conn.alive => conn.reader = "reading"
  /\ conn.writable => conn.alive
  /\ conn.pending # "none"
       => act.at \in {"send", "wait"} /\ conn.pending = act.cmd /\ conn.reply = "none"
  /\ conn.reader = "reading" /\ (conn.pending # "none" \/ act.at \in {"enlist", "send"})
       => conn.alive
  /\ act.at = "answered" => conn.reply # "none"
  /\ conn.alive /\ act.at = "send" => conn.pending # "none"
  /\ conn.alive /\ (conn.pending = "none" \/ act.at = "send") => Idle(conn.bridge)

(* Companion b was asked to change the disk, is about to, or did so and      *)
(* nobody was told the outcome.                                              *)
Ordered(b) == bridge[b].input # <<>> /\ Head(bridge[b].input).cmd \in Mutating
Flying(b) == \/ Ordered(b) \/ bridge[b].session.active \in Mutating \/ run[b] # NoDigest

(* The record names the plan of companion b.                                 *)
Named(b) ==
  /\ marker # NoDigest
  /\ Ordered(b) => Head(bridge[b].input).digest = marker
  /\ bridge[b].session.active \in Mutating => bridge[b].session.approved = marker
  /\ run[b] # NoDigest => run[b] = marker

(* There is one such companion at most.                                      *)
Recorded ==
  /\ \A b \in Bridges : Flying(b) => Named(b)
  /\ \A b, c \in Bridges : Flying(b) /\ Flying(c) => b = c

Dialogs == {"ask", "password", "check", "ready", "mark"}
Calls == {"call", "enlist", "send", "wait", "answered"}

(* Where a thread can be with which request.                                 *)
Placing ==
  /\ act.at # "idle" => app.up /\ app.busy
  /\ act.at \in Dialogs => /\ act.digest # NoDigest /\ act.cmd \notin Mutating
                           /\ act.intent \in {"approve_plan"} \cup Mutating
  /\ act.at \in {"password", "ready", "mark"} => act.intent \in Mutating
  /\ act.at \in {"clear", "cleared", "connect", "spawn"} => act.cmd \notin Mutating
  /\ act.at \in Calls \cup {"clear"} => act.cmd # "none"

(* A thread that submits has made the record, and until its outcome is known *)
(* only what it submitted changes the disk.                                  *)
Submitting ==
  act.cmd \in Mutating /\ act.at \in Calls =>
    /\ act.digest = marker /\ marker # NoDigest
    /\ act.at \in {"call", "enlist", "send"} => \A b \in Bridges : ~Flying(b)
    /\ act.at = "send" => conn.mutating
    /\ act.at \in {"wait", "answered"}
         => /\ \A b \in Bridges : Flying(b) => conn.mutating /\ b = conn.bridge
            /\ conn.reply \notin {"none", "error"} => ~conn.mutating

Inv == Typed /\ (\A b \in Bridges : Single(b)) /\ Talking /\ Recorded /\ Placing /\ Submitting

-----------------------------------------------------------------------------
(* Outputs.                                                                  *)

LEMMA QuietIsOnce ==
  ASSUME NEW s, Quiet(s)
  PROVE  Once(s)
BY DEF Quiet, Once

LEMMA QuietJoin ==
  ASSUME NEW s \in Seq(Frames), NEW t \in Seq(Frames), Quiet(s), Quiet(t)
  PROVE  s \o t \in Seq(Frames) /\ Quiet(s \o t)
BY DEF Quiet

LEMMA OnceJoin ==
  ASSUME NEW s \in Seq(Frames), NEW t \in Seq(Frames), Once(s), Quiet(t)
  PROVE  s \o t \in Seq(Frames) /\ Once(s \o t)
BY DEF Quiet, Once

LEMMA ReplyJoin ==
  ASSUME NEW s \in Seq(Frames), NEW f \in Frames, NEW t \in Seq(Frames),
         Quiet(s), Quiet(t)
  PROVE  s \o (<<f>> \o t) \in Seq(Frames) /\ Once(s \o (<<f>> \o t))
<1>1. <<f>> \o t \in Seq(Frames) /\ s \o (<<f>> \o t) \in Seq(Frames)
      /\ Len(s \o (<<f>> \o t)) = Len(s) + 1 + Len(t)
  OBVIOUS
<1>2. ASSUME NEW i \in 1 .. Len(s) + 1 + Len(t), i # Len(s) + 1
      PROVE  (s \o (<<f>> \o t))[i].kind = "state"
  BY <1>2 DEF Quiet
<1> QED
  BY <1>1, <1>2 DEF Once

LEMMA TailKeeps ==
  ASSUME NEW s \in Seq(Frames), s # <<>>
  PROVE  /\ Head(s) \in Frames /\ Tail(s) \in Seq(Frames)
         /\ Quiet(s) => Head(s).kind = "state" /\ Quiet(Tail(s))
         /\ Once(s) => Once(Tail(s))
         /\ Once(s) /\ Head(s).kind # "state" => Quiet(Tail(s))
<1>1. /\ Head(s) = s[1] /\ Head(s) \in Frames /\ Tail(s) \in Seq(Frames)
      /\ Len(s) \in Nat \ {0} /\ Len(Tail(s)) = Len(s) - 1
      /\ \A i \in 1 .. Len(s) - 1 : Tail(s)[i] = s[i + 1]
  OBVIOUS
<1>2. Quiet(s) => Head(s).kind = "state" /\ Quiet(Tail(s))
  BY <1>1 DEF Quiet
<1>3. Once(s) => Once(Tail(s))
  BY <1>1 DEF Once
<1>4. Once(s) /\ Head(s).kind # "state" => Quiet(Tail(s))
  BY <1>1 DEF Once, Quiet
<1> QED
  BY <1>1, <1>2, <1>3, <1>4

LEMMA Short ==
  /\ <<>> \in Seq(Frames) /\ <<>> \in Seq(Orders)
  /\ \A f \in Frames : <<f>> \in Seq(Frames)
  /\ \A s \in Seq(Frames) : <<>> \o s = s
OBVIOUS

LEMMA ViewTyped ==
  ASSUME NEW w \in Sessions
  PROVE  View(w) \in Views
BY DEF View, Sessions, Views, Plans

LEMMA NewsIsQuiet ==
  ASSUME NEW v \in Sessions, NEW w \in Sessions
  PROVE  News(v, w) \in Seq(Frames) /\ Quiet(News(v, w))
<1>1. [kind |-> "state", view |-> View(w)] \in Frames
      /\ [kind |-> "state", view |-> View(w)].kind = "state"
  BY ViewTyped DEF Frames, Kinds
<1> DEFINE f == [kind |-> "state", view |-> View(w)]
<1>2. News(v, w) \in {<<>>, <<f>>}
  BY DEF News
<1> HIDE DEF f
<1>3. f \in Frames /\ f.kind = "state"
  BY <1>1 DEF f
<1>4. <<f>> \in Seq(Frames) /\ Quiet(<<f>>) /\ <<>> \in Seq(Frames) /\ Quiet(<<>>)
  BY <1>3 DEF Quiet
<1> QED
  BY <1>2, <1>4

LEMMA Defaults ==
  /\ NoView \in Views /\ Fresh \in Sessions /\ Unborn \in Processes
  /\ NewApp \in Apps /\ NoAction \in Acts /\ NoConn \in Conns
<1>1. NoView \in Views /\ Fresh \in Sessions
  BY DEF NoView, Views, Phases, Plans, Fresh, Sessions
<1>2. Unborn \in Processes
  BY <1>1 DEF Unborn, Processes
<1>3. NewApp \in Apps /\ NoAction \in Acts /\ NoConn \in Conns
  BY <1>1 DEF NewApp, Apps, NoAction, Acts, Places, NoConn, Conns, Kinds, Plans
<1> QED
  BY <1>1, <1>2, <1>3

-----------------------------------------------------------------------------
(* Companions, field by field.                                               *)

LEMMA ProcessOf ==
  ASSUME Typed, NEW b \in Bridges
  PROVE  /\ bridge[b] \in Processes /\ bridge[b].input \in Seq(Orders)
         /\ bridge[b].output \in Seq(Frames) /\ bridge[b].session \in Sessions
         /\ run[b] \in Plans
BY DEF Typed, Processes

(* Moves: the session and the input, and what is sent, at most.              *)
LEMMA Moved ==
  ASSUME Typed, NEW b \in Bridges, NEW w \in Sessions, NEW input \in Seq(Orders),
         NEW frames \in Seq(Frames), Moves(b, w, input, frames)
  PROVE  /\ bridge' \in [Bridges -> Processes]
         /\ bridge'[b].session = w /\ bridge'[b].input = input
         /\ bridge'[b].state = bridge[b].state
         /\ \/ bridge'[b].output = bridge[b].output
            \/ bridge'[b].output
                 = bridge[b].output \o (frames \o News(bridge[b].session, w))
         /\ \A c \in Bridges \ {b} : bridge'[c] = bridge[c]
<1> DEFINE news == News(bridge[b].session, w)
           sent == Sent(b, frames \o news)
<1>1. news \in Seq(Frames)
  BY ProcessOf, NewsIsQuiet
<1> HIDE DEF news
<1>2. sent \in Seq(Frames)
      /\ (sent = bridge[b].output \/ sent = bridge[b].output \o (frames \o news))
  <2>1. sent = bridge[b].output \/ sent = bridge[b].output \o (frames \o news)
    BY DEF Sent
  <2>2. frames \o news \in Seq(Frames) /\ bridge[b].output \in Seq(Frames)
    BY <1>1, ProcessOf
  <2>3. bridge[b].output \o (frames \o news) \in Seq(Frames)
    BY <2>2
  <2> HIDE DEF sent
  <2> QED
    BY <2>1, <2>2, <2>3
<1>3. bridge' = [bridge EXCEPT ![b].session = w, ![b].input = input, ![b].output = sent]
  BY DEF Moves, news
<1> HIDE DEF sent
<1>4. /\ bridge' \in [Bridges -> Processes]
      /\ bridge'[b].session = w /\ bridge'[b].input = input
      /\ bridge'[b].state = bridge[b].state /\ bridge'[b].output = sent
      /\ \A c \in Bridges \ {b} : bridge'[c] = bridge[c]
  BY <1>2, <1>3 DEF Typed, Processes
<1> QED
  BY <1>2, <1>4 DEF news

-----------------------------------------------------------------------------
(* The steps of companion b, by their shape.                                 *)

Served(b) ==
  /\ bridge' \in [Bridges -> Processes] /\ run' \in [Bridges -> Plans]
  /\ \A c \in Bridges \ {b} : bridge'[c] = bridge[c] /\ run'[c] = run[c]
  /\ Single(b)' /\ (Idle(b) => Idle(b)')
  /\ Flying(b)' => Flying(b) /\ Named(b)'

LEMMA Others ==
  ASSUME Inv, NEW b \in Bridges,
         bridge' \in [Bridges -> Processes],
         \A c \in Bridges \ {b} : bridge'[c] = bridge[c],
         UNCHANGED run
  PROVE  run' \in [Bridges -> Plans]
         /\ \A c \in Bridges \ {b} : bridge'[c] = bridge[c] /\ run'[c] = run[c]
BY DEF Inv, Typed

(* A request is answered at once.                                            *)
LEMMA Answering ==
  ASSUME Inv, NEW b \in Bridges, NEW w \in Sessions, NEW f \in Frames,
         bridge[b].input # <<>>, w.active = "none", bridge[b].state # "unborn",
         Answers(b, w, f), UNCHANGED <<run, marker>>
  PROVE  Served(b)
<1> DEFINE news == News(bridge[b].session, w)
           old == bridge[b].output
           new == bridge'[b].output
<1>1. /\ bridge' \in [Bridges -> Processes]
      /\ bridge'[b].session = w /\ bridge'[b].input = <<>>
      /\ bridge'[b].state = bridge[b].state
      /\ new = old \/ new = old \o (<<f>> \o news)
      /\ \A c \in Bridges \ {b} : bridge'[c] = bridge[c]
  BY Short, Moved DEF Answers, Inv
<1>2. Quiet(old) /\ old \in Seq(Frames) /\ news \in Seq(Frames) /\ Quiet(news)
  BY ProcessOf, NewsIsQuiet DEF Inv, Single
<1> HIDE DEF old, news
<1>3. Once(new)
  BY <1>1, <1>2, ReplyJoin, QuietIsOnce
<1>4. Single(b)'
  BY <1>1, <1>3 DEF Single
<1>5. Flying(b)' => Flying(b) /\ Named(b)'
  BY <1>1 DEF Inv, Recorded, Flying, Named, Ordered, Mutating
<1>6. ~Idle(b)
  BY DEF Idle
<1> QED
  BY <1>1, <1>4, <1>5, <1>6, Others DEF Served

(* A request becomes the task.                                               *)
LEMMA Launching ==
  ASSUME Inv, NEW b \in Bridges, NEW w \in Sessions,
         bridge[b].input # <<>>, bridge[b].state # "unborn",
         w.active = Head(bridge[b].input).cmd, w.active # "none",
         w.active \in Mutating => w.approved = Head(bridge[b].input).digest,
         Moves(b, w, <<>>, <<>>), UNCHANGED <<run, marker>>
  PROVE  Served(b)
<1> DEFINE news == News(bridge[b].session, w)
           old == bridge[b].output
           new == bridge'[b].output
<1>1. /\ bridge' \in [Bridges -> Processes]
      /\ bridge'[b].session = w /\ bridge'[b].input = <<>>
      /\ bridge'[b].state = bridge[b].state
      /\ new = old \/ new = old \o (<<>> \o news)
      /\ \A c \in Bridges \ {b} : bridge'[c] = bridge[c]
  BY Short, Moved DEF Inv
<1>2. Quiet(old) /\ old \in Seq(Frames) /\ news \in Seq(Frames) /\ Quiet(news)
  BY ProcessOf, NewsIsQuiet DEF Inv, Single
<1> HIDE DEF old, news
<1>3. Quiet(new) /\ Once(new)
  <2>1. <<>> \o news = news
    BY <1>2
  <2> QED
    BY <1>1, <1>2, <2>1, QuietJoin, QuietIsOnce
<1>4. Single(b)'
  BY <1>1, <1>3 DEF Single
<1>5. Flying(b)' => Flying(b) /\ Named(b)'
  BY <1>1 DEF Inv, Recorded, Flying, Named, Ordered
<1>6. ~Idle(b)
  BY DEF Idle
<1> QED
  BY <1>1, <1>4, <1>5, <1>6, Others DEF Served

(* The task ends with its reply.                                             *)
LEMMA Ending ==
  ASSUME Inv, NEW b \in Bridges, NEW w \in Sessions,
         bridge[b].session.active # "none", w.active = "none",
         Ends(b, w), UNCHANGED <<run, marker>>
  PROVE  Served(b)
<1> DEFINE news == News(bridge[b].session, w)
           old == bridge[b].output
           new == bridge'[b].output
           f == Result(w)
<1>0. f \in Frames /\ bridge[b].input \in Seq(Orders)
  BY ViewTyped, ProcessOf DEF Inv, Result, Frames, Kinds
<1>1. /\ bridge' \in [Bridges -> Processes]
      /\ bridge'[b].session = w /\ bridge'[b].input = bridge[b].input
      /\ bridge'[b].state = bridge[b].state
      /\ new = old \/ new = old \o (<<f>> \o news)
      /\ \A c \in Bridges \ {b} : bridge'[c] = bridge[c]
  BY <1>0, Short, Moved DEF Ends, Inv
<1>2. Quiet(old) /\ old \in Seq(Frames) /\ news \in Seq(Frames) /\ Quiet(news)
  BY ProcessOf, NewsIsQuiet DEF Inv, Single
<1> HIDE DEF old, news, f
<1>3. Once(new)
  BY <1>0, <1>1, <1>2, ReplyJoin, QuietIsOnce
<1>4. bridge[b].input = <<>> /\ bridge[b].state # "unborn" /\ ~Idle(b)
  BY DEF Inv, Single, Idle
<1>5. Single(b)'
  BY <1>1, <1>3, <1>4 DEF Single
<1>6. Flying(b)' => Flying(b) /\ Named(b)'
  BY <1>1, <1>4 DEF Inv, Recorded, Flying, Named, Ordered, Mutating
<1> QED
  BY <1>1, <1>4, <1>5, <1>6, Others DEF Served

(* The companion is gone, and so are its request and its task.               *)
LEMMA Leaving ==
  ASSUME Inv, NEW b \in Bridges, bridge' = [bridge EXCEPT ![b] = Gone(b)],
         UNCHANGED <<run, marker>>
  PROVE  Served(b)
<1>1. /\ Gone(b) \in Processes /\ Gone(b).state = "gone" /\ Gone(b).input = <<>>
      /\ Gone(b).output = bridge[b].output /\ Gone(b).session.active = "none"
  BY Defaults, ProcessOf DEF Inv, Gone, Unborn, Processes, Fresh
<1>2. /\ bridge' \in [Bridges -> Processes] /\ bridge'[b] = Gone(b)
      /\ \A c \in Bridges \ {b} : bridge'[c] = bridge[c]
  BY <1>1 DEF Inv, Typed
<1>3. Single(b)' /\ (Idle(b) => Idle(b)')
  BY <1>1, <1>2 DEF Inv, Single, Idle
<1>4. Flying(b)' => Flying(b) /\ Named(b)'
  BY <1>1, <1>2 DEF Inv, Recorded, Flying, Named, Ordered, Mutating
<1> QED
  BY <1>2, <1>3, <1>4, Others DEF Served

(* The request and the task stay, and no reply is sent.                      *)
LEMMA Staying ==
  ASSUME Inv, NEW b \in Bridges, NEW n \in Processes,
         n.state = "unborn" => bridge[b].state = "unborn",
         bridge' = [bridge EXCEPT ![b] = n],
         n.input = bridge[b].input, n.session = bridge[b].session,
         Quiet(bridge[b].output) => Quiet(n.output),
         Once(bridge[b].output) => Once(n.output),
         UNCHANGED <<run, marker>>
  PROVE  Served(b)
<1>1. /\ bridge' \in [Bridges -> Processes] /\ bridge'[b] = n
      /\ \A c \in Bridges \ {b} : bridge'[c] = bridge[c]
  BY DEF Inv, Typed
<1>2. Single(b)' /\ (Idle(b) => Idle(b)')
  BY <1>1 DEF Inv, Single, Idle
<1>3. Flying(b)' => Flying(b) /\ Named(b)'
  BY <1>1 DEF Inv, Recorded, Flying, Named, Ordered
<1> QED
  BY <1>1, <1>2, <1>3, Others DEF Served

-----------------------------------------------------------------------------
(* The steps of companion b.                                                 *)

LEMMA ServesLease ==
  ASSUME Inv, NEW b \in Bridges, Lease(b), UNCHANGED marker
  PROVE  Served(b)
<1>1. CASE \E c \in Bridges : Up(c)
  BY <1>1, Leaving DEF Lease
<1>2. CASE ~\E c \in Bridges : Up(c)
  <2> DEFINE f == [kind |-> "state", view |-> View(Fresh)]
             old == bridge[b].output
             new == Sent(b, <<f>>)
             n == [bridge[b] EXCEPT !.state = "running", !.output = new]
  <2>1. f \in Frames /\ f.kind = "state"
    BY Defaults, ViewTyped DEF Frames, Kinds
  <2>2. bridge' = [bridge EXCEPT ![b] = n]
    BY <1>2 DEF Lease
  <2>3. (new = old \/ new = old \o <<f>>) /\ old \in Seq(Frames)
    BY ProcessOf DEF Sent, Inv
  <2> HIDE DEF f, new, old
  <2>4. <<f>> \in Seq(Frames) /\ Quiet(<<f>>)
    BY <2>1 DEF Quiet
  <2>5. new \in Seq(Frames) /\ (Quiet(old) => Quiet(new)) /\ (Once(old) => Once(new))
    <3>1. CASE new = old
      BY <2>3, <3>1
    <3>2. CASE new = old \o <<f>>
      <4>1. new \in Seq(Frames)
        BY <2>3, <2>4, <3>2
      <4>2. Quiet(old) => Quiet(new)
        BY <2>3, <2>4, <3>2, QuietJoin
      <4>3. Once(old) => Once(new)
        BY <2>3, <2>4, <3>2, OnceJoin
      <4> QED
        BY <4>1, <4>2, <4>3
    <3> QED
      BY <2>3, <3>1, <3>2
  <2>6. /\ n \in Processes /\ n.state = "running" /\ n.input = bridge[b].input
        /\ n.session = bridge[b].session /\ n.output = new
    BY <2>5, ProcessOf DEF Inv, Processes
  <2> HIDE DEF n
  <2> QED
    BY <2>2, <2>5, <2>6, Staying DEF Lease, old
<1> QED
  BY <1>1, <1>2

LEMMA ServesReplies ==
  ASSUME Inv, NEW b \in Bridges, Refuse(b) \/ Tell(b) \/ Discard(b) \/ Step(b),
         UNCHANGED marker
  PROVE  Served(b)
<1> DEFINE w == bridge[b].session
<1>1. /\ w \in Sessions /\ bridge[b].input # <<>> /\ w.active = "none"
      /\ bridge[b].state # "unborn" /\ UNCHANGED run
  <2>1. bridge[b].input # <<>> /\ Up(b) /\ UNCHANGED run
    BY DEF Refuse, Tell, Discard, Step, Asked
  <2> QED
    BY <2>1, ProcessOf DEF Inv, Single, Up
<1>2. \A k \in Kinds : [kind |-> k, view |-> NoView] \in Frames
  BY Defaults DEF Frames
<1>3. \A v \in Sessions : Result(v) \in Frames
  BY ViewTyped DEF Result, Frames, Kinds
<1>4. CASE Refuse(b)
  <2>1. Answers(b, w, [kind |-> "error", view |-> NoView])
    BY <1>4 DEF Refuse
  <2> QED
    BY <1>1, <1>2, <2>1, Answering DEF Kinds
<1>5. CASE Tell(b)
  <2>1. Answers(b, w, [kind |-> "facts", view |-> NoView]) \/ Answers(b, w, Result(w))
    BY <1>5 DEF Tell
  <2> QED
    BY <1>1, <1>2, <1>3, <2>1, Answering DEF Kinds
<1>6. CASE Discard(b)
  <2>1. Answers(b, Fresh, Result(Fresh)) /\ Fresh \in Sessions /\ Fresh.active = "none"
    BY <1>6, Defaults DEF Discard, Fresh
  <2> QED
    BY <1>1, <1>3, <2>1, Answering
<1>7. CASE Step(b)
  <2>1. PICK v \in {[w EXCEPT !.phase = "review", !.acked = FALSE],
                    [w EXCEPT !.acked = TRUE],
                    [w EXCEPT !.phase = "awaiting", !.approved = w.plan]} :
          Answers(b, v, Result(v))
    BY <1>7 DEF Step
  <2>2. v \in Sessions /\ v.active = "none"
    BY <1>1 DEF Sessions, Phases
  <2> QED
    BY <1>1, <1>3, <2>1, <2>2, Answering
<1> QED
  BY <1>4, <1>5, <1>6, <1>7

LEMMA ServesLaunch ==
  ASSUME Inv, NEW b \in Bridges, Launch(b), UNCHANGED marker
  PROVE  Served(b)
<1> DEFINE w == bridge[b].session
<1>1. PICK cmd \in Working \cup Mutating :
        /\ Asked(b, cmd) /\ Allowed(w, Head(bridge[b].input))
        /\ Moves(b, IF cmd \in Mutating THEN [w EXCEPT !.active = cmd]
                    ELSE [w EXCEPT !.active = cmd, !.approved = NoDigest,
                            !.phase = IF cmd = "inspect" THEN "inspecting" ELSE "preparing"],
                 <<>>, <<>>)
  BY DEF Launch
<1>2. /\ bridge[b].input # <<>> /\ bridge[b].state # "unborn"
      /\ Head(bridge[b].input).cmd = cmd /\ w \in Sessions /\ UNCHANGED run
      /\ cmd \in Mutating => w.approved = Head(bridge[b].input).digest
  BY <1>1, ProcessOf DEF Asked, Up, Allowed, Inv, Launch
<1>3. CASE cmd \in Mutating
  <2> DEFINE v == [w EXCEPT !.active = cmd]
  <2>1. v \in Sessions /\ v.active = cmd /\ v.approved = w.approved /\ cmd # "none"
    BY <1>2, <1>3 DEF Sessions, Mutating
  <2>2. Moves(b, v, <<>>, <<>>)
    BY <1>1, <1>3
  <2> HIDE DEF v
  <2> QED
    BY <1>2, <1>3, <2>1, <2>2, Launching
<1>4. CASE cmd \notin Mutating
  <2> DEFINE p == IF cmd = "inspect" THEN "inspecting" ELSE "preparing"
             v == [w EXCEPT !.active = cmd, !.approved = NoDigest, !.phase = p]
  <2>1. p \in Phases
    BY DEF Phases
  <2>2. Moves(b, v, <<>>, <<>>)
    BY <1>1, <1>4
  <2> HIDE DEF p
  <2>3. v \in Sessions /\ v.active = cmd /\ cmd # "none"
    BY <1>2, <1>4, <2>1 DEF Sessions, Working, Mutating, Plans
  <2> HIDE DEF v
  <2> QED
    BY <1>2, <1>4, <2>2, <2>3, Launching
<1> QED
  BY <1>3, <1>4

LEMMA ServesEnds ==
  ASSUME Inv, NEW b \in Bridges, Inspected(b) \/ Prepared(b) \/ Reject(b) \/ Finish(b),
         UNCHANGED marker
  PROVE  Served(b)
<1> DEFINE w == bridge[b].session
<1>1. /\ w \in Sessions /\ w.active # "none" /\ UNCHANGED run
      /\ Fresh \in Sessions /\ Fresh.active = "none"
  BY ProcessOf, Defaults
     DEF Inv, Inspected, Prepared, Reject, Finish, Working, Mutating, Fresh
<1>2. CASE Inspected(b)
  <2>1. PICK p \in {"unsupported", "welcome", "choice"} : Ends(b, [Fresh EXCEPT !.phase = p])
    BY <1>2 DEF Inspected
  <2>2. [Fresh EXCEPT !.phase = p] \in Sessions /\ [Fresh EXCEPT !.phase = p].active = "none"
    BY <1>1 DEF Sessions, Phases
  <2> QED
    BY <1>1, <2>1, <2>2, Ending
<1>3. CASE Prepared(b)
  <2>1. CASE Ends(b, [Fresh EXCEPT !.phase = "failed"])
    <3>1. /\ [Fresh EXCEPT !.phase = "failed"] \in Sessions
          /\ [Fresh EXCEPT !.phase = "failed"].active = "none"
      BY <1>1 DEF Sessions, Phases
    <3> QED
      BY <1>1, <2>1, <3>1, Ending
  <2>2. ASSUME NEW d \in Digests, Ends(b, [Fresh EXCEPT !.phase = "prepared", !.plan = d])
        PROVE  Served(b)
    <3>1. /\ [Fresh EXCEPT !.phase = "prepared", !.plan = d] \in Sessions
          /\ [Fresh EXCEPT !.phase = "prepared", !.plan = d].active = "none"
      BY <1>1 DEF Sessions, Phases, Plans
    <3> QED
      BY <1>1, <2>2, <3>1, Ending
  <2> QED
    BY <1>3, <2>1, <2>2 DEF Prepared
<1>4. CASE Reject(b)
  <2>1. [w EXCEPT !.active = "none"] \in Sessions /\ [w EXCEPT !.active = "none"].active = "none"
    BY <1>1 DEF Sessions
  <2> QED
    BY <1>1, <1>4, <2>1, Ending DEF Reject
<1>5. CASE Finish(b)
  <2>1. PICK p \in {"done", "failed"}, r \in BOOLEAN :
          Ends(b, [w EXCEPT !.active = "none", !.phase = p, !.retry = r])
    BY <1>5 DEF Finish
  <2>2. /\ [w EXCEPT !.active = "none", !.phase = p, !.retry = r] \in Sessions
        /\ [w EXCEPT !.active = "none", !.phase = p, !.retry = r].active = "none"
    BY <1>1 DEF Sessions, Phases
  <2> QED
    BY <1>1, <2>1, <2>2, Ending
<1> QED
  BY <1>2, <1>3, <1>4, <1>5

(* The approved plan is the recorded one, and it becomes what was begun.     *)
LEMMA ServesBegin ==
  ASSUME Inv, NEW b \in Bridges, Begin(b), UNCHANGED marker
  PROVE  Served(b)
<1> DEFINE w == bridge[b].session
           v == [w EXCEPT !.phase = "installing", !.started = TRUE]
           news == News(w, v)
           old == bridge[b].output
           new == bridge'[b].output
<1>1. /\ w \in Sessions /\ v \in Sessions /\ bridge[b].input \in Seq(Orders)
      /\ v.active = w.active /\ v.approved = w.approved /\ w.active \in Mutating
      /\ w.approved \in Plans
  BY ProcessOf DEF Inv, Sessions, Phases, Begin
<1>2. Moves(b, v, bridge[b].input, <<>>) /\ run' = [run EXCEPT ![b] = w.approved]
  BY DEF Begin
<1> HIDE DEF v
<1>3. /\ bridge' \in [Bridges -> Processes]
      /\ bridge'[b].session = v /\ bridge'[b].input = bridge[b].input
      /\ bridge'[b].state = bridge[b].state
      /\ new = old \/ new = old \o (<<>> \o news)
      /\ \A c \in Bridges \ {b} : bridge'[c] = bridge[c]
  BY <1>1, <1>2, Short, Moved DEF Inv
<1>4. Quiet(old) /\ old \in Seq(Frames) /\ news \in Seq(Frames) /\ Quiet(news)
      /\ w.active # "none" /\ bridge[b].input = <<>> /\ bridge[b].state # "unborn"
  BY <1>1, ProcessOf, NewsIsQuiet DEF Inv, Single, Idle, Mutating
<1> HIDE DEF old, news
<1>5. Quiet(new) /\ Once(new)
  <2>1. <<>> \o news = news
    BY <1>4
  <2> QED
    BY <1>3, <1>4, <2>1, QuietJoin, QuietIsOnce
<1>6. Single(b)'
  BY <1>3, <1>4, <1>5 DEF Single
<1>7. run' \in [Bridges -> Plans] /\ run'[b] = w.approved
      /\ \A c \in Bridges \ {b} : run'[c] = run[c]
  BY <1>1, <1>2 DEF Inv, Typed
<1>8. Flying(b) /\ w.approved = marker /\ marker # NoDigest
  BY <1>1 DEF Inv, Recorded, Flying, Named
<1>9. Named(b)'
  BY <1>1, <1>3, <1>4, <1>7, <1>8 DEF Named, Ordered
<1>10. ~Idle(b)
  BY <1>4 DEF Idle
<1> QED
  BY <1>3, <1>6, <1>7, <1>8, <1>9, <1>10 DEF Served

LEMMA ServesEnd ==
  ASSUME Inv, NEW b \in Bridges, HearEnd(b) \/ Exit(b) \/ Die(b), UNCHANGED marker
  PROVE  Served(b)
<1>1. CASE HearEnd(b)
  <2> DEFINE n == [bridge[b] EXCEPT !.deaf = TRUE]
  <2>1. bridge' = [bridge EXCEPT ![b] = n] /\ bridge[b].state = "running" /\ UNCHANGED run
    BY <1>1 DEF HearEnd, Up
  <2>2. /\ n \in Processes /\ n.state = bridge[b].state /\ n.input = bridge[b].input
        /\ n.session = bridge[b].session /\ n.output = bridge[b].output
    BY ProcessOf DEF Inv, Processes
  <2> HIDE DEF n
  <2> QED
    BY <2>1, <2>2, Staying
<1>2. CASE Exit(b) \/ Die(b)
  BY <1>2, Leaving DEF Exit, Die
<1> QED
  BY <1>1, <1>2

-----------------------------------------------------------------------------
(* Steps of the whole, of which each companion sees little.                  *)

Calm ==
  /\ bridge' \in [Bridges -> Processes] /\ run' \in [Bridges -> Plans]
  /\ \A c \in Bridges : /\ Single(c)'
                        /\ Idle(c) => Idle(c)'
                        /\ Flying(c)' => Flying(c)
  /\ Recorded'

LEMMA CalmSame ==
  ASSUME Inv, UNCHANGED <<bridge, run, marker>>
  PROVE  Calm
BY DEF Inv, Typed, Calm, Single, Idle, Flying, Ordered, Recorded, Named

LEMMA CalmServed ==
  ASSUME Inv, NEW b \in Bridges, Served(b), UNCHANGED marker
  PROVE  Calm
<1>1. ASSUME NEW c \in Bridges \ {b}
      PROVE  /\ Single(c)' /\ (Idle(c) => Idle(c)') /\ (Flying(c)' <=> Flying(c))
             /\ Flying(c)' => Named(c)'
  BY DEF Inv, Served, Single, Idle, Flying, Ordered, Recorded, Named
<1>2. /\ Single(b)' /\ (Idle(b) => Idle(b)') /\ (Flying(b)' => Flying(b))
      /\ Flying(b)' => Named(b)'
  BY DEF Served
<1>3. Recorded'
  BY <1>1, <1>2 DEF Inv, Recorded
<1> QED
  BY <1>1, <1>2, <1>3 DEF Served, Calm

LEMMA Emptied ==
  /\ Quiet(<<>>) /\ Once(<<>>)
BY DEF Quiet, Once

LEMMA CalmDropped ==
  ASSUME Inv, bridge' \in {Dropped, Abandoned}, UNCHANGED <<run, marker>>
  PROVE  Calm
<1>1. CASE conn.bridge = 0
  BY <1>1, CalmSame DEF Dropped, Abandoned
<1>2. CASE conn.bridge # 0
  <2>0. PICK b \in Bridges : b = conn.bridge
    BY <1>2 DEF Inv, Typed, Conns
  <2> DEFINE n == [bridge[b] EXCEPT !.open = FALSE]
             m == [bridge[b] EXCEPT !.open = FALSE, !.deaf = TRUE, !.output = <<>>]
  <2>1. bridge[b] \in Processes
    BY ProcessOf DEF Inv
  <2>2. /\ n \in Processes /\ n.state = bridge[b].state /\ n.input = bridge[b].input
        /\ n.session = bridge[b].session /\ n.output = bridge[b].output
    BY <2>1 DEF Processes
  <2>3. /\ m \in Processes /\ m.state = bridge[b].state /\ m.input = bridge[b].input
        /\ m.session = bridge[b].session /\ m.output = <<>>
    BY <2>1, Short DEF Processes
  <2>4. bridge' = [bridge EXCEPT ![b] = n] \/ bridge' = [bridge EXCEPT ![b] = m]
    BY <1>2, <2>0 DEF Dropped, Abandoned
  <2> HIDE DEF n, m
  <2>5. Served(b)
    BY <2>2, <2>3, <2>4, Staying, Emptied
  <2> QED
    BY <2>5, CalmServed
<1> QED
  BY <1>1, <1>2

LEMMA Keeps ==
  ASSUME Inv, Calm, Typed', Talking', Placing', Submitting'
  PROVE  Inv'
BY DEF Inv, Calm

(* The thread does not move.                                                 *)
LEMMA Waits ==
  ASSUME Inv, Calm, UNCHANGED <<act, conn, marker>>, app' \in Apps,
         act.at # "idle" => app'.up /\ app'.busy
  PROVE  Inv'
<1>1. Typed'
  BY DEF Inv, Typed, Calm
<1>2. Talking'
  BY DEF Inv, Talking, Calm
<1>3. Placing' /\ Submitting'
  BY DEF Inv, Placing, Submitting, Calm
<1> QED
  BY <1>1, <1>2, <1>3, Keeps

LEMMA CompanionsKeep ==
  ASSUME Inv, Companions
  PROVE  Inv'
<1>1. PICK b \in Bridges : Serves(b) \/ Die(b)
  BY DEF Companions, BridgeNext
<1>2. UNCHANGED <<app, act, conn, marker>>
  BY DEF Companions
<1>3. Served(b)
  BY <1>1, <1>2, ServesLease, ServesReplies, ServesLaunch, ServesEnds, ServesBegin,
     ServesEnd DEF Serves
<1> QED
  BY <1>2, <1>3, CalmServed, Waits DEF Inv, Typed, Placing

-----------------------------------------------------------------------------
(* The thread, field by field.                                               *)

LEMMA GoesTo ==
  ASSUME Typed, NEW at \in Places, Goes(at)
  PROVE  /\ act' \in Acts /\ act'.at = at /\ act'.intent = act.intent
         /\ act'.cmd = act.cmd /\ act'.digest = act.digest
BY DEF Typed, Acts, Goes

LEMMA AsksFor ==
  ASSUME Typed, NEW cmd \in Requests, Asks(cmd)
  PROVE  /\ act' \in Acts /\ act'.at = "call" /\ act'.intent = act.intent
         /\ act'.cmd = cmd /\ act'.digest = act.digest
BY DEF Typed, Acts, Asks, Places

LEMMA ClosedOf ==
  ASSUME Typed
  PROVE  /\ Closed(conn) \in Conns /\ Closed(conn).bridge = conn.bridge
         /\ Closed(conn).alive = FALSE /\ Closed(conn).writable = FALSE
         /\ Closed(conn).pending = "none" /\ Closed(conn).mutating = conn.mutating
         /\ Closed(conn).reader = conn.reader
         /\ Closed(conn).reply
              = IF conn.pending # "none" THEN "error" ELSE conn.reply
BY DEF Typed, Conns, Closed, Kinds

Outside == Places \ {"enlist", "send", "wait", "answered"}

(* A thread that waits for nobody goes elsewhere without a request that      *)
(* changes the disk.                                                         *)
LEMMA Turns ==
  ASSUME Inv, Calm, conn.pending = "none", UNCHANGED <<conn, marker>>,
         app' \in Apps, act' \in Acts, act'.at \in Outside,
         act'.at \in Calls => act'.cmd \notin Mutating, Placing'
  PROVE  Inv'
<1>1. Typed'
  BY DEF Inv, Typed, Calm
<1>2. Talking'
  BY DEF Inv, Talking, Calm, Outside
<1>3. Submitting'
  BY DEF Submitting
<1> QED
  BY <1>1, <1>2, <1>3, Keeps

LEMMA Quietly ==
  ASSUME Inv, act.at \notin {"send", "wait"}
  PROVE  conn.pending = "none"
BY DEF Inv, Talking

-----------------------------------------------------------------------------
(* The steps of the thread and of the reader.                                *)

LEMMA KeepsStart ==
  ASSUME Inv, NEW intent \in Intents, Start(intent)
  PROVE  Inv'
<1>1. act.at = "idle" /\ app.up /\ UNCHANGED <<conn, marker, bridge, run>>
  BY DEF Start, Inv, Placing
<1>2. app' \in Apps /\ app'.up /\ app'.busy
  <2>1. app' = [app EXCEPT !.busy = TRUE]
    BY DEF Start
  <2> QED
    BY <1>1, <2>1 DEF Inv, Typed, Apps
<1>3. /\ act' \in Acts /\ act'.at \in {"connect", "clear", "end", "ask", "call"}
      /\ act'.cmd \notin Mutating
      /\ act'.at \in {"clear", "call"} => act'.cmd # "none"
      /\ act'.at = "ask" => /\ act'.digest # NoDigest
                            /\ act'.intent \in {"approve_plan"} \cup Mutating
  <2>0. act' = Begins(intent) /\ app.plan \in Plans
    BY DEF Start, Inv, Typed, Apps
  <2>1. CASE intent = "connect"
    <3>1. act' = [NoAction EXCEPT !.at = "connect", !.intent = intent]
      BY <2>0, <2>1 DEF Begins, Working, Mutating
    <3> QED
      BY <3>1, Defaults DEF NoAction, Acts, Places, Mutating
  <2>2. CASE intent \in Working
    BY <2>0, <2>2, Defaults
       DEF Begins, NoAction, Acts, Places, Intents, Requests, Working, Mutating
  <2>3. CASE intent \in {"approve_plan"} \cup Mutating
    <3> DEFINE at == IF app.plan = NoDigest THEN "end" ELSE "ask"
    <3>1. act' = [NoAction EXCEPT !.at = at, !.intent = intent, !.digest = app.plan]
      BY <2>0, <2>3 DEF Begins, Working, Mutating
    <3>2. at \in {"end", "ask"} /\ (at = "ask" => app.plan # NoDigest)
      OBVIOUS
    <3> HIDE DEF at
    <3>3. /\ act' \in Acts /\ act'.at = at /\ act'.cmd = "none" /\ act'.digest = app.plan
          /\ act'.intent = intent
      BY <2>0, <3>1, <3>2, Defaults DEF NoAction, Acts, Places
    <3> QED
      BY <2>3, <3>2, <3>3 DEF Mutating
  <2>4. CASE intent \in {"refresh", "review_plan", "cancel"}
    BY <2>0, <2>4, Defaults
       DEF Begins, NoAction, Acts, Places, Intents, Requests, Working, Mutating
  <2> QED
    BY <2>1, <2>2, <2>3, <2>4 DEF Intents, Working, Mutating
<1>4. Placing'
  BY <1>2, <1>3 DEF Placing, Dialogs, Calls
<1> QED
  BY <1>1, <1>2, <1>3, <1>4, CalmSame, Quietly, Turns DEF Outside, Places

(* The steps that only choose what comes next.                               *)
LEMMA KeepsDialogs ==
  ASSUME Inv, Confirm \/ Authorize \/ Check \/ Ready
  PROVE  Inv'
<1>1. /\ act.at \in Dialogs /\ conn.pending = "none" /\ act \in Acts
      /\ UNCHANGED <<app, conn, marker, bridge, run>> /\ app \in Apps
  BY Quietly DEF Confirm, Authorize, Check, Ready, Dialogs, Inv, Typed
<1>2. /\ act.digest # NoDigest /\ act.cmd \notin Mutating /\ app.up /\ app.busy
      /\ act.intent \in {"approve_plan"} \cup Mutating
  BY <1>1 DEF Inv, Placing, Dialogs
<1>3. PICK at \in {"end", "password", "check", "ready", "mark", "call"} :
        /\ at = "call" => Asks("acknowledge")
        /\ at # "call" => Goes(at)
        /\ at \in {"password", "ready", "mark"} => act.intent \in Mutating
  <2>1. CASE Confirm
    BY <1>2, <2>1 DEF Confirm
  <2>2. CASE Authorize
    BY <2>2 DEF Authorize
  <2>3. CASE Check
    BY <1>2, <2>3 DEF Check
  <2>4. CASE Ready
    BY <2>4 DEF Ready, Inv, Placing
  <2> QED
    BY <2>1, <2>2, <2>3, <2>4
<1>4. CASE at = "call"
  <2>1. /\ act' \in Acts /\ act'.at = "call" /\ act'.cmd = "acknowledge"
    BY <1>3, <1>4, AsksFor DEF Inv, Requests
  <2>2. Placing'
    BY <1>1, <1>2, <2>1 DEF Placing, Dialogs
  <2> QED
    BY <1>1, <2>1, <2>2, CalmSame, Turns DEF Outside, Places, Mutating
<1>5. CASE at # "call"
  <2>1. /\ act' \in Acts /\ act'.at = at /\ act'.cmd = act.cmd
        /\ act'.digest = act.digest /\ act'.intent = act.intent
    BY <1>3, <1>5, GoesTo DEF Inv, Places
  <2>2. Placing'
    BY <1>1, <1>2, <1>3, <1>5, <2>1 DEF Placing, Dialogs, Calls
  <2> QED
    BY <1>1, <1>2, <2>1, <2>2, CalmSame, Turns DEF Outside, Places
<1> QED
  BY <1>4, <1>5

LEMMA KeepsClear ==
  ASSUME Inv, Clear
  PROVE  Inv'
<1>1. /\ act.at \in {"clear", "cleared"} /\ act.cmd \notin Mutating
      /\ conn.pending = "none" /\ UNCHANGED <<conn, marker, bridge, run>>
      /\ app.up /\ app.busy /\ (act.at = "clear" => act.cmd # "none")
  BY Quietly DEF Clear, Inv, Placing
<1>2. app' \in Apps /\ app'.up /\ app'.busy
  <2>1. app' = [app EXCEPT !.plan = NoDigest, !.approved = NoDigest]
    BY DEF Clear
  <2> QED
    BY <1>1, <2>1 DEF Inv, Typed, Apps, Plans
<1>3. PICK at \in {"call", "end"} : Goes(at) /\ (at = "call" => act.at = "clear")
  BY DEF Clear
<1>4. act' \in Acts /\ act'.at = at /\ act'.cmd = act.cmd
  BY <1>3, GoesTo DEF Inv, Places
<1>5. Placing'
  BY <1>1, <1>2, <1>3, <1>4 DEF Placing, Dialogs, Calls
<1> QED
  BY <1>1, <1>2, <1>4, <1>5, CalmSame, Turns DEF Outside, Places

LEMMA KeepsEnd ==
  ASSUME Inv, End
  PROVE  Inv'
<1>1. /\ act' = NoAction /\ conn.pending = "none"
      /\ UNCHANGED <<conn, marker, bridge, run>>
  BY Quietly DEF End
<1>2. app' \in Apps
  BY DEF End, Inv, Typed, Apps
<1>3. /\ act' \in Acts /\ act'.at = "idle" /\ act'.cmd = "none"
  BY <1>1, Defaults DEF NoAction
<1>4. Placing'
  BY <1>3 DEF Placing, Dialogs, Calls
<1> QED
  BY <1>1, <1>2, <1>3, <1>4, CalmSame, Turns DEF Outside, Places, Calls

(* The connection does not answer to this thread's request any more, or the  *)
(* thread has none that changes the disk.                                    *)
LEMMA Alters ==
  ASSUME Inv, Calm, UNCHANGED marker, app' \in Apps, act' \in Acts, conn' \in Conns,
         act'.at \in Outside \cup {"answered"},
         act'.at = "answered" => conn'.reply = "error",
         act'.at \in Calls => act'.cmd \notin Mutating, Placing',
         conn'.pending = "none", conn'.bridge = conn.bridge,
         conn'.reader = "done" \/ conn'.reader = conn.reader,
         conn'.writable => conn'.alive,
         conn'.alive => conn.alive /\ conn'.reader = conn.reader /\ conn.pending = "none"
  PROVE  Inv'
<1>1. Typed'
  BY DEF Inv, Typed, Calm
<1>2. Talking'
  BY DEF Inv, Talking, Calm, Outside
<1>3. Submitting'
  BY DEF Submitting
<1> QED
  BY <1>1, <1>2, <1>3, Keeps

LEMMA KeepsConnect ==
  ASSUME Inv, Connect
  PROVE  Inv'
<1>1. /\ act.at = "connect" /\ act.cmd \notin Mutating /\ conn.pending = "none"
      /\ UNCHANGED <<app, marker, bridge, run>> /\ app \in Apps /\ app.up /\ app.busy
  BY Quietly DEF Connect, Inv, Placing, Typed
<1>2. /\ conn' \in Conns /\ conn'.pending = conn.pending /\ conn'.bridge = conn.bridge
      /\ conn'.reader = conn.reader /\ conn'.alive = conn.alive
      /\ conn'.writable = conn.writable
  <2>1. conn' = conn \/ conn' = [conn EXCEPT !.current = FALSE]
    BY DEF Connect
  <2> QED
    BY <2>1 DEF Inv, Typed, Conns
<1>3. /\ act' \in Acts /\ act'.at \in {"call", "end", "spawn"} /\ act'.cmd \notin Mutating
      /\ act'.at = "call" => act'.cmd # "none"
  <2>1. Asks("probe") \/ Goes("end") \/ Goes("spawn")
    BY DEF Connect
  <2>2. CASE Asks("probe")
    BY <2>2, AsksFor DEF Inv, Requests, Mutating
  <2>3. ASSUME NEW at \in {"end", "spawn"}, Goes(at)
        PROVE  act' \in Acts /\ act'.at = at /\ act'.cmd = act.cmd
    BY <2>3, GoesTo DEF Inv, Places
  <2> QED
    BY <1>1, <2>1, <2>2, <2>3
<1>4. Placing'
  BY <1>1, <1>3 DEF Placing, Dialogs, Calls
<1>5. conn.writable => conn.alive
  BY DEF Inv, Talking
<1>6. act'.at \in Outside \cup {"answered"} /\ act'.at # "answered"
  BY <1>3 DEF Outside, Places
<1>7. Calm
  BY <1>1, CalmSame
<1>8. /\ conn'.pending = "none" /\ conn'.bridge = conn.bridge /\ conn'.reader = conn.reader
      /\ conn'.writable => conn'.alive
      /\ conn'.alive => /\ conn.alive /\ conn'.reader = conn.reader
                        /\ conn.pending = "none"
  BY <1>1, <1>2, <1>5
<1>9. act' \in Acts /\ app' \in Apps /\ conn' \in Conns /\ UNCHANGED marker
      /\ (act'.at \in Calls => act'.cmd \notin Mutating)
  BY <1>1, <1>2, <1>3, <1>7
<1> QED
  BY <1>8, <1>9, <1>4, <1>6, <1>7, Alters

(* An answer of another kind of request.                                     *)
LEMMA KeepsReplied ==
  ASSUME Inv, Replied
  PROVE  Inv'
<1>1. /\ act.at = "answered" /\ act.cmd \notin Mutating /\ conn.pending = "none"
      /\ UNCHANGED <<conn, marker, bridge, run>> /\ app.up /\ app.busy
  BY Quietly DEF Replied, Answered, Inv, Placing, Mutating
<1>2. app' \in Apps /\ app'.up /\ app'.busy
  <2> DEFINE plan == IF act.cmd = "approve" /\ conn.reply = "awaiting" THEN act.digest
                     ELSE app.approved
  <2>1. app' = [app EXCEPT !.approved = plan] /\ plan \in Plans
    BY DEF Replied, Inv, Typed, Apps, Acts
  <2> HIDE DEF plan
  <2> QED
    BY <1>1, <2>1 DEF Inv, Typed, Apps
<1>3. /\ act' \in Acts /\ act'.at \in {"call", "end", "cleared"} /\ act'.cmd \notin Mutating
      /\ act'.at = "call" => act'.cmd # "none"
  <2>1. Asks("probe") \/ Asks("approve") \/ Goes("end") \/ Goes("cleared")
    BY DEF Replied
  <2>2. ASSUME NEW cmd \in {"probe", "approve"}, Asks(cmd)
        PROVE  act' \in Acts /\ act'.at = "call" /\ act'.cmd = cmd
    BY <2>2, AsksFor DEF Inv, Requests
  <2>3. ASSUME NEW at \in {"end", "cleared"}, Goes(at)
        PROVE  act' \in Acts /\ act'.at = at /\ act'.cmd = act.cmd
    BY <2>3, GoesTo DEF Inv, Places
  <2> QED
    BY <1>1, <2>1, <2>2, <2>3 DEF Mutating
<1>4. Placing'
  BY <1>2, <1>3 DEF Placing, Dialogs, Calls
<1> QED
  BY <1>1, <1>2, <1>3, <1>4, CalmSame, Turns DEF Outside, Places

LEMMA KeepsProbed ==
  ASSUME Inv, Probed
  PROVE  Inv'
<1>1. /\ act.at = "answered" /\ act.cmd \notin Mutating /\ conn.pending = "none"
      /\ UNCHANGED <<marker, run>> /\ app.up /\ app.busy
      /\ bridge' = bridge \/ bridge' = Dropped
      /\ conn' = conn \/ conn' = Closed(conn)
  BY Quietly DEF Probed, Answered, Inv, Placing, Mutating
<1>2. app' \in Apps /\ app'.up /\ app'.busy
  <2>1. app' = app \/ app' = [app EXCEPT !.available = @ \/ act.intent = "connect"]
    BY DEF Probed
  <2> QED
    BY <1>1, <2>1 DEF Inv, Typed, Apps
<1>3. act' \in Acts /\ act'.at = "end" /\ act'.cmd = act.cmd
  BY GoesTo DEF Probed, Inv, Places
<1>4. Placing'
  BY <1>2, <1>3 DEF Placing, Dialogs, Calls
<1>5. Calm
  BY <1>1, CalmSame, CalmDropped
<1>6. /\ conn' \in Conns /\ conn'.pending = "none" /\ conn'.bridge = conn.bridge
      /\ conn'.reader = conn.reader /\ (conn'.writable => conn'.alive)
      /\ conn'.alive => conn.alive
  BY <1>1, ClosedOf DEF Inv, Typed, Talking
<1>7. act'.at \in Outside \cup {"answered"} /\ act'.at \notin Calls \cup {"answered"}
  BY <1>3 DEF Outside, Places, Calls
<1>8. /\ conn'.pending = "none" /\ conn'.bridge = conn.bridge /\ conn'.reader = conn.reader
      /\ conn'.writable => conn'.alive
      /\ conn'.alive => /\ conn.alive /\ conn'.reader = conn.reader
                        /\ conn.pending = "none"
  BY <1>1, <1>6
<1>9. act' \in Acts /\ app' \in Apps /\ conn' \in Conns /\ UNCHANGED marker
      /\ (act'.at \in Calls => act'.cmd \notin Mutating)
  BY <1>1, <1>2, <1>3, <1>6, <1>7
<1> QED
  BY <1>8, <1>9, <1>4, <1>5, <1>7, Alters

LEMMA KeepsTimeOut ==
  ASSUME Inv, TimeOut
  PROVE  Inv'
<1>1. /\ act.at = "wait" /\ act.cmd \notin Mutating /\ act.cmd # "none"
      /\ UNCHANGED <<app, marker, run>> /\ app \in Apps /\ app.up /\ app.busy
      /\ bridge' = Dropped /\ conn' = [Closed(conn) EXCEPT !.reply = "error"]
  BY DEF TimeOut, Inv, Placing, Unlimited, Typed, Calls
<1>2. act' \in Acts /\ act'.at = "answered" /\ act'.cmd = act.cmd
  BY GoesTo DEF TimeOut, Inv, Places
<1>3. Placing'
  BY <1>1, <1>2 DEF Placing, Dialogs, Calls
<1>4. Calm
  BY <1>1, CalmDropped
<1>5. /\ conn' \in Conns /\ conn'.pending = "none" /\ conn'.bridge = conn.bridge
      /\ conn'.reader = conn.reader /\ conn'.writable = FALSE /\ conn'.alive = FALSE
      /\ conn'.reply = "error"
  <2>1. /\ Closed(conn) \in Conns /\ Closed(conn).bridge = conn.bridge
        /\ Closed(conn).alive = FALSE /\ Closed(conn).writable = FALSE
        /\ Closed(conn).pending = "none" /\ Closed(conn).reader = conn.reader
    BY ClosedOf DEF Inv
  <2> QED
    BY <1>1, <2>1 DEF Conns, Kinds
<1> QED
  BY <1>1, <1>2, <1>3, <1>4, <1>5, Alters DEF Outside, Places

(* A request on its way: the connection was alive when it was asked for.     *)
LEMMA KeepsCall ==
  ASSUME Inv, Call
  PROVE  Inv'
<1>1. /\ act.at = "call" /\ conn.pending = "none" /\ act.cmd # "none"
      /\ UNCHANGED <<app, marker, bridge, run>> /\ app.up /\ app.busy
  BY Quietly DEF Call, Inv, Placing, Calls
<1>2. Calm
  BY <1>1, CalmSame
<1>3. CASE conn.alive
  <2>1. /\ act' \in Acts /\ act'.at = "enlist" /\ act'.cmd = act.cmd
        /\ act'.digest = act.digest /\ conn' = conn
    BY <1>3, GoesTo DEF Call, Inv, Places
  <2>2. Typed' /\ Placing'
    BY <1>1, <1>2, <2>1 DEF Inv, Typed, Calm, Placing, Dialogs, Calls
  <2>3. Talking'
    BY <1>1, <1>2, <1>3, <2>1 DEF Inv, Talking, Calm
  <2>4. Submitting'
    BY <1>1, <1>2, <2>1 DEF Inv, Submitting, Calm, Calls
  <2> QED
    BY <1>2, <2>2, <2>3, <2>4, Keeps
<1>4. CASE ~conn.alive
  <2>1. /\ act' \in Acts /\ act'.at = "answered" /\ act'.cmd = act.cmd
        /\ act'.digest = act.digest
    BY <1>4, GoesTo DEF Call, Inv, Places
  <2>2. /\ conn' \in Conns /\ conn'.reply = "error" /\ conn'.bridge = conn.bridge
        /\ conn'.reader = conn.reader /\ conn'.alive = conn.alive
        /\ conn'.writable = conn.writable /\ conn'.pending = conn.pending
        /\ conn'.mutating = conn.mutating
    BY <1>4 DEF Call, Inv, Typed, Conns, Kinds
  <2>3. Typed' /\ Placing'
    BY <1>1, <1>2, <2>1, <2>2 DEF Inv, Typed, Calm, Placing, Dialogs, Calls
  <2>4. Talking'
    BY <1>1, <1>2, <1>4, <2>1, <2>2 DEF Inv, Talking, Calm
  <2>5. Submitting'
    BY <1>1, <1>2, <2>1, <2>2 DEF Inv, Submitting, Calm, Calls
  <2> QED
    BY <1>2, <2>3, <2>4, <2>5, Keeps
<1> QED
  BY <1>3, <1>4

LEMMA KeepsEnlist ==
  ASSUME Inv, Enlist
  PROVE  Inv'
<1>1. /\ act.at = "enlist" /\ conn.pending = "none" /\ act.cmd \in Requests
      /\ UNCHANGED <<app, marker, bridge, run>> /\ app.up /\ app.busy
  BY Quietly DEF Enlist, Inv, Placing, Calls, Typed, Acts
<1>2. Calm
  BY <1>1, CalmSame
<1>3. /\ act' \in Acts /\ act'.at = "send" /\ act'.cmd = act.cmd
      /\ act'.digest = act.digest
  BY GoesTo DEF Enlist, Inv, Places
<1>4. /\ conn' \in Conns /\ conn'.reply = "none" /\ conn'.bridge = conn.bridge
      /\ conn'.reader = conn.reader /\ conn'.alive = conn.alive
      /\ conn'.writable = conn.writable /\ conn'.pending = act.cmd
      /\ act.cmd \in Mutating => conn'.mutating
  BY <1>1 DEF Enlist, Inv, Typed, Conns
<1>5. act.cmd # "none"
  BY <1>1 DEF Inv, Placing, Calls
<1>6. Typed' /\ Placing'
  BY <1>1, <1>2, <1>3, <1>4, <1>5 DEF Inv, Typed, Calm, Placing, Dialogs, Calls
<1>7. Talking'
  BY <1>1, <1>2, <1>3, <1>4, <1>5 DEF Inv, Talking, Calm
<1>8. Submitting'
  BY <1>1, <1>2, <1>3, <1>4 DEF Inv, Submitting, Calm, Calls
<1> QED
  BY <1>2, <1>6, <1>7, <1>8, Keeps

LEMMA KeepsSend ==
  ASSUME Inv, Send
  PROVE  Inv'
<1>1. /\ act.at = "send" /\ act.cmd \in Requests /\ act.cmd # "none" /\ act.digest \in Plans
      /\ UNCHANGED <<app, marker, run>> /\ app.up /\ app.busy
  BY DEF Send, Inv, Placing, Calls, Typed, Acts
<1>2. CASE conn.writable /\ bridge[conn.bridge].state \in {"starting", "running"}
  <2>0. PICK b \in Bridges : b = conn.bridge
    BY <1>2 DEF Inv, Talking
  <2> DEFINE r == [cmd |-> act.cmd, digest |-> act.digest]
  <2>1. /\ act' \in Acts /\ act'.at = "wait" /\ act'.cmd = act.cmd
        /\ act'.digest = act.digest /\ conn' = conn
    BY <1>2, GoesTo DEF Send, Inv, Places
  <2>2. conn.alive /\ Idle(conn.bridge) /\ Idle(b) /\ conn.pending # "none"
    BY <1>1, <1>2, <2>0 DEF Inv, Talking, Idle
  <2>3. /\ bridge' \in [Bridges -> Processes] /\ bridge'[b].input = <<r>>
        /\ bridge'[b].output = bridge[b].output /\ bridge'[b].session = bridge[b].session
        /\ bridge'[b].state = bridge[b].state
        /\ \A c \in Bridges \ {b} : bridge'[c] = bridge[c]
    <3>1. bridge' = [bridge EXCEPT ![b].input = Append(@, r)] /\ bridge[b].input = <<>>
      BY <1>2, <2>0, <2>2 DEF Send, Idle
    <3>2. r \in Orders
      BY <1>1 DEF Orders
    <3> HIDE DEF r
    <3>3. Append(bridge[b].input, r) = <<r>> /\ <<r>> \in Seq(Orders)
      BY <3>1, <3>2
    <3>4. bridge' = [bridge EXCEPT ![b].input = <<r>>]
      BY <3>1, <3>3
    <3> QED
      BY <2>2, <3>3, <3>4 DEF Inv, Typed, Processes
  <2>4. Head(<<r>>) = r /\ Len(<<r>>) = 1 /\ <<r>> # <<>>
    OBVIOUS
  <2>5. r.cmd = act.cmd /\ r.digest = act.digest
    OBVIOUS
  <2> HIDE DEF r
  <2>6. Single(b)'
    BY <1>2, <2>0, <2>2, <2>3, <2>4, QuietIsOnce DEF Single, Idle, Inv
  <2>7. ASSUME NEW c \in Bridges \ {b}
        PROVE  Single(c)' /\ (Flying(c)' <=> Flying(c)) /\ (Named(c)' <=> Named(c))
    BY <1>1, <2>3 DEF Inv, Single, Idle, Flying, Ordered, Named
  <2>8. Recorded' /\ Submitting'
    <3>1. CASE act.cmd \in Mutating
      <4>1. /\ act.digest = marker /\ marker # NoDigest /\ conn.mutating
            /\ \A c \in Bridges : ~Flying(c)
        BY <1>1, <3>1 DEF Inv, Submitting, Calls
      <4>2. Named(b)'
        BY <1>1, <2>2, <2>3, <2>4, <2>5, <4>1 DEF Named, Ordered, Flying
      <4>3. Recorded' /\ \A c \in Bridges : Flying(c)' => c = b
        BY <2>7, <4>1, <4>2 DEF Recorded
      <4>4. conn.reply = "none"
        BY <2>2 DEF Inv, Talking
      <4>5. Submitting'
        BY <1>1, <2>0, <2>1, <4>1, <4>3, <4>4 DEF Submitting
      <4> QED
        BY <4>3, <4>5
    <3>2. CASE act.cmd \notin Mutating
      <4>1. (Flying(b)' <=> Flying(b)) /\ (Flying(b) /\ Named(b) => Named(b)')
        BY <1>1, <2>2, <2>3, <2>4, <2>5, <3>2 DEF Named, Ordered, Flying, Idle
      <4>2. Recorded'
        BY <2>7, <4>1 DEF Inv, Recorded
      <4>3. Submitting'
        BY <2>1, <3>2 DEF Submitting
      <4> QED
        BY <4>2, <4>3
    <3> QED
      BY <3>1, <3>2
  <2>9. Typed' /\ Placing'
    BY <1>1, <2>1, <2>3 DEF Inv, Typed, Placing, Dialogs, Calls
  <2>10. Talking'
    BY <1>1, <2>1, <2>2 DEF Inv, Talking
  <2> QED
    BY <2>6, <2>7, <2>8, <2>9, <2>10 DEF Inv
<1>3. CASE ~(conn.writable /\ bridge[conn.bridge].state \in {"starting", "running"})
  <2>1. /\ act' \in Acts /\ act'.at = "answered" /\ act'.cmd = act.cmd
        /\ act'.digest = act.digest
    BY <1>3, GoesTo DEF Send, Inv, Places
  <2>2. /\ conn' = [Closed(conn) EXCEPT !.reply = "error"] /\ bridge' = Dropped
    BY <1>3 DEF Send
  <2>3. /\ conn' \in Conns /\ conn'.pending = "none" /\ conn'.bridge = conn.bridge
        /\ conn'.reader = conn.reader /\ conn'.writable = FALSE /\ conn'.alive = FALSE
        /\ conn'.reply = "error"
    <3>1. /\ Closed(conn) \in Conns /\ Closed(conn).bridge = conn.bridge
          /\ Closed(conn).alive = FALSE /\ Closed(conn).writable = FALSE
          /\ Closed(conn).pending = "none" /\ Closed(conn).reader = conn.reader
      BY ClosedOf DEF Inv
    <3> QED
      BY <2>2, <3>1 DEF Conns, Kinds
  <2>4. Calm
    BY <1>1, <2>2, CalmDropped
  <2>5. Typed' /\ Placing'
    BY <1>1, <2>1, <2>3, <2>4 DEF Inv, Typed, Calm, Placing, Dialogs, Calls
  <2>6. Talking'
    BY <2>1, <2>3 DEF Inv, Talking
  <2>7. Submitting'
    BY <1>1, <2>1, <2>3, <2>4 DEF Inv, Submitting, Calm, Calls
  <2> QED
    BY <2>4, <2>5, <2>6, <2>7, Keeps
<1> QED
  BY <1>2, <1>3

LEMMA KeepsReceive ==
  ASSUME Inv, Receive
  PROVE  Inv'
<1>1. /\ act.at = "wait" /\ conn.pending = "none" /\ act.cmd # "none"
      /\ conn.reply # "none"
      /\ UNCHANGED <<app, conn, marker, bridge, run>> /\ app.up /\ app.busy
  BY DEF Receive, Inv, Placing, Calls, Talking
<1>2. Calm
  BY <1>1, CalmSame
<1>3. /\ act' \in Acts /\ act'.at = "answered" /\ act'.cmd = act.cmd
      /\ act'.digest = act.digest
  BY GoesTo DEF Receive, Inv, Places
<1>4. Typed' /\ Placing'
  BY <1>1, <1>2, <1>3 DEF Inv, Typed, Calm, Placing, Dialogs, Calls
<1>5. Talking'
  BY <1>1, <1>2, <1>3 DEF Inv, Talking, Calm
<1>6. Submitting'
  BY <1>1, <1>2, <1>3 DEF Inv, Submitting, Calm, Calls
<1> QED
  BY <1>2, <1>4, <1>5, <1>6, Keeps

(* Without a record no companion changes the disk; the record is made first. *)
LEMMA KeepsMark ==
  ASSUME Inv, Mark
  PROVE  Inv'
<1>1. /\ act.at = "mark" /\ conn.pending = "none" /\ act.digest # NoDigest
      /\ act.intent \in Mutating /\ act.cmd \notin Mutating /\ act.digest \in Plans
      /\ UNCHANGED <<app, conn, bridge, run>> /\ app.up /\ app.busy
  BY Quietly DEF Mark, Inv, Placing, Dialogs, Typed, Acts
<1>2. CASE marker # NoDigest
  <2>1. Goes("end") /\ UNCHANGED marker
    BY <1>2 DEF Mark
  <2>2. act' \in Acts /\ act'.at = "end" /\ act'.cmd = act.cmd
    BY <2>1, GoesTo DEF Inv, Places
  <2>3. Placing'
    BY <1>1, <2>2 DEF Placing, Dialogs, Calls
  <2> QED
    BY <1>1, <2>1, <2>2, <2>3, CalmSame, Turns DEF Outside, Places, Calls, Inv, Typed
<1>3. CASE marker = NoDigest
  <2>1. \A b \in Bridges : ~Flying(b)
    BY <1>3 DEF Inv, Recorded, Named
  <2>2. \A b \in Bridges : ~Flying(b)' /\ Single(b)' /\ (Idle(b)' <=> Idle(b))
    BY <1>1, <2>1 DEF Inv, Flying, Ordered, Single, Idle
  <2>3. /\ act' \in Acts /\ act'.digest = act.digest /\ act'.at \in {"end", "call"}
        /\ act'.at = "call" => act'.cmd = act.intent /\ marker' = act.digest
        /\ marker' \in Plans
    <3>1. CASE Goes("end") /\ marker' \in {NoDigest, act.digest}
      BY <1>1, <3>1, GoesTo DEF Inv, Places, Plans
    <3>2. CASE Asks(act.intent) /\ marker' = act.digest
      BY <1>1, <3>2, AsksFor DEF Inv, Requests
    <3> QED
      BY <1>3, <3>1, <3>2 DEF Mark
  <2>4. act'.at = "call" => act'.cmd # "none"
    BY <1>1, <2>3 DEF Mutating
  <2>5. Typed' /\ Placing'
    BY <1>1, <2>3, <2>4 DEF Inv, Typed, Placing, Dialogs, Calls
  <2>6. Talking'
    BY <1>1, <2>2, <2>3 DEF Inv, Talking
  <2>7. Recorded'
    BY <2>2 DEF Recorded
  <2>8. Submitting'
    BY <1>1, <2>2, <2>3 DEF Submitting, Calls
  <2> QED
    BY <2>2, <2>5, <2>6, <2>7, <2>8 DEF Inv
<1> QED
  BY <1>2, <1>3

(* The record goes only when the outcome is known.                           *)
LEMMA KeepsSettle ==
  ASSUME Inv, Settle
  PROVE  Inv'
<1>1. /\ act.at = "answered" /\ conn.pending = "none" /\ act.cmd \in Mutating
      /\ UNCHANGED <<conn, bridge, run>> /\ app.up /\ app.busy
  BY Quietly DEF Settle, Answered, Inv, Placing
<1>2. act' \in Acts /\ act'.at = "end" /\ act'.cmd = act.cmd
  BY GoesTo DEF Settle, Inv, Places
<1>3. app' \in Apps /\ app'.up /\ app'.busy
  <2>1. app' = app \/ app' = [app EXCEPT !.unknown = TRUE]
    BY DEF Settle
  <2> QED
    BY <1>1, <2>1 DEF Inv, Typed, Apps
<1>4. marker' \in {NoDigest, marker} /\ marker' \in Plans
  BY DEF Settle, Inv, Typed, Plans
<1>5. Placing'
  BY <1>2, <1>3 DEF Placing, Dialogs, Calls
<1>6. CASE marker' = marker
  BY <1>1, <1>2, <1>3, <1>5, <1>6, CalmSame, Turns DEF Outside, Places, Calls
<1>7. CASE marker' # marker
  <2>1. ~Failed \/ Rejected
    BY <1>7 DEF Settle
  <2>2. ~conn.mutating
    BY <1>1, <2>1 DEF Failed, Rejected, Inv, Talking, Submitting, Calls
  <2>3. \A b \in Bridges : ~Flying(b)
    BY <1>1, <2>2 DEF Inv, Submitting, Calls
  <2>4. \A b \in Bridges : ~Flying(b)' /\ Single(b)' /\ (Idle(b)' <=> Idle(b))
    BY <1>1, <2>3 DEF Inv, Flying, Ordered, Single, Idle
  <2>5. Typed'
    BY <1>1, <1>2, <1>3, <1>4 DEF Inv, Typed
  <2>6. Talking'
    BY <1>1, <1>2, <2>4 DEF Inv, Talking
  <2>7. Recorded' /\ Submitting'
    BY <1>2, <2>4 DEF Recorded, Submitting, Calls
  <2> QED
    BY <1>5, <2>4, <2>5, <2>6, <2>7 DEF Inv
<1> QED
  BY <1>6, <1>7

(* What is dropped or abandoned keeps its request and its task.              *)
LEMMA AbandonedOf ==
  ASSUME Inv
  PROVE  /\ Abandoned \in [Bridges -> Processes]
         /\ \A c \in Bridges : /\ Abandoned[c].input = bridge[c].input
                               /\ Abandoned[c].session = bridge[c].session
                               /\ Abandoned[c].state = bridge[c].state
                               /\ Abandoned[c].output \in {bridge[c].output, <<>>}
<1>1. CASE conn.bridge = 0
  BY <1>1 DEF Abandoned, Inv, Typed
<1>2. CASE conn.bridge # 0
  <2>1. conn.bridge \in Bridges /\ bridge[conn.bridge] \in Processes
    BY <1>2, ProcessOf DEF Inv, Typed, Conns
  <2> DEFINE m == [bridge[conn.bridge] EXCEPT !.open = FALSE, !.deaf = TRUE, !.output = <<>>]
  <2>2. /\ m \in Processes /\ m.input = bridge[conn.bridge].input /\ m.output = <<>>
        /\ m.session = bridge[conn.bridge].session /\ m.state = bridge[conn.bridge].state
    BY <2>1, Short DEF Processes
  <2>3. Abandoned = [bridge EXCEPT ![conn.bridge] = m]
    BY <1>2 DEF Abandoned
  <2> HIDE DEF m
  <2> QED
    BY <2>1, <2>2, <2>3 DEF Inv, Typed
<1> QED
  BY <1>1, <1>2

(* Another companion is started, of which nothing was asked yet.             *)
LEMMA KeepsSpawn ==
  ASSUME Inv, Spawn
  PROVE  Inv'
<1>1. /\ act.at = "spawn" /\ act.cmd \notin Mutating /\ conn.pending = "none"
      /\ app.up /\ app.busy /\ UNCHANGED <<marker, run>>
  BY Quietly DEF Spawn, Inv, Placing
<1>2. CASE Goes("end") /\ UNCHANGED <<app, conn, bridge>>
  <2>1. act' \in Acts /\ act'.at = "end" /\ act'.cmd = act.cmd
    BY <1>2, GoesTo DEF Inv, Places
  <2>2. Placing'
    BY <1>1, <1>2, <2>1 DEF Placing, Dialogs, Calls
  <2> QED
    BY <1>1, <1>2, <2>1, <2>2, CalmSame, Turns DEF Outside, Places, Calls, Inv, Typed
<1>3. CASE ~(Goes("end") /\ UNCHANGED <<app, conn, bridge>>)
  <2>1. PICK b \in Bridges :
          /\ bridge[b].state = "unborn"
          /\ bridge' = [Abandoned EXCEPT ![b].state = "starting", ![b].open = TRUE]
          /\ conn' = [bridge |-> b, current |-> TRUE, alive |-> TRUE, writable |-> TRUE,
                      mutating |-> FALSE, pending |-> "none", reply |-> "none",
                      reader |-> "reading", exited |-> FALSE]
          /\ app' = [app EXCEPT !.view = NoView, !.plan = NoDigest, !.approved = NoDigest]
          /\ Asks("probe")
    BY <1>3 DEF Spawn
  <2>2. /\ act' \in Acts /\ act'.at = "call" /\ act'.cmd = "probe"
    BY <2>1, AsksFor DEF Inv, Requests
  <2>3. app' \in Apps /\ app'.up /\ app'.busy
    BY <1>1, <2>1, Defaults DEF Inv, Typed, Apps, Plans
  <2>4. /\ conn' \in Conns /\ conn'.bridge = b /\ conn'.pending = "none" /\ conn'.alive
        /\ conn'.reader = "reading"
    BY <2>1 DEF Conns
  <2>5. /\ bridge' \in [Bridges -> Processes]
        /\ \A c \in Bridges : /\ bridge'[c].input = bridge[c].input
                              /\ bridge'[c].session = bridge[c].session
                              /\ bridge'[c].state = "unborn" => bridge[c].state = "unborn"
                              /\ bridge'[c].output \in {bridge[c].output, <<>>}
    <3> HIDE DEF Abandoned
    <3>1. bridge' \in [Bridges -> Processes] /\ bridge'[b].state = "starting"
          /\ bridge'[b].input = Abandoned[b].input /\ bridge'[b].output = Abandoned[b].output
          /\ bridge'[b].session = Abandoned[b].session
          /\ \A c \in Bridges \ {b} : bridge'[c] = Abandoned[c]
      BY <2>1, AbandonedOf DEF Processes
    <3> QED
      BY <3>1, AbandonedOf
  <2>6. \A c \in Bridges : Single(c)' /\ (Idle(c) => Idle(c)')
    BY <2>5, Emptied DEF Inv, Single, Idle
  <2>7. \A c \in Bridges : (Flying(c)' <=> Flying(c)) /\ (Named(c)' <=> Named(c))
    BY <1>1, <2>5 DEF Flying, Ordered, Named
  <2>8. Recorded'
    BY <2>7 DEF Inv, Recorded
  <2>9. Idle(b)'
    BY <2>1, <2>6 DEF Inv, Single
  <2>10. Typed' /\ Placing' /\ Submitting'
    BY <1>1, <2>2, <2>3, <2>4, <2>5
       DEF Inv, Typed, Placing, Dialogs, Calls, Submitting, Mutating
  <2>11. Talking'
    <3>1. Idle(conn.bridge)'
      BY <2>4, <2>9 DEF Idle
    <3> QED
      BY <2>2, <2>4, <3>1 DEF Talking
  <2> QED
    BY <2>6, <2>8, <2>10, <2>11 DEF Inv
<1> QED
  BY <1>2, <1>3

LEMMA AppliedTyped ==
  ASSUME Typed, NEW view \in Views
  PROVE  /\ Applied(view) \in Apps /\ Applied(view).up = app.up
         /\ Applied(view).busy = app.busy
<1> DEFINE plan == IF view.plan # NoDigest THEN view.plan ELSE app.plan
<1>1. plan \in Plans
  BY DEF Typed, Apps, Views
<1>2. Applied(view) = IF ~conn.current THEN app ELSE [app EXCEPT !.view = view, !.plan = plan]
  BY DEF Applied
<1> HIDE DEF plan
<1> QED
  BY <1>1, <1>2 DEF Typed, Apps

(* A reply ends what was asked; of a change of the disk the outcome is known. *)
LEMMA KeepsRead ==
  ASSUME Inv, Read
  PROVE  Inv'
<1>0. PICK b \in Bridges : b = conn.bridge
  BY DEF Inv, Talking, Read
<1> DEFINE s == bridge[b].output
           frame == Head(s)
           taken == frame.kind # "state" /\ conn.pending # "none"
           n == [bridge[b] EXCEPT !.output = Tail(s)]
<1>1. /\ conn.reader = "reading" /\ s # <<>> /\ UNCHANGED <<act, marker>>
      /\ bridge' = [bridge EXCEPT ![b] = n]
      /\ app' = IF frame.kind \in {"state", "result"} THEN Applied(frame.view) ELSE app
  BY <1>0 DEF Read, Output
<1>2. /\ s \in Seq(Frames) /\ frame \in Frames /\ Tail(s) \in Seq(Frames)
      /\ Quiet(s) => frame.kind = "state" /\ Quiet(Tail(s))
      /\ Once(s) => Once(Tail(s))
      /\ Once(s) /\ frame.kind # "state" => Quiet(Tail(s))
  BY <1>1, ProcessOf, TailKeeps DEF Inv
<1>3. /\ n \in Processes /\ n.input = bridge[b].input /\ n.session = bridge[b].session
      /\ n.state = bridge[b].state /\ n.output = Tail(s)
  BY <1>2, ProcessOf DEF Inv, Processes
<1>4. app' \in Apps /\ app'.up = app.up /\ app'.busy = app.busy
  <2>1. frame.view \in Views
    BY <1>2 DEF Frames
  <2>2. app' = Applied(frame.view) \/ app' = app
    BY <1>1
  <2> QED
    BY <2>1, <2>2, AppliedTyped DEF Inv, Typed
<1> HIDE DEF n
<1>5. CASE ~taken
  <2>1. UNCHANGED <<conn, run>>
    BY <1>0, <1>5 DEF Read, Output
  <2>2. Calm
    BY <1>1, <1>2, <1>3, <2>1, Staying, CalmServed
  <2> QED
    BY <1>1, <1>4, <2>1, <2>2, Waits DEF Inv, Placing
<1>6. CASE taken
  <2>1. /\ conn' = [conn EXCEPT !.pending = "none",
                      !.mutating = @ /\ conn.pending \notin Mutating,
                      !.reply = IF frame.view.phase = "awaiting" THEN "awaiting"
                                ELSE frame.kind]
        /\ run' = IF conn.pending \in Mutating THEN [run EXCEPT ![b] = NoDigest] ELSE run
    BY <1>0, <1>6 DEF Read, Output
  <2>2. /\ conn' \in Conns /\ conn'.pending = "none" /\ conn'.bridge = b
        /\ conn'.reader = conn.reader /\ conn'.alive = conn.alive
        /\ conn'.writable = conn.writable
        /\ conn.pending \in Mutating => ~conn'.mutating
    BY <1>0, <1>2, <2>1 DEF Inv, Typed, Conns, Frames
  <2>3. /\ act.at \in {"send", "wait"} /\ conn.pending = act.cmd /\ conn.alive
        /\ act.at = "send" => Idle(conn.bridge)
    BY <1>1, <1>6 DEF Inv, Talking
  <2>4. /\ ~Quiet(s) /\ Quiet(Tail(s)) /\ bridge[b].input = <<>>
        /\ bridge[b].session.active = "none"
    BY <1>2, <1>6 DEF Inv, Single
  <2>5. act.at = "wait"
    BY <1>0, <2>3, <2>4 DEF Idle
  <2>6. /\ bridge' \in [Bridges -> Processes] /\ bridge'[b] = n
        /\ \A c \in Bridges \ {b} : bridge'[c] = bridge[c]
    BY <1>1, <1>3 DEF Inv, Typed
  <2>7. /\ run' \in [Bridges -> Plans] /\ \A c \in Bridges \ {b} : run'[c] = run[c]
        /\ run'[b] # NoDigest => run'[b] = run[b] /\ conn.pending \notin Mutating
    BY <2>1 DEF Inv, Typed, Plans
  <2>8. Single(b)' /\ Idle(b)'
    BY <1>3, <2>4, <2>6, QuietIsOnce DEF Single, Idle, Inv
  <2>9. Flying(b)' => Flying(b) /\ Named(b)' /\ conn.pending \notin Mutating
    BY <1>1, <1>3, <2>4, <2>6, <2>7 DEF Inv, Recorded, Flying, Ordered, Named, Mutating
  <2>10. Calm
    BY <1>1, <2>6, <2>7, <2>8, <2>9, CalmServed DEF Served
  <2>11. Typed' /\ Placing'
    BY <1>1, <1>4, <2>2, <2>10 DEF Inv, Typed, Calm, Placing
  <2>12. Talking'
    <3>1. Idle(conn.bridge)'
      BY <2>2, <2>8 DEF Idle
    <3> QED
      BY <1>1, <2>2, <2>3, <2>5, <3>1 DEF Inv, Talking
  <2>13. Submitting'
    <3> SUFFICES ASSUME act.cmd \in Mutating
                 PROVE  Submitting'
      BY <1>1 DEF Submitting
    <3>1. \A c \in Bridges : Flying(c) => c = b
      BY <1>0, <2>5 DEF Inv, Submitting, Calls
    <3>2. \A c \in Bridges : ~Flying(c)'
      BY <2>3, <2>9, <2>10, <3>1 DEF Calm
    <3>3. act.digest = marker /\ marker # NoDigest
      BY <2>5 DEF Inv, Submitting, Calls
    <3> QED
      BY <1>1, <2>2, <2>3, <2>5, <3>2, <3>3 DEF Submitting
  <2> QED
    BY <2>10, <2>11, <2>12, <2>13, Keeps
<1> QED
  BY <1>5, <1>6

(* The connection breaks, and whoever waits on it is told.                   *)
LEMMA KeepsBreak ==
  ASSUME Inv, Break
  PROVE  Inv'
<1>1. /\ conn.reader = "reading" /\ UNCHANGED <<app, act, marker, run>>
      /\ conn' = [Closed(conn) EXCEPT !.reader = "broken"] /\ bridge' = Abandoned
  BY DEF Break
<1>2. Calm
  BY <1>1, CalmDropped
<1>3. /\ conn' \in Conns /\ conn'.bridge = conn.bridge /\ conn'.alive = FALSE
      /\ conn'.writable = FALSE /\ conn'.pending = "none"
      /\ conn'.mutating = conn.mutating /\ conn'.reader = "broken"
      /\ conn'.reply = IF conn.pending # "none" THEN "error" ELSE conn.reply
  BY <1>1, ClosedOf DEF Inv, Conns
<1>4. Typed' /\ Placing'
  BY <1>1, <1>2, <1>3 DEF Inv, Typed, Calm, Placing
<1>5. Talking'
  BY <1>1, <1>3 DEF Inv, Talking
<1>6. Submitting'
  BY <1>1, <1>2, <1>3 DEF Inv, Submitting, Calm
<1> QED
  BY <1>2, <1>4, <1>5, <1>6, Keeps

LEMMA KeepsReport ==
  ASSUME Inv, Report \/ Reap
  PROVE  Inv'
<1>1. /\ UNCHANGED <<act, marker, bridge, run>>
      /\ \/ conn.reader = "broken" /\ conn' = [conn EXCEPT !.reader = "done"]
         \/ conn' = [conn EXCEPT !.exited = TRUE]
  BY DEF Report, Reap
<1>2. /\ conn' \in Conns /\ conn'.bridge = conn.bridge /\ conn'.alive = conn.alive
      /\ conn'.writable = conn.writable /\ conn'.pending = conn.pending
      /\ conn'.mutating = conn.mutating /\ conn'.reply = conn.reply
      /\ \/ conn'.reader = conn.reader
         \/ conn.reader = "broken" /\ conn'.reader = "done"
  BY <1>1 DEF Inv, Typed, Conns
<1>3. app' \in Apps /\ app'.up = app.up /\ app'.busy = app.busy
  <2>1. \/ app' = app
        \/ app' = [app EXCEPT !.available = FALSE, !.unknown = @ \/ conn.mutating]
    BY DEF Report, Reap
  <2> QED
    BY <2>1 DEF Inv, Typed, Apps, Conns
<1>4. Calm
  BY <1>1, CalmSame
<1>5. Typed' /\ Placing'
  BY <1>1, <1>2, <1>3, <1>4 DEF Inv, Typed, Calm, Placing
<1>6. Talking'
  BY <1>1, <1>2, <1>4 DEF Inv, Talking, Calm
<1>7. Submitting'
  BY <1>1, <1>2, <1>4 DEF Inv, Submitting, Calm
<1> QED
  BY <1>4, <1>5, <1>6, <1>7, Keeps

(* The desktop dies and comes back: what it asked for goes on, and so does   *)
(* the record.                                                               *)
LEMMA KeepsCrash ==
  ASSUME Inv, Crash
  PROVE  Inv'
<1>1. /\ act' = NoAction /\ conn' = NoConn /\ bridge' = Abandoned
      /\ UNCHANGED <<marker, run>> /\ app' = [NewApp EXCEPT !.up = FALSE]
  BY DEF Crash
<1>2. Calm
  BY <1>1, CalmDropped
<1>3. app' \in Apps
  BY <1>1, Defaults DEF Apps
<1>4. /\ act' \in Acts /\ act'.at = "idle" /\ act'.cmd = "none"
  BY <1>1, Defaults DEF NoAction
<1>5. /\ conn' \in Conns /\ conn'.alive = FALSE /\ conn'.writable = FALSE
      /\ conn'.pending = "none" /\ conn'.reader = "done"
  BY <1>1, Defaults DEF NoConn
<1>6. Typed' /\ Placing' /\ Submitting'
  BY <1>1, <1>2, <1>3, <1>4, <1>5
     DEF Inv, Typed, Calm, Placing, Dialogs, Calls, Submitting, Mutating
<1>7. Talking'
  BY <1>4, <1>5 DEF Talking
<1> QED
  BY <1>2, <1>6, <1>7, Keeps

LEMMA KeepsWindow ==
  ASSUME Inv, Look \/ Launched
  PROVE  Inv'
<1>1. UNCHANGED <<act, conn, marker, bridge, run>>
  BY DEF Look, Launched
<1>2. CASE Look
  <2>1. app' \in Apps /\ app'.up = app.up /\ app'.busy = app.busy
    BY <1>2 DEF Look, Inv, Typed, Apps
  <2> QED
    BY <1>1, <2>1, CalmSame, Waits DEF Inv, Placing
<1>3. CASE Launched
  <2>1. app' \in Apps /\ act.at = "idle"
    BY <1>3, Defaults DEF Launched, Inv, Placing
  <2> QED
    BY <1>1, <2>1, CalmSame, Waits
<1> QED
  BY <1>2, <1>3

-----------------------------------------------------------------------------
(* The theorems.                                                             *)

LEMMA InvInit ==
  Init => Inv
<1> SUFFICES ASSUME Init
             PROVE  Inv
  OBVIOUS
<1>1. /\ bridge = [b \in Bridges |-> Unborn] /\ run = [b \in Bridges |-> NoDigest]
      /\ app = NewApp /\ act = NoAction /\ conn = NoConn /\ marker = NoDigest
  BY DEF Init, BridgeInit
<1>2. /\ Unborn.input = <<>> /\ Unborn.output = <<>> /\ Unborn.session.active = "none"
  BY DEF Unborn, Fresh
<1>3. Typed
  BY <1>1, Defaults DEF Typed, Plans
<1>4. \A b \in Bridges : Single(b) /\ ~Flying(b)
  BY <1>1, <1>2, Emptied DEF Single, Idle, Flying, Ordered, Mutating
<1>5. Talking
  BY <1>1 DEF Talking, NoConn, NoAction
<1>6. Recorded
  BY <1>4 DEF Recorded
<1>7. Placing /\ Submitting
  BY <1>1 DEF Placing, Submitting, NoAction, Dialogs, Calls, Mutating
<1> QED
  BY <1>3, <1>4, <1>5, <1>6, <1>7 DEF Inv

LEMMA InvNext ==
  Inv /\ [Next]_vars => Inv'
<1> SUFFICES ASSUME Inv, [Next]_vars
             PROVE  Inv'
  OBVIOUS
<1>1. CASE UNCHANGED vars
  <2>1. UNCHANGED <<app, act, conn, marker, bridge, run>>
    BY <1>1 DEF vars
  <2> QED
    BY <2>1, CalmSame, Waits DEF Inv, Typed, Placing
<1>2. CASE Companions
  BY <1>2, CompanionsKeep
<1>3. CASE Thread
  BY <1>3, KeepsClear, KeepsConnect, KeepsSpawn, KeepsCall, KeepsEnlist, KeepsSend,
     KeepsReceive, KeepsTimeOut, KeepsProbed, KeepsReplied, KeepsDialogs, KeepsMark,
     KeepsSettle, KeepsEnd DEF Thread
<1>4. CASE Reader \/ BadFrame
  BY <1>4, KeepsRead, KeepsBreak, KeepsReport DEF Reader, EndOfOutput, BadFrame
<1>5. CASE Look \/ (\E intent \in Intents : Start(intent)) \/ Reap \/ Crash \/ Launched
  BY <1>5, KeepsWindow, KeepsStart, KeepsReport, KeepsCrash
<1> QED
  BY <1>1, <1>2, <1>3, <1>4, <1>5 DEF Next, Desktop

LEMMA Always ==
  Spec => []Inv
<1>1. Init => Inv
  BY InvInit
<1>2. Inv /\ [Next]_vars => Inv'
  BY InvNext
<1> QED
  BY <1>1, <1>2, PTL DEF Spec

(* Every variable keeps to its type, and a companion is asked one thing at a *)
(* time (call, receive).                                                     *)
THEOREM AppleTypes ==
  Spec => []TypeOK
<1>1. Inv => TypeOK
  <2> SUFFICES ASSUME Inv
               PROVE  TypeOK
    OBVIOUS
  <2>1. ASSUME NEW b \in Bridges
        PROVE  /\ bridge[b].state \in {"unborn", "starting", "running", "gone"}
               /\ {bridge[b].open, bridge[b].deaf} \subseteq BOOLEAN
               /\ Len(bridge[b].input) <= 1
               /\ bridge[b].session.phase \in Phases
               /\ bridge[b].session.active \in Working \cup Mutating \cup {"none"}
               /\ {bridge[b].session.plan, bridge[b].session.approved}
                    \subseteq Digests \cup {NoDigest}
    <3>1. bridge[b] \in Processes /\ bridge[b].session \in Sessions
      BY ProcessOf DEF Inv
    <3> QED
      BY <3>1 DEF Inv, Single, Processes, Sessions, Plans
  <2>2. BridgeTypeOK
    BY <2>1 DEF BridgeTypeOK, Inv, Typed, Plans
  <2>3. /\ {app.up, app.checked, app.busy, app.unknown, app.available} \subseteq BOOLEAN
        /\ {app.plan, app.approved, act.digest, marker} \subseteq Digests \cup {NoDigest}
        /\ act.intent \in Intents \cup {"none"}
        /\ conn.bridge \in Bridges \cup {0}
        /\ conn.reader \in {"reading", "broken", "done"}
    BY DEF Inv, Typed, Apps, Acts, Conns, Plans
  <2> QED
    BY <2>2, <2>3 DEF TypeOK
<1> QED
  BY <1>1, Always, PTL

(* Whatever dies in between, native work whose outcome the desktop was never *)
(* told is on record on disk, and there is no other such work beside it      *)
(* (execute, rejected_before_submission, check_previous_operation).          *)
THEOREM AppleRecordsItsRuns ==
  Spec => []RunsAreRecorded
<1>1. Inv => RunsAreRecorded
  <2> SUFFICES ASSUME Inv
               PROVE  RunsAreRecorded
    OBVIOUS
  <2> DEFINE Open == {b \in Bridges : run[b] # NoDigest}
  <2>1. \A b \in Open : marker = run[b]
    BY DEF Inv, Recorded, Flying, Named
  <2>2. \A b, c \in Open : b = c
    BY DEF Inv, Recorded, Flying
  <2>3. Cardinality(Open) <= 1
    <3>1. CASE Open = {}
      BY <3>1, FS_EmptySet
    <3>2. ASSUME NEW b \in Open
          PROVE  Cardinality(Open) <= 1
      <4>1. Open = {b}
        BY <2>2, <3>2
      <4> QED
        BY <4>1, FS_Singleton
    <3> QED
      BY <3>1, <3>2
  <2> QED
    BY <2>1, <2>3 DEF RunsAreRecorded
<1> QED
  BY <1>1, Always, PTL
=============================================================================
