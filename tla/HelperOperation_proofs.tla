----------------------- MODULE HelperOperation_proofs -----------------------
(* What one operation of the helper keeps, for any drives, any number of     *)
(* frames, swaps and foreign boot loaders.                                   *)
EXTENDS HelperOperation, TLAPS

-----------------------------------------------------------------------------
(* The values of the variables.                                              *)

StepNames ==
  {"tools", "hold", "authenticate", "sign", "review", "recheck", "stop", "install",
   "receipt"} \cup RunSteps

Memories == [result : BOOLEAN, failure : BOOLEAN, cancelled : BOOLEAN,
             stopped : BOOLEAN, closed : BOOLEAN]

RunTyped ==
  /\ cancel \in BOOLEAN /\ mode \in Modes
  /\ loop \in {"idle", "stop", "receive", "wait", "ok", "err"}
  /\ child \in {"none", "running", "good", "bad", "killed"}
  /\ said \in Seq(Frames) /\ heard \in 0 .. Len(said)
  /\ told \subseteq {"abort", "file"}
  /\ hardStop \in BOOLEAN
  /\ got \in Memories

HelperTyped ==
  /\ build \in [windows : BOOLEAN, testing : BOOLEAN]
  /\ op \in Kinds
  /\ lease \in BOOLEAN
  /\ phase \in {"choose", "request", "steps", "finish", "records", "remove",
                "answer", "over"}
  /\ todo \in Seq(StepNames)
  /\ asked \in Questions
  /\ agreed \in BOOLEAN /\ touched \in BOOLEAN /\ complete \in BOOLEAN
  /\ records \in {"none", "pending", "published"}
  /\ files \subseteq Files
  /\ outcome \in {"none", "ok", "error"}

-----------------------------------------------------------------------------
(* The invariant.                                                            *)

(* The run: what the loop remembers is what its child said.                  *)
Heard ==
  /\ child = "running" => loop \in {"stop", "receive", "wait"}
  /\ got.closed => heard = Len(said) /\ child # "running"
  /\ ~got.failure /\ ~got.result => heard = 0
  /\ ~got.failure /\ got.result => heard = 1 /\ said[1] = "result"
  /\ told # {} => got.cancelled \/ got.failure
  /\ hardStop => mode.media
  /\ OnlyMediaIsKilled
  /\ SuccessIsWhole

(* The write: an open device that is written to is the approved drive, and   *)
(* what was read back is on it.                                              *)
Aimed ==
  /\ writer = "opened" /\ handle # NoDrive => handle = slot
  /\ writer \in {"held", "written", "verified"} /\ handle # NoDrive
       => handle = Selected
  /\ image[Other] = "user"
  /\ writer \in {"verified", "released", "told"} => image[Selected] = "installer"
  /\ mode = Write /\ child = "good" => image[Selected] = "installer"

(* The installation beside other files: what is behind a step is in place.   *)
Before == {"paths", "backup", "record", "copy", "readback", "publish", "config", "stage",
           "stop", "look", "replace"}
Recorded == {"copy", "readback", "publish", "config", "stage", "stop", "look", "replace",
             "verify", "done"}
Published == Recorded \ {"copy", "readback", "publish"}
Configured == Published \ {"config"}

Placed ==
  /\ ActivationIsSafe
  /\ step \in Before => stick.boot # "ours"
  /\ step \in {"paths", "backup"} => stick.backup = "none"
  /\ step = "record" => stick.backup = plan.boot
  /\ step \in Recorded
       => /\ stick.backup = plan.boot /\ stick.backup # Torn
          /\ stick.record \in {RecordOf(stick.backup), Torn}
  /\ step = "publish" => stick.part = "whole"
  /\ step \in Published => stick.iso = "whole"
  /\ step \in Configured => stick.config = "done"
  /\ step \in {"verify", "done"} => stick.boot \in {"ours", "foreign"}

(* The list of steps.                                                        *)
Change == Changing \cup {"write", "install"}
Has(s, x) == \E i \in 1 .. Len(s) : s[i] = x

(* Every change in list s comes after a review in it.                        *)
Guarded(s) ==
  \A i \in 1 .. Len(s) : s[i] \in Change => \E j \in 1 .. i - 1 : s[j] = "review"

(* The program a script of operation k consists of.                          *)
ScriptOf(k) ==
  CASE k = "reminder" -> "bitlocker"
    [] k = "prepare_firmware" -> "direct"
    [] OTHER -> "staged"

(* Operation k brings the programs that list s runs.                         *)
Equipped(s, k) ==
  \A i \in 1 .. Len(s) :
    /\ s[i] \in Checks \cup {"write"} => "media" \in Tools(k)
    /\ s[i] \in Reading \cup Changing => ScriptOf(k) \in Tools(k)

Lawful ==
  phase = "steps" =>
    /\ todo # <<>> /\ outcome = "none"
    /\ ~Refused
    /\ agreed \/ Guarded(todo)
    /\ Equipped(todo, op)
    /\ \A i \in 2 .. Len(todo) : todo[i] # "tools"
    /\ Head(todo) = "tools" \/ Tools(op) \subseteq files
    /\ op = "usb" => image[Selected] = "installer" \/ Has(todo, "write")
    /\ op = "usb_preserve" => step = "done" \/ Has(todo, "install")
    /\ op \in UsbKinds => "receipt" \in files \/ Has(todo, "receipt")

(* Who is busy: a run belongs to the step at the head, and so does a         *)
(* question.                                                                 *)
Busy ==
  /\ loop # "idle" => /\ phase = "steps" /\ todo # <<>> /\ asked = "none"
                      /\ Head(todo) \in RunSteps /\ mode = ModeOf(Head(todo))
  /\ asked = "review" => Now("review")
  /\ asked = "lease" => Now("authenticate") /\ lease
  /\ asked = "records" => phase = "records"

(* What holds once the steps are over.                                       *)
Ending ==
  /\ phase \in {"choose", "request", "steps"} => outcome = "none"
  /\ phase \in {"finish", "records", "remove", "answer"} => outcome # "none"
  /\ phase = "records" => op \in UsbKinds
  /\ phase = "remove" => op \notin UsbKinds \/ records = "published"
  /\ outcome = "ok" => /\ op = "usb" => image[Selected] = "installer"
                       /\ op = "usb_preserve" => step = "done"
  /\ RecordsSurvive

Inv == /\ RunTyped /\ MediaTypeOK /\ PreserveTypeOK /\ HelperTyped
       /\ Heard /\ Aimed /\ Placed /\ Lawful /\ Busy /\ Ending
       /\ OnlyApprovedIsChanged

-----------------------------------------------------------------------------
(* Lists of steps.                                                           *)

Free(s, S) == \A i \in 1 .. Len(s) : s[i] \notin S

LEMMA FreeJoin ==
  ASSUME NEW s \in Seq(StepNames), NEW t \in Seq(StepNames), NEW S,
         Free(s, S), Free(t, S)
  PROVE  s \o t \in Seq(StepNames) /\ Free(s \o t, S)
BY DEF Free

LEMMA HasJoin ==
  ASSUME NEW s \in Seq(StepNames), NEW t \in Seq(StepNames), NEW x,
         Has(s, x) \/ Has(t, x)
  PROVE  Has(s \o t, x)
<1>1. CASE Has(s, x)
  <2>1. PICK i \in 1 .. Len(s) : s[i] = x
    BY <1>1 DEF Has
  <2>2. i \in 1 .. Len(s \o t) /\ (s \o t)[i] = x
    BY <2>1
  <2> QED
    BY <2>2 DEF Has
<1>2. CASE Has(t, x)
  <2>1. PICK i \in 1 .. Len(t) : t[i] = x
    BY <1>2 DEF Has
  <2>2. Len(s) + i \in 1 .. Len(s \o t) /\ (s \o t)[Len(s) + i] = x
    BY <2>1
  <2> QED
    BY <2>2 DEF Has
<1> QED
  BY <1>1, <1>2

LEMMA GuardedFree ==
  ASSUME NEW s \in Seq(StepNames), Free(s, Change)
  PROVE  Guarded(s)
BY DEF Free, Guarded

(* What was asked for stays asked for, and allows what follows it.           *)
LEMMA GuardedJoin ==
  ASSUME NEW s \in Seq(StepNames), NEW t \in Seq(StepNames),
         Guarded(s), Has(s, "review") \/ Guarded(t)
  PROVE  Guarded(s \o t)
<1>1. /\ s \o t \in Seq(StepNames) /\ Len(s \o t) = Len(s) + Len(t)
      /\ \A i \in 1 .. Len(s) : (s \o t)[i] = s[i]
      /\ \A i \in Len(s) + 1 .. Len(s) + Len(t) : (s \o t)[i] = t[i - Len(s)]
  OBVIOUS
<1>2. SUFFICES ASSUME NEW i \in 1 .. Len(s \o t), (s \o t)[i] \in Change
               PROVE  \E j \in 1 .. i - 1 : (s \o t)[j] = "review"
  BY DEF Guarded
<1>3. CASE i \in 1 .. Len(s)
  <2>1. PICK j \in 1 .. i - 1 : s[j] = "review"
    BY <1>1, <1>2, <1>3 DEF Guarded
  <2> QED
    BY <2>1, <1>1, <1>3
<1>4. CASE i \in Len(s) + 1 .. Len(s) + Len(t)
  <2>1. CASE Has(s, "review")
    <3>1. PICK j \in 1 .. Len(s) : s[j] = "review"
      BY <2>1 DEF Has
    <3>2. j \in 1 .. i - 1 /\ (s \o t)[j] = "review"
      BY <3>1, <1>1, <1>4
    <3> QED
      BY <3>2
  <2>2. CASE Guarded(t)
    <3>1. i - Len(s) \in 1 .. Len(t) /\ t[i - Len(s)] \in Change
      BY <1>1, <1>2, <1>4
    <3>2. PICK j \in 1 .. (i - Len(s)) - 1 : t[j] = "review"
      BY <3>1, <2>2 DEF Guarded
    <3>3. Len(s) + j \in 1 .. i - 1 /\ (s \o t)[Len(s) + j] = "review"
      BY <3>2, <1>1, <1>4
    <3> QED
      BY <3>3
  <2> QED
    BY <2>1, <2>2
<1> QED
  BY <1>1, <1>3, <1>4

LEMMA EquippedJoin ==
  ASSUME NEW s \in Seq(StepNames), NEW t \in Seq(StepNames), NEW k,
         Equipped(s, k), Equipped(t, k)
  PROVE  Equipped(s \o t, k)
<1>1. /\ Len(s \o t) = Len(s) + Len(t)
      /\ \A i \in 1 .. Len(s) : (s \o t)[i] = s[i]
      /\ \A i \in Len(s) + 1 .. Len(s) + Len(t) : (s \o t)[i] = t[i - Len(s)]
      /\ \A i \in Len(s) + 1 .. Len(s) + Len(t) : i - Len(s) \in 1 .. Len(t)
  OBVIOUS
<1> QED
  BY <1>1 DEF Equipped

(* The first step is done: what the rest of the list is.                     *)
LEMMA TailOf ==
  ASSUME NEW s \in Seq(StepNames), s # <<>>
  PROVE  /\ Head(s) = s[1] /\ Head(s) \in StepNames
         /\ Tail(s) \in Seq(StepNames) /\ Len(Tail(s)) = Len(s) - 1
         /\ Len(s) \in Nat \ {0}
         /\ \A i \in 1 .. Len(s) - 1 : Tail(s)[i] = s[i + 1]
OBVIOUS

LEMMA TailHas ==
  ASSUME NEW s \in Seq(StepNames), s # <<>>, NEW x, Has(s, x), Head(s) # x
  PROVE  Has(Tail(s), x)
<1>1. PICK i \in 1 .. Len(s) : s[i] = x
  BY DEF Has
<1>2. i - 1 \in 1 .. Len(Tail(s)) /\ Tail(s)[i - 1] = x
  BY <1>1, TailOf
<1> QED
  BY <1>2 DEF Has

LEMMA TailGuarded ==
  ASSUME NEW s \in Seq(StepNames), s # <<>>, Guarded(s), Head(s) # "review"
  PROVE  Guarded(Tail(s)) /\ Head(s) \notin Change
<1>1. SUFFICES ASSUME NEW i \in 1 .. Len(Tail(s)), Tail(s)[i] \in Change
               PROVE  \E j \in 1 .. i - 1 : Tail(s)[j] = "review"
  BY TailOf DEF Guarded
<1>2. PICK j \in 1 .. (i + 1) - 1 : s[j] = "review"
  BY <1>1, TailOf DEF Guarded
<1>3. j - 1 \in 1 .. i - 1 /\ Tail(s)[j - 1] = "review"
  BY <1>1, <1>2, TailOf
<1> QED
  BY <1>3

LEMMA TailEquipped ==
  ASSUME NEW s \in Seq(StepNames), s # <<>>, NEW k, Equipped(s, k)
  PROVE  Equipped(Tail(s), k)
BY TailOf DEF Equipped

-----------------------------------------------------------------------------
(* The steps of each operation.                                              *)

(* A list without a change, and one that begins a change after a review.     *)
Mild(s) == s \in Seq(StepNames) /\ Free(s, {"tools"}) /\ Free(s, Change)

Fine(s) == s \in Seq(StepNames) /\ Free(s, {"tools"}) /\ Guarded(s)

LEMMA MildJoin ==
  ASSUME NEW s, NEW t, Mild(s), Fine(t)
  PROVE  Fine(s \o t)
<1>1. s \in Seq(StepNames) /\ t \in Seq(StepNames) /\ Guarded(s)
  BY GuardedFree DEF Mild, Fine
<1> QED
  BY <1>1, FreeJoin, GuardedJoin DEF Mild, Fine

LEMMA MildMild ==
  ASSUME NEW s, NEW t, Mild(s), Mild(t)
  PROVE  Mild(s \o t)
<1>1. s \in Seq(StepNames) /\ t \in Seq(StepNames)
  BY DEF Mild
<1> QED
  BY <1>1, FreeJoin DEF Mild

LEMMA Parts ==
  /\ Mild(<<>>) /\ Mild(<<"checkRecords">>) /\ Mild(SourceSteps)
  /\ Mild(<<"check">>) /\ Mild(<<"check", "check">>)
  /\ Fine(<<"review", "check", "checkRecords", "write", "receipt">>)
  /\ Fine(<<"checkRecords", "check", "recheck", "review", "check">>)
  /\ Fine(<<"check", "checkRecords", "receipt">>)
  /\ Mild(<<"measure">>) /\ Mild(<<"status">>) /\ Mild(<<"reclaim">>)
  /\ Fine(<<"plan", "review", "stop", "stage">>)
  /\ Fine(<<"review", "stop", "change">>) /\ Fine(<<"facts", "review", "change">>)
<1> USE DEF StepNames, RunSteps, Checks, Reading, Changing, Change
<1>1. Mild(<<>>) /\ Mild(<<"checkRecords">>) /\ Mild(<<"check">>)
  BY DEF Mild, Free
<1>2. Mild(SourceSteps) /\ Mild(<<"check", "check">>)
  BY DEF Mild, Free, SourceSteps
<1>3. Mild(<<"measure">>) /\ Mild(<<"status">>) /\ Mild(<<"reclaim">>)
  BY DEF Mild, Free
<1>4. Fine(<<"review", "check", "checkRecords", "write", "receipt">>)
  BY DEF Fine, Free, Guarded
<1>5. Fine(<<"checkRecords", "check", "recheck", "review", "check">>)
  BY DEF Fine, Free, Guarded
<1>6. Fine(<<"check", "checkRecords", "receipt">>)
  BY DEF Fine, Free, Guarded
<1>7. Fine(<<"plan", "review", "stop", "stage">>)
  BY DEF Fine, Free, Guarded
<1>8. Fine(<<"review", "stop", "change">>) /\ Fine(<<"facts", "review", "change">>)
  BY DEF Fine, Free, Guarded
<1> QED
  BY <1>1, <1>2, <1>3, <1>4, <1>5, <1>6, <1>7, <1>8

LEMMA FineJoin ==
  ASSUME NEW s, NEW t, Fine(s), t \in Seq(StepNames), Free(t, {"tools"}),
         Has(s, "review") \/ Guarded(t)
  PROVE  Fine(s \o t)
<1>1. s \in Seq(StepNames)
  BY DEF Fine
<1> QED
  BY <1>1, FreeJoin, GuardedJoin DEF Fine

LEMMA ReviewJoin ==
  ASSUME NEW s, NEW t, s \in Seq(StepNames), t \in Seq(StepNames), NEW x,
         Has(s, x) \/ Has(t, x)
  PROVE  s \o t \in Seq(StepNames) /\ Has(s \o t, x)
BY HasJoin

LEMMA SourceMild ==
  /\ Mild(SourceSteps) /\ Mild(CheckSource)
  /\ Mild(SourceSteps \o CheckSource)
BY Parts, MildMild DEF CheckSource

LEMMA UsbFine ==
  Fine(UsbSteps) /\ Has(UsbSteps, "write") /\ Has(UsbSteps, "receipt")
<1> DEFINE pre == <<"checkRecords">> \o SourceSteps \o CheckSource
           end == <<"review", "check", "checkRecords", "write", "receipt">>
<1>1. Mild(pre)
  BY Parts, SourceMild, MildMild
<1>2. Fine(end)
  BY Parts
<1>3. UsbSteps = pre \o end
  BY DEF UsbSteps
<1>4. Has(end, "write") /\ Has(end, "receipt")
  <2>1. Len(end) = 5 /\ end[4] = "write" /\ end[5] = "receipt"
    OBVIOUS
  <2>2. 4 \in 1 .. Len(end) /\ 5 \in 1 .. Len(end)
    BY <2>1
  <2> QED
    BY <2>1, <2>2 DEF Has
<1> HIDE DEF pre, end
<1>5. pre \in Seq(StepNames) /\ end \in Seq(StepNames)
  BY <1>1, <1>2 DEF Mild, Fine
<1> QED
  BY <1>1, <1>2, <1>3, <1>4, <1>5, MildJoin, HasJoin

LEMMA PreserveFine ==
  Fine(PreserveSteps) /\ Has(PreserveSteps, "install") /\ Has(PreserveSteps, "receipt")
<1> DEFINE pre == <<"checkRecords", "check", "recheck", "review", "check">>
           end == <<"check", "checkRecords", "install", "receipt">>
<1>1. Fine(pre) /\ Mild(SourceSteps)
  BY Parts
<1>2. Has(pre, "review")
  <2>1. Len(pre) = 5 /\ pre[4] = "review"
    OBVIOUS
  <2>2. 4 \in 1 .. Len(pre)
    BY <2>1
  <2> QED
    BY <2>1, <2>2 DEF Has
<1>3. end \in Seq(StepNames) /\ Free(end, {"tools"})
  BY DEF Free, StepNames, RunSteps, Checks
<1>4. Has(end, "install") /\ Has(end, "receipt")
  <2>1. Len(end) = 4 /\ end[3] = "install" /\ end[4] = "receipt"
    OBVIOUS
  <2>2. 3 \in 1 .. Len(end) /\ 4 \in 1 .. Len(end)
    BY <2>1
  <2> QED
    BY <2>1, <2>2 DEF Has
<1>5. PreserveSteps = (pre \o SourceSteps) \o end
  BY DEF PreserveSteps
<1> HIDE DEF pre, end
<1>6. pre \in Seq(StepNames) /\ SourceSteps \in Seq(StepNames)
      /\ Free(SourceSteps, {"tools"})
  BY <1>1 DEF Fine, Mild
<1>7. Fine(pre \o SourceSteps) /\ Has(pre \o SourceSteps, "review")
      /\ pre \o SourceSteps \in Seq(StepNames)
  BY <1>1, <1>2, <1>6, FineJoin, ReviewJoin
<1>8. Fine((pre \o SourceSteps) \o end)
  BY <1>3, <1>7, FineJoin
<1>9. Has((pre \o SourceSteps) \o end, "install")
      /\ Has((pre \o SourceSteps) \o end, "receipt")
  BY <1>3, <1>4, <1>7, HasJoin
<1> QED
  BY <1>5, <1>8, <1>9

LEMMA OtherFine ==
  /\ Fine(<<"check">>) /\ Fine(<<"measure">>) /\ Fine(StageSteps) /\ Fine(<<"status">>)
  /\ Fine(ReminderSteps) /\ Fine(FirmwareSteps)
  /\ \A k \in Kinds : Fine(RecordedSteps(k))
<1>1. \A s : Mild(s) => Fine(s)
  BY GuardedFree DEF Mild, Fine
<1>2. Fine(<<"check">>) /\ Fine(<<"measure">>) /\ Fine(<<"status">>)
      /\ Fine(ReminderSteps) /\ Fine(FirmwareSteps)
  BY <1>1, Parts DEF ReminderSteps, FirmwareSteps
<1>3. Fine(StageSteps)
  BY Parts, MildJoin DEF StageSteps
<1>4. ASSUME NEW k \in Kinds
      PROVE  Fine(RecordedSteps(k))
  <2>1. Mild(<<"status">> \o (IF k = "remove" THEN <<"reclaim">> ELSE <<>>))
    BY Parts, MildMild
  <2> QED
    BY <2>1, Parts, MildJoin DEF RecordedSteps
<1> QED
  BY <1>2, <1>3, <1>4

(* Operations with a drive run the media program only, the others scripts.   *)
Scripted == Reading \cup Changing
Driven == Checks \cup {"write"}

LEMMA NoScripts ==
  Free(UsbSteps, Scripted) /\ Free(PreserveSteps, Scripted) /\ Free(<<"check">>, Scripted)
<1> USE DEF Scripted, Reading, Changing
<1>1. /\ SourceSteps \in Seq(StepNames) /\ Free(SourceSteps, Scripted)
      /\ CheckSource \in Seq(StepNames) /\ Free(CheckSource, Scripted)
  <2>1. Free(SourceSteps, Scripted)
    BY DEF Free, SourceSteps
  <2>2. Free(CheckSource, Scripted)
    BY DEF Free, CheckSource
  <2> QED
    BY <2>1, <2>2, SourceMild DEF Mild
<1>2. Free(UsbSteps, Scripted)
  <2> DEFINE first == <<"checkRecords">>
             end == <<"review", "check", "checkRecords", "write", "receipt">>
  <2>1. first \in Seq(StepNames) /\ Free(first, Scripted)
    BY Parts DEF Mild, Free
  <2>2. end \in Seq(StepNames) /\ Free(end, Scripted)
    BY Parts DEF Fine, Free
  <2>3. UsbSteps = ((first \o SourceSteps) \o CheckSource) \o end
    BY DEF UsbSteps
  <2> HIDE DEF first, end, Scripted
  <2>4. first \o SourceSteps \in Seq(StepNames) /\ Free(first \o SourceSteps, Scripted)
    BY <1>1, <2>1, FreeJoin
  <2>5. /\ (first \o SourceSteps) \o CheckSource \in Seq(StepNames)
        /\ Free((first \o SourceSteps) \o CheckSource, Scripted)
    BY <1>1, <2>4, FreeJoin
  <2> QED
    BY <2>2, <2>3, <2>5, FreeJoin
<1>3. Free(PreserveSteps, Scripted)
  <2> DEFINE first == <<"checkRecords", "check", "recheck", "review", "check">>
             end == <<"check", "checkRecords", "install", "receipt">>
  <2>1. first \in Seq(StepNames) /\ Free(first, Scripted)
    BY Parts DEF Fine, Free
  <2>2. end \in Seq(StepNames) /\ Free(end, Scripted)
    BY DEF Free, StepNames, RunSteps, Checks
  <2>3. PreserveSteps = (first \o SourceSteps) \o end
    BY DEF PreserveSteps
  <2> HIDE DEF first, end, Scripted
  <2>4. first \o SourceSteps \in Seq(StepNames) /\ Free(first \o SourceSteps, Scripted)
    BY <1>1, <2>1, FreeJoin
  <2> QED
    BY <2>2, <2>3, <2>4, FreeJoin
<1>4. Free(<<"check">>, Scripted)
  BY DEF Free
<1> QED
  BY <1>2, <1>3, <1>4

LEMMA NoDrives ==
  /\ Free(<<"measure">>, Driven) /\ Free(StageSteps, Driven) /\ Free(<<"status">>, Driven)
  /\ Free(ReminderSteps, Driven) /\ Free(FirmwareSteps, Driven)
  /\ \A k \in Kinds : Free(RecordedSteps(k), Driven)
<1> USE DEF Driven, Checks
<1>1. /\ Free(<<"measure">>, Driven) /\ Free(<<"status">>, Driven)
      /\ Free(ReminderSteps, Driven) /\ Free(FirmwareSteps, Driven)
  BY DEF Free, ReminderSteps, FirmwareSteps
<1>2. Free(StageSteps, Driven)
  <2> DEFINE end == <<"plan", "review", "stop", "stage">>
  <2>1. SourceSteps \in Seq(StepNames) /\ Free(SourceSteps, Driven)
    BY Parts DEF Mild, Free, SourceSteps
  <2>2. end \in Seq(StepNames) /\ Free(end, Driven)
    BY Parts DEF Fine, Free
  <2> HIDE DEF end, Driven
  <2> QED
    BY <2>1, <2>2, FreeJoin DEF StageSteps, end
<1>3. ASSUME NEW k \in Kinds
      PROVE  Free(RecordedSteps(k), Driven)
  <2> DEFINE first == <<"status">>
             mid == IF k = "remove" THEN <<"reclaim">> ELSE <<>>
             end == <<"review", "stop", "change">>
  <2>1. first \in Seq(StepNames) /\ Free(first, Driven)
    BY Parts DEF Mild, Free
  <2>2. mid \in Seq(StepNames) /\ Free(mid, Driven)
    BY Parts DEF Mild, Free
  <2>3. end \in Seq(StepNames) /\ Free(end, Driven)
    BY Parts DEF Fine, Free
  <2>4. RecordedSteps(k) = (first \o mid) \o end
    BY DEF RecordedSteps
  <2> HIDE DEF first, mid, end, Driven
  <2>5. first \o mid \in Seq(StepNames) /\ Free(first \o mid, Driven)
    BY <2>1, <2>2, FreeJoin
  <2> QED
    BY <2>3, <2>4, <2>5, FreeJoin
<1> QED
  BY <1>1, <1>2, <1>3

LEMMA EquippedAs ==
  ASSUME NEW s \in Seq(StepNames), NEW k,
         \/ Free(s, Scripted) /\ "media" \in Tools(k)
         \/ Free(s, Driven) /\ ScriptOf(k) \in Tools(k)
  PROVE  Equipped(s, k)
BY DEF Free, Equipped, Scripted, Driven

LEMMA Joined ==
  ASSUME NEW s \in Seq(StepNames), NEW t \in Seq(StepNames)
  PROVE  /\ s \o t \in Seq(StepNames) /\ Len(s \o t) = Len(s) + Len(t)
         /\ Len(s) \in Nat /\ Len(t) \in Nat
         /\ \A i \in 1 .. Len(s) : (s \o t)[i] = s[i]
         /\ \A i \in Len(s) + 1 .. Len(s) + Len(t) : (s \o t)[i] = t[i - Len(s)]
OBVIOUS

LEMMA Prefixed ==
  ASSUME NEW s \in Seq(StepNames), NEW t \in Seq(StepNames), Len(s) = 1
  PROVE  /\ s \o t \in Seq(StepNames) /\ Len(s \o t) = 1 + Len(t)
         /\ (s \o t)[1] = s[1] /\ Len(t) \in Nat
         /\ \A i \in 2 .. 1 + Len(t) : /\ (s \o t)[i] = t[i - 1]
                                      /\ i - 1 \in 1 .. Len(t)
<1> DEFINE u == s \o t
<1>1. /\ u \in Seq(StepNames) /\ Len(u) = Len(s) + Len(t) /\ Len(t) \in Nat
      /\ \A i \in 1 .. Len(s) : u[i] = s[i]
      /\ \A i \in Len(s) + 1 .. Len(s) + Len(t) : u[i] = t[i - Len(s)]
  BY Joined
<1> HIDE DEF u
<1>2. /\ u \in Seq(StepNames) /\ Len(u) = 1 + Len(t)
      /\ u[1] = s[1] /\ Len(t) \in Nat
      /\ \A i \in 2 .. 1 + Len(t) : u[i] = t[i - 1] /\ i - 1 \in 1 .. Len(t)
  BY <1>1
<1> QED
  BY <1>2 DEF u

(* What an operation that is not refused does.                               *)
LEMMA StepsLawful ==
  ASSUME HelperTyped, ~Refused
  PROVE  LET s == Steps(op) IN
         /\ s \in Seq(StepNames) /\ s # <<>> /\ Head(s) = "tools"
         /\ \A i \in 2 .. Len(s) : s[i] # "tools"
         /\ Guarded(s) /\ Equipped(s, op)
         /\ op = "usb" => Has(s, "write")
         /\ op = "usb_preserve" => Has(s, "install")
         /\ op \in UsbKinds => Has(s, "receipt")
<1> DEFINE rest == CASE op = "usb" -> UsbSteps
                     [] op = "usb_preserve" -> PreserveSteps
                     [] op = "inspect_usb" -> <<"check">>
                     [] op = "inspect" -> <<"measure">>
                     [] op = "stage" -> StageSteps
                     [] op = "status" -> <<"status">>
                     [] op = "reminder" -> ReminderSteps
                     [] op = "prepare_firmware" -> FirmwareSteps
                     [] OTHER -> RecordedSteps(op)
           first == <<"tools">>
<1>1. Fine(rest)
  BY UsbFine, PreserveFine, OtherFine DEF HelperTyped
<1>2. \/ op \in {"usb", "usb_preserve", "inspect_usb"}
      \/ op \in {"inspect", "stage", "status", "reminder", "prepare_firmware", "arm",
                 "restart", "firmware", "again", "remove", "resume"}
  BY DEF HelperTyped, Kinds, UsbKinds, Staged, Retained, Refused
<1>3. \/ Free(rest, Scripted) /\ "media" \in Tools(op)
      \/ Free(rest, Driven) /\ ScriptOf(op) \in Tools(op)
  <2>1. CASE op \in {"usb", "usb_preserve", "inspect_usb"}
    <3>1. "media" \in Tools(op)
      BY <2>1 DEF Tools, Staged
    <3> QED
      BY <2>1, <3>1, NoScripts
  <2>2. CASE op \in {"inspect", "stage", "status", "reminder", "prepare_firmware", "arm",
                     "restart", "firmware", "again", "remove", "resume"}
    <3>1. ScriptOf(op) \in Tools(op)
      BY <2>2 DEF Tools, Staged, ScriptOf
    <3>2. Free(rest, Driven)
      BY <2>2, NoDrives DEF HelperTyped
    <3> QED
      BY <3>1, <3>2
  <2> QED
    BY <1>2, <2>1, <2>2
<1>4. /\ op = "usb" => Has(rest, "write")
      /\ op = "usb_preserve" => Has(rest, "install")
      /\ op \in UsbKinds => Has(rest, "receipt")
  BY UsbFine, PreserveFine DEF UsbKinds
<1>5. Steps(op) = first \o rest
  BY DEF Steps
<1> HIDE DEF rest
<1>6. /\ first \in Seq(StepNames) /\ Guarded(first) /\ Len(first) = 1
      /\ first[1] = "tools"
      /\ Equipped(first, op)
  BY DEF StepNames, Guarded, Change, Changing, Equipped, Checks, Reading
<1> HIDE DEF first
<1>7. rest \in Seq(StepNames) /\ Guarded(rest) /\ Free(rest, {"tools"})
      /\ Equipped(rest, op)
  BY <1>1, <1>3, EquippedAs DEF Fine
<1>8. /\ first \o rest \in Seq(StepNames) /\ Len(first \o rest) = 1 + Len(rest)
      /\ (first \o rest)[1] = "tools"
      /\ \A i \in 2 .. 1 + Len(rest) : /\ (first \o rest)[i] = rest[i - 1]
                                      /\ i - 1 \in 1 .. Len(rest)
      /\ Len(rest) \in Nat
  BY <1>6, <1>7, Prefixed
<1>9. first \o rest # <<>> /\ Head(first \o rest) = "tools"
  BY <1>8
<1>10. \A i \in 2 .. Len(first \o rest) : (first \o rest)[i] # "tools"
  BY <1>7, <1>8 DEF Free
<1>11. Guarded(first \o rest) /\ Equipped(first \o rest, op)
  BY <1>6, <1>7, GuardedJoin, EquippedJoin
<1>12. /\ op = "usb" => Has(first \o rest, "write")
       /\ op = "usb_preserve" => Has(first \o rest, "install")
       /\ op \in UsbKinds => Has(first \o rest, "receipt")
  BY <1>4, <1>6, <1>7, HasJoin
<1> QED
  BY <1>5, <1>8, <1>9, <1>10, <1>11, <1>12

-----------------------------------------------------------------------------
(* The run.                                                                  *)

LEMMA ModesAre ==
  /\ List.media /\ Write.media /\ ~Paced.media /\ ~Quiet.media
  /\ \A m \in Modes : m.abort /\ ~m.file => m.media
  /\ \A m \in Modes : m.media \in BOOLEAN /\ m.abort \in BOOLEAN /\ m.file \in BOOLEAN
  /\ {List, Write, Paced, Quiet} \subseteq Modes
  /\ Write \notin {List, Paced, Quiet}
BY DEF Modes, List, Write, Paced, Quiet

LEMMA NothingTyped == Nothing \in Memories
BY DEF Nothing, Memories

LEMMA NothingSaid == <<>> \in Seq(Frames) /\ 0 \in 0 .. Len(<<>>)
OBVIOUS

LEMMA HeardSpawn ==
  ASSUME RunTyped, Heard, NEW m \in Modes, Spawn(m), UNCHANGED cancel
  PROVE  /\ RunTyped' /\ Heard' /\ mode' = m
         /\ loop' \in {"stop", "err"} /\ child' \in {"running", "none"}
<1>1. [Nothing EXCEPT !.failure = TRUE] \in Memories
      /\ [Nothing EXCEPT !.failure = FALSE] \in Memories
      /\ \A b \in BOOLEAN : /\ ~[Nothing EXCEPT !.failure = b].closed
                            /\ ~[Nothing EXCEPT !.failure = b].result
      /\ ~Nothing.closed /\ ~Nothing.result
  BY DEF Nothing, Memories
<1>2. got' \in Memories /\ ~got'.closed /\ ~got'.result
  BY <1>1, NothingTyped DEF Spawn
<1>3. /\ mode' = m /\ loop' \in {"stop", "err"} /\ child' \in {"running", "none"}
      /\ said' = <<>> /\ heard' = 0 /\ told' = {} /\ hardStop' = FALSE
      /\ child' = "running" => loop' = "stop"
  BY DEF Spawn
<1>4. RunTyped'
  BY <1>2, <1>3, NothingSaid DEF RunTyped
<1>5. Heard'
  BY <1>2, <1>3 DEF Heard, OnlyMediaIsKilled, SuccessIsWhole
<1> QED
  BY <1>3, <1>4, <1>5

LEMMA HeardEnd ==
  ASSUME RunTyped, UNCHANGED <<cancel, mode>>, loop' = "idle", child' = "none",
         said' = <<>>, heard' = 0, told' = {}, hardStop' = FALSE, got' = Nothing
  PROVE  RunTyped' /\ Heard'
<1>1. ~Nothing.closed /\ ~Nothing.result
  BY DEF Nothing
<1>2. RunTyped'
  BY NothingTyped, NothingSaid DEF RunTyped
<1> QED
  BY <1>1, <1>2 DEF Heard, OnlyMediaIsKilled, SuccessIsWhole

LEMMA HeardLookForStop ==
  ASSUME RunTyped, Heard, LookForStop, UNCHANGED cancel
  PROVE  RunTyped' /\ Heard' /\ loop' = "receive" /\ UNCHANGED <<mode, child, said>>
<1>1. /\ loop = "stop" /\ loop' = "receive" /\ UNCHANGED <<mode, child, said, heard>>
  BY DEF LookForStop
<1>2. CASE UNCHANGED <<told, hardStop, got>>
  <2>1. RunTyped'
    BY <1>1, <1>2 DEF RunTyped
  <2> QED
    BY <1>1, <1>2, <2>1 DEF Heard, OnlyMediaIsKilled, SuccessIsWhole
<1>3. CASE StopDue /\ mode.file
  <2>1. PICK made \in BOOLEAN :
          /\ told' = IF made THEN told \cup {"file"} ELSE told
          /\ got' = [got EXCEPT !.stopped = TRUE, !.cancelled = @ \/ UserStop,
                                !.failure = @ \/ ~made]
          /\ UNCHANGED hardStop
    BY <1>3 DEF LookForStop
  <2>2. /\ got' \in Memories /\ got'.closed = got.closed /\ got'.result = got.result
        /\ got'.cancelled = (got.cancelled \/ UserStop)
        /\ got'.failure = (got.failure \/ ~made)
    BY <2>1, ModesAre DEF RunTyped, Memories, UserStop
  <2>3. got'.cancelled \/ got'.failure
    BY <1>3, <2>2 DEF StopDue
  <2>4. RunTyped'
    BY <1>1, <2>1, <2>2 DEF RunTyped
  <2> QED
    BY <1>1, <2>1, <2>2, <2>3, <2>4 DEF Heard, OnlyMediaIsKilled, SuccessIsWhole, RunTyped
<1>4. CASE StopDue /\ ~mode.file
  <2>1. CASE UNCHANGED <<told, hardStop, got>>
    BY <1>2, <2>1
  <2>2. CASE /\ told' = told \cup {"abort"} /\ hardStop' = TRUE
             /\ got' = [got EXCEPT !.stopped = TRUE, !.cancelled = @ \/ UserStop]
    <3>1. /\ got' \in Memories /\ got'.closed = got.closed /\ got'.result = got.result
          /\ got'.cancelled = (got.cancelled \/ UserStop)
          /\ got'.failure = got.failure
      BY <2>2, ModesAre DEF RunTyped, Memories, UserStop
    <3>2. got'.cancelled \/ got'.failure
      BY <1>4, <3>1 DEF StopDue
    <3>3. mode.media
      BY <1>4, ModesAre DEF StopDue, UserStop, RunTyped
    <3>4. RunTyped'
      BY <1>1, <2>2, <3>1 DEF RunTyped
    <3> QED
      BY <1>1, <2>2, <3>1, <3>2, <3>3, <3>4
         DEF Heard, OnlyMediaIsKilled, SuccessIsWhole, RunTyped
  <2> QED
    BY <1>4, <2>1, <2>2 DEF LookForStop
<1> QED
  BY <1>1, <1>2, <1>3, <1>4 DEF LookForStop

LEMMA HeardHear ==
  ASSUME RunTyped, Heard, Hear, UNCHANGED cancel
  PROVE  RunTyped' /\ Heard' /\ loop' \in {"wait", "stop"} /\ UNCHANGED <<mode, child, said>>
<1> DEFINE f == said[heard + 1]
           first == f = "result" /\ ~got.result
<1>1. /\ loop = "receive" /\ ~got.closed /\ heard < Len(said) /\ heard' = heard + 1
      /\ got' = IF first THEN [got EXCEPT !.result = TRUE] ELSE [got EXCEPT !.failure = TRUE]
      /\ loop' \in {"wait", "stop"} /\ UNCHANGED <<mode, child, said, told, hardStop>>
  BY DEF Hear
<1>2. /\ got' \in Memories /\ got'.closed = got.closed /\ got'.cancelled = got.cancelled
      /\ got'.result = (got.result \/ first) /\ got'.failure = (got.failure \/ ~first)
  BY <1>1 DEF RunTyped, Memories
<1>3. heard' \in 0 .. Len(said)
  BY <1>1 DEF RunTyped
<1>4. RunTyped'
  BY <1>1, <1>2, <1>3 DEF RunTyped
<1>5. ~got'.failure => got'.result /\ heard' = 1 /\ said'[1] = "result"
  BY <1>1, <1>2 DEF Heard
<1> HIDE DEF first
<1> QED
  BY <1>1, <1>2, <1>4, <1>5 DEF Heard, OnlyMediaIsKilled, SuccessIsWhole

LEMMA HeardNothing ==
  ASSUME RunTyped, Heard, HearNothing, UNCHANGED cancel
  PROVE  RunTyped' /\ Heard' /\ loop' = "wait" /\ UNCHANGED <<mode, child, said>>
BY DEF RunTyped, Heard, HearNothing, OnlyMediaIsKilled, SuccessIsWhole

LEMMA HeardHearEnd ==
  ASSUME RunTyped, Heard, HearEnd, UNCHANGED cancel
  PROVE  RunTyped' /\ Heard' /\ loop' = "wait" /\ UNCHANGED <<mode, child, said>>
<1>1. /\ got' \in Memories /\ got'.closed /\ got'.cancelled = got.cancelled
      /\ got'.result = got.result /\ got'.failure = got.failure
  BY DEF HearEnd, RunTyped, Memories
<1>2. RunTyped'
  BY <1>1 DEF RunTyped, HearEnd
<1> QED
  BY <1>1, <1>2 DEF Heard, HearEnd, OnlyMediaIsKilled, SuccessIsWhole

LEMMA HeardTryWait ==
  ASSUME RunTyped, Heard, TryWait, UNCHANGED cancel
  PROVE  /\ RunTyped' /\ Heard' /\ loop' \in {"ok", "err", "stop"}
         /\ loop' \in {"ok", "err"} => child # "running"
         /\ UNCHANGED <<mode, child, said>>
<1>1. /\ loop = "wait" /\ UNCHANGED <<mode, child, said, heard, told, hardStop, got>>
      /\ loop' \in {"ok", "err", "stop"} /\ (loop' \in {"ok", "err"} => child # "running")
      /\ loop' = "ok" => Accepted /\ got.closed
  BY DEF TryWait
<1>2. RunTyped'
  BY <1>1 DEF RunTyped
<1>3. loop' = "ok" => child = "good" /\ said = <<"result">> /\ heard = Len(said) /\ told = {}
  <2> SUFFICES ASSUME loop' = "ok"
               PROVE  child = "good" /\ said = <<"result">> /\ heard = Len(said) /\ told = {}
    OBVIOUS
  <2>1. /\ ~got.failure /\ ~got.cancelled /\ child = "good" /\ got.result /\ got.closed
    BY <1>1 DEF Accepted
  <2>2. heard = 1 /\ heard = Len(said) /\ said[1] = "result" /\ told = {}
    BY <2>1 DEF Heard
  <2>3. said = <<"result">>
    BY <2>2 DEF RunTyped
  <2> QED
    BY <2>1, <2>2, <2>3
<1> QED
  BY <1>1, <1>2, <1>3 DEF Heard, OnlyMediaIsKilled, SuccessIsWhole

LEMMA HeardFails ==
  ASSUME RunTyped, Heard, TryWaitFails, UNCHANGED cancel
  PROVE  RunTyped' /\ Heard' /\ loop' = "stop" /\ child' \in {"running", "killed"}
         /\ UNCHANGED <<mode, said>>
<1>1. /\ got' \in Memories /\ got'.closed = got.closed /\ got'.failure
  BY DEF TryWaitFails, RunTyped, Memories
<1>2. /\ loop' = "stop" /\ child = "running" /\ UNCHANGED <<mode, said, heard, told, hardStop>>
      /\ child' \in {"running", "killed"} /\ (child' = "killed" => mode.media)
  BY DEF TryWaitFails, Killed
<1>3. RunTyped'
  BY <1>1, <1>2 DEF RunTyped
<1> QED
  BY <1>1, <1>2, <1>3 DEF Heard, OnlyMediaIsKilled, SuccessIsWhole

LEMMA HeardHardStop ==
  ASSUME RunTyped, Heard, HardStop, UNCHANGED cancel
  PROVE  RunTyped' /\ Heard' /\ loop' = "stop" /\ child' \in {child, "killed"}
         /\ UNCHANGED <<mode, said>>
<1>1. /\ loop = "stop" /\ hardStop /\ hardStop' = FALSE
      /\ child' \in {child, "killed"} /\ child' # "running"
      /\ UNCHANGED <<mode, loop, said, heard, told, got>>
  BY DEF HardStop, Killed
<1>2. RunTyped'
  BY <1>1 DEF RunTyped
<1> QED
  BY <1>1, <1>2 DEF Heard, OnlyMediaIsKilled, SuccessIsWhole

(* The child says one thing more.                                            *)
LEMMA HeardSays ==
  ASSUME RunTyped, Heard, NEW f \in Frames, child = "running", said' = Append(said, f),
         child' \in {"running", "bad"},
         UNCHANGED <<cancel, mode, loop, heard, told, hardStop, got>>
  PROVE  RunTyped' /\ Heard'
<1>1. /\ said' \in Seq(Frames) /\ Len(said') = Len(said) + 1
      /\ \A i \in 1 .. Len(said) : said'[i] = said[i]
  BY DEF RunTyped
<1>2. heard \in 0 .. Len(said')
  BY <1>1 DEF RunTyped
<1>3. RunTyped'
  BY <1>1, <1>2 DEF RunTyped
<1>4. ~got.failure /\ got.result => said'[1] = "result"
  <2> SUFFICES ASSUME ~got.failure, got.result
               PROVE  said'[1] = "result"
    OBVIOUS
  <2>1. heard = 1 /\ said[1] = "result"
    BY DEF Heard
  <2>2. 1 \in 1 .. Len(said)
    BY <2>1 DEF RunTyped
  <2> QED
    BY <1>1, <2>1, <2>2
<1>5. ~got.closed /\ loop \in {"stop", "receive", "wait"}
  BY DEF Heard
<1> QED
  BY <1>3, <1>4, <1>5 DEF Heard, OnlyMediaIsKilled, SuccessIsWhole

(* The child ends.                                                           *)
LEMMA HeardEnds ==
  ASSUME RunTyped, Heard, child = "running", child' \in {"good", "bad"},
         UNCHANGED <<cancel, mode, loop, said, heard, told, hardStop, got>>
  PROVE  RunTyped' /\ Heard'
<1>1. RunTyped'
  BY DEF RunTyped
<1>2. ~got.closed /\ loop \in {"stop", "receive", "wait"}
  BY DEF Heard
<1> QED
  BY <1>1, <1>2 DEF Heard, OnlyMediaIsKilled, SuccessIsWhole

-----------------------------------------------------------------------------
(* Steps of a run: the loop's, the child's, the writer's.                    *)

LEMMA AnyRun ==
  ASSUME Inv
  PROVE  /\ RunTyped /\ MediaTypeOK /\ PreserveTypeOK /\ HelperTyped
         /\ Heard /\ Aimed /\ Placed /\ Lawful /\ Busy /\ Ending /\ OnlyApprovedIsChanged
BY DEF Inv

(* The writer runs at the step that writes, which the user agreed to.        *)
LEMMA WritingIs ==
  ASSUME Inv, Writing
  PROVE  /\ loop \in {"stop", "receive", "wait"} /\ phase = "steps" /\ todo # <<>>
         /\ Head(todo) = "write" /\ agreed
<1>1. loop \in {"stop", "receive", "wait"}
  BY DEF Inv, Heard, Writing
<1>2. /\ phase = "steps" /\ todo # <<>> /\ Head(todo) \in RunSteps
      /\ mode = ModeOf(Head(todo)) /\ mode = Write
  BY <1>1 DEF Inv, Busy, Writing
<1>3. Head(todo) = "write"
  BY <1>2, ModesAre DEF ModeOf
<1>4. todo \in Seq(StepNames) /\ (agreed \/ Guarded(todo))
  BY <1>2 DEF Inv, HelperTyped, Lawful
<1>5. agreed
  BY <1>2, <1>3, <1>4, TailGuarded DEF Change
<1> QED
  BY <1>1, <1>2, <1>3, <1>5

LEMMA KeepsWorks ==
  ASSUME Inv, loop # "idle", loop' # "idle", RunTyped', MediaTypeOK', Heard', Aimed',
         UNCHANGED <<mode, preserveVars, helperVars>>,
         image' = image \/ (Head(todo) = "write" /\ agreed)
  PROVE  Inv'
<1>1. PreserveTypeOK' /\ HelperTyped' /\ Placed' /\ RunTyped' /\ MediaTypeOK'
  BY DEF Inv, PreserveTypeOK, HelperTyped, Placed, ActivationIsSafe, preserveVars, helperVars
<1>2. phase = "steps" /\ todo # <<>>
  BY DEF Inv, Busy
<1>3. Has(todo, "write") \/ image' = image
  <2>1. Len(todo) \in Nat /\ 1 \in 1 .. Len(todo) /\ todo[1] = Head(todo)
    BY <1>2, TailOf DEF Inv, HelperTyped
  <2> QED
    BY <2>1 DEF Has
<1>4. Lawful'
  BY <1>3 DEF Inv, Lawful, Refused, helperVars, preserveVars
<1>5. Busy'
  BY DEF Inv, Busy, Now, helperVars, preserveVars
<1>6. Ending'
  BY <1>2 DEF Inv, Ending, Lawful, RecordsSurvive, helperVars, preserveVars
<1>7. OnlyApprovedIsChanged'
  BY DEF Inv, OnlyApprovedIsChanged, Aimed, helperVars, preserveVars
<1> QED
  BY <1>1, <1>4, <1>5, <1>6, <1>7 DEF Inv

(* The media do not move.                                                    *)
LEMMA MediaStill ==
  ASSUME Inv, UNCHANGED <<mode, slot, swaps, image, writer, handle>>,
         report' \in Drives \cup {NoDrive}, child' = "good" => child = "good" \/ mode # Write
  PROVE  MediaTypeOK' /\ Aimed'
<1>1. MediaTypeOK'
  BY DEF Inv, MediaTypeOK
<1> QED
  BY <1>1 DEF Inv, Aimed

LEMMA KeepsLoop ==
  ASSUME Inv, LoopRuns \/ Kill \/ ObservationFails
  PROVE  Inv'
<1>1. /\ UNCHANGED <<cancel, mediaVars, preserveVars, helperVars>>
      /\ \/ LookForStop \/ Hear \/ HearNothing \/ HearEnd \/ TryWait
         \/ HardStop \/ TryWaitFails
  BY DEF LoopRuns, LoopStep, Kill, ObservationFails
<1>2. RunTyped /\ Heard /\ UNCHANGED cancel
  BY <1>1, AnyRun
<1>3. /\ RunTyped' /\ Heard' /\ loop' # "idle" /\ mode' = mode
      /\ child' = "good" => child = "good"
  BY <1>1, <1>2, HeardLookForStop, HeardHear, HeardNothing, HeardHearEnd, HeardTryWait,
     HeardHardStop, HeardFails
<1>4. loop # "idle"
  BY <1>1 DEF LookForStop, Hear, HearNothing, HearEnd, TryWait, HardStop, TryWaitFails
<1>5. MediaTypeOK' /\ Aimed'
  BY <1>1, <1>3, MediaStill, AnyRun DEF mediaVars, MediaTypeOK
<1> QED
  BY <1>1, <1>3, <1>4, <1>5, KeepsWorks DEF mediaVars

LEMMA KeepsScript ==
  ASSUME Inv, ScriptSays \/ ScriptEnds
  PROVE  Inv'
<1>1. /\ UNCHANGED <<cancel, mediaVars, preserveVars, helperVars>>
      /\ child = "running" /\ mode # Write /\ UNCHANGED <<mode, loop>>
  BY DEF ScriptSays, ScriptEnds, Script, Says, Ends
<1>2. RunTyped' /\ Heard'
  <2>1. CASE ScriptSays
    <3>1. PICK f \in Frames : Says(f)
      BY <2>1 DEF ScriptSays, Frames
    <3> QED
      BY <1>1, <3>1, AnyRun, HeardSays DEF Says
  <2>2. CASE ScriptEnds
    BY <1>1, <2>2, AnyRun, HeardEnds DEF ScriptEnds, Ends
  <2> QED
    BY <2>1, <2>2
<1>3. loop # "idle"
  BY <1>1, AnyRun DEF Heard
<1>4. MediaTypeOK' /\ Aimed'
  BY <1>1, MediaStill, AnyRun DEF mediaVars, MediaTypeOK
<1> QED
  BY <1>1, <1>2, <1>3, <1>4, KeepsWorks DEF mediaVars

LEMMA KeepsList ==
  ASSUME Inv, ListAnswers
  PROVE  Inv'
<1>1. /\ UNCHANGED <<cancel, preserveVars, helperVars, slot, swaps, image, writer, handle>>
      /\ child = "running" /\ report' = slot /\ Says("result") /\ UNCHANGED <<mode, loop, child>>
  BY DEF ListAnswers, AnswerList, Says
<1>2. RunTyped' /\ Heard'
  <2>1. "result" \in Frames
    BY DEF Frames
  <2> QED
    BY <1>1, <2>1, AnyRun, HeardSays DEF Says
<1>3. loop # "idle"
  BY <1>1, AnyRun DEF Heard
<1>4. MediaTypeOK' /\ Aimed'
  BY <1>1, MediaStill, AnyRun DEF MediaTypeOK
<1> QED
  BY <1>1, <1>2, <1>3, <1>4, KeepsWorks

(* The writer moves without saying or ending anything.                       *)
LEMMA WriterMoves ==
  ASSUME Inv, Writing, UNCHANGED <<cancel, runVars, preserveVars, helperVars>>,
         MediaTypeOK', Aimed'
  PROVE  Inv'
<1>1. RunTyped' /\ Heard'
  BY DEF Inv, RunTyped, Heard, OnlyMediaIsKilled, SuccessIsWhole, runVars
<1>2. loop # "idle" /\ loop' # "idle" /\ mode' = mode /\ Head(todo) = "write" /\ agreed
  BY WritingIs DEF runVars
<1> QED
  BY <1>1, <1>2, KeepsWorks

LEMMA KeepsWriting ==
  ASSUME Inv, UNCHANGED <<cancel, preserveVars, helperVars>>,
         Begin \/ LockVolumes \/ OpenDevice \/ HoldDevice \/ Put \/ ReadBack \/ Release
  PROVE  Inv'
<1>1. Writing /\ UNCHANGED runVars /\ child = "running" /\ UNCHANGED <<mode, child>>
  BY DEF Begin, LockVolumes, OpenDevice, HoldDevice, Put, ReadBack, Release, Writing,
         runVars
<1>2. MediaTypeOK /\ Aimed
  BY AnyRun
<1>3. CASE Begin \/ LockVolumes
  <2>1. /\ writer' \in {"checked", "locked"} /\ UNCHANGED <<slot, swaps, image, handle, report>>
    BY <1>3 DEF Begin, LockVolumes
  <2>2. MediaTypeOK'
    BY <1>2, <2>1 DEF MediaTypeOK, Phases
  <2>3. Aimed'
    BY <1>1, <1>2, <2>1 DEF Aimed
  <2> QED
    BY <1>1, <2>2, <2>3, WriterMoves
<1>4. CASE OpenDevice
  <2>1. writer' = "opened" /\ handle' = slot /\ UNCHANGED <<slot, swaps, image, report>>
    BY <1>4 DEF OpenDevice
  <2>2. MediaTypeOK'
    BY <1>2, <2>1 DEF MediaTypeOK, Phases
  <2>3. Aimed'
    BY <1>1, <1>2, <2>1 DEF Aimed
  <2> QED
    BY <1>1, <2>2, <2>3, WriterMoves
<1>5. CASE HoldDevice
  <2>1. /\ writer = "opened" /\ handle # NoDrive /\ slot = Selected
        /\ writer' = "held" /\ UNCHANGED <<slot, swaps, image, handle, report>>
    BY <1>5 DEF HoldDevice, Reidentified
  <2>2. MediaTypeOK'
    BY <1>2, <2>1 DEF MediaTypeOK, Phases
  <2>3. Aimed'
    BY <1>1, <1>2, <2>1 DEF Aimed
  <2> QED
    BY <1>1, <2>2, <2>3, WriterMoves
<1>6. CASE Put \/ ReadBack
  <2>1. /\ handle = Selected /\ Selected \in Drives /\ Other \in Drives
        /\ image \in [Drives -> {"user", "partial", "installer"}]
    BY <1>2, <1>6 DEF Put, ReadBack, Aimed, Drives, MediaTypeOK
  <2>2. PICK v \in {"partial", "installer"} :
          /\ image' = [image EXCEPT ![Selected] = v]
          /\ writer' = IF v = "partial" THEN "written" ELSE "verified"
          /\ UNCHANGED <<slot, swaps, handle, report>>
    BY <1>6, <2>1 DEF Put, ReadBack
  <2>3. /\ image' \in [Drives -> {"user", "partial", "installer"}]
        /\ image'[Selected] = v /\ image'[Other] = image[Other]
    BY <2>1, <2>2, DrivesAssumption
  <2>4. MediaTypeOK'
    BY <1>2, <2>2, <2>3 DEF MediaTypeOK, Phases
  <2>5. Aimed'
    BY <1>1, <1>2, <2>1, <2>2, <2>3 DEF Aimed
  <2> QED
    BY <1>1, <2>4, <2>5, WriterMoves
<1>7. CASE Release
  <2>1. /\ writer = "verified" /\ writer' = "released" /\ handle' = NoDrive
        /\ UNCHANGED <<slot, swaps, image, report>>
    BY <1>7 DEF Release
  <2>2. MediaTypeOK'
    BY <1>2, <2>1 DEF MediaTypeOK, Phases
  <2>3. Aimed'
    BY <1>1, <1>2, <2>1 DEF Aimed
  <2> QED
    BY <1>1, <2>2, <2>3, WriterMoves
<1> QED
  BY <1>3, <1>4, <1>5, <1>6, <1>7

(* The writer says its last word, or ends.                                   *)
LEMMA KeepsTelling ==
  ASSUME Inv, UNCHANGED <<cancel, preserveVars, helperVars>>,
         Receipt \/ Exit \/ WriteFails \/ Aborted
  PROVE  Inv'
<1>1. /\ Writing /\ child = "running" /\ mode = Write
      /\ UNCHANGED <<mode, loop, heard, told, hardStop, got, slot, swaps, image>>
  BY DEF Receipt, Exit, WriteFails, Aborted, Fail, Writing, Says
<1>2. RunTyped /\ Heard /\ MediaTypeOK /\ Aimed
  BY AnyRun
<1>3. loop # "idle" /\ loop' # "idle"
  BY <1>1, WritingIs
<1>4. "result" \in Frames /\ "error" \in Frames
  BY DEF Frames
<1>5. CASE Receipt
  <2>1. /\ writer = "released" /\ writer' = "told" /\ report' = Selected
        /\ Says("result") /\ UNCHANGED <<child, handle>>
    BY <1>5 DEF Receipt, Says
  <2>2. RunTyped' /\ Heard'
    BY <1>1, <1>2, <1>4, <2>1, HeardSays DEF Says
  <2>3. MediaTypeOK'
    BY <1>1, <1>2, <2>1 DEF MediaTypeOK, Phases, Drives
  <2>4. Aimed'
    BY <1>1, <1>2, <2>1 DEF Aimed
  <2> QED
    BY <1>1, <1>3, <2>2, <2>3, <2>4, KeepsWorks
<1>6. CASE Exit
  <2>1. /\ writer = "told" /\ writer' = "off" /\ child' = "good"
        /\ UNCHANGED <<said, handle, report>>
    BY <1>6 DEF Exit
  <2>2. RunTyped' /\ Heard'
    BY <1>1, <1>2, <2>1, HeardEnds
  <2>3. MediaTypeOK'
    BY <1>1, <1>2, <2>1 DEF MediaTypeOK, Phases
  <2>4. Aimed'
    BY <1>1, <1>2, <2>1 DEF Aimed
  <2> QED
    BY <1>1, <1>3, <2>2, <2>3, <2>4, KeepsWorks
<1>7. CASE WriteFails \/ Aborted
  <2>1. /\ child' = "bad" /\ writer' = "off" /\ handle' = NoDrive /\ UNCHANGED report
        /\ said' = said \/ said' = Append(said, "error")
    BY <1>7 DEF WriteFails, Aborted, Fail
  <2>2. RunTyped' /\ Heard'
    BY <1>1, <1>2, <1>4, <2>1, HeardEnds, HeardSays
  <2>3. MediaTypeOK'
    BY <1>1, <1>2, <2>1 DEF MediaTypeOK, Phases
  <2>4. Aimed'
    BY <1>1, <1>2, <2>1 DEF Aimed
  <2> QED
    BY <1>1, <1>3, <2>2, <2>3, <2>4, KeepsWorks
<1> QED
  BY <1>5, <1>6, <1>7

LEMMA KeepsWriter ==
  ASSUME Inv, WriterRuns
  PROVE  Inv'
BY KeepsWriting, KeepsTelling DEF WriterRuns, WriterStep

-----------------------------------------------------------------------------
(* The installation.                                                         *)

LEMMA KeepsInstalled ==
  ASSUME Inv, Now("install"), UNCHANGED <<cancel, runVars, mediaVars, helperVars>>,
         PreserveTypeOK', Placed'
  PROVE  Inv'
<1>1. RunTyped' /\ MediaTypeOK' /\ HelperTyped' /\ Heard' /\ Aimed'
  BY DEF Inv, RunTyped, MediaTypeOK, HelperTyped, Heard, OnlyMediaIsKilled, SuccessIsWhole,
         Aimed, runVars, mediaVars, helperVars
<1>2. /\ phase = "steps" /\ todo # <<>> /\ Head(todo) = "install" /\ todo \in Seq(StepNames)
      /\ agreed \/ Guarded(todo)
  BY DEF Inv, HelperTyped, Lawful, Now
<1>3. agreed
  BY <1>2, TailGuarded DEF Change
<1>4. Has(todo, "install")
  <2>1. Len(todo) \in Nat /\ 1 \in 1 .. Len(todo) /\ todo[1] = "install"
    BY <1>2, TailOf
  <2> QED
    BY <2>1 DEF Has
<1>5. Lawful'
  BY <1>4 DEF Inv, Lawful, Refused, helperVars, mediaVars
<1>6. Busy'
  BY DEF Inv, Busy, Now, helperVars, runVars
<1>7. Ending'
  BY <1>2 DEF Inv, Ending, Lawful, RecordsSurvive, helperVars, mediaVars
<1>8. OnlyApprovedIsChanged'
  BY <1>3 DEF Inv, OnlyApprovedIsChanged, helperVars, mediaVars
<1> QED
  BY <1>1, <1>5, <1>6, <1>7, <1>8 DEF Inv

LEMMA NamesAre ==
  /\ \A l \in Loaders : RecordOf(l) \in Named /\ RecordOf(l) \notin {NoRecord, Torn}
  /\ \A l, m \in Loaders : RecordOf(l) = RecordOf(m) => l = m
  /\ Torn \notin Loaders /\ "none" \in Loaders
BY DEF RecordOf, Named, Loaders, NoRecord, Torn

(* An installation that stops leaves the drive as it is.                     *)
LEMMA FailsKeeps ==
  ASSUME PreserveTypeOK, Placed, Fails
  PROVE  PreserveTypeOK' /\ Placed'
BY DEF PreserveTypeOK, Placed, Fails, ActivationIsSafe, InstallSteps, Before, Recorded,
       Published, Configured

(* A step that only looks.                                                   *)
LEMMA LooksKeeps ==
  ASSUME PreserveTypeOK, Placed, UNCHANGED <<stick, plan, foreign>>,
         \/ At("backup") /\ plan.boot = "none" /\ step' = "record"
         \/ At("paths") /\ step' = "backup"
         \/ At("readback") /\ stick.part = "whole" /\ step' = "publish"
         \/ At("stop") /\ step' = "look"
         \/ At("look") /\ step' = "replace"
         \/ At("verify") /\ stick.boot = "ours" /\ step' = "done"
  PROVE  PreserveTypeOK' /\ Placed'
<1>1. PreserveTypeOK'
  BY DEF PreserveTypeOK, InstallSteps
<1> QED
  BY <1>1 DEF Placed, ActivationIsSafe, At, Before, Recorded, Published, Configured

LEMMA RecheckKeeps ==
  ASSUME PreserveTypeOK, Placed, Recheck
  PROVE  PreserveTypeOK' /\ Placed'
<1>1. CASE Fails
  BY <1>1, FailsKeeps
<1>2. CASE Rechecked /\ Addable /\ Goes("paths") /\ UNCHANGED stick
  <2>1. /\ plan.record = NoRecord /\ plan = [boot |-> stick.boot, record |-> stick.record]
        /\ stick.record = NoRecord => stick.backup = "none"
        /\ step' = "paths" /\ UNCHANGED <<stick, plan, foreign>>
    BY <1>2 DEF Rechecked, Addable, Inspected, Goes
  <2>2. stick.record = NoRecord
    BY <2>1
  <2>3. stick.backup = "none" /\ stick.boot # "ours"
    <3>1. RecordOf("none") # NoRecord /\ Torn # NoRecord
      BY DEF RecordOf, NoRecord, Torn
    <3> QED
      BY <2>1, <2>2, <3>1 DEF Placed, ActivationIsSafe
  <2>4. PreserveTypeOK'
    BY <2>1 DEF PreserveTypeOK, InstallSteps
  <2> QED
    BY <2>1, <2>3, <2>4 DEF Placed, ActivationIsSafe, Before, Recorded, Published,
       Configured
<1> QED
  BY <1>1, <1>2 DEF Recheck

(* A field of the drive, one at a time.                                      *)
LEMMA StickWith ==
  ASSUME NEW s \in Sticks
  PROVE  /\ s.boot \in Loaders /\ s.backup \in Loaders \cup {Torn}
         /\ \A v \in Loaders \cup {Torn} :
              LET t == [s EXCEPT !.backup = v] IN
              /\ t \in Sticks /\ t.backup = v /\ t.boot = s.boot /\ t.record = s.record
              /\ t.iso = s.iso /\ t.config = s.config /\ t.part = s.part
         /\ \A v \in Named \cup {NoRecord, Torn} :
              LET t == [s EXCEPT !.record = v] IN
              /\ t \in Sticks /\ t.record = v /\ t.boot = s.boot /\ t.backup = s.backup
              /\ t.iso = s.iso /\ t.config = s.config /\ t.part = s.part
         /\ \A v \in {"none", "partial", "bad", "whole"} :
              LET t == [s EXCEPT !.part = v] IN
              /\ t \in Sticks /\ t.part = v /\ t.boot = s.boot /\ t.backup = s.backup
              /\ t.iso = s.iso /\ t.config = s.config /\ t.record = s.record
BY DEF Sticks

LEMMA BackupKeeps ==
  ASSUME PreserveTypeOK, Placed, Backup
  PROVE  PreserveTypeOK' /\ Placed'
<1>1. CASE Fails
  BY <1>1, FailsKeeps
<1>2. CASE plan.boot = "none" /\ step' = "record" /\ UNCHANGED <<stick, plan, foreign>>
  BY <1>2, LooksKeeps DEF Backup
<1>3. ASSUME NEW v \in {stick.boot, Torn}, stick.boot = plan.boot,
             stick' = [stick EXCEPT !.backup = v], UNCHANGED <<plan, foreign>>,
             step' = "failed" \/ (v = stick.boot /\ step' = "record")
      PROVE  PreserveTypeOK' /\ Placed'
  <2>1. step = "backup" /\ stick \in Sticks
    BY DEF Backup, At, PreserveTypeOK
  <2>2. /\ stick' \in Sticks /\ stick'.backup = v /\ stick'.boot = stick.boot
        /\ stick.boot # "ours"
    <3>1. v \in Loaders \cup {Torn}
      BY <2>1, StickWith
    <3> QED
      BY <1>3, <2>1, <3>1, StickWith DEF Placed, Before
  <2>3. PreserveTypeOK'
    BY <1>3, <2>2 DEF PreserveTypeOK, InstallSteps
  <2> QED
    BY <1>3, <2>2, <2>3 DEF Placed, ActivationIsSafe, Before, Recorded, Published,
       Configured
<1>4. CASE stick.boot = plan.boot /\ WriteChecked("backup", stick.boot, "record")
  <2>1. \/ stick' = [stick EXCEPT !.backup = stick.boot] /\ Goes("record")
        \/ stick' = [stick EXCEPT !.backup = Torn] /\ Goes("failed")
        \/ Fails
    BY <1>4 DEF WriteChecked
  <2> QED
    BY <1>1, <1>3, <1>4, <2>1 DEF Goes
<1> QED
  BY <1>1, <1>2, <1>4 DEF Backup

LEMMA RecordKeeps ==
  ASSUME PreserveTypeOK, Placed, Record
  PROVE  PreserveTypeOK' /\ Placed'
<1> DEFINE name == RecordOf(plan.boot)
<1>1. CASE Fails
  BY <1>1, FailsKeeps
<1>2. /\ step = "record" /\ stick \in Sticks /\ plan.boot \in Loaders
      /\ stick.backup = plan.boot /\ stick.boot # "ours"
  BY DEF Record, At, PreserveTypeOK, Placed, Before
<1>3. name \in Named /\ plan.boot # Torn
  BY <1>2, NamesAre
<1>4. \/ \E kept \in {name, Torn} :
           stick' = [stick EXCEPT !.record = kept] /\ (Goes("copy") \/ Goes("failed"))
      \/ Fails
  BY DEF Record, WriteNew
<1>5. ASSUME NEW kept \in {name, Torn}, stick' = [stick EXCEPT !.record = kept],
             UNCHANGED <<plan, foreign>>, step' \in {"copy", "failed"}
      PROVE  PreserveTypeOK' /\ Placed'
  <2>1. /\ stick' \in Sticks /\ stick'.record = kept /\ stick'.boot = stick.boot
        /\ stick'.backup = stick.backup
    <3>1. kept \in Named \cup {NoRecord, Torn}
      BY <1>3
    <3> HIDE DEF name
    <3> QED
      BY <1>2, <1>5, <3>1, StickWith
  <2>2. PreserveTypeOK'
    BY <1>5, <2>1 DEF PreserveTypeOK, InstallSteps
  <2> QED
    BY <1>2, <1>3, <1>5, <2>1, <2>2 DEF Placed, ActivationIsSafe, Before, Recorded, Published,
       Configured
<1> QED
  BY <1>1, <1>4, <1>5 DEF Goes

(* The copy, its publication and the configuration.                          *)
LEMMA CopyKeeps ==
  ASSUME PreserveTypeOK, Placed, Copy \/ ReadBackCopy
  PROVE  PreserveTypeOK' /\ Placed'
<1>1. CASE Fails
  BY <1>1, FailsKeeps
<1>2. CASE ReadBackCopy /\ stick.part = "whole" /\ Goes("publish") /\ UNCHANGED stick
  BY <1>2, LooksKeeps DEF ReadBackCopy, Goes
<1>3. ASSUME Copy, NEW v \in {"bad", "whole", "partial"},
             stick' = [stick EXCEPT !.part = v], UNCHANGED <<plan, foreign>>,
             step' \in {"failed", "readback"}
      PROVE  PreserveTypeOK' /\ Placed'
  <2>1. step = "copy" /\ stick \in Sticks
    BY <1>3 DEF Copy, At, PreserveTypeOK
  <2>2. /\ stick' \in Sticks /\ stick'.boot = stick.boot /\ stick'.backup = stick.backup
        /\ stick'.record = stick.record
    <3>1. v \in {"none", "partial", "bad", "whole"}
      BY <1>3
    <3> QED
      BY <1>3, <2>1, <3>1, StickWith
  <2>3. PreserveTypeOK'
    BY <1>3, <2>2 DEF PreserveTypeOK, InstallSteps
  <2> QED
    BY <1>3, <2>1, <2>2, <2>3 DEF Placed, ActivationIsSafe, Before, Recorded, Published,
       Configured
<1> QED
  BY <1>1, <1>2, <1>3 DEF Copy, ReadBackCopy, Goes

LEMMA PublishKeeps ==
  ASSUME PreserveTypeOK, Placed, Publish
  PROVE  PreserveTypeOK' /\ Placed'
<1>1. CASE Fails
  BY <1>1, FailsKeeps
<1>2. CASE /\ stick' = [stick EXCEPT !.part = "none", !.iso = stick.part]
           /\ step' \in {"config", "failed"} /\ UNCHANGED <<plan, foreign>>
  <2>1. step = "publish" /\ stick \in Sticks /\ stick.part = "whole" /\ stick.boot # "ours"
    BY DEF Publish, At, PreserveTypeOK, Placed, Before
  <2>2. /\ stick' \in Sticks /\ stick'.boot = stick.boot /\ stick'.backup = stick.backup
        /\ stick'.record = stick.record /\ stick'.iso = "whole"
    BY <1>2, <2>1 DEF Sticks
  <2>3. PreserveTypeOK'
    BY <1>2, <2>2 DEF PreserveTypeOK, InstallSteps
  <2> QED
    BY <1>2, <2>1, <2>2, <2>3 DEF Placed, ActivationIsSafe, Before, Recorded, Published,
       Configured
<1> QED
  BY <1>1, <1>2 DEF Publish

LEMMA ConfigKeeps ==
  ASSUME PreserveTypeOK, Placed, Config
  PROVE  PreserveTypeOK' /\ Placed'
<1>1. CASE Fails
  BY <1>1, FailsKeeps
<1>2. \/ stick' = [stick EXCEPT !.config = "done"] /\ Goes("stage")
      \/ stick' = [stick EXCEPT !.config = Torn] /\ Goes("failed")
      \/ Fails
  BY DEF Config, WriteChecked
<1>3. ASSUME NEW v \in {"done", Torn}, stick' = [stick EXCEPT !.config = v],
             UNCHANGED <<plan, foreign>>, step' = "failed" \/ (v = "done" /\ step' = "stage")
      PROVE  PreserveTypeOK' /\ Placed'
  <2>1. step = "config" /\ stick \in Sticks /\ stick.boot # "ours"
    BY DEF Config, At, PreserveTypeOK, Placed, Before
  <2>2. /\ stick' \in Sticks /\ stick'.boot = stick.boot /\ stick'.backup = stick.backup
        /\ stick'.record = stick.record /\ stick'.iso = stick.iso /\ stick'.config = v
    BY <1>3, <2>1 DEF Sticks
  <2>3. PreserveTypeOK'
    BY <1>3, <2>2 DEF PreserveTypeOK, InstallSteps
  <2> QED
    BY <1>3, <2>1, <2>2, <2>3 DEF Placed, ActivationIsSafe, Before, Recorded, Published,
       Configured
<1> QED
  BY <1>1, <1>2, <1>3 DEF Goes

LEMMA StageKeeps ==
  ASSUME PreserveTypeOK, Placed, Stage
  PROVE  PreserveTypeOK' /\ Placed'
<1>1. CASE Fails
  BY <1>1, FailsKeeps
<1>2. \/ stick' = [stick EXCEPT !.staged = "done"] /\ Goes("stop")
      \/ stick' = [stick EXCEPT !.staged = Torn] /\ Goes("failed")
      \/ Fails
  BY DEF Stage, WriteChecked
<1>3. ASSUME NEW v \in {"done", Torn}, stick' = [stick EXCEPT !.staged = v],
             UNCHANGED <<plan, foreign>>, step' \in {"failed", "stop"}
      PROVE  PreserveTypeOK' /\ Placed'
  <2>1. step = "stage" /\ stick \in Sticks /\ stick.boot # "ours"
    BY DEF Stage, At, PreserveTypeOK, Placed, Before
  <2>2. /\ stick' \in Sticks /\ stick'.boot = stick.boot /\ stick'.backup = stick.backup
        /\ stick'.record = stick.record /\ stick'.iso = stick.iso
        /\ stick'.config = stick.config
    BY <1>3, <2>1 DEF Sticks
  <2>3. PreserveTypeOK'
    BY <1>3, <2>2 DEF PreserveTypeOK, InstallSteps
  <2> QED
    BY <1>3, <2>1, <2>2, <2>3 DEF Placed, ActivationIsSafe, Before, Recorded, Published,
       Configured
<1> QED
  BY <1>1, <1>2, <1>3 DEF Goes

(* Everything is in place when the boot file is replaced.                    *)
LEMMA ReplaceKeeps ==
  ASSUME PreserveTypeOK, Placed, Replace
  PROVE  PreserveTypeOK' /\ Placed'
<1>1. CASE Fails
  BY <1>1, FailsKeeps
<1>2. CASE stick' = [stick EXCEPT !.boot = "ours", !.staged = "none"] /\ Goes("verify")
  <2>1. step = "replace" /\ stick \in Sticks
    BY DEF Replace, At, PreserveTypeOK
  <2>2. /\ stick' \in Sticks /\ stick'.boot = "ours" /\ stick'.backup = stick.backup
        /\ stick'.record = stick.record /\ stick'.iso = stick.iso
        /\ stick'.config = stick.config
    BY <1>2, <2>1 DEF Sticks, Loaders
  <2>3. PreserveTypeOK'
    BY <1>2, <2>2 DEF PreserveTypeOK, InstallSteps, Goes
  <2> QED
    BY <1>2, <2>1, <2>2, <2>3 DEF Placed, ActivationIsSafe, Before, Recorded, Published,
       Configured, Goes
<1> QED
  BY <1>1, <1>2 DEF Replace

LEMMA LooksAround ==
  ASSUME PreserveTypeOK, Placed, Paths \/ LastStop \/ LookAtBoot \/ VerifyBoot
  PROVE  PreserveTypeOK' /\ Placed'
<1>1. \/ Fails
      \/ /\ UNCHANGED <<stick, plan, foreign>>
         /\ \/ At("paths") /\ step' = "backup"
            \/ At("stop") /\ step' = "look"
            \/ At("look") /\ step' = "replace"
            \/ At("verify") /\ stick.boot = "ours" /\ step' = "done"
  BY DEF Paths, LastStop, LookAtBoot, VerifyBoot, Goes
<1> QED
  BY <1>1, FailsKeeps, LooksKeeps

LEMMA KeepsInstall ==
  ASSUME Inv, Install
  PROVE  Inv'
<1>1. /\ PreserveTypeOK /\ Placed /\ InstallStep /\ Now("install")
      /\ UNCHANGED <<cancel, runVars, mediaVars, helperVars>>
  BY DEF Inv, Install
<1>2. PreserveTypeOK' /\ Placed'
  BY <1>1, RecheckKeeps, LooksAround, BackupKeeps, RecordKeeps, CopyKeeps, PublishKeeps,
     ConfigKeeps, StageKeeps, ReplaceKeeps DEF InstallStep
<1> QED
  BY <1>1, <1>2, KeepsInstalled

(* Somebody else's boot loader.                                              *)
LEMMA KeepsForeign ==
  ASSUME Inv, SomeLoader
  PROVE  Inv'
<1>1. /\ PreserveTypeOK /\ Placed /\ foreign < MaxForeign
      /\ stick' = [stick EXCEPT !.boot = "foreign"] /\ foreign' = foreign + 1
      /\ UNCHANGED <<cancel, runVars, mediaVars, helperVars, plan, step>>
  BY DEF Inv, SomeLoader, ForeignLoader
<1>2. /\ stick' \in Sticks /\ stick'.boot = "foreign" /\ stick'.backup = stick.backup
      /\ stick'.record = stick.record /\ stick'.iso = stick.iso
      /\ stick'.config = stick.config /\ stick'.part = stick.part
  BY <1>1 DEF Sticks, Loaders, PreserveTypeOK
<1>3. PreserveTypeOK'
  BY <1>1, <1>2, MaxForeignAssumption DEF PreserveTypeOK
<1>4. Placed'
  BY <1>1, <1>2 DEF Placed, ActivationIsSafe
<1>5. RunTyped' /\ MediaTypeOK' /\ HelperTyped' /\ Heard' /\ Aimed'
  BY <1>1 DEF Inv, RunTyped, MediaTypeOK, HelperTyped, Heard, OnlyMediaIsKilled, SuccessIsWhole,
         Aimed, runVars, mediaVars, helperVars
<1>6. Lawful' /\ Busy'
  BY <1>1 DEF Inv, Lawful, Refused, Busy, Now, helperVars, mediaVars, runVars
<1>7. Ending' /\ OnlyApprovedIsChanged'
  BY <1>1 DEF Inv, Ending, RecordsSurvive, OnlyApprovedIsChanged, helperVars, mediaVars
<1> QED
  BY <1>3, <1>4, <1>5, <1>6, <1>7 DEF Inv

-----------------------------------------------------------------------------
(* Steps of the list.                                                        *)

(* The step at the head ends, with what it owes to those that follow.        *)
Advances ==
  /\ phase = "steps" /\ todo # <<>> /\ StepEnds
  /\ UNCHANGED <<build, op, lease, touched, complete, records, preserveVars, image>>
  /\ files \subseteq files' /\ files' \subseteq Files
  /\ loop' = "idle" /\ asked' = "none"
  /\ agreed' \in BOOLEAN /\ (agreed => agreed')
  /\ StepDone =>
       /\ Head(todo) = "review" => agreed'
       /\ Head(todo) = "tools" => Tools(op) \subseteq files'
       /\ Head(todo) = "write" => image[Selected] = "installer"
       /\ Head(todo) = "install" => step = "done"
       /\ Head(todo) = "receipt" => "receipt" \in files'

LEMMA KeepsAdvances ==
  ASSUME Inv, Advances, RunTyped', Heard', MediaTypeOK', Aimed'
  PROVE  Inv'
<1>1. /\ todo \in Seq(StepNames) /\ todo # <<>> /\ phase = "steps" /\ outcome = "none"
      /\ HelperTyped
  BY DEF Inv, HelperTyped, Lawful, Advances
<1>2. PreserveTypeOK' /\ Placed'
  BY DEF Inv, Advances, PreserveTypeOK, Placed, ActivationIsSafe, preserveVars
<1>3. OnlyApprovedIsChanged'
  BY DEF Inv, Advances, OnlyApprovedIsChanged, preserveVars
<1>4. Busy'
  BY DEF Advances, Busy
<1>5. CASE StepFails
  <2>1. phase' = "finish" /\ outcome' = "error" /\ todo' = todo
    BY <1>5 DEF StepFails
  <2>2. HelperTyped'
    BY <1>1, <2>1 DEF HelperTyped, Advances, Questions
  <2>3. Lawful' /\ Ending'
    BY <2>1 DEF Lawful, Ending, RecordsSurvive
  <2> QED
    BY <1>2, <1>3, <1>4, <2>2, <2>3 DEF Inv
<1>6. CASE StepDone
  <2> DEFINE rest == Tail(todo)
  <2>1. /\ todo' = rest /\ rest \in Seq(StepNames) /\ Len(rest) = Len(todo) - 1
        /\ Len(todo) \in Nat \ {0} /\ Head(todo) = todo[1]
        /\ \A i \in 1 .. Len(todo) - 1 : rest[i] = todo[i + 1]
    BY <1>1, <1>6, TailOf DEF StepDone
  <2>2. /\ agreed' \/ Guarded(rest)
        /\ Equipped(rest, op)
        /\ Tools(op) \subseteq files'
        /\ op = "usb" => image[Selected] = "installer" \/ Has(rest, "write")
        /\ op = "usb_preserve" => step = "done" \/ Has(rest, "install")
        /\ op \in UsbKinds => "receipt" \in files' \/ Has(rest, "receipt")
    <3>1. agreed' \/ Guarded(rest)
      BY <1>1, <1>6, TailGuarded DEF Inv, Lawful, Advances
    <3>2. Equipped(rest, op)
      BY <1>1, TailEquipped DEF Inv, Lawful
    <3>3. Tools(op) \subseteq files'
      BY <1>1, <1>6 DEF Inv, Lawful, Advances
    <3>4. op = "usb" => image[Selected] = "installer" \/ Has(rest, "write")
      BY <1>1, <1>6, TailHas DEF Inv, Lawful, Advances
    <3>5. op = "usb_preserve" => step = "done" \/ Has(rest, "install")
      BY <1>1, <1>6, TailHas DEF Inv, Lawful, Advances
    <3>6. op \in UsbKinds => "receipt" \in files' \/ Has(rest, "receipt")
      BY <1>1, <1>6, TailHas DEF Inv, Lawful, Advances
    <3> QED
      BY <3>1, <3>2, <3>3, <3>4, <3>5, <3>6
  <2>3. \A i \in 1 .. Len(rest) : rest[i] # "tools"
    BY <1>1, <2>1 DEF Inv, Lawful
  <2> HIDE DEF rest
  <2>4. CASE Len(todo) = 1
    <3>1. phase' = "finish" /\ outcome' = "ok" /\ Len(rest) = 0
      BY <1>6, <2>1, <2>4 DEF StepDone
    <3>2. \A x : ~Has(rest, x)
      BY <3>1 DEF Has
    <3>3. HelperTyped'
      BY <1>1, <2>1, <3>1 DEF HelperTyped, Advances, Questions
    <3>4. Lawful'
      BY <3>1 DEF Lawful
    <3>5. Ending'
      BY <2>2, <3>1, <3>2 DEF Ending, RecordsSurvive, Advances, preserveVars
    <3> QED
      BY <1>2, <1>3, <1>4, <3>3, <3>4, <3>5 DEF Inv
  <2>5. CASE Len(todo) # 1
    <3>1. phase' = "steps" /\ outcome' = "none" /\ Len(rest) \in Nat \ {0}
      BY <1>1, <1>6, <2>1, <2>5 DEF StepDone
    <3>2. HelperTyped'
      BY <1>1, <2>1, <3>1 DEF HelperTyped, Advances, Questions
    <3>3. rest # <<>>
      BY <3>1
    <3>4. \A i \in 2 .. Len(rest) : rest[i] # "tools"
      BY <2>3, <3>1
    <3>5. Refused' = Refused
      BY DEF Refused, Advances
    <3>6. Lawful'
      BY <1>1, <2>1, <2>2, <3>1, <3>3, <3>4, <3>5 DEF Inv, Lawful, Advances, preserveVars
    <3>7. Ending'
      BY <3>1 DEF Ending, RecordsSurvive
    <3> QED
      BY <1>2, <1>3, <1>4, <3>2, <3>6, <3>7 DEF Inv
  <2> QED
    BY <2>4, <2>5
<1> QED
  BY <1>5, <1>6 DEF Advances, StepEnds

(* A step without a run.                                                     *)
LEMMA Aside ==
  ASSUME Inv, phase = "steps", todo # <<>>, Head(todo) \notin RunSteps, UNCHANGED Others
  PROVE  /\ loop = "idle" /\ loop' = "idle"
         /\ RunTyped' /\ Heard' /\ MediaTypeOK' /\ Aimed'
         /\ UNCHANGED <<preserveVars, image>>
         /\ Head(todo) \notin {"review", "authenticate"} => asked = "none"
<1>1. loop = "idle" /\ loop' = "idle"
  BY DEF Inv, Busy, Others, runVars
<1>2. RunTyped' /\ Heard' /\ MediaTypeOK' /\ Aimed'
  BY DEF Inv, RunTyped, Heard, OnlyMediaIsKilled, SuccessIsWhole, MediaTypeOK, Aimed, Others,
         runVars, mediaVars
<1>3. UNCHANGED <<preserveVars, image>>
  BY DEF Others, mediaVars
<1>4. Head(todo) \notin {"review", "authenticate"} => asked = "none"
  BY DEF Inv, Busy, Now, HelperTyped, Questions
<1> QED
  BY <1>1, <1>2, <1>3, <1>4

LEMMA NotRuns ==
  \A s \in {"tools", "hold", "authenticate", "sign", "review", "recheck", "stop", "install",
            "receipt"} : s \notin RunSteps
BY DEF RunSteps, Checks, Reading, Changing

LEMMA AdvancesAside ==
  ASSUME Inv, phase = "steps", todo # <<>>, Head(todo) \notin RunSteps, UNCHANGED Others,
         StepEnds, UNCHANGED <<build, op, lease, touched, complete, records>>,
         files \subseteq files', files' \subseteq Files, asked' = "none",
         agreed' \in BOOLEAN, agreed => agreed',
         StepDone =>
           /\ Head(todo) = "review" => agreed'
           /\ Head(todo) = "tools" => Tools(op) \subseteq files'
           /\ Head(todo) = "install" => step = "done"
           /\ Head(todo) = "receipt" => "receipt" \in files'
  PROVE  Inv'
<1>1. /\ loop' = "idle" /\ RunTyped' /\ Heard' /\ MediaTypeOK' /\ Aimed'
      /\ UNCHANGED <<preserveVars, image>>
  BY Aside
<1>2. Head(todo) # "write"
  BY DEF RunSteps
<1>3. Advances
  BY <1>1, <1>2 DEF Advances
<1> QED
  BY <1>1, <1>3, KeepsAdvances

LEMMA FilesTyped ==
  /\ Inv => agreed \in BOOLEAN /\ files \subseteq Files
  /\ \A k : Tools(k) \subseteq Files
  /\ {"image", "signature", "receipt", "requests", "cleanup", "failure"} \subseteq Files
BY DEF Inv, HelperTyped, Files, Transient, Tools

LEMMA KeepsCopyTools ==
  ASSUME Inv, CopyTools
  PROVE  Inv'
<1>1. phase = "steps" /\ todo # <<>> /\ Head(todo) = "tools"
  BY DEF CopyTools, Now
<1>2. asked = "none" /\ Head(todo) \notin RunSteps
  BY <1>1, NotRuns, Aside DEF CopyTools
<1>3. /\ files \subseteq files' /\ files' \subseteq Files /\ StepEnds
      /\ StepDone => Tools(op) \subseteq files'
  <2>1. CASE files' = files \cup Tools(op) /\ StepDone
    BY <2>1, FilesTyped DEF StepEnds
  <2>2. CASE (\E copied \in SUBSET Tools(op) : files' = files \cup copied) /\ StepFails
    <3>1. ~StepDone
      BY <2>2, <1>1, TailOf DEF StepDone, StepFails, Inv, HelperTyped, Lawful
    <3> QED
      BY <2>2, <3>1, FilesTyped DEF StepEnds
  <2> QED
    BY <2>1, <2>2 DEF CopyTools
<1> QED
  BY <1>1, <1>2, <1>3, AdvancesAside, FilesTyped DEF CopyTools

LEMMA KeepsHoldSource ==
  ASSUME Inv, HoldSource
  PROVE  Inv'
<1>1. phase = "steps" /\ todo # <<>> /\ Head(todo) = "hold"
  BY DEF HoldSource, Now
<1>2. asked = "none" /\ Head(todo) \notin RunSteps
  BY <1>1, NotRuns, Aside DEF HoldSource
<1>3. files \subseteq files' /\ files' \subseteq Files /\ StepEnds
  BY FilesTyped DEF HoldSource, StepEnds
<1> QED
  BY <1>1, <1>2, <1>3, AdvancesAside, FilesTyped DEF HoldSource

LEMMA KeepsAuthenticate ==
  ASSUME Inv, Authenticate
  PROVE  Inv'
<1>1. phase = "steps" /\ todo # <<>> /\ Head(todo) = "authenticate"
  BY DEF Authenticate, Now
<1>2. Head(todo) \notin RunSteps /\ asked = "none"
  BY <1>1, NotRuns DEF Authenticate, Inv, Busy, Now, HelperTyped, Questions
<1>3. StepEnds
  BY DEF Authenticate, StepEnds
<1> QED
  BY <1>1, <1>2, <1>3, AdvancesAside, FilesTyped DEF Authenticate

LEMMA KeepsSaveSignature ==
  ASSUME Inv, SaveSignature
  PROVE  Inv'
<1>1. phase = "steps" /\ todo # <<>> /\ Head(todo) = "sign"
  BY DEF SaveSignature, Now
<1>2. asked = "none" /\ Head(todo) \notin RunSteps
  BY <1>1, NotRuns, Aside DEF SaveSignature
<1>3. files \subseteq files' /\ files' \subseteq Files
  BY FilesTyped DEF SaveSignature
<1> QED
  BY <1>1, <1>2, <1>3, AdvancesAside, FilesTyped DEF SaveSignature

LEMMA KeepsRecheckPlan ==
  ASSUME Inv, RecheckPlan
  PROVE  Inv'
<1>1. phase = "steps" /\ todo # <<>> /\ Head(todo) = "recheck"
  BY DEF RecheckPlan, Now
<1>2. asked = "none" /\ Head(todo) \notin RunSteps
  BY <1>1, NotRuns, Aside DEF RecheckPlan
<1>3. StepEnds
  BY DEF RecheckPlan, StepEnds
<1> QED
  BY <1>1, <1>2, <1>3, AdvancesAside, FilesTyped DEF RecheckPlan

LEMMA KeepsLookForStop ==
  ASSUME Inv, LookForStopAgain
  PROVE  Inv'
<1>1. phase = "steps" /\ todo # <<>> /\ Head(todo) = "stop"
  BY DEF LookForStopAgain, Now
<1>2. asked = "none" /\ Head(todo) \notin RunSteps
  BY <1>1, NotRuns, Aside DEF LookForStopAgain
<1>3. StepEnds
  BY DEF LookForStopAgain, StepEnds
<1> QED
  BY <1>1, <1>2, <1>3, AdvancesAside, FilesTyped DEF LookForStopAgain

LEMMA KeepsEndInstall ==
  ASSUME Inv, EndInstall
  PROVE  Inv'
<1>1. phase = "steps" /\ todo # <<>> /\ Head(todo) = "install"
  BY DEF EndInstall, Now
<1>2. asked = "none" /\ Head(todo) \notin RunSteps
  BY <1>1, NotRuns, Aside DEF EndInstall
<1>3. StepEnds /\ (StepDone => step = "done")
  <2>1. ~(StepDone /\ StepFails)
    BY <1>1, TailOf DEF StepDone, StepFails, Inv, HelperTyped, Lawful
  <2> QED
    BY <2>1 DEF EndInstall, StepEnds
<1> QED
  BY <1>1, <1>2, <1>3, AdvancesAside, FilesTyped DEF EndInstall

LEMMA KeepsWriteReceipt ==
  ASSUME Inv, WriteReceipt
  PROVE  Inv'
<1>1. phase = "steps" /\ todo # <<>> /\ Head(todo) = "receipt"
  BY DEF WriteReceipt, Now
<1>2. asked = "none" /\ Head(todo) \notin RunSteps
  BY <1>1, NotRuns, Aside DEF WriteReceipt
<1>3. /\ StepEnds /\ files \subseteq files' /\ files' \subseteq Files
      /\ StepDone => "receipt" \in files'
  <2>1. ~(StepDone /\ StepFails)
    BY <1>1, TailOf DEF StepDone, StepFails, Inv, HelperTyped, Lawful
  <2> QED
    BY <2>1, FilesTyped DEF WriteReceipt, StepEnds
<1> QED
  BY <1>1, <1>2, <1>3, AdvancesAside, FilesTyped DEF WriteReceipt

-----------------------------------------------------------------------------
(* Before the steps, after them, and questions.                              *)

LEMMA Still ==
  ASSUME Inv, UNCHANGED Others
  PROVE  /\ RunTyped' /\ MediaTypeOK' /\ PreserveTypeOK' /\ Heard' /\ Aimed' /\ Placed'
         /\ UNCHANGED <<loop, mode, image, step>>
<1>1. RunTyped' /\ Heard' /\ MediaTypeOK' /\ Aimed'
  BY DEF Inv, RunTyped, Heard, OnlyMediaIsKilled, SuccessIsWhole, MediaTypeOK, Aimed, Others,
         runVars, mediaVars
<1>2. PreserveTypeOK' /\ Placed'
  BY DEF Inv, PreserveTypeOK, Placed, ActivationIsSafe, Others, preserveVars
<1> QED
  BY <1>1, <1>2 DEF Others, runVars, mediaVars, preserveVars

LEMMA KeepsLate ==
  ASSUME Inv, phase # "steps", phase' # "steps", UNCHANGED Others, UNCHANGED <<touched, agreed>>,
         asked' = "none" \/ (asked' = "records" /\ phase' = "records"),
         HelperTyped', Ending'
  PROVE  Inv'
<1>1. loop = "idle"
  BY DEF Inv, Busy
<1>2. Lawful' /\ Busy'
  BY <1>1, Still DEF Lawful, Busy
<1>3. OnlyApprovedIsChanged'
  BY Still DEF Inv, OnlyApprovedIsChanged
<1> QED
  BY <1>2, <1>3, Still DEF Inv

LEMMA NoQuestion ==
  ASSUME Inv, phase \notin {"steps", "records"}
  PROVE  asked = "none"
BY DEF Inv, Busy, Now, HelperTyped, Questions

LEMMA KeepsChooseRecords ==
  ASSUME Inv, ChooseRecords
  PROVE  Inv'
<1>1. /\ phase = "choose" /\ phase' \in {"request", "over"} /\ UNCHANGED Others
      /\ outcome' \in {outcome, "error"} /\ (phase' = "request" => outcome' = outcome)
      /\ records' \in {"pending", records}
      /\ UNCHANGED <<build, op, lease, todo, asked, agreed, touched, files, complete>>
  BY DEF ChooseRecords
<1>2. asked = "none" /\ outcome = "none"
  BY <1>1, NoQuestion DEF Inv, Ending
<1>3. HelperTyped'
  BY <1>1 DEF Inv, HelperTyped
<1>4. Ending'
  BY <1>1, <1>2 DEF Ending, RecordsSurvive
<1> QED
  BY <1>1, <1>2, <1>3, <1>4, KeepsLate

LEMMA KeepsRequest ==
  ASSUME Inv, Request
  PROVE  Inv'
<1>1. /\ phase = "request" /\ UNCHANGED Others
      /\ UNCHANGED <<build, op, lease, asked, agreed, touched, files, complete, records>>
  BY DEF Request
<1>2. asked = "none" /\ outcome = "none" /\ HelperTyped
  BY <1>1, NoQuestion DEF Inv, Ending
<1>3. CASE Refused
  <2>1. phase' = "answer" /\ outcome' = "error" /\ UNCHANGED todo
    BY <1>3 DEF Request
  <2>2. HelperTyped'
    BY <1>1, <1>2, <2>1 DEF HelperTyped
  <2>3. Ending'
    BY <1>1, <2>1 DEF Ending, RecordsSurvive
  <2> QED
    BY <1>1, <1>2, <2>1, <2>2, <2>3, KeepsLate
<1>4. CASE ~Refused
  <2>1. phase' = "steps" /\ todo' = Steps(op) /\ UNCHANGED outcome
    BY <1>4 DEF Request
  <2>2. /\ todo' \in Seq(StepNames) /\ todo' # <<>> /\ Head(todo') = "tools"
        /\ \A i \in 2 .. Len(todo') : todo'[i] # "tools"
        /\ Guarded(todo') /\ Equipped(todo', op)
        /\ op = "usb" => Has(todo', "write")
        /\ op = "usb_preserve" => Has(todo', "install")
        /\ op \in UsbKinds => Has(todo', "receipt")
    BY <1>2, <1>4, <2>1, StepsLawful
  <2>3. HelperTyped'
    BY <1>1, <1>2, <2>1, <2>2 DEF HelperTyped
  <2>4. Refused' = Refused
    BY <1>1 DEF Refused
  <2>5. Lawful'
    BY <1>1, <1>2, <1>4, <2>1, <2>2, <2>4 DEF Lawful
  <2>6. Busy'
    BY <1>1, <1>2, Still DEF Inv, Busy
  <2>7. Ending'
    BY <1>2, <2>1 DEF Ending, RecordsSurvive
  <2>8. OnlyApprovedIsChanged'
    BY <1>1, Still DEF Inv, OnlyApprovedIsChanged
  <2> QED
    BY <1>1, <2>3, <2>5, <2>6, <2>7, <2>8, Still DEF Inv
<1> QED
  BY <1>3, <1>4

LEMMA TopicIs ==
  /\ Topic \in Questions
  /\ Topic = "review" => Now("review")
  /\ Topic = "lease" => Now("authenticate") /\ lease
  /\ Topic = "records" => phase = "records"
BY DEF Topic, Questions

LEMMA KeepsAsk ==
  ASSUME Inv, Ask
  PROVE  Inv'
<1>1. /\ asked' = Topic /\ loop = "idle" /\ UNCHANGED Others
      /\ UNCHANGED <<build, op, lease, phase, todo, agreed, touched, files, complete,
                     records, outcome>>
  BY DEF Ask, Idle
<1>2. HelperTyped'
  BY <1>1, TopicIs DEF Inv, HelperTyped
<1>3. Busy'
  BY <1>1, TopicIs, Still DEF Busy, Now
<1>4. Lawful' /\ Ending' /\ OnlyApprovedIsChanged'
  BY <1>1, Still DEF Inv, Lawful, Refused, Ending, RecordsSurvive, OnlyApprovedIsChanged
<1> QED
  BY <1>2, <1>3, <1>4, Still, <1>1 DEF Inv

(* The records are offered no more.                                          *)
LEMMA KeepsOffered ==
  ASSUME Inv, phase = "records", phase' \in {"answer", "remove"}, asked' = "none",
         phase' = "remove" => records = "published", UNCHANGED Others,
         UNCHANGED <<build, op, lease, todo, agreed, touched, files, complete, records,
                     outcome>>
  PROVE  Inv'
<1>1. HelperTyped'
  BY DEF Inv, HelperTyped, Questions
<1>2. Ending'
  BY Still DEF Inv, Ending, RecordsSurvive
<1> QED
  BY <1>1, <1>2, KeepsLate

LEMMA KeepsCannotAsk ==
  ASSUME Inv, CannotAsk
  PROVE  Inv'
<1>1. /\ asked = "none" /\ Topic # "none" /\ UNCHANGED Others
      /\ UNCHANGED <<build, op, lease, asked, agreed, touched, files, complete, records>>
  BY DEF CannotAsk, Idle
<1>2. CASE phase = "records"
  BY <1>1, <1>2, KeepsOffered DEF CannotAsk
<1>3. CASE phase # "records"
  <2>1. /\ phase = "steps" /\ todo # <<>> /\ Head(todo) \in {"review", "authenticate"}
    BY <1>1, <1>3, TopicIs DEF Now, Questions
  <2>2. StepFails /\ StepEnds
    BY <1>3 DEF CannotAsk, StepEnds
  <2>3. ~StepDone
    BY <2>1, <2>2, TailOf DEF StepDone, StepFails, Inv, HelperTyped, Lawful
  <2> QED
    BY <1>1, <2>1, <2>2, <2>3, NotRuns, AdvancesAside, FilesTyped
<1> QED
  BY <1>2, <1>3

LEMMA AskedIs ==
  ASSUME Inv, asked # "none", asked # "records"
  PROVE  /\ phase = "steps" /\ todo # <<>> /\ Head(todo) \notin RunSteps
         /\ Head(todo) \in {"review", "authenticate"}
         /\ asked = "review" <=> Head(todo) = "review"
BY NotRuns DEF Inv, Busy, HelperTyped, Questions, Now

LEMMA KeepsSayYes ==
  ASSUME Inv, SayYes
  PROVE  Inv'
<1>1. /\ asked # "none" /\ asked' = "none" /\ agreed' = (agreed \/ asked = "review")
      /\ UNCHANGED Others
      /\ UNCHANGED <<build, op, lease, touched, files, complete, records>>
  BY DEF SayYes
<1>2. CASE asked = "records"
  <2>1. /\ phase = "records" /\ phase' = "remove" /\ records = "published"
        /\ UNCHANGED <<todo, outcome>>
    BY <1>2 DEF SayYes, Inv, Busy
  <2>2. agreed' = agreed
    BY <1>1, <1>2, FilesTyped
  <2> QED
    BY <1>1, <2>1, <2>2, KeepsOffered
<1>3. CASE asked # "records"
  <2>1. StepDone /\ StepEnds
    BY <1>3 DEF SayYes, StepEnds
  <2>2. /\ agreed' \in BOOLEAN /\ (agreed => agreed')
        /\ (Head(todo) = "review" => agreed')
    BY <1>1, <1>3, AskedIs, FilesTyped
  <2> QED
    BY <1>1, <1>3, <2>1, <2>2, AskedIs, AdvancesAside, FilesTyped
<1> QED
  BY <1>2, <1>3

LEMMA KeepsSayNo ==
  ASSUME Inv, SayNo
  PROVE  Inv'
<1>1. /\ asked # "none" /\ asked' = "none" /\ UNCHANGED Others
      /\ UNCHANGED <<build, op, lease, agreed, touched, files, complete, records>>
  BY DEF SayNo
<1>2. CASE asked = "records"
  <2>1. phase = "records" /\ phase' = "answer" /\ UNCHANGED <<todo, outcome>>
    BY <1>2 DEF SayNo, Unanswered, Inv, Busy
  <2> QED
    BY <1>1, <2>1, KeepsOffered
<1>3. CASE asked # "records"
  <2>1. StepFails /\ StepEnds
    BY <1>3 DEF SayNo, Unanswered, StepEnds
  <2>2. ~StepDone
    BY <1>1, <1>3, <2>1, AskedIs, TailOf DEF StepDone, StepFails, Inv, HelperTyped, Lawful
  <2> QED
    BY <1>1, <1>3, <2>1, <2>2, AskedIs, AdvancesAside, FilesTyped
<1> QED
  BY <1>2, <1>3

LEMMA KeepsSaveRecords ==
  ASSUME Inv, SaveRecords
  PROVE  Inv'
<1>1. /\ asked = "records" /\ phase = "records" /\ records' = "published" /\ UNCHANGED Others
      /\ UNCHANGED <<build, op, lease, phase, todo, asked, agreed, touched, files, complete,
                     outcome>>
  BY DEF SaveRecords, Inv, Busy
<1>2. HelperTyped'
  BY <1>1 DEF Inv, HelperTyped
<1>3. Ending'
  BY <1>1, Still DEF Inv, Ending, RecordsSurvive
<1> QED
  BY <1>1, <1>2, <1>3, KeepsLate

-----------------------------------------------------------------------------
(* Runs begin and end.                                                       *)

LEMMA KeepsStartRun ==
  ASSUME Inv, StartRun
  PROVE  Inv'
<1>1. /\ phase = "steps" /\ todo # <<>> /\ Head(todo) \in RunSteps
      /\ Spawn(ModeOf(Head(todo))) /\ UNCHANGED cancel
      /\ writer' \in {"start", "off"} /\ files' \in {files, files \cup {"requests"}}
      /\ UNCHANGED <<slot, swaps, image, handle, report, preserveVars, build, op, lease, phase,
                     todo, asked, agreed, touched, complete, records, outcome>>
  BY DEF StartRun
<1>2. ModeOf(Head(todo)) \in Modes
  BY ModesAre DEF ModeOf
<1>3. /\ RunTyped' /\ Heard' /\ mode' = ModeOf(Head(todo))
      /\ loop' \in {"stop", "err"} /\ child' \in {"running", "none"}
  BY <1>1, <1>2, AnyRun, HeardSpawn
<1>4. MediaTypeOK'
  BY <1>1 DEF Inv, MediaTypeOK, Phases
<1>5. Aimed'
  BY <1>1, <1>3 DEF Inv, Aimed
<1>6. PreserveTypeOK' /\ Placed'
  BY <1>1 DEF Inv, PreserveTypeOK, Placed, ActivationIsSafe, preserveVars
<1>7. files \subseteq files' /\ files' \subseteq Files
  BY <1>1, FilesTyped
<1>8. HelperTyped'
  BY <1>1, <1>7 DEF Inv, HelperTyped
<1>9. Lawful'
  BY <1>1, <1>7 DEF Inv, Lawful, Refused, preserveVars
<1>10. asked = "none"
  BY <1>1, NotRuns DEF Inv, Busy, Now, HelperTyped, Questions
<1>11. Busy'
  BY <1>1, <1>3, <1>10 DEF Busy
<1>12. Ending'
  BY <1>1 DEF Inv, Ending, RecordsSurvive
<1>13. OnlyApprovedIsChanged'
  BY <1>1 DEF Inv, OnlyApprovedIsChanged, preserveVars
<1> QED
  BY <1>3, <1>4, <1>5, <1>6, <1>8, <1>9, <1>11, <1>12, <1>13 DEF Inv

LEMMA KeepsEndRun ==
  ASSUME Inv, EndRun
  PROVE  Inv'
<1>1. /\ phase = "steps" /\ loop \in {"ok", "err"} /\ loop' = "idle"
      /\ said' = <<>> /\ heard' = 0 /\ told' = {} /\ hardStop' = FALSE /\ got' = Nothing
      /\ child' = (IF child = "running" THEN child ELSE "none") /\ report' = NoDrive
      /\ UNCHANGED <<cancel, mode, slot, swaps, image, writer, handle, preserveVars, build, op,
                     lease, asked, agreed, touched, files, complete, records>>
      /\ StepEnds /\ (StepDone /\ ~StepFails => loop = "ok")
  BY DEF EndRun, Returned, StepEnds
<1>2. /\ todo # <<>> /\ Head(todo) \in RunSteps /\ asked = "none" /\ mode = ModeOf(Head(todo))
  BY <1>1 DEF Inv, Busy
<1>3. child # "running"
  BY <1>1 DEF Inv, Heard
<1>4. RunTyped' /\ Heard'
  BY <1>1, <1>3, AnyRun, HeardEnd
<1>5. MediaTypeOK' /\ Aimed'
  BY <1>1, <1>3, MediaStill, AnyRun
<1>6. StepDone /\ Head(todo) = "write" => image[Selected] = "installer"
  <2> SUFFICES ASSUME StepDone, Head(todo) = "write"
               PROVE  image[Selected] = "installer"
    OBVIOUS
  <2>1. ~StepFails
    BY <1>2, TailOf DEF StepDone, StepFails, Inv, HelperTyped, Lawful
  <2>2. child = "good"
    BY <1>1, <2>1, AnyRun DEF Heard, SuccessIsWhole
  <2>3. mode = Write
    BY <1>2 DEF ModeOf, Checks
  <2> QED
    BY <2>2, <2>3, AnyRun DEF Aimed
<1>7. Advances
  BY <1>1, <1>2, <1>6, NotRuns, FilesTyped DEF Advances
<1> QED
  BY <1>4, <1>5, <1>7, KeepsAdvances

LEMMA KeepsScriptChanges ==
  ASSUME Inv, ScriptChanges
  PROVE  Inv'
<1>1. /\ phase = "steps" /\ Head(todo) \in Changing /\ touched' = TRUE /\ UNCHANGED Others
      /\ UNCHANGED <<build, op, lease, phase, todo, asked, agreed, files, complete, records,
                     outcome>>
  BY DEF ScriptChanges
<1>2. agreed
  <2>1. todo # <<>> /\ todo \in Seq(StepNames) /\ (agreed \/ Guarded(todo))
    BY <1>1 DEF Inv, Lawful, HelperTyped
  <2> QED
    BY <1>1, <2>1, TailGuarded DEF Change, Changing
<1>3. HelperTyped'
  BY <1>1 DEF Inv, HelperTyped
<1>4. Lawful' /\ Busy' /\ Ending'
  BY <1>1, Still DEF Inv, Lawful, Refused, Busy, Now, Ending, RecordsSurvive
<1>5. OnlyApprovedIsChanged'
  BY <1>1, <1>2, Still DEF Inv, OnlyApprovedIsChanged
<1> QED
  BY <1>1, <1>3, <1>4, <1>5, Still DEF Inv

-----------------------------------------------------------------------------
(* The end.                                                                  *)

LEMMA KeepsFinish ==
  ASSUME Inv, Finish
  PROVE  Inv'
<1>1. /\ phase = "finish" /\ UNCHANGED Others
      /\ phase' \in {"records", "remove", "answer"}
      /\ phase' = "records" => op \in UsbKinds
      /\ phase' = "remove" => op \notin UsbKinds
      /\ UNCHANGED <<build, op, lease, todo, asked, agreed, touched, records, outcome>>
  BY DEF Finish, UsbKinds
<1>2. /\ complete' \in BOOLEAN /\ files' \subseteq Files
      /\ "receipt" \in files => "receipt" \in files'
  <2>1. PICK kept \in Retainable, noted \in BOOLEAN :
          /\ complete' = (kept = {})
          /\ files' = (files \ Transient) \cup kept \cup (IF noted THEN {"cleanup"} ELSE {})
    BY DEF Finish
  <2>2. "receipt" \notin Transient
    BY DEF Transient
  <2> QED
    BY <2>1, <2>2, FilesTyped DEF Retainable
<1>3. asked = "none"
  BY <1>1, NoQuestion
<1>4. HelperTyped'
  BY <1>1, <1>2 DEF Inv, HelperTyped
<1>5. Ending'
  BY <1>1, <1>2, Still DEF Inv, Ending, RecordsSurvive
<1> QED
  BY <1>1, <1>3, <1>4, <1>5, KeepsLate

LEMMA KeepsRemove ==
  ASSUME Inv, RemoveWorkspace
  PROVE  Inv'
<1>1. /\ phase = "remove" /\ phase' = "answer" /\ UNCHANGED Others /\ files' \subseteq files
      /\ UNCHANGED <<build, op, lease, todo, asked, agreed, touched, complete, records, outcome>>
  BY DEF RemoveWorkspace
<1>2. asked = "none"
  BY <1>1, NoQuestion
<1>3. HelperTyped'
  BY <1>1 DEF Inv, HelperTyped
<1>4. Ending'
  BY <1>1, Still DEF Inv, Ending, RecordsSurvive
<1> QED
  BY <1>1, <1>2, <1>3, <1>4, KeepsLate

LEMMA KeepsAnswer ==
  ASSUME Inv, Answer
  PROVE  Inv'
<1>1. /\ phase = "answer" /\ phase' = "over" /\ UNCHANGED Others
      /\ files \subseteq files' /\ files' \subseteq Files
      /\ records' \in {"none", records} /\ (records = "published" => records' = records)
      /\ UNCHANGED <<build, op, lease, todo, asked, agreed, touched, complete, outcome>>
  BY FilesTyped DEF Answer
<1>2. asked = "none"
  BY <1>1, NoQuestion
<1>3. HelperTyped'
  BY <1>1 DEF Inv, HelperTyped
<1>4. Ending'
  BY <1>1, Still DEF Inv, Ending, RecordsSurvive
<1> QED
  BY <1>1, <1>2, <1>3, <1>4, KeepsLate

(* The desktop stops the operation, the drive is pulled, or nothing happens. *)
LEMMA KeepsStop ==
  ASSUME Inv, Stop
  PROVE  Inv'
<1>1. cancel' = TRUE /\ UNCHANGED <<runVars, mediaVars, preserveVars, helperVars>>
  BY DEF Stop
<1>2. RunTyped' /\ MediaTypeOK' /\ PreserveTypeOK' /\ HelperTyped'
  BY <1>1 DEF Inv, RunTyped, MediaTypeOK, PreserveTypeOK, HelperTyped, runVars, mediaVars,
         preserveVars, helperVars
<1>3. Heard' /\ Aimed' /\ Placed'
  BY <1>1 DEF Inv, Heard, OnlyMediaIsKilled, SuccessIsWhole, Aimed, Placed, ActivationIsSafe,
         runVars, mediaVars, preserveVars
<1>4. Lawful' /\ Busy' /\ Ending' /\ OnlyApprovedIsChanged'
  BY <1>1 DEF Inv, Lawful, Refused, Busy, Now, Ending, RecordsSurvive, OnlyApprovedIsChanged,
         runVars, mediaVars, preserveVars, helperVars
<1> QED
  BY <1>2, <1>3, <1>4 DEF Inv

LEMMA KeepsUnplug ==
  ASSUME Inv, Unplug
  PROVE  Inv'
<1>1. PICK d \in Drives \cup {NoDrive} : Swap(d)
  BY DEF Unplug
<1>2. UNCHANGED <<cancel, runVars, preserveVars, helperVars, image, writer, report>>
  BY <1>1 DEF Unplug, Swap
<1>3. MediaTypeOK'
  BY <1>1, <1>2, MaxSwapsAssumption DEF Swap, Inv, MediaTypeOK
<1>4. Aimed'
  BY <1>1, <1>2 DEF Swap, Inv, Aimed, runVars
<1>5. RunTyped' /\ PreserveTypeOK' /\ HelperTyped'
  BY <1>2 DEF Inv, RunTyped, PreserveTypeOK, HelperTyped, runVars, preserveVars, helperVars
<1>6. Heard' /\ Placed'
  BY <1>2 DEF Inv, Heard, OnlyMediaIsKilled, SuccessIsWhole, Placed, ActivationIsSafe,
         runVars, preserveVars
<1>7. Lawful' /\ Busy' /\ Ending' /\ OnlyApprovedIsChanged'
  BY <1>2 DEF Inv, Lawful, Refused, Busy, Now, Ending, RecordsSurvive, OnlyApprovedIsChanged,
         runVars, preserveVars, helperVars
<1> QED
  BY <1>3, <1>4, <1>5, <1>6, <1>7 DEF Inv

LEMMA KeepsStutter ==
  ASSUME Inv, UNCHANGED vars
  PROVE  Inv'
<1>1. UNCHANGED <<cancel, runVars, mediaVars, preserveVars, helperVars>>
  BY DEF vars
<1>2. RunTyped' /\ MediaTypeOK' /\ PreserveTypeOK' /\ HelperTyped'
  BY <1>1 DEF Inv, RunTyped, MediaTypeOK, PreserveTypeOK, HelperTyped, runVars, mediaVars,
         preserveVars, helperVars
<1>3. Heard' /\ Aimed' /\ Placed'
  BY <1>1 DEF Inv, Heard, OnlyMediaIsKilled, SuccessIsWhole, Aimed, Placed, ActivationIsSafe,
         runVars, mediaVars, preserveVars
<1>4. Lawful' /\ Busy' /\ Ending' /\ OnlyApprovedIsChanged'
  BY <1>1 DEF Inv, Lawful, Refused, Busy, Now, Ending, RecordsSurvive, OnlyApprovedIsChanged,
         runVars, mediaVars, preserveVars, helperVars
<1> QED
  BY <1>2, <1>3, <1>4 DEF Inv

-----------------------------------------------------------------------------
(* The theorems.                                                             *)

LEMMA FoundAre ==
  ASSUME stick \in Found, plan.boot = stick.boot
  PROVE  stick \in Sticks /\ ActivationIsSafe /\ stick.record \in {NoRecord} \cup Named
<1> DEFINE old == RecordOf("old")
<1>1. old \in Named /\ old \notin {NoRecord, Torn}
  BY NamesAre DEF Loaders
<1> HIDE DEF old
<1>2. \A l \in {"none", "old", "ours"} :
        /\ Fresh(l) \in Sticks /\ Fresh(l).boot = l /\ Fresh(l).record = NoRecord
        /\ Fresh(l).backup = "none"
  BY DEF Fresh, Sticks, Loaders
<1>3. CASE stick = Fresh("none") \/ stick = Fresh("old")
  BY <1>2, <1>3 DEF ActivationIsSafe
<1>4. CASE stick = [Fresh("old") EXCEPT !.backup = "old"]
  <2>1. stick \in Sticks /\ stick.boot = "old" /\ stick.record = NoRecord
    BY <1>2, <1>4 DEF Sticks, Loaders
  <2> QED
    BY <2>1 DEF ActivationIsSafe
<1>5. CASE stick = [Fresh("old") EXCEPT !.backup = "old", !.record = old]
  <2>1. stick \in Sticks /\ stick.boot = "old" /\ stick.record = old
    BY <1>1, <1>2, <1>5 DEF Sticks, Loaders
  <2> QED
    BY <1>1, <2>1 DEF ActivationIsSafe
<1>6. CASE stick = [Fresh("ours") EXCEPT !.backup = "old", !.record = old, !.iso = "whole",
                                         !.config = "done"]
  <2>1. /\ stick \in Sticks /\ stick.boot = "ours" /\ stick.record = old
        /\ stick.backup = "old" /\ stick.iso = "whole" /\ stick.config = "done"
    BY <1>1, <1>2, <1>6 DEF Sticks, Loaders
  <2> QED
    BY <1>1, <2>1 DEF ActivationIsSafe, old, Torn
<1> QED
  BY <1>3, <1>4, <1>5, <1>6 DEF Found, old

LEMMA InvInit == Init => Inv
<1> SUFFICES ASSUME Init
             PROVE  Inv
  OBVIOUS
<1>1. RunTyped /\ Heard
  <2>1. ~Nothing.closed /\ ~Nothing.result
    BY DEF Nothing
  <2>2. RunTyped
    BY NothingTyped, NothingSaid, ModesAre DEF Init, RunInit, RunTyped
  <2> QED
    BY <2>1, <2>2 DEF Init, RunInit, Heard, OnlyMediaIsKilled, SuccessIsWhole
<1>2. MediaTypeOK /\ Aimed
  BY DrivesAssumption, MaxSwapsAssumption
     DEF Init, MediaInit, RunInit, MediaTypeOK, Aimed, Drives, Phases
<1>3. PreserveTypeOK /\ Placed
  <2>1. /\ stick \in Found /\ plan = [boot |-> stick.boot, record |-> stick.record]
        /\ step = "start" /\ foreign = 0
    BY DEF Init, PreserveInit
  <2>2. PreserveTypeOK
    BY <2>1, FoundAre, MaxForeignAssumption DEF PreserveTypeOK, InstallSteps, Sticks
  <2> QED
    BY <2>1, <2>2, FoundAre DEF Placed, Before, Recorded, Published, Configured
<1>4. HelperTyped
  <2>1. <<>> \in Seq(StepNames)
    OBVIOUS
  <2> QED
    BY <2>1 DEF Init, HelperTyped, Questions
<1>5. Lawful /\ Busy /\ Ending
  BY DEF Init, RunInit, Lawful, Busy, Ending, RecordsSurvive
<1>6. OnlyApprovedIsChanged
  BY DEF Init, MediaInit, PreserveInit, OnlyApprovedIsChanged, Drives
<1> QED
  BY <1>1, <1>2, <1>3, <1>4, <1>5, <1>6 DEF Inv

LEMMA InvNext == Inv /\ [Next \/ Over]_vars => Inv'
<1> SUFFICES ASSUME Inv, [Next \/ Over]_vars
             PROVE  Inv'
  OBVIOUS
<1>1. CASE HelperStep
  BY <1>1, KeepsChooseRecords, KeepsRequest, KeepsCopyTools, KeepsHoldSource,
     KeepsAuthenticate, KeepsSaveSignature, KeepsAsk, KeepsCannotAsk, KeepsStartRun,
     KeepsEndRun, KeepsLoop, KeepsRecheckPlan, KeepsLookForStop, KeepsInstall,
     KeepsEndInstall, KeepsWriteReceipt, KeepsFinish, KeepsRemove, KeepsAnswer
     DEF HelperStep
<1>2. CASE SayNo \/ SayYes \/ SaveRecords
  BY <1>2, KeepsSayNo, KeepsSayYes, KeepsSaveRecords
<1>3. CASE ScriptSays \/ ScriptEnds \/ ScriptChanges \/ ListAnswers \/ WriterRuns
  BY <1>3, KeepsScript, KeepsScriptChanges, KeepsList, KeepsWriter
<1>4. CASE Kill \/ ObservationFails \/ Stop \/ Unplug \/ SomeLoader
  BY <1>4, KeepsLoop, KeepsStop, KeepsUnplug, KeepsForeign
<1>5. CASE UNCHANGED vars
  BY <1>5, KeepsStutter
<1> QED
  BY <1>1, <1>2, <1>3, <1>4, <1>5 DEF Next, Over

LEMMA Always == Spec => []Inv
<1>1. Init => Inv
  BY InvInit
<1>2. Inv /\ [Next \/ Over]_vars => Inv'
  BY InvNext
<1> QED
  BY <1>1, <1>2, PTL DEF Spec

(* No drive but the approved one is ever written, and nothing is changed     *)
(* before the user agreed to it (execute, physical-engine).                  *)
THEOREM OperationChangesApproved ==
  Spec => []OnlyApprovedIsChanged
<1>1. Inv => OnlyApprovedIsChanged
  BY DEF Inv
<1> QED
  BY <1>1, Always, PTL

(* What a user is told was installed is on the drive, and a provider that is *)
(* believed said so and ended well (execute, run_inner).                     *)
THEOREM OperationSucceedsReally ==
  Spec => []SuccessIsReal
<1>1. Inv => SuccessIsReal
  BY DEF Inv, Heard, Ending, Placed, Recorded, Published, Configured, SuccessIsReal
<1> QED
  BY <1>1, Always, PTL

(* Once the drive boots the installer, what it needs is whole, the loader it *)
(* had is saved whole and its record is written, though not read back        *)
(* (usb_preserve.rs, install_files).                                         *)
THEOREM OperationActivatesSafely ==
  Spec => []ActivationIsSafe
<1>1. Inv => ActivationIsSafe
  BY DEF Inv, Placed
<1> QED
  BY <1>1, Always, PTL

(* The record of a finished USB is in the workspace or with the desktop      *)
(* (finish, remove_completed_workspace).                                     *)
THEOREM OperationKeepsRecords ==
  Spec => []RecordsSurvive
<1>1. Inv => RecordsSurvive
  BY DEF Inv, Ending
<1> QED
  BY <1>1, Always, PTL

(* A program that may be running is in the workspace, and no script is       *)
(* killed (finish, provider_process.rs).                                     *)
THEOREM OperationKeepsTools ==
  Spec => []ToolsStay
<1>1. Inv => ToolsStay
  <2> SUFFICES ASSUME Inv
               PROVE  ToolsStay
    OBVIOUS
  <2>1. OnlyMediaIsKilled
    BY DEF Inv, Heard
  <2>2. ASSUME child = "running"
        PROVE  InUse \in files
    <3>1. /\ phase = "steps" /\ todo # <<>> /\ Head(todo) \in RunSteps
          /\ mode = ModeOf(Head(todo)) /\ todo \in Seq(StepNames)
      BY <2>2 DEF Inv, Heard, Busy, HelperTyped
    <3>2. Tools(op) \subseteq files /\ Equipped(todo, op)
      BY <3>1, NotRuns DEF Inv, Lawful
    <3>3. 1 \in 1 .. Len(todo) /\ todo[1] = Head(todo)
      BY <3>1, TailOf
    <3>4. CASE Head(todo) \in Checks \cup {"write"}
      <4>1. mode.media
        BY <3>1, <3>4, ModesAre DEF ModeOf, Checks
      <4>2. "media" \in Tools(op)
        BY <3>2, <3>3, <3>4 DEF Equipped
      <4> QED
        BY <3>2, <4>1, <4>2 DEF InUse
    <3>5. CASE Head(todo) \in Reading \cup Changing
      <4>1. ~mode.media
        BY <3>1, <3>5, ModesAre DEF ModeOf, Checks, Reading, Changing
      <4>2. ScriptOf(op) \in Tools(op)
        BY <3>2, <3>3, <3>5 DEF Equipped
      <4> QED
        BY <3>2, <4>1, <4>2 DEF InUse, ScriptOf
    <3> QED
      BY <3>1, <3>4, <3>5 DEF RunSteps
  <2> QED
    BY <2>1, <2>2 DEF ToolsStay
<1> QED
  BY <1>1, Always, PTL

(* Every variable keeps to its type (execute).                               *)
THEOREM OperationTypes ==
  Spec => []TypeOK
<1>1. Inv => TypeOK
  <2> SUFFICES ASSUME Inv
               PROVE  TypeOK
    OBVIOUS
  <2>1. got \in [DOMAIN Nothing -> BOOLEAN]
    BY DEF Inv, RunTyped, Memories, Nothing
  <2>2. RunTypeOK
    BY <2>1 DEF Inv, RunTyped, RunTypeOK
  <2> QED
    BY <2>2 DEF Inv, HelperTyped, TypeOK
<1> QED
  BY <1>1, Always, PTL
=============================================================================
