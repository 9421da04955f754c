---------------------- MODULE ReleaseDownload_proofs -----------------------
(***************************************************************************)
(* What a download may show and resume, for every number of copies of the  *)
(* installer, blocks and mishaps.  The argument: the lock file lets one    *)
(* attempt at a time past its lock, so what that attempt knows of its file *)
(* stays true of it; and while it streams no artifact is visible, so       *)
(* nothing that is written is ever part of one.                            *)
(***************************************************************************)
EXTENDS ReleaseDownload, TLAPS

(* Only the holder of the lock is past it.                                  *)
Holder == \A p \in Procs : pc[p] \notin {"idle", "lock"} => lock = p

(* Where an attempt has a file.                                             *)
Opened ==
  \A p \in Procs : pc[p] \in Streaming \cup {"unlink", "unstate"}
                     => token[p] \in Tokens

(* Where an attempt has found, or made, that there is no artifact.          *)
Missing == Streaming \cup {"pointer", "stale", "begin", "spoiled"}

NoEntry == \A p \in Procs : pc[p] \in Missing => artifact = NoToken

(* No session holds more than the image, and no more than that is synced.   *)
Fits ==
  /\ \A p \in Procs : pc[p] \in Streaming => Len(hashed[p]) <= Blocks
  /\ \A t \in Tokens : synced[t] <= Blocks

(* What is known of the session's names as it is set up.                    *)
Pointed == {"request", "transfer", "check", "authenticate", "promote"}
Stated  == Pointed \cup {"point", "pointing"}
Begun   == Stated \cup {"state", "write"}

Found ==
  \A p \in Procs :
    /\ pc[p] \in Begun => token[p] \in partial
    /\ pc[p] \in Stated => stateFile[token[p]] = "valid"
    /\ pc[p] \in Pointed => pointer = token[p]

(* A file that is about to be linked was found to be the image.             *)
Vouched == \A p \in Procs : pc[p] = "promote" => data[token[p]] = Image

(* Where an attempt has found, or made, that the artifact is the image.     *)
Shown == {"cached", "unlink", "unstate", "promoted", "return"}

Delivered ==
  \A p \in Procs :
    pc[p] \in Shown => artifact # NoToken /\ data[artifact] = Image

Inductive ==
  /\ TypeOK /\ Holder /\ Opened /\ NoEntry /\ StreamIsFile /\ Fits
  /\ Found /\ Vouched /\ Delivered /\ VisibleIsWhole

-----------------------------------------------------------------------------
(* The types in two halves: of the attempts, and of the cache.              *)
AttemptTypes ==
  /\ pc \in [Procs -> Places]
  /\ token \in [Procs -> Tokens \cup {NoToken}]
  /\ hashed \in [Procs -> Seq(BOOLEAN)]
  /\ body \in [Procs -> BOOLEAN]
  /\ cancel \in [Procs -> BOOLEAN]
  /\ result \in [Procs -> {"none", "image", "busy", "error", "cancelled"}]
  /\ lock \in Procs \cup {NoProc}

FileTypes ==
  /\ data \in [Tokens -> Seq(BOOLEAN)]
  /\ synced \in [Tokens -> Nat]
  /\ \A t \in Tokens : synced[t] <= Len(data[t])

CacheTypes ==
  /\ partial \subseteq Tokens
  /\ stateFile \in [Tokens -> {"none", "torn", "valid"}]
  /\ pointer \in Tokens \cup {NoToken, Torn}
  /\ artifact \in Tokens \cup {NoToken}
  /\ rotten \subseteq Tokens
  /\ faults \in 0 .. MaxFaults

LEMMA TypeParts == TypeOK <=> AttemptTypes /\ CacheTypes /\ FileTypes
BY DEF TypeOK, AttemptTypes, CacheTypes, FileTypes

(* A step to another place, and a return, keep the types of an attempt.     *)
LEMMA GotoTypes ==
  ASSUME AttemptTypes, NEW p \in Procs, NEW next \in Places, Goto(p, next)
  PROVE  pc' \in [Procs -> Places]
BY DEF AttemptTypes, Goto

LEMMA ReturnTypes ==
  ASSUME AttemptTypes, NEW p \in Procs,
         NEW r \in {"none", "image", "busy", "error", "cancelled"}, Return(p, r)
  PROVE  AttemptTypes'
<1>1. "idle" \in Places
  BY DEF Places
<1>2. pc' \in [Procs -> Places]
  BY <1>1, GotoTypes DEF Return
<1>3. <<>> \in Seq(BOOLEAN)
  OBVIOUS
<1> QED
  BY <1>2, <1>3 DEF AttemptTypes, Return

(* What a return leaves: nothing but the place of the others.               *)
LEMMA Returned ==
  ASSUME AttemptTypes, NEW p \in Procs, NEW r, Return(p, r)
  PROVE  /\ pc'[p] = "idle"
         /\ \A q \in Procs \ {p} : /\ pc'[q] = pc[q] /\ token'[q] = token[q]
                                   /\ hashed'[q] = hashed[q]
         /\ lock # p => lock' = lock
BY DEF AttemptTypes, Return, Goto

(* Two attempts are never past the lock together.                           *)
LEMMA Alone ==
  ASSUME Holder, NEW p \in Procs, NEW q \in Procs,
         pc[p] \notin {"idle", "lock"}, pc[q] \notin {"idle", "lock"}
  PROVE  p = q
BY DEF Holder

(* What a checkpoint makes durable is in the file, and fits the image.      *)
LEMMA Checkpoints ==
  ASSUME Inductive, NEW p \in Procs, pc[p] \in Streaming
  PROVE  /\ Checkpointed(p) \in [Tokens -> Nat]
         /\ \A t \in Tokens : Checkpointed(p)[t] <= Len(data[t])
         /\ \A t \in Tokens : Checkpointed(p)[t] <= Blocks
         /\ Checkpointed(p)[token[p]] = Len(data[token[p]])
<1>1. token[p] \in Tokens
  BY DEF Inductive, Opened
<1>2. Len(data[token[p]]) \in Nat /\ Len(data[token[p]]) <= Blocks
  BY <1>1 DEF Inductive, StreamIsFile, Fits, TypeOK
<1> QED
  BY <1>1, <1>2 DEF Inductive, TypeOK, Fits, Checkpointed

(* Every step keeps the types of the attempts. *)
LEMMA KeepsAttempts == Inductive /\ [Next]_vars => AttemptTypes'
<1> SUFFICES ASSUME Inductive, [Next]_vars PROVE AttemptTypes'
  OBVIOUS
<1> AttemptTypes /\ CacheTypes /\ FileTypes
  BY TypeParts DEF Inductive
<1> USE DownloadAssumption DEF Inductive, session, dirs, files
<1>1. ASSUME NEW p \in Procs, Start(p) PROVE AttemptTypes'
  BY <1>1 DEF Start, Goto, Fault, AttemptTypes, Places
<1>2. ASSUME NEW p \in Procs, TakeLock(p) PROVE AttemptTypes'
  <2>1. CASE lock = NoProc
    BY <1>2, <2>1, GotoTypes DEF TakeLock, AttemptTypes, Places
  <2>2. CASE ~(lock = NoProc)
    BY <1>2, <2>2, ReturnTypes DEF TakeLock
  <2> QED
    BY <2>1, <2>2
<1>3. ASSUME NEW p \in Procs, Lookup(p) PROVE AttemptTypes'
  <2>1. \E next \in {"pointer", "cached", "repair"} : Goto(p, next)
    BY <1>3 DEF Lookup
  <2> QED
    BY <1>3, <2>1, GotoTypes DEF AttemptTypes, Lookup, Places
<1>4. ASSUME NEW p \in Procs, Repair(p) PROVE AttemptTypes'
  BY <1>4 DEF Repair, Goto, Fault, AttemptTypes, Places
<1>5. ASSUME NEW p \in Procs, AuthenticateCached(p) PROVE AttemptTypes'
  <2>1. CASE Whole(data[artifact])
    BY <1>5, <2>1, GotoTypes
       DEF AuthenticateCached, Authentic, AttemptTypes, Places
  <2>2. CASE ~(Whole(data[artifact]))
    BY <1>5, <2>2, ReturnTypes DEF AuthenticateCached, Authentic
  <2> QED
    BY <2>1, <2>2
<1>6. ASSUME NEW p \in Procs, Resume(p) PROVE AttemptTypes'
  <2>1. pc' \in [Procs -> Places]
    <3>1. \E next \in {"begin", "request", "stale"} : Goto(p, next)
      BY <1>6 DEF Resume
    <3> QED
      BY <3>1, GotoTypes DEF Places
  <2>2. token' = token \/ (pointer \in Tokens /\ token' = [token EXCEPT ![p] = pointer])
    BY <1>6 DEF Resume, CacheTypes
  <2>3. hashed' = hashed \/ (pointer \in Tokens /\ hashed' = [hashed EXCEPT ![p] = data[pointer]])
    BY <1>6 DEF Resume, CacheTypes
  <2>4. hashed' \in [Procs -> Seq(BOOLEAN)]
    BY <2>3 DEF AttemptTypes, FileTypes
  <2> QED
    BY <1>6, <2>1, <2>2, <2>4 DEF AttemptTypes, Resume
<1>7. ASSUME NEW p \in Procs, BeginPartial(p) PROVE AttemptTypes'
  BY <1>7 DEF BeginPartial, Goto, Fault, AttemptTypes, Places
<1>8. ASSUME NEW p \in Procs, CreateState(p) PROVE AttemptTypes'
  BY <1>8 DEF CreateState, Goto, Fault, AttemptTypes, Places
<1>9. ASSUME NEW p \in Procs, WriteState(p) PROVE AttemptTypes'
  BY <1>9 DEF WriteState, Goto, Fault, AttemptTypes, Places
<1>10. ASSUME NEW p \in Procs, CreatePointer(p) PROVE AttemptTypes'
  BY <1>10 DEF CreatePointer, Goto, Fault, AttemptTypes, Places
<1>11. ASSUME NEW p \in Procs, WritePointer(p) PROVE AttemptTypes'
  BY <1>11 DEF WritePointer, Goto, Fault, AttemptTypes, Places
<1>12. ASSUME NEW p \in Procs, RemovePointer(p) PROVE AttemptTypes'
  <2>1. CASE pc[p] # "spoiled"
    BY <1>12, <2>1, GotoTypes DEF RemovePointer, AttemptTypes, Places
  <2>2. CASE ~(pc[p] # "spoiled")
    BY <1>12, <2>2, ReturnTypes DEF RemovePointer
  <2> QED
    BY <2>1, <2>2
<1>13. ASSUME NEW p \in Procs, Ask(p) PROVE AttemptTypes'
  <2>1. \E next \in {"check", "transfer", "discard"} : Goto(p, next)
    BY <1>13 DEF Ask
  <2>2. body' \in [Procs -> BOOLEAN]
    BY <1>13 DEF Ask, AttemptTypes
  <2> QED
    BY <1>13, <2>1, <2>2, GotoTypes DEF AttemptTypes, Ask, Places
<1>14. ASSUME NEW p \in Procs, Receive(p) PROVE AttemptTypes'
  <2>1. PICK right \in BOOLEAN : hashed' = [hashed EXCEPT ![p] = Append(@, right)]
    BY <1>14 DEF Receive, Appended
  <2>2. hashed' \in [Procs -> Seq(BOOLEAN)]
    BY <2>1 DEF AttemptTypes
  <2> QED
    BY <1>14, <2>2 DEF AttemptTypes, Receive, Appended
<1>15. ASSUME NEW p \in Procs, Received(p) PROVE AttemptTypes'
  <2>1. CASE Return(p, "error")
    BY <2>1, ReturnTypes
  <2>2. CASE Goto(p, "check") /\ body' = [body EXCEPT ![p] = FALSE]
             /\ UNCHANGED <<token, hashed, cancel, result, lock>>
    BY <2>2, GotoTypes DEF AttemptTypes, Places
  <2> QED
    BY <1>15, <2>1, <2>2 DEF Received
<1>16. ASSUME NEW p \in Procs, Check(p) PROVE AttemptTypes'
  <2>1. \E next \in {"authenticate", "discard"} : Goto(p, next)
    BY <1>16 DEF Check, Verified
  <2> QED
    BY <1>16, <2>1, GotoTypes DEF AttemptTypes, Check, Verified, Places
<1>17. ASSUME NEW p \in Procs, Discard(p) PROVE AttemptTypes'
  <2>1. \E next \in {"discarded", "begin", "spoiled"} : Goto(p, next)
    BY <1>17 DEF Discard
  <2>2. token' = token \/ token' = [token EXCEPT ![p] = NoToken]
    BY <1>17 DEF Discard
  <2>3. hashed' = hashed \/ hashed' = [hashed EXCEPT ![p] = <<>>]
    BY <1>17 DEF Discard
  <2>4. token' \in [Procs -> Tokens \cup {NoToken}]
    BY <2>2 DEF AttemptTypes
  <2>5. hashed' \in [Procs -> Seq(BOOLEAN)]
    <3>1. <<>> \in Seq(BOOLEAN)
      OBVIOUS
    <3>2. CASE hashed' = [hashed EXCEPT ![p] = <<>>]
      BY <3>1, <3>2 DEF AttemptTypes
    <3> QED
      BY <2>3, <3>2 DEF AttemptTypes
  <2> QED
    BY <1>17, <2>1, <2>4, <2>5, GotoTypes DEF AttemptTypes, Discard, Places
<1>18. ASSUME NEW p \in Procs, Authenticate(p) PROVE AttemptTypes'
  <2>1. CASE Whole(data[token[p]])
    BY <1>18, <2>1, GotoTypes DEF Authenticate, Authentic, AttemptTypes, Places
  <2>2. CASE ~(Whole(data[token[p]]))
    BY <1>18, <2>2, ReturnTypes DEF Authenticate, Authentic
  <2> QED
    BY <2>1, <2>2
<1>19. ASSUME NEW p \in Procs, Promote(p) PROVE AttemptTypes'
  <2>1. CASE artifact = NoToken \/ Whole(data[artifact])
    BY <1>19, <2>1, GotoTypes DEF Promote, AttemptTypes, Places
  <2>2. CASE ~(artifact = NoToken \/ Whole(data[artifact]))
    BY <1>19, <2>2, ReturnTypes DEF Promote
  <2> QED
    BY <2>1, <2>2
<1>20. ASSUME NEW p \in Procs, Tidy(p) PROVE AttemptTypes'
  BY <1>20 DEF Tidy, Goto, Fault, AttemptTypes, Places
<1>21. ASSUME NEW p \in Procs, Deliver(p) PROVE AttemptTypes'
  BY <1>21, ReturnTypes DEF Deliver
<1>22. ASSUME NEW p \in Procs, Cancelled(p) PROVE AttemptTypes'
  BY <1>22, ReturnTypes DEF Cancelled
<1>23. ASSUME NEW p \in Procs, Cancel(p) PROVE AttemptTypes'
  BY <1>23 DEF Cancel, Goto, Fault, AttemptTypes, Places
<1>24. ASSUME NEW p \in Procs, Fail(p) PROVE AttemptTypes'
  BY <1>24, ReturnTypes DEF Fail
<1>25. ASSUME NEW p \in Procs, Kill(p) PROVE AttemptTypes'
  BY <1>25, ReturnTypes DEF Kill
<1>26. CASE PowerLoss
  BY <1>26 DEF PowerLoss, AttemptTypes, Places
<1>27. ASSUME NEW t \in Tokens, Damage(t) PROVE AttemptTypes'
  BY <1>27 DEF Damage, AttemptTypes, attempt
<1>28. CASE UNCHANGED vars
  BY <1>28 DEF vars, attempt, AttemptTypes
<1> QED
  BY <1>1, <1>2, <1>3, <1>4, <1>5, <1>6, <1>7, <1>8, <1>9, <1>10, <1>11, <1>12, <1>13, <1>14, <1>15, <1>16, <1>17, <1>18, <1>19, <1>20, <1>21, <1>22, <1>23, <1>24, <1>25, <1>26, <1>27, <1>28 DEF Next, Attempt, Mishap

(* Every step keeps the types of the cache directory. *)
LEMMA KeepsCache == Inductive /\ [Next]_vars => CacheTypes'
<1> SUFFICES ASSUME Inductive, [Next]_vars PROVE CacheTypes'
  OBVIOUS
<1> AttemptTypes /\ CacheTypes /\ FileTypes
  BY TypeParts DEF Inductive
<1> USE DownloadAssumption DEF Inductive, session, dirs, files
<1>1. ASSUME NEW p \in Procs, Start(p) PROVE CacheTypes'
  BY <1>1 DEF Start, Fault, CacheTypes, Opened, AttemptTypes, Streaming
<1>2. ASSUME NEW p \in Procs, TakeLock(p) PROVE CacheTypes'
  BY <1>2 DEF TakeLock, Fault, CacheTypes, Opened, AttemptTypes, Streaming
<1>3. ASSUME NEW p \in Procs, Lookup(p) PROVE CacheTypes'
  BY <1>3 DEF Lookup, Fault, CacheTypes, Opened, AttemptTypes, Streaming
<1>4. ASSUME NEW p \in Procs, Repair(p) PROVE CacheTypes'
  BY <1>4 DEF Repair, Fault, CacheTypes, Opened, AttemptTypes, Streaming
<1>5. ASSUME NEW p \in Procs, AuthenticateCached(p) PROVE CacheTypes'
  BY <1>5
     DEF AuthenticateCached, Authentic, Fault, CacheTypes, Opened,
         AttemptTypes, Streaming
<1>6. ASSUME NEW p \in Procs, Resume(p) PROVE CacheTypes'
  BY <1>6 DEF Resume, Fault, CacheTypes, Opened, AttemptTypes, Streaming
<1>7. ASSUME NEW p \in Procs, BeginPartial(p) PROVE CacheTypes'
  BY <1>7 DEF BeginPartial, Fault, CacheTypes, Opened, AttemptTypes, Streaming
<1>8. ASSUME NEW p \in Procs, CreateState(p) PROVE CacheTypes'
  BY <1>8 DEF CreateState, Fault, CacheTypes, Opened, AttemptTypes, Streaming
<1>9. ASSUME NEW p \in Procs, WriteState(p) PROVE CacheTypes'
  BY <1>9 DEF WriteState, Fault, CacheTypes, Opened, AttemptTypes, Streaming
<1>10. ASSUME NEW p \in Procs, CreatePointer(p) PROVE CacheTypes'
  BY <1>10
     DEF CreatePointer, Fault, CacheTypes, Opened, AttemptTypes, Streaming
<1>11. ASSUME NEW p \in Procs, WritePointer(p) PROVE CacheTypes'
  BY <1>11 DEF WritePointer, Fault, CacheTypes, Opened, AttemptTypes, Streaming
<1>12. ASSUME NEW p \in Procs, RemovePointer(p) PROVE CacheTypes'
  BY <1>12
     DEF RemovePointer, Fault, CacheTypes, Opened, AttemptTypes, Streaming
<1>13. ASSUME NEW p \in Procs, Ask(p) PROVE CacheTypes'
  BY <1>13 DEF Ask, Fault, CacheTypes, Opened, AttemptTypes, Streaming
<1>14. ASSUME NEW p \in Procs, Receive(p) PROVE CacheTypes'
  BY <1>14
     DEF Receive, Appended, Fault, CacheTypes, Opened, AttemptTypes, Streaming
<1>15. ASSUME NEW p \in Procs, Received(p) PROVE CacheTypes'
  BY <1>15 DEF Received, Fault, CacheTypes, Opened, AttemptTypes, Streaming
<1>16. ASSUME NEW p \in Procs, Check(p) PROVE CacheTypes'
  BY <1>16
     DEF Check, Verified, Fault, CacheTypes, Opened, AttemptTypes, Streaming
<1>17. ASSUME NEW p \in Procs, Discard(p) PROVE CacheTypes'
  BY <1>17 DEF Discard, Fault, CacheTypes, Opened, AttemptTypes, Streaming
<1>18. ASSUME NEW p \in Procs, Authenticate(p) PROVE CacheTypes'
  BY <1>18
     DEF Authenticate, Authentic, Fault, CacheTypes, Opened, AttemptTypes,
         Streaming
<1>19. ASSUME NEW p \in Procs, Promote(p) PROVE CacheTypes'
  BY <1>19 DEF Promote, Fault, CacheTypes, Opened, AttemptTypes, Streaming
<1>20. ASSUME NEW p \in Procs, Tidy(p) PROVE CacheTypes'
  BY <1>20 DEF Tidy, Fault, CacheTypes, Opened, AttemptTypes, Streaming
<1>21. ASSUME NEW p \in Procs, Deliver(p) PROVE CacheTypes'
  BY <1>21 DEF Deliver, Fault, CacheTypes, Opened, AttemptTypes, Streaming
<1>22. ASSUME NEW p \in Procs, Cancelled(p) PROVE CacheTypes'
  BY <1>22 DEF Cancelled, Fault, CacheTypes, Opened, AttemptTypes, Streaming
<1>23. ASSUME NEW p \in Procs, Cancel(p) PROVE CacheTypes'
  BY <1>23 DEF Cancel, Fault, CacheTypes, Opened, AttemptTypes, Streaming
<1>24. ASSUME NEW p \in Procs, Fail(p) PROVE CacheTypes'
  <2>1. partial' \subseteq partial
    BY <1>24 DEF Fail
  <2>2. faults' \in 0 .. MaxFaults
    BY <1>24 DEF Fail, Fault, CacheTypes
  <2> QED
    BY <1>24, <2>1, <2>2 DEF Fail, CacheTypes
<1>25. ASSUME NEW p \in Procs, Kill(p) PROVE CacheTypes'
  BY <1>25 DEF Kill, Fault, CacheTypes, Opened, AttemptTypes, Streaming
<1>26. CASE PowerLoss
  BY <1>26 DEF PowerLoss, Fault, CacheTypes
<1>27. ASSUME NEW t \in Tokens, Damage(t) PROVE CacheTypes'
  BY <1>27 DEF Damage, Fault, CacheTypes
<1>28. CASE UNCHANGED vars
  BY <1>28 DEF vars, CacheTypes
<1> QED
  BY <1>1, <1>2, <1>3, <1>4, <1>5, <1>6, <1>7, <1>8, <1>9, <1>10, <1>11, <1>12, <1>13, <1>14, <1>15, <1>16, <1>17, <1>18, <1>19, <1>20, <1>21, <1>22, <1>23, <1>24, <1>25, <1>26, <1>27, <1>28 DEF Next, Attempt, Mishap

(* Appending a block to the file of an open session.                        *)
LEMMA Appending ==
  ASSUME Inductive, NEW p \in Procs, pc[p] \in Streaming, NEW block \in BOOLEAN,
         data' = [data EXCEPT ![token[p]] = Append(@, block)]
  PROVE  /\ data' \in [Tokens -> Seq(BOOLEAN)]
         /\ \A t \in Tokens : synced[t] <= Len(data'[t])
<1>1. token[p] \in Tokens
  BY DEF Inductive, Opened
<1>2. /\ Append(data[token[p]], block) \in Seq(BOOLEAN)
      /\ Len(Append(data[token[p]], block)) = Len(data[token[p]]) + 1
  BY <1>1 DEF Inductive, TypeOK
<1> QED
  BY <1>1, <1>2 DEF Inductive, TypeOK

(* Every step keeps the types of the files. *)
LEMMA KeepsFiles == Inductive /\ [Next]_vars => FileTypes'
<1> SUFFICES ASSUME Inductive, [Next]_vars PROVE FileTypes'
  OBVIOUS
<1> AttemptTypes /\ CacheTypes /\ FileTypes
  BY TypeParts DEF Inductive
<1> USE DownloadAssumption DEF Inductive, dirs, files
<1>1. ASSUME NEW p \in Procs, Start(p) PROVE FileTypes'
  BY <1>1 DEF Start, FileTypes
<1>2. ASSUME NEW p \in Procs, TakeLock(p) PROVE FileTypes'
  BY <1>2 DEF TakeLock, FileTypes
<1>3. ASSUME NEW p \in Procs, Lookup(p) PROVE FileTypes'
  BY <1>3 DEF Lookup, FileTypes
<1>4. ASSUME NEW p \in Procs, Repair(p) PROVE FileTypes'
  BY <1>4 DEF Repair, FileTypes
<1>5. ASSUME NEW p \in Procs, AuthenticateCached(p) PROVE FileTypes'
  BY <1>5 DEF AuthenticateCached, Authentic, FileTypes
<1>6. ASSUME NEW p \in Procs, Resume(p) PROVE FileTypes'
  BY <1>6 DEF Resume, FileTypes
<1>7. ASSUME NEW p \in Procs, BeginPartial(p) PROVE FileTypes'
  BY <1>7 DEF BeginPartial, FileTypes
<1>8. ASSUME NEW p \in Procs, CreateState(p) PROVE FileTypes'
  BY <1>8 DEF CreateState, FileTypes
<1>9. ASSUME NEW p \in Procs, WriteState(p) PROVE FileTypes'
  BY <1>9 DEF WriteState, FileTypes
<1>10. ASSUME NEW p \in Procs, CreatePointer(p) PROVE FileTypes'
  BY <1>10 DEF CreatePointer, FileTypes
<1>11. ASSUME NEW p \in Procs, WritePointer(p) PROVE FileTypes'
  BY <1>11 DEF WritePointer, FileTypes
<1>12. ASSUME NEW p \in Procs, RemovePointer(p) PROVE FileTypes'
  BY <1>12 DEF RemovePointer, FileTypes
<1>13. ASSUME NEW p \in Procs, Ask(p) PROVE FileTypes'
  BY <1>13 DEF Ask, FileTypes
<1>14. ASSUME NEW p \in Procs, Receive(p) PROVE FileTypes'
  <2>1. PICK right \in BOOLEAN : data' = [data EXCEPT ![token[p]] = Append(@, right)]
    BY <1>14 DEF Receive, Appended
  <2>2. pc[p] \in Streaming /\ token[p] \in Tokens
    BY <1>14 DEF Receive, Appended, Opened, Streaming
  <2>3. /\ data' \in [Tokens -> Seq(BOOLEAN)]
        /\ \A t \in Tokens : synced[t] <= Len(data'[t])
    BY <2>1, <2>2, Appending
  <2>4. CASE synced' = synced
    BY <2>3, <2>4 DEF FileTypes
  <2>5. CASE synced' = [synced EXCEPT ![token[p]] = Len(data'[token[p]])]
    BY <2>2, <2>3, <2>5 DEF FileTypes
  <2> QED
    BY <1>14, <2>4, <2>5 DEF Receive, Appended
<1>15. ASSUME NEW p \in Procs, Received(p) PROVE FileTypes'
  <2>1. pc[p] \in Streaming /\ synced' = Checkpointed(p) /\ data' = data
    BY <1>15 DEF Received, Streaming
  <2> QED
    BY <2>1, Checkpoints DEF FileTypes
<1>16. ASSUME NEW p \in Procs, Check(p) PROVE FileTypes'
  <2>1. pc[p] \in Streaming /\ synced' = Checkpointed(p) /\ data' = data
    BY <1>16 DEF Check, Verified, Streaming
  <2> QED
    BY <2>1, Checkpoints DEF FileTypes
<1>17. ASSUME NEW p \in Procs, Discard(p) PROVE FileTypes'
  BY <1>17 DEF Discard, FileTypes
<1>18. ASSUME NEW p \in Procs, Authenticate(p) PROVE FileTypes'
  BY <1>18 DEF Authenticate, Authentic, FileTypes
<1>19. ASSUME NEW p \in Procs, Promote(p) PROVE FileTypes'
  <2>1. pc[p] \in Streaming /\ synced' = Checkpointed(p) /\ data' = data
    BY <1>19 DEF Promote, Streaming
  <2> QED
    BY <2>1, Checkpoints DEF FileTypes
<1>20. ASSUME NEW p \in Procs, Tidy(p) PROVE FileTypes'
  BY <1>20 DEF Tidy, FileTypes
<1>21. ASSUME NEW p \in Procs, Deliver(p) PROVE FileTypes'
  BY <1>21 DEF Deliver, FileTypes
<1>22. ASSUME NEW p \in Procs, Cancelled(p) PROVE FileTypes'
  <2>1. CASE synced' = synced
    BY <1>22, <2>1 DEF Cancelled, FileTypes
  <2>2. CASE synced' # synced
    <3>1. pc[p] \in Streaming /\ synced' = Checkpointed(p) /\ data' = data
      BY <1>22, <2>2 DEF Cancelled, Streaming
    <3> QED
      BY <3>1, Checkpoints DEF FileTypes
  <2> QED
    BY <2>1, <2>2
<1>23. ASSUME NEW p \in Procs, Cancel(p) PROVE FileTypes'
  BY <1>23 DEF Cancel, FileTypes
<1>24. ASSUME NEW p \in Procs, Fail(p) PROVE FileTypes'
  <2>1. CASE UNCHANGED <<data, synced>>
    BY <2>1 DEF FileTypes
  <2>2. CASE /\ pc[p] = "transfer"
             /\ data' = [data EXCEPT ![token[p]] = Append(@, TRUE)]
             /\ UNCHANGED synced
    BY <2>2, Appending DEF Streaming, FileTypes
  <2>3. CASE pc[p] = "transfer" /\ synced' = Checkpointed(p) /\ UNCHANGED data
    BY <2>3, Checkpoints DEF FileTypes, Streaming
  <2> QED
    BY <1>24, <2>1, <2>2, <2>3 DEF Fail
<1>25. ASSUME NEW p \in Procs, Kill(p) PROVE FileTypes'
  BY <1>25 DEF Kill, FileTypes
<1>26. CASE PowerLoss
  <2>1. \A t \in Tokens : synced[t] \in Nat /\ synced[t] <= Len(data[t])
    BY DEF FileTypes
  <2>2. CASE data' = [t \in Tokens |-> SubSeq(data[t], 1, synced[t])]
    <3>1. \A t \in Tokens : data'[t] \in Seq(BOOLEAN) /\ Len(data'[t]) = synced[t]
      BY <2>1, <2>2 DEF FileTypes
    <3> QED
      BY <1>26, <2>2, <3>1 DEF PowerLoss, FileTypes
  <2>3. CASE data' = [t \in Tokens |->
                        [i \in 1 .. Len(data[t]) |-> i <= synced[t] /\ data[t][i]]]
    <3>1. ASSUME NEW t \in Tokens
          PROVE  data'[t] \in Seq(BOOLEAN) /\ Len(data'[t]) = Len(data[t])
      <4> DEFINE n == Len(data[t])
                 mixed == [i \in 1 .. n |-> i <= synced[t] /\ data[t][i]]
      <4>1. n \in Nat /\ data'[t] = mixed
        BY <2>3 DEF FileTypes
      <4>2. mixed \in [1 .. n -> BOOLEAN]
        <5> HIDE DEF n
        <5> QED
          BY Zenon
      <4> HIDE DEF mixed, n
      <4>3. mixed \in Seq(BOOLEAN) /\ Len(mixed) = n
        BY <4>1, <4>2
      <4> QED
        BY <4>1, <4>3 DEF n
    <3> QED
      BY <1>26, <2>1, <2>3, <3>1 DEF PowerLoss, FileTypes
  <2> QED
    BY <1>26, <2>2, <2>3 DEF PowerLoss
<1>27. ASSUME NEW t \in Tokens, Damage(t) PROVE FileTypes'
  <2>1. CASE data' = [data EXCEPT ![t][1] = FALSE]
    <3>1. /\ [data[t] EXCEPT ![1] = FALSE] \in Seq(BOOLEAN)
          /\ Len([data[t] EXCEPT ![1] = FALSE]) = Len(data[t])
      <4>1. PICK n \in Nat : n = Len(data[t]) /\ data[t] \in [1 .. n -> BOOLEAN]
        BY DEF FileTypes
      <4>2. [data[t] EXCEPT ![1] = FALSE] \in [1 .. n -> BOOLEAN]
        BY <4>1
      <4> QED
        BY <4>1, <4>2
    <3> QED
      BY <1>27, <2>1, <3>1 DEF Damage, FileTypes
  <2>2. CASE data' = [data EXCEPT ![t] = [i \in 1 .. Blocks + 1 |-> TRUE]]
    <3>1. /\ [i \in 1 .. Blocks + 1 |-> TRUE] \in Seq(BOOLEAN)
          /\ Len([i \in 1 .. Blocks + 1 |-> TRUE]) = Blocks + 1
      OBVIOUS
    <3> QED
      BY <1>27, <2>2, <3>1 DEF Damage, FileTypes, Fits
  <2> QED
    BY <1>27, <2>1, <2>2 DEF Damage
<1>28. CASE UNCHANGED vars
  BY <1>28 DEF vars, FileTypes
<1> QED
  BY <1>1, <1>2, <1>3, <1>4, <1>5, <1>6, <1>7, <1>8, <1>9, <1>10, <1>11, <1>12, <1>13, <1>14, <1>15, <1>16, <1>17, <1>18, <1>19, <1>20, <1>21, <1>22, <1>23, <1>24, <1>25, <1>26, <1>27, <1>28 DEF Next, Attempt, Mishap

LEMMA KeepsTypes == Inductive /\ [Next]_vars => TypeOK'
BY KeepsAttempts, KeepsCache, KeepsFiles, TypeParts DEF AttemptTypes,
   CacheTypes, FileTypes, TypeOK

-----------------------------------------------------------------------------
(* The lock, and what an attempt past it has found.                         *)

(* Only the holder of the lock goes past it. *)
LEMMA KeepsLock == Inductive /\ [Next]_vars => Holder'
<1> SUFFICES ASSUME Inductive, [Next]_vars PROVE Holder'
  OBVIOUS
<1> AttemptTypes
  BY TypeParts DEF Inductive
<1> USE DownloadAssumption DEF Inductive, session
<1>1. ASSUME NEW p \in Procs, Start(p) PROVE Holder'
  BY <1>1 DEF Start, Goto, Holder, AttemptTypes
<1>2. ASSUME NEW p \in Procs, TakeLock(p) PROVE Holder'
  <2>1. CASE lock = NoProc
    BY <1>2, <2>1 DEF TakeLock, Goto, Holder, AttemptTypes
  <2>2. CASE lock # NoProc
    BY <1>2, <2>2, Returned DEF TakeLock, Holder
  <2> QED
    BY <2>1, <2>2
<1>3. ASSUME NEW p \in Procs, Lookup(p) PROVE Holder'
  BY <1>3 DEF Lookup, Goto, Holder, AttemptTypes
<1>4. ASSUME NEW p \in Procs, Repair(p) PROVE Holder'
  BY <1>4 DEF Repair, Goto, Holder, AttemptTypes
<1>5. ASSUME NEW p \in Procs, AuthenticateCached(p) PROVE Holder'
  <2>1. CASE \E r : Return(p, r)
    BY <2>1, Returned DEF Holder
  <2>2. CASE ~(\E r : Return(p, r))
    BY <1>5, <2>2 DEF AuthenticateCached, Authentic, Goto, Holder, AttemptTypes
  <2> QED
    BY <2>1, <2>2
<1>6. ASSUME NEW p \in Procs, Resume(p) PROVE Holder'
  BY <1>6 DEF Resume, Goto, Holder, AttemptTypes
<1>7. ASSUME NEW p \in Procs, BeginPartial(p) PROVE Holder'
  BY <1>7 DEF BeginPartial, Goto, Holder, AttemptTypes
<1>8. ASSUME NEW p \in Procs, CreateState(p) PROVE Holder'
  BY <1>8 DEF CreateState, Goto, Holder, AttemptTypes
<1>9. ASSUME NEW p \in Procs, WriteState(p) PROVE Holder'
  BY <1>9 DEF WriteState, Goto, Holder, AttemptTypes
<1>10. ASSUME NEW p \in Procs, CreatePointer(p) PROVE Holder'
  BY <1>10 DEF CreatePointer, Goto, Holder, AttemptTypes
<1>11. ASSUME NEW p \in Procs, WritePointer(p) PROVE Holder'
  BY <1>11 DEF WritePointer, Goto, Holder, AttemptTypes
<1>12. ASSUME NEW p \in Procs, RemovePointer(p) PROVE Holder'
  <2>1. CASE \E r : Return(p, r)
    BY <2>1, Returned DEF Holder
  <2>2. CASE ~(\E r : Return(p, r))
    BY <1>12, <2>2 DEF RemovePointer, Goto, Holder, AttemptTypes
  <2> QED
    BY <2>1, <2>2
<1>13. ASSUME NEW p \in Procs, Ask(p) PROVE Holder'
  BY <1>13 DEF Ask, Goto, Holder, AttemptTypes
<1>14. ASSUME NEW p \in Procs, Receive(p) PROVE Holder'
  BY <1>14 DEF Receive, Appended, Goto, Holder, AttemptTypes
<1>15. ASSUME NEW p \in Procs, Received(p) PROVE Holder'
  <2>1. CASE \E r : Return(p, r)
    BY <2>1, Returned DEF Holder
  <2>2. CASE ~(\E r : Return(p, r))
    BY <1>15, <2>2 DEF Received, Goto, Holder, AttemptTypes
  <2> QED
    BY <2>1, <2>2
<1>16. ASSUME NEW p \in Procs, Check(p) PROVE Holder'
  BY <1>16 DEF Check, Verified, Goto, Holder, AttemptTypes
<1>17. ASSUME NEW p \in Procs, Discard(p) PROVE Holder'
  BY <1>17 DEF Discard, Goto, Holder, AttemptTypes
<1>18. ASSUME NEW p \in Procs, Authenticate(p) PROVE Holder'
  <2>1. CASE \E r : Return(p, r)
    BY <2>1, Returned DEF Holder
  <2>2. CASE ~(\E r : Return(p, r))
    BY <1>18, <2>2 DEF Authenticate, Authentic, Goto, Holder, AttemptTypes
  <2> QED
    BY <2>1, <2>2
<1>19. ASSUME NEW p \in Procs, Promote(p) PROVE Holder'
  <2>1. CASE \E r : Return(p, r)
    BY <2>1, Returned DEF Holder
  <2>2. CASE ~(\E r : Return(p, r))
    BY <1>19, <2>2 DEF Promote, Goto, Holder, AttemptTypes
  <2> QED
    BY <2>1, <2>2
<1>20. ASSUME NEW p \in Procs, Tidy(p) PROVE Holder'
  BY <1>20 DEF Tidy, Goto, Holder, AttemptTypes
<1>21. ASSUME NEW p \in Procs, Deliver(p) PROVE Holder'
  BY <1>21, Returned DEF Deliver, Holder
<1>22. ASSUME NEW p \in Procs, Cancelled(p) PROVE Holder'
  BY <1>22, Returned DEF Cancelled, Holder
<1>23. ASSUME NEW p \in Procs, Cancel(p) PROVE Holder'
  BY <1>23 DEF Cancel, Goto, Holder, AttemptTypes
<1>24. ASSUME NEW p \in Procs, Fail(p) PROVE Holder'
  BY <1>24, Returned DEF Fail, Holder
<1>25. ASSUME NEW p \in Procs, Kill(p) PROVE Holder'
  BY <1>25, Returned DEF Kill, Holder
<1>26. CASE PowerLoss
  BY <1>26 DEF PowerLoss, Holder
<1>27. ASSUME NEW t \in Tokens, Damage(t) PROVE Holder'
  BY <1>27 DEF Damage, attempt, Holder
<1>28. CASE UNCHANGED vars
  BY <1>28 DEF vars, attempt, Holder
<1> QED
  BY <1>1, <1>2, <1>3, <1>4, <1>5, <1>6, <1>7, <1>8, <1>9, <1>10, <1>11, <1>12, <1>13, <1>14, <1>15, <1>16, <1>17, <1>18, <1>19, <1>20, <1>21, <1>22, <1>23, <1>24, <1>25, <1>26, <1>27, <1>28 DEF Next, Attempt, Mishap

-----------------------------------------------------------------------------
(* What an attempt knows: the parts of the invariant for one attempt.       *)
Own(p) ==
  /\ pc[p] \in Streaming \cup {"unlink", "unstate"} => token[p] \in Tokens
  /\ pc[p] \in Missing => artifact = NoToken
  /\ pc[p] \in Streaming => hashed[p] = data[token[p]] /\ Len(hashed[p]) <= Blocks
  /\ pc[p] \in Begun => token[p] \in partial
  /\ pc[p] \in Stated => stateFile[token[p]] = "valid"
  /\ pc[p] \in Pointed => pointer = token[p]
  /\ pc[p] = "promote" => data[token[p]] = Image
  /\ pc[p] \in Shown => artifact # NoToken /\ data[artifact] = Image

LEMMA OwnParts ==
  (\A p \in Procs : Own(p)) /\ (\A t \in Tokens : synced[t] <= Blocks)
    <=> Opened /\ NoEntry /\ StreamIsFile /\ Fits /\ Found /\ Vouched
         /\ Delivered
BY DEF Own, Opened, NoEntry, StreamIsFile, Fits, Found, Vouched, Delivered

(* A step of another attempt while q is past the lock touches no file and   *)
(* nothing of q.                                                            *)
LEMMA Bystander ==
  ASSUME Inductive, NEW p \in Procs, NEW q \in Procs, p # q,
         Attempt(p) \/ Cancel(p) \/ Fail(p) \/ Kill(p),
         pc[q] \notin {"idle", "lock"}
  PROVE  /\ UNCHANGED <<dirs, files>>
         /\ pc'[q] = pc[q] /\ token'[q] = token[q] /\ hashed'[q] = hashed[q]
<1>1. pc[p] \in {"idle", "lock"}
  BY Alone DEF Inductive
<1>2. AttemptTypes
  BY TypeParts DEF Inductive
<1>3. lock # NoProc
  BY DownloadAssumption DEF Inductive, Holder
<1>4. CASE Start(p)
  BY <1>2, <1>4 DEF Start, Goto, AttemptTypes, session
<1>5. CASE TakeLock(p)
  BY <1>2, <1>3, <1>5, Returned DEF TakeLock, files
<1>6. CASE Cancelled(p)
  BY <1>1, <1>2, <1>6, Returned DEF Cancelled, files
<1>7. CASE Cancel(p)
  BY <1>7 DEF Cancel, session
<1>8. CASE Fail(p)
  BY <1>1, <1>2, <1>8, Returned DEF Fail, dirs, files
<1>9. CASE Kill(p)
  BY <1>2, <1>9, Returned DEF Kill
<1>10. ~(\/ Lookup(p) \/ Repair(p) \/ AuthenticateCached(p) \/ Resume(p)
         \/ BeginPartial(p) \/ CreateState(p) \/ WriteState(p)
         \/ CreatePointer(p) \/ WritePointer(p) \/ RemovePointer(p))
  BY <1>1
     DEF Lookup, Repair, AuthenticateCached, Authentic, Resume, BeginPartial,
     CreateState, WriteState, CreatePointer, WritePointer, RemovePointer
<1>11. ~(\/ Ask(p) \/ Receive(p) \/ Received(p) \/ Check(p) \/ Discard(p)
         \/ Authenticate(p) \/ Promote(p) \/ Tidy(p) \/ Deliver(p))
  BY <1>1
     DEF Ask, Receive, Appended, Received, Check, Verified, Discard,
         Authenticate, Authentic, Promote,
     Tidy, Deliver
<1> QED
  BY <1>4, <1>5, <1>6, <1>7, <1>8, <1>9, <1>10, <1>11 DEF Attempt

LEMMA Idle == ASSUME NEW p \in Procs, pc'[p] = "idle" PROVE Own(p)'
BY DEF Own, Streaming, Missing, Begun, Stated, Pointed, Shown

(* A step of an attempt keeps what it knows.                                *)
LEMMA KeepsOwn ==
  ASSUME Inductive, NEW p \in Procs,
         Attempt(p) \/ Cancel(p) \/ Fail(p) \/ Kill(p)
  PROVE  Own(p)'
<1>1. Own(p) /\ AttemptTypes /\ CacheTypes /\ FileTypes
  BY OwnParts, TypeParts DEF Inductive
<1> USE DownloadAssumption, <1>1 DEF AttemptTypes, CacheTypes, FileTypes, session, dirs, files
<1>2. CASE Start(p)
  BY <1>2
     DEF Start, Goto, Own, Streaming, Missing, Begun, Stated, Pointed, Shown
<1>3. CASE TakeLock(p)
  <2>1. CASE \E r : Return(p, r)
    BY <2>1, Returned, Idle
  <2>2. CASE ~(\E r : Return(p, r))
    BY <1>3, <2>2
       DEF TakeLock, Goto, Own, Streaming, Missing, Begun, Stated, Pointed,
           Shown
  <2> QED
    BY <2>1, <2>2
<1>4. CASE Lookup(p)
  BY <1>4
     DEF Lookup, Whole, Goto, Own, Streaming, Missing, Begun, Stated, Pointed,
         Shown
<1>5. CASE Repair(p)
  BY <1>5
     DEF Repair, Goto, Own, Streaming, Missing, Begun, Stated, Pointed, Shown
<1>6. CASE AuthenticateCached(p)
  <2>1. CASE \E r : Return(p, r)
    BY <2>1, Returned, Idle
  <2>2. CASE ~(\E r : Return(p, r))
    BY <1>6, <2>2
       DEF AuthenticateCached, Authentic, Whole, Goto, Own, Streaming, Missing,
           Begun, Stated, Pointed, Shown
  <2> QED
    BY <2>1, <2>2
<1>7. CASE Resume(p)
  <2>1. CASE /\ pointer \in Tokens /\ Resumable(pointer)
             /\ Goto(p, "request")
             /\ token' = [token EXCEPT ![p] = pointer]
             /\ hashed' = [hashed EXCEPT ![p] = data[pointer]]
             /\ pc[p] = "pointer"
    BY <1>7, <2>1
       DEF Resume, Resumable, Goto, Own, Streaming, Missing, Begun, Stated,
           Pointed, Shown
  <2>2. CASE /\ \/ Goto(p, "begin")
                \/ Goto(p, "stale")
             /\ pc[p] = "pointer"
    BY <1>7, <2>2
       DEF Resume, Goto, Own, Streaming, Missing, Begun, Stated, Pointed, Shown
  <2> QED
    BY <1>7, <2>1, <2>2 DEF Resume
<1>8. CASE BeginPartial(p)
  BY <1>8
     DEF BeginPartial, Goto, Own, Streaming, Missing, Begun, Stated, Pointed,
         Shown
<1>9. CASE CreateState(p)
  BY <1>9
     DEF CreateState, Goto, Own, Streaming, Missing, Begun, Stated, Pointed,
         Shown
<1>10. CASE WriteState(p)
  BY <1>10
     DEF WriteState, Goto, Own, Streaming, Missing, Begun, Stated, Pointed,
         Shown
<1>11. CASE CreatePointer(p)
  BY <1>11
     DEF CreatePointer, Goto, Own, Streaming, Missing, Begun, Stated, Pointed,
         Shown
<1>12. CASE WritePointer(p)
  BY <1>12
     DEF WritePointer, Goto, Own, Streaming, Missing, Begun, Stated, Pointed,
         Shown
<1>13. CASE RemovePointer(p)
  <2>1. CASE \E r : Return(p, r)
    BY <2>1, Returned, Idle
  <2>2. CASE ~(\E r : Return(p, r))
    BY <1>13, <2>2
       DEF RemovePointer, Goto, Own, Streaming, Missing, Begun, Stated,
           Pointed, Shown
  <2> QED
    BY <2>1, <2>2
<1>14. CASE Ask(p)
  BY <1>14
     DEF Ask, Goto, Own, Streaming, Missing, Begun, Stated, Pointed, Shown
<1>15. CASE Receive(p)
  BY <1>15
     DEF Receive, Appended, Goto, Own, Streaming, Missing, Begun, Stated,
         Pointed, Shown
<1>16. CASE Received(p)
  <2>1. CASE \E r : Return(p, r)
    BY <2>1, Returned, Idle
  <2>2. CASE ~(\E r : Return(p, r))
    BY <1>16, <2>2
       DEF Received, Goto, Own, Streaming, Missing, Begun, Stated, Pointed,
           Shown
  <2> QED
    BY <2>1, <2>2
<1>17. CASE Check(p)
  BY <1>17
     DEF Check, Verified, Goto, Own, Streaming, Missing, Begun, Stated,
         Pointed, Shown
<1>18. CASE Discard(p)
  BY <1>18
     DEF Discard, Goto, Own, Streaming, Missing, Begun, Stated, Pointed, Shown
<1>19. CASE Authenticate(p)
  <2>1. CASE \E r : Return(p, r)
    BY <2>1, Returned, Idle
  <2>2. CASE ~(\E r : Return(p, r))
    BY <1>19, <2>2
       DEF Authenticate, Authentic, Whole, Goto, Own, Streaming, Missing,
           Begun, Stated, Pointed, Shown
  <2> QED
    BY <2>1, <2>2
<1>20. CASE Promote(p)
  <2>1. CASE \E r : Return(p, r)
    BY <2>1, Returned, Idle
  <2>2. CASE ~(\E r : Return(p, r))
    BY <1>20, <2>2
       DEF Promote, Whole, Goto, Own, Streaming, Missing, Begun, Stated,
           Pointed, Shown
  <2> QED
    BY <2>1, <2>2
<1>21. CASE Tidy(p)
  BY <1>21
     DEF Tidy, Goto, Own, Streaming, Missing, Begun, Stated, Pointed, Shown
<1>22. CASE Deliver(p)
  BY <1>22, Returned, Idle DEF Deliver
<1>23. CASE Cancelled(p)
  BY <1>23, Returned, Idle DEF Cancelled
<1>24. CASE Cancel(p)
  BY <1>24
     DEF Cancel, Goto, Own, Streaming, Missing, Begun, Stated, Pointed, Shown
<1>25. CASE Fail(p)
  BY <1>25, Returned, Idle DEF Fail
<1>26. CASE Kill(p)
  BY <1>26, Returned, Idle DEF Kill
<1> QED
  BY <1>2, <1>3, <1>4, <1>5, <1>6, <1>7, <1>8, <1>9, <1>10, <1>11, <1>12,
     <1>13, <1>14, <1>15, <1>16, <1>17, <1>18, <1>19, <1>20, <1>21, <1>22,
     <1>23, <1>24, <1>25, <1>26 DEF Attempt

(* Nobody is moved by another attempt. *)
LEMMA OthersStay ==
  ASSUME Inductive, NEW p \in Procs,
         Attempt(p) \/ Cancel(p) \/ Fail(p) \/ Kill(p),
         NEW q \in Procs, q # p
  PROVE  pc'[q] = pc[q]
<1>1. Own(p) /\ AttemptTypes /\ CacheTypes /\ FileTypes
  BY OwnParts, TypeParts DEF Inductive
<1> USE <1>1 DEF AttemptTypes
<1>2. CASE Start(p) \/ Lookup(p) \/ Repair(p) \/ Resume(p) \/
           BeginPartial(p) \/ CreateState(p) \/ WriteState(p) \/
           CreatePointer(p) \/ WritePointer(p)
  BY <1>2 DEF Start, Lookup, Repair, Resume, BeginPartial, CreateState,
     WriteState, CreatePointer, WritePointer, Goto
<1>3. CASE Ask(p) \/ Check(p) \/ Discard(p) \/ Tidy(p)
  BY <1>3 DEF Ask, Check, Verified, Discard, Tidy, Goto
<1>4. CASE Receive(p) \/ Cancel(p)
  BY <1>4 DEF Receive, Appended, Cancel
<1>5. CASE Deliver(p) \/ Cancelled(p) \/ Fail(p) \/ Kill(p)
  BY <1>5, <1>1, Returned DEF Deliver, Cancelled, Fail, Kill
<1>6. CASE TakeLock(p)
  <2>1. (\E r : Return(p, r)) \/ (\E next : Goto(p, next))
    BY <1>6 DEF TakeLock
  <2> QED
    BY <1>1, <2>1, Returned DEF Goto
<1>7. CASE AuthenticateCached(p)
  <2>1. (\E r : Return(p, r)) \/ (\E next : Goto(p, next))
    BY <1>7 DEF AuthenticateCached, Authentic
  <2> QED
    BY <1>1, <2>1, Returned DEF Goto
<1>8. CASE RemovePointer(p)
  <2>1. (\E r : Return(p, r)) \/ (\E next : Goto(p, next))
    BY <1>8 DEF RemovePointer
  <2> QED
    BY <1>1, <2>1, Returned DEF Goto
<1>9. CASE Received(p)
  <2>1. (\E r : Return(p, r)) \/ (\E next : Goto(p, next))
    BY <1>9 DEF Received
  <2> QED
    BY <1>1, <2>1, Returned DEF Goto
<1>10. CASE Authenticate(p)
  <2>1. (\E r : Return(p, r)) \/ (\E next : Goto(p, next))
    BY <1>10 DEF Authenticate, Authentic
  <2> QED
    BY <1>1, <2>1, Returned DEF Goto
<1>11. CASE Promote(p)
  <2>1. (\E r : Return(p, r)) \/ (\E next : Goto(p, next))
    BY <1>11 DEF Promote
  <2> QED
    BY <1>1, <2>1, Returned DEF Goto
<1> QED
  BY <1>2, <1>3, <1>4, <1>5, <1>6, <1>7, <1>8, <1>9, <1>10, <1>11 DEF
     Attempt

(* No more than the image is ever synced. *)
LEMMA SyncedFits ==
  ASSUME Inductive, NEW p \in Procs,
         Attempt(p) \/ Cancel(p) \/ Fail(p) \/ Kill(p)
  PROVE  \A t \in Tokens : synced'[t] <= Blocks
<1>1. Own(p) /\ AttemptTypes /\ CacheTypes /\ FileTypes
  BY OwnParts, TypeParts DEF Inductive
<1>0. \A t \in Tokens : synced[t] <= Blocks
  BY DEF Inductive, Fits
<1>2. CASE Start(p) \/ TakeLock(p) \/ Lookup(p) \/ Repair(p) \/
           AuthenticateCached(p) \/ Resume(p) \/ CreateState(p) \/
           WriteState(p) \/ CreatePointer(p)
  BY <1>2, <1>0
     DEF Start, TakeLock, Lookup, Repair, AuthenticateCached, Authentic,
     Resume, CreateState, WriteState, CreatePointer, files
<1>3. CASE WritePointer(p) \/ RemovePointer(p) \/ Ask(p) \/ Discard(p) \/
           Authenticate(p) \/ Tidy(p) \/ Deliver(p) \/ Cancel(p) \/ Kill(p)
  BY <1>3, <1>0
     DEF WritePointer, RemovePointer, Ask, Discard, Authenticate, Authentic,
     Tidy, Deliver, Cancel, Kill, files
<1>4. CASE BeginPartial(p)
  <2>1. \E t \in Tokens : synced' = [synced EXCEPT ![t] = 0]
    BY <1>4 DEF BeginPartial
  <2> QED
    BY <1>1, <1>0, <2>1, DownloadAssumption DEF FileTypes
<1>5. CASE Receive(p)
  <2>1. /\ pc'[p] \in Streaming /\ Own(p)'
        /\ token' = token /\ token[p] \in Tokens
    BY <1>5, <1>1, KeepsOwn DEF Receive, Appended, Own, Streaming
  <2>2. Len(data'[token[p]]) <= Blocks
    BY <2>1 DEF Own
  <2>3. \/ synced' = synced
        \/ synced' = [synced EXCEPT ![token[p]] = Len(data'[token[p]])]
    BY <1>5 DEF Receive, Appended
  <2> QED
    BY <1>1, <1>0, <2>1, <2>2, <2>3 DEF FileTypes
<1>6. CASE Received(p)
  <2>1. pc[p] \in Streaming /\ synced' = Checkpointed(p)
    BY <1>6 DEF Received, Streaming
  <2> QED
    BY <2>1, Checkpoints
<1>7. CASE Check(p)
  <2>1. pc[p] \in Streaming /\ synced' = Checkpointed(p)
    BY <1>7 DEF Check, Verified, Streaming
  <2> QED
    BY <2>1, Checkpoints
<1>8. CASE Promote(p)
  <2>1. pc[p] \in Streaming /\ synced' = Checkpointed(p)
    BY <1>8 DEF Promote, Streaming
  <2> QED
    BY <2>1, Checkpoints
<1>9. CASE Cancelled(p)
  <2>1. synced' = synced \/ (pc[p] \in Streaming /\ synced' = Checkpointed(p))
    BY <1>9 DEF Cancelled, Streaming
  <2> QED
    BY <1>0, <2>1, Checkpoints
<1>10. CASE Fail(p)
  <2>1. synced' = synced \/ (pc[p] \in Streaming /\ synced' = Checkpointed(p))
    BY <1>10 DEF Fail, Streaming
  <2> QED
    BY <1>0, <2>1, Checkpoints
<1> QED
  BY <1>2, <1>3, <1>4, <1>5, <1>6, <1>7, <1>8, <1>9, <1>10 DEF Attempt

LEMMA KeepsAll == Inductive /\ [Next]_vars => (\A q \in Procs : Own(q)')
<1> SUFFICES ASSUME Inductive, [Next]_vars, NEW q \in Procs PROVE Own(q)'
  OBVIOUS
<1>1. /\ \A p \in Procs : Own(p)
      /\ \A t \in Tokens : synced[t] <= Blocks
  BY OwnParts DEF Inductive
<1>2. ASSUME NEW p \in Procs,
             Attempt(p) \/ Cancel(p) \/ Fail(p) \/ Kill(p)
      PROVE  Own(q)'
  <2>1. CASE q = p
    BY <1>2, <2>1, KeepsOwn
  <2>2. CASE q # p /\ pc[q] \notin {"idle", "lock"}
    BY <1>1, <1>2, <2>2, Bystander DEF Own, dirs, files
  <2>3. CASE q # p /\ pc[q] \in {"idle", "lock"}
    <3>1. pc'[q] \in {"idle", "lock"}
      BY <1>2, <2>3, OthersStay
    <3> QED
      BY <3>1 DEF Own, Streaming, Missing, Begun, Stated, Pointed, Shown
  <2> QED
    BY <2>1, <2>2, <2>3
<1>3. CASE PowerLoss
  BY <1>3, Idle DEF PowerLoss
<1>4. ASSUME NEW t \in Tokens, Damage(t) PROVE Own(q)'
  <2>1. pc[q] \in {"idle", "lock"}
    BY <1>4, DownloadAssumption DEF Damage, Inductive, Holder
  <2>2. pc'[q] \in {"idle", "lock"}
    BY <1>4, <2>1 DEF Damage, attempt
  <2> QED
    BY <2>2 DEF Own, Streaming, Missing, Begun, Stated, Pointed, Shown
<1>5. CASE UNCHANGED vars
  BY <1>1, <1>5 DEF vars, attempt, session, dirs, files, Own
<1> QED
  BY <1>2, <1>3, <1>4, <1>5 DEF Next, Mishap

LEMMA KeepsSynced ==
  Inductive /\ [Next]_vars => (\A t \in Tokens : synced'[t] <= Blocks)
<1> SUFFICES ASSUME Inductive, [Next]_vars
             PROVE  \A t \in Tokens : synced'[t] <= Blocks
  OBVIOUS
<1>1. \A t \in Tokens : synced[t] <= Blocks
  BY DEF Inductive, Fits
<1>2. ASSUME NEW p \in Procs,
             Attempt(p) \/ Cancel(p) \/ Fail(p) \/ Kill(p)
      PROVE  \A t \in Tokens : synced'[t] <= Blocks
  BY <1>2, SyncedFits
<1>3. CASE UNCHANGED synced
  BY <1>1, <1>3
<1> QED
  BY <1>2, <1>3 DEF Next, Mishap, PowerLoss, Damage, vars, files

-----------------------------------------------------------------------------
(* What is visible.                                                         *)

(* While an artifact is visible, no attempt writes to a file.               *)
LEMMA VisibleStays ==
  ASSUME Inductive, NEW p \in Procs, artifact # NoToken,
         Attempt(p) \/ Cancel(p) \/ Fail(p) \/ Kill(p)
  PROVE  UNCHANGED files /\ artifact' \in {artifact, NoToken}
<1>1. pc[p] \notin Missing
  BY DEF Inductive, NoEntry
<1>2. pc[p] \notin Streaming \cup {"pointer", "stale", "begin", "spoiled"}
  BY <1>1 DEF Missing
<1>3. ~(\/ Resume(p) \/ BeginPartial(p) \/ CreateState(p) \/ WriteState(p)
        \/ CreatePointer(p) \/ WritePointer(p) \/ Ask(p) \/ Receive(p)
        \/ Received(p) \/ Check(p) \/ Discard(p) \/ Authenticate(p)
        \/ Promote(p))
  BY <1>2 DEF Streaming, Resume, BeginPartial, CreateState, WriteState,
     CreatePointer, WritePointer, Ask, Receive, Appended, Received, Check, Verified, Discard,
     Authenticate, Authentic, Promote
<1>4. CASE Start(p) \/ TakeLock(p) \/ Lookup(p) \/ Repair(p)
             \/ AuthenticateCached(p)
  BY <1>4
     DEF Start, TakeLock, Lookup, Repair, AuthenticateCached, Authentic, dirs,
         files
<1>5. CASE RemovePointer(p) \/ Tidy(p) \/ Deliver(p) \/ Cancel(p) \/ Kill(p)
  BY <1>5 DEF RemovePointer, Tidy, Deliver, Cancel, Kill, dirs, files
<1>6. CASE Cancelled(p)
  BY <1>2, <1>6 DEF Cancelled, Streaming, dirs, files
<1>7. CASE Fail(p)
  BY <1>2, <1>7 DEF Fail, Streaming, files
<1> QED
  BY <1>3, <1>4, <1>5, <1>6, <1>7 DEF Attempt

(* Only a promotion makes an artifact visible, and then it is the image.    *)
LEMMA PromotedIsWhole ==
  ASSUME Inductive, NEW p \in Procs, artifact = NoToken,
         Attempt(p) \/ Cancel(p) \/ Fail(p) \/ Kill(p),
         artifact' # NoToken
  PROVE  data'[artifact'] = Image /\ synced'[artifact'] = Blocks
<1>1. Promote(p)
  BY DEF Attempt, Start, TakeLock, Lookup, Repair, AuthenticateCached, Authentic, Resume,
     BeginPartial, CreateState, WriteState, CreatePointer, WritePointer,
     RemovePointer, Ask, Receive, Appended, Received, Check, Verified, Discard, Authenticate, Authentic,
     Tidy, Deliver, Cancelled, Cancel, Fail, Kill, dirs
<1>2. /\ artifact' = token[p] /\ data' = data
      /\ synced' = Checkpointed(p) /\ pc[p] = "promote"
  BY <1>1 DEF Promote
<1>3. data[token[p]] = Image
  BY <1>2 DEF Inductive, Vouched
<1>4. Checkpointed(p)[token[p]] = Len(data[token[p]])
  BY <1>2, Checkpoints DEF Streaming
<1>5. Len(Image) = Blocks
  BY DownloadAssumption DEF Image
<1> QED
  BY <1>2, <1>3, <1>4, <1>5

LEMMA KeepsVisible == Inductive /\ [Next]_vars => VisibleIsWhole'
<1> SUFFICES ASSUME Inductive, [Next]_vars, (artifact # NoToken)',
                    (artifact \notin rotten)'
             PROVE  data'[artifact'] = Image /\ synced'[artifact'] = Blocks
  BY DEF VisibleIsWhole, Image
<1>1. VisibleIsWhole /\ artifact \in Tokens \cup {NoToken}
  BY DEF Inductive, TypeOK
<1>2. ASSUME NEW p \in Procs,
             Attempt(p) \/ Cancel(p) \/ Fail(p) \/ Kill(p)
      PROVE  data'[artifact'] = Image /\ synced'[artifact'] = Blocks
  <2>1. CASE artifact = NoToken
    BY <1>2, <2>1, PromotedIsWhole
  <2>2. CASE artifact # NoToken
    BY <1>1, <1>2, <2>2, VisibleStays DEF VisibleIsWhole, files
  <2> QED
    BY <2>1, <2>2
<1>3. CASE PowerLoss
  <2>1. /\ artifact' = artifact /\ synced' = synced /\ artifact \in Tokens
        /\ data[artifact] = Image /\ synced[artifact] = Blocks
    BY <1>1, <1>3 DEF PowerLoss, VisibleIsWhole, dirs
  <2>2. /\ SubSeq(Image, 1, Blocks) = Image
        /\ Len(Image) = Blocks
        /\ [i \in 1 .. Blocks |-> i <= Blocks /\ Image[i]] = Image
    <3>1. \A i \in 1 .. Blocks : (i <= Blocks /\ Image[i]) = TRUE
      BY DownloadAssumption DEF Image
    <3>2. /\ SubSeq(Image, 1, Blocks) = Image
          /\ Len(Image) = Blocks
      BY DownloadAssumption DEF Image
    <3> QED
      BY <3>1, <3>2 DEF Image
  <2> QED
    BY <1>3, <2>1, <2>2 DEF PowerLoss
<1>4. ASSUME NEW t \in Tokens, Damage(t)
      PROVE  data'[artifact'] = Image /\ synced'[artifact'] = Blocks
  <2>1. artifact' = artifact /\ synced' = synced /\ artifact # t
    BY <1>4 DEF Damage, dirs
  <2>2. artifact \notin rotten /\ artifact \in Tokens
    BY <1>1, <1>4, <2>1 DEF Damage
  <2>3. data'[artifact] = data[artifact]
    BY <1>4, <2>1, <2>2 DEF Damage, Inductive, TypeOK
  <2> QED
    BY <1>1, <2>1, <2>2, <2>3 DEF VisibleIsWhole
<1>5. CASE UNCHANGED vars
  BY <1>1, <1>5 DEF VisibleIsWhole, vars, dirs, files
<1> QED
  BY <1>2, <1>3, <1>4, <1>5 DEF Next, Mishap

-----------------------------------------------------------------------------
(* The invariant.                                                           *)

LEMMA InitInductive == Init => Inductive
<1> SUFFICES ASSUME Init PROVE Inductive
  OBVIOUS
<1> USE DownloadAssumption DEF Init
<1>1. <<>> \in Seq(BOOLEAN) /\ Len(<<>>) = 0
  OBVIOUS
<1>2. AttemptTypes
  BY <1>1 DEF AttemptTypes, Places
<1>3. CacheTypes
  BY DEF CacheTypes
<1>4. FileTypes
  BY <1>1 DEF FileTypes
<1>5. Holder /\ VisibleIsWhole
  BY DEF Holder, VisibleIsWhole
<1>6. /\ \A p \in Procs : Own(p)
      /\ \A t \in Tokens : synced[t] <= Blocks
  BY DEF Own, Streaming, Missing, Begun, Stated, Pointed, Shown
<1> QED
  BY <1>2, <1>3, <1>4, <1>5, <1>6, TypeParts, OwnParts DEF Inductive

LEMMA NextInductive == Inductive /\ [Next]_vars => Inductive'
<1> SUFFICES ASSUME Inductive, [Next]_vars PROVE Inductive'
  OBVIOUS
<1>1. /\ \A p \in Procs : Own(p)'
      /\ \A t \in Tokens : synced'[t] <= Blocks
  BY KeepsAll, KeepsSynced
<1>2. (/\ Opened /\ NoEntry /\ StreamIsFile /\ Fits /\ Found /\ Vouched
      /\ Delivered)'
  BY <1>1
     DEF Own, Opened, NoEntry, StreamIsFile, Fits, Found, Vouched, Delivered
<1> QED
  BY <1>2, KeepsTypes, KeepsLock, KeepsVisible DEF Inductive

LEMMA AlwaysInductive == Spec => []Inductive
BY InitInductive, NextInductive, PTL DEF Spec

(* Every state is well typed.                                               *)
THEOREM DownloadTypes == Spec => []TypeOK
<1>1. Inductive => TypeOK
  BY DEF Inductive
<1> QED
  BY <1>1, AlwaysInductive, PTL

(* The hash that decides on an image is that of the file that is linked.    *)
THEOREM DownloadStreams == Spec => []StreamIsFile
<1>1. Inductive => StreamIsFile
  BY DEF Inductive
<1> QED
  BY <1>1, AlwaysInductive, PTL

(* Whatever is stopped, lost, cancelled or repeated, only the release's     *)
(* image, safe from a power loss, becomes visible.                          *)
THEOREM DownloadShowsTheImage == Spec => []VisibleIsWhole
<1>1. Inductive => VisibleIsWhole
  BY DEF Inductive
<1> QED
  BY <1>1, AlwaysInductive, PTL

(* An attempt that receives or checks bytes can be stopped at any moment    *)
(* and found again.                                                         *)
THEOREM DownloadResumes == Spec => []SessionIsResumable
<1>1. Inductive => SessionIsResumable
  <2> SUFFICES ASSUME Inductive, NEW p \in Procs, pc[p] \in Pointed
               PROVE  pointer = token[p] /\ Resumable(pointer)
    BY DEF SessionIsResumable, Pointed
  <2>1. Own(p)
    BY OwnParts DEF Inductive
  <2> QED
    BY <2>1 DEF Own, Begun, Stated, Pointed, Shown, Streaming, Resumable
<1> QED
  BY <1>1, AlwaysInductive, PTL

(* What a call of download returns is the image when it returns.            *)
THEOREM DownloadReturnsTheImage == Spec => ReturnedIsWhole
<1>1. ASSUME Inductive, [Next]_vars, NEW q \in Procs,
             result[q] # "image", result'[q] = "image"
      PROVE  artifact' # NoToken /\ data'[artifact'] = Image
  <2>1. Own(q) /\ AttemptTypes
    BY <1>1, OwnParts, TypeParts DEF Inductive
  <2>2. PICK p \in Procs : Deliver(p) /\ p = q
    <3>1. ASSUME NEW p \in Procs, NEW r, Return(p, r) PROVE r = "image" /\ p = q
      BY <1>1, <2>1, <3>1 DEF Return, AttemptTypes
    <3>2. ~(PowerLoss \/ UNCHANGED vars \/ (\E t \in Tokens : Damage(t)))
      BY <1>1 DEF PowerLoss, Damage, vars, attempt
    <3>3. PICK p \in Procs : Attempt(p) \/ Cancel(p) \/ Fail(p) \/ Kill(p)
      BY <1>1, <3>2 DEF Next, Mishap
    <3>4. ~(Cancel(p) \/ Fail(p) \/ Kill(p) \/ Cancelled(p))
      <4>1. Cancel(p) => result' = result
        BY DEF Cancel
      <4>2. ~(Return(p, "error") \/ Return(p, "none") \/ Return(p, "cancelled"))
        BY <3>1
      <4> QED
        BY <1>1, <4>1, <4>2 DEF Fail, Kill, Cancelled
    <3>5. ~(Start(p) \/ TakeLock(p) \/ Lookup(p) \/ Repair(p)
            \/ AuthenticateCached(p) \/ Resume(p) \/ BeginPartial(p)
            \/ CreateState(p) \/ WriteState(p) \/ CreatePointer(p)
            \/ WritePointer(p))
      BY <1>1, <2>1, <3>1 DEF AttemptTypes, Start, TakeLock, Lookup, Repair,
         AuthenticateCached, Authentic, Resume, BeginPartial, CreateState, WriteState,
         CreatePointer, WritePointer
    <3>6. ~(RemovePointer(p) \/ Ask(p) \/ Receive(p) \/ Received(p)
            \/ Check(p) \/ Discard(p) \/ Authenticate(p) \/ Promote(p)
            \/ Tidy(p))
      BY <1>1, <3>1
         DEF RemovePointer, Ask, Receive, Appended, Received, Check, Verified,
             Discard,
         Authenticate, Authentic, Promote, Tidy
    <3>7. Deliver(p)
      BY <3>3, <3>4, <3>5, <3>6 DEF Attempt
    <3> QED
      BY <3>1, <3>7 DEF Deliver
  <2> QED
    BY <2>1, <2>2 DEF Deliver, Own, Shown, dirs, files
<1>2. Inductive /\ [Next]_vars
        => [\A p \in Procs :
              result[p] # "image" /\ result'[p] = "image"
                => artifact' # NoToken /\ data'[artifact'] = Image]_vars
  BY <1>1
<1> QED
  BY <1>2, AlwaysInductive, PTL DEF Spec, ReturnedIsWhole

(* A cancelled attempt leaves a session that the next one finds, with every *)
(* byte it had received.                                                    *)
THEOREM DownloadCancelPreserves == Spec => CancelPreserves
<1>1. ASSUME Inductive, [Next]_vars, NEW q \in Procs,
             pc[q] \in Streaming, result[q] = "none", result'[q] = "cancelled"
      PROVE  /\ pointer' = token[q] /\ Resumable(pointer)'
             /\ data'[token[q]] = hashed[q]
  <2>1. Own(q) /\ AttemptTypes
    BY <1>1, OwnParts, TypeParts DEF Inductive
  <2>2. Cancelled(q)
    <3>1. ASSUME NEW p \in Procs, NEW r, Return(p, r) PROVE r = "cancelled" /\ p = q
      BY <1>1, <2>1, <3>1 DEF Return, AttemptTypes
    <3>2. ~(PowerLoss \/ UNCHANGED vars \/ (\E t \in Tokens : Damage(t)))
      BY <1>1 DEF PowerLoss, Damage, vars, attempt
    <3>3. PICK p \in Procs : Attempt(p) \/ Cancel(p) \/ Fail(p) \/ Kill(p)
      BY <1>1, <3>2 DEF Next, Mishap
    <3>4. ~(Cancel(p) \/ Fail(p) \/ Kill(p) \/ Deliver(p))
      <4>1. Cancel(p) => result' = result
        BY DEF Cancel
      <4>2. ~(Return(p, "error") \/ Return(p, "none") \/ Return(p, "image"))
        BY <3>1
      <4> QED
        BY <1>1, <4>1, <4>2 DEF Fail, Kill, Deliver
    <3>5. ~(Start(p) \/ TakeLock(p) \/ Lookup(p) \/ Repair(p)
            \/ AuthenticateCached(p) \/ Resume(p) \/ BeginPartial(p)
            \/ CreateState(p) \/ WriteState(p) \/ CreatePointer(p)
            \/ WritePointer(p))
      BY <1>1, <2>1, <3>1 DEF AttemptTypes, Start, TakeLock, Lookup, Repair,
         AuthenticateCached, Authentic, Resume, BeginPartial, CreateState, WriteState,
         CreatePointer, WritePointer
    <3>6. ~(RemovePointer(p) \/ Ask(p) \/ Receive(p) \/ Received(p)
            \/ Check(p) \/ Discard(p) \/ Authenticate(p) \/ Promote(p)
            \/ Tidy(p))
      BY <1>1, <3>1
         DEF RemovePointer, Ask, Receive, Appended, Received, Check, Verified,
             Discard,
         Authenticate, Authentic, Promote, Tidy
    <3>7. Cancelled(p)
      BY <3>3, <3>4, <3>5, <3>6 DEF Attempt
    <3> QED
      BY <3>1, <3>7 DEF Cancelled
  <2>3. UNCHANGED <<partial, stateFile, pointer, data>>
    BY <2>2 DEF Cancelled, dirs
  <2>4. pc[q] \in Pointed
    BY <1>1, <2>2 DEF Cancelled, Checked, Hashing, Signing, Streaming, Pointed
  <2>5. pointer = token[q] /\ Resumable(pointer) /\ data[token[q]] = hashed[q]
    BY <1>1, <2>1, <2>4
       DEF Own, Begun, Stated, Pointed, Shown, Streaming, Resumable
  <2> QED
    BY <2>3, <2>5 DEF Resumable
<1>2. Inductive /\ [Next]_vars
        => [\A p \in Procs :
              pc[p] \in Streaming /\ result[p] = "none" /\ result'[p] = "cancelled"
                => /\ pointer' = token[p] /\ Resumable(pointer)'
                   /\ data'[token[p]] = hashed[p]]_vars
  BY <1>1
<1> QED
  BY <1>2, AlwaysInductive, PTL DEF Spec, CancelPreserves
=============================================================================
