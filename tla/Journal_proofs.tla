--------------------------- MODULE Journal_proofs ---------------------------
(***************************************************************************)
(* Proofs about the journal, for every set of steps and outcomes and every *)
(* bound on records: its types; that acknowledged records are kept, and    *)
(* that a handle at rest can be reopened, as long as a handle is not used  *)
(* again after a failed commit; that a journal never opens with less than  *)
(* was acknowledged, nor with more than the one event that was being       *)
(* committed; and that the acknowledged records implement JournalPromise.  *)
(***************************************************************************)
EXTENDS Journal, FiniteSetTheorems, TLAPS

-----------------------------------------------------------------------------
(* The anchor that load selects is that of a slot, and none is newer.       *)
LEMMA LatestOfSome ==
  ASSUME NEW files, files \in [0 .. 1 -> Anchors \cup {NoAnchor}],
         NEW k \in 0 .. 1, files[k] # NoAnchor
  PROVE  /\ Latest(files) \in Anchors \ {NoAnchor}
         /\ \E i \in 0 .. 1 : Latest(files) = files[i]
         /\ \A i \in 0 .. 1 : files[i] # NoAnchor
              => files[i].generation <= Latest(files).generation
<1> DEFINE found == {files[i] : i \in 0 .. 1} \ {NoAnchor}
<1>1. found # {}
  OBVIOUS
<1>2. found \subseteq Anchors \ {NoAnchor}
  OBVIOUS
<1>3. \A a, b \in found : a.generation \in Nat /\ b.generation \in Nat
  BY <1>2 DEF Anchors
<1>4. \E a \in found : \A b \in found : b.generation <= a.generation
  <2>1. \A a \in found : a = files[0] \/ a = files[1]
    OBVIOUS
  <2>2. CASE files[0] \notin found
    BY <1>1, <1>3, <2>1, <2>2
  <2>3. CASE files[1] \notin found
    BY <1>1, <1>3, <2>1, <2>3
  <2>4. CASE files[0] \in found /\ files[1] \in found
    <3>1. files[0].generation <= files[1].generation
            \/ files[1].generation <= files[0].generation
      BY <1>3, <2>4
    <3> HIDE DEF found
    <3> QED
      BY <1>3, <2>1, <2>4, <3>1
  <2> QED
    BY <2>2, <2>3, <2>4
<1>5. Latest(files) = CHOOSE a \in found : \A b \in found : b.generation <= a.generation
  BY <1>1 DEF Latest
<1>6. /\ Latest(files) \in found
      /\ \A b \in found : b.generation <= Latest(files).generation
  <2> HIDE DEF found
  <2> QED
    BY <1>4, <1>5
<1> QED
  BY <1>2, <1>6

(* The same, when an anchor was found.                                      *)
LEMMA LatestIsASlot ==
  ASSUME NEW files, files \in [0 .. 1 -> Anchors \cup {NoAnchor}],
         Latest(files) # NoAnchor
  PROVE  /\ Latest(files) \in Anchors
         /\ \E i \in 0 .. 1 : Latest(files) = files[i]
         /\ \A i \in 0 .. 1 : files[i] # NoAnchor
              => files[i].generation <= Latest(files).generation
<1>1. PICK k \in 0 .. 1 : files[k] # NoAnchor
  BY DEF Latest
<1> QED
  BY <1>1, LatestOfSome

(* Dropping the garbled lines' type leaves records.                         *)
LEMMA ReplayedAreRecords ==
  ASSUME TypeOK, Replays(log, tail)
  PROVE  log \in Seq(Records)
<1>1. log \in Seq(Records \cup {Garbled})
  BY DEF TypeOK
<1>2. \A i \in 1 .. Len(log) : log[i] \in Records
  BY <1>1 DEF Replays, Garbled
<1>3. log \in [1 .. Len(log) -> Records]
  BY <1>1, <1>2
<1> QED
  BY <1>1, <1>3

-----------------------------------------------------------------------------
(* Types: while a record is being committed it is a record.                 *)
Typed == TypeOK /\ (pc \notin {"closed", "ready"} => record \in Records)

(* What the next record is chained to is a hash, at the start too.         *)
LEMMA HashIsNat ==
  ASSUME NEW lines \in Seq(Records)
  PROVE  HashAt(lines, Len(lines)) \in Nat
<1>1. CASE Len(lines) = 0
  BY <1>1 DEF HashAt
<1>2. CASE Len(lines) # 0
  <2>1. lines[Len(lines)] \in Records
    BY <1>2
  <2> QED
    BY <1>2, <2>1 DEF HashAt, Records
<1> QED
  BY <1>1, <1>2

(* Every step keeps the types.                                             *)
LEMMA TypedNext == Typed /\ [Next]_vars => Typed'
<1> SUFFICES ASSUME Typed, [Next]_vars
             PROVE  Typed'
  OBVIOUS
<1> USE JournalAssumption
<1>1. CASE Create
  <2>1. record' \in Records /\ written' \in 0 .. MaxRecords
    BY <1>1 DEF Create, MakeEntry, Typed, TypeOK, Records
  <2> QED
    BY <1>1, <2>1 DEF Create, Typed, TypeOK, logFile, heads, history
<1>2. CASE Open
  <2>1. log \in Seq(Records)
    BY <1>2, ReplayedAreRecords DEF Open, Opens, Typed
  <2>2. Latest(slots).generation \in Nat
    BY <1>2, LatestIsASlot DEF Open, Opens, Typed, TypeOK, Anchors
  <2> QED
    BY <1>2, <2>1, <2>2 DEF Open, Typed, TypeOK, logFile, heads
<1>3. CASE Close
  BY <1>3 DEF Close, Typed, TypeOK, logFile, heads, history
<1>4. ASSUME NEW event \in Events, AppendEvent(event)
      PROVE  Typed'
  <2>1. record' \in Records /\ written' \in 0 .. MaxRecords
    <3>1. entries \in Seq(Records) /\ written \in 0 .. MaxRecords
      BY DEF Typed, TypeOK
    <3>2. HashAt(entries, Len(entries)) \in Nat /\ Len(entries) \in Nat
      BY <3>1, HashIsNat
    <3> QED
      BY <1>4, <3>1, <3>2 DEF AppendEvent, MakeEntry, Records
  <2> QED
    BY <1>4, <2>1 DEF AppendEvent, Typed, TypeOK, logFile, heads, history
<1>5. CASE WriteLog
  <2>1. log' \in Seq(Records \cup {Garbled}) /\ Len(log') = Len(log) + 1
    BY <1>5 DEF WriteLog, Typed, TypeOK
  <2>2. durable' \in 0 .. Len(log')
    BY <1>5, <2>1 DEF WriteLog, Typed, TypeOK
  <2>3. record' \in Records
    BY <1>5 DEF WriteLog, Typed
  <2>4. /\ tail' = FALSE /\ pc' = "flush"
        /\ UNCHANGED <<entries, generation, record, written, heads, history>>
    BY <1>5 DEF WriteLog
  <2> QED
    BY <2>1, <2>2, <2>3, <2>4 DEF Typed, TypeOK, heads, history
<1>6. CASE FlushLog
  BY <1>6 DEF FlushLog, Typed, TypeOK, heads, history
<1>7. CASE TruncateSlot
  BY <1>7 DEF TruncateSlot, Typed, TypeOK, logFile, history
<1>8. CASE WriteAnchor
  <2>1. AnchorOf(Append(entries, record), Publishing) \in Anchors
    <3>1. Append(entries, record) \in Seq(Records) /\ Publishing \in Nat
      BY <1>8 DEF WriteAnchor, Publishing, Typed, TypeOK
    <3> QED
      BY <3>1, HashIsNat, Len(Append(entries, record)) \in Nat DEF AnchorOf, Anchors
  <2>2. record.id \in 1 .. MaxRecords
    BY <1>8 DEF WriteAnchor, Typed, Records
  <2> QED
    BY <1>8, <2>1, <2>2 DEF WriteAnchor, Typed, TypeOK, logFile
<1>9. CASE SyncAnchor
  BY <1>9 DEF SyncAnchor, Publishing, Typed, TypeOK, logFile
<1>10. CASE Fail
  <2>1. tail' \in BOOLEAN
    BY <1>10 DEF Fail, Typed, TypeOK
  <2>2. pc' \in {"closed", "ready"}
    BY <1>10 DEF Fail
  <2>3. entries' \in Seq(Records) /\ generation' \in Nat
    <3>1. \/ UNCHANGED <<entries, generation>>
          \/ entries' = <<>> /\ generation' = 0
      BY <1>10 DEF Fail
    <3>2. entries \in Seq(Records) /\ generation \in Nat
      BY DEF Typed, TypeOK
    <3>3. CASE entries' = entries /\ generation' = generation
      BY <3>2, <3>3
    <3>4. CASE entries' = <<>> /\ generation' = 0
      BY <3>4
    <3> QED
      BY <3>1, <3>3, <3>4
  <2>4. faults' \in {"none", "errors", "reused"}
    BY <1>10 DEF Fail
  <2> QED
    BY <1>10, <2>1, <2>2, <2>3, <2>4 DEF Fail, Typed, TypeOK, heads, history
<1>11. CASE PowerLoss
  <2>1. log' \in Seq(Records \cup {Garbled}) /\ durable' \in 0 .. Len(log')
    <3>1. PICK n \in durable .. Len(log) : log' = SubSeq(log, 1, n) /\ durable' = n
      BY <1>11 DEF PowerLoss
    <3> QED
      BY <3>1 DEF Typed, TypeOK
  <2>2. slots' \in [0 .. 1 -> Anchors \cup {NoAnchor}]
    BY <1>11 DEF PowerLoss, Typed, TypeOK
  <2>3. tail' \in BOOLEAN
    BY <1>11 DEF PowerLoss, Typed, TypeOK
  <2> QED
    BY <1>11, <2>1, <2>2, <2>3 DEF PowerLoss, Typed, TypeOK, history
<1>12. CASE UNCHANGED vars
  BY <1>12 DEF vars, handle, logFile, heads, history, Typed, TypeOK
<1> QED
  BY <1>1, <1>2, <1>3, <1>4, <1>5, <1>6, <1>7, <1>8, <1>9, <1>10, <1>11, <1>12
     DEF Next, Commit

(* A journal starts well typed.                                            *)
LEMMA TypedInit == Init => Typed
<1> SUFFICES ASSUME Init
             PROVE  Typed
  OBVIOUS
<1>1. entries \in Seq(Records) /\ log \in Seq(Records \cup {Garbled}) /\ acked \in Seq(Records)
  BY DEF Init
<1>2. durable \in 0 .. Len(log) /\ written \in 0 .. MaxRecords
  BY JournalAssumption DEF Init
<1>3. slots \in [0 .. 1 -> Anchors \cup {NoAnchor}] /\ disk \in [0 .. 1 -> Anchors \cup {NoAnchor}]
  BY DEF Init
<1> QED
  BY <1>1, <1>2, <1>3 DEF Init, Typed, TypeOK

(* Every reachable state is well typed.                                     *)
THEOREM JournalTypes == Spec => []TypeOK
<1>1. Typed => TypeOK
  BY DEF Typed
<1> QED
  BY <1>1, TypedInit, TypedNext, PTL DEF Spec

-----------------------------------------------------------------------------
(* The inductive invariant behind AckedIsKept.  An open handle's report is  *)
(* what was acknowledged, and the log is that report and the record being   *)
(* committed; so a commit always extends what was acknowledged.  No anchor  *)
(* counts a line that is not synced, so a journal that opens is synced.     *)
Handle ==
  /\ pc = "closed" => entries = <<>>
  /\ pc # "closed" => entries = acked /\ ~tail
  /\ pc \in {"ready", "log"} => log = entries /\ durable = Len(log)
  /\ pc = "flush" => log = Append(entries, record)
  /\ pc \in {"truncate", "anchor", "sync"} =>
       log = Append(entries, record) /\ durable = Len(log)

AnchoredIsSynced ==
  \A i \in 0 .. 1 : /\ slots[i] # NoAnchor => slots[i].count <= durable
                    /\ disk[i] # NoAnchor => disk[i].count <= durable

Kept == Typed /\ Synced /\ Handle /\ AnchoredIsSynced

(* Nothing is on disk at the start.                                        *)
LEMMA KeptInit == Init => Kept
<1> SUFFICES ASSUME Init
             PROVE  Kept
  OBVIOUS
<1>1. Typed
  BY TypedInit
<1>2. Synced /\ Handle /\ AnchoredIsSynced
  BY DEF Init, Synced, Handle, AnchoredIsSynced
<1> QED
  BY <1>1, <1>2 DEF Kept

(* A handle that opens reports what was acknowledged, and more only if that *)
(* is synced.                                                               *)
LEMMA KeptOpen == Kept /\ Open => (Synced /\ Handle /\ AnchoredIsSynced)'
<1> SUFFICES ASSUME Kept, Open
             PROVE  (Synced /\ Handle /\ AnchoredIsSynced)'
  OBVIOUS
<1>1. PICK i \in 0 .. 1 : Latest(slots) = slots[i]
  BY LatestIsASlot DEF Open, Opens, Kept, Typed, TypeOK
<1>2. Len(log) <= durable
  BY <1>1 DEF Open, Opens, Kept, AnchoredIsSynced
<1>3. durable = Len(log) /\ Len(log) \in Nat
  BY <1>2 DEF Kept, Typed, TypeOK
<1>4. ~tail
  BY DEF Open, Opens, Replays
<1>5. AnchoredIsSynced'
  BY DEF Open, Kept, AnchoredIsSynced, heads, logFile
<1>6. Synced'
  BY <1>3 DEF Open, Synced, logFile
<1>7. Handle'
  BY <1>3, <1>4 DEF Open, Handle, logFile
<1> QED
  BY <1>5, <1>6, <1>7

(* A commit appends to what was acknowledged, and acknowledges it synced.   *)
LEMMA KeptCommit == Kept /\ Commit => (Synced /\ Handle /\ AnchoredIsSynced)'
<1> SUFFICES ASSUME Kept, Commit
             PROVE  (Synced /\ Handle /\ AnchoredIsSynced)'
  OBVIOUS
<1>0. /\ log \in Seq(Records \cup {Garbled}) /\ entries \in Seq(Records)
      /\ acked \in Seq(Records) /\ durable \in 0 .. Len(log)
      /\ slots \in [0 .. 1 -> Anchors \cup {NoAnchor}]
  BY DEF Kept, Typed, TypeOK
<1>1. CASE WriteLog
  <2>1. ~tail /\ log = entries /\ entries = acked /\ durable = Len(log)
    BY <1>1 DEF WriteLog, Kept, Handle
  <2>2. log' = Append(log, record) /\ Len(log') = Len(log) + 1
    BY <1>0, <1>1, <2>1 DEF WriteLog
  <2>3. Synced'
    BY <1>0, <1>1, <2>1, <2>2 DEF WriteLog, Synced, history
  <2>4. Handle'
    BY <1>1, <2>1, <2>2 DEF WriteLog, Handle, history
  <2>5. AnchoredIsSynced'
    BY <1>1 DEF WriteLog, Kept, AnchoredIsSynced, heads
  <2> QED
    BY <2>3, <2>4, <2>5
<1>2. CASE FlushLog
  <2>1. durable' = Len(log) /\ durable <= durable' /\ durable' \in Nat
    BY <1>0, <1>2 DEF FlushLog
  <2>2. Synced'
    BY <1>0, <1>2, <2>1 DEF FlushLog, Kept, Synced, history
  <2>3. Handle'
    BY <1>2 DEF FlushLog, Kept, Handle, history
  <2>4. AnchoredIsSynced'
    <3>1. \A i \in 0 .. 1 : /\ slots[i] # NoAnchor => slots[i].count \in Nat
                            /\ disk[i] # NoAnchor => disk[i].count \in Nat
      BY DEF Kept, Typed, TypeOK, Anchors
    <3>2. UNCHANGED <<slots, disk>>
      BY <1>2 DEF FlushLog, heads
    <3> QED
      BY <1>0, <2>1, <3>1, <3>2 DEF Kept, AnchoredIsSynced
  <2> QED
    BY <2>2, <2>3, <2>4
<1>3. CASE TruncateSlot
  <2>1. Synced' /\ Handle'
    BY <1>3 DEF TruncateSlot, Kept, Synced, Handle, logFile, history
  <2>2. AnchoredIsSynced'
    BY <1>0, <1>3 DEF TruncateSlot, Kept, AnchoredIsSynced, logFile
  <2> QED
    BY <2>1, <2>2
<1>4. CASE WriteAnchor
  <2>1. Synced' /\ Handle'
    BY <1>4 DEF WriteAnchor, Kept, Synced, Handle, logFile
  <2>2. AnchorOf(Append(entries, record), Publishing).count = durable
    BY <1>4 DEF WriteAnchor, AnchorOf, Kept, Handle
  <2>3. AnchoredIsSynced'
    BY <1>0, <1>4, <2>2 DEF WriteAnchor, Kept, AnchoredIsSynced, logFile
  <2> QED
    BY <2>1, <2>3
<1>5. CASE SyncAnchor
  <2>1. acked' = log /\ entries' = log /\ durable = Len(log) /\ ~tail
    BY <1>5 DEF SyncAnchor, Kept, Handle
  <2>2. Synced' /\ Handle'
    BY <1>0, <1>5, <2>1 DEF SyncAnchor, Synced, Handle, logFile
  <2>3. AnchoredIsSynced'
    BY <1>5 DEF SyncAnchor, Kept, AnchoredIsSynced, logFile
  <2> QED
    BY <2>2, <2>3
<1> QED
  BY <1>1, <1>2, <1>3, <1>4, <1>5 DEF Commit

(* Only lines that are not synced, and so were not acknowledged, are lost.  *)
LEMMA KeptPowerLoss == Kept /\ PowerLoss => (Synced /\ Handle /\ AnchoredIsSynced)'
<1> SUFFICES ASSUME Kept, PowerLoss
             PROVE  (Synced /\ Handle /\ AnchoredIsSynced)'
  OBVIOUS
<1>0. log \in Seq(Records \cup {Garbled}) /\ acked \in Seq(Records) /\ durable \in 0 .. Len(log)
  BY DEF Kept, Typed, TypeOK
<1>1. PICK n \in durable .. Len(log) : log' = SubSeq(log, 1, n) /\ durable' = n
  BY DEF PowerLoss
<1>2. Synced'
  <2>1. \A i \in 1 .. n : log'[i] = log[i]
    BY <1>0, <1>1
  <2>2. acked' = acked /\ Len(acked) \in Nat
    BY <1>0 DEF PowerLoss, history
  <2> QED
    BY <1>0, <1>1, <2>1, <2>2 DEF Kept, Synced
<1>3. Handle'
  BY DEF PowerLoss, Handle
<1>4. AnchoredIsSynced'
  <2>1. \A i \in 0 .. 1 : disk'[i] = slots'[i] /\ slots'[i] \in {slots[i], disk[i], NoAnchor}
    BY DEF PowerLoss
  <2>2. \A i \in 0 .. 1 : /\ slots[i] # NoAnchor => slots[i].count \in Nat
                          /\ disk[i] # NoAnchor => disk[i].count \in Nat
    BY DEF Kept, Typed, TypeOK, Anchors
  <2>3. durable <= durable' /\ durable \in Nat /\ durable' \in Nat
    BY <1>0, <1>1
  <2> QED
    BY <2>1, <2>2, <2>3 DEF Kept, AnchoredIsSynced
<1> QED
  BY <1>2, <1>3, <1>4

(* Every step keeps it, unless a handle is used again after an error.      *)
LEMMA KeptNext ==
  ASSUME Kept, [Next]_vars, faults' # "reused"
  PROVE  Kept'
<1>1. Typed'
  BY TypedNext DEF Kept
<1>2. CASE Create
  <2>1. durable = 0 /\ acked = <<>> /\ entries = <<>>
    BY <1>2 DEF Create, Kept, Typed, TypeOK, Synced, Handle
  <2> QED
    BY <1>1, <1>2, <2>1
       DEF Create, Kept, Synced, Handle, AnchoredIsSynced, logFile, heads, history
<1>3. CASE Open
  BY <1>1, <1>3, KeptOpen DEF Kept
<1>4. CASE Close
  BY <1>1, <1>4
     DEF Close, Kept, Synced, Handle, AnchoredIsSynced, logFile, heads, history
<1>5. ASSUME NEW event \in Events, AppendEvent(event)
      PROVE  Kept'
  BY <1>1, <1>5
     DEF AppendEvent, Kept, Synced, Handle, AnchoredIsSynced, logFile, heads, history
<1>6. CASE Commit
  BY <1>1, <1>6, KeptCommit DEF Kept
<1>7. CASE Fail
  <2>1. pc' = "closed" /\ entries' = <<>> /\ UNCHANGED <<log, durable, slots, disk, acked>>
    BY <1>7 DEF Fail, heads
  <2> QED
    BY <1>1, <2>1 DEF Kept, Synced, Handle, AnchoredIsSynced
<1>8. CASE PowerLoss
  BY <1>1, <1>8, KeptPowerLoss DEF Kept
<1>9. CASE UNCHANGED vars
  BY <1>1, <1>9
     DEF vars, handle, logFile, heads, history, Kept, Synced, Handle, AnchoredIsSynced
<1> QED
  BY <1>2, <1>3, <1>4, <1>5, <1>6, <1>7, <1>8, <1>9 DEF Next

(* Unless a handle is used again after a failed commit, what was            *)
(* acknowledged stays in its place on disk, and no slot is rewritten before *)
(* the record it will anchor is a complete, synced line.                    *)
THEOREM JournalKeeps ==
  Spec => [](AckedIsKept /\ (faults # "reused" => LineBeforeAnchor))
<1> DEFINE IKept == Typed /\ (faults # "reused" => Kept)
<1>1. IKept => AckedIsKept /\ (faults # "reused" => LineBeforeAnchor)
  <2> SUFFICES ASSUME Kept
               PROVE  Synced /\ LineBeforeAnchor
    BY DEF AckedIsKept
  <2>1. pc \in {"truncate", "anchor", "sync"} => log = Append(entries, record)
    BY DEF Kept, Handle
  <2>2. entries \in Seq(Records)
    BY DEF Kept, Typed, TypeOK
  <2>3. log = Append(entries, record) => log # <<>> /\ log[Len(log)] = record
    BY <2>2
  <2> QED
    BY <2>1, <2>3 DEF Kept, Handle, LineBeforeAnchor
<1>2. IKept /\ [Next]_vars => IKept'
  <2> SUFFICES ASSUME IKept, [Next]_vars
               PROVE  IKept'
    OBVIOUS
  <2>1. Typed'
    BY TypedNext
  <2>2. faults = "reused" => faults' = "reused"
    BY DEF Next, Create, Open, Close, AppendEvent, Commit, WriteLog, FlushLog, TruncateSlot,
           WriteAnchor, SyncAnchor, Fail, PowerLoss, vars, history
  <2>3. faults' # "reused" => Kept'
    BY <2>2, KeptNext
  <2> QED
    BY <2>1, <2>3
<1>3. Init => IKept
  BY TypedInit, KeptInit
<1> QED
  BY <1>1, <1>2, <1>3, PTL DEF Spec

-----------------------------------------------------------------------------
(* What ReadyReopens stands on, unless a handle is used again after an      *)
(* error.  The records encoded so far bound the log.                        *)
Counted ==
  /\ Len(log) <= written
  /\ pc = "log" => Len(log) < written

(* Generations alternate between the slots.                                 *)
Alternating ==
  \A i \in 0 .. 1 : /\ slots[i] # NoAnchor => slots[i].generation % 2 = i
                    /\ disk[i] # NoAnchor => disk[i].generation % 2 = i

(* The record being committed continues the report of the open handle.      *)
Continues(r, lines) ==
  /\ r.event.type # "garbled"
  /\ r.sequence = Len(lines)
  /\ r.previous = HashAt(lines, Len(lines))
  /\ r.event.type = "started" <=> lines = <<>>
  /\ Allowed(r.event, lines, Len(lines))

Continued == pc \notin {"closed", "ready"} => Continues(record, entries)

(* Its report replays, but for the limit, and is anchored in the slot that  *)
(* the commit under way leaves alone.                                       *)
Chained(lines) ==
  \A i \in 1 .. Len(lines) :
    /\ lines[i].event.type # "garbled"
    /\ lines[i].sequence = i - 1
    /\ lines[i].previous = HashAt(lines, i - 1)
    /\ lines[i].event.type = "started" <=> i = 1
    /\ Allowed(lines[i].event, lines, i - 1)

Current == generation % 2
Other == (generation + 1) % 2

First ==
  /\ pc = "closed" => generation = 0
  /\ pc # "closed" /\ entries = <<>> =>
       /\ pc # "ready" /\ generation = 0
       /\ slots[1] = NoAnchor
       /\ pc = "sync" => slots[0] = AnchorOf(<<record>>, 0)

Anchored ==
  pc # "closed" /\ entries # <<>> =>
    /\ slots[Current] = AnchorOf(entries, generation)
    /\ pc \notin {"anchor", "sync"} /\ slots[Other] # NoAnchor
         => slots[Other].generation < generation
    /\ pc = "sync"
         => slots[Other] = AnchorOf(Append(entries, record), generation + 1)

Whole == pc # "closed" => Chained(entries)

Sound == Counted /\ Alternating /\ Continued /\ First /\ Anchored /\ Whole

(* Without I/O errors, the slots are as safe from a power loss as they are  *)
(* readable, but for the one being rewritten.                               *)
Steady ==
  /\ pc \notin {"anchor", "sync"} => disk = slots
  /\ pc \in {"anchor", "sync"} /\ entries # <<>> => disk[Current] = slots[Current]
  /\ pc = "closed" /\ acked # <<>> =>
       \E i \in 0 .. 1 : /\ slots[i] # NoAnchor
                         /\ slots[i].count = Len(acked)
                         /\ slots[i].head = HashAt(acked, Len(acked))

IReopens == (faults # "reused" => Kept /\ Sound) /\ (faults = "none" => Steady)

(* Two generations in a row have different slots.                           *)
LEMMA Parity ==
  ASSUME NEW g \in Nat
  PROVE  /\ g % 2 \in 0 .. 1 /\ (g + 1) % 2 \in 0 .. 1
         /\ (g + 1) % 2 # g % 2
         /\ (g + 2) % 2 = g % 2
OBVIOUS

(* load finds no anchor only where both slots have none.                    *)
LEMMA NoLatest ==
  ASSUME NEW files, files \in [0 .. 1 -> Anchors \cup {NoAnchor}],
         Latest(files) = NoAnchor
  PROVE  \A i \in 0 .. 1 : files[i] = NoAnchor
<1> SUFFICES ASSUME NEW i \in 0 .. 1, files[i] # NoAnchor
             PROVE  FALSE
  OBVIOUS
<1> QED
  BY LatestOfSome

(* The newer of two slots is selected.                                      *)
LEMMA LatestIs ==
  ASSUME NEW files, files \in [0 .. 1 -> Anchors \cup {NoAnchor}],
         NEW i \in 0 .. 1, files[i] # NoAnchor,
         \A j \in (0 .. 1) \ {i} : files[j] # NoAnchor
            => files[j].generation < files[i].generation
  PROVE  Latest(files) = files[i]
<1> DEFINE found == {files[k] : k \in 0 .. 1} \ {NoAnchor}
<1>1. files[i] \in found /\ found # {}
  OBVIOUS
<1>2. \A a \in found : a = files[i] \/ a.generation < files[i].generation
  OBVIOUS
<1>3. \A a \in found : a.generation \in Nat
  BY DEF Anchors
<1>4. Latest(files) = CHOOSE a \in found : \A b \in found : b.generation <= a.generation
  BY <1>1 DEF Latest
<1> HIDE DEF found
<1>5. \A b \in found : b.generation <= files[i].generation
  BY <1>1, <1>2, <1>3
<1>6. \A a \in found : (\A b \in found : b.generation <= a.generation) => a = files[i]
  BY <1>1, <1>2, <1>3
<1> QED
  BY <1>1, <1>4, <1>5, <1>6

(* An append leaves what the earlier lines record as it was.                *)
LEMMA SamePrefix ==
  ASSUME NEW lines \in Seq(Records), NEW r \in Records,
         NEW n \in 0 .. Len(lines)
  PROVE  /\ HashAt(Append(lines, r), n) = HashAt(lines, n)
         /\ \A e : Allowed(e, Append(lines, r), n) <=> Allowed(e, lines, n)
<1> DEFINE more == Append(lines, r)
<1>1. \A i \in 1 .. n : more[i] = lines[i]
  OBVIOUS
<1>2. HashAt(more, n) = HashAt(lines, n)
  BY <1>1 DEF HashAt
<1> HIDE DEF more
<1>3. Ended(more, n) <=> Ended(lines, n)
  BY <1>1 DEF Ended
<1>4. \A s : Recorded(more, n, s) = Recorded(lines, n, s)
  BY <1>1 DEF Recorded
<1>5. \A e : Allowed(e, more, n) <=> Allowed(e, lines, n)
  BY <1>3, <1>4 DEF Allowed
<1> QED
  BY <1>2, <1>5 DEF more

(* A report still replays with the record that continues it.                *)
LEMMA ChainedAppend ==
  ASSUME NEW lines \in Seq(Records), NEW r \in Records,
         Chained(lines), Continues(r, lines)
  PROVE  Chained(Append(lines, r))
<1> DEFINE more == Append(lines, r)
<1>1. Len(more) = Len(lines) + 1 /\ Len(lines) \in Nat
  OBVIOUS
<1> SUFFICES ASSUME NEW i \in 1 .. Len(more)
             PROVE  /\ more[i].event.type # "garbled"
                    /\ more[i].sequence = i - 1
                    /\ more[i].previous = HashAt(more, i - 1)
                    /\ more[i].event.type = "started" <=> i = 1
                    /\ Allowed(more[i].event, more, i - 1)
  BY DEF Chained
<1>2. i - 1 \in 0 .. Len(lines)
  BY <1>1
<1>3. /\ HashAt(more, i - 1) = HashAt(lines, i - 1)
      /\ \A e : Allowed(e, more, i - 1) <=> Allowed(e, lines, i - 1)
  BY <1>2, SamePrefix
<1>4. CASE i <= Len(lines)
  <2>1. more[i] = lines[i] /\ i \in 1 .. Len(lines)
    BY <1>1, <1>4
  <2> QED
    BY <1>3, <2>1 DEF Chained
<1>5. CASE i = Len(lines) + 1
  <2>1. more[i] = r /\ i - 1 = Len(lines) /\ (i = 1 <=> lines = <<>>)
    BY <1>5
  <2> QED
    BY <1>3, <2>1 DEF Continues
<1> QED
  BY <1>1, <1>4, <1>5

-----------------------------------------------------------------------------
(* A new journal has two empty slots, and its record is the first.          *)
LEMMA SoundCreate == Typed /\ Kept /\ Sound /\ Create => Sound'
<1> SUFFICES ASSUME Typed, Kept, Sound, Create
             PROVE  Sound'
  OBVIOUS
<1> USE JournalAssumption
<1>1. /\ pc = "closed" /\ pc' = "log" /\ log = <<>> /\ entries = <<>>
      /\ UNCHANGED <<entries, generation, log, slots, disk>>
      /\ written' = written + 1 /\ written \in Nat
      /\ record' = [id |-> written + 1, sequence |-> 0, previous |-> 0, event |-> Started]
  BY DEF Create, MakeEntry, Kept, Handle, Typed, TypeOK, logFile, heads
<1>2. \A i \in 0 .. 1 : slots[i] = NoAnchor
  BY NoLatest DEF Create, Typed, TypeOK
<1>3. Counted'
  BY <1>1 DEF Counted
<1>4. Alternating'
  BY <1>1 DEF Sound, Alternating
<1>5. Continued'
  <2>1. Allowed(Started, <<>>, 0)
    BY DEF Allowed, Ended, Started
  <2> QED
    BY <1>1, <2>1 DEF Continued, Continues, HashAt, Started
<1>6. First' /\ Anchored'
  BY <1>1, <1>2 DEF Sound, First, Anchored
<1>7. Whole'
  BY <1>1 DEF Whole, Chained
<1> QED
  BY <1>3, <1>4, <1>5, <1>6, <1>7 DEF Sound

(* A journal that opens is anchored by the newer slot.                      *)
LEMMA SoundOpen == Typed /\ Kept /\ Sound /\ Open => Sound'
<1> SUFFICES ASSUME Typed, Kept, Sound, Open
             PROVE  Sound'
  OBVIOUS
<1>1. /\ pc' = "ready" /\ entries' = log /\ generation' = Latest(slots).generation
      /\ UNCHANGED <<log, slots, disk, written>>
      /\ Replays(log, tail) /\ Latest(slots) # NoAnchor
      /\ Latest(slots).count = Len(log) /\ Latest(slots).head = HashAt(log, Len(log))
  BY DEF Open, Opens, logFile, heads
<1>2. Counted'
  BY <1>1 DEF Sound, Counted
<1>3. Alternating'
  BY <1>1 DEF Sound, Alternating
<1>4. Continued' /\ First'
  BY <1>1 DEF Continued, First, Replays
<1>5. Whole'
  BY <1>1 DEF Whole, Chained, Replays
<1>6. Anchored'
  <2>1. /\ Latest(slots) \in Anchors
        /\ \A i \in 0 .. 1 : slots[i] # NoAnchor
              => slots[i].generation <= Latest(slots).generation
    BY <1>1, LatestIsASlot DEF Typed, TypeOK
  <2>2. PICK k \in 0 .. 1 : Latest(slots) = slots[k]
    BY <1>1, LatestIsASlot DEF Typed, TypeOK
  <2>3. generation' \in Nat /\ k = generation' % 2
    BY <1>1, <2>1, <2>2 DEF Sound, Alternating, Anchors
  <2>4. Latest(slots) = AnchorOf(log, generation')
    BY <1>1, <2>1 DEF AnchorOf, Anchors
  <2>5. /\ (generation' + 1) % 2 \in 0 .. 1
        /\ (generation' + 1) % 2 # generation' % 2
    BY <2>3, Parity
  <2>6. slots[(generation' + 1) % 2] # NoAnchor
          => slots[(generation' + 1) % 2].generation < generation'
    <3> DEFINE o == (generation' + 1) % 2
    <3> SUFFICES ASSUME slots[o] # NoAnchor
                 PROVE  slots[o].generation < generation'
      OBVIOUS
    <3>1. slots[o] \in Anchors /\ slots[o].generation % 2 = o
      BY <2>5 DEF Typed, TypeOK, Sound, Alternating
    <3>2. slots[o].generation \in Nat /\ slots[o].generation <= generation'
      BY <1>1, <2>1, <2>5, <3>1 DEF Anchors
    <3>3. slots[o].generation # generation'
      BY <2>5, <3>1
    <3> HIDE DEF o
    <3> QED
      BY <2>3, <3>2, <3>3
  <2> QED
    BY <1>1, <2>2, <2>3, <2>4, <2>6 DEF Anchored, Current, Other
<1> QED
  BY <1>2, <1>3, <1>4, <1>5, <1>6 DEF Sound

(* An event that is accepted continues the report.                          *)
LEMMA SoundAppend ==
  ASSUME Typed, Kept, Sound, NEW event \in Events, AppendEvent(event)
  PROVE  Sound'
<1> USE JournalAssumption
<1>1. /\ pc = "ready" /\ pc' = "log" /\ written' = written + 1 /\ written \in Nat
      /\ UNCHANGED <<entries, generation, log, slots, disk>>
      /\ record' = [id |-> written + 1, sequence |-> Len(entries),
                    previous |-> HashAt(entries, Len(entries)), event |-> event]
      /\ Allowed(event, entries, Len(entries))
      /\ Len(log) \in Nat
  BY DEF AppendEvent, MakeEntry, Typed, TypeOK, logFile, heads
<1>2. entries # <<>>
  BY <1>1 DEF Sound, First
<1>3. Counted'
  BY <1>1 DEF Sound, Counted
<1>4. Continued'
  <2>1. event.type \in {"checkpoint", "terminal"}
    BY DEF Events, Checkpoints, Checkpoint, Terminal
  <2> QED
    BY <1>1, <1>2, <2>1 DEF Continued, Continues
<1>5. Alternating' /\ First' /\ Anchored' /\ Whole'
  BY <1>1, <1>2 DEF Sound, Alternating, First, Anchored, Whole, Current, Other
<1> QED
  BY <1>3, <1>4, <1>5 DEF Sound

(* The two slots of an open handle are two.                                 *)
LEMMA TwoSlots ==
  ASSUME Typed
  PROVE  /\ generation \in Nat
         /\ Current \in 0 .. 1 /\ Other \in 0 .. 1 /\ Current # Other
         /\ Publishing = IF entries = <<>> THEN 0 ELSE generation + 1
         /\ Slot = IF entries = <<>> THEN 0 ELSE Other
  BY Parity DEF Typed, TypeOK, Current, Other, Publishing, Slot

(* A commit works on the slot the report does not need, until it is synced. *)
LEMMA SoundCommit == Typed /\ Kept /\ Sound /\ Commit => Sound'
<1> SUFFICES ASSUME Typed, Kept, Sound, Commit
             PROVE  Sound'
  OBVIOUS
<1>0. /\ log \in Seq(Records \cup {Garbled}) /\ entries \in Seq(Records)
      /\ slots \in [0 .. 1 -> Anchors \cup {NoAnchor}]
      /\ disk \in [0 .. 1 -> Anchors \cup {NoAnchor}]
      /\ written \in Nat
  BY DEF Typed, TypeOK
<1>a. /\ record \in Records /\ Continues(record, entries)
      /\ pc \notin {"closed", "ready"}
  BY DEF Commit, WriteLog, FlushLog, TruncateSlot, WriteAnchor, SyncAnchor, Typed, Sound,
         Continued
<1>1. CASE WriteLog
  <2>1. /\ pc = "log" /\ pc' = "flush" /\ Len(log') = Len(log) + 1
        /\ UNCHANGED <<entries, generation, record, written, slots, disk>>
    BY <1>0, <1>1 DEF WriteLog, heads
  <2>2. Counted'
    BY <1>0, <2>1 DEF Sound, Counted
  <2> QED
    BY <2>1, <2>2 DEF Sound, Alternating, Continued, First, Anchored, Whole, Current, Other
<1>2. CASE FlushLog
  BY <1>2 DEF FlushLog, heads, Sound, Counted, Alternating, Continued, First, Anchored, Whole,
              Current, Other
<1>3. CASE TruncateSlot
  <2>1. /\ pc = "truncate" /\ pc' = "anchor" /\ slots' = [slots EXCEPT ![Slot] = NoAnchor]
        /\ UNCHANGED <<entries, generation, record, written, log, disk>>
    BY <1>3 DEF TruncateSlot, logFile
  <2>2. Counted' /\ Continued' /\ Whole'
    BY <2>1 DEF Sound, Counted, Continued, Whole
  <2>3. Alternating'
    BY <1>0, <2>1 DEF Sound, Alternating
  <2>4. First'
    BY <1>0, <2>1, TwoSlots DEF Sound, First
  <2>5. Anchored'
    <3>1. CASE entries = <<>>
      BY <2>1, <3>1 DEF Anchored
    <3>2. CASE entries # <<>>
      <4>1. slots'[Current] = slots[Current]
        BY <1>0, <2>1, <3>2, TwoSlots
      <4> QED
        BY <1>a, <2>1, <3>2, <4>1 DEF Sound, Anchored, Current
    <3> QED
      BY <3>1, <3>2
  <2> QED
    BY <2>2, <2>3, <2>4, <2>5 DEF Sound
<1>4. CASE WriteAnchor
  <2> DEFINE anchor == AnchorOf(Append(entries, record), Publishing)
  <2>1. /\ pc = "anchor" /\ pc' = "sync" /\ slots' = [slots EXCEPT ![Slot] = anchor]
        /\ UNCHANGED <<entries, generation, record, written, log, disk>>
    BY <1>4 DEF WriteAnchor, logFile
  <2>2. anchor.generation = Publishing
    BY DEF AnchorOf
  <2>3. Counted' /\ Continued' /\ Whole'
    BY <2>1 DEF Sound, Counted, Continued, Whole
  <2>4. Alternating'
    <3>1. anchor.generation % 2 = Slot
      BY <2>2 DEF Slot
    <3> HIDE DEF anchor
    <3> QED
      BY <1>0, <2>1, <3>1 DEF Sound, Alternating
  <2>5. First'
    <3>1. CASE entries = <<>>
      <4>1. Slot = 0 /\ Publishing = 0 /\ Append(entries, record) = <<record>>
        BY <1>a, <3>1, TwoSlots
      <4>2. slots'[0] = AnchorOf(<<record>>, 0) /\ slots'[1] = slots[1]
        BY <1>0, <2>1, <4>1
      <4> QED
        BY <1>a, <2>1, <3>1, <4>2 DEF Sound, First, AnchorOf, HashAt
    <3>2. CASE entries # <<>>
      BY <2>1, <3>2 DEF First
    <3> QED
      BY <3>1, <3>2
  <2>6. Anchored'
    <3>1. CASE entries = <<>>
      BY <2>1, <3>1 DEF Anchored
    <3>2. CASE entries # <<>>
      <4>1. Slot = Other /\ Publishing = generation + 1
        BY <3>2, TwoSlots
      <4> HIDE DEF anchor
      <4>2. slots'[Current] = slots[Current] /\ slots'[Other] = anchor
        BY <1>0, <2>1, <4>1, TwoSlots
      <4> QED
        BY <1>a, <2>1, <3>2, <4>1, <4>2 DEF Sound, Anchored, Current, Other, anchor, AnchorOf
    <3> QED
      BY <3>1, <3>2
  <2> QED
    BY <2>3, <2>4, <2>5, <2>6 DEF Sound
<1>5. CASE SyncAnchor
  <2>1. /\ pc = "sync" /\ pc' = "ready" /\ generation' = Publishing /\ disk' = slots
        /\ entries' = Append(entries, record)
        /\ UNCHANGED <<record, written, log, slots>>
    BY <1>5 DEF SyncAnchor, logFile
  <2>2. entries' # <<>>
    BY <1>0, <1>a, <2>1
  <2>3. Counted' /\ Continued' /\ Alternating' /\ First'
    BY <2>1, <2>2 DEF Sound, Counted, Continued, Alternating, First
  <2>4. Whole'
    BY <1>0, <1>a, <2>1, ChainedAppend DEF Sound, Whole
  <2>5. Anchored'
    <3>1. CASE entries = <<>>
      <4>1. /\ generation' = 0 /\ slots[1] = NoAnchor /\ slots[0] = AnchorOf(<<record>>, 0)
            /\ entries' = <<record>>
        BY <1>a, <2>1, <3>1, TwoSlots DEF Sound, First
      <4> QED
        BY <2>1, <4>1 DEF Anchored, Current, Other
    <3>2. CASE entries # <<>>
      <4>1. /\ slots[Other] = AnchorOf(entries', generation')
            /\ slots[Current].generation = generation
            /\ generation' = generation + 1 /\ generation \in Nat
        BY <1>a, <2>1, <3>2, TwoSlots DEF Sound, Anchored, AnchorOf
      <4>2. generation' % 2 = Other /\ (generation' + 1) % 2 = Current
        <5>1. (generation + 1) + 1 = generation + 2
          BY <4>1
        <5> QED
          BY <4>1, <5>1, Parity DEF Current, Other
      <4> QED
        BY <2>1, <4>1, <4>2 DEF Anchored, Current, Other
    <3> QED
      BY <3>1, <3>2
  <2> QED
    BY <2>3, <2>4, <2>5 DEF Sound
<1> QED
  BY <1>1, <1>2, <1>3, <1>4, <1>5 DEF Commit

(* Without a handle, only the count and the alternation are at stake.       *)
LEMMA SoundClosed ==
  ASSUME Typed, Typed', Sound, pc' = "closed", generation' = 0,
         Close \/ Fail \/ PowerLoss
  PROVE  Sound'
<1>1. Continued' /\ First' /\ Anchored' /\ Whole'
  BY DEF Continued, First, Anchored, Whole
<1>2. Counted'
  <2>0. written \in Nat /\ Len(log) \in Nat /\ log \in Seq(Records \cup {Garbled})
        /\ durable \in 0 .. Len(log)
    BY DEF Typed, TypeOK
  <2>1. CASE Close \/ Fail
    BY <2>1 DEF Close, Fail, logFile, Sound, Counted
  <2>2. CASE PowerLoss
    <3>1. PICK n \in durable .. Len(log) : log' = SubSeq(log, 1, n)
      BY <2>2 DEF PowerLoss
    <3>2. Len(log') = n /\ n \in Nat /\ n <= Len(log)
      BY <2>0, <3>1
    <3>3. written' = written
      BY <2>2 DEF PowerLoss
    <3> QED
      BY <2>0, <3>2, <3>3 DEF Sound, Counted
  <2> QED
    BY <2>1, <2>2
<1>3. Alternating'
  <2>1. CASE Close \/ Fail
    BY <2>1 DEF Close, Fail, heads, Sound, Alternating
  <2>2. CASE PowerLoss
    <3>1. \A i \in 0 .. 1 : disk'[i] = slots'[i] /\ slots'[i] \in {slots[i], disk[i], NoAnchor}
      BY <2>2 DEF PowerLoss
    <3> QED
      BY <3>1 DEF Sound, Alternating
  <2> QED
    BY <2>1, <2>2
<1> QED
  BY <1>1, <1>2, <1>3 DEF Sound

(* Every step keeps the handle and its slots sound.                        *)
LEMMA SoundNext ==
  ASSUME Kept, Kept', Sound, [Next]_vars, faults' # "reused"
  PROVE  Sound'
<1>0. Typed /\ Typed'
  BY DEF Kept
<1>1. CASE Create
  BY <1>0, <1>1, SoundCreate
<1>2. CASE Open
  BY <1>0, <1>2, SoundOpen
<1>3. ASSUME NEW event \in Events, AppendEvent(event)
      PROVE  Sound'
  BY <1>0, <1>3, SoundAppend
<1>4. CASE Commit
  BY <1>0, <1>4, SoundCommit
<1>5. CASE Close \/ Fail \/ PowerLoss
  <2>1. pc' = "closed" /\ generation' = 0
    BY <1>5 DEF Close, Fail, PowerLoss
  <2> QED
    BY <1>0, <1>5, <2>1, SoundClosed
<1>6. CASE UNCHANGED vars
  BY <1>6 DEF vars, handle, logFile, heads, Sound, Counted, Alternating, Continued, First,
              Anchored, Whole, Current, Other
<1> QED
  BY <1>1, <1>2, <1>3, <1>4, <1>5, <1>6 DEF Next

-----------------------------------------------------------------------------
(* While the machine only ever stops, a slot anchors what was acknowledged. *)
LEMMA AnchoredHandle ==
  ASSUME Typed, Kept, Sound, pc # "closed", acked # <<>>
  PROVE  /\ entries = acked /\ Current \in 0 .. 1
         /\ slots[Current] = AnchorOf(acked, generation)
         /\ slots[Current] # NoAnchor
         /\ slots[Current].count = Len(acked)
         /\ slots[Current].head = HashAt(acked, Len(acked))
<1>1. entries = acked /\ acked \in Seq(Records) /\ generation \in Nat
  BY DEF Kept, Handle, Typed, TypeOK
<1>2. slots[Current] = AnchorOf(acked, generation)
  BY <1>1 DEF Sound, Anchored
<1>3. AnchorOf(acked, generation) \in Anchors
  BY <1>1, HashIsNat DEF AnchorOf, Anchors
<1> QED
  BY <1>1, <1>2, <1>3, TwoSlots, NoAnchorAssumption DEF AnchorOf

(* A slot is rewritten while the other one is safe, and is safe before the  *)
(* other one is rewritten.                                                  *)
LEMMA SteadyNext ==
  ASSUME Kept, Sound, Steady, [Next]_vars, faults' = "none"
  PROVE  Steady'
<1>0. /\ Typed
      /\ slots \in [0 .. 1 -> Anchors \cup {NoAnchor}]
      /\ disk \in [0 .. 1 -> Anchors \cup {NoAnchor}]
  BY DEF Kept, Typed, TypeOK
<1>1. CASE Create \/ Open \/ \E event \in Events : AppendEvent(event)
  <2>1. /\ pc \in {"closed", "ready"} /\ pc' \in {"ready", "log"}
        /\ UNCHANGED <<slots, disk>>
    BY <1>1 DEF Create, Open, AppendEvent, heads
  <2> QED
    BY <2>1 DEF Steady
<1>2. CASE Close
  <2>1. /\ pc = "ready" /\ pc' = "closed" /\ UNCHANGED <<slots, disk, acked>>
    BY <1>2 DEF Close, heads, history
  <2> QED
    BY <1>0, <2>1, AnchoredHandle DEF Steady
<1>3. CASE WriteLog \/ FlushLog
  BY <1>3 DEF WriteLog, FlushLog, heads, Steady
<1>4. CASE TruncateSlot \/ WriteAnchor
  <2>1. PICK anchor : slots' = [slots EXCEPT ![Slot] = anchor]
    BY <1>4 DEF TruncateSlot, WriteAnchor
  <2>2. /\ pc \in {"truncate", "anchor"} /\ pc' \in {"anchor", "sync"}
        /\ UNCHANGED <<entries, generation, disk>>
    BY <1>4 DEF TruncateSlot, WriteAnchor
  <2>3. entries # <<>> => slots'[Current] = slots[Current]
    BY <1>0, <2>1, TwoSlots
  <2> QED
    BY <2>2, <2>3 DEF Steady, Current
<1>5. CASE SyncAnchor
  BY <1>5 DEF SyncAnchor, Steady
<1>6. CASE Fail
  BY <1>6 DEF Fail
<1>7. CASE PowerLoss
  <2>1. /\ pc' = "closed" /\ acked' = acked /\ disk' = slots'
        /\ \A i \in 0 .. 1 : slots[i] = disk[i] => slots'[i] = slots[i]
    BY <1>7 DEF PowerLoss, history
  <2>2. ASSUME acked # <<>>
        PROVE  \E i \in 0 .. 1 : /\ slots'[i] # NoAnchor
                                 /\ slots'[i].count = Len(acked)
                                 /\ slots'[i].head = HashAt(acked, Len(acked))
    <3>1. CASE pc = "closed"
      BY <2>1, <2>2, <3>1 DEF Steady
    <3>2. CASE pc # "closed"
      <4>1. entries # <<>> /\ Current \in 0 .. 1
        BY <1>0, <2>2, <3>2, AnchoredHandle
      <4>2. slots'[Current] = slots[Current]
        BY <2>1, <4>1 DEF Steady
      <4> QED
        BY <1>0, <2>2, <3>2, <4>1, <4>2, AnchoredHandle
    <3> QED
      BY <3>1, <3>2
  <2> QED
    BY <2>1, <2>2 DEF Steady
<1>8. CASE UNCHANGED vars
  BY <1>8 DEF vars, handle, heads, history, Steady, Current
<1> QED
  BY <1>1, <1>2, <1>3, <1>4, <1>5, <1>6, <1>7, <1>8 DEF Next, Commit

(* The invariants give ReadyReopens.                                        *)
LEMMA IReopensReopens ==
  ASSUME IReopens, Typed, MaxRecords <= Limit
  PROVE  ReadyReopens
<1>1. ASSUME pc = "ready", faults # "reused"
      PROVE  /\ Opens(log, tail, slots)
             /\ log = entries
             /\ Latest(slots).generation = generation
  <2>1. Kept /\ Sound /\ log = entries /\ ~tail /\ entries # <<>>
    BY <1>1 DEF IReopens, Kept, Handle, Sound, First
  <2>2. Replays(log, tail)
    <3>1. Len(log) <= Limit
      BY <2>1, JournalAssumption DEF Sound, Counted, Typed, TypeOK
    <3>2. Chained(log)
      BY <1>1, <2>1 DEF Sound, Whole
    <3> QED
      BY <2>1, <3>1, <3>2 DEF Chained, Replays
  <2>3. /\ slots[Current] = AnchorOf(entries, generation)
        /\ slots[Other] # NoAnchor => slots[Other].generation < generation
    BY <1>1, <2>1 DEF Sound, Anchored
  <2>4. AnchorOf(entries, generation) \in Anchors
    BY <1>1, HashIsNat DEF AnchorOf, Anchors, Typed, TypeOK
  <2>5. \A j \in (0 .. 1) \ {Current} : j = Other
    BY TwoSlots
  <2>6. Latest(slots) = AnchorOf(entries, generation)
    <3>1. slots[Current] # NoAnchor /\ slots[Current].generation = generation
      BY <2>3, <2>4, NoAnchorAssumption DEF AnchorOf
    <3>2. slots \in [0 .. 1 -> Anchors \cup {NoAnchor}]
      BY DEF Typed, TypeOK
    <3> QED
      BY <2>3, <2>5, <3>1, <3>2, TwoSlots, LatestIs
  <2> QED
    BY <2>1, <2>2, <2>4, <2>6, NoAnchorAssumption DEF Opens, AnchorOf
<1>2. ASSUME faults = "none", acked # <<>>
      PROVE  \E i \in 0 .. 1 : /\ disk[i] # NoAnchor /\ slots[i] = disk[i]
                               /\ disk[i].count = Len(acked)
                               /\ disk[i].head = HashAt(acked, Len(acked))
  <2>1. Kept /\ Sound /\ Steady
    BY <1>2 DEF IReopens
  <2>2. CASE pc = "closed"
    BY <1>2, <2>1, <2>2 DEF Steady
  <2>3. CASE pc # "closed"
    <3>1. slots[Current] = disk[Current]
      BY <1>2, <2>1, <2>3, AnchoredHandle DEF Steady
    <3> QED
      BY <1>2, <2>1, <2>3, <3>1, AnchoredHandle
  <2> QED
    BY <2>2, <2>3
<1> QED
  BY <1>1, <1>2 DEF ReadyReopens

(* As long as the records of a journal fit in its limit, a handle at rest   *)
(* can be dropped and opened again with the same report, and while the      *)
(* machine only ever stops, one slot always anchors what was acknowledged.  *)
THEOREM JournalReopens ==
  ASSUME MaxRecords <= Limit
  PROVE  Spec => []ReadyReopens
<1>1. Typed /\ IReopens => ReadyReopens
  BY IReopensReopens
<1>2. Typed /\ IReopens /\ [Next]_vars => (Typed /\ IReopens)'
  <2> SUFFICES ASSUME Typed, IReopens, [Next]_vars
               PROVE  Typed' /\ IReopens'
    OBVIOUS
  <2>1. Typed'
    BY TypedNext
  <2>2. /\ faults = "reused" => faults' = "reused"
        /\ faults' = "none" => faults = "none"
    BY DEF Next, Create, Open, Close, AppendEvent, Commit, WriteLog, FlushLog, TruncateSlot,
           WriteAnchor, SyncAnchor, Fail, PowerLoss, vars, history
  <2>3. faults' # "reused" => Kept' /\ Sound'
    BY <2>2, KeptNext, SoundNext DEF IReopens
  <2>4. faults' = "none" => Steady'
    BY <2>2, SteadyNext DEF IReopens
  <2> QED
    BY <2>1, <2>3, <2>4 DEF IReopens
<1>3. Init => Typed /\ IReopens
  <2> SUFFICES ASSUME Init
               PROVE  Typed /\ Kept /\ Sound /\ Steady
    BY DEF IReopens
  <2>1. Sound
    BY DEF Init, Sound, Counted, Alternating, Continued, First, Anchored, Whole
  <2>2. Steady
    BY DEF Init, Steady
  <2> QED
    BY <2>1, <2>2, TypedInit, KeptInit
<1> QED
  BY <1>1, <1>2, <1>3, PTL DEF Spec

-----------------------------------------------------------------------------
(* What NothingUncommitted stands on, also when a handle is used again      *)
(* after an error.  The log holds what was acknowledged, or a synced line   *)
(* that no replay gets past; and no anchor counts more than one line that   *)
(* was not acknowledged.                                                    *)
Agrees(lines) == \A i \in 1 .. Len(lines) : log[i] = lines[i]

Broken(n) ==
  \E i \in 1 .. n : log[i].event.type = "garbled" \/ log[i].sequence # i - 1

Reported ==
  /\ pc = "closed" => entries = <<>>
  /\ pc = "ready" => entries # <<>>
  /\ pc # "closed" => entries = acked

Lines ==
  /\ Len(acked) <= durable
  /\ Agrees(acked) \/ Broken(durable)
  /\ pc = "flush" => /\ Len(entries) < Len(log)
                     /\ Agrees(Append(entries, record)) \/ Broken(Len(log))
  /\ pc \in {"truncate", "anchor", "sync"} =>
       /\ Len(entries) < durable
       /\ Agrees(Append(entries, record)) \/ Broken(durable)

Offers(anchor) ==
  anchor # NoAnchor =>
    /\ anchor.count <= durable
    /\ anchor.count > Len(acked) =>
         anchor.count = Len(acked) + 1 /\ anchor.head \in offered

Offered == \A i \in 0 .. 1 : Offers(slots[i]) /\ Offers(disk[i])

Committed == Typed /\ Reported /\ Continued /\ Lines /\ Offered

(* A journal that is created has nothing of an earlier one on disk.        *)
LEMMA NewIsEmpty ==
  ASSUME Typed, Reported, Lines, Create
  PROVE  /\ entries = <<>> /\ acked = <<>> /\ log = <<>> /\ durable = 0
         /\ \A i \in 0 .. 1 : slots[i] = NoAnchor
<1>1. log = <<>> /\ durable = 0 /\ acked \in Seq(Records) /\ Len(acked) <= 0
  BY DEF Create, Typed, TypeOK, Lines
<1>2. \A i \in 0 .. 1 : slots[i] = NoAnchor
  BY NoLatest DEF Create, Typed, TypeOK
<1> QED
  BY <1>1, <1>2 DEF Create, Reported

(* A handle that is open reports what was acknowledged, after every step.  *)
LEMMA ReportedNext == Typed /\ Reported /\ Lines /\ [Next]_vars => Reported'
<1> SUFFICES ASSUME Typed, Reported, Lines, [Next]_vars
             PROVE  Reported'
  OBVIOUS
<1>0. entries \in Seq(Records)
  BY DEF Typed, TypeOK
<1>1. CASE SyncAnchor
  <2>1. Append(entries, record) # <<>>
    BY <1>0, <1>1 DEF SyncAnchor, Typed
  <2> QED
    BY <1>1, <2>1 DEF SyncAnchor, Reported
<1>2. CASE Open
  BY <1>2 DEF Open, Opens, Replays, Reported
<1>3. CASE Fail
  BY <1>3 DEF Fail, Reported
<1>4. CASE Close \/ PowerLoss
  BY <1>4 DEF Close, PowerLoss, Reported
<1>5. ASSUME NEW event \in Events, AppendEvent(event)
      PROVE  Reported'
  BY <1>5 DEF AppendEvent, Reported, history
<1>6. CASE WriteLog \/ FlushLog \/ TruncateSlot \/ WriteAnchor
  BY <1>6 DEF WriteLog, FlushLog, TruncateSlot, WriteAnchor, Reported, history
<1>7. CASE UNCHANGED vars
  BY <1>7 DEF vars, handle, history, Reported
<1>8. CASE Create
  BY <1>8, NewIsEmpty DEF Create, Reported, history
<1> QED
  BY <1>1, <1>2, <1>3, <1>4, <1>5, <1>6, <1>7, <1>8 DEF Next, Commit

(* What is committed continues the report of its handle.                    *)
LEMMA ContinuedNext ==
  ASSUME Typed, Reported, Lines, Continued, [Next]_vars
  PROVE  Continued'
<1>1. CASE Create
  <2>1. entries' = <<>> /\ record'.sequence = 0 /\ record'.previous = 0 /\ record'.event = Started
    BY <1>1, NewIsEmpty DEF Create, MakeEntry
  <2>2. Allowed(Started, <<>>, 0)
    BY DEF Allowed, Ended, Started
  <2> QED
    BY <2>1, <2>2 DEF Continued, Continues, HashAt, Started
<1>2. ASSUME NEW event \in Events, AppendEvent(event)
      PROVE  Continued'
  <2>1. /\ UNCHANGED entries /\ entries # <<>>
        /\ record'.sequence = Len(entries)
        /\ record'.previous = HashAt(entries, Len(entries))
        /\ record'.event = event
        /\ Allowed(event, entries, Len(entries))
    BY <1>2 DEF AppendEvent, MakeEntry, Reported
  <2>2. event.type \in {"checkpoint", "terminal"}
    BY DEF Events, Checkpoints, Checkpoint, Terminal
  <2> QED
    BY <2>1, <2>2 DEF Continued, Continues
<1>3. CASE WriteLog \/ FlushLog \/ TruncateSlot \/ WriteAnchor
  BY <1>3 DEF WriteLog, FlushLog, TruncateSlot, WriteAnchor, Continued
<1>4. CASE Open \/ Close \/ SyncAnchor \/ Fail \/ PowerLoss
  BY <1>4 DEF Open, Close, SyncAnchor, Fail, PowerLoss, Continued
<1>5. CASE UNCHANGED vars
  BY <1>5 DEF vars, handle, Continued
<1> QED
  BY <1>1, <1>2, <1>3, <1>4, <1>5 DEF Next, Commit

(* A journal that opens has what was acknowledged, and more only if it was  *)
(* offered.                                                                 *)
LEMMA OpenReads ==
  ASSUME Committed, Open
  PROVE  /\ durable = Len(log) /\ Agrees(acked)
         /\ Len(log) \in {Len(acked), Len(acked) + 1}
         /\ Len(log) > Len(acked) => log[Len(log)].id \in offered
<1>0. /\ Typed /\ log \in Seq(Records \cup {Garbled}) /\ acked \in Seq(Records)
      /\ durable \in 0 .. Len(log) /\ Len(acked) <= durable
      /\ slots \in [0 .. 1 -> Anchors \cup {NoAnchor}]
  BY DEF Committed, Typed, TypeOK, Lines
<1>1. /\ Replays(log, tail) /\ Latest(slots) # NoAnchor
      /\ Latest(slots).count = Len(log) /\ Latest(slots).head = HashAt(log, Len(log))
  BY DEF Open, Opens
<1>2. Offers(Latest(slots))
  BY <1>0, <1>1, LatestIsASlot DEF Committed, Offered
<1>3. durable = Len(log)
  BY <1>0, <1>1, <1>2 DEF Offers
<1>4. ~Broken(durable)
  BY <1>1, <1>3 DEF Broken, Replays
<1>5. HashAt(log, Len(log)) = log[Len(log)].id
  BY <1>0, <1>1 DEF Replays, HashAt
<1> QED
  BY <1>0, <1>1, <1>2, <1>3, <1>4, <1>5 DEF Committed, Lines, Offers

(* What was synced, or read, stays as it is.                                *)
LEMMA LinesStay ==
  ASSUME Typed, Typed', UNCHANGED acked, Len(acked) <= durable, durable <= durable',
         \A i \in 1 .. durable : log'[i] = log[i],
         Agrees(acked) \/ Broken(durable)
  PROVE  /\ Len(acked') <= durable'
         /\ Agrees(acked)' \/ Broken(durable)'
<1>0. /\ durable \in Nat /\ durable' \in Nat /\ Len(acked) \in Nat
      /\ durable <= Len(log) /\ durable' <= Len(log')
  BY DEF Typed, TypeOK
<1>1. ASSUME Agrees(acked)
      PROVE  Agrees(acked)'
  BY <1>0, <1>1 DEF Agrees
<1>2. ASSUME Broken(durable)
      PROVE  Broken(durable)'
  <2>1. PICK i \in 1 .. durable : log[i].event.type = "garbled" \/ log[i].sequence # i - 1
    BY <1>2 DEF Broken
  <2>2. i \in 1 .. durable' /\ log'[i] = log[i]
    BY <1>0
  <2> QED
    BY <2>1, <2>2 DEF Broken
<1> QED
  BY <1>0, <1>1, <1>2

(* A commit leaves the log in agreement with what is acknowledged, or      *)
(* broken before it.                                                       *)
LEMMA LinesCommit ==
  ASSUME Committed, Typed', Commit
  PROVE  Lines'
<1>0. /\ log \in Seq(Records \cup {Garbled}) /\ acked \in Seq(Records)
      /\ entries \in Seq(Records) /\ durable \in 0 .. Len(log) /\ Len(log) \in Nat
      /\ entries = acked /\ record \in Records /\ record.sequence = Len(entries)
  BY DEF Commit, WriteLog, FlushLog, TruncateSlot, WriteAnchor, SyncAnchor, Committed,
         Typed, TypeOK, Reported, Continued, Continues
<1>a. Typed /\ Lines
  BY DEF Committed
<1>1. CASE WriteLog
  <2>1. /\ pc' = "flush" /\ log' = Append(log, IF tail THEN Garbled ELSE record)
        /\ UNCHANGED <<entries, record, durable, acked>>
    BY <1>1 DEF WriteLog, history
  <2>2. Len(log') = Len(log) + 1 /\ \A i \in 1 .. Len(log) : log'[i] = log[i]
    BY <1>0, <2>1
  <2>3. Len(acked') <= durable' /\ (Agrees(acked)' \/ Broken(durable)')
    BY <1>0, <1>a, <2>1, <2>2, LinesStay DEF Lines
  <2>4. Agrees(Append(entries, record))' \/ Broken(Len(log))'
    <3>1. CASE tail
      <4>1. log'[Len(log')] = Garbled /\ Len(log') \in 1 .. Len(log')
        BY <1>0, <2>1, <2>2, <3>1
      <4> QED
        BY <4>1 DEF Broken, Garbled
    <3>2. CASE ~tail /\ Broken(durable)
      <4>1. PICK i \in 1 .. durable : log[i].event.type = "garbled" \/ log[i].sequence # i - 1
        BY <3>2 DEF Broken
      <4>2. i \in 1 .. Len(log') /\ log'[i] = log[i]
        BY <1>0, <2>2
      <4> QED
        BY <4>1, <4>2 DEF Broken
    <3>3. CASE ~tail /\ Agrees(acked) /\ Len(log) = Len(acked)
      <4>1. log'[Len(log')] = record
        BY <1>0, <2>1, <2>2, <3>3
      <4>2. /\ Len(Append(entries, record)) = Len(log')
            /\ Append(entries, record)[Len(log')] = record
            /\ \A i \in 1 .. Len(log) : Append(entries, record)[i] = acked[i]
        BY <1>0, <2>2, <3>3
      <4> QED
        BY <1>0, <2>1, <2>2, <3>3, <4>1, <4>2 DEF Agrees
    <3>4. CASE ~tail /\ Len(log) # Len(acked)
      <4>1. log'[Len(log')] = record /\ Len(log') \in 1 .. Len(log')
        BY <1>0, <2>1, <2>2, <3>4
      <4>2. record.sequence # Len(log') - 1
        BY <1>0, <2>2, <3>4
      <4> QED
        BY <4>1, <4>2 DEF Broken
    <3> QED
      BY <1>a, <3>1, <3>2, <3>3, <3>4 DEF Lines
  <2>5. Len(entries') < Len(log')
    BY <1>0, <1>a, <2>1, <2>2 DEF Lines
  <2> QED
    BY <2>1, <2>3, <2>4, <2>5 DEF Lines
<1>2. CASE FlushLog
  <2>1. /\ pc = "flush" /\ pc' = "truncate" /\ durable' = Len(log)
        /\ UNCHANGED <<entries, record, log, acked>>
    BY <1>2 DEF FlushLog, history
  <2>2. Len(acked') <= durable' /\ (Agrees(acked)' \/ Broken(durable)')
    BY <1>0, <1>a, <2>1, LinesStay DEF Lines
  <2> QED
    BY <1>a, <2>1, <2>2 DEF Lines, Agrees, Broken
<1>3. CASE TruncateSlot \/ WriteAnchor
  BY <1>a, <1>3 DEF TruncateSlot, WriteAnchor, logFile, history, Lines, Agrees, Broken
<1>4. CASE SyncAnchor
  <2>1. /\ pc = "sync" /\ pc' = "ready" /\ acked' = Append(entries, record)
        /\ UNCHANGED <<log, durable>>
    BY <1>4 DEF SyncAnchor, logFile
  <2>2. Len(acked') = Len(entries) + 1
    BY <1>0, <2>1
  <2> QED
    BY <1>0, <1>a, <2>1, <2>2 DEF Lines, Agrees, Broken
<1> QED
  BY <1>1, <1>2, <1>3, <1>4 DEF Commit

(* Every step does, power losses and reopenings included.                  *)
LEMMA LinesNext ==
  ASSUME Committed, Typed', [Next]_vars
  PROVE  Lines'
<1>0. Typed /\ Lines /\ Reported
  BY DEF Committed
<1>1. CASE Create
  <2>1. /\ pc' = "log" /\ acked' = <<>> /\ durable' = 0
    BY <1>0, <1>1, NewIsEmpty DEF Create, logFile, history
  <2> QED
    BY <2>1 DEF Lines, Agrees
<1>2. CASE Open
  <2>1. pc' = "ready" /\ acked' = log /\ log' = log /\ durable' = Len(log)
    BY <1>2, OpenReads DEF Open, logFile
  <2>2. Len(log) \in Nat
    BY <1>0 DEF Typed, TypeOK
  <2> QED
    BY <2>1, <2>2 DEF Lines, Agrees
<1>3. CASE Close \/ \E event \in Events : AppendEvent(event)
  <2>1. pc' \in {"closed", "log"} /\ UNCHANGED <<log, durable, acked>>
    BY <1>3 DEF Close, AppendEvent, logFile, history
  <2> QED
    BY <1>0, <2>1 DEF Lines, Agrees, Broken
<1>4. CASE Commit
  BY <1>4, LinesCommit
<1>5. CASE Fail
  <2>1. pc' \in {"closed", "ready"} /\ UNCHANGED <<log, durable, acked>>
    BY <1>5 DEF Fail
  <2> QED
    BY <1>0, <2>1 DEF Lines, Agrees, Broken
<1>6. CASE PowerLoss
  <2>1. PICK n \in durable .. Len(log) : log' = SubSeq(log, 1, n) /\ durable' = n
    BY <1>6 DEF PowerLoss
  <2>2. pc' = "closed" /\ acked' = acked
    BY <1>6 DEF PowerLoss, history
  <2>3. /\ durable \in Nat /\ n \in Nat /\ durable <= n
        /\ \A i \in 1 .. durable : log'[i] = log[i]
    BY <1>0, <2>1 DEF Typed, TypeOK
  <2>4. Len(acked') <= durable' /\ (Agrees(acked)' \/ Broken(durable)')
    BY <1>0, <2>1, <2>2, <2>3, LinesStay DEF Lines
  <2> QED
    BY <2>2, <2>4 DEF Lines
<1>7. CASE UNCHANGED vars
  BY <1>0, <1>7 DEF vars, handle, logFile, history, Lines, Agrees, Broken
<1> QED
  BY <1>1, <1>2, <1>3, <1>4, <1>5, <1>6, <1>7 DEF Next

(* No step leaves an anchor that counts two unacknowledged lines.          *)
LEMMA OfferedNext ==
  ASSUME Committed, Typed', [Next]_vars
  PROVE  Offered'
<1>0. /\ Typed /\ Lines /\ Reported /\ Offered
      /\ Len(acked) \in Nat /\ durable \in Nat /\ Len(log) \in Nat /\ durable <= Len(log)
      /\ slots \in [0 .. 1 -> Anchors \cup {NoAnchor}]
      /\ disk \in [0 .. 1 -> Anchors \cup {NoAnchor}]
  BY DEF Committed, Typed, TypeOK
<1>a. \A i \in 0 .. 1 : /\ slots[i] # NoAnchor => slots[i].count \in Nat
                        /\ disk[i] # NoAnchor => disk[i].count \in Nat
  BY <1>0 DEF Anchors
(* An anchor stays one that was offered, as the log and what was            *)
(* acknowledged of it only grow.                                            *)
<1>b. ASSUME NEW anchor, anchor # NoAnchor => anchor.count \in Nat, Offers(anchor),
             durable <= durable', durable' \in Nat,
             Len(acked') = Len(acked) \/ Len(acked') = Len(acked) + 1,
             offered \subseteq offered'
      PROVE  Offers(anchor)'
  BY <1>0, <1>b DEF Offers
<1>1. CASE Create \/ Close \/ Fail \/ WriteLog \/ \E event \in Events : AppendEvent(event)
  <2>1. UNCHANGED <<slots, disk, durable, acked, offered>>
    BY <1>1 DEF Create, Close, Fail, WriteLog, AppendEvent, logFile, heads, history
  <2> QED
    BY <1>0, <2>1 DEF Offered, Offers
<1>2. CASE Open
  <2>1. UNCHANGED <<slots, disk, durable, offered>> /\ acked' = log
    BY <1>2 DEF Open, logFile, heads
  <2>2. Len(acked') = Len(acked) \/ Len(acked') = Len(acked) + 1
    BY <1>2, <2>1, OpenReads
  <2> QED
    BY <1>0, <1>a, <1>b, <2>1, <2>2 DEF Offered
<1>3. CASE FlushLog
  <2>1. UNCHANGED <<slots, disk, acked, offered>> /\ durable' = Len(log)
    BY <1>3 DEF FlushLog, heads, history
  <2> QED
    BY <1>0, <1>a, <1>b, <2>1 DEF Offered
<1>4. CASE TruncateSlot
  BY <1>0, <1>4 DEF TruncateSlot, logFile, history, Offered, Offers
<1>5. CASE WriteAnchor
  <2> DEFINE anchor == AnchorOf(Append(entries, record), Publishing)
  <2>1. /\ slots' = [slots EXCEPT ![Slot] = anchor] /\ offered' = offered \cup {record.id}
        /\ UNCHANGED <<disk, durable, acked>> /\ pc = "anchor"
    BY <1>5 DEF WriteAnchor, logFile
  <2>2. entries = acked /\ entries \in Seq(Records) /\ record \in Records
    BY <1>0, <2>1 DEF Reported, Typed, TypeOK
  <2>3. anchor.count = Len(acked) + 1 /\ anchor.head = record.id
    BY <2>2 DEF AnchorOf, HashAt
  <2>4. \A i \in 0 .. 1 : slots'[i] = anchor => Offers(slots[i])'
    <3> HIDE DEF anchor
    <3> QED
      BY <1>0, <2>1, <2>2, <2>3 DEF Offers, Lines
  <2>5. \A i \in 0 .. 1 : Offers(slots[i])' \/ slots'[i] = anchor
    <3> HIDE DEF anchor
    <3> QED
      BY <1>0, <2>1 DEF Offered, Offers
  <2>6. \A i \in 0 .. 1 : Offers(disk[i])'
    BY <1>0, <2>1 DEF Offered, Offers
  <2> HIDE DEF anchor
  <2> QED
    BY <2>4, <2>5, <2>6 DEF Offered
<1>6. CASE SyncAnchor
  <2>1. UNCHANGED <<slots, durable, offered>> /\ disk' = slots /\ acked' = Append(entries, record)
    BY <1>6 DEF SyncAnchor, logFile
  <2>2. Len(acked') = Len(acked) + 1
    BY <1>0, <1>6, <2>1 DEF SyncAnchor, Reported, Typed, TypeOK
  <2> QED
    BY <1>0, <1>a, <1>b, <2>1, <2>2 DEF Offered
<1>7. CASE PowerLoss
  <2>1. durable <= durable' /\ durable' \in Nat /\ UNCHANGED <<acked, offered>>
    <3>1. PICK n \in durable .. Len(log) : durable' = n
      BY <1>7 DEF PowerLoss
    <3> QED
      BY <1>0, <1>7, <3>1 DEF PowerLoss, history
  <2>2. \A i \in 0 .. 1 : disk'[i] = slots'[i] /\ slots'[i] \in {slots[i], disk[i], NoAnchor}
    BY <1>7 DEF PowerLoss
  <2>3. \A i \in 0 .. 1 : \A a \in {slots[i], disk[i], NoAnchor} :
          a # NoAnchor => a.count <= durable /\
                          (a.count > Len(acked) => a.count = Len(acked) + 1 /\ a.head \in offered)
    BY <1>0 DEF Offered, Offers
  <2> QED
    BY <1>0, <1>a, <2>1, <2>2, <2>3 DEF Offered, Offers
<1>8. CASE UNCHANGED vars
  BY <1>0, <1>8 DEF vars, logFile, heads, history, Offered, Offers
<1> QED
  BY <1>1, <1>2, <1>3, <1>4, <1>5, <1>6, <1>7, <1>8 DEF Next, Commit

(* Every step keeps the invariant.                                         *)
LEMMA CommittedNext == Committed /\ [Next]_vars => Committed'
<1> SUFFICES ASSUME Committed, [Next]_vars
             PROVE  Committed'
  OBVIOUS
<1>1. Typed'
  BY TypedNext DEF Committed
<1> QED
  BY <1>1, ReportedNext, ContinuedNext, LinesNext, OfferedNext DEF Committed

(* The invariant holds at the start.                                       *)
LEMMA CommittedInit == Init => Committed
<1> SUFFICES ASSUME Init
             PROVE  Committed
  OBVIOUS
<1>1. Reported /\ Continued /\ Lines /\ Offered
  BY DEF Init, Reported, Continued, Lines, Agrees, Offered, Offers
<1> QED
  BY <1>1, TypedInit DEF Committed

(* Whatever happens, also when a handle is used again after an error, a     *)
(* journal never opens with less than was acknowledged, and with at most    *)
(* one event more, whose anchor had been written.                           *)
THEOREM JournalOpensCommitted == Spec => NothingUncommitted
<1> DEFINE Opening == pc = "closed" /\ pc' = "ready"
              => /\ Len(entries') \in {Len(acked), Len(acked) + 1}
                 /\ \A i \in 1 .. Len(acked) : entries'[i] = acked[i]
                 /\ Len(entries') > Len(acked) => entries'[Len(entries')].id \in offered
<1>1. Committed /\ [Next]_vars => [Opening]_vars
  <2> SUFFICES ASSUME Committed, Next, pc = "closed", pc' = "ready"
               PROVE  Opening
    BY DEF vars, handle
  <2>1. Open
    BY DEF Next, Create, AppendEvent, Close, Commit, WriteLog, FlushLog, TruncateSlot,
           WriteAnchor, SyncAnchor, Fail, PowerLoss
  <2>2. entries' = log
    BY <2>1 DEF Open
  <2> QED
    BY <2>1, <2>2, OpenReads DEF Agrees
<1>2. Spec => [][Opening]_vars
  BY <1>1, CommittedInit, CommittedNext, PTL DEF Spec
<1> QED
  BY <1>2 DEF NothingUncommitted

-----------------------------------------------------------------------------
(* How the promised state reads off a record that is acknowledged.          *)
Ends(lines) ==
  {lines[i].event.state : i \in {j \in 1 .. Len(lines) : lines[j].event.type = "terminal"}}

(* One more record adds its own checkpoint or outcome to what is recorded, *)
(* and nothing else.                                                       *)
LEMMA RecordedAppend ==
  ASSUME NEW lines \in Seq(Records), NEW r \in Records
  PROVE  /\ \A s : Recorded(Append(lines, r), Len(Append(lines, r)), s)
              = Recorded(lines, Len(lines), s)
                  \cup (IF r.event.type = "checkpoint" /\ r.event.step = s
                        THEN {r.event.state} ELSE {})
         /\ Ends(Append(lines, r))
              = Ends(lines) \cup (IF r.event.type = "terminal" THEN {r.event.state} ELSE {})
<1> DEFINE more == Append(lines, r)
<1>1. /\ Len(more) = Len(lines) + 1 /\ Len(lines) \in Nat
      /\ more[Len(lines) + 1] = r
      /\ \A i \in 1 .. Len(lines) : more[i] = lines[i]
  OBVIOUS
<1>2. \A i \in 1 .. Len(lines) + 1 : i = Len(lines) + 1 \/ i \in 1 .. Len(lines)
  BY <1>1
<1>3. Len(lines) + 1 \in 1 .. Len(lines) + 1 /\ 1 .. Len(lines) \subseteq 1 .. Len(lines) + 1
  BY <1>1
<1> HIDE DEF more
<1>4. ASSUME NEW s
      PROVE  Recorded(more, Len(more), s)
               = Recorded(lines, Len(lines), s)
                   \cup (IF r.event.type = "checkpoint" /\ r.event.step = s
                         THEN {r.event.state} ELSE {})
  BY <1>1, <1>2, <1>3 DEF Recorded
<1>5. Ends(more)
        = Ends(lines) \cup (IF r.event.type = "terminal" THEN {r.event.state} ELSE {})
  BY <1>1, <1>2, <1>3 DEF Ends
<1> QED
  BY <1>4, <1>5 DEF more

(* A record that continues the acknowledged ones is a step of the promise.  *)
LEMMA GrowthIsPromised ==
  ASSUME acked \in Seq(Records), NEW r \in Records, Continues(r, acked),
         acked' = Append(acked, r)
  PROVE  Promise!Next
<1> DEFINE Passed(lines, s) == Recorded(lines, Len(lines), s)
<1>0. /\ \A s : Passed(acked', s) = Passed(acked, s)
              \cup (IF r.event.type = "checkpoint" /\ r.event.step = s
                    THEN {r.event.state} ELSE {})
      /\ Ends(acked') = Ends(acked) \cup (IF r.event.type = "terminal"
                                          THEN {r.event.state} ELSE {})
  BY RecordedAppend
<1>1. acked' # <<>>
  OBVIOUS
<1>a. ~Ended(acked, Len(acked)) => Ends(acked) = {}
  BY DEF Ends, Ended
<1> HIDE DEF Passed
<1>2. CASE r.event = Started
  <2>0. r.event.type = "started"
    BY <1>2 DEF Started
  <2>1. acked = <<>>
    BY <2>0 DEF Continues
  <2>2. \A s : Passed(acked', s) = Passed(acked, s)
    BY <1>0, <2>0
  <2>3. Ends(acked') = Ends(acked)
    BY <1>0, <2>0
  <2>4. Promise!Start
    BY <1>1, <2>1, <2>2, <2>3 DEF Promise!Start, Ends, Passed
  <2> QED
    BY <2>4 DEF Promise!Next
<1>3. ASSUME NEW s \in Steps, NEW k \in 0 .. 2, r.event = Checkpoint(s, k)
      PROVE  Promise!Next
  <2>1. r.event.type = "checkpoint" /\ r.event.step = s /\ r.event.state = k
    BY <1>3 DEF Checkpoint
  <2>2. acked # <<>> /\ ~Ended(acked, Len(acked)) /\ Passed(acked, s) = 0 .. k - 1
    BY <2>1 DEF Continues, Allowed, Passed
  <2>3. Ends(acked') = Ends(acked) /\ Ends(acked) = {}
    BY <1>0, <1>a, <2>1, <2>2
  <2>4. Passed(acked', s) = 0 .. k
    <3>1. Passed(acked', s) = (0 .. k - 1) \cup {k}
      BY <1>0, <2>1, <2>2
    <3> QED
      BY <3>1
  <2>5. Cardinality(Passed(acked, s)) = k /\ Cardinality(Passed(acked', s)) = k + 1
    <3>0. 0 \in Int /\ k \in Int /\ k - 1 \in Int /\ k \in {0, 1, 2}
      OBVIOUS
    <3>a. Cardinality(0 .. k) = IF 0 > k THEN 0 ELSE k - 0 + 1
      BY <3>0, FS_Interval
    <3>b. Cardinality(0 .. k - 1) = IF 0 > k - 1 THEN 0 ELSE (k - 1) - 0 + 1
      BY <3>0, FS_Interval, Zenon
    <3>1. Cardinality(0 .. k - 1) = k /\ Cardinality(0 .. k) = k + 1
      BY <3>0, <3>a, <3>b
    <3> QED
      BY <2>2, <2>4, <3>1
  <2>6. \A t \in Steps \ {s} : Passed(acked', t) = Passed(acked, t)
    BY <1>0, <2>1
  <2>7. [t \in Steps |-> Cardinality(Passed(acked', t))]
          = [[t \in Steps |-> Cardinality(Passed(acked, t))] EXCEPT ![s] = @ + 1]
    BY <2>5, <2>6
  <2>8. [t \in Steps |-> Cardinality(Passed(acked, t))][s] < 3
    BY <2>5
  <2>9. Promise!Pass(s)
    BY <1>1, <2>2, <2>3, <2>7, <2>8 DEF Promise!Pass, Ends, Passed
  <2> QED
    BY <2>9 DEF Promise!Next
<1>4. ASSUME NEW o \in Outcomes, r.event = Terminal(o)
      PROVE  Promise!Next
  <2>1. r.event.type = "terminal" /\ r.event.state = o
    BY <1>4 DEF Terminal
  <2>2. acked # <<>> /\ ~Ended(acked, Len(acked))
    BY <2>1 DEF Continues, Allowed
  <2>3. Ends(acked) = {} /\ Ends(acked') = {o}
    BY <1>0, <1>a, <2>1, <2>2
  <2>4. \A s : Passed(acked', s) = Passed(acked, s)
    BY <1>0, <2>1
  <2>5. Promise!Finish(o)
    BY <1>1, <2>2, <2>3, <2>4 DEF Promise!Finish, Ends, Passed
  <2> QED
    BY <2>5 DEF Promise!Next
<1> QED
  BY <1>2, <1>3, <1>4 DEF Records, Events, Checkpoints

(* What is acknowledged grows by one record at a time, if at all.           *)
LEMMA AckedGrows ==
  ASSUME Committed, [Next]_vars
  PROVE  \/ acked' = acked
         \/ \E r \in Records : Continues(r, acked) /\ acked' = Append(acked, r)
<1>0. /\ Typed /\ acked \in Seq(Records) /\ log \in Seq(Records \cup {Garbled})
  BY DEF Committed, Typed, TypeOK
<1>1. CASE Open
  <2>1. /\ acked' = log /\ Replays(log, tail) /\ log \in Seq(Records)
    BY <1>0, <1>1, ReplayedAreRecords DEF Open, Opens, Typed
  <2>2. Agrees(acked) /\ Len(log) \in {Len(acked), Len(acked) + 1}
    BY <1>1, OpenReads
  <2>3. CASE Len(log) = Len(acked)
    BY <1>0, <2>1, <2>2, <2>3 DEF Agrees
  <2>4. CASE Len(log) = Len(acked) + 1
    <3> DEFINE n == Len(acked)
               r == log[n + 1]
    <3>1. n \in Nat /\ r \in Records
      BY <1>0, <2>1, <2>4
    <3>2. log = Append(acked, r)
      BY <1>0, <2>1, <2>2, <2>4 DEF Agrees
    <3>3. /\ r.event.type # "garbled" /\ r.sequence = n /\ r.previous = HashAt(log, n)
          /\ r.event.type = "started" <=> n = 0
          /\ Allowed(r.event, log, n)
      BY <2>1, <2>4, <3>1 DEF Replays
    <3>4. n = 0 <=> acked = <<>>
      BY <1>0
    <3> HIDE DEF r
    <3>5. HashAt(log, n) = HashAt(acked, n) /\ (Allowed(r.event, log, n) <=> Allowed(r.event, acked, n))
      BY <1>0, <3>1, <3>2, SamePrefix
    <3> QED
      BY <2>1, <3>1, <3>2, <3>3, <3>4, <3>5 DEF Continues
  <2> QED
    BY <2>2, <2>3, <2>4
<1>2. CASE SyncAnchor
  BY <1>2 DEF SyncAnchor, Committed, Typed, Reported, Continued
<1>3. CASE ~(Open \/ SyncAnchor)
  BY <1>3 DEF Next, Create, AppendEvent, Close, Commit, WriteLog, FlushLog, TruncateSlot,
              WriteAnchor, Fail, PowerLoss, vars, history
<1> QED
  BY <1>1, <1>2, <1>3

(* The acknowledged records implement JournalPromise, whatever happens: the *)
(* operation starts once, checkpoints come in order, an end is final, and   *)
(* nothing acknowledged is taken back.                                      *)
THEOREM JournalKeepsPromise == Spec => KeepsPromise
<1>1. Init => Promise!Init
  <2> SUFFICES ASSUME Init
               PROVE  Promise!Init
    OBVIOUS
  <2>1. acked = <<>>
    BY DEF Init
  <2>2. \A s : Recorded(acked, Len(acked), s) = {}
    BY <2>1 DEF Recorded
  <2>3. Cardinality({}) = 0
    BY FS_EmptySet
  <2>4. [s \in Steps |-> Cardinality(Recorded(acked, Len(acked), s))] = [s \in Steps |-> 0]
    BY <2>2, <2>3
  <2>5. Ends(acked) = {}
    BY <2>1 DEF Ends
  <2> QED
    BY <2>1, <2>4, <2>5 DEF Promise!Init, Ends
<1>2. Committed /\ [Next]_vars => [Promise!Next]_(Promise!vars)
  <2> SUFFICES ASSUME Committed, [Next]_vars
               PROVE  [Promise!Next]_(Promise!vars)
    OBVIOUS
  <2>1. CASE acked' = acked
    BY <2>1 DEF Promise!vars
  <2>2. CASE \E r \in Records : Continues(r, acked) /\ acked' = Append(acked, r)
    <3>1. acked \in Seq(Records)
      BY DEF Committed, Typed, TypeOK
    <3> QED
      BY <2>2, <3>1, GrowthIsPromised
  <2> QED
    BY <2>1, <2>2, AckedGrows
<1> QED
  BY <1>1, <1>2, CommittedInit, CommittedNext, PTL DEF Spec, KeepsPromise, Promise!Spec
=============================================================================
