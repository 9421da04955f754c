------------------------------ MODULE Journal ------------------------------
(***************************************************************************)
(* The operation journal (crates/journal): an append-only log of chained   *)
(* records, with the newest record's anchor kept in two rotating slots.    *)
(*                                                                         *)
(* One handle at a time is open, as the crate asks of its callers.  Every  *)
(* write of a commit is a step of its own, so a power loss or an I/O error *)
(* can come between any two; what was written but not yet synced may be    *)
(* lost, in part or in whole.  A hash is the number of the record, since   *)
(* distinct records have distinct hashes.  A file that was synced is       *)
(* assumed to keep its name.                                               *)
(***************************************************************************)
EXTENDS Naturals, Sequences, FiniteSets

CONSTANTS
  Steps,       \* checkpoint steps (JournalCode)
  Outcomes,    \* terminal states
  NoAnchor,    \* an anchor slot that is missing, empty or damaged
  Limit,       \* records that fit in MAX_JOURNAL_BYTES
  MaxRecords   \* bound: records encoded in one behaviour

ASSUME JournalAssumption ==
  /\ Limit \in Nat
  /\ MaxRecords \in Nat

VARIABLES
  pc,          \* where the handle is in commit; "closed" when there is none
  entries,     \* report.entries of the open handle
  generation,  \* anchor_generation of the open handle
  record,      \* the record being committed
  written,     \* records encoded so far
  log,         \* the lines of the log file
  tail,        \* the log file ends with part of a line
  durable,     \* how many lines are synced
  slots,       \* the two anchor files, as a reader sees them
  disk,        \* what a power loss leaves of them for certain
  acked,       \* history: the records acknowledged to a caller
  offered,     \* history: records whose anchor has been written
  faults       \* history: "none"; "errors"; or "reused", when a handle was
               \* kept after an I/O error

handle  == <<pc, entries, generation, record, written>>
logFile == <<log, tail, durable>>
heads   == <<slots, disk>>
history == <<acked, offered, faults>>
vars    == <<handle, logFile, heads, history>>

-----------------------------------------------------------------------------
(* Events, records and anchors.                                             *)

Started          == [type |-> "started"]
Checkpoint(s, k) == [type |-> "checkpoint", step |-> s, state |-> k]
Terminal(o)      == [type |-> "terminal", state |-> o]

(* CheckpointState::ordinal: prepared 0, applied 1, verified 2.             *)
Checkpoints == {Checkpoint(s, k) : s \in Steps, k \in 0 .. 2}
Events == Checkpoints \cup {Terminal(o) : o \in Outcomes}

(* A line that is no record: part of one, run together with the next.       *)
Garbled == [id |-> 0, sequence |-> 0, previous |-> 0, event |-> [type |-> "garbled"]]

Records == [id : 1 .. MaxRecords, sequence : Nat, previous : Nat,
            event : Events \cup {Started}]

Anchors == [generation : Nat, count : Nat, head : Nat]

ASSUME NoAnchorAssumption == NoAnchor \notin Anchors

(* JournalEntry::previous_hash of a record that follows the first n lines.  *)
HashAt(lines, n) == IF n = 0 THEN 0 ELSE lines[n].id

(* The checkpoints of a step that the first n lines record, as apply_event  *)
(* collects them; the next one is the lowest missing.                       *)
Recorded(lines, n, step) ==
  {lines[i].event.state : i \in {j \in 1 .. n : /\ lines[j].event.type = "checkpoint"
                                                /\ lines[j].event.step = step}}

Ended(lines, n) == \E i \in 1 .. n : lines[i].event.type = "terminal"

(* Mutant: an event is accepted after the end.                              *)
Allowed_afterEnd(event, lines, n) ==
  event.type = "checkpoint" => Recorded(lines, n, event.step) = 0 .. event.state - 1

(* apply_event, and the terminal check both of its callers make first.      *)
Allowed(event, lines, n) ==
  /\ ~Ended(lines, n)
  /\ event.type = "checkpoint" => Recorded(lines, n, event.step) = 0 .. event.state - 1

(* replay_inner, without the anchor.                                        *)
Replays(lines, partial) ==
  /\ lines # <<>> /\ ~partial
  /\ Len(lines) <= Limit
  /\ \A i \in 1 .. Len(lines) :
       /\ lines[i].event.type # "garbled"
       /\ lines[i].sequence = i - 1
       /\ lines[i].previous = HashAt(lines, i - 1)
       /\ lines[i].event.type = "started" <=> i = 1
       /\ Allowed(lines[i].event, lines, i - 1)

(* Mutant: the oldest anchor is taken.                                      *)
Latest_oldest(files) ==
  LET found == {files[i] : i \in 0 .. 1} \ {NoAnchor}
  IN  IF found = {} THEN NoAnchor
      ELSE CHOOSE a \in found : \A b \in found : a.generation <= b.generation

(* FileStorage::load: the valid anchor with the highest generation.         *)
Latest(files) ==
  LET found == {files[i] : i \in 0 .. 1} \ {NoAnchor}
  IN  IF found = {} THEN NoAnchor
      ELSE CHOOSE a \in found : \A b \in found : b.generation <= a.generation

(* The anchor of the last of these records.                                 *)
AnchorOf(lines, g) ==
  [generation |-> g, count |-> Len(lines), head |-> HashAt(lines, Len(lines))]

(* Mutant: a valid log needs no anchor.                                     *)
Opens_unanchored(lines, partial, files) ==
  /\ Replays(lines, partial)
  /\ Latest(files) # NoAnchor

(* replay_inner with the anchor required: it must be that of the log.       *)
Opens(lines, partial, files) ==
  /\ Replays(lines, partial)
  /\ Latest(files) # NoAnchor
  /\ Latest(files).count = Len(lines)
  /\ Latest(files).head = HashAt(lines, Len(lines))

-----------------------------------------------------------------------------
(* Handles.                                                                 *)

MakeEntry(sequence, previous, event) ==
  /\ written < MaxRecords
  /\ written' = written + 1
  /\ record' = [id |-> written + 1, sequence |-> sequence, previous |-> previous,
                event |-> event]

(* Journal::create: only where there is no log and no anchor.               *)
Create ==
  /\ pc = "closed"
  /\ log = <<>> /\ ~tail /\ Latest(slots) = NoAnchor
  /\ MakeEntry(0, 0, Started)
  /\ pc' = "log"
  /\ UNCHANGED <<entries, generation, logFile, heads, history>>

(* Journal::open.  A log that does not replay, or is not the anchored one,  *)
(* is refused and nothing changes.                                          *)
Open ==
  /\ pc = "closed"
  /\ Opens(log, tail, slots)
  /\ pc' = "ready"
  /\ entries' = log
  /\ generation' = Latest(slots).generation
  /\ acked' = log
  /\ UNCHANGED <<record, written, logFile, heads, offered, faults>>

(* Journal::append, up to the commit of its record.                         *)
AppendEvent(event) ==
  /\ pc = "ready"
  /\ Allowed(event, entries, Len(entries))
  /\ MakeEntry(Len(entries), HashAt(entries, Len(entries)), event)
  /\ pc' = "log"
  /\ UNCHANGED <<entries, generation, logFile, heads, history>>

(* The handle is dropped.                                                   *)
Close ==
  /\ pc = "ready"
  /\ pc' = "closed"
  /\ entries' = <<>> /\ generation' = 0
  /\ UNCHANGED <<record, written, logFile, heads, history>>

-----------------------------------------------------------------------------
(* FileStorage::commit, write by write.                                     *)

(* The generation of the anchor being published, and its slot.              *)
Publishing == IF entries = <<>> THEN 0 ELSE generation + 1

Slot == Publishing % 2

(* The record is appended; after part of a line it only completes that.     *)
WriteLog ==
  /\ pc = "log"
  /\ log' = Append(log, IF tail THEN Garbled ELSE record)
  /\ tail' = FALSE
  /\ pc' = "flush"
  /\ UNCHANGED <<entries, generation, record, written, durable, heads, history>>

(* Mutant: the log is not synced before its anchor is published.            *)
FlushLog_skipped ==
  /\ pc = "flush"
  /\ pc' = "truncate"
  /\ UNCHANGED <<entries, generation, record, written, logFile, heads, history>>

FlushLog ==
  /\ pc = "flush"
  /\ durable' = Len(log)
  /\ pc' = "truncate"
  /\ UNCHANGED <<entries, generation, record, written, log, tail, heads, history>>

(* The slot is opened with truncate: its old anchor is gone.                *)
TruncateSlot ==
  /\ pc = "truncate"
  /\ slots' = [slots EXCEPT ![Slot] = NoAnchor]
  /\ pc' = "anchor"
  /\ UNCHANGED <<entries, generation, record, written, logFile, disk, history>>

WriteAnchor ==
  /\ pc = "anchor"
  /\ slots' = [slots EXCEPT ![Slot] = AnchorOf(Append(entries, record), Publishing)]
  /\ pc' = "sync"
  /\ offered' = offered \cup {record.id}
  /\ UNCHANGED <<entries, generation, record, written, logFile, disk, acked, faults>>

(* The anchor is synced, the commit succeeds and the caller is told so.     *)
SyncAnchor ==
  /\ pc = "sync"
  /\ disk' = slots
  /\ generation' = Publishing
  /\ entries' = Append(entries, record)
  /\ acked' = Append(entries, record)
  /\ pc' = "ready"
  /\ UNCHANGED <<record, written, logFile, slots, offered, faults>>

-----------------------------------------------------------------------------
(* What can go wrong.                                                       *)

(* An I/O error ends the commit where it is; a failed write may have left   *)
(* part of its data.  The handle still has what it had before, and may be   *)
(* used again; one that was being created never was.                        *)
Fail ==
  /\ pc \in {"log", "flush", "truncate", "anchor", "sync"}
  /\ \/ tail' = tail
     \/ pc = "log" /\ tail' = TRUE
  /\ \/ /\ entries # <<>>
        /\ pc' = "ready"
        /\ faults' = "reused"
        /\ UNCHANGED <<entries, generation>>
     \/ /\ pc' = "closed"
        /\ entries' = <<>> /\ generation' = 0
        /\ faults' = IF faults = "reused" THEN faults ELSE "errors"
  /\ UNCHANGED <<record, written, log, durable, heads, acked, offered>>

(* The machine stops: lines and anchors not yet synced survive, are lost or *)
(* are torn, and the handle is gone.                                        *)
PowerLoss ==
  /\ pc' = "closed"
  /\ entries' = <<>> /\ generation' = 0
  /\ \E n \in durable .. Len(log) :
       /\ log' = SubSeq(log, 1, n)
       /\ durable' = n
       /\ tail' \in IF tail \/ pc = "log" \/ n < Len(log) THEN BOOLEAN ELSE {FALSE}
  /\ slots' \in [0 .. 1 -> {NoAnchor} \cup {slots[0], slots[1], disk[0], disk[1]}]
  /\ \A i \in 0 .. 1 :
       slots'[i] \in {slots[i], disk[i]} \cup
                     (IF slots[i] = disk[i] THEN {} ELSE {NoAnchor})
  /\ disk' = slots'
  /\ UNCHANGED <<record, written, history>>

-----------------------------------------------------------------------------
Init ==
  /\ pc = "closed" /\ entries = <<>> /\ generation = 0
  /\ record = Garbled /\ written = 0
  /\ log = <<>> /\ tail = FALSE /\ durable = 0
  /\ slots = [i \in 0 .. 1 |-> NoAnchor]
  /\ disk = [i \in 0 .. 1 |-> NoAnchor]
  /\ acked = <<>> /\ offered = {} /\ faults = "none"

Commit == WriteLog \/ FlushLog \/ TruncateSlot \/ WriteAnchor \/ SyncAnchor

Next ==
  \/ Create \/ Open \/ Close
  \/ \E event \in Events : AppendEvent(event)
  \/ Commit
  \/ Fail \/ PowerLoss

Spec == Init /\ [][Next]_vars

-----------------------------------------------------------------------------
(* Properties.                                                              *)

(* Every variable stays within the values its Rust type and use allow.      *)
TypeOK ==
  /\ pc \in {"closed", "ready", "log", "flush", "truncate", "anchor", "sync"}
  /\ entries \in Seq(Records)
  /\ generation \in Nat
  /\ record \in Records \cup {Garbled}
  /\ written \in 0 .. MaxRecords
  /\ log \in Seq(Records \cup {Garbled})
  /\ tail \in BOOLEAN
  /\ durable \in 0 .. Len(log)
  /\ slots \in [0 .. 1 -> Anchors \cup {NoAnchor}]
  /\ disk \in [0 .. 1 -> Anchors \cup {NoAnchor}]
  /\ acked \in Seq(Records)
  /\ offered \subseteq 1 .. MaxRecords
  /\ faults \in {"none", "errors", "reused"}

(* "A complete line is flushed before the next anchor slot is replaced"     *)
(* (FileStorage): while a slot is rewritten, the record it anchors is the   *)
(* last line of the log, and safe from a power loss.                        *)
LineBeforeAnchor ==
  pc \in {"truncate", "anchor", "sync"}
    => log # <<>> /\ log[Len(log)] = record /\ durable = Len(log)

Synced ==
  /\ Len(acked) <= durable
  /\ \A i \in 1 .. Len(acked) : log[i] = acked[i]

(* What was acknowledged is on disk, at its place, and stays there through  *)
(* power losses and failed commits, as long as the handle is dropped after  *)
(* an I/O error (Journal::append keeps it usable).                          *)
AckedIsKept == faults # "reused" => Synced

(* A handle at rest could be dropped and opened again with the same report: *)
(* "a valid active journal is resumable"; and while the machine only ever   *)
(* stops, one slot of the pair still anchors what was acknowledged, even if *)
(* the other is being rewritten: "so one remains valid if a write is        *)
(* interrupted" (crates/journal/README.md). Again, as long as the handle is *)
(* dropped after an I/O error.                                              *)
ReadyReopens ==
  /\ pc = "ready" /\ faults # "reused"
       => /\ Opens(log, tail, slots)
          /\ log = entries
          /\ Latest(slots).generation = generation
  /\ faults = "none" /\ acked # <<>>
       => \E i \in 0 .. 1 : /\ disk[i] # NoAnchor /\ slots[i] = disk[i]
                            /\ disk[i].count = Len(acked)
                            /\ disk[i].head = HashAt(acked, Len(acked))

(* A journal never opens with an event that was neither acknowledged nor    *)
(* had its anchor written when its commit was interrupted, and with at most *)
(* one of the latter: "a valid log ahead of its anchor is treated as        *)
(* uncommitted and rejected" (crates/journal/README.md).                    *)
NothingUncommitted ==
  [][pc = "closed" /\ pc' = "ready"
       => /\ Len(entries') \in {Len(acked), Len(acked) + 1}
          /\ \A i \in 1 .. Len(acked) : entries'[i] = acked[i]
          /\ Len(entries') > Len(acked) => entries'[Len(entries')].id \in offered]_vars

(* The acknowledged records implement the promise of the journal.           *)
Promise == INSTANCE JournalPromise WITH
  started <- acked # <<>>,
  passed  <- [s \in Steps |-> Cardinality(Recorded(acked, Len(acked), s))],
  ended   <- {acked[i].event.state : i \in
                {j \in 1 .. Len(acked) : acked[j].event.type = "terminal"}}

KeepsPromise == Promise!Spec
=============================================================================
