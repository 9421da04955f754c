-------------------------- MODULE ReleaseDownload --------------------------
(***************************************************************************)
(* The resumable, verified download of a release image: download_with of   *)
(* crates/release-client over the cache of crates/downloader.              *)
(*                                                                         *)
(* Each attempt is a call of download by a running copy of the installer.  *)
(* The cache directory outlives them all: partial files with their resume  *)
(* state, a pointer to the partial to go on with, and the verified         *)
(* artifact.  Every change of the directory is a step of its own, so an    *)
(* attempt can be cancelled, killed or fail between any two.  A file is a  *)
(* sequence of blocks, each right (TRUE) or wrong for the release; a file  *)
(* has the token it was created under, whatever links to it remain.        *)
(***************************************************************************)
EXTENDS Naturals, Sequences

CONSTANTS
  Procs,      \* copies of the installer
  Tokens,     \* resume tokens that can be drawn
  NoProc,     \* nobody
  NoToken,    \* no file
  Torn,       \* a pointer file with no token in it
  Blocks,     \* blocks in the release image
  MaxFaults   \* bound: things that go wrong in one behaviour

ASSUME DownloadAssumption ==
  /\ NoProc \notin Procs
  /\ NoToken \notin Tokens /\ Torn \notin Tokens /\ NoToken # Torn
  /\ Blocks \in Nat \ {0}
  /\ MaxFaults \in Nat

VARIABLES
  pc,         \* where each attempt is; "idle" between attempts
  token,      \* the token of its DownloadSession
  hashed,     \* what its streaming hasher has consumed
  body,       \* it holds the response for the whole image
  cancel,     \* the user cancelled it
  result,     \* how the last attempt ended
  lock,       \* who holds the release's lock file
  partial,    \* tokens with a partial file
  stateFile,  \* the resume state of each token: "none", "torn" or "valid"
  pointer,    \* the token in the resume pointer
  artifact,   \* the file that the cache shows under the release's digest
  data,       \* the blocks of each file
  synced,     \* how many of them a power loss cannot take
  rotten,     \* history: files damaged behind the installer's back
  faults      \* bound: things that went wrong so far

session  == <<token, hashed, body>>
attempt  == <<pc, session, cancel, result>>
dirs     == <<partial, stateFile, pointer, artifact>>
files    == <<data, synced, rotten>>
vars     == <<attempt, lock, dirs, files, faults>>

-----------------------------------------------------------------------------
(* The release image.                                                       *)
Image == [i \in 1 .. Blocks |-> TRUE]

(* Mutant: the length is compared, the digest is not.                       *)
Whole_length(blocks) == Len(blocks) = Blocks

(* The exact length and digest of the release, and so its signature.        *)
Whole(blocks) == blocks = Image

(* verify_signature: one signature, of an accepted kind and in its time, by *)
(* the pinned key, over exactly these bytes.                                *)
Authentic(blocks) == Whole(blocks)

(* DownloadSession::verify, of what its streaming hasher has consumed.      *)
Verified(p) == Whole(hashed[p])

(* Names that nothing refers to: a token is never drawn twice, and a name   *)
(* that has left no trace stands for a new one.                             *)
Fresh(t) ==
  /\ t \notin partial \cup {pointer, artifact}
  /\ stateFile[t] = "none"
  /\ \A p \in Procs : token[p] # t

(* resume_with_progress succeeds: a valid state, and no more than it says.  *)
Resumable(t) ==
  t \in partial /\ stateFile[t] = "valid" /\ Len(data[t]) <= Blocks

Goto(p, next) == pc' = [pc EXCEPT ![p] = next]

(* A call returns: its session is dropped and its lock released.            *)
Return(p, r) ==
  /\ Goto(p, "idle")
  /\ token' = [token EXCEPT ![p] = NoToken]
  /\ hashed' = [hashed EXCEPT ![p] = <<>>]
  /\ body' = [body EXCEPT ![p] = FALSE]
  /\ cancel' = [cancel EXCEPT ![p] = FALSE]
  /\ result' = [result EXCEPT ![p] = r]
  /\ lock' = IF lock = p THEN NoProc ELSE lock

Fault == faults < MaxFaults /\ faults' = faults + 1

(* What checkpoint makes durable of the session's file.                     *)
Checkpointed(p) == [synced EXCEPT ![token[p]] = Len(data[token[p]])]

-----------------------------------------------------------------------------
(* The start of an attempt and the cached artifact.                         *)

Start(p) ==
  /\ pc[p] = "idle"
  /\ Goto(p, "lock")
  /\ result' = [result EXCEPT ![p] = "none"]
  /\ UNCHANGED <<session, cancel, lock, dirs, files, faults>>

(* Mutant: the lock file is opened but not locked.                          *)
TakeLock_open(p) ==
  /\ pc[p] = "lock" /\ ~cancel[p]
  /\ lock' = p
  /\ Goto(p, "lookup")
  /\ UNCHANGED <<session, cancel, result, dirs, files, faults>>

(* try_lock_exclusive: a second attempt at the same release is refused.     *)
TakeLock(p) ==
  /\ pc[p] = "lock" /\ ~cancel[p]
  /\ IF lock = NoProc
     THEN /\ lock' = p
          /\ Goto(p, "lookup")
          /\ UNCHANGED <<session, cancel, result>>
     ELSE Return(p, "busy")
  /\ UNCHANGED <<dirs, files, faults>>

(* Mutant: an entry that exists is an entry that was verified.              *)
Lookup_exists(p) ==
  /\ pc[p] = "lookup" /\ ~cancel[p]
  /\ IF artifact = NoToken THEN Goto(p, "pointer")
     ELSE Goto(p, "return")
  /\ UNCHANGED <<session, cancel, result, lock, dirs, files, faults>>

(* lookup_with_progress: an entry that cannot be verified is repaired, even *)
(* if it was only not readable.                                             *)
Lookup(p) ==
  /\ pc[p] = "lookup" /\ ~cancel[p]
  /\ \/ /\ Goto(p, IF artifact = NoToken THEN "pointer"
                   ELSE IF Whole(data[artifact]) THEN "cached" ELSE "repair")
        /\ UNCHANGED faults
     \/ artifact # NoToken /\ Fault /\ Goto(p, "repair")
  /\ UNCHANGED <<session, cancel, result, lock, dirs, files>>

Repair(p) ==
  /\ pc[p] = "repair" /\ ~cancel[p]
  /\ artifact' = NoToken
  /\ Goto(p, "pointer")
  /\ UNCHANGED <<session, cancel, result, lock, partial, stateFile, pointer,
                 files, faults>>

(* verify_signature of a cached artifact; what is not authentic is an error *)
AuthenticateCached(p) ==
  /\ pc[p] = "cached" /\ ~cancel[p]
  /\ IF Authentic(data[artifact])
     THEN Goto(p, "return") /\ UNCHANGED <<session, cancel, result, lock>>
     ELSE Return(p, "error")
  /\ UNCHANGED <<dirs, files, faults>>

-----------------------------------------------------------------------------
(* resume_or_begin.                                                         *)

(* A session is reopened with the hash of what its file holds; a pointer to *)
(* nothing of use is removed.                                               *)
Resume(p) ==
  /\ pc[p] = "pointer"
  /\ \/ /\ pointer = NoToken
        /\ Goto(p, "begin")
        /\ UNCHANGED session
     \/ /\ pointer # NoToken /\ ~cancel[p]
        /\ IF pointer # Torn /\ Resumable(pointer)
           THEN /\ token' = [token EXCEPT ![p] = pointer]
                /\ hashed' = [hashed EXCEPT ![p] = data[pointer]]
                /\ Goto(p, "request")
                /\ UNCHANGED body
           ELSE Goto(p, "stale") /\ UNCHANGED session
  /\ UNCHANGED <<cancel, result, lock, dirs, files, faults>>

(* VerifiedCache::begin: an empty partial file, then its state.             *)
BeginPartial(p) ==
  /\ pc[p] = "begin"
  /\ \E t \in {u \in Tokens : Fresh(u)} :
       /\ partial' = partial \cup {t}
       /\ data' = [data EXCEPT ![t] = <<>>]
       /\ synced' = [synced EXCEPT ![t] = 0]
       /\ rotten' = rotten \ {t}
       /\ token' = [token EXCEPT ![p] = t]
  /\ hashed' = [hashed EXCEPT ![p] = <<>>]
  /\ Goto(p, "state")
  /\ UNCHANGED <<body, cancel, result, lock, stateFile, pointer, artifact,
                 faults>>

(* write_new_state: created, then written and synced.                       *)
CreateState(p) ==
  /\ pc[p] = "state"
  /\ stateFile' = [stateFile EXCEPT ![token[p]] = "torn"]
  /\ Goto(p, "write")
  /\ UNCHANGED <<session, cancel, result, lock, partial, pointer, artifact,
                 files, faults>>

WriteState(p) ==
  /\ pc[p] = "write"
  /\ stateFile' = [stateFile EXCEPT ![token[p]] = "valid"]
  /\ Goto(p, "point")
  /\ UNCHANGED <<session, cancel, result, lock, partial, pointer, artifact,
                 files, faults>>

(* save_pointer: created anew, then written and synced.                     *)
CreatePointer(p) ==
  /\ pc[p] = "point"
  /\ pointer' = Torn
  /\ Goto(p, "pointing")
  /\ UNCHANGED <<session, cancel, result, lock, partial, stateFile, artifact,
                 files, faults>>

WritePointer(p) ==
  /\ pc[p] = "pointing"
  /\ pointer' = token[p]
  /\ Goto(p, IF body[p] THEN "transfer" ELSE "request")
  /\ UNCHANGED <<session, cancel, result, lock, partial, stateFile, artifact,
                 files, faults>>

(* remove_pointer, which ends three paths: a stale pointer, a session whose *)
(* bytes were wrong, and a promoted image.                                  *)
RemovePointer(p) ==
  /\ pc[p] \in {"stale", "spoiled", "promoted"}
  /\ pointer' = NoToken
  /\ IF pc[p] = "spoiled"
     THEN Return(p, "error")
     ELSE /\ Goto(p, IF pc[p] = "stale" THEN "begin" ELSE "return")
          /\ UNCHANGED <<session, cancel, result, lock>>
  /\ UNCHANGED <<partial, stateFile, artifact, files, faults>>

-----------------------------------------------------------------------------
(* The transfer.                                                            *)

(* The request for the rest of the image.  A server that ignores the range  *)
(* sends the whole image: the session is discarded and begun anew.          *)
Ask(p) ==
  /\ pc[p] = "request" /\ ~cancel[p]
  /\ \/ /\ Len(hashed[p]) = Blocks
        /\ Goto(p, "check")
        /\ UNCHANGED <<body, faults>>
     \/ /\ Len(hashed[p]) < Blocks
        /\ Goto(p, "transfer")
        /\ UNCHANGED <<body, faults>>
     \/ /\ Len(hashed[p]) \in 1 .. Blocks - 1
        /\ Fault
        /\ body' = [body EXCEPT ![p] = TRUE]
        /\ Goto(p, "discard")
  /\ UNCHANGED <<token, hashed, cancel, result, lock, dirs, files>>

(* DownloadSession::append: never beyond the length of the release; the     *)
(* file is written, then the bytes are hashed.                              *)
Appended(p, right) ==
  /\ Len(hashed[p]) < Blocks
  /\ data' = [data EXCEPT ![token[p]] = Append(@, right)]
  /\ hashed' = [hashed EXCEPT ![p] = Append(@, right)]

(* A chunk is appended, perhaps with a checkpoint; a wrong one as well,     *)
(* since nothing is known of it yet.                                        *)
Receive(p) ==
  /\ pc[p] = "transfer" /\ ~cancel[p]
  /\ \E right \in BOOLEAN :
       /\ IF right THEN UNCHANGED faults ELSE Fault
       /\ Appended(p, right)
  /\ \/ UNCHANGED synced
     \/ synced' = [synced EXCEPT ![token[p]] = Len(data'[token[p]])]
  /\ UNCHANGED <<pc, token, body, cancel, result, lock, dirs, rotten>>

(* The end of the body, checkpointed: all of it, or a truncated one.        *)
Received(p) ==
  /\ pc[p] = "transfer" /\ ~cancel[p]
  /\ synced' = Checkpointed(p)
  /\ \/ /\ Len(hashed[p]) = Blocks
        /\ Goto(p, "check")
        /\ body' = [body EXCEPT ![p] = FALSE]
        /\ UNCHANGED <<token, hashed, cancel, result, lock, faults>>
     \/ /\ Len(hashed[p]) < Blocks
        /\ Fault
        /\ Return(p, "error")
  /\ UNCHANGED <<dirs, data, rotten>>

(* Mutant: wrong bytes are an error like any other.                         *)
Check_kept(p) ==
  /\ pc[p] = "check" /\ ~cancel[p]
  /\ synced' = Checkpointed(p)
  /\ IF Verified(p)
     THEN Goto(p, "authenticate") /\ UNCHANGED <<session, cancel, result, lock>>
     ELSE Return(p, "error")
  /\ UNCHANGED <<dirs, data, rotten, faults>>

(* DownloadSession::verify, of the streaming hash; wrong bytes are          *)
(* discarded, so that a retry starts a new transfer.                        *)
Check(p) ==
  /\ pc[p] = "check" /\ ~cancel[p]
  /\ synced' = Checkpointed(p)
  /\ Goto(p, IF Verified(p) THEN "authenticate" ELSE "discard")
  /\ UNCHANGED <<session, cancel, result, lock, dirs, data, rotten, faults>>

(* DownloadSession::discard, to begin anew or for good: the partial file    *)
(* goes before its state.                                                   *)
Discard(p) ==
  /\ \/ /\ pc[p] = "discard"
        /\ partial' = partial \ {token[p]}
        /\ Goto(p, "discarded")
        /\ UNCHANGED <<token, hashed, stateFile>>
     \/ /\ pc[p] = "discarded"
        /\ stateFile' = [stateFile EXCEPT ![token[p]] = "none"]
        /\ token' = [token EXCEPT ![p] = NoToken]
        /\ hashed' = [hashed EXCEPT ![p] = <<>>]
        /\ Goto(p, IF body[p] THEN "begin" ELSE "spoiled")
        /\ UNCHANGED partial
  /\ UNCHANGED <<body, cancel, result, lock, pointer, artifact, files, faults>>

-----------------------------------------------------------------------------
(* Promotion.                                                               *)

(* verify_signature of the partial file itself, read again.                 *)
Authenticate(p) ==
  /\ pc[p] = "authenticate" /\ ~cancel[p]
  /\ IF Authentic(data[token[p]])
     THEN Goto(p, "promote") /\ UNCHANGED <<session, cancel, result, lock>>
     ELSE Return(p, "error")
  /\ UNCHANGED <<dirs, files, faults>>

(* finalize: its own verify finds the same; synced, then linked under its   *)
(* digest.  An entry that is there already stays, if it is the same image.  *)
Promote(p) ==
  /\ pc[p] = "promote"
  /\ synced' = Checkpointed(p)
  /\ IF artifact = NoToken \/ Whole(data[artifact])
     THEN /\ artifact' = IF artifact = NoToken THEN token[p] ELSE artifact
          /\ Goto(p, "unlink")
          /\ UNCHANGED <<session, cancel, result, lock>>
     ELSE Return(p, "error") /\ UNCHANGED artifact
  /\ UNCHANGED <<partial, stateFile, pointer, data, rotten, faults>>

(* finalize: the partial name and the state are cleaned up.                 *)
Tidy(p) ==
  \/ /\ pc[p] = "unlink"
     /\ partial' = partial \ {token[p]}
     /\ Goto(p, "unstate")
     /\ UNCHANGED <<session, cancel, result, lock, stateFile, pointer,
                    artifact, files, faults>>
  \/ /\ pc[p] = "unstate"
     /\ stateFile' = [stateFile EXCEPT ![token[p]] = "none"]
     /\ Goto(p, "promoted")
     /\ UNCHANGED <<session, cancel, result, lock, partial, pointer, artifact,
                    files, faults>>

Deliver(p) ==
  /\ pc[p] = "return" /\ ~cancel[p]
  /\ Return(p, "image")
  /\ UNCHANGED <<dirs, files, faults>>

-----------------------------------------------------------------------------
(* What can go wrong.                                                       *)

Working(p) == pc[p] # "idle"

Cancel(p) ==
  /\ Working(p) /\ ~cancel[p]
  /\ Fault
  /\ cancel' = [cancel EXCEPT ![p] = TRUE]
  /\ UNCHANGED <<pc, session, result, lock, dirs, files>>

(* hash_progress: files that are hashed in blocks, the flag read at each.   *)
Hashing == {"lookup", "pointer"}

(* CancelReader: files read for their signature, the flag read likewise.    *)
Signing == {"cached", "authenticate"}

(* The places where the flag is read.                                       *)
Checked == Hashing \cup Signing \cup
           {"lock", "repair", "request", "transfer", "check", "return"}

(* Mutant: a cancelled transfer is discarded.                               *)
Cancelled_discards(p) ==
  /\ pc[p] \in Checked /\ cancel[p]
  /\ partial' = partial \ {token[p]}
  /\ Return(p, "cancelled")
  /\ UNCHANGED <<stateFile, pointer, artifact, files, faults>>

(* check_cancel: the attempt returns; a transfer is checkpointed first.     *)
Cancelled(p) ==
  /\ pc[p] \in Checked /\ cancel[p]
  /\ pc[p] = "pointer" => pointer # NoToken
  /\ synced' = IF pc[p] \in {"transfer", "check"} THEN Checkpointed(p) ELSE synced
  /\ Return(p, "cancelled")
  /\ UNCHANGED <<dirs, data, rotten, faults>>

(* Any file operation or request fails, and so does the attempt.  A failed  *)
(* write may have reached the file, but is in no hash; a state that cannot  *)
(* be written takes its partial file with it.                               *)
Fail(p) ==
  /\ Working(p) /\ pc[p] # "return" /\ Fault
  /\ \/ UNCHANGED <<data, partial, synced>>
     \/ /\ pc[p] = "transfer" /\ Len(hashed[p]) < Blocks
        /\ data' = [data EXCEPT ![token[p]] = Append(@, TRUE)]
        /\ UNCHANGED <<partial, synced>>
     \/ /\ pc[p] = "transfer"
        /\ synced' = Checkpointed(p)
        /\ UNCHANGED <<data, partial>>
     \/ /\ pc[p] \in {"state", "write"}
        /\ partial' = partial \ {token[p]}
        /\ UNCHANGED <<data, synced>>
  /\ Return(p, "error")
  /\ UNCHANGED <<stateFile, pointer, artifact, rotten>>

(* The process is killed; the system releases its lock.                     *)
Kill(p) ==
  /\ Working(p) /\ Fault
  /\ Return(p, "none")
  /\ UNCHANGED <<dirs, files>>

(* The machine stops: what was not synced is lost, or comes back as other   *)
(* bytes.                                                                   *)
PowerLoss ==
  /\ Fault
  /\ pc' = [p \in Procs |-> "idle"]
  /\ token' = [p \in Procs |-> NoToken]
  /\ hashed' = [p \in Procs |-> <<>>]
  /\ body' = [p \in Procs |-> FALSE]
  /\ cancel' = [p \in Procs |-> FALSE]
  /\ result' = [p \in Procs |-> "none"]
  /\ lock' = NoProc
  /\ \/ data' = [t \in Tokens |-> SubSeq(data[t], 1, synced[t])]
     \/ data' = [t \in Tokens |->
                   [i \in 1 .. Len(data[t]) |-> i <= synced[t] /\ data[t][i]]]
  /\ UNCHANGED <<dirs, synced, rotten>>

(* Bound: a file is damaged only while no attempt uses it.                  *)
Damage(t) ==
  /\ lock = NoProc /\ Fault
  /\ t \in partial \cup {artifact} /\ data[t] # <<>>
  /\ \/ data' = [data EXCEPT ![t][1] = FALSE]
     \/ data' = [data EXCEPT ![t] = [i \in 1 .. Blocks + 1 |-> TRUE]]
  /\ rotten' = rotten \cup {t}
  /\ UNCHANGED <<attempt, lock, dirs, synced>>

-----------------------------------------------------------------------------
Init ==
  /\ pc = [p \in Procs |-> "idle"]
  /\ token = [p \in Procs |-> NoToken]
  /\ hashed = [p \in Procs |-> <<>>]
  /\ body = [p \in Procs |-> FALSE]
  /\ cancel = [p \in Procs |-> FALSE]
  /\ result = [p \in Procs |-> "none"]
  /\ lock = NoProc
  /\ partial = {} /\ stateFile = [t \in Tokens |-> "none"]
  /\ pointer = NoToken /\ artifact = NoToken
  /\ data = [t \in Tokens |-> <<>>]
  /\ synced = [t \in Tokens |-> 0]
  /\ rotten = {} /\ faults = 0

Attempt(p) ==
  \/ Start(p) \/ TakeLock(p) \/ Lookup(p) \/ Repair(p)
  \/ AuthenticateCached(p)
  \/ Resume(p) \/ BeginPartial(p) \/ CreateState(p) \/ WriteState(p)
  \/ CreatePointer(p) \/ WritePointer(p) \/ RemovePointer(p)
  \/ Ask(p) \/ Receive(p) \/ Received(p) \/ Check(p) \/ Discard(p)
  \/ Authenticate(p) \/ Promote(p) \/ Tidy(p) \/ Deliver(p)
  \/ Cancelled(p)

Mishap == \/ \E p \in Procs : Cancel(p) \/ Fail(p) \/ Kill(p)
          \/ PowerLoss
          \/ \E t \in Tokens : Damage(t)

Next == (\E p \in Procs : Attempt(p)) \/ Mishap

Spec == Init /\ [][Next]_vars

(* Fairness: an attempt goes on until it ends, and the user tries again.    *)
(* Nothing that goes wrong is owed.                                         *)
FairSpec == Spec /\ \A p \in Procs : WF_vars(Attempt(p))

-----------------------------------------------------------------------------
(* Properties.                                                              *)

Places == {"idle", "lock", "lookup", "repair", "cached", "pointer", "stale",
           "begin", "state", "write", "point", "pointing", "request",
           "transfer", "check", "discard", "discarded", "spoiled",
           "authenticate", "promote", "unlink", "unstate", "promoted", "return"}

(* Where an attempt has an open session.                                    *)
Streaming == {"state", "write", "point", "pointing", "request", "transfer",
              "check", "discard", "discarded", "authenticate", "promote"}

(* Every variable stays within the values its Rust type and use allow.      *)
TypeOK ==
  /\ pc \in [Procs -> Places]
  /\ token \in [Procs -> Tokens \cup {NoToken}]
  /\ hashed \in [Procs -> Seq(BOOLEAN)]
  /\ body \in [Procs -> BOOLEAN]
  /\ cancel \in [Procs -> BOOLEAN]
  /\ result \in [Procs -> {"none", "image", "busy", "error", "cancelled"}]
  /\ lock \in Procs \cup {NoProc}
  /\ partial \subseteq Tokens
  /\ stateFile \in [Tokens -> {"none", "torn", "valid"}]
  /\ pointer \in Tokens \cup {NoToken, Torn}
  /\ artifact \in Tokens \cup {NoToken}
  /\ data \in [Tokens -> Seq(BOOLEAN)]
  /\ synced \in [Tokens -> Nat]
  /\ \A t \in Tokens : synced[t] <= Len(data[t])
  /\ rotten \subseteq Tokens
  /\ faults \in 0 .. MaxFaults

(* The streaming hash, which decides whether an image is promoted, is that  *)
(* of the file which is promoted: no other attempt writes to the file, and  *)
(* no failed write leaves bytes that were not hashed in an open session.    *)
StreamIsFile ==
  \A p \in Procs : pc[p] \in Streaming => hashed[p] = data[token[p]]

(* "No artifact becomes visible in the verified cache until its exact       *)
(* length and SHA-256 digest have both been checked", nor before it is safe *)
(* from a power loss: an entry is the image unless it was damaged later.    *)
VisibleIsWhole ==
  artifact # NoToken /\ artifact \notin rotten
    => data[artifact] = Image /\ synced[artifact] = Blocks

(* A session that receives or checks bytes can be found again by the next   *)
(* attempt, whenever this one is stopped.                                   *)
SessionIsResumable ==
  \A p \in Procs :
    pc[p] \in {"request", "transfer", "check", "authenticate", "promote"}
      => pointer = token[p] /\ Resumable(pointer)

(* "Cancellation and transport errors preserve partial bytes across app     *)
(* restart" (release-client): what a cancelled attempt had received is what *)
(* the next one starts from.                                                *)
CancelPreserves ==
  [][\A p \in Procs :
       pc[p] \in Streaming /\ result[p] = "none" /\ result'[p] = "cancelled"
         => /\ pointer' = token[p] /\ Resumable(pointer)'
            /\ data'[token[p]] = hashed[p]]_vars

(* download "returns only after exact length, SHA-256, and the detached     *)
(* signature [...] all verify": the returned file is the image when the     *)
(* call returns.                                                            *)
ReturnedIsWhole ==
  [][\A p \in Procs :
       result[p] # "image" /\ result'[p] = "image"
         => artifact' # NoToken /\ data'[artifact'] = Image]_vars

(* Whatever went wrong before, retrying delivers the image: no crash, torn  *)
(* file, wrong bytes, full-body response or damage leaves the cache in a    *)
(* state that refuses every later attempt ("Bad complete bytes must be      *)
(* discarded so Retry starts a new transfer").                              *)
RetryDelivers == []<>(\E p \in Procs : result[p] = "image")
=============================================================================
