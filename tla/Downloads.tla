----------------------------- MODULE Downloads -----------------------------
(***************************************************************************)
(* The download jobs of the window (downloads.rs) and the guard that keeps *)
(* a verified image as it is on Windows (iso_source.rs).                   *)
(*                                                                         *)
(* One worker at a time resolves a release, verifies a file the user       *)
(* already has, downloads and saves the image, or imports a local one.     *)
(* Meanwhile the user writes and deletes files in the same folders, stops  *)
(* the job, picks another folder and starts a setup with the image.  What  *)
(* the release client does inside its cache is module ReleaseDownload;     *)
(* here a download delivers the image or fails.                            *)
(*                                                                         *)
(* A folder holds at most one file of the release's name.  A file is its   *)
(* content and its version: what ReplacementTarget compares (identity,     *)
(* length and times), which every write of the user changes.               *)
(***************************************************************************)
EXTENDS Naturals, FiniteSets

CONSTANTS
  Dirs,       \* folders to save to
  NoDir,      \* no folder, file or target
  Windows,    \* builds considered: for Windows, or not
  Testing,    \* ... and with the feature staged-iso-testing, or not
  MaxWrites   \* bound: writes by the user

ASSUME DownloadsAssumption ==
  /\ Dirs # {} /\ NoDir \notin Dirs
  /\ Windows \subseteq BOOLEAN /\ Testing \subseteq BOOLEAN
  /\ MaxWrites \in Nat

VARIABLES
  build,       \* what is compiled in; never changes
  snap,        \* Inner.snapshot, what others than the window read of it
  replacement, \* Inner.replacement
  cancel,      \* Inner.cancel, the flag of the current job
  lease,       \* Inner.verified_iso: the folder of the held file
  job,         \* the worker
  reuse,       \* a command that still has to call reuse_testing_image
  picked,      \* choose_testing_iso between its last check and its begin
  setup,       \* a setup that uses the image
  files,       \* the file of each folder
  written      \* writes of the user so far

inner == <<snap, replacement, cancel, lease>>
disk  == <<files, written>>
vars  == <<build, inner, job, reuse, picked, setup, disk>>

-----------------------------------------------------------------------------
(* Files, targets and guards.                                               *)

(* The official image, other bytes of its length, and another length.       *)
Contents == {"image", "wrong", "short"}

NoFile == [content |-> "none", version |-> 0]
Files  == {NoFile} \cup [content : Contents, version : 0 .. MaxWrites]

(* A file that the installer saved; two of them are equal.                  *)
Saved == [content |-> "image", version |-> 0]

NoTarget == [dir |-> NoDir, version |-> 0]

(* ReplacementTarget::inspect.                                              *)
Target(d) == [dir |-> d, version |-> files[d].version]

(* ReplacementTarget::check: an ordinary file, the same one, and unchanged. *)
Unchanged(target, d) == /\ target.dir = d /\ files[d] # NoFile
                        /\ target = Target(d)

(* HeldIso: handles that refuse other writers and deletion while they are   *)
(* open; only the Windows build has them.                                   *)
Held(d) == build.windows /\ d \in {lease, job.guard, setup.lease}

(* ImageRelease: none, the official one, or a local image of some content.  *)
Official == [kind |-> "official", content |-> "image"]
NoRelease == [kind |-> "none", content |-> "none"]
Local(c) == [kind |-> "local", content |-> c]
Releases == {NoRelease, Official} \cup {Local(c) : c \in Contents}

active == snap.status \in {"resolving", "preparing", "downloading", "verifying", "saving"}

(* The worker: where it is, the folder and target of its Transfer, the file *)
(* it looked at, its guard, how far the user's writes were when it last     *)
(* compared the target (history), and the outcome it reports.               *)
NoJob == [pc |-> "none", dir |-> NoDir, target |-> NoTarget, before |-> NoTarget,
          guard |-> NoDir, seen |-> 0]

Start(pc, d) == [NoJob EXCEPT !.pc = pc, !.dir = d]

NoSetup == [release |-> NoRelease, dir |-> NoDir, lease |-> NoDir]

Goes(pc) == job' = [job EXCEPT !.pc = pc]

Status(s) == snap' = [snap EXCEPT !.status = s]

-----------------------------------------------------------------------------
(* Commands of the window.                                                  *)

(* begin_resolution: everything known about an image is forgotten; the flag *)
(* of an earlier job stays.                                                 *)
begin_resolution(pc, d) ==
  /\ ~active
  /\ snap' = [snap EXCEPT !.status = "resolving", !.release = NoRelease,
                          !.path = NoDir, !.skipped = FALSE]
  /\ replacement' = NoTarget /\ lease' = NoDir
  /\ job' = Start(pc, d)
  /\ UNCHANGED cancel

Resolve ==
  /\ begin_resolution("resolve", NoDir)
  /\ UNCHANGED <<build, reuse, picked, setup, disk>>

(* resolve_download, its answer: a release, or a failed lookup, and then    *)
(* the startup shortcut of the testing build.                               *)
Resolved ==
  /\ job.pc = "resolve"
  /\ \/ /\ snap' = [snap EXCEPT !.status = "ready", !.release = Official]
        /\ UNCHANGED lease
     \/ /\ snap' = [snap EXCEPT !.status = "failed", !.path = NoDir, !.skipped = FALSE]
        /\ lease' = NoDir
  /\ job' = NoJob
  /\ reuse' = TRUE
  /\ UNCHANGED <<build, replacement, cancel, picked, setup, disk>>

(* use_testing_file: a testing build takes a file of the right length       *)
(* without reading it.                                                      *)
Reusable ==
  /\ build.testing /\ snap.status = "ready" /\ snap.release.kind = "official"
  /\ files[snap.dir].content \in {"image", "wrong"}

use_testing_file ==
  /\ snap' = [snap EXCEPT !.status = "complete", !.path = snap.dir, !.skipped = TRUE]
  /\ lease' = IF build.windows THEN snap.dir ELSE NoDir
  /\ replacement' = NoTarget

(* The call at the end of resolve_download and set_destination.             *)
reuse_testing_image ==
  /\ reuse
  /\ reuse' = FALSE
  /\ IF Reusable THEN use_testing_file ELSE UNCHANGED <<snap, lease, replacement>>
  /\ UNCHANGED <<build, cancel, job, picked, setup, disk>>

(* set_destination: another folder makes the image unknown again.           *)
set_destination(d) ==
  /\ ~active
  /\ IF d = snap.dir
     THEN UNCHANGED <<snap, replacement, lease>>
     ELSE LET kept == IF snap.release = Official THEN Official ELSE NoRelease
          IN  /\ snap' = [status |-> IF kept = Official THEN "ready" ELSE "idle",
                          release |-> kept, path |-> NoDir, skipped |-> FALSE, dir |-> d]
              /\ replacement' = NoTarget
              /\ lease' = NoDir
  /\ reuse' = TRUE
  /\ UNCHANGED <<build, cancel, job, picked, setup, disk>>

(* begin_transfer: a new flag, no lease, and a worker with the candidate.   *)
begin_transfer(target) ==
  /\ cancel' = FALSE
  /\ lease' = NoDir
  /\ replacement' = target
  /\ snap' = [snap EXCEPT !.status = "preparing", !.path = NoDir, !.skipped = FALSE]
  /\ job' = [Start("look", snap.dir) EXCEPT !.target = target]

(* start_download: the shortcut of the testing build, or a transfer.        *)
StartDownload ==
  /\ \/ /\ Reusable /\ use_testing_file
        /\ UNCHANGED <<cancel, job>>
     \/ /\ ~Reusable /\ ~active /\ snap.release = Official
        /\ begin_transfer(NoTarget)
  /\ UNCHANGED <<build, reuse, picked, setup, disk>>

(* replace_download: only a file confirmed as damaged, and unchanged since. *)
ReplaceDownload ==
  /\ ~active /\ snap.release = Official /\ replacement # NoTarget
  /\ IF Unchanged(replacement, snap.dir)
     THEN begin_transfer(replacement)
     ELSE replacement' = NoTarget /\ UNCHANGED <<snap, cancel, lease, job>>
  /\ UNCHANGED <<build, reuse, picked, setup, disk>>

(* cancel_download: only a job that looks at the flag can be stopped.       *)
CancelDownload ==
  /\ snap.status \in {"preparing", "downloading", "verifying", "saving"}
  /\ cancel' = TRUE
  /\ UNCHANGED <<build, snap, replacement, lease, job, reuse, picked, setup, disk>>

(* choose_testing_iso: a file is picked while no setup runs ...             *)
PickImage(d) ==
  /\ build.windows /\ build.testing
  /\ picked = NoDir /\ setup = NoSetup /\ files[d] # NoFile
  /\ picked' = d
  /\ UNCHANGED <<build, inner, job, reuse, setup, disk>>

(* ... its release is forgotten; or the command is refused.                 *)
BeginImport ==
  /\ picked # NoDir
  /\ \/ begin_resolution("chosen", picked)
     \/ active /\ UNCHANGED <<inner, job>>
  /\ picked' = NoDir
  /\ UNCHANGED <<build, reuse, setup, disk>>

(* ... and a second critical section gives the import its own flag.         *)
StartImport ==
  /\ job.pc = "chosen"
  /\ Status("verifying")
  /\ cancel' = FALSE
  /\ Goes("import")
  /\ UNCHANGED <<build, replacement, lease, reuse, picked, setup, disk>>

-----------------------------------------------------------------------------
(* The worker of start_transfer.                                            *)

(* A file of the release's name is verified, unless it is to be replaced;   *)
(* otherwise the image is downloaded.                                       *)
Look ==
  /\ job.pc = "look"
  /\ Goes(IF job.target = NoTarget /\ files[job.dir] # NoFile THEN "inspect" ELSE "download")
  /\ UNCHANGED <<build, inner, reuse, picked, setup, disk>>

(* The file as it is now, and on Windows the guard, opened before reading;  *)
(* both fail when the file is gone, and the guard when someone writes it.   *)
Inspect ==
  /\ job.pc = "inspect"
  /\ \/ /\ files[job.dir] # NoFile
        /\ job' = [job EXCEPT !.pc = "verify", !.before = Target(job.dir),
                              !.guard = IF build.windows THEN job.dir ELSE NoDir]
     \/ Goes("failed")
  /\ UNCHANGED <<build, inner, reuse, picked, setup, disk>>

(* verify_existing of the release client: the file is the image, or is      *)
(* found to differ; or it cannot be read, or the user stops.                *)
verify_existing(d) ==
  {"unread"} \cup (IF cancel \/ files[d] = NoFile THEN {}
                  ELSE IF files[d].content = "image" THEN {"image"}
                  ELSE {"differs"})

(* Only a difference (Cache, Signature) is looked into further.             *)
Verify ==
  /\ job.pc = "verify"
  /\ Status("verifying")
  /\ \E found \in verify_existing(job.dir) :
       Goes(CASE found = "image"   -> "complete"
              [] found = "differs" -> "compare"
              [] found = "unread"  -> "failed")
  /\ UNCHANGED <<build, replacement, cancel, lease, reuse, picked, setup, disk>>

(* replacement_candidate, its reads: the length, or the digest.             *)
Compare ==
  /\ job.pc = "compare"
  /\ IF /\ Unchanged(job.before, job.dir)
        /\ files[job.dir].content # "image" /\ ~cancel
     THEN Goes("confirm") /\ UNCHANGED replacement
     ELSE Goes("failed") /\ replacement' = NoTarget
  /\ UNCHANGED <<build, snap, cancel, lease, reuse, picked, setup, disk>>

(* ... and the second look at the target, after which it is offered.        *)
Confirm ==
  /\ job.pc = "confirm"
  /\ replacement' = IF Unchanged(job.before, job.dir) /\ ~cancel THEN job.before ELSE NoTarget
  /\ Goes("failed")
  /\ UNCHANGED <<build, snap, cancel, lease, reuse, picked, setup, disk>>

(* release_client::download, with its progress.                             *)
Download ==
  /\ job.pc = "download"
  /\ \/ Goes("fetch") /\ Status("downloading")
     \/ Goes("failed") /\ UNCHANGED snap
  /\ UNCHANGED <<build, replacement, cancel, lease, reuse, picked, setup, disk>>

Fetch ==
  /\ job.pc = "fetch"
  /\ \/ ~cancel /\ Goes("save") /\ Status("saving")
     \/ Goes("failed") /\ UNCHANGED snap
  /\ UNCHANGED <<build, replacement, cancel, lease, reuse, picked, setup, disk>>

(* The file is a regular one with the length and digest of the image.       *)
hash_file(d) == files[d].content = "image" /\ ~cancel

(* export_image_with_replacement, up to the copy: a target to be replaced   *)
(* must be unchanged; a file already there must be the image (hash_file).   *)
Save ==
  /\ job.pc = "save"
  /\ \/ /\ IF job.target # NoTarget THEN Unchanged(job.target, job.dir)
                                    ELSE files[job.dir] = NoFile
        /\ Goes("copy")
     \/ /\ job.target = NoTarget /\ hash_file(job.dir)
        /\ Goes("saved")
     \/ Goes("failed")
  /\ UNCHANGED <<build, inner, reuse, picked, setup, disk>>

(* The copy to a temporary file, hashed and synced, between looks at the    *)
(* flag.                                                                    *)
Copy ==
  /\ job.pc = "copy"
  /\ \/ ~cancel /\ Goes("check")
     \/ Goes("failed")
  /\ UNCHANGED <<build, inner, reuse, picked, setup, disk>>

(* Mutant: the target is not compared again after the copy.                 *)
LastCheck_skipped ==
  /\ job.pc = "check"
  /\ job' = [job EXCEPT !.pc = "persist", !.seen = written]
  /\ UNCHANGED <<build, inner, reuse, picked, setup, disk>>

(* The last look at a target that is to be replaced.                        *)
LastCheck ==
  /\ job.pc = "check"
  /\ IF job.target = NoTarget \/ Unchanged(job.target, job.dir)
     THEN job' = [job EXCEPT !.pc = "persist", !.seen = written]
     ELSE Goes("failed")
  /\ UNCHANGED <<build, inner, reuse, picked, setup, disk>>

(* persist over the target, which Windows refuses while it is held, or      *)
(* persist_noclobber, which fails when there is a file.                     *)
Persist ==
  /\ job.pc = "persist"
  /\ \/ /\ IF job.target # NoTarget THEN ~Held(job.dir) ELSE files[job.dir] = NoFile
        /\ files' = [files EXCEPT ![job.dir] = Saved]
        /\ Goes("saved")
     \/ Goes("failed") /\ UNCHANGED files
  /\ UNCHANGED <<build, inner, reuse, picked, setup, written>>

(* verify_and_retain: on Windows the saved file is held and read again.     *)
Retain ==
  /\ job.pc = "saved"
  /\ \/ ~build.windows /\ Goes("complete")
     \/ /\ build.windows
        /\ files[job.dir].content \in {"image", "wrong"}
        /\ job' = [job EXCEPT !.pc = "reread", !.guard = job.dir]
     \/ build.windows /\ Goes("failed")
  /\ UNCHANGED <<build, inner, reuse, picked, setup, disk>>

Reread ==
  /\ job.pc = "reread"
  /\ \E found \in verify_existing(job.dir) :
       Goes(IF found = "image" THEN "complete" ELSE "failed")
  /\ Status("verifying")
  /\ UNCHANGED <<build, replacement, cancel, lease, reuse, picked, setup, disk>>

(* complete: a Stop that came before it wins.                               *)
Complete ==
  /\ job.pc = "complete"
  /\ IF cancel
     THEN /\ snap' = [snap EXCEPT !.status = "cancelled", !.path = NoDir, !.skipped = FALSE]
          /\ UNCHANGED <<lease, replacement>>
     ELSE /\ snap' = [snap EXCEPT !.status = "complete", !.path = job.dir, !.skipped = FALSE]
          /\ lease' = job.guard
          /\ replacement' = NoTarget
  /\ job' = NoJob
  /\ UNCHANGED <<build, cancel, reuse, picked, setup, disk>>

(* Mutant: a job that was stopped reports nothing.                          *)
Failed_quiet ==
  /\ job.pc = "failed"
  /\ IF cancel THEN UNCHANGED <<snap, lease>>
               ELSE snap' = [snap EXCEPT !.status = "failed", !.path = NoDir] /\ lease' = NoDir
  /\ job' = NoJob
  /\ UNCHANGED <<build, replacement, cancel, reuse, picked, setup, disk>>

(* finish_error, also of a worker that panicked.                            *)
Failed ==
  /\ job.pc = "failed"
  /\ snap' = [snap EXCEPT !.status = IF cancel THEN "cancelled" ELSE "failed",
                          !.path = NoDir, !.skipped = FALSE]
  /\ lease' = NoDir
  /\ job' = NoJob
  /\ UNCHANGED <<build, replacement, cancel, reuse, picked, setup, disk>>

(* import_testing_iso: the file is inspected and held,                      *)
Import ==
  /\ job.pc = "import"
  /\ \/ /\ files[job.dir] # NoFile
        /\ job' = [job EXCEPT !.pc = "digest", !.before = Target(job.dir), !.guard = job.dir]
     \/ Goes("failed")
  /\ UNCHANGED <<build, inner, reuse, picked, setup, disk>>

(* ... hashed unless the user stops,                                        *)
testing_iso_digest ==
  /\ job.pc = "digest"
  /\ \/ ~cancel /\ Goes("imported")
     \/ Goes("failed")
  /\ UNCHANGED <<build, inner, reuse, picked, setup, disk>>

(* ... compared again, and becomes the image.                               *)
Imported ==
  /\ job.pc = "imported"
  /\ \/ /\ Unchanged(job.before, job.dir) /\ ~cancel
        /\ snap' = [snap EXCEPT !.status = "complete", !.path = job.dir, !.skipped = FALSE,
                                !.release = Local(files[job.dir].content)]
        /\ lease' = job.guard
        /\ job' = NoJob
     \/ Goes("failed") /\ UNCHANGED <<snap, lease>>
  /\ UNCHANGED <<build, replacement, cancel, reuse, picked, setup, disk>>

-----------------------------------------------------------------------------
(* The setup and the user.                                                  *)

(* verified_source: the path and release a setup starts with.               *)
TakeSource ==
  /\ setup = NoSetup /\ snap.status = "complete"
  /\ setup' = [release |-> snap.release, dir |-> snap.path, lease |-> NoDir]
  /\ UNCHANGED <<build, inner, job, reuse, picked, disk>>

(* Mutant: an image that was not read is leased as well.                    *)
verified_lease_skipped ==
  /\ setup.dir # NoDir /\ build.windows
  /\ snap.status = "complete" /\ snap.path = setup.dir /\ snap.release = setup.release
  /\ setup' = [setup EXCEPT !.lease = lease]
  /\ UNCHANGED <<build, inner, job, reuse, picked, disk>>

(* verified_lease: in a lock of its own, only what was verified, and only   *)
(* if it is still what the setup was given.                                 *)
verified_lease ==
  /\ setup.dir # NoDir /\ build.windows
  /\ snap.status = "complete" /\ ~snap.skipped
  /\ snap.path = setup.dir /\ snap.release = setup.release
  /\ setup' = [setup EXCEPT !.lease = lease]
  /\ UNCHANGED <<build, inner, job, reuse, picked, disk>>

(* The helper exchange is over, and with it the lease.                      *)
SetupEnds ==
  /\ setup # NoSetup
  /\ setup' = NoSetup
  /\ UNCHANGED <<build, inner, job, reuse, picked, disk>>

(* The user writes or deletes a file that nobody holds.                     *)
UserWrites(d, c) ==
  /\ ~Held(d) /\ written < MaxWrites
  /\ written' = written + 1
  /\ files' = [files EXCEPT ![d] = [content |-> c, version |-> written + 1]]
  /\ UNCHANGED <<build, inner, job, reuse, picked, setup>>

UserDeletes(d) ==
  /\ ~Held(d) /\ files[d] # NoFile
  /\ files' = [files EXCEPT ![d] = NoFile]
  /\ UNCHANGED <<build, inner, job, reuse, picked, setup, written>>

-----------------------------------------------------------------------------
(* Downloads::new.                                                          *)
Init ==
  /\ build \in [windows : Windows, testing : Testing]
  /\ \E d \in Dirs : snap = [status |-> "idle", release |-> NoRelease, path |-> NoDir,
                             skipped |-> FALSE, dir |-> d]
  /\ replacement = NoTarget /\ cancel = FALSE /\ lease = NoDir
  /\ job = NoJob /\ reuse = FALSE /\ picked = NoDir /\ setup = NoSetup
  /\ files = [d \in Dirs |-> NoFile] /\ written = 0

Command ==
  \/ Resolve \/ StartDownload \/ ReplaceDownload \/ CancelDownload
  \/ \E d \in Dirs : set_destination(d) \/ PickImage(d)
  \/ BeginImport \/ reuse_testing_image

(* The worker, of whichever command.                                        *)
Work ==
  \/ Resolved \/ StartImport
  \/ Look \/ Inspect \/ Verify \/ Compare \/ Confirm
  \/ Download \/ Fetch \/ Save \/ Copy \/ LastCheck \/ Persist
  \/ Retain \/ Reread \/ Complete \/ Failed \/ Import \/ testing_iso_digest \/ Imported

Environment ==
  \/ TakeSource \/ verified_lease \/ SetupEnds
  \/ \E d \in Dirs : UserDeletes(d) \/ \E c \in Contents : UserWrites(d, c)

Next == Command \/ Work \/ Environment

Spec == Init /\ [][Next]_vars

(* A worker runs; HTTP and file operations end or fail.                     *)
FairSpec == Spec /\ WF_vars(Work)

-----------------------------------------------------------------------------
(* Properties.                                                              *)

(* Every variable has the values its Rust type and use allow.               *)
Targets == [dir : Dirs \cup {NoDir}, version : 0 .. MaxWrites]

TypeOK ==
  /\ build \in [windows : Windows, testing : Testing]
  /\ snap \in [status : {"idle", "resolving", "ready", "preparing", "downloading", "verifying",
                         "saving", "complete", "cancelled", "failed"},
               release : Releases, path : Dirs \cup {NoDir}, skipped : BOOLEAN, dir : Dirs]
  /\ replacement \in Targets /\ cancel \in BOOLEAN
  /\ lease \in Dirs \cup {NoDir} /\ picked \in Dirs \cup {NoDir} /\ reuse \in BOOLEAN
  /\ job \in [pc : {"none", "resolve", "chosen", "look", "inspect", "verify", "compare",
                    "confirm", "download", "fetch", "save", "copy", "check", "persist", "saved",
                    "reread", "complete", "failed", "import", "digest", "imported"},
              dir : Dirs \cup {NoDir}, target : Targets, before : Targets,
              guard : Dirs \cup {NoDir}, seen : 0 .. MaxWrites]
  /\ setup \in [release : Releases, dir : Dirs \cup {NoDir}, lease : Dirs \cup {NoDir}]
  /\ files \in [Dirs -> Files] /\ written \in 0 .. MaxWrites

(* On Windows, an image shown as verified is the release's image and stays  *)
(* it while it is shown, and so does an image leased to a setup for as long *)
(* as the setup has the lease, whatever becomes of the download meanwhile   *)
(* ("Retain it through the complete helper exchange even if download state  *)
(* is reset", downloads.rs:163).                                            *)
HeldIsImage ==
  build.windows =>
    /\ snap.status = "complete" /\ ~snap.skipped
         => files[snap.path].content = snap.release.content
    /\ setup.lease # NoDir => files[setup.lease].content = setup.release.content

(* The installer writes over a file of the user only when the user asked to *)
(* replace this very file, it was confirmed as damaged, and it has not      *)
(* changed since; what the user writes between the last comparison and the  *)
(* rename is all that can be lost ("never overwrite a user's ISO",          *)
(* downloads.rs:841).                                                       *)
OnlyDamagedIsReplaced ==
  [][\A d \in Dirs :
       /\ job' # job
       /\ files[d] # NoFile /\ files'[d] # files[d]
       => \/ files[d].version > job.seen
          \/ job.target = Target(d) /\ files[d].content # "image"]_vars

(* Whatever the window shows as going on ends, stopped or not.              *)
JobEnds == active ~> ~active
=============================================================================
