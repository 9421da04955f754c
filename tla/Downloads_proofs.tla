-------------------------- MODULE Downloads_proofs --------------------------
(* What Downloads keeps, for any folders, any builds and any number of       *)
(* writes by the user.                                                       *)
EXTENDS Downloads, TLAPS

-----------------------------------------------------------------------------
(* The invariant.                                                           *)

Statuses == {"idle", "resolving", "ready", "preparing", "downloading", "verifying",
             "saving", "complete", "cancelled", "failed"}
Places == {"none", "resolve", "chosen", "look", "inspect", "verify", "compare",
           "confirm", "download", "fetch", "save", "copy", "check", "persist",
           "saved", "reread", "complete", "failed", "import", "digest", "imported"}
Folders == Dirs \cup {NoDir}
Snaps == [status : Statuses, release : Releases, path : Folders, skipped : BOOLEAN,
          dir : Dirs]
Jobs == [pc : Places, dir : Folders, target : Targets, before : Targets,
         guard : Folders, seen : 0 .. MaxWrites]

(* A transfer of the official image, an import, and where either has a       *)
(* folder.                                                                   *)
Transfer == {"look", "inspect", "verify", "compare", "confirm", "download", "fetch",
             "save", "copy", "check", "persist", "saved", "reread", "complete"}
Importing == {"chosen", "import", "digest", "imported"}

(* The folder of a job, the release it is about, and the guard it took.      *)
Working ==
  /\ job.pc \in Transfer \cup Importing => job.dir \in Dirs
  /\ job.pc # "none" => active
  /\ job.pc \in Transfer => snap.release = Official
  /\ build.windows /\ job.pc \in {"verify", "reread", "complete"} => job.guard = job.dir
  /\ job.pc \in {"digest", "imported"} => job.guard = job.dir
  /\ build.windows /\ job.pc = "complete" => files[job.dir].content = "image"

(* On Windows, what is shown as verified is held, and so is a setup's lease. *)
Keeping ==
  build.windows =>
    /\ snap.status = "complete" /\ ~snap.skipped
         => /\ snap.path \in Dirs /\ lease = snap.path
            /\ files[snap.path] # NoFile
            /\ files[snap.path].content = snap.release.content
    /\ setup.lease # NoDir
         => /\ files[setup.lease] # NoFile
            /\ files[setup.lease].content = setup.release.content

(* Every write of the user has a version of its own; 0 is the installer's.   *)
Versions ==
  \A d \in Dirs : /\ files[d].version <= written
                  /\ files[d].version = 0 => files[d] \in {NoFile, Saved}

(* A target that is replaced is a file of the user which is not the image,   *)
(* as long as it is the same file.                                           *)
Damaged(t) ==
  t # NoTarget => /\ t.version \in 1 .. written
                  /\ t.dir \in Dirs
                  /\ files[t.dir].version = t.version => files[t.dir].content # "image"

Replacing ==
  /\ Damaged(replacement) /\ Damaged(job.target)
  /\ job.pc = "confirm" => Damaged(job.before)
  /\ job.seen <= written
  /\ job.pc = "persist" /\ job.target # NoTarget
       => /\ job.target.dir = job.dir
          /\ \/ files[job.dir] = NoFile
             \/ files[job.dir].version > job.seen
             \/ files[job.dir].version = job.target.version

-----------------------------------------------------------------------------
(* The parts of TypeOK by name.                                              *)

TypeParts ==
  /\ build \in [windows : Windows, testing : Testing]
  /\ snap \in Snaps /\ replacement \in Targets /\ cancel \in BOOLEAN
  /\ lease \in Folders /\ picked \in Folders /\ reuse \in BOOLEAN
  /\ job \in Jobs
  /\ setup \in [release : Releases, dir : Folders, lease : Folders]
  /\ files \in [Dirs -> Files] /\ written \in 0 .. MaxWrites

Inv == TypeParts /\ Working /\ Keeping /\ Versions /\ Replacing

LEMMA Typed == TypeOK <=> TypeParts
BY DEF TypeOK, TypeParts, Snaps, Jobs, Statuses, Places, Folders

LEMMA Blank ==
  /\ NoTarget \in Targets /\ NoFile \in Files /\ Saved \in Files
  /\ NoRelease \in Releases /\ Official \in Releases
  /\ NoJob \in Jobs
  /\ NoSetup \in [release : Releases, dir : Folders, lease : Folders]
BY DownloadsAssumption
   DEF NoTarget, Targets, NoFile, Files, Saved, Contents, NoRelease, Releases,
       Official, NoJob, Jobs, Places, NoSetup, Folders

(* What a file is, and the target that names it.                             *)
LEMMA FileOf ==
  ASSUME TypeParts, NEW d \in Dirs
  PROVE  /\ files[d] \in Files
         /\ files[d].version \in 0 .. MaxWrites
         /\ files[d].content \in Contents \cup {"none"}
         /\ files[d] # NoFile <=> files[d].content \in Contents
         /\ Target(d) \in Targets
BY DownloadsAssumption
   DEF TypeParts, Files, NoFile, Contents, Target, Targets

(* How the snapshot and the job change, field by field.                      *)
LEMMA Moved ==
  ASSUME TypeParts, NEW pc \in Places, Goes(pc)
  PROVE  /\ job' \in Jobs /\ job'.pc = pc
         /\ job'.dir = job.dir /\ job'.target = job.target
         /\ job'.before = job.before /\ job'.guard = job.guard
         /\ job'.seen = job.seen
BY DEF TypeParts, Jobs, Places, Folders, Goes

LEMMA Guarded ==
  ASSUME TypeParts, NEW pc \in Places, NEW g \in Folders, NEW t \in Targets,
         job' = [job EXCEPT !.pc = pc, !.before = t, !.guard = g]
  PROVE  /\ job' \in Jobs /\ job'.pc = pc /\ job'.before = t /\ job'.guard = g
         /\ job'.dir = job.dir /\ job'.target = job.target /\ job'.seen = job.seen
BY DEF TypeParts, Jobs, Places, Folders

LEMMA Reguarded ==
  ASSUME TypeParts, NEW pc \in Places, NEW g \in Folders,
         job' = [job EXCEPT !.pc = pc, !.guard = g]
  PROVE  /\ job' \in Jobs /\ job'.pc = pc /\ job'.guard = g
         /\ job'.dir = job.dir /\ job'.target = job.target
         /\ job'.before = job.before /\ job'.seen = job.seen
BY DEF TypeParts, Jobs, Places, Folders

LEMMA Seen ==
  ASSUME TypeParts, NEW pc \in Places, job' = [job EXCEPT !.pc = pc, !.seen = written]
  PROVE  /\ job' \in Jobs /\ job'.pc = pc /\ job'.seen = written
         /\ job'.dir = job.dir /\ job'.target = job.target
         /\ job'.before = job.before /\ job'.guard = job.guard
BY DEF TypeParts, Jobs, Places, Folders

LEMMA Began ==
  ASSUME NEW pc \in Places, NEW d \in Folders
  PROVE  /\ Start(pc, d) \in Jobs /\ Start(pc, d).pc = pc /\ Start(pc, d).dir = d
         /\ Start(pc, d).target = NoTarget /\ Start(pc, d).before = NoTarget
         /\ Start(pc, d).guard = NoDir /\ Start(pc, d).seen = 0
BY Blank DEF Start, NoJob, Jobs, Places, Folders

LEMMA BeganFor ==
  ASSUME NEW pc \in Places, NEW d \in Folders, NEW t \in Targets,
         job' = [Start(pc, d) EXCEPT !.target = t]
  PROVE  /\ job' \in Jobs /\ job'.pc = pc /\ job'.dir = d /\ job'.target = t
         /\ job'.before = NoTarget /\ job'.guard = NoDir /\ job'.seen = 0
BY Blank DEF Start, NoJob, Jobs, Places, Folders

LEMMA Shown ==
  ASSUME TypeParts, NEW s \in Statuses, Status(s)
  PROVE  /\ snap' \in Snaps /\ snap'.status = s
         /\ snap'.release = snap.release /\ snap'.path = snap.path
         /\ snap'.skipped = snap.skipped /\ snap'.dir = snap.dir
BY DEF TypeParts, Snaps, Statuses, Folders, Status

LEMMA Ended ==
  ASSUME TypeParts, NEW s \in Statuses, NEW p \in Folders, NEW k \in BOOLEAN,
         snap' = [snap EXCEPT !.status = s, !.path = p, !.skipped = k]
  PROVE  /\ snap' \in Snaps /\ snap'.status = s /\ snap'.path = p
         /\ snap'.skipped = k /\ snap'.release = snap.release /\ snap'.dir = snap.dir
BY DEF TypeParts, Snaps, Statuses, Folders

LEMMA Renewed ==
  ASSUME TypeParts, NEW s \in Statuses, NEW r \in Releases, NEW p \in Folders,
         snap' = [snap EXCEPT !.status = s, !.release = r, !.path = p, !.skipped = FALSE]
  PROVE  /\ snap' \in Snaps /\ snap'.status = s /\ snap'.path = p
         /\ snap'.skipped = FALSE /\ snap'.release = r /\ snap'.dir = snap.dir
BY DEF TypeParts, Snaps, Statuses, Folders

LEMMA Found ==
  ASSUME TypeParts, NEW s \in Statuses, NEW r \in Releases,
         snap' = [snap EXCEPT !.status = s, !.release = r]
  PROVE  /\ snap' \in Snaps /\ snap'.status = s /\ snap'.release = r
         /\ snap'.path = snap.path /\ snap'.skipped = snap.skipped
         /\ snap'.dir = snap.dir
BY DEF TypeParts, Snaps, Statuses, Folders

-----------------------------------------------------------------------------
(* Steps by their shape.                                                     *)

Busy == {"resolving", "preparing", "downloading", "verifying", "saving"}

(* The worker goes from one place to the next and touches no file.           *)
LEMMA Advances ==
  ASSUME Inv, NEW pc \in Places \ {"none", "verify", "reread", "digest", "persist"},
         job.pc # "none", Goes(pc),
         snap' = snap \/ \E s \in Busy : Status(s),
         replacement' \in {replacement, NoTarget, job.before},
         replacement' = job.before => job.before = replacement \/ Damaged(job.before),
         cancel' \in BOOLEAN, UNCHANGED <<build, lease, reuse, picked, setup, disk>>,
         pc \in Transfer => job.pc \in Transfer,
         pc \in Importing => job.pc \in Importing,
         pc = "imported" => job.pc = "digest",
         pc = "confirm" => Damaged(job.before),
         build.windows /\ pc = "complete"
           => job.guard = job.dir /\ files[job.dir].content = "image"
  PROVE  Inv'
<1>1. /\ job' \in Jobs /\ job'.pc = pc /\ job'.dir = job.dir /\ job'.target = job.target
      /\ job'.before = job.before /\ job'.guard = job.guard /\ job'.seen = job.seen
  BY Moved DEF Inv
<1>2. /\ snap' \in Snaps /\ snap'.release = snap.release
      /\ active' /\ active
  <2>1. active
    BY DEF Inv, Working
  <2>2. CASE snap' = snap
    BY <2>1, <2>2 DEF Inv, TypeParts, active
  <2>3. CASE \E s \in Busy : Status(s)
    BY <2>1, <2>3, Shown DEF Inv, Busy, active, Statuses
  <2> QED
    BY <2>1, <2>2, <2>3
<1>3. TypeParts'
  BY <1>1, <1>2, Blank DEF Inv, TypeParts, disk, Jobs
<1>4. Working'
  BY <1>1, <1>2 DEF Inv, Working, disk, Transfer, Importing
<1>5. Keeping'
  BY <1>2 DEF Inv, Keeping, disk, active
<1>6. Versions'
  BY DEF Inv, Versions, disk
<1>7. Replacing'
  BY <1>1 DEF Inv, Replacing, Damaged, disk
<1> QED
  BY <1>3, <1>4, <1>5, <1>6, <1>7 DEF Inv

(* What is known of an image changes, and no job begins; then, the worker    *)
(* is done.                                                                  *)
LEMMA Rests ==
  ASSUME Inv, job' \in {job, NoJob}, Working', Keeping',
         snap' \in Snaps, replacement' \in {replacement, NoTarget},
         lease' \in Folders, cancel' \in BOOLEAN, reuse' \in BOOLEAN, picked' \in Folders,
         setup' \in [release : Releases, dir : Folders, lease : Folders],
         UNCHANGED <<build, disk>>
  PROVE  Inv'
<1>1. TypeParts'
  BY Blank DEF Inv, TypeParts, disk
<1>2. Versions'
  BY DEF Inv, Versions, disk
<1>3. Replacing'
  <2>1. 0 <= written /\ written' = written /\ files' = files
    BY DEF Inv, TypeParts, disk
  <2> QED
    BY <2>1 DEF Inv, Replacing, Damaged, NoJob, disk
<1> QED
  BY <1>1, <1>2, <1>3 DEF Inv

LEMMA Settles ==
  ASSUME Inv, job' = NoJob,
         snap' \in Snaps, replacement' \in {replacement, NoTarget},
         lease' \in Folders, cancel' \in BOOLEAN, reuse' \in BOOLEAN, picked' \in Folders,
         setup' \in [release : Releases, dir : Folders, lease : Folders],
         UNCHANGED <<build, disk>>, Keeping'
  PROVE  Inv'
<1>1. Working'
  BY DEF Working, NoJob, Transfer, Importing
<1> QED
  BY <1>1, Rests

(* A new job of some folder and target, before which everything known about  *)
(* an image is forgotten.                                                    *)
LEMMA Starts ==
  ASSUME Inv, NEW pc \in {"resolve", "chosen", "look"}, NEW d \in Folders,
         NEW t \in {NoTarget, replacement},
         pc # "resolve" => d \in Dirs,
         job' \in Jobs, job'.pc = pc, job'.dir = d, job'.target = t,
         job'.before = NoTarget, job'.guard = NoDir, job'.seen = 0,
         snap' \in Snaps, active', pc = "look" => snap'.release = Official,
         replacement' \in {replacement, NoTarget}, lease' = NoDir,
         cancel' \in BOOLEAN, picked' \in Folders,
         UNCHANGED <<build, reuse, setup, disk>>
  PROVE  Inv'
<1>1. TypeParts'
  BY Blank DEF Inv, TypeParts, disk, Folders
<1>2. Working'
  BY DEF Working, Transfer, Importing
<1>3. Keeping'
  BY DEF Inv, Keeping, active, disk
<1>4. Versions'
  BY DEF Inv, Versions, disk
<1>5. 0 <= written /\ UNCHANGED written /\ UNCHANGED files
  BY DEF Inv, TypeParts, disk
<1>6. Replacing'
  BY <1>5 DEF Inv, Replacing, Damaged
<1> QED
  BY <1>1, <1>2, <1>3, <1>4, <1>6 DEF Inv

-----------------------------------------------------------------------------
(* The steps of the worker.                                                  *)

Advancing ==
  \/ StartImport \/ Look \/ Verify \/ Compare \/ Confirm \/ Download \/ Fetch
  \/ Save \/ Copy \/ Reread \/ testing_iso_digest

LEMMA KeepsAdvancing ==
  ASSUME Inv, Advancing
  PROVE  Inv'
<1> USE DEF Inv, inner, disk, Transfer, Importing, Busy, Places
<1>0. cancel \in BOOLEAN
  BY DEF TypeParts
<1>1. CASE StartImport
  BY <1>1, <1>0, Advances DEF StartImport
<1>2. CASE Look
  BY <1>2, <1>0, Advances DEF Look
<1>3. CASE Verify
  BY <1>3, <1>0, Advances DEF Verify, Working, verify_existing
<1>4. CASE Compare
  <2> DEFINE Same == /\ Unchanged(job.before, job.dir)
                     /\ files[job.dir].content # "image" /\ ~cancel
  <2>1. CASE Same
    <3>1. job.before = Target(job.dir) /\ files[job.dir] # NoFile
          /\ files[job.dir].content # "image" /\ job.dir \in Dirs
      BY <1>4, <2>1 DEF Compare, Unchanged, Working
    <3>2. Damaged(job.before)
      BY <3>1, FileOf DEF Damaged, Target, Versions, Saved, TypeParts
    <3> QED
      BY <1>4, <1>0, <2>1, <3>2, Advances DEF Compare
  <2>2. CASE ~Same
    <3>1. Goes("failed") /\ replacement' = NoTarget /\ job.pc = "compare"
      BY <1>4, <2>2 DEF Compare
    <3> QED
      BY <1>4, <1>0, <3>1, Advances DEF Compare, Damaged
  <2> QED
    BY <2>1, <2>2
<1>5. CASE Confirm
  BY <1>5, <1>0, Advances DEF Confirm, Replacing
<1>6. CASE Download
  BY <1>6, <1>0, Advances DEF Download
<1>7. CASE Fetch
  BY <1>7, <1>0, Advances DEF Fetch
<1>8. CASE Save
  BY <1>8, <1>0, Advances DEF Save
<1>9. CASE Copy
  BY <1>9, <1>0, Advances DEF Copy
<1>10. CASE Reread
  BY <1>10, <1>0, Advances DEF Reread, Working, verify_existing
<1>11. CASE testing_iso_digest
  BY <1>11, <1>0, Advances DEF testing_iso_digest, Working
<1> QED
  BY <1>1, <1>2, <1>3, <1>4, <1>5, <1>6, <1>7, <1>8, <1>9, <1>10, <1>11 DEF Advancing

LEMMA KeepsInspect ==
  ASSUME Inv, Inspect
  PROVE  Inv'
<1> USE DEF Inv, inner, disk, Transfer, Importing
<1>1. CASE Goes("failed")
  BY <1>1, Advances DEF Inspect, TypeParts, Places
<1>2. CASE ~Goes("failed")
  <2>1. job.dir \in Dirs /\ Target(job.dir) \in Targets
    BY FileOf DEF Inspect, Working
  <2>2. /\ job' \in Jobs /\ job'.pc = "verify" /\ job'.before = Target(job.dir)
        /\ job'.guard = IF build.windows THEN job.dir ELSE NoDir
        /\ job'.dir = job.dir /\ job'.target = job.target /\ job'.seen = job.seen
    <3> DEFINE g == IF build.windows THEN job.dir ELSE NoDir
    <3>1. g \in Folders /\ "verify" \in Places
      BY <2>1 DEF Folders, Places
    <3>2. job' = [job EXCEPT !.pc = "verify", !.before = Target(job.dir), !.guard = g]
      BY <1>2 DEF Inspect
    <3> HIDE DEF g
    <3>3. /\ job' \in Jobs /\ job'.pc = "verify" /\ job'.before = Target(job.dir)
          /\ job'.guard = g /\ job'.dir = job.dir /\ job'.target = job.target
          /\ job'.seen = job.seen
      BY <2>1, <3>1, <3>2, Guarded
    <3> QED
      BY <3>3 DEF g
  <2>3. UNCHANGED <<build, snap, replacement, cancel, lease, reuse, picked, setup,
                    files, written>>
    BY DEF Inspect
  <2>4. TypeParts'
    BY <2>2, <2>3 DEF TypeParts
  <2>5. Working'
    BY <2>1, <2>2, <2>3 DEF Working, active, Inspect
  <2>6. Keeping' /\ Versions' /\ Replacing'
    BY <2>2, <2>3 DEF Keeping, Versions, Replacing, Damaged
  <2> QED
    BY <2>4, <2>5, <2>6
<1> QED
  BY <1>1, <1>2

LEMMA KeepsImport ==
  ASSUME Inv, Import
  PROVE  Inv'
<1> USE DEF Inv, inner, disk, Transfer, Importing
<1>1. CASE Goes("failed")
  BY <1>1, Advances DEF Import, TypeParts, Places
<1>2. CASE ~Goes("failed")
  <2>1. job.dir \in Dirs /\ Target(job.dir) \in Targets
    BY FileOf DEF Import, Working
  <2>2. /\ job' \in Jobs /\ job'.pc = "digest" /\ job'.before = Target(job.dir)
        /\ job'.guard = job.dir
        /\ job'.dir = job.dir /\ job'.target = job.target /\ job'.seen = job.seen
    BY <1>2, <2>1, Guarded DEF Import, Places, Folders
  <2>3. UNCHANGED <<build, snap, replacement, cancel, lease, reuse, picked, setup,
                    files, written>>
    BY DEF Import
  <2>4. TypeParts'
    BY <2>2, <2>3 DEF TypeParts
  <2>5. Working'
    BY <2>1, <2>2, <2>3 DEF Working, active, Import
  <2>6. Keeping' /\ Versions' /\ Replacing'
    BY <2>2, <2>3 DEF Keeping, Versions, Replacing, Damaged
  <2> QED
    BY <2>4, <2>5, <2>6
<1> QED
  BY <1>1, <1>2

(* The target was compared a last time: it is still the file that was found  *)
(* damaged, or was written by the user after this.                           *)
LEMMA KeepsLastCheck ==
  ASSUME Inv, LastCheck
  PROVE  Inv'
<1> USE DEF Inv, inner, disk, Transfer, Importing
<1>1. CASE Goes("failed")
  BY <1>1, Advances DEF LastCheck, TypeParts, Places
<1>2. CASE ~Goes("failed")
  <2>1. /\ job' \in Jobs /\ job'.pc = "persist" /\ job'.seen = written
        /\ job'.before = job.before /\ job'.guard = job.guard
        /\ job'.dir = job.dir /\ job'.target = job.target
    BY <1>2, Seen DEF LastCheck, Places
  <2>2. UNCHANGED <<build, snap, replacement, cancel, lease, reuse, picked, setup,
                    files, written>>
    BY DEF LastCheck
  <2>3. job.target # NoTarget => job.target = Target(job.dir)
    BY <1>2 DEF LastCheck, Unchanged
  <2>4. TypeParts' /\ written <= written
    BY <2>1, <2>2 DEF TypeParts
  <2>5. Working'
    BY <2>1, <2>2 DEF Working, active, LastCheck
  <2>6. Keeping' /\ Versions'
    BY <2>1, <2>2 DEF Keeping, Versions
  <2>7. Replacing'
    BY <2>1, <2>2, <2>3, <2>4 DEF Replacing, Damaged, Target
  <2> QED
    BY <2>4, <2>5, <2>6, <2>7
<1> QED
  BY <1>1, <1>2

LEMMA KeepsRetain ==
  ASSUME Inv, Retain
  PROVE  Inv'
<1> USE DEF Inv, inner, disk, Transfer, Importing
<1>1. CASE Goes("failed") \/ ~build.windows
  BY <1>1, Advances DEF Retain, TypeParts, Places
<1>2. CASE build.windows /\ ~Goes("failed")
  <2>1. job' = [job EXCEPT !.pc = "reread", !.guard = job.dir]
    BY <1>2 DEF Retain
  <2>2. job.dir \in Folders /\ "reread" \in Places
    BY DEF Folders, Places, Retain, Working
  <2>3. /\ job' \in Jobs /\ job'.pc = "reread" /\ job'.guard = job.dir
        /\ job'.before = job.before /\ job'.seen = job.seen
        /\ job'.dir = job.dir /\ job'.target = job.target
    BY <2>1, <2>2, Reguarded
  <2>4. UNCHANGED <<build, snap, replacement, cancel, lease, reuse, picked, setup,
                    files, written>>
    BY DEF Retain
  <2>5. TypeParts'
    BY <2>3, <2>4 DEF TypeParts
  <2>6. Working'
    BY <2>3, <2>4 DEF Working, active, Retain
  <2>7. Keeping' /\ Versions' /\ Replacing'
    BY <2>3, <2>4 DEF Keeping, Versions, Replacing, Damaged
  <2> QED
    BY <2>5, <2>6, <2>7
<1> QED
  BY <1>1, <1>2

(* The file is put in its place: over nothing, or over one nobody holds.     *)
LEMMA KeepsPersist ==
  ASSUME Inv, Persist
  PROVE  Inv'
<1> USE DEF Inv, inner, disk, Transfer, Importing
<1>1. CASE Goes("failed") /\ UNCHANGED files
  BY <1>1, Advances DEF Persist, TypeParts, Places
<1>2. CASE ~(Goes("failed") /\ UNCHANGED files)
  <2>1. /\ Goes("saved") /\ job.dir \in Dirs
        /\ files' = [files EXCEPT ![job.dir] = Saved]
        /\ ~Held(job.dir) \/ files[job.dir] = NoFile
    BY <1>2 DEF Persist, Working
  <2>2. /\ job' \in Jobs /\ job'.pc = "saved" /\ job'.seen = job.seen
        /\ job'.before = job.before /\ job'.guard = job.guard
        /\ job'.dir = job.dir /\ job'.target = job.target
    BY <2>1, Moved DEF Places
  <2>3. UNCHANGED <<build, snap, replacement, cancel, lease, reuse, picked, setup, written>>
    BY DEF Persist
  <2>4. /\ files' \in [Dirs -> Files] /\ files'[job.dir] = Saved
        /\ \A d \in Dirs \ {job.dir} : files'[d] = files[d]
    BY <2>1, Blank DEF TypeParts
  <2>5. TypeParts'
    BY <2>2, <2>3, <2>4 DEF TypeParts
  <2>6. Working'
    BY <2>2, <2>3 DEF Working, active, Persist
  <2>7. Keeping'
    <3>1. build.windows /\ setup.lease # NoDir => setup.lease # job.dir /\ setup.lease \in Dirs
      BY <2>1 DEF Keeping, Held, TypeParts, Folders
    <3>2. snap.status # "complete"
      BY DEF Persist, Working, active
    <3> QED
      BY <2>3, <2>4, <3>1, <3>2 DEF Keeping
  <2>8. Versions'
    BY <2>3, <2>4 DEF Versions, Saved, TypeParts
  <2>9. Replacing'
    BY <2>2, <2>3, <2>4 DEF Replacing, Damaged, Saved
  <2> QED
    BY <2>5, <2>6, <2>7, <2>8, <2>9
<1> QED
  BY <1>1, <1>2

(* The ends of a job.                                                        *)
LEMMA KeepsEnds ==
  ASSUME Inv, Resolved \/ Complete \/ Failed \/ Imported
  PROVE  Inv'
<1> USE DEF Inv, inner, disk
<1>1. CASE Resolved
  <2>1. CASE snap' = [snap EXCEPT !.status = "ready", !.release = Official] /\ UNCHANGED lease
    <3>1. snap' \in Snaps /\ snap'.status = "ready"
      BY <2>1, Found, Blank DEF Statuses
    <3> QED
      BY <1>1, <2>1, <3>1, Settles DEF Resolved, Keeping, TypeParts
  <2>2. CASE /\ snap' = [snap EXCEPT !.status = "failed", !.path = NoDir, !.skipped = FALSE]
             /\ lease' = NoDir
    <3>1. snap' \in Snaps /\ snap'.status = "failed"
      BY <2>2, Ended DEF Statuses, Folders
    <3> QED
      BY <1>1, <2>2, <3>1, Settles DEF Resolved, Keeping, TypeParts, Folders
  <2> QED
    BY <1>1, <2>1, <2>2 DEF Resolved
<1>2. CASE Complete
  <2>0. job.dir \in Dirs
    BY <1>2 DEF Complete, Working, Transfer
  <2>1. CASE cancel
    <3>1. snap' \in Snaps /\ snap'.status = "cancelled"
      BY <1>2, <2>1, Ended DEF Complete, Statuses, Folders
    <3> QED
      BY <1>2, <2>1, <3>1, Settles DEF Complete, Keeping, TypeParts
  <2>2. CASE ~cancel
    <3>1. /\ snap' \in Snaps /\ snap'.path = job.dir /\ snap'.release = snap.release
      BY <1>2, <2>0, <2>2, Ended DEF Complete, Statuses, Folders
    <3>2. build.windows => /\ lease' = job.dir /\ snap.release = Official
                           /\ files[job.dir].content = "image"
      BY <1>2, <2>2 DEF Complete, Working, Transfer
    <3>3. Keeping'
      BY <1>2, <2>0, <3>1, <3>2 DEF Complete, Keeping, Official, NoFile
    <3> QED
      BY <1>2, <2>2, <3>1, <3>3, Settles DEF Complete, TypeParts, Jobs
  <2> QED
    BY <2>1, <2>2
<1>3. CASE Failed
  <2>1. snap' \in Snaps /\ snap'.status # "complete"
    <3> DEFINE s == IF cancel THEN "cancelled" ELSE "failed"
    <3>1. s \in Statuses /\ s # "complete"
      BY DEF Statuses
    <3>2. snap' = [snap EXCEPT !.status = s, !.path = NoDir, !.skipped = FALSE]
      BY <1>3 DEF Failed
    <3> HIDE DEF s
    <3> QED
      BY <3>1, <3>2, Ended DEF Folders
  <2> QED
    BY <1>3, <2>1, Settles DEF Failed, Keeping, TypeParts, Folders
<1>4. CASE Imported
  <2>1. CASE Goes("failed") /\ UNCHANGED <<snap, lease>>
    BY <1>4, <2>1, Advances DEF Imported, TypeParts, Places, Importing, Transfer
  <2>2. CASE ~(Goes("failed") /\ UNCHANGED <<snap, lease>>)
    <3>1. /\ job.dir \in Dirs /\ job.guard = job.dir /\ files[job.dir] # NoFile
          /\ lease' = job.guard /\ job' = NoJob
          /\ snap' = [snap EXCEPT !.status = "complete", !.path = job.dir, !.skipped = FALSE,
                                  !.release = Local(files[job.dir].content)]
      BY <1>4, <2>2 DEF Imported, Working, Importing, Unchanged
    <3>2. Local(files[job.dir].content) \in Releases
      BY <3>1, FileOf DEF Releases
    <3>3. /\ snap' \in Snaps /\ snap'.path = job.dir
          /\ snap'.release = Local(files[job.dir].content)
      BY <3>1, <3>2 DEF TypeParts, Snaps, Statuses, Folders
    <3>4. Keeping'
      BY <1>4, <3>1, <3>3 DEF Imported, Keeping, Local
    <3> QED
      BY <1>4, <3>1, <3>3, <3>4, Settles DEF Imported, TypeParts, Folders
  <2> QED
    BY <2>1, <2>2
<1> QED
  BY <1>1, <1>2, <1>3, <1>4

(* Every step of the worker.                                                 *)
LEMMA KeepsWork ==
  ASSUME Inv, Work
  PROVE  Inv'
BY KeepsAdvancing, KeepsInspect, KeepsImport, KeepsLastCheck, KeepsRetain,
   KeepsPersist, KeepsEnds
   DEF Work, Advancing

-----------------------------------------------------------------------------
(* The commands of the window.                                               *)

(* An image is forgotten and looked up, or chosen; or is fetched.            *)
LEMMA Resolving ==
  ASSUME Inv, NEW pc \in {"resolve", "chosen"}, NEW d \in Folders,
         begin_resolution(pc, d), pc = "chosen" => d \in Dirs,
         picked' \in Folders, UNCHANGED <<build, reuse, setup, disk>>
  PROVE  Inv'
<1>1. /\ job' \in Jobs /\ job'.pc = pc /\ job'.dir = d /\ job'.target = NoTarget
      /\ job'.before = NoTarget /\ job'.guard = NoDir /\ job'.seen = 0
  <2>1. job' = Start(pc, d) /\ pc \in Places
    BY DEF begin_resolution, Places
  <2> QED
    BY <2>1, Began
<1>2. snap' \in Snaps /\ snap'.status = "resolving"
  <2>1. "resolving" \in Statuses /\ NoDir \in Folders /\ NoRelease \in Releases
    BY Blank DEF Statuses, Folders
  <2>2. snap' = [snap EXCEPT !.status = "resolving", !.release = NoRelease,
                             !.path = NoDir, !.skipped = FALSE]
    BY DEF begin_resolution
  <2> QED
    BY <2>1, <2>2, Renewed DEF Inv
<1>3. replacement' = NoTarget /\ lease' = NoDir /\ cancel' \in BOOLEAN /\ active'
  BY <1>2 DEF begin_resolution, Inv, TypeParts, active
<1> QED
  BY <1>1, <1>2, <1>3, Starts

LEMMA Transferring ==
  ASSUME Inv, NEW t \in {NoTarget, replacement}, begin_transfer(t),
         snap.release = Official, UNCHANGED <<build, reuse, picked, setup, disk>>
  PROVE  Inv'
<1>1. snap.dir \in Dirs /\ snap.dir \in Folders /\ picked' \in Folders
  BY DEF Inv, TypeParts, Snaps, Folders
<1>2. snap' \in Snaps /\ snap'.status = "preparing" /\ snap'.release = Official
  <2>1. "preparing" \in Statuses /\ NoDir \in Folders
    BY DEF Statuses, Folders
  <2>2. snap' = [snap EXCEPT !.status = "preparing", !.path = NoDir, !.skipped = FALSE]
    BY DEF begin_transfer
  <2> QED
    BY <2>1, <2>2, Ended DEF Inv
<1>3. /\ job' \in Jobs /\ job'.pc = "look" /\ job'.dir = snap.dir /\ job'.target = t
      /\ job'.before = NoTarget /\ job'.guard = NoDir /\ job'.seen = 0
  <2>1. "look" \in Places /\ t \in Targets
    BY Blank DEF Places, Inv, TypeParts
  <2> QED
    BY <1>1, <2>1, BeganFor DEF begin_transfer
<1>4. active' /\ replacement' = t /\ lease' = NoDir /\ cancel' \in BOOLEAN
  BY <1>2 DEF active, begin_transfer
<1> QED
  BY <1>1, <1>2, <1>3, <1>4, Starts

(* The shortcut of the testing build, which claims nothing.                  *)
LEMMA Reusing ==
  ASSUME Inv, Reusable, use_testing_file, reuse' \in BOOLEAN,
         UNCHANGED <<build, cancel, job, picked, setup, disk>>
  PROVE  Inv'
<1>1. snap.dir \in Dirs /\ job.pc = "none"
  BY DEF Inv, TypeParts, Snaps, Working, Reusable, active
<1>2. snap' \in Snaps /\ snap'.skipped = TRUE
  <2>1. "complete" \in Statuses /\ snap.dir \in Folders
    BY <1>1 DEF Statuses, Folders
  <2>2. snap' = [snap EXCEPT !.status = "complete", !.path = snap.dir, !.skipped = TRUE]
    BY DEF use_testing_file
  <2> QED
    BY <2>1, <2>2, Ended DEF Inv
<1>3. Keeping'
  BY <1>2 DEF Inv, Keeping, disk
<1>4. replacement' \in {replacement, NoTarget} /\ lease' \in Folders
  BY <1>1 DEF use_testing_file, Folders
<1>5. /\ snap' \in Snaps /\ cancel' \in BOOLEAN /\ picked' \in Folders
      /\ setup' \in [release : Releases, dir : Folders, lease : Folders]
  BY <1>2 DEF Inv, TypeParts
<1>6. Working' /\ job' \in {job, NoJob}
  BY <1>1 DEF Working, Transfer, Importing
<1> QED
  BY <1>3, <1>4, <1>5, <1>6, Rests

LEMMA KeepsChoice ==
  ASSUME Inv, NEW d \in Dirs, set_destination(d)
  PROVE  Inv'
<1>1. job.pc = "none" /\ reuse' \in BOOLEAN
      /\ UNCHANGED <<build, cancel, job, picked, setup, disk>>
  BY DEF set_destination, Inv, Working
<1>2. Working' /\ job' \in {job, NoJob}
  BY <1>1 DEF Working, Transfer, Importing
<1>3. CASE d = snap.dir
  <2>1. UNCHANGED <<snap, replacement, lease>>
    BY <1>3 DEF set_destination
  <2>2. Keeping'
    BY <1>1, <2>1 DEF Inv, Keeping, disk
  <2> QED
    BY <1>1, <1>2, <2>1, <2>2, Rests DEF Inv, TypeParts
<1>4. CASE d # snap.dir
  <2> DEFINE kept == IF snap.release = Official THEN Official ELSE NoRelease
             s == IF kept = Official THEN "ready" ELSE "idle"
  <2>1. /\ snap' = [status |-> s, release |-> kept, path |-> NoDir, skipped |-> FALSE,
                    dir |-> d]
        /\ replacement' = NoTarget /\ lease' = NoDir
    BY <1>4 DEF set_destination
  <2>2. kept \in Releases /\ s \in Statuses /\ s # "complete" /\ NoDir \in Folders
    BY Blank DEF Statuses, Folders
  <2> HIDE DEF kept, s
  <2>3. snap' \in Snaps /\ snap'.status # "complete"
    BY <2>1, <2>2 DEF Snaps
  <2>4. Keeping'
    BY <1>1, <2>3 DEF Inv, Keeping, disk
  <2>5. /\ snap' \in Snaps /\ replacement' \in {replacement, NoTarget} /\ lease' \in Folders
        /\ cancel' \in BOOLEAN /\ picked' \in Folders
        /\ setup' \in [release : Releases, dir : Folders, lease : Folders]
    BY <1>1, <2>1, <2>2, <2>3 DEF Inv, TypeParts
  <2> QED
    BY <1>1, <1>2, <2>4, <2>5, Rests
<1> QED
  BY <1>3, <1>4

(* A command that changes nothing an image is known by.                      *)
LEMMA Idles ==
  ASSUME Inv, replacement' \in {replacement, NoTarget}, cancel' \in BOOLEAN,
         reuse' \in BOOLEAN, picked' \in Folders,
         UNCHANGED <<build, snap, lease, job, setup, disk>>
  PROVE  Inv'
<1>1. Keeping'
  BY DEF Inv, Keeping, disk
<1>2. Working'
  BY DEF Inv, Working, active, disk
<1> QED
  BY <1>1, <1>2, Rests DEF Inv, TypeParts

LEMMA KeepsCommand ==
  ASSUME Inv, Command
  PROVE  Inv'
<1> USE DEF inner
<1>0. /\ cancel \in BOOLEAN /\ reuse \in BOOLEAN /\ picked \in Folders
      /\ NoDir \in Folders
  BY DEF Inv, TypeParts, Folders
<1>1. CASE Resolve
  BY <1>1, <1>0, Resolving DEF Resolve
<1>2. CASE StartDownload
  BY <1>2, <1>0, Reusing, Transferring DEF StartDownload
<1>3. CASE ReplaceDownload
  <2>1. CASE Unchanged(replacement, snap.dir)
    BY <1>3, <2>1, Transferring DEF ReplaceDownload
  <2>2. CASE ~Unchanged(replacement, snap.dir)
    BY <1>3, <1>0, <2>2, Idles DEF ReplaceDownload
  <2> QED
    BY <2>1, <2>2
<1>4. CASE CancelDownload
  BY <1>4, <1>0, Idles DEF CancelDownload
<1>5. ASSUME NEW d \in Dirs, set_destination(d)
      PROVE  Inv'
  BY <1>5, KeepsChoice
<1>6. ASSUME NEW d \in Dirs, PickImage(d)
      PROVE  Inv'
  BY <1>6, <1>0, Idles DEF PickImage, Folders
<1>7. CASE BeginImport
  <2>1. picked \in Dirs
    BY <1>7, <1>0 DEF BeginImport, Folders
  <2>2. CASE begin_resolution("chosen", picked)
    BY <1>7, <1>0, <2>1, <2>2, Resolving DEF BeginImport
  <2>3. CASE UNCHANGED <<inner, job>>
    BY <1>7, <1>0, <2>3, Idles DEF BeginImport
  <2> QED
    BY <1>7, <2>2, <2>3 DEF BeginImport
<1>8. CASE reuse_testing_image
  <2>1. CASE Reusable
    BY <1>8, <2>1, Reusing DEF reuse_testing_image
  <2>2. CASE ~Reusable
    BY <1>8, <1>0, <2>2, Idles DEF reuse_testing_image
  <2> QED
    BY <2>1, <2>2
<1> QED
  BY <1>1, <1>2, <1>3, <1>4, <1>5, <1>6, <1>7, <1>8 DEF Command

-----------------------------------------------------------------------------
(* The setup and the user.                                                   *)

LEMMA KeepsSetup ==
  ASSUME Inv, TakeSource \/ verified_lease \/ SetupEnds
  PROVE  Inv'
<1> USE DEF inner
<1>1. UNCHANGED <<build, snap, replacement, cancel, lease, job, reuse, picked, disk>>
  BY DEF TakeSource, verified_lease, SetupEnds
<1>2. setup' \in [release : Releases, dir : Folders, lease : Folders] /\ Keeping'
  <2>1. CASE TakeSource
    <3>1. setup' \in [release : Releases, dir : Folders, lease : Folders]
          /\ setup'.lease = NoDir
      BY <2>1 DEF TakeSource, Inv, TypeParts, Snaps, Folders
    <3> QED
      BY <1>1, <3>1 DEF Inv, Keeping, disk
  <2>2. CASE verified_lease
    <3>1. /\ setup' \in [release : Releases, dir : Folders, lease : Folders]
          /\ setup'.lease = lease /\ setup'.release = setup.release
      BY <2>2 DEF verified_lease, Inv, TypeParts
    <3> QED
      BY <1>1, <2>2, <3>1 DEF verified_lease, Inv, Keeping, disk
  <2>3. CASE SetupEnds
    <3>1. setup' = NoSetup
      BY <2>3 DEF SetupEnds
    <3> QED
      BY <1>1, <3>1, Blank DEF Inv, Keeping, disk, NoSetup, Folders
  <2> QED
    BY <2>1, <2>2, <2>3
<1>3. Working' /\ job' \in {job, NoJob}
  BY <1>1 DEF Inv, Working, active, disk
<1> QED
  BY <1>1, <1>2, <1>3, Rests DEF Inv, TypeParts

(* A file that nobody holds is rewritten, which gives it a version no target *)
(* has, or is deleted.                                                       *)
LEMMA KeepsUser ==
  ASSUME Inv, NEW d \in Dirs, UserDeletes(d) \/ \E c \in Contents : UserWrites(d, c)
  PROVE  Inv'
<1> USE DEF inner
<1>1. /\ ~Held(d) /\ UNCHANGED <<build, snap, replacement, cancel, lease, job, reuse,
                                 picked, setup>>
      /\ written \in 0 .. MaxWrites /\ MaxWrites \in Nat
  BY DownloadsAssumption DEF UserDeletes, UserWrites, Inv, TypeParts
<1>2. PICK f \in Files :
        /\ files' = [files EXCEPT ![d] = f]
        /\ \/ f = NoFile /\ written' = written
           \/ f.version = written + 1 /\ written' = written + 1 /\ written < MaxWrites
  <2>1. CASE UserDeletes(d)
    BY <2>1, Blank DEF UserDeletes
  <2>2. ASSUME NEW c \in Contents, UserWrites(d, c)
        PROVE  [content |-> c, version |-> written + 1] \in Files
    <3>1. written + 1 \in 0 .. MaxWrites
      BY <1>1, <2>2 DEF UserWrites
    <3> QED
      BY <3>1 DEF Files
  <2>3. ASSUME NEW c \in Contents, UserWrites(d, c)
        PROVE  /\ files' = [files EXCEPT ![d] = [content |-> c, version |-> written + 1]]
               /\ written' = written + 1 /\ written < MaxWrites
               /\ [content |-> c, version |-> written + 1].version = written + 1
    BY <2>3 DEF UserWrites
  <2> QED
    BY <2>1, <2>2, <2>3
<1>3. /\ files' \in [Dirs -> Files] /\ files'[d] = f
      /\ \A e \in Dirs \ {d} : files'[e] = files[e]
  BY <1>2 DEF Inv, TypeParts
<1>4. /\ written <= written' /\ written' \in 0 .. MaxWrites
      /\ f.version = 0 => f = NoFile
      /\ f.version = 0 \/ f.version = written + 1
      /\ f.version <= written'
  BY <1>1, <1>2 DEF NoFile
<1>5. TypeParts'
  BY <1>1, <1>3, <1>4 DEF Inv, TypeParts
<1>6. Working'
  <2>1. build.windows /\ job.pc = "complete" => job.dir \in Dirs /\ job.dir # d
    BY <1>1 DEF Inv, Working, Transfer, Held
  <2>2. build.windows /\ job.pc = "complete" => files'[job.dir].content = "image"
    BY <1>3, <2>1 DEF Inv, Working
  <2> QED
    BY <1>1, <2>2 DEF Inv, Working, active
<1>7. Keeping'
  <2>1. build.windows /\ snap.status = "complete" /\ ~snap.skipped
          => snap.path \in Dirs /\ files'[snap.path] = files[snap.path]
    BY <1>1, <1>3 DEF Inv, Keeping, Held
  <2>2. build.windows /\ setup.lease # NoDir => files'[setup.lease] = files[setup.lease]
    BY <1>1, <1>3 DEF Inv, TypeParts, Folders, Held
  <2> QED
    BY <1>1, <2>1, <2>2 DEF Inv, Keeping
<1>8. Versions'
  <2> SUFFICES ASSUME NEW e \in Dirs
               PROVE  /\ files'[e].version <= written'
                      /\ files'[e].version = 0 => files'[e] \in {NoFile, Saved}
    BY DEF Versions
  <2>1. CASE e = d
    BY <1>3, <1>4, <2>1
  <2>2. CASE e # d
    <3>1. files[e].version \in 0 .. MaxWrites
      BY FileOf DEF Inv
    <3> QED
      BY <1>1, <1>3, <1>4, <2>2, <3>1 DEF Inv, Versions
  <2> QED
    BY <2>1, <2>2
<1>9. Replacing'
  <2>1. ASSUME NEW t \in Targets, Damaged(t)
        PROVE  t # NoTarget =>
                 /\ t.version \in 1 .. written'
                 /\ t.dir \in Dirs
                 /\ files'[t.dir].version = t.version => files'[t.dir].content # "image"
    BY <1>1, <1>3, <1>4, <2>1 DEF Damaged
  <2>2. replacement \in Targets /\ job.target \in Targets /\ job.before \in Targets
    BY DEF Inv, TypeParts, Jobs
  <2>3. /\ Damaged(replacement)' /\ Damaged(job.target)'
        /\ job'.pc = "confirm" => Damaged(job.before)'
    BY <1>1, <2>1, <2>2 DEF Inv, Replacing, Damaged
  <2>4. job.seen \in 0 .. MaxWrites /\ job.seen <= written
    BY DEF Inv, TypeParts, Jobs, Replacing
  <2>5. job'.seen <= written'
    BY <1>1, <1>4, <2>4
  <2>6. (job.pc = "persist" /\ job.target # NoTarget
           => /\ job.target.dir = job.dir
              /\ \/ files[job.dir] = NoFile
                 \/ files[job.dir].version > job.seen
                 \/ files[job.dir].version = job.target.version)'
    <3>1. CASE job.dir = d
      BY <1>1, <1>2, <1>3, <2>4, <3>1 DEF Inv, Replacing
    <3>2. CASE job.dir # d
      BY <1>1, <1>3, <3>2 DEF Inv, Replacing, Working, Transfer
    <3> QED
      BY <3>1, <3>2
  <2> QED
    BY <2>3, <2>5, <2>6 DEF Replacing
<1> QED
  BY <1>5, <1>6, <1>7, <1>8, <1>9 DEF Inv

-----------------------------------------------------------------------------
(* The theorems.                                                             *)

LEMMA InvInit ==
  Init => Inv
<1> SUFFICES ASSUME Init
             PROVE  Inv
  OBVIOUS
<1>1. /\ written = 0 /\ files = [e \in Dirs |-> NoFile] /\ job = NoJob
      /\ setup = NoSetup /\ replacement = NoTarget /\ lease = NoDir
      /\ cancel = FALSE /\ reuse = FALSE /\ picked = NoDir
  BY DEF Init
<1>2. snap \in Snaps /\ snap.status = "idle"
  BY Blank DEF Init, Snaps, Statuses, Folders
<1>3. TypeParts
  <2>1. build \in [windows : Windows, testing : Testing]
    BY DEF Init
  <2>2. lease \in Folders /\ picked \in Folders /\ files \in [Dirs -> Files]
        /\ written \in 0 .. MaxWrites
    BY <1>1, Blank, DownloadsAssumption DEF Folders
  <2> QED
    BY <1>1, <1>2, <2>1, <2>2, Blank DEF TypeParts
<1>4. Working
  BY <1>1 DEF Working, NoJob, Transfer, Importing
<1>5. Keeping
  BY <1>1, <1>2 DEF Keeping, NoSetup
<1>6. Versions
  BY <1>1 DEF Versions, NoFile
<1>7. Replacing
  BY <1>1 DEF Replacing, Damaged, NoJob
<1> QED
  BY <1>3, <1>4, <1>5, <1>6, <1>7 DEF Inv

LEMMA InvNext ==
  Inv /\ [Next]_vars => Inv'
<1> SUFFICES ASSUME Inv, [Next]_vars
             PROVE  Inv'
  OBVIOUS
<1>1. CASE UNCHANGED vars
  <2>1. UNCHANGED <<replacement, cancel, reuse, picked, build, snap, lease, job, setup,
                    disk>>
    BY <1>1 DEF vars, inner
  <2>2. replacement' \in {replacement, NoTarget} /\ cancel' \in BOOLEAN
        /\ reuse' \in BOOLEAN /\ picked' \in Folders
    BY <2>1 DEF Inv, TypeParts
  <2> QED
    BY <2>1, <2>2, Idles
<1>2. CASE Command
  BY <1>2, KeepsCommand
<1>3. CASE Work
  BY <1>3, KeepsWork
<1>4. CASE Environment
  BY <1>4, KeepsSetup, KeepsUser DEF Environment
<1> QED
  BY <1>1, <1>2, <1>3, <1>4 DEF Next

LEMMA Always ==
  Spec => []Inv
<1>1. Init => Inv
  BY InvInit
<1>2. Inv /\ [Next]_vars => Inv'
  BY InvNext
<1> QED
  BY <1>1, <1>2, PTL DEF Spec

(* Every variable keeps to its type, whatever the folders and the builds     *)
(* (the fields of Inner, downloads.rs).                                      *)
THEOREM DownloadsTypes ==
  Spec => []TypeOK
<1>1. Inv => TypeOK
  BY Typed DEF Inv
<1> QED
  BY <1>1, Always, PTL

(* On Windows the image shown as verified, and the image a setup has leased, *)
(* has the bytes of its release as long as it is shown or leased: the handle *)
(* that was opened before the bytes were read goes to the lease without ever *)
(* being closed (HeldIso, verify_and_retain, complete, verified_lease).      *)
THEOREM DownloadsHoldTheImage ==
  Spec => []HeldIsImage
<1>1. Inv => HeldIsImage
  BY DEF Inv, Keeping, HeldIsImage
<1> QED
  BY <1>1, Always, PTL

(* A file of the user is written over only when it is the target the user    *)
(* agreed to replace, found damaged and unchanged since, or was written      *)
(* after the last comparison (replacement_candidate, replace_download,       *)
(* export_image_with_replacement).                                           *)
THEOREM DownloadsReplaceDamage ==
  Spec => OnlyDamagedIsReplaced
<1> DEFINE A == \A d \in Dirs :
                  /\ job' # job
                  /\ files[d] # NoFile /\ files'[d] # files[d]
                  => \/ files[d].version > job.seen
                     \/ job.target = Target(d) /\ files[d].content # "image"
<1>1. Inv /\ [Next]_vars => [A]_vars
  <2> SUFFICES ASSUME Inv, Next, NEW d \in Dirs,
                      job' # job, files[d] # NoFile, files'[d] # files[d]
               PROVE  \/ files[d].version > job.seen
                      \/ job.target = Target(d) /\ files[d].content # "image"
    OBVIOUS
  <2>1. Persist
    BY DEF Next, Command, Work, Environment, disk, Resolve, StartDownload, ReplaceDownload,
           CancelDownload, set_destination, PickImage, BeginImport, reuse_testing_image,
           Resolved, StartImport, Look, Inspect, Verify, Compare, Confirm, Download,
           Fetch, Save, Copy, LastCheck, Retain, Reread, Complete, Failed, Import,
           testing_iso_digest, Imported, TakeSource, verified_lease, SetupEnds,
           UserDeletes, UserWrites
  <2>2. d = job.dir /\ job.target # NoTarget /\ job.pc = "persist"
    BY <2>1 DEF Persist, Inv, TypeParts
  <2>3. job.target.dir = d /\ job.target \in Targets
        /\ (files[d].version > job.seen \/ files[d].version = job.target.version)
    BY <2>2 DEF Inv, Replacing, TypeParts, Jobs
  <2>4. CASE files[d].version = job.target.version
    <3>1. job.target = Target(d)
      BY <2>3, <2>4 DEF Target, Targets
    <3>2. files[d].content # "image"
      BY <2>2, <2>3, <2>4 DEF Inv, Replacing, Damaged
    <3> QED
      BY <3>1, <3>2
  <2> QED
    BY <2>3, <2>4
<1> QED
  BY <1>1, Always, PTL DEF Spec, OnlyDamagedIsReplaced
=============================================================================
