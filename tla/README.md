# A formal model of the Omarchy installer

The TLA+ modules in this directory model the parts of the installer that are
hardest to test: the desktop and its elevated helper, which run changes to disks on
behalf of a user who may stop them at any moment; what the helper does with
providers, drives and records; the download of the image; the staged installer
that survives restarts; the BitLocker reminder; the Apple companion; and the crash-safe
operation journal. TLC checks them on small instances and TLAPS proves the theorems of the
`*_proofs` modules for every value of the constants. Paths below are relative to the repository; files named
without a path are in `apps/desktop/src-tauri/src/`.

## 1. Inventory

| Component | State it keeps | Operations | Interacts through |
|---|---|---|---|
| Desktop commands (`setup.rs`) | `Inner`: snapshot (status, stage, `cancel_available`), `cancel`, `writer`, `operation`, staged review, USB review token | `inspect_setup`, `prepare_setup`, `prepare_bitlocker`, `inspect_usb_choice`, `review_usb_setup`, `start_setup`, `cancel_setup`, `respond_staged_review` | one mutex; one worker thread per operation; events to the window |
| Helper session (`setup.rs`) | `Setup.session`: an `Option<Session>` behind a mutex | `start_admin_session`, `acquire_session`, `exchange` | pipes to the helper; `Connection.alive` |
| Background disk check (`setup.rs`) | `Check`: status, writer, operation, generation | `staged_background_check`, `request_stop`, `finish_check` | tries the session mutex; yields to a foreground operation |
| Elevation (`elevation.rs`) | the pipes or the socket, the child, `alive` | `launch`, `accept` | a watcher thread clears `alive` |
| Elevated helper (`setup_helper.rs`) | `Running`: operation, cancellation flag, answers channel; `Watched.broken`; the operation's workspace | `serve` (reader thread, main loop), `run_request`, `execute`, `confirm_reviewed` | frames; provider processes |
| Provider runner (`provider_process.rs`) | child, reader threads, cancel file, deadlines | `run_provider` | stdout events, abort frames, a cancel file |
| Media writer (`providers/media-etcher`) | the approved drive, the open device, how far it is | inspect, lock, write, verify, end, abort | stdin and stdout frames; the block device |
| USB preserve (`usb_preserve.rs`) | the files of the drive: image, configuration, loader, backup, record | `inspect_plan`, `install_files` | the drive's file system, which others use too |
| Operation records and cleanup (`operation_records.rs`, `operation_cleanup.rs`) | the operation's workspace, a records file opened by the desktop | export, `finish`, removal | the file system; a question to the desktop |
| Provider runtime (`provider_runtime.rs`) | the packaged tools copied for an operation | copy and verify | the workspace |
| Download jobs (`downloads.rs`, `iso_source.rs`) | the current job and image, cancel flags, the handle that holds the image | resolve, start, cancel, replace, select, lease | `crates/release-client`; the user's folder; the setup |
| Release download (`crates/release-client`) | lock file, resume pointer | `download` (resume, transfer, verify, authenticate, promote) | the download cache, HTTP |
| Download cache (`crates/downloader`) | partial files with their state, verified artifacts | `begin`, `resume`, `append`, `finalize`, `discard`, `lookup` | file system |
| Apple setup (`apple_setup.rs`) | its own snapshot, connection and record of a run | every intent of the client, crash recovery | pipes to the companion; excludes the other setup |
| Apple companion (`providers/direct-apple`, `BridgeServer`) | one task, the published state, a lease of the machine | commands, events, end of input | pipes; an upstream installation session |
| Staged ISO provider (`providers/staged-iso`) | partitions, firmware entries, `state.json` per operation | `stage`, `arm`, `resume`, `cleanup` | disks, firmware, BitLocker, the next boot |
| BitLocker reminder (`providers/windows-bitlocker`) | a record, a program and a task per volume, a lock | registers, suspends, asks at sign-in, resumes, retires | the staged installers' summary, Task Scheduler, BitLocker, an event of the app |
| Journal (`crates/journal`) | log file, two anchor slots, `ReplayReport` | `create`, `open`, `append` | file system |
| Libraries no program links (`crates/domain`, `ipc`, `media-writer`, `catalog`, `device-policy`, `diagnostics`, `provider-contract`) | pure state machines, trackers and decisions | transitions, accept, decide, sanitise | none |
| Direct installation (`providers/direct-*`, image builder) | what is on disk | platform scripts | never started: `check_destination` refuses it |
| Frontend (`apps/desktop/src`) | a view of the snapshots | commands | Tauri |
| Packaging (`scripts/`) | none at run time | build | none |

What is hard: the desktop's threads share one session and one snapshot; Stop
arrives at any point of an operation, on another thread than the one that
registers what to stop; a session is reused, so frames of two operations pass
through one pipe; either process may die while the other waits; a helper must
not outlive its purpose, nor stop half way through a change; drives are pulled and
swapped between a look and a write; another program writes the file that was just
compared; a script is cut off between a change of the disk and the record of it, and its
successor runs after a restart, on a machine the firmware has rewritten; native work
goes on after the process that began it has died; the journal must be readable after a
power loss at any write; and a download, stopped or spoiled anywhere, must neither show
wrong bytes nor refuse every retry. `PROJECT.json` lists each hazard with its line and
the properties that cover it.

What makes each component correct:

- **Session and helper.** Operations run one at a time. Nothing is changed that
  was not approved, nor after a Stop that came before the approval. A Stop that
  was accepted is not lost. Every frame is read by the operation it was written
  for. A background check never delays a change. Operations and checks end;
  abandoned helpers exit.
- **The helper's operation.** No drive but the approved one is written, and nothing
  before the approval; success is reported of what is really there; a drive that boots
  the installer has everything it needs, and its old loader is saved; the record of a
  finished USB is in one place or the other; a script that changes disks is never killed; a Stop ends.
- **Desktop commands.** What the window shows agrees with what runs; only what is
  listed can be started, only the reviewed request is written, once, and not after a
  Stop; the two setups exclude one another.
- **Downloads.** Nothing is visible or returned but the release's image, an
  interrupted transfer can be resumed, and a retry succeeds at last; an image shown as
  verified stays the image while it is held, and of the user's files only a damaged one
  is replaced, on request.
- **Staged installer.** What it allocates is recorded before, a removal deletes only its own
  partitions and ends when repeated.
- **BitLocker reminder.** A pause an installer made is owed a reminder until it is over or given up, and
  is shown again; protection is not resumed while an installer waits; a reminder that is over goes.
- **Apple setup.** Native work whose outcome is unknown stays on record, and there is one at
  a time; every accepted action ends.
- **Journal.** Acknowledged records survive, the anchor never names what is not
  synced, an open journal can be reopened, and no event appears in it that was
  not committed.

## 2. Modules and plan

| Modules | Component | Abstract specification | Proofs |
|---|---|---|---|
| `HelperSession` | session, background check, the helper's `serve` | `SetupPromise` | `HelperSession_proofs` |
| `SetupState` | desktop commands and their threads | `ReviewPromise` | `SetupState_proofs` |
| `ProviderRun`, `MediaWrite`, `UsbPreserve`, `HelperOperation` (each extends the one before) | one operation of the helper, with the provider's process, the media writer, the files of the drive, the workspace and the records | | `HelperOperation_proofs` |
| `Downloads` | download jobs, held image, lease | | `Downloads_proofs` |
| `ReleaseDownload` | release client and download cache | | `ReleaseDownload_proofs` |
| `AppleBridge`, `AppleSetup` (extends it) | the Apple companion and its client | | `AppleSetup_proofs` |
| `StagedIso` | staged ISO provider | | `StagedIso_proofs` |
| `BitLockerReminder` | the BitLocker reminder, its window and its users | | `StagedIso_proofs` |
| `Journal` | journal | `JournalPromise` | `Journal_proofs` |

`HelperSession` has a helper whose operation is `Prepare`, a confirmation and an apply;
`HelperOperation` is that operation in full, with one desktop that answers and stops.
`SetupState` reads of the helper only what its threads read. `Downloads` stands on
`ReleaseDownload`, whose result it takes as "the image, or an error". The modules `MC...` only
add the symmetry sets and constraints of the runs.

Not done yet, most important first:

1. the staged provider's way back: growing the shrunk partition again, the details of a shrink,
   the layout hash;
2. the ipc crate's replay guard and operation tracker, which the desktop does not use yet.

## 3. HelperSession

### What it models

Four actors: the window's main thread (`Begin`, `Stop`, `BeginCheck`,
`ReplaceCheck`, `Leave`); the worker threads of the foreground operation (`"fg"`)
and of the background check (`"bg"`), whose places in `run_elevated`,
`staged_background_check` and `exchange` are `pc`; the startup thread of
`start_admin_session` (`AskAdmin`, `AdminAnswered`); and every helper process
with a reader thread (`Accept`, `Disconnected`) and a main loop (`Take` to `Exit`),
whose place is `main`. They share the session mutex (`lock`, `session`), the
snapshot (`active`, `available`), the registration used by Stop (`stopped`,
`fgWriter`, `fgId`, `bgWriter`, `bgId`) and the pipes (`toHelper`, `toDesktop`).

| Module | Code |
|---|---|
| `active` | `Setup::active`: status `inspecting` or `running` |
| `stopped`, `fgWriter`, `fgId`, `available` | `Inner.cancel`, `.writer`, `.operation`, `snapshot.cancel_available` |
| `check`, `bgWriter`, `bgId` | `Check.status`, `.writer`, `.operation` |
| `lock`, `session`, `alive` | `Setup.session`, `Connection.alive` |
| `running`, `cancel`, `answers` | `Running` of `serve`: the registration, its flag and its channel |
| `broken` | `Watched.broken` |
| `keeps` | `KEEP_SESSION`, which differs between builds: a behaviour has one of the values in `KeepSession` |
| `Register`, `ReadEvent`, `ReadAsk`, `AnswerAsk`, `ReadEnd`, `ReadClosed` | `exchange`, in the order of its loop |
| `Release` | dropping the session guard, with the session unless it ended normally |
| `Prepare`, `Answered`, `Unanswered`, `Apply`, `Applied` | `execute` and `confirm_reviewed` |
| `Clear`, `Report` | the end of the main loop's turn |
| `approved`, `stoppedAt`, `applied` | history, read by no guard |

Frames are records with a type, an operation and the few fields that a decision
depends on. Events and confirmation requests carry no operation ID in the code;
theirs exists only for the property `OwnFrames`.

Left out: what a provider does to a disk, the content of a plan, the protocol's
version checks, and the automatic `source_lease` confirmation, which precedes the
plan and is answered without the user. The generation number of `finish_check` and
the ID comparisons of the reader on cancels and answers are kept where they decide
something; with FIFO pipes and `Begin` resetting `cancel_available` they never refuse
anything, and are defence in depth. The window refuses to close during an operation;
`Leave` stands for that process being killed as well, at any time.

### Runs

| Run | Instance | What it shows |
|---|---|---|
| `helper_session` | 2 changes, 1 check, 2 helpers, `Window` 1, both builds | all the safety properties, and `SetupPromise` |
| `helper_session_live` | 1 change, 1 check, 2 helpers, `Window` 0, sessions kept | `OperationEnds` (of operations and checks), `HelperLeaves` |

Two changes are what it takes for one operation to meet what another left in a
session, two helpers for a helper to be replaced while the old one still runs.
Each ID is used once (`used`), as IDs are random; this bounds a behaviour to three
operations. `Window` bounds how many unread frames a progress event may queue
behind: with 1, an event is still unread when the operation ends or asks.
`Stop` is not repeated while the last one is unread. `helper_session_live` uses
`Window` 0 for its size: events then wait until the pipe is drained, which
removes no way of being stuck, as events change nothing but `cancel_available`.
Deadlock is not an error: the IDs run out and every process may have ended.
`helper_session` has sessions that are kept (Windows) and that are not.

The properties: `OwnFrames` (reuse of a session: whatever an exchange reads was sent for
its own operation, a session nobody holds is at rest, and the helper reads no request
while an operation is registered), `StopIsKept`, `CheckYields`, `ChangeIsWatched` (of a desktop that is there; a
helper whose desktop is gone is what `HelperLeaves` is about); the refinement `KeepsPromise` maps the session to
`SetupPromise` with `current` the foreground's operation, `left` the end of the desktop and
the history variables. `OneWorker` and `OnlyApproved` (which `KeepsPromise` implies) are proved and not
run.

### Fairness

`FairSpec` assumes that a thread that can run does (`WF` of each step of the workers
and of each exchange, of the reader and of `Advance`); that a mutex waited for is
obtained at last if it is free again and again (`SF` of `Acquire`: the check's
thread only tries it); that a prompt or dialog shown to the user is answered
(`WF` of `Reply`; in the helper a confirmation also ends by its 15 minutes,
`Unanswered`). An apply ends because each provider run has a deadline. Commands,
deaths, progress events and the watcher's `Noticed` are not owed.

## 4. HelperOperation

### What it models

One operation of the elevated helper, from its request to its answer, in four modules of
which each extends the one before:

- `ProviderRun`: `run_provider`. Its loop (`loop`) looks for a Stop, receives what the reader
  thread heard, and waits for the child; the child (`child`, `said`) may print a result, an error,
  frames that break the protocol or bytes that are none, fall silent, or end at any time. A
  Stop reaches a run by the cancel file, by an abort frame with a hard stop three seconds later
  (`hardStop`), or not at all: `mode` is the set of arguments the helper calls it with. Progress
  events change nothing and are left out.
- `MediaWrite`: the physical worker of `providers/media-etcher`. `slot` is the USB port, `image`
  what each drive holds, `handle` the drive behind the open device, `writer` how far the
  worker is. The port changes up to `MaxSwaps` times, between any two steps.
- `UsbPreserve`: `inspect_plan` and `install_files` of `usb_preserve.rs`. `stick` is what each of
  the files that count holds, `plan` what the user approved, `step` the place in `install_files`.
  A step that creates a file may leave it torn, and a file that was written and flushed without an error may
  still be torn on the drive. The backup, the configuration and the staged loader are read back
  (`WriteChecked`), the record is not (`WriteNew`). `Found` has no torn record: the inspection of a drive that has one is
  refused. `ForeignLoader` is another program that installs its own loader, `MaxForeign` times.
- `HelperOperation`: `execute`, `run_request` and `confirm_reviewed` of `setup_helper.rs`, with
  `operation_cleanup.rs`, `operation_records.rs`, `provider_runtime.rs` and the gate of
  `direct_install_policy.rs`. An operation is the list `Steps(op)`, which names the calls of
  `execute` in their order; `files` is what its workspace holds, `records` the file the desktop
  opened for them. Every step can fail, and a Stop (`Stop`) may come at any time; it also stands
  for a desktop that is gone.

`Init` has the states a request can arrive in: an operation for which the build matters has both
builds, the drive's files vary only where they are read (`op = "usb_preserve"`, see `Found`),
and a lease exists only where the desktop can hold the image. The direct operations
(`Retained`) are refused by `check_destination` before a workspace exists, so their steps are
not listed. A helper that dies is in `HelperSession`.

### Run

`helper_operation`: every kind of operation, `MaxFrames` 2, `MaxSwaps` 2, `MaxForeign` 1, `FairSpec`. Two frames are
a completion record and anything that contradicts it; two swaps replace the approved drive and
bring it back; one foreign loader can come before or after ours. A listing prints a result or
fails; what else a child can print is left to the other runs, to keep the instance small.
It shows

- `OnlyApprovedIsChanged`: no other drive is ever written, and nothing before the approval,
  though the device is opened by a path that names whatever is plugged in;
- `SuccessIsReal`: success means that the child was believed for good reason, that the image is
  on the drive, or that image, configuration and loader are;
- `ActivationIsSafe`: a drive that boots the installer has a whole image and configuration, the
  loader it booted before is saved whole, and a record has been written that names it, if it can be read,
  whatever failed and whichever files were torn;
- `RecordsSurvive`: the record of a finished USB is in the workspace or exported;
- `StopEnds`: a Stop ends the operation, even when the media writer hangs.

`ToolsStay`, that a provider's program is not removed while it may run and that no script is
killed, is proved and not run.

### Fairness

The helper's own steps (`WF` of `HelperStep`); a question ends by itself after 15 minutes
(`SayNo`); a hard stop that is due is carried out though the loop goes round (`SF` of `Kill`); a
script that is no media worker ends (`ScriptEnds`). The last one is an assumption about the
PowerShell scripts, which are never killed, and about listings, which have neither a
Stop nor a time limit (section 14). Nothing is assumed of the media writer.

## 5. SetupState

### What it models

The commands of `setup.rs` and the threads they start. Commands run one after another
on the window's main thread, but a command may hold the mutex of `Inner` more than
once, and other threads come in between: `prepare_bitlocker` takes its snapshot
(`PrepareBitLocker`) and begins later (`BeginBitLocker`); `start_setup` builds its
request (`StartUsb`, `StartDirect`), takes the review (`TakeReview`) and begins
(`BeginStart`). `command` says where such a command is; while it is in progress no
other command starts. All other commands hold the mutex once and are one action.

| Module | Code |
|---|---|
| `snap` | `Inner.snapshot`: what the window shows |
| `destinations`, `pending`, `cancel`, `sender` | `Inner.destinations`, `.usb_review`, `.cancel`, `.staged_review` |
| `held`, `previous` | the `previous` of `prepare_bitlocker`, in the command and moved into its thread |
| `thread[n]` | the thread of the n-th operation: its place in `run_elevated` and `exchange` |
| `lock`, `session` | the session mutex, and whether the helper behind it lives |
| `startup` | the thread of `start_admin_session` |
| `apple` | `AppleSetup`'s busy state, for `other_setup_active` in both directions |
| `image` | `verified_source` of the downloads |
| `windows` | the conditional compilation of the commands |
| `begin` | `Setup::begin` |
| `inventory`, `Compatibility`, `Complete`, `Restore`, `record_failure` | what a thread writes at its end |
| `stopped`, `refused`, `told` | history, read by no guard |

`begin`, `Spawn` and the finishing steps are shared by all operations, as in the code.
The choices of an inventory carry its number (`list`), which stands for the IDs that a
new inventory gives its choices; a plan is what an inspection found of a drive.

Abstracted or left out: the pipes, Stop's frame and the background check, which are
in `HelperSession` (here the helper is what the thread reads from it); the contents of
receipts, messages, stages and steps; the choice of a partition size and the typed confirmation of a
deletion, which are checks of the command's own arguments; `staged_reopen`, which
writes a registry entry; a second confirmation of an operation other than a USB write.
The image is read in the same step as the command that needs it. A message to a review
whose thread has gone is dropped (`RespondReview`), as the channel's is.

`Impatient` says whether `prepare_bitlocker` may be called while an operation is
active. The command itself does not test this, but the window offers it only
when none is; see Findings. It is TRUE in `setup_usb`, whose properties do not need it, and
FALSE in `setup_state`, whose `OperationEnds` does.

`ReviewPromise` is what the review of a USB write promises: a drive is written only by
the request shown last, while it is good, and one review starts one write.
`KeepsReviews` maps `shown` to the pending review while it has not expired, `taken` to the
request of the start in progress or of the thread that writes, and `approved` to the
answer that thread gave the helper.

### Runs

| Run | Instance | What it shows |
|---|---|---|
| `setup_state` | both builds, all operations, 3 of them, 2 inventories, 1 review, `FairSpec` | `CancelledWasAsked`, `ReviewIsLive`, `OperationEnds` |
| `setup_usb` | both builds, 3 operations, 2 plans, 2 images, 2 reviews | `ShownIsPending`, `KeepsReviews`, `StopWithdraws`, `SetupsExclude` |

Three operations let one meet what the one before last left in the snapshot: an
inventory, a check of one of its drives, and a start. Two inventories make
`destinations` and the shown choices differ if one of them is not renewed; two reviews
make an old token meet a new one, and two plans and images make two requests for one
drive differ. One drive is enough, since a request names its drive and nothing
compares two. The runs stop after `MaxOps` operations, so deadlock is not an error.
`windows` is the build, fixed in the initial state to one of those in `Windows`: the macOS
build keeps no session, offers no BitLocker, no staged installs and no startup prompt, and
has the Apple setup that `SetupsExclude` is about.

### Fairness

`FairSpec` makes a command in progress go on (`Continue`), each operation's thread run
(`Work`, `Finish`) and the startup prompt be answered (`AdminAnswered`), since it holds the
session. `Work` includes that the helper reports or its pipe ends: that it does is what
`HelperSession` shows. Dialogs are answered by the user; a staged review ends after 15
minutes (`ReviewEnds`).

## 6. ReleaseDownload

### What it models

`download_with` of `crates/release-client` over the cache of `crates/downloader`, for
one release. Each process of `Procs` is a copy of the installer that may call
`download` again and again; `pc` is its place in the call. The directory outlives
every call:

| Variable | Code |
|---|---|
| `partial`, `stateFile` | `partials/<token>.part` and `.json` |
| `pointer` | `release-<digest>.resume` |
| `artifact` | `artifacts/<digest>`, the file linked there |
| `lock` | the exclusive lock on `release-<digest>.lock` |
| `token`, `hashed`, `body` | the `DownloadSession` with its streaming hash; a full-body response is at hand |
| `data`, `synced` | the blocks of each file, right or wrong, and how many a power loss spares |
| `rotten`, `faults` | history and bound |

A file keeps the token it was created under, so a hard link is the same file under
another name. A digest or a signature holds exactly if every block is right
(`Whole`, `Authentic`); a signature error on right bytes is a `Fail`, which keeps the partial as
the code does. Every change of the directory is one step: creating the partial,
creating and writing its state, creating and writing the pointer, linking,
unlinking. What can go wrong, each counted by `faults`: the user cancels, a file
operation or request fails, the process is killed, the machine stops (`PowerLoss`:
the unsynced tail of a file is missing or comes back as other bytes), the server
sends wrong bytes, a short body or the whole image instead of a range, a cached
file cannot be read, or a file is damaged while nobody uses it.

Left out: changes to names (create, link, unlink) are taken to be durable in the
order they are made, as the code syncs no directory. Damage during an attempt is
excluded by the lock (`Damage`); on Windows the code also denies others write
access while it reads. A release is fixed: a partial of another release has
another pointer, as pointers carry the digest.

Two things seen in the code and kept in the model, neither of which breaks a
property: the partial and state of a session that its pointer no longer names
are never removed (the comment at line 715 says so), and a process killed between
the link and the cleanup leaves all three names behind for good, as the next
attempt returns at the cache hit; and any error of `lookup`, so a read error too,
counts as an invalid entry and removes a good artifact, which is downloaded again.

### Run

`release_download`: 2 copies, 6 tokens, 2 blocks, 4 mishaps, `FairSpec`. It shows
`VisibleIsWhole`, `SessionIsResumable`, `CancelPreserves`, `ReturnedIsWhole` and
`RetryDelivers`.

Two blocks are an image that can be partly received; four mishaps combine, for
instance, a wrong block, a power loss in the middle of a promotion, a damaged file and a
cancelled retry. An abandoned partial takes its token for good, and each is the work of a
mishap, so `MaxFaults` + 2 tokens never run out. Tokens are random in the code and nothing
compares them but for equality; the action constraint `LeastToken` of the run therefore lets
a new session take the least free one, which stands for all of them.

### Fairness

`FairSpec` makes each copy go on with its attempt and start another one after it
(`WF` of `Attempt`); nothing that goes wrong is owed, and after `MaxFaults` of them
the network and the disk work. This is the promise the comment on
`session.verify` makes: a retry starts a new transfer.

## 7. Downloads

### What it models

`downloads.rs` with `iso_source.rs`. The commands of the window (`Resolve`, `StartDownload`,
`ReplaceDownload`, `CancelDownload`, `set_destination`, `PickImage` and its import,
`reuse_testing_image`), each one critical section of `Inner` unless the code has more; the worker
of the current job, whose place is `job.pc` (`Look` to `Failed`, `Import` to `Imported`); a setup
that takes the image and its lease (`TakeSource`, `verified_lease`, `SetupEnds`); and the user, who
writes and deletes files in the same folders between any two steps.

A file is its content and a version; the version stands for what `ReplacementTarget` compares
(identity, size and times), and every write of the user changes it. `Held` is `HeldIso`: on
Windows a handle that denies writing and deletion. What the release client does inside is
`ReleaseDownload`. `build` is the build, `Testing` the feature that reuses an image without
reading it. The cached length and digest measurements are not modelled: they save reading,
not a decision.

### Run

`downloads`: 2 folders, both systems, with and without the feature, `MaxWrites` 2, `FairSpec`.
Two folders let the destination change under a job; two writes change a file before and after it is
looked at. It shows `HeldIsImage` (an image shown as verified or leased to a setup is the
release's, for as long as it is), `OnlyDamagedIsReplaced` and `JobEnds`. Between
the last comparison and the rename the user may still write, and `OnlyDamagedIsReplaced` says
that this is all that can be lost. A job may go on for ever on no
server that answers; `FairSpec` (`WF` of `Work`) assumes that HTTP and file operations end or fail,
which their time limits see to. Nothing is owed by the user.

## 8. StagedIso

### What it models

The scripts of `providers/staged-iso`, step by step: `Invoke-StagingWrite` (`StageBegin` to
`Registered`), `Invoke-StagingArm` (`ArmBegin` to `Selected`), `Invoke-StagingResume` and
`Invoke-StagingCleanup` (`CleanBegin` to `Deleted`), with the firmware functions of
`NativeStaged.cs`. One script runs at a time, under the machine-wide mutex (`job`, `pc`); `boot` is the
name of the firmware entry it has in memory. What outlives it: the two partitions of each
installer (`part`), the firmware's entries, order and `BootNext`, and `state.json`
(`record`).

`current` is `BootCurrent`: `Home` for the entry Windows was installed with, a slot if the firmware has put its own
entry there and started Windows by it, `NoSlot` if the firmware does not say. A write and a selection begin only if
Windows was started by an entry of the boot order (`Inspected`). `RemoveStagingBoot` clears `BootNext`, the order and
the entry, each only while the slot is free or still ours (`Unhook`); it lets a reused slot pass (`Unhooked`); and it throws
(`UnhookRefused`) if Windows was started from the recorded slot or the firmware does not say from where, which it tests
first, or if the order has no other entry. The script then ends and everything stays recorded.

Between any two steps the script may be cut off (`Stops`: a throw, a Stop, a kill or a power loss,
in one action) or the machine restarted. Then the firmware may drop, reuse or list entries, which
it does at no other time; another system may be started, and put its boot files on the temporary
EFI partition (`Adopt`); someone may delete or change a partition, and
resume BitLocker (`Protect`). Each of these counts as one of `MaxFaults`.

An entry is the operation whose partition it starts; the description the
firmware may rewrite decides nothing. Left out: growing the shrunk partition back and the sizes of a
shrink, the layout's hash and the checks of other partitions, Secure Boot, mount directories, which entry of the order is Windows'
own (`Inspected` asks only that it is one of the order), and `summary.json` (it follows the record). The reminder is
`BitLockerReminder`; here it is `Protect` and the resume in one step.
BitLocker may be resumed by the user or the reminder while files are hashed before a selection;
the code does not look again, and no property speaks of it.

### Runs

| Run | Instance | What it shows |
|---|---|---|
| `staged_iso` | 1 operation, 2 firmware slots, 6 mishaps, `FairSpec` | `PartitionsAreRecorded`, `DeletesOnlyOwn`, `RemovalEnds` |

Two slots are what it takes for an entry to move; six mishaps cut off a write, a selection and a
removal and leave three for the firmware and others. TLC visits 686,642 states. One operation at a time is under way in the
run; the theorems are about any number.

### Fairness

A running script goes on (`WF` of `Step`); the user asks again and again for the removal (`SF` of
`CleanBegin`), and the machine starts again (`WF` of `BootOther` and of leaving the other system, `SF` of
`BootWindows`). After `MaxFaults` nothing goes wrong any more. `RemovalEnds` excepts partitions
that have changed hands, which the code refuses for good, and a firmware that leaves `RemoveStagingBoot` nothing to do but
throw (`HookBlocked`): Windows is started from the recorded slot, or nobody knows from where, or no other entry is in the order. The code
refuses these as often as it is asked, until a restart or the user changes them. A refusal from which the next removal
could go on is not excepted.

## 9. BitLockerReminder

### What it models

For each volume: what Windows says of it (`volume`), the reminder's record, the copy of its program and its
task (`reminder`, `worker`, `task`), and the per-volume `operation.lock` with the step its owner is at
(`lock`, `place`). Three parties use it. A staging, or the reminder the user asks for, registers
(`Prepare` to `TaskAdded`: an earlier reminder is closed and its task removed, the program
is replaced, the record is armed, the task registered and read back), suspends protection (`Disable`) and writes the receipt
(`Receipt`). The app resumes the volumes an installer has paused (`BeginResume` to `Resumed`). The window
starts with its task after a sign-in (`FollowUp`): it retires what is over, stays quiet for what the app's
card covers, or is shown with the choices `View` computes at that moment, and the user resumes, declines or closes
it (`Confirm`, `Decline`, `Close`). `Enable`, `Verified` and `Remove` are `Resume-OwnedProtection`, for the window
and the app alike.

| Module | Code |
|---|---|
| `reminder`, `Decision` | `state.json`, `Get-FollowupDecision` |
| `Paused`, `View`, `Quiet` | `Get-FollowupOffer`, `Get-FollowupView`, `Test-AppFollowupOpen` with `Test-AppCoversVolume` |
| `installer`, `Waiting` | what `summary.json` says of each staging operation, `Test-StagedInstallerWaiting` |
| `running`, `op`, `todo` | the helper's script and the volumes it has not dealt with; scripts of the staging provider exclude one another by the machine-wide mutex, the window does not |
| `app` | the app is open and holds the named event of `startup.rs` while it lists a pause |
| `ours` | history: the suspension in force is an installer's |

The plan's list of protected volumes is compared again before the suspension; the model takes both at once, and
a change in between is the failure of the script (`JobFails`). What the staging does besides is `StagedIso`;
selection and removal are one step each here. One Windows account uses the machine: a record of another account is
refused before anything is done. Locked volumes, drive letters and the identity of a volume are left out, as
every mismatch ends in a refusal that changes nothing.

### Runs

| Run | Instance | What it shows |
|---|---|---|
| `reminder` | 1 volume, 2 installers, 3 mishaps, `FairSpec` | `PauseIsOwed`, `ResumeYields`, `ReminderRetires`, `PauseIsShown` |

A mishap is a script or a window that is cut off, a task that cannot be registered, or a change of BitLocker by the user.
The second installer finds the pause of the first in force and must neither adopt it nor lose its reminder. One volume
is enough for the properties, each of which speaks of one: volumes meet only in the job, which takes them one after the other
and ends as a whole, at any moment (`JobFails`). Two volumes with liveness do not fit the time of a run; the
safety properties are proved for any number. Sign-ins are not
bounded.

### Fairness

The user signs in again and again (`WF` of `SignIn`), and not always just before the reminder has looked or removed what
is over (`SF` of `FollowUp` and `Remove`): each takes seconds, a minute after the sign-in. No click and no job is owed:
what a staging or an open window holds is freed by the next sign-in.

## 10. AppleSetup

### What it models

`AppleBridge` is `BridgeServer` of `providers/direct-apple`: each companion process (`bridge[b]`) with its
pipes, the one task it runs, what it last published and the machine-wide lease. The installation
session it drives is outside the repository; only the phases it can be in are modelled. `run[b]` is a
history variable: the plan whose native work `b` began and whose outcome the desktop does not know.

`AppleSetup` is `apple_setup.rs`: `app` is what its lock protects, `act` the thread of the accepted
intent (`Connect` to `End`, every step of `perform`, `call` and `execute`), `conn` the connection with its reader and its
waiting thread, and `marker` the record on disk. Companions may refuse, fall silent, die and outlive the desktop,
which may crash (`Crash`, with `Launched` after it).

A request made of a state that is no longer current is refused by its revision and changes
nothing; those are left out. `close` is one step. A state frame that comes late may show a
cleared plan again, for display only; `available` is not cleared by a failed call; and no code removes the
record once an outcome is unknown. Two desktops at once are not modelled.

### Run

`apple_setup`: 1 plan, 2 companions, 1 crash of the desktop, `FairSpec`. The second companion is what a restarted
desktop meets while the first still works. It shows `RunsAreRecorded` (native work whose outcome
was never heard is on record, and never two at a time) and `CallsEnd` (every accepted action
ends, whatever the companion does). One digest is enough for both, as a plan is compared with itself only.
Fairness: threads run (`WF` of `Thread`, `Reader`), and a companion that lives and is not stuck on the
user serves (`WF` of `Serves`).

## 11. Journal

### What it models

One handle on one journal: `Create`, `Open`, `AppendEvent`, `Close`, and
`FileStorage::commit` write by write: the log is appended (`WriteLog`) and flushed
(`FlushLog`), the slot of the new anchor is truncated (`TruncateSlot`), written
(`WriteAnchor`) and flushed (`SyncAnchor`, after which `append` returns). `PowerLoss`
may strike anywhere: of what is not flushed any prefix of the lines survives, with
perhaps part of a line, and each slot is new, old or damaged. `Fail` is an I/O
error at any of the writes; the caller may then drop the handle, or use it again, which
the crate's interface allows. The history variable `faults` tells the behaviours apart:
`"none"`, `"errors"`, or `"reused"` once a handle was used again after an error.

A record's hash is its number: distinct records have distinct hashes, as SHA-256
is assumed to have no collisions and records differ in their timestamps. `Replays` and
`Opens` are `replay_inner`, with the chain, the order of sequence numbers, the
lifecycle (`Allowed`) and the size limit (`Limit` records for 64 MiB). A new file is
assumed to keep its name after a power loss; the code does not sync directories.

### Runs

| Run | What it shows |
|---|---|
| `journal` | `AckedIsKept` and `ReadyReopens`, until a handle is used again after an error; `NothingUncommitted` and `JournalPromise`, whatever happens. `ReadyReopens` includes that, without an I/O error, one of the two slots always anchors what was acknowledged |
| `journal_torn` | violation of `LineBeforeAnchor`, see Findings |

Both have two steps, two outcomes, a `Limit` of 6 records and `MaxRecords` 5. Two steps and
two outcomes let checkpoints of different steps interleave and ends compete; five records
(start, a failed or lost one, three more) let both slots be written twice. The size limit is
not reached: what happens there is described under Findings. A behaviour stops after
`MaxRecords`, so deadlock is not an error.

## 12. What is proved

`HelperSession_proofs` proves, for any sets of operations and helpers,

- `SessionTypes`: `Spec => []TypeOK`;
- `SessionHasOneWorker`: `Spec => []OneWorker`;
- `SessionChangesApproved`: `Spec => []OnlyApproved`;
- `SessionOwnsItsFrames`: `Spec => []OwnFrames`;
- `SessionWatchesChanges`: `Spec => []ChangeIsWatched`;
- `SessionKeepsStops`: `Spec => []StopIsKept`;
- `SessionChecksYield`: `Spec => []CheckYields`;
- `SessionKeepsPromise`: `Spec => KeepsPromise`, the refinement of `SetupPromise`.

So every safety property the session's run checks is proved; what stays with TLC is its liveness.

`TypeOK` is not inductive. A worker reads `session` when it sends, reads or releases, so
a session must exist wherever a worker holds the lock; that needs the agreement
between `lock`, `pc`, `op` and `active` (`Workers`), which is also what makes
`OneWorker` hold. In the helper, the operation a main loop serves must be a real
one wherever it is used (`MainLoops`). The invariant `Inv` is the conjunction of the
typed parts (`DesktopTypes`, `LinkTypes`, `HelperTypes`, `HistoryTypes`) with these
two; each is preserved by one lemma per group of actions.

None of the other properties is inductive: each depends on frames that are still in a pipe. Three more
invariants say where they are.

- `Safe` follows an operation from the desktop to the helper. The registration, the request passed on and
  the operation at work agree (`Loops`); an operation is asked of one helper, once, and its request is its
  first frame (`Tidy`); what is sent was drawn (`Ids`), and Stop writes to the helper that has the operation
  (`Writers`); a yes in a pipe, in a channel or acted upon is one the user gave (`Willed`); and an operation that
  was stopped before its approval cannot get past it, because the Stop is ahead of any approval in the
  pipe, the flag is set, or the operation is ending (`Halted`). `OnlyApproved` follows.
- `Talk` follows the frames back. A session nobody holds, or that is about to be used, is at rest (`Rests`);
  an exchange reads frames of its own operation, the outcome last, because its helper owes nothing else (`Owns`);
  a plan is asked about once, and is begun only after that (`AsksOnce`); an approved operation that is not over
  is the one the window waits for (`Watches`). With `Joined`, which says that a helper that could not
  write is not the session any more, `OwnFrames` and `ChangeIsWatched` follow, and each step maps to a step
  of the promise: `Begin` to `Start`, `Stop` to `Stop`, `AnswerAsk` to `Approve`, `Apply` to `Apply`,
  `Finish` to `End`, `Leave` to `Leave`, and any other to a stutter.
- `Hears` says where a Stop is: in the pipe, in the flag, or that the operation it names is over (`Heard`),
  for the foreground operation and for a check alike. The background check that holds the session when an
  operation waits is no longer `"running"`, as `StopCheckFirst` came first. `StopIsKept` and `CheckYields` follow.

`Journal_proofs` proves, for any steps, outcomes and limits,

- `JournalTypes`: `Spec => []TypeOK`;
- `JournalKeeps`: `Spec => [](AckedIsKept /\ (faults # "reused" => LineBeforeAnchor))`; `AckedIsKept`
  makes the same exception;
- `JournalReopens`: `MaxRecords <= Limit` gives `Spec => []ReadyReopens` (the premise is needed: `append`
  does not check the limit that `load` enforces);
- `JournalOpensCommitted`: `Spec => NothingUncommitted`;
- `JournalKeepsPromise`: `Spec => KeepsPromise`, the refinement of `JournalPromise`.

Their invariants are three. The first, `Kept`, adds that a handle's entries are the acknowledged ones and the
first lines of the log, that the file has no partial line while a handle is
usable (`Handle`), and that every anchor on disk or in a slot counts synced lines
only (`AnchoredIsSynced`), which is what makes `Open` safe. On top of it, `Sound` says that the slots
alternate (`Alternating`), that an open handle's report replays (`Whole`), that the record being committed
continues it (`Continued`), and that the report stays anchored in the slot the commit leaves alone
(`Anchored`); `Steady` adds what is on disk while the machine only ever stops. This is why a handle reopens.
Both end where a handle is used again after an error. The third, `Committed`, does not: the log agrees
with what was acknowledged, or has a synced line that no replay gets past (`Lines`), and an anchor counts
at most one line that was not acknowledged (`Offers`). A journal that opens replayed all its lines, so it
agrees; the refinement follows, as what is acknowledged grows by a record that `Continues` it.

`ReleaseDownload_proofs` proves, for any number of copies, tokens, blocks and mishaps,

- `DownloadTypes`: `Spec => []TypeOK`;
- `DownloadStreams`: `Spec => []StreamIsFile`;
- `DownloadShowsTheImage`: `Spec => []VisibleIsWhole`;
- `DownloadResumes`: `Spec => []SessionIsResumable`;
- `DownloadReturnsTheImage`: `Spec => ReturnedIsWhole`;
- `DownloadCancelPreserves`: `Spec => CancelPreserves`.

The argument: only the holder of the lock is past it (`Holder`), so two attempts are
never past it together (`Alone`), and a step of one leaves every file alone while
another is past the lock (`Bystander`). What an attempt knows of its own file (`Own`)
is therefore preserved by looking at its own steps only (`KeepsOwn`). While it
streams, no artifact is visible (`NoEntry`), so nothing that is written is part of
one; and what is linked was found to be the image and is synced as a whole.

`Downloads_proofs` proves, for any folders, any builds and any number of writes by the user,

- `DownloadsTypes`: `Spec => []TypeOK`;
- `DownloadsHoldTheImage`: `Spec => []HeldIsImage`;
- `DownloadsReplaceDamage`: `Spec => OnlyDamagedIsReplaced`.

`HeldIsImage` holds because the handle is never given up on the way: a job that verifies or has
found the image holds its folder (`Working`), what is shown as verified is held by the lease, and
a setup's lease is of its release (`Keeping`). `OnlyDamagedIsReplaced` rests on versions: every
write of the user has one of its own (`Versions`), so a target that was once found damaged
(`Damaged`) is either still that file or no file any more, and after the last comparison a newer
file is one written since (`Replacing`). Steps are sorted by shape: the worker advances
(`Advances`), a job begins (`Starts`), or an image becomes known or unknown (`Rests`).

`SetupState_proofs` proves, for any drives, plans and images, any number of operations,
inventories and reviews, both builds and both values of `Impatient`,

- `SetupTypes`: `Spec => []TypeOK`;
- `SetupHasOneOperation`: `Spec => []OneOperation`;
- `SetupsNeverMeet`: `Spec => []SetupsExclude`;
- `SetupShowsItsReview`: `Spec => []ShownIsPending`;
- `SetupStops`: `Spec => StopWithdraws`;
- `SetupKeepsReviews`: `Spec => KeepsReviews`, the refinement of `ReviewPromise`;
- `SetupReviewIsLive` and `SetupCancelledWasAsked`: `~Impatient` gives `Spec => []ReviewIsLive` and
  `Spec => []CancelledWasAsked`.

The last two need the premise: see `Impatient` in Findings. They stand on a second invariant, `Told`: an answer and an
outcome are given once, late in a thread (`Answering`); the snapshot `prepare_bitlocker` puts
back was shown at rest (`Putting`); a flag of Stop, a no and a declined prompt are the user's (`Asked`).

The argument is that a thread runs only while the snapshot is active and that it is
the thread of the last operation (`LastRuns`); so a command that finds no active
operation knows that no thread exists to undo what it does. None of the properties is
inductive alone. A command between its critical sections must still find things as it
left them (`Commanding`: no operation and no Apple setup began since); the snapshot that
`prepare_bitlocker` restores must have no review, and none may be shown while it runs
(`Restoring`), or `ShownIsPending` would fail at its end; a Stop must imply that the flag is
set (`Stopping`) for `StopWithdraws`; and a running write must have a request (`Placed`)
for the refinement. Actions are sorted by shape: a step that moves a thread
(`WorkShape`), ends one (`FinishShape`), starts one (`StartShape`), or does none of these
(`QuietShape`); one lemma shows that each action has its shape, and the invariant and the
refinement are proved of the shapes. `Counted` bounds the inventories: one that is
being taken is one the bound allows.

`StagedIso_proofs` proves, for any operations, firmware slots and mishaps,

- `StagedTypes`: `Spec => []TypeOK`;
- `StagedIsRecorded`: `Spec => []PartitionsAreRecorded`;
- `StagedDeletesOnlyOwn`: `Spec => DeletesOnlyOwn`.

Neither property is inductive. That a partition is allocated only after its record
says so, and that a record is closed only after both partitions are gone, is a fact about the place
of the script, not about its state on disk: `Safe` (theorem `StagedSafe`) says for each step which
statuses the record of the running operation may have, that a removal has found no foreign boot files and
keeps that knowledge until it deletes (nothing adopts a partition while the script runs, as another
system would have ended it), and what a cut-off script leaves. Actions are sorted into those of the scripts, which
the running operation's part of `Safe` is about, and those of the machine, which end the
script or leave its operation alone.

It also proves, of `BitLockerReminder`, for any volumes, installers and mishaps,

- `ReminderTypes`: `ReminderSpec => []ReminderTypeOK`;
- `ReminderPauses`: `ReminderSpec => []Pauses`, the inductive invariant;
- `ReminderOwesPause`: `ReminderSpec => []PauseIsOwed`;
- `ReminderResumeYields`: `ReminderSpec => ResumeYields`.

`PauseIsOwed` is not inductive: nothing in it keeps a preparation from taking away the record, the program or the
task of a pause that is in force, or a resume that found protection on from removing what a later pause stands on.
`Pauses` says three things of each volume. `Claims` says who is at which step: a step is taken under the lock,
only a job that stages or reminds prepares, only one that stages suspends, and a job resumes only while no installer
waits. `Persists` says what the preparation has made by each step, so that the record, the program and the task
exist before the suspension. `Owes` adds to the property that a volume whose pause is an installer's
is in Windows' view paused, that a preparation gets no further with it than its first look (`Eligible` refuses a paused volume), and that whoever removes the reminder does so of a volume that owes nothing
or whose user declined. TLC found `Pauses` to hold on one volume with two installers and on two volumes with one before
it was proved. `Left` says what a step leaves of another volume, so each step is looked at for its own
volume only (`PauseElsewhere`); the end of a job and the machine's steps are the cases that touch several.
`ResumeYields` follows from `Claims`.

`AppleSetup_proofs` proves, for any plans, any number of companions and of crashes,

- `AppleTypes`: `Spec => []TypeOK`;
- `AppleRecordsItsRuns`: `Spec => []RunsAreRecorded`.

`RunsAreRecorded` speaks of work that was begun; to be inductive it must also cover work
that is asked for and not yet begun. `Flying(b)` is either, and `Recorded` says that at most one companion is
flying and that the record names its plan. A companion has one request, one task or one reply
(`Single`), and while nobody waits for a reply of the connected companion, it has nothing to do (`Talking`):
so a request that is sent meets no older one. The thread that submits found no record, made one,
and takes it away only when it has heard the outcome (`Submitting`, with `Placing` for where a thread can be
with which request). Steps are sorted by shape: a companion serves (`Served`), or the whole
moves and no companion takes up new work by it (`Calm`); `Keeps` and `CompanionsKeep` prove the invariant of the shapes.

`HelperOperation_proofs` proves, for any drives, any number of frames, swaps and foreign loaders,

- `OperationTypes`: `Spec => []TypeOK`;
- `OperationChangesApproved`: `Spec => []OnlyApprovedIsChanged`;
- `OperationSucceedsReally`: `Spec => []SuccessIsReal`;
- `OperationActivatesSafely`: `Spec => []ActivationIsSafe`;
- `OperationKeepsRecords`: `Spec => []RecordsSurvive`;
- `OperationKeepsTools`: `Spec => []ToolsStay`.

The program of an operation is its list of steps, so the invariant is about the list that is left
(`Lawful`): every change in it comes after a review, or the user has agreed (`Guarded`); each
script it runs is one the operation brought along (`Equipped`); and what success promises is
in place or still on the list (`Has`). `StepsLawful` shows this of the list of each operation that is not refused,
and `KeepsAdvances` that every step that ends keeps it. `Busy` ties a run, a question and the writer to
the step at the head. `Heard` relates what the loop remembers to what the child
said, `Aimed` says that an open device which is written to is the approved drive, and `Placed` which files are in
place at each step of an installation: from the step that records the backup on, the backup is whole and is the
loader that was planned for, and the record is that of the backup or torn.

The assumptions on constants are `OpsAssumption`, `JournalAssumption`,
`DownloadAssumption`, `SetupAssumption`, `NoRequestAssumption`, `DownloadsAssumption`,
`NoAnchorAssumption`, `StagedAssumption`, `ReminderAssumption`, `DrivesAssumption`, `MaxSwapsAssumption` and `MaxForeignAssumption`; no proof needs
`BridgeAssumption`, `MaxCrashesAssumption` or `MaxFramesAssumption`. They say that model
values differ and bounds are numbers.

Only model-checked: liveness (`OperationEnds`, `HelperLeaves`, `StopEnds`, `JobEnds`, `RetryDelivers`,
`CallsEnd`, `RemovalEnds`, `ReminderRetires`, `PauseIsShown`), which is beyond the prover. Every safety
property that a passing run checks is proved.

## 13. Findings

- `journal_torn`: `append` returns the error of a failed commit and leaves the handle
  usable. If the write left part of a line, the next `append` completes that line,
  publishes an anchor and is acknowledged, but no line of the log holds its
  record and the journal cannot be opened again
  (`crates/journal/src/lib.rs:688`; the comment at line 343 promises a complete line).
  The desktop does not use the journal crate yet, so it touches no user today.

Other things were seen in the code while modelling, on which no run is spent:

- when the firmware has reused the recorded slot, selecting the installer writes the entry into a free
  slot, and `state.json` learns the new name only afterwards (`providers/staged-iso/Staging.ps1:725`
  and 726). Cut off in between, a removal looks at the recorded slot, finds it reused and returns without
  error (`NativeStaged.cs:211`), and both partitions are deleted while the entry in the new slot
  remains, though `providers/staged-iso/README.md:172` says "Owned storage is deleted only
  after firmware cleanup succeeds". It starts nothing, as its files are gone. `StagedIso` has this
  behaviour (`Restore`, cut off before `Restored`);
- while an installer waits, the reminder's window shows its button that ends the reminder disabled, since
  "this reminder is the one that later says to resume protection, so it can't be stopped then"
  (`providers/windows-bitlocker/BitLockerSetup.ps1:295`). That is decided when the window is made. A
  window that has been open since sign-in lets the user end the reminder although an installer has been
  staged or selected again meanwhile; the click looks at the volume again (line 368) and not at the
  installers, unlike the click on Resume (line 358). The pause then has no reminder. `BitLockerReminder` has
  this behaviour (`View`, `Decline`);
- a removal of an installer whose recorded slot the firmware has reused is refused if Windows was started from that
  slot: `RemoveStagingBoot` looks at `BootCurrent` first (`NativeStaged.cs:209`) and only then returns without error for a
  reused slot (line 211). `providers/staged-iso/README.md:169` says that cleanup "refuses a reused slot or the current boot source": of
  the reused slot the code refuses only this case. The storage stays until Windows is started by
  another entry. `StagedIso` has this behaviour (`UnhookRefused`), and `RemovalEnds` excepts it (`HookBlocked`);
- `install_files` writes and flushes `record.json` and, unlike the three files beside it, does not read it back
  (`usb_preserve.rs:800`). A record the drive has torn does not keep the loader from being activated. The old loader is
  saved, but the next inspection of the drive refuses it (line 419), so a later preparation needs the user to
  remove the record. `HelperOperation` has this behaviour (`Record`);
- `append` does not compare the log with `MAX_JOURNAL_BYTES`, which `replay_inner` enforces, so a
  journal can grow to a size it is refused at (`crates/journal/README.md:20`: "A valid active
  journal is resumable");
- `prepare_bitlocker` takes the snapshot that it restores before `begin` and without looking at its
  status (`setup.rs:1043`). Called while another operation is about to end (`Impatient`), it would
  restore that operation's active status, and nothing would end it. The window does not offer the
  command then;
- the snapshot that `prepare_bitlocker` restores includes the administrator state
  (`setup.rs:1065`), so an answered startup prompt may be shown as open again;
- nothing clears that state when the helper exits between two operations, so the window goes on
  showing administrator access as ready; the comment at `setup.rs:81` says "none before
  asking or after the helper went away";
- `inspect_usb_choice` does not go through `begin` (`setup.rs:1113`): it keeps the staged
  target and the steps of an earlier operation, unlike what the test
  `each_operation_starts_without_the_previous_steps` says of each operation, and the flag
  of the last Stop, so that a failed check reads "cancelled"; `CancelledWasAsked` leaves the checks
  out for this reason (the model has the flag, not the steps);
- the workspace of a BitLocker reminder is never removed, though `execute` asks for it: the
  records its script keeps in it (`encryption-*.json`) are not among the files
  `remove_completed_workspace` knows;
- the reminder cannot tell a pause of its own from a later one: if the user resumes protection in
  Windows and pauses it again before the next sign-in, the record is still unfinished and the new
  pause is offered as the installer's, though `BitLockerSetup.ps1:224` says that only a pause the
  installer made can be resumed there. The user confirms it;
- `state.json` of a volume stays with the account that prepared it first:
  `Register-EncryptionReminder` refuses another account before it looks whether the record is
  finished (line 138), so that a second administrator cannot prepare a protected volume.

Each is small, or out of the window's reach: a wrong word in the window until the next operation, a directory, an entry
or partitions that stay, a drive that is refused.

## 14. What is not modelled

`PROJECT.json` gives every component a status and a reason. Not modelled for good: the libraries that no
program of the repository links (domain machine, IPC contract, media-writer crate, catalog, device policy,
diagnostics, provider contract), the direct installation, which is refused before it starts, packaging,
presentation, HTTP and platform commands, which are I/O or formatting. What the plan names
is not modelled yet.

Hazards the code has and no property covers, with the reason:

- The listing of drives is a child with no Stop and no time limit (`setup_helper.rs:1613`). A listing
  that never ends keeps the operation active; the models assume that listings end.
- `usb_preserve.rs:820` compares the boot file by its hash and then replaces it by its path. What another
  program writes there in between is replaced without a backup. `HelperOperation` has this
  behaviour (`LookAtBoot`, `Replace`), and no property forbids it, since no document promises more than the comparison;
  `docs/usb-preserve-implementation-2026-09-07.md:78` disclaims an atomic rollback after a power loss as well, so the drive's
  files are modelled with failing steps and not with lost writes.
- The window of the reminder reads whether an installer waits and resumes protection a moment later, outside the mutex of the
  staging scripts (`BitLockerSetup.ps1:358`). An installer that comes to wait in that moment finds protection active, and its
  next selection refuses (`Assert-StagingEncryption`).
- The stale states listed under Findings (`setup.rs:1109` and 1807, `Staging.ps1:725`, `BitLockerSetup.ps1:368`): they are
  what the code does.
