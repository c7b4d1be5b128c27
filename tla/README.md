# DiskWiper in TLA+

A verification development of DiskWiper (`src/`), a Windows program with a Qt window that
overwrites whole physical disks, one job per disk, and keeps a history of the jobs in SQLite.
The modules are written from the Python source. TLC checks them on small instances; TLAPS
proves the safety properties for instances of any size.

Contents: [1 The system](#1-the-system) · [2 Modules](#2-modules) · [3 Runs](#3-runs) ·
[4 Proofs](#4-proofs) · [5 Where code and documents differ](#5-where-code-and-documents-differ) ·
[6 Abstractions](#6-abstractions) · [7 Not modelled](#7-not-modelled) · [8 Plan](#8-plan)

## 1 The system

### Threads and processes

| Who | What it does |
| --- | --- |
| GUI thread | event loop of `gui/main_window.py`: timers, clicks, dialogs; calls `JobManager.start`, `cancel_disk`, `drain_events`, `shutdown` |
| discovery thread (pool of 1) | `PowerShellDiskDiscovery.discover`, one at a time, killed after 30 s |
| worker threads (pool of 8) | `JobManager._run_job`, one per job, each calling one backend's `run` |
| benchmark and log export threads | read-only samples of a disk; a file copy |
| `diskpart.exe`, `powershell.exe` | child processes; the first survives its parent |
| SQLite | one connection and one transaction per history call |
| Windows and the user | disks come, go and change number; partitions and volumes change |
| a second DiskWiper | nothing prevents it from running on the same data directory |

### Components

| Component | State | Operations | What makes it correct | Model |
| --- | --- | --- | --- | --- |
| Job manager `wipe/manager.py` | `_active`, `_events`, the lock, the pool's queue; per job the cancel event and the last byte count | `start`, `cancel_disk`, `drain_events`, `shutdown`; `_run_job`, `report`, `_forget` in the workers | a disk number has one job; real wipes overlap only if all can; the end is stored before it is shown; every job is forgotten; closing waits for nobody | `JobManager` |
| Job history `history/database.py` | one row per job | `initialize`, `start_job`, `record_progress`, `finish_job` | COMPLETE and CANCELLED rows are true of the disk; closed rows are final; open rows have a worker; recovery closes the others | `JobManager`, `JobLedger` |
| Simulation backend `wipe/backends.py` | none | `run` | polls the cancel event, never more than its total | `WipeBackends` |
| DiskPart backend `wipe/backends.py` | `_policy`, the temporary script, the child process | `run`, `set_protection_policy` | the disk overwritten is the one revalidated, unless the number moves; COMPLETE is verified; protection is assessed as of now | `DiskPartWipe`, `BackendRun` |
| Native backend `wipe/native.py` | `_policy`, locked volumes, the raw handle | `run`, `set_protection_policy` | only the authorised disk is written, under locks that cover its layout; nothing stays open; protection is looked at twice | `NativeWipe`, `BackendRun` |
| Raw write loop `wipe/raw.py` | bytes written | `overwrite_with_zeros` | requests are aligned and end on the disk; counts are those of the disk | `RawOverwrite` |
| Windows access `wipe/win32.py` | handles | lock, open, write, flush, refresh, close | a short or failing call is an exception; clean-up never stops half way | `NativeWipe`, `RawOverwrite` |
| Main window `gui/main_window.py` | inventory, assessments, check marks, buttons, `_refresh_future`, `_policy`, `_progress` | `refresh_disks`, `_poll_background_work`, `_wipe_selected`, `_wipe_disk`, `_protect_selected`, cancel, close | a job is for the disk its dialog showed; no protected disk is offered; refreshing goes on | `MainWindow` (`JobManager` for events, cancelling, closing) |
| Confirmation dialog `gui/confirm_dialog.py` | the assessment, the typed serial number | open, accept, reject | accepts for the assessment it was made from | `MainWindow` |
| Discovery `disks/discovery.py` | none (a lock) | `discover` | a snapshot or an exception | `NativeWipe`, `MainWindow` |
| Protection policy `disks/protection.py` | rules | `assess` | any one rule protects | `ProtectionPolicy`; a set of protected disks in the other modules |
| Protected devices file `disks/protection.py` | a JSON file | load, `add_protected_stable_keys` | rules are only added; what was said to be protected is, after any failure | `ProtectedDevices`; one step in `MainWindow` |
| Domain models `domain/models.py` | none | statuses, fingerprints, normalisation | | `WipeBackends`, `ProtectionPolicy` |
| Program start `main.py` | none | load the rules or refuse to start, reconcile the history, create everything | | `ProtectedDevices!Launch`, `JobManager!Launch` |
| Preflight, read benchmark, configuration, logging, administrator check | none that a wipe depends on | | | not modelled, see 7 |

### What is hard

* `start` holds a non-reentrant lock across an INSERT, a submit and `add_done_callback`;
  workers and GUI share `_active` under it, the event queue and the history outside it.
* Any history write may fail, in the middle of a backend's loop too, and the exception then
  crosses the backend's `with` statements.
* The program may be killed between two history writes; `diskpart.exe` goes on.
* A disk number is an address: it is checked in one step and used in a later one.
* Dialogs run event loops of their own: the poll timer replaces inventory and table under the
  handler that waits for an answer.
* `protected_devices.json` is read, merged, written to one temporary name and moved, with no lock; each call may fail,
  the program may be killed after any of them, and another copy of it or the user's editor may be at the same file.
* Progress is throttled, so what an error or a crash leaves in the history is older than the disk.

`PROJECT.json` lists these at their lines under `hazards`, with the properties that watch them.

## 2 Modules

```
WipeBackends --+-- JobLedger          what the history promises
               +-- JobManager  ------ implements JobLedger
               +-- BackendRun         what the manager expects of backend.run
               +-- NativeWipe  ------ implements BackendRun (Kind <- "native")
               +-- DiskPartWipe ----- implements BackendRun (Kind <- "diskpart")
RawOverwrite                          the zero loop in bytes
ProtectionPolicy -- ProtectedDevices  assess; the file of rules
MainWindow                            inventory, table, dialogs
MC*           instances for TLC       *Proofs   theorems and lemmas
```

**WipeBackends** has the constants of the three backends (capability flags) and, as operators,
the order in which each `run` reports, polls and writes: `Stages`, `ReportingStages`,
`ReportOf`, `AfterReport`, `AfterChunk`, `MayStaySilent`. A disk is `Size` chunks; `Null` is
Python's `None`.

**JobManager** is the GUI thread's calls of the manager, the workers, the pool and the history.
`start` is three actions, since it is where other threads get between: `Start` (checks and
INSERT), `Submit` (pool and `_active`), `Register` (`add_done_callback`; `RegisterFinished` if
the future is already finished). The lock is held while `gui` is in between; every other user of
it takes it for one step (`LockFree`). A worker is `Take`, `Accept`, then backend steps
(`Report`, `StaySilent`, `Poll`, `Write`, `Fail`, `Complete`), `Finish` (store), `Publish`
(queue), `Resolve` (the future is finished) and `Forget`. `Recorded`/`Announce` are the two
halves of `report`: store, then queue. Every storing step has a disjunct in which SQLite fails.
`Launch`, `Crash` and `Exit` are the process: its variables are reset, `rows` and `wiped`
survive, `Reconciled` is the UPDATE of `initialize`. `OrphanWrite` is a `diskpart.exe` without
a parent, `LaunchOther` the recovery run by a second copy. `unrecorded` and `atCancel` are
history variables no action reads.

**JobLedger** is the abstract history: rows open, move forwards through the phases, and are
closed once, by the job with a true statement about the disk or by recovery when nobody works
on them. `JobManager!Ledger` is the refinement mapping: a row's status, the jobs whose end is
not stored yet, the chunks written.

**BackendRun** is the worker's side of that contract for one call of `run`; **NativeWipe** is the
native backend in full. Its actions are the calls of `run` in order: the gates, two rounds of
`Discover`/`Check` (`_revalidate`, `_validate_test_target`, `_lockable_volume_paths`), `Lock` and
`Locked` (`LockedVolumes`), `OpenRaw`, `Probe`, the reports, `Poll`/`Write`/`NextChunk`
(`overwrite_with_zeros`), `Flush`, `UpdateProperties`, the two `__exit__` as `CloseRaw` and
`Unlock`, and the discovery and `Confirm` of `_verify_completion`. `Fail` raises at each place
that may raise, and `AfterError` says which `with` statements are still to be left. Around it
the machine: `Unplug`, `Plug`, `Vacate`, `Repartition`, and from the GUI thread `Protect` and
`SetCancel`. A discovery is a snapshot (`seen`) used in later steps.

**DiskPartWipe** is the default destructive backend. `run` in order: `Report` PREPARING, `Discover` and `Check`
(`_revalidate`), `WriteScript`, `Report` WIPING, `Launch`, `AcceptExit`, `Discover` and `Confirm` (`_verify_completion`),
`Unlink` (the finally clause); `Leave` is a result or an exception on its way through it. In between the child process:
`Select` takes the disk that has the number at that moment, `Clean` a chunk, `ExitOk`, `ExitFailed`. The machine is that of
`NativeWipe` without volumes and handles. `moved` is a history variable: the number changed hands between the look and `Select`.

**ProtectionPolicy** is `assess` as the set of its reasons, over disks that are records of what discovery reports. A rule is a
list of the file with a value; `NormalRule`, `Loaded` and `KeyRule` are the normalisations of loading and of the fingerprint.

**ProtectedDevices** is the file, the temporary file and any number of copies of the program: `Launch` (`main` loads the
rules or refuses to start), `Protect` (the confirmed click), `Load`, `Open`, `Write`, `Replace` and `Apply` are the calls
of `_protect_selected` and `add_protected_stable_keys` in order; `GiveUp`, `SaveFails` and `Unlink` the ways they fail, `Exit` a
kill at any step, `Edit` the user with an editor. Two history variables: `told`, the disks a copy has loaded or reported as
protected, and `racing`, the copies whose save overlaps another's or an edit; what a racing save takes out of the
file, or an edit, is withdrawn from `told`.

**RawOverwrite** is the loop in bytes: `_validate_geometry`, `min(chunk, remaining)`, the length
check and the short and failing writes of `WindowsRawDisk`, the flush, and the throttled
`progress` of the native backend. Geometries need not be consistent: validation has to find out.

**MainWindow** is `_assessments` with the table (`rows`, `checked`, `busy`), the discovery in
flight (`refresh`, `found`), the policy (`protected`), the manager's `_active` (`jobs`) and the
open dialog with what its handler holds: the assessment shown (`offered`), the numbers left over
(`rest`), the disks asked about (`asked`). `Poll` is `_poll_background_work` with
`_apply_inventory` and `_render_table`; a timer tick that only drains events is `Repaint`, a step of
its own because jobs may end between the two halves. `WipeSelected`/`WipeButton` run up to the
first dialog, `Accept` from its answer up to the next dialog or the end of the loop,
`ProtectSelected` and `Protect` are the two sides of the question. While a dialog is open, only
timers and other threads move. `wanted` and `replaced` are history variables.

## 3 Runs

| Run | Instance | States | Shows |
| --- | --- | --- | --- |
| `jobs` | 2 jobs, 2 disks, 2 threads, DiskPart and native, 1 chunk, 2 launches, symmetric in jobs and disks, `atCancel` hidden by a view | 2.0 M | exclusion of numbers, overlap of real wipes, closing; open rows have workers, closed rows are final, the history is a `JobLedger` |
| `cancel` | 1 job of any backend, 3 chunks, 2 launches, a second copy | 33 k | terminal statuses and byte counts are true; a cancel costs one chunk at most; ends are stored before they are shown, and prevail over a second copy's INTERRUPTED |
| `liveness` | 2 jobs sharing one thread, fair | 247 k | jobs are run and forgotten, stored ends are shown |
| `native` | 3 disks (1 twin of the target, 1 other), 2 numbers, 2 partitions, 2 chunks, fair | 143 k | what a native run may overwrite, holds, returns; protection; it ends; it is a `BackendRun` |
| `diskpart` | 3 disks, 2 numbers, 3 chunks | 73 k | which disk diskpart.exe may overwrite, what COMPLETE and a protection are worth; it is a `BackendRun` |
| `raw` | every geometry with sizes 0–9, sectors 0–2 and 0–4, chunks 0–6, interval 3 | 48 k | requests, bytes on the disk, results and reports |
| `window` | 3 disks, one of them shifting, 2 numbers, wipes that exclude each other, fair | 1.1 M | what dialogs do with an inventory replaced under them; refreshing goes on |
| `rules` | 2 copies of the program, symmetric, 2 disks that may be wiped, a serial number of one to type by hand, in another spelling | 1.4 M | promises are kept, a save drops nothing |
| `self_deadlock`, `lost_end`, `orphan`, `native_swapped` | 1–2 jobs, or 2 disks | until violated | see section 5 |

Why the bounds are enough to be interesting. Two jobs are what exclusion, overlap, the queue and
closing relate (a third one among the real jobs of `RealOverlapIsParallel` is the business of `OverlapsParallel`); with one thread (`liveness`) the second is queued, with two (`jobs`) both run. Two disk numbers let
them collide or not. Two launches are one crash and the recovery after it, which reads nothing
but the rows. One chunk has a first and a last look at the cancel event; three have a first, a
middle and a last chunk, reported or not. In `native` a twin and a non-twin tell the identity
check from the geometry check, a lockable and an unlockable partition tell the layouts apart, and
two numbers let disks swap. In `diskpart` the target, its successor under the number and a third disk can take any two
places; three chunks put a step before, between and after the writes. In `rules` two copies race each other and the editor,
a second disk is the rule that a save could drop, and the hand-typed serial number the one that must be normalised to protect. In `raw` the sizes include 0, inconsistent geometries, an odd
last request and physical sectors larger than logical ones. In `window` three disks on two
numbers let any two swap and the third take a place, and each discovery may find the flags, bus and letters of one of them
changed (`Shifting`); wipes exclude each other, as with DiskPart, the default backend (the proofs have any `Shifting` and either backend). Each property has a mutant in `PROJECT.json`, a
plausible slip in a modelled definition that makes that run fail.

Deadlock is checked in `native`, `diskpart`, `rules` and `window`. The job manager's instances stop when every job id is used and
the last launch is over, and `raw` stops when the loop has returned, so there it is not.

### Fairness

* `JobManager.Fairness`: each worker thread is scheduled; the GUI thread goes on inside a call and the poll
  timer fires (`Drain`). Nobody has to start, cancel, close or crash. SQLite answers, with success or an
  error (30 s timeout). For a DiskPart job it is assumed that `diskpart.exe` ends, as `subprocess.run` has no timeout.
  The liveness properties make an exception of a process that dies and of a blocked `start` (`Stopped`).
* `NativeWipe.FairSpec`: weak fairness of the run as a whole; Windows answers every call.
* `DiskPartWipe` and `ProtectedDevices` state no fairness: `subprocess.run` has no timeout, so a DiskPart run need not end, and
  nothing in the file's code waits for anybody.
* `MainWindow.FairSpec`: weak fairness of the refresh timer, of the poll timer (a modal dialog keeps an
  event loop running) and of the discovery, which is killed after 30 s. Users need not answer.

## 4 Proofs

`tlapm` checks every step. The constants are arbitrary: any number of jobs, disks, numbers,
worker threads and launches, any subset of the backends, any size, with or without a second
instance unless said otherwise. The assumptions are those named in the modules (types of
constants, `Null` not a job, disk or number).

| Module | Theorems | Argument |
| --- | --- | --- |
| `JobManagerProofs` | `TypeCorrect`, `DisksExcluded`, `OverlapsParallel`, `CloseIsQuick`, `CancelIsPrompt`; `WorkersNeverStall`, `JobsRunDown`, `OneDiskPartPerLaunch` | see below; `Expected`, `Fitting`, `Restarts` |
| `JobHistoryProofs` | `CompletionsReal`, `CancellationsIncomplete`, `BytesNotOverreported`, `EndsRecordedFirst`, `OpenRowsLive`, `FinishedRowsFinal`; `EndsAreNotOvertaken`, `OpenEndsAreFailedWrites` | on top of it, `History` |
| `JobRefinementProofs` | `ImplementsLedger`; `InterruptedWithoutCopy`, `WorkersKeepTheContract` | `OtherInstance = FALSE`; `DownTracked`, `PhasesTracked`; for the contract only `NotesOpen` |
| `NativeWipeProofs` | `NativeTypeCorrect`, `StraysOnlyUnlocked`, `LocksCover`, `NothingLeftOpen`, `NativeCompletionsReal`, `ProtectionHolds`, `ImplementsBackendRun`; `NativeRunsDown`, `OnlyTargetWithoutTwins` | `Holding`, `Outcome`, `Counting`, `Pinning` |
| `DiskPartWipeProofs` | `DiskPartTypeCorrect`, `DiskPartStrays`, `DiskPartCompletionsReal`, `DiskPartProtectionHolds`, `DiskPartImplementsRun`; `DiskPartRunsDown` | `Outcome`, `Pointing`, `Writing`; `Shielded` |
| `ProtectedDevicesProofs` | `RulesTypeCorrect`, `RulesPromisesKept`, `RulesNothingDropped`; `RulesOnlyProtect`, `KeysAreExact`, `RulesInForce` | `Ready`, `Saving`, `Applied`, `Told`; `NormalInForce` |
| `RawOverwriteProofs` | `RawTypeCorrect`, `RequestsSound`, `ZeroesCounted`, `EndsExact`, `ReportsBounded`; `LoopRunsDown`, `LoopCountsChunks` | `Checked`, `Progressing`, `Counted`; `WholeChunks` |
| `MainWindowProofs` | `WindowTypeCorrect`, `BusyOfferNoWipe`, `JobsAgreed`, `ProtectedSpared` | `RowsAreAssessed`, `OfferIsAgreed`, `RestIsWanted` |

**JobManager.** None of the properties is inductive. `OneLiveJobPerDisk` speaks of workers, but `start`
looks at `_active`; so `Tracking` says that every worker from its place in the queue to its
finished future is in `_active`, that the queue holds each queued job once, and that `start`
works on one job; `Exclusion` and `Overlap` are then stated of `_active`, and of the job `start` is about to add.
`Overlap` is the point of `RealOverlapIsParallel`: `start` compares the newcomer with *one*
active real job, which suffices only since all of them are known to be parallel-capable as soon as there are two.
`Accounting` relates the stage of a run to the chunks written and to `last`; `Cancelling` says
that between the look at the event and the chunk nothing more is written.

**Nobody waits for everybody.** `SomebodyMoves` (`WorkersNeverStall`) is what remains of `SubmittedJobsAreForgotten` without fairness: while a job is in
`_active` and nobody holds the lock, the worker of one of these jobs can take its next step. `MayStep` spells the guards of that
step out: a free thread for the head of the queue, the lock for `_forget`, a report, poll, chunk or end otherwise. Two invariants are
needed. `Expected`: every job in `_active` is queued, busy, about to be forgotten, or the one `start` is still working on, so no entry is left without a
thread that removes it. `Fitting`: the stage of a running job is one of its own backend, so its run always has a next step. The rest is a pool
argument: if no worker is busy then a thread is free, and the head of the queue can be taken. The other half is a variant: `Left(j)` is lowered
by every step of job j's worker, is raised by nothing but the job's submission, and is at most `6 * Size + 21` (`JobsRunDown`). That the scheduler
then really takes the steps is fairness, and stays with TLC.

**One `diskpart.exe` per launch.** `OneDiskPartPerLaunch` says that before the program is started a second time no two DiskPart jobs write, neither two that
run, nor one that runs and one left behind, nor two left behind. While the program is up it rests on `start`: two real jobs in `_active` would both have to be
parallel-capable (`Overlap`), which DiskPart is not, and every job that runs is in `_active` (`Tracking`), so at most one is DiskPart (`SingleWhileUp`). Once
it is down, `SingleDiskPart` carries that number over: `DiskPartJobs`, the jobs running or orphaned, only shrinks until the next
launch (`DiskPartJobsWhileDown`). `Restarts` says that nothing is orphaned in the first launch while the program is up.

**History.** `RowsTracked` says that while anybody may still write for a job its row is open or
INTERRUPTED (a second copy), `NotesHonest` that the progress a worker carries is true of the disk when it is
stored, `RowsHonest` and `WindowHonest` that it stays true: a COMPLETE or
CANCELLED job writes no more. `OpenTracked` gives every open row its worker.
`EndsHaveTheLastWord` is inductive on top of these: the last event in a job's queue, or what the window shows once the queue is empty,
equals the row once the worker has published its end. A report of the same job cannot come later, and the row cannot change (`FinishedRowsStay`); the only
thing that drops the word is a program that ends, and then the job is `gone`.

**Refinement.** `PhasesTracked` keeps row and stage in step, which is what the ledger's `Advance` and
`Close` ask for. It fails with a second copy of the program, and so does the theorem: recovery by another process interrupts
jobs that are worked on. The same invariant gives `InterruptedWithoutCopy`: while a worker has not stored its end its row is open, so nobody works on a job whose row says INTERRUPTED.

**The contract from both sides.** `ImplementsBackendRun` and `DiskPartImplementsRun` show that the two real backends take only steps of `BackendRun`;
`WorkersKeepTheContract` shows that the workers of `JobManager`, which stand in for any backend, take only steps of the same `BackendRun`, under any
interleaving, with `RunStage` and `RunResult` read off the job's variables. It holds with a second copy of the program too. That the
worker allows *every* step of `BackendRun` is a statement about ENABLED and is not proved: the actions correspond one to one
(`RunReport`/`Report`, `RunPoll`/`Poll`, `RunWrite`/`Write` and so on), and their guards are the same.

**NativeWipe.** `Holding` says which handles each step holds, `Counting` which disk has been written
how far, `Pinning` that a working lock on a volume of the target keeps its number from going to another
disk between the second revalidation and the opening of the raw handle. `ProtectionHolds` is proved with an invariant of
its own (`Shielded`): from a protected state before the second look the run cannot reach the loop.
`NativeRunsDown` is a variant: `Left` is at most `3 * Size + 21`, every step of the run lowers it or locks one more volume of a fixed set (`OneMoreLock`), and
nothing the machine does raises it. The way out through the with statements is the delicate part (`RaiseDescends`): an exception must never lead back to a
step that can raise again before it. `OnlyTargetWithoutTwins` turns `Counting` into the exact condition of `native_swapped`: the geometry check
is the last defence, and it is complete if no other disk has the geometry.

**DiskPartWipe.** `StraysAreRenumbered` speaks of what is on the disks; `Pointing` says that up to `Select` the number denotes
what was seen as long as it has not changed hands, `Writing` that the chunks counted are on the disk that was selected. The refinement has
a lemma of its own for results and exceptions (`LeaveEnds`). `DiskPartRunsDown` is the variant of `run()` and its child together: it bounds the steps,
not the time, since `subprocess.run` may wait for ever between two of them.

**ProtectedDevices.** Lemmas on the policy first: a disk is named exactly by a rule that is loaded (`NamedByLoaded`), loading what was loaded
and saved yields it again (`LoadedAgain`, from the idempotence of normalisation), a rule in the policy protects (`RuleProtects`).
`Saving` is the heart of the invariant: a copy that races nobody is the only one between load and move, so what it is about to save contains the file, and
the temporary file is gone or exactly what it wrote (`ReplaceKeeps`). `Ready` says that what is about to be saved protects what was promised and what was
asked, `Applied` bridges the step between the move and the new policy. Assumed of `normalize_identifier`: applying it twice changes nothing more.
`RulesInForce` adds that what is in force is always normalised and free of blanks (`NormalInForce`, kept through `LoadedTwice` and `LoadedWithKeys`), so that
a rule protects exactly what it names. `RulesOnlyProtect` and `KeysAreExact` are about the policy alone, for any disk and any policy: `Reasons` only grows with the
rules, and a fingerprint that is added is no reason against a disk with another one.

**RawOverwrite.** The lemmas `Quotient`, `Product`, `Sums` and `Multiples` give what is needed of remainders: if expected size and
chunk are multiples of the logical sector, so are offset and length of every request, the last one included.
`LoopRunsDown` is its variant, which rests on no request being empty (`LengthIsSound`). `LoopCountsChunks` justifies the unit of all other modules: with
`Chunks(n)` the rounded-up quotient and `WholeChunks` as invariant, every write is one chunk, nothing else is, and the loop ends exactly at `Total`, as
`AfterChunk` has it. The lemmas `Divided` and `OneMoreChunk` do the arithmetic.

**MainWindow.** The offer of a dialog is unprotected, and not barred by the discovery it comes from, because the rows it was taken from accord with the policy
(`RowsAreAssessed`) and the policy, which follows the file and may lose rules as well as gain them, cannot change while the dialog is open, the only way to it being another
dialog; rows keep the accord because `Protect` assesses the inventory of the moment, and a discovery that was in flight is
assessed with the policy of the moment it is applied (`AssessTypes`).

**Only model-checked**: the liveness properties (`SubmittedJobsAreForgotten`, `EndsAreShown`, `RunEnds`,
`RefreshGoesOn`), which need fairness and ENABLED, out of this prover's reach; and the violations of section 5. Their safety halves are proved, except for
`RefreshGoesOn`: `WorkersNeverStall` and `JobsRunDown` for the first, `EndsAreNotOvertaken` for the second, `NativeRunsDown` for the third. What TLC adds is that the
steps are taken. Nothing recursive is used.

The theorems after a semicolon in the table state what no run lists as a property: an invariant or an action property defined beside its proof. Each was first checked
with TLC on the instance of the run of its module.

## 5 Where code and documents differ

Each is a run that TLC ends with a counterexample, and a finding in `PROJECT.json`.

* `self_deadlock` (`GuiStaysResponsive`): a worker that ends before `start` reaches `add_done_callback` makes the callback
  run in the GUI thread, under the lock `_forget` asks for (`wipe/manager.py:105`). A first history write that fails is enough.
  `WorkersNeverStall` says that nothing else blocks a worker.
* `lost_end` (`EndedJobsAreClosed`): `finish_job` and the first `report` are outside the "defensive job boundary"
  (`wipe/manager.py:184,221`); if SQLite raises there, the row stays open and no event is queued.
  `OpenEndsAreFailedWrites` says that this is the only way.
* `orphan` (`OneDiskPartAtATime`): `diskpart.exe` outlives a killed program, and the next launch starts another (`wipe/backends.py:217`).
  `OneDiskPartPerLaunch` says that it takes the restart.
* `native_swapped` (`OnlyTargetIsWritten`): if the authorised disk has no volume to lock, nothing pins its number between the second
  discovery and `CreateFile` (`wipe/native.py:90`); a disk of the same geometry that gets the number then is overwritten.
  `WrongDiskOnlyUnlocked` says that this is the only way, `OnlyTargetWithoutTwins` that it takes a disk of the same geometry.
More, seen while modelling and without a run of their own:

* After a renumbering under the first dialog of "Wipe All Selected", the later dialogs offer disks nobody had selected (the user still has
  to type their serial number); `src/Manifest.md:1007` begins its rule with "User selected disk". It is the exception in `JobsAreAgreed`.
* A second copy of the program closes the row of a job that is running with the message "Application exited before the job reached a terminal
  state" (`history/database.py:66,71`), and the worker overwrites the row later. `InterruptedWithoutCopy` says that nothing else does this; that the
  worker's own end prevails, and is true of the disk, holds with a second copy too (run `cancel`).
* `DiskPartBackend` looks once, at `wipe/backends.py:185`, and `diskpart.exe` selects by number later; `StraysAreRenumbered` says that
  nothing but a number that changes hands in between sends the wipe to another disk, and `CompletionIsReal` that COMPLETE may then even be
  reported, if the authorised disk is back under its number and has no partitions.
* Two copies that protect disks at once: the later move drops the rules of the earlier one, although the docstring
  (`disks/protection.py:31`) says "without dropping existing rules", and the shared temporary name can leave a file that is no JSON, which the next
  start refuses. These are the exceptions (`racing`) in `PromisesAreKept` and `ProgramsDropNothing`, which therefore do not catch this; they say that a copy
  that races nobody keeps the docstring, and that a race harms nothing later.
* `_protect_selected` catches `OSError` only (`gui/main_window.py:493`); a file spoilt since the start raises `ProtectionConfigurationError`, and
  the click ends without a message (`GiveUp`). Nothing was promised, so no property breaks.
* A running copy never reloads the file: a disk protected in one window can be wiped from another one that was open before.

Exclusion of jobs is by number. A disk renumbered before its job has opened it may be given a second job; the first one then fails its
revalidation by number, or is the case of `native_swapped` and `StraysAreRenumbered`.

## 6 Abstractions

* Disks are counted in chunks, in `RawOverwrite` in bytes. Zero-filled buffers, alignment in memory and text are left out.
* Fingerprints are the disks themselves: two disks never have one fingerprint, and a fingerprint never changes.
* The window keys `_progress` by fingerprint; `shown` is kept per job, which distinguishes more. Events are a FIFO per job.
* `job_events` rows are written in the same transactions and never read; they are not kept.
* The backends of one session are two (simulation and one real); `JobManager` takes any mixture, the contract of its class.
* `submit` raising because no thread can be started is not modelled.
* NativeWipe assumes that Windows keeps a disk's number while a handle on it or on one of its volumes is open; this is
  external, and used in `Plug`, `Unplug` and `Vacate`. A discovery fails if both of its attempts do. Duplicate volume
  paths and a count that does not fit the partitions are failures of `checking`. `CloseHandle` that fails still closes.
  A short or failing write leaves its bytes uncounted (`RawOverwrite` has them).
* DiskPartWipe assumes of `diskpart.exe` that it exits with 0 only if every command of the script succeeded, and that after `select disk` it writes to that
  disk only. Its output is text and left out. The gates and the other reasons of the policy are failures of `called` and `checking`.
* ProtectedDevices assumes that a move replaces the file at once, that Windows refuses to move or remove a file that is open for writing elsewhere, and that
  a kill closes what was open. Two identities never have one digest; normalising a digest only changes its case, on both sides. A rule typed into the list `stable_keys` by hand is not modelled.
* `RawOverwrite`: a zero buffer that cannot be allocated is a write that fails; lengths are at most 16 MiB, so no DWORD overflows.
* `MainWindow`: a discovery may find any layout in which no disk has two numbers. All the reasons against a wipe that `assess` reads from the disk itself
  (boot, system, cluster and read-only flags, bus, critical letters, a missing identifier or size) are one flag, `barred`, which each discovery may find
  changed for the disks of `Shifting`; which of them it is no step of the window tells apart (`ProtectionPolicy` does). A job that is agreed on is for a disk that was not barred in
  the discovery its dialog showed: what changes afterwards is for the backend to find (`NativeWipe`, `DiskPartWipe`). A message box that only informs is left out: it ends its handler.
  Protecting that fails to be saved is `Abandon`. `Protect` takes over the rules the file then holds,
  which may be fewer or more than the policy had, besides those just added; how the file comes to hold them is `ProtectedDevices`.
  `RefreshGoesOn` is about a GUI thread that is not blocked in `start` for ever, as in `self_deadlock`: then no timer fires either.

## 7 Not modelled

* Preflight (`wipe/preflight.py`): a mode of its own from the command line, in which one thread discovers, opens the disk for reading, compares sizes,
  closes it and discovers again. It locks and writes nothing, keeps no state, and no job runs beside it.
* The parsing of PowerShell's output and fingerprints as text: pure conversions without a state.
* Read benchmark, elapsed times, log export, sorting and formatting of the table: nothing a wipe depends on.
* Configuration gates and administrator check: read once; a closed gate is a `Fail` at the start of a run.
* `default_critical_drive_letters`: computed once at the start; the constant `Letters`.
* Liveness of a DiskPart run: the code has no bound on the wait.

## 8 Plan

Done, in this order: `WipeBackends`, `JobManager` with `JobLedger` and their proofs (the core: who may wipe what, and what the
history says); `BackendRun` and `NativeWipe`; `RawOverwrite`; `MainWindow`; `DiskPartWipe`; `ProtectionPolicy` and `ProtectedDevices`;
each with its proofs. Then bounds and absence of waiting for every run, the contract shown of the workers too, the conditions of the findings made exact,
and the chunk as a unit justified by the bytes.

Left, in order of worth:

1. The window composed with the manager: `MainWindow!jobs` as `JobManager!active`, `_progress`, cancelling by number, closing; then exclusion as a
   theorem about both.
2. `ProtectedDevices` as the policy of `MainWindow` and of the backends, instead of a set of disks.
3. The simulation backend in detail, as a third implementation of `BackendRun`; every step of `BackendRun` as a step of `JobManager`'s worker.
4. Abstract specification of the file of rules: a set that only the user shrinks, as long as saves do not overlap.
