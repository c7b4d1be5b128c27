----------------------------- MODULE JobManager -----------------------------
(***************************************************************************)
(* The job manager (wipe/manager.py) with the thread pool it submits to    *)
(* and the SQLite history it writes (history/database.py), driven by the   *)
(* single GUI thread (gui/main_window.py).                                 *)
(*                                                                         *)
(* One job is one worker thread's run of _run_job.  start() holds _lock    *)
(* from its checks to the registration of the done callback; every other   *)
(* user of _lock takes it for one atomic step, so the lock is held exactly *)
(* while `gui' is inside start().  A history operation is one transaction  *)
(* and one step.  A history write may fail (sqlite3.Error: disk full,      *)
(* busy for more than the 30 s timeout) without having any effect.         *)
(***************************************************************************)
EXTENDS WipeBackends, Sequences, FiniteSets

CONSTANTS
    Jobs,           \* job ids: the uuid4 values start_job will draw
    Disks,          \* disk numbers whose assessment says can_wipe
    Backends,       \* the backends start() is called with
    MaxWorkers,     \* ThreadPoolExecutor(max_workers)
    MaxLaunches,    \* bound: how many times the program is started
    OtherInstance   \* whether a second copy of the program may be started

ASSUME JobsAssumption == Null \notin Jobs
ASSUME BackendsAssumption == Backends \subseteq BackendKinds
ASSUME WorkersAssumption == MaxWorkers \in Nat \ {0}
ASSUME LaunchesAssumption == MaxLaunches \in Nat
ASSUME OtherInstanceAssumption == OtherInstance \in BOOLEAN

VARIABLES
    (* The process. *)
    app,        \* "up" between main() and the end of the process
    launches,   \* launches so far
    gui,        \* where the GUI thread is, see GuiStates
    starting,   \* the job start() is working on, or Null
    active,     \* _active, as the set of its keys
    callback,   \* jobs whose future has its done callback registered
    cancel,     \* jobs whose cancel event is set
    queue,      \* the executor's FIFO of submitted jobs
    pc,         \* what each job's worker is about to do, see WorkerStates
    stage,      \* where backend.run stands in each job
    last,       \* last_bytes_processed of _run_job
    note,       \* the JobProgress the worker has built: next to store or to queue
    events,     \* _events: what each job has queued and the window not drained
    shown,      \* the window's _progress: the last event drained of each job
    (* What outlives the process. *)
    disk,       \* the disk number each job was authorised for
    kind,       \* the backend it was started with
    rows,       \* the job's row of the jobs table (status and bytes_processed)
    wiped,      \* chunks the backend has overwritten
    (* Observation only: no action reads these. *)
    unrecorded, \* jobs of this process whose worker died of a failed history write
    atCancel    \* chunks written when the cancel event was first set

process == <<app, launches, gui, starting, active, callback, cancel, queue>>
workers == <<pc, stage, last, note>>
window == <<events, shown>>
authorization == <<disk, kind>>
observed == <<unrecorded, atCancel>>
vars == <<process, workers, window, authorization, rows, wiped, observed>>

NoRow == [status |-> "NONE", bytes |-> Null]
NoProgress == [status |-> "PREPARING", bytes |-> 0]

(***************************************************************************)
(* starting    row inserted, not submitted yet                             *)
(* queued      in the executor's queue                                     *)
(* accepting   about to report "Job accepted"                              *)
(* running     inside backend.run, not inside report                       *)
(* announcing  inside report: recorded, about to be put in the queue       *)
(* finishing   terminal progress built, about to be stored                 *)
(* publishing  stored, about to be put in the queue                        *)
(* ended       _run_job returned or raised; the future is about to finish  *)
(* forgetting  future finished, its callback waits for _lock               *)
(* done        future finished before any callback was registered          *)
(* gone        nothing left to do                                          *)
(* lost        the process died under the job                              *)
(* orphan      the same, but diskpart.exe still runs                       *)
(***************************************************************************)
LiveStates == {"starting", "queued", "accepting", "running", "announcing",
               "finishing", "publishing", "ended"}
WorkerStates == LiveStates \cup
                {"new", "forgetting", "done", "gone", "lost", "orphan"}
BusyStates == (LiveStates \ {"starting", "queued"}) \cup {"forgetting"}

(* submitting and registering are inside start(); blocked is _forget called *)
(* by start() itself, waiting for the lock start() holds; closing is        *)
(* manager.shutdown(), waiting for the workers.                             *)
GuiStates == {"idle", "submitting", "registering", "blocked", "closing"}

Live == {j \in Jobs : pc[j] \in LiveStates}
LockFree == gui \in {"idle", "closing"}
GuiReady == app = "up" /\ gui = "idle"
RealJobs(S) == {j \in S : ~Simulated(kind[j])}

ProcessTypeOK ==
    /\ app \in {"up", "down"}
    /\ launches \in 0 .. MaxLaunches
    /\ gui \in GuiStates
    /\ starting \in Jobs \cup {Null}
    /\ active \subseteq Jobs
    /\ callback \subseteq Jobs
    /\ cancel \subseteq Jobs
    /\ queue \in Seq(Jobs)

WorkersTypeOK ==
    /\ pc \in [Jobs -> WorkerStates]
    /\ stage \in [Jobs -> Stages]
    /\ last \in [Jobs -> 0 .. Size]
    /\ note \in [Jobs -> Progress]

RecordsTypeOK ==
    /\ events \in [Jobs -> Seq(Progress)]
    /\ shown \in [Jobs -> Progress \cup {NoRow}]
    /\ disk \in [Jobs -> Disks \cup {Null}]
    /\ kind \in [Jobs -> Backends \cup {Null}]
    /\ rows \in [Jobs -> Progress \cup {NoRow}]
    /\ wiped \in [Jobs -> 0 .. Size]
    /\ unrecorded \subseteq Jobs
    /\ atCancel \in [Jobs -> 0 .. Size]

TypeOK == ProcessTypeOK /\ WorkersTypeOK /\ RecordsTypeOK

-----------------------------------------------------------------------------
(* The history store. *)

RowIsOpen(r) == r.status \in OpenStatuses

(* Mutations of Reconciled: only the WIPING rows the manual speaks of, or   *)
(* no WHERE clause at all.                                                  *)
MutantOnlyWiping(r) ==
    IF r.status = "WIPING" THEN [r EXCEPT !.status = "INTERRUPTED"] ELSE r
MutantEveryRow(r) ==
    IF r # NoRow THEN [r EXCEPT !.status = "INTERRUPTED"] ELSE r

(* initialize(): an UPDATE of every row still open, its bytes left alone. *)
Reconciled(r) ==
    IF RowIsOpen(r) THEN [r EXCEPT !.status = "INTERRUPTED"] ELSE r

(* Mutation of StoreRow: a row that has been closed is not updated. *)
MutantSparesClosed(j, progress) ==
    rows' = [rows EXCEPT ![j] = IF @.status = "INTERRUPTED" THEN @ ELSE progress]

(* record_progress and finish_job both overwrite status and byte count,     *)
(* whatever recovery in a second copy of the program has made of the row.   *)
StoreRow(j, progress) == rows' = [rows EXCEPT ![j] = progress]

-----------------------------------------------------------------------------
(* start(), in the GUI thread. *)

(* Mutation of DiskIsActive: a job still in the queue does not count. *)
MutantDiskIsRunning(d) == \E j \in active : disk[j] = d /\ pc[j] \in BusyStates

(* Another active job has this disk number. *)
DiskIsActive(d) == \E j \in active : disk[j] = d

(* Mutation of MayOverlap: only the newcomer is asked. *)
MutantAsksNewcomer(b) ==
    Simulated(b) \/ RealJobs(active) = {} \/ SupportsParallelReal(b)

(* A real wipe may join active real ones only if it and the first of them   *)
(* are both parallel-capable; any active real job can be the first.         *)
MayOverlap(b) ==
    \/ Simulated(b)
    \/ RealJobs(active) = {}
    \/ /\ SupportsParallelReal(b)
       /\ \E j \in RealJobs(active) : SupportsParallelReal(kind[j])

(* A rejected start, and one whose INSERT fails, release the lock and       *)
(* change nothing.                                                          *)
Start(j, d, b) ==
    /\ GuiReady
    /\ pc[j] = "new"
    /\ ~DiskIsActive(d)
    /\ MayOverlap(b)
    /\ StoreRow(j, [status |-> "PREPARING", bytes |-> Null])
    /\ disk' = [disk EXCEPT ![j] = d]
    /\ kind' = [kind EXCEPT ![j] = b]
    /\ gui' = "submitting"
    /\ starting' = j
    /\ pc' = [pc EXCEPT ![j] = "starting"]
    /\ UNCHANGED <<app, launches, active, callback, cancel, queue, stage, last,
                   note, window, wiped, observed>>

(* submit, and the entry in _active, which nobody can read before start()   *)
(* releases the lock.                                                       *)
Submit ==
    /\ gui = "submitting"
    /\ queue' = Append(queue, starting)
    /\ active' = active \cup {starting}
    /\ pc' = [pc EXCEPT ![starting] = "queued"]
    /\ gui' = "registering"
    /\ UNCHANGED <<app, launches, starting, callback, cancel, stage, last, note,
                   window, authorization, rows, wiped, observed>>

(* Mutation of Register: start() returns without add_done_callback. *)
MutantNoCallback ==
    /\ gui = "registering"
    /\ pc[starting] # "done"
    /\ gui' = "idle"
    /\ starting' = Null
    /\ UNCHANGED <<app, launches, active, callback, cancel, queue, workers, window,
                   authorization, rows, wiped, observed>>

(* add_done_callback on a future that is not finished. *)
Register ==
    /\ gui = "registering"
    /\ pc[starting] # "done"
    /\ callback' = callback \cup {starting}
    /\ gui' = "idle"
    /\ starting' = Null
    /\ UNCHANGED <<app, launches, active, cancel, queue, workers, window,
                   authorization, rows, wiped, observed>>

(* add_done_callback on a finished future calls _forget at once, in the     *)
(* thread that already holds the lock _forget asks for.                     *)
RegisterFinished ==
    /\ gui = "registering"
    /\ pc[starting] = "done"
    /\ gui' = "blocked"
    /\ UNCHANGED <<app, launches, starting, active, callback, cancel, queue,
                   workers, window, authorization, rows, wiped, observed>>

-----------------------------------------------------------------------------
(* The other calls of the GUI thread. *)

(* cancel_disk(d): the first active job of that number, if it supports it. *)
Cancel(d) ==
    /\ GuiReady
    /\ \E j \in active :
          /\ disk[j] = d
          /\ SupportsCancel(kind[j])
          /\ cancel' = cancel \cup {j}
          /\ atCancel' = IF j \in cancel THEN atCancel
                         ELSE [atCancel EXCEPT ![j] = wiped[j]]
    /\ UNCHANGED <<app, launches, gui, starting, active, callback, queue, workers,
                   window, authorization, rows, wiped, unrecorded>>

(* Mutation of Drain: the first event of each job stays. *)
MutantKeepsFirst ==
    /\ GuiReady
    /\ shown' = [j \in Jobs |-> IF events[j] = << >> THEN shown[j] ELSE events[j][1]]
    /\ events' = [j \in Jobs |-> << >>]
    /\ UNCHANGED <<process, workers, authorization, rows, wiped, observed>>

(* drain_events and the loop of _poll_background_work over its result: the *)
(* last event of each job is the one that stays.                           *)
Drain ==
    /\ GuiReady
    /\ shown' = [j \in Jobs |-> IF events[j] = << >> THEN shown[j]
                                ELSE events[j][Len(events[j])]]
    /\ events' = [j \in Jobs |-> << >>]
    /\ UNCHANGED <<process, workers, authorization, rows, wiped, observed>>

(* closeEvent: refused while a job is active, otherwise shutdown(wait=True). *)
Close ==
    /\ GuiReady
    /\ active = {}
    /\ gui' = "closing"
    /\ UNCHANGED <<app, launches, starting, active, callback, cancel, queue,
                   workers, window, authorization, rows, wiped, observed>>

-----------------------------------------------------------------------------
(* A worker: ThreadPoolExecutor runs _run_job. *)

Take(j) ==
    /\ queue # << >>
    /\ Head(queue) = j
    /\ Cardinality({k \in Jobs : pc[k] \in BusyStates}) < MaxWorkers
    /\ queue' = Tail(queue)
    /\ pc' = [pc EXCEPT ![j] = "accepting"]
    /\ UNCHANGED <<app, launches, gui, starting, active, callback, cancel, stage,
                   last, note, window, authorization, rows, wiped, observed>>

(* record_progress committed; the put comes next. *)
Recorded(j, progress) ==
    /\ StoreRow(j, progress)
    /\ note' = [note EXCEPT ![j] = progress]
    /\ pc' = [pc EXCEPT ![j] = "announcing"]
    /\ UNCHANGED unrecorded

(* A history write outside the try block failed: _run_job ends by raising. *)
Unrecorded(j) ==
    /\ pc' = [pc EXCEPT ![j] = "ended"]
    /\ unrecorded' = unrecorded \cup {j}
    /\ UNCHANGED <<rows, note>>

(* report(PREPARING, "Job accepted"), before the try block. *)
Accept(j) ==
    /\ pc[j] = "accepting"
    /\ \/ Recorded(j, [status |-> "PREPARING", bytes |-> 0])
       \/ Unrecorded(j)
    /\ UNCHANGED <<process, stage, last, window, authorization, wiped, atCancel>>

(* The put at the end of report. *)
Announce(j) ==
    /\ pc[j] = "announcing"
    /\ events' = [events EXCEPT ![j] = Append(@, note[j])]
    /\ pc' = [pc EXCEPT ![j] = "running"]
    /\ UNCHANGED <<process, stage, last, note, shown, authorization, rows, wiped,
                   observed>>

(* backend.run is over, and the try statement has built the terminal progress. *)
Terminate(j, progress) ==
    /\ note' = [note EXCEPT ![j] = progress]
    /\ pc' = [pc EXCEPT ![j] = "finishing"]

(* Mutation of ErrorAfter: the exception is swallowed, the run looks fine. *)
MutantErrorIsSuccess(bytes) == [status |-> "COMPLETE", bytes |-> bytes]

(* The byte count an ERROR carries is the last one a report mentioned. *)
ErrorAfter(bytes) == [status |-> "ERROR", bytes |-> bytes]

(* backend.run calls report.  If its record_progress fails, the exception  *)
(* leaves the backend and _run_job's try block turns it into an ERROR.     *)
Report(j) ==
    LET progress == ReportOf(kind[j], stage[j], wiped[j])
        seen == IF progress.bytes = Null THEN last[j] ELSE progress.bytes
    IN  /\ pc[j] = "running"
        /\ stage[j] \in ReportingStages(kind[j])
        /\ last' = [last EXCEPT ![j] = seen]
        /\ \/ /\ Recorded(j, progress)
              /\ stage' = [stage EXCEPT ![j] = AfterReport(kind[j], @, wiped[j])]
           \/ /\ Terminate(j, ErrorAfter(seen))
              /\ UNCHANGED <<stage, rows, unrecorded>>
        /\ UNCHANGED <<process, window, authorization, wiped, atCancel>>

(* The native backend's throttle lets a chunk go by unreported. *)
StaySilent(j) ==
    /\ pc[j] = "running"
    /\ MayStaySilent(kind[j], stage[j], wiped[j])
    /\ stage' = [stage EXCEPT ![j] = AfterChunk(kind[j], wiped[j])]
    /\ UNCHANGED <<process, pc, last, note, window, authorization, rows, wiped,
                   observed>>

(* Mutations of Poll: the byte count is the last reported one; the event is *)
(* looked at only before the first chunk.                                   *)
MutantCountsReported(j) ==
    /\ pc[j] = "running"
    /\ stage[j] = "polling"
    /\ IF j \in cancel
       THEN /\ Terminate(j, [status |-> "CANCELLED_INCOMPLETE", bytes |-> last[j]])
            /\ UNCHANGED stage
       ELSE /\ stage' = [stage EXCEPT ![j] = "writing"]
            /\ UNCHANGED <<pc, note>>
    /\ UNCHANGED <<process, last, window, authorization, rows, wiped, observed>>
MutantPollsOnce(j) ==
    /\ pc[j] = "running"
    /\ stage[j] = "polling"
    /\ IF j \in cancel /\ wiped[j] = 0
       THEN /\ Terminate(j, [status |-> "CANCELLED_INCOMPLETE", bytes |-> 0])
            /\ UNCHANGED stage
       ELSE /\ stage' = [stage EXCEPT ![j] = "writing"]
            /\ UNCHANGED <<pc, note>>
    /\ UNCHANGED <<process, last, window, authorization, rows, wiped, observed>>

(* The cancel event is looked at once before every chunk. *)
Poll(j) ==
    /\ pc[j] = "running"
    /\ stage[j] = "polling"
    /\ IF j \in cancel
       THEN /\ Terminate(j, [status |-> "CANCELLED_INCOMPLETE", bytes |-> wiped[j]])
            /\ UNCHANGED stage
       ELSE /\ stage' = [stage EXCEPT ![j] = "writing"]
            /\ UNCHANGED <<pc, note>>
    /\ UNCHANGED <<process, last, window, authorization, rows, wiped, observed>>

(* One chunk.  DiskPart goes from chunk to chunk without a word; the others *)
(* come back to report it.                                                  *)
Write(j) ==
    /\ pc[j] = "running"
    /\ stage[j] = "writing"
    /\ wiped' = [wiped EXCEPT ![j] = @ + 1]
    /\ stage' = [stage EXCEPT ![j] = IF kind[j] = "diskpart"
                                     THEN AfterChunk(kind[j], wiped[j] + 1)
                                     ELSE "written"]
    /\ UNCHANGED <<process, pc, last, note, window, authorization, rows, observed>>

(* A real backend may give up at any point: a closed gate, a failed or      *)
(* mismatching revalidation, a lock, write, flush or close that fails, a    *)
(* completion check that does not hold.  A simulation never does.           *)
Fail(j) ==
    /\ pc[j] = "running"
    /\ ~Simulated(kind[j])
    /\ Terminate(j, ErrorAfter(last[j]))
    /\ UNCHANGED <<process, stage, last, window, authorization, rows, wiped,
                   observed>>

Complete(j) ==
    /\ pc[j] = "running"
    /\ stage[j] = "verified"
    /\ Terminate(j, [status |-> "COMPLETE", bytes |-> Size])
    /\ UNCHANGED <<process, stage, last, window, authorization, rows, wiped,
                   observed>>

(* finish_job, after the try statement. *)
Finish(j) ==
    /\ pc[j] = "finishing"
    /\ \/ /\ StoreRow(j, note[j])
          /\ pc' = [pc EXCEPT ![j] = "publishing"]
          /\ UNCHANGED <<note, unrecorded>>
       \/ Unrecorded(j)
    /\ UNCHANGED <<process, stage, last, window, authorization, wiped, atCancel>>

(* Mutation of Publish: the job is taken out of _active with its last event, *)
(* before its future has finished.                                           *)
MutantForgetsEarly(j) ==
    /\ pc[j] = "publishing"
    /\ LockFree
    /\ active' = active \ {j}
    /\ events' = [events EXCEPT ![j] = Append(@, note[j])]
    /\ pc' = [pc EXCEPT ![j] = "ended"]
    /\ UNCHANGED <<app, launches, gui, starting, callback, cancel, queue, stage,
                   last, note, shown, authorization, rows, wiped, observed>>

Publish(j) ==
    /\ pc[j] = "publishing"
    /\ events' = [events EXCEPT ![j] = Append(@, note[j])]
    /\ pc' = [pc EXCEPT ![j] = "ended"]
    /\ UNCHANGED <<process, stage, last, note, shown, authorization, rows, wiped,
                   observed>>

(* The pool sets the future's result or exception: a callback registered by *)
(* now is called in this thread, one that comes later in start()'s.         *)
Resolve(j) ==
    /\ pc[j] = "ended"
    /\ pc' = [pc EXCEPT ![j] = IF j \in callback THEN "forgetting" ELSE "done"]
    /\ UNCHANGED <<process, stage, last, note, window, authorization, rows, wiped,
                   observed>>

(* _forget, in the worker thread. *)
Forget(j) ==
    /\ pc[j] = "forgetting"
    /\ LockFree
    /\ active' = active \ {j}
    /\ pc' = [pc EXCEPT ![j] = "gone"]
    /\ UNCHANGED <<app, launches, gui, starting, callback, cancel, queue, stage,
                   last, note, window, authorization, rows, wiped, observed>>

BackendStep(j) ==
    Report(j) \/ StaySilent(j) \/ Poll(j) \/ Write(j) \/ Fail(j) \/ Complete(j)

Worker(j) ==
    \/ Take(j) \/ Accept(j) \/ Announce(j)
    \/ BackendStep(j)
    \/ Finish(j) \/ Publish(j) \/ Resolve(j) \/ Forget(j)

-----------------------------------------------------------------------------
(* The process: main(), its end, and what happens beside it. *)

(* main(): history.initialize(), then a new manager and window. *)
Launch ==
    /\ app = "down"
    /\ launches < MaxLaunches
    /\ app' = "up"
    /\ launches' = launches + 1
    /\ rows' = [j \in Jobs |-> Reconciled(rows[j])]
    /\ UNCHANGED <<gui, starting, active, callback, cancel, queue, workers, window,
                   authorization, wiped, observed>>

(* Where a job is left when the process ends.  diskpart.exe is a process of *)
(* its own and runs on.                                                     *)
Abandoned(j) ==
    IF pc[j] = "running" /\ kind[j] = "diskpart" /\ stage[j] = "writing" THEN "orphan"
    ELSE IF pc[j] \in LiveStates THEN "lost"
    ELSE IF pc[j] \in {"forgetting", "done"} THEN "gone"
    ELSE pc[j]

(* All memory of the process goes. *)
EndProcess ==
    /\ app' = "down"
    /\ gui' = "idle"
    /\ starting' = Null
    /\ active' = {}
    /\ callback' = {}
    /\ cancel' = {}
    /\ queue' = << >>
    /\ pc' = [j \in Jobs |-> Abandoned(j)]
    /\ stage' = [j \in Jobs |-> "called"]
    /\ last' = [j \in Jobs |-> 0]
    /\ note' = [j \in Jobs |-> NoProgress]
    /\ events' = [j \in Jobs |-> << >>]
    /\ shown' = [j \in Jobs |-> NoRow]
    /\ unrecorded' = {}
    /\ atCancel' = [j \in Jobs |-> 0]
    /\ UNCHANGED <<launches, authorization, rows, wiped>>

(* shutdown returns once every worker thread is idle. *)
Exit ==
    /\ gui = "closing"
    /\ \A j \in Jobs : pc[j] \notin BusyStates \cup {"queued"}
    /\ EndProcess

(* The process is killed or the machine loses power; only the first leaves *)
(* diskpart.exe behind.                                                    *)
Crash ==
    /\ app = "up"
    /\ EndProcess

(* A diskpart.exe without its parent goes on. *)
OrphanWrite(j) ==
    /\ pc[j] = "orphan"
    /\ wiped[j] < Size
    /\ wiped' = [wiped EXCEPT ![j] = @ + 1]
    /\ UNCHANGED <<process, workers, window, authorization, rows, observed>>

(* Nothing keeps a second copy of the program from being started on the     *)
(* same data directory; its initialize() sees this one's open rows.         *)
LaunchOther ==
    /\ OtherInstance
    /\ app = "up"
    /\ rows' = [j \in Jobs |-> Reconciled(rows[j])]
    /\ UNCHANGED <<process, workers, window, authorization, wiped, observed>>

-----------------------------------------------------------------------------
Init ==
    /\ app = "down"
    /\ launches = 0
    /\ gui = "idle"
    /\ starting = Null
    /\ active = {}
    /\ callback = {}
    /\ cancel = {}
    /\ queue = << >>
    /\ pc = [j \in Jobs |-> "new"]
    /\ stage = [j \in Jobs |-> "called"]
    /\ last = [j \in Jobs |-> 0]
    /\ note = [j \in Jobs |-> NoProgress]
    /\ events = [j \in Jobs |-> << >>]
    /\ shown = [j \in Jobs |-> NoRow]
    /\ disk = [j \in Jobs |-> Null]
    /\ kind = [j \in Jobs |-> Null]
    /\ rows = [j \in Jobs |-> NoRow]
    /\ wiped = [j \in Jobs |-> 0]
    /\ unrecorded = {}
    /\ atCancel = [j \in Jobs |-> 0]

GuiCalls ==
    \/ \E j \in Jobs, d \in Disks, b \in Backends : Start(j, d, b)
    \/ \E d \in Disks : Cancel(d)
    \/ Close

GuiThread == Submit \/ Register \/ RegisterFinished \/ Drain \/ Exit

Next ==
    \/ Launch
    \/ GuiCalls
    \/ GuiThread
    \/ \E j \in Jobs : Worker(j)
    \/ Crash
    \/ \E j \in Jobs : OrphanWrite(j)
    \/ LaunchOther

(* Threads are scheduled, SQLite and the devices answer, and the poll timer *)
(* keeps firing; nobody has to start, cancel, close or crash anything.      *)
Fairness ==
    /\ WF_vars(Submit \/ Register \/ RegisterFinished \/ Exit)
    /\ WF_vars(Drain)
    /\ \A j \in Jobs : WF_vars(Worker(j))

Spec == Init /\ [][Next]_vars
FairSpec == Spec /\ Fairness

-----------------------------------------------------------------------------
(* Safety. *)

(* A row says COMPLETE only if the backend got through the whole disk.      *)
CompletionIsReal ==
    \A j \in Jobs : rows[j].status = "COMPLETE" =>
        /\ wiped[j] = Size
        /\ rows[j].bytes = Size

(* A row says CANCELLED only of a disk that is really incomplete, and it    *)
(* gives the exact amount.                                                  *)
CancellationIsIncomplete ==
    \A j \in Jobs : rows[j].status = "CANCELLED_INCOMPLETE" =>
        /\ wiped[j] < Size
        /\ rows[j].bytes = wiped[j]

(* Neither the history nor the window ever credits a job with more than it  *)
(* has written, whatever the interleaving, throttling or failure.           *)
NeverOverreported ==
    \A j \in Jobs : \A r \in {rows[j], shown[j]} :
        r.bytes # Null => r.bytes <= wiped[j]

(* Two jobs whose workers have not ended never have the same disk number,   *)
(* from the moment the row is inserted, before the job is in _active, to    *)
(* the moment the future finishes, before _forget.                          *)
OneLiveJobPerDisk ==
    \A i, j \in Live : i # j => disk[i] # disk[j]

(* Real wipes overlap only if each of them is parallel-capable, although    *)
(* start() compares the newcomer with one active job only.                  *)
RealOverlapIsParallel ==
    \A i, j \in RealJobs(Live) : i # j => SupportsParallelReal(kind[i])

(* What the window can ever be told about the end of a job is already in    *)
(* the history, and is still there.                                         *)
EndsAreRecordedFirst ==
    \A j \in Jobs :
        \A e \in {shown[j]} \cup {events[j][i] : i \in DOMAIN events[j]} :
            e.status \in FinishedStatuses => rows[j] = e

(* While the program runs, an open row belongs to a job somebody is still   *)
(* working on, or to one whose worker could not write to the history.       *)
OpenRowsAreLive ==
    app = "up" => \A j \in Jobs : RowIsOpen(rows[j]) => j \in Live \cup unrecorded

(* A cancelled job writes at most the chunk that was in flight.             *)
CancelStopsWriting ==
    \A j \in cancel : wiped[j] <= atCancel[j] + 1

(* When the window lets the program close, no job is queued or running:     *)
(* shutdown(wait=True) on the GUI thread has nothing to wait for.           *)
CloseFindsNothingRunning ==
    gui = "closing" => \A j \in Jobs : pc[j] \notin BusyStates \cup {"queued"}

(* A row that says how a job ended is never written again: not by a late    *)
(* report, not by recovery at a later start, not by another instance.       *)
FinishedRowsAreFinal ==
    [][\A j \in Jobs : rows[j].status \in FinishedStatuses => rows'[j] = rows[j]]_vars

-----------------------------------------------------------------------------
(* Liveness, unless the process dies or the GUI thread blocks in start(). *)

Stopped == app = "down" \/ gui = "blocked"

(* Every submitted job is run and forgotten, so its disk number is free for *)
(* another job and the window can be closed.                                *)
SubmittedJobsAreForgotten ==
    \A j \in Jobs : pc[j] = "queued" ~> (j \notin active \/ Stopped)

(* Every end that reached the history reaches the window.                   *)
EndsAreShown ==
    \A j \in Jobs : pc[j] = "publishing" ~> (shown[j] = rows[j] \/ Stopped)

-----------------------------------------------------------------------------
(* The history the manager writes is the one JobLedger promises.  A job is  *)
(* worked on until its end is stored.                                       *)
Ledger == INSTANCE JobLedger WITH
    ledger <- [j \in Jobs |-> rows[j].status],
    worked <- {j \in Jobs : pc[j] \in LiveStates \ {"publishing", "ended"}},
    chunks <- wiped

LedgerSpec == Ledger!LedgerSpec

-----------------------------------------------------------------------------
(* What the documents and comments say, and the code does not do.           *)

(* Manifest.md: "The GUI must remain responsive while multiple drives are   *)
(* wiping."  start() always returns to the event loop.                      *)
GuiStaysResponsive == gui = "registering" ~> (gui = "idle" \/ app = "down")

(* manager.py, "defensive job boundary": a worker that has ended, however   *)
(* it ended, leaves a row that says so.                                     *)
EndedJobsAreClosed ==
    \A j \in Jobs : pc[j] \in {"forgetting", "done", "gone"} => ~RowIsOpen(rows[j])

(* A diskpart.exe is overwriting the disk of job j, with or without the      *)
(* program that started it.                                                 *)
DiskPartWrites(j) ==
    /\ kind[j] = "diskpart"
    /\ wiped[j] < Size
    /\ pc[j] = "orphan" \/ (pc[j] = "running" /\ stage[j] = "writing")

(* README.md: "The DiskPart MVP intentionally permits only one real wipe at *)
(* a time": no two diskpart.exe write at once.                              *)
OneDiskPartAtATime ==
    \A i, j \in Jobs : DiskPartWrites(i) /\ DiskPartWrites(j) => i = j
=============================================================================
