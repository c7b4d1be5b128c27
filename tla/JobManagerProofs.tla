-------------------------- MODULE JobManagerProofs --------------------------
(***************************************************************************)
(* The safety properties of JobManager for any number of jobs, disks and   *)
(* workers, any subset of the backends, any disk size, with or without a   *)
(* second instance: an inductive invariant in four named parts, and what   *)
(* follows from it.                                                        *)
(***************************************************************************)
EXTENDS JobManager, FiniteSetTheorems, TLAPS

(* A job that has not left backend.run, or never will enter it. *)
BeforeEnd == {"new", "starting", "queued", "accepting", "running", "announcing",
              "finishing"}

(* Workers that hold a queue slot or a thread, or whose future has just     *)
(* finished: the job has an entry in _active.                               *)
Registered == (LiveStates \ {"starting"}) \cup {"forgetting", "done"}

(* start() works on one job at a time. *)
StartTracked ==
    /\ gui \in {"submitting", "registering", "blocked"} => starting \in Jobs
    /\ gui = "submitting" => pc[starting] = "starting"
    /\ \A j \in Jobs : pc[j] = "starting" => gui = "submitting" /\ starting = j

(* _active covers every worker, and a closing window has none. *)
ActiveTracked ==
    /\ \A j \in Jobs : pc[j] \in Registered => j \in active
    /\ \A j \in active : pc[j] \notin {"new", "starting"}
    /\ gui = "closing" => active = {}

(* The queue holds queued jobs, each once. *)
QueueTracked ==
    /\ \A i \in 1 .. Len(queue) : pc[queue[i]] = "queued"
    /\ \A i, k \in 1 .. Len(queue) : queue[i] = queue[k] => i = k

(* A job that was ever started has a backend; one that was not is not      *)
(* cancelled.                                                              *)
JobsTracked ==
    \A j \in Jobs : IF pc[j] = "new" THEN j \notin cancel ELSE kind[j] \in Backends

(* Who is where. *)
Tracking == StartTracked /\ ActiveTracked /\ QueueTracked /\ JobsTracked

(***************************************************************************)
(* How much is written at each stage, and what the byte counts on their    *)
(* way to the history and the window say about it.                         *)
(***************************************************************************)
Accounting ==
    \A j \in Jobs :
        /\ pc[j] \in BeforeEnd /\ stage[j] \in {"called", "prepared", "locked"}
              => wiped[j] = 0
        /\ stage[j] \in {"polling", "writing"} => wiped[j] < Size
        /\ stage[j] \in {"flushed", "verified"} => wiped[j] = Size
        /\ stage[j] = "locked" => kind[j] = "native"
        /\ pc[j] \in {"new", "starting", "queued", "accepting", "lost", "orphan"}
              => stage[j] = "called"
        /\ last[j] <= wiped[j]

(* No two jobs in _active, nor the one start() is about to add, have the    *)
(* same disk number.                                                       *)
Exclusion ==
    /\ \A i, j \in active : i # j => disk[i] # disk[j]
    /\ gui = "submitting" => \A i \in active : disk[i] # disk[starting]

(* Real jobs in _active share it only if all of them are parallel-capable.  *)
Overlap ==
    /\ \A i, j \in RealJobs(active) : i # j => SupportsParallelReal(kind[i])
    /\ gui = "submitting" /\ ~Simulated(kind[starting]) =>
          \A i \in RealJobs(active) : /\ SupportsParallelReal(kind[i])
                                      /\ SupportsParallelReal(kind[starting])

(* Only backends that poll are cancelled, and past the poll that saw the    *)
(* event clear there is one chunk.                                          *)
Cancelling ==
    /\ \A j \in Jobs : pc[j] = "orphan" => kind[j] = "diskpart"
    /\ \A j \in cancel : /\ SupportsCancel(kind[j])
                         /\ wiped[j] <= atCancel[j] + 1
                         /\ stage[j] = "writing" => wiped[j] <= atCancel[j]

Inv == TypeOK /\ Tracking /\ Accounting /\ Exclusion /\ Overlap /\ Cancelling

-----------------------------------------------------------------------------

(* A worker that keeps its registration disturbs nothing of this. *)
LEMMA WorkerKeepsTracking ==
    ASSUME TypeOK, Tracking, NEW j \in Jobs, NEW s \in Registered \ {"queued"},
           pc[j] \in Registered \ {"queued"}, pc' = [pc EXCEPT ![j] = s],
           UNCHANGED process, UNCHANGED kind
    PROVE  Tracking'
<1>1. /\ \A k \in Jobs : pc'[k] = IF k = j THEN s ELSE pc[k]
      /\ pc[j] \notin {"new", "starting", "queued"}
      /\ s \notin {"new", "starting", "queued"}
  BY DEF TypeOK, ProcessTypeOK, WorkersTypeOK, RecordsTypeOK, Registered, LiveStates
<1>2. StartTracked'
  BY <1>1 DEF StartTracked, Tracking, process
<1>3. ActiveTracked'
  BY <1>1
  DEF ActiveTracked, Tracking, process, TypeOK, ProcessTypeOK, WorkersTypeOK,
      RecordsTypeOK
<1>4. QueueTracked'
  <2>1. \A i \in 1 .. Len(queue) : queue[i] \in Jobs
    BY DEF TypeOK, ProcessTypeOK, WorkersTypeOK, RecordsTypeOK
  <2>. QED
    BY <1>1, <2>1 DEF QueueTracked, Tracking, process
<1>5. JobsTracked'
  BY <1>1 DEF JobsTracked, Tracking, process
<1>. QED
  BY <1>2, <1>3, <1>4, <1>5 DEF Tracking

(* Every step keeps track of who is where.                                  *)
LEMMA TrackingStep ==
    ASSUME TypeOK, Tracking, [Next]_vars
    PROVE  Tracking'
<1>1. CASE Launch
  BY <1>1
  DEF Launch, TypeOK, ProcessTypeOK, WorkersTypeOK, RecordsTypeOK, Tracking,
      StartTracked, ActiveTracked, QueueTracked, JobsTracked, workers, authorization,
      LiveStates, Registered
<1>2. ASSUME NEW j \in Jobs, NEW d \in Disks, NEW b \in Backends, Start(j, d, b)
      PROVE  Tracking'
  <2>1. /\ \A k \in Jobs : pc'[k] = IF k = j THEN "starting" ELSE pc[k]
        /\ \A k \in Jobs : kind'[k] = IF k = j THEN b ELSE kind[k]
        /\ \A i \in 1 .. Len(queue) : queue[i] \in Jobs
    BY <1>2 DEF Start, TypeOK, ProcessTypeOK, WorkersTypeOK, RecordsTypeOK
  <2>2. StartTracked'
    BY <1>2, <2>1
    DEF Start, GuiReady, Registered, LiveStates, TypeOK, ProcessTypeOK, WorkersTypeOK,
        RecordsTypeOK, Tracking, StartTracked
  <2>3. ActiveTracked'
    BY <1>2, <2>1
    DEF Start, GuiReady, Registered, LiveStates, TypeOK, ProcessTypeOK, WorkersTypeOK,
        RecordsTypeOK, Tracking, ActiveTracked
  <2>4. QueueTracked'
    BY <1>2, <2>1 DEF Start, GuiReady, Registered, LiveStates, Tracking, QueueTracked
  <2>5. JobsTracked'
    BY <1>2, <2>1
    DEF Start, GuiReady, Registered, LiveStates, TypeOK, ProcessTypeOK, WorkersTypeOK,
        RecordsTypeOK, Tracking, JobsTracked
  <2>. QED BY <2>2, <2>3, <2>4, <2>5 DEF Tracking
<1>3. ASSUME NEW d \in Disks, Cancel(d)
      PROVE  Tracking'
  BY <1>3
  DEF Cancel, TypeOK, ProcessTypeOK, WorkersTypeOK, RecordsTypeOK, Tracking,
      StartTracked, ActiveTracked, QueueTracked, JobsTracked, GuiReady, workers,
      authorization, LiveStates, Registered
<1>4. CASE Close
  BY <1>4
  DEF Close, TypeOK, ProcessTypeOK, WorkersTypeOK, RecordsTypeOK, Tracking,
      StartTracked, ActiveTracked, QueueTracked, JobsTracked, GuiReady, workers,
      authorization, LiveStates, Registered
<1>5. CASE Submit
  <2>1. /\ starting \in Jobs /\ pc[starting] = "starting"
        /\ \A k \in Jobs : pc'[k] = IF k = starting THEN "queued" ELSE pc[k]
        /\ \A i \in 1 .. Len(queue) : queue[i] \in Jobs
    BY <1>5
    DEF Submit, TypeOK, ProcessTypeOK, WorkersTypeOK, RecordsTypeOK, Tracking,
        StartTracked
  <2>2. StartTracked'
    BY <1>5, <2>1
    DEF Submit, authorization, Registered, LiveStates, TypeOK, ProcessTypeOK,
        WorkersTypeOK, RecordsTypeOK, Tracking, StartTracked
  <2>3. ActiveTracked'
    BY <1>5, <2>1
    DEF Submit, authorization, Registered, LiveStates, TypeOK, ProcessTypeOK,
        WorkersTypeOK, RecordsTypeOK, Tracking, ActiveTracked
  <2>4. QueueTracked'
    <3>1. /\ Len(queue') = Len(queue) + 1 /\ Len(queue) \in Nat
          /\ \A i \in 1 .. Len(queue') :
                queue'[i] = IF i <= Len(queue) THEN queue[i] ELSE starting
      BY <1>5, <2>1 DEF Submit, TypeOK, ProcessTypeOK, WorkersTypeOK, RecordsTypeOK
    <3>. QED
      BY <2>1, <3>1 DEF Tracking, QueueTracked
  <2>5. JobsTracked'
    BY <1>5, <2>1
    DEF Submit, authorization, Registered, LiveStates, TypeOK, ProcessTypeOK,
        WorkersTypeOK, RecordsTypeOK, Tracking, JobsTracked
  <2>. QED BY <2>2, <2>3, <2>4, <2>5 DEF Tracking
<1>6. CASE Register
  BY <1>6
  DEF Register, TypeOK, ProcessTypeOK, WorkersTypeOK, RecordsTypeOK, Tracking,
      StartTracked, ActiveTracked, QueueTracked, JobsTracked, workers, authorization,
      LiveStates, Registered
<1>7. CASE RegisterFinished
  BY <1>7
  DEF RegisterFinished, TypeOK, ProcessTypeOK, WorkersTypeOK, RecordsTypeOK, Tracking,
      StartTracked, ActiveTracked, QueueTracked, JobsTracked, workers, authorization,
      LiveStates, Registered
<1>8. CASE Drain
  BY <1>8
  DEF Drain, TypeOK, ProcessTypeOK, WorkersTypeOK, RecordsTypeOK, Tracking,
      StartTracked, ActiveTracked, QueueTracked, JobsTracked, GuiReady, process,
      workers, authorization, LiveStates, Registered
<1>9. CASE EndProcess
  BY <1>9
  DEF EndProcess, TypeOK, ProcessTypeOK, WorkersTypeOK, RecordsTypeOK, Tracking,
      StartTracked, ActiveTracked, QueueTracked, JobsTracked, authorization, LiveStates,
      Registered, Abandoned
<1>10. ASSUME NEW j \in Jobs, Take(j)
      PROVE  Tracking'
  <2>0. /\ Len(queue) \in Nat \ {0} /\ queue[1] = j
        /\ Len(queue') = Len(queue) - 1
        /\ \A i \in 1 .. Len(queue') : queue'[i] = queue[i + 1]
        /\ \A i \in 1 .. Len(queue) : queue[i] \in Jobs
    BY <1>10 DEF Take, TypeOK, ProcessTypeOK, WorkersTypeOK, RecordsTypeOK
  <2>1. /\ pc[j] = "queued"
        /\ \A k \in Jobs : pc'[k] = IF k = j THEN "accepting" ELSE pc[k]
    BY <1>10, <2>0
    DEF Take, TypeOK, ProcessTypeOK, WorkersTypeOK, RecordsTypeOK, Tracking,
        QueueTracked
  <2>2. StartTracked'
    BY <1>10, <2>1
    DEF Take, authorization, Registered, LiveStates, TypeOK, ProcessTypeOK,
        WorkersTypeOK, RecordsTypeOK, Tracking, StartTracked
  <2>3. ActiveTracked'
    BY <1>10, <2>1
    DEF Take, authorization, Registered, LiveStates, TypeOK, ProcessTypeOK,
        WorkersTypeOK, RecordsTypeOK, Tracking, ActiveTracked
  <2>4. QueueTracked'
    BY <2>0, <2>1 DEF Tracking, QueueTracked
  <2>5. JobsTracked'
    BY <1>10, <2>1
    DEF Take, authorization, Registered, LiveStates, TypeOK, ProcessTypeOK,
        WorkersTypeOK, RecordsTypeOK, Tracking, JobsTracked
  <2>. QED BY <2>2, <2>3, <2>4, <2>5 DEF Tracking
<1>11. ASSUME NEW j \in Jobs, Accept(j)
      PROVE  Tracking'
  BY <1>11, WorkerKeepsTracking
  DEF Accept, Recorded, Unrecorded, authorization, Registered, LiveStates
<1>12. ASSUME NEW j \in Jobs, Announce(j)
      PROVE  Tracking'
  BY <1>12, WorkerKeepsTracking DEF Announce, authorization, Registered, LiveStates
<1>13. ASSUME NEW j \in Jobs, Report(j)
      PROVE  Tracking'
  BY <1>13, WorkerKeepsTracking
  DEF Report, Recorded, Terminate, authorization, Registered, LiveStates
<1>14. ASSUME NEW j \in Jobs, StaySilent(j)
      PROVE  Tracking'
  BY <1>14
  DEF StaySilent, TypeOK, ProcessTypeOK, WorkersTypeOK, RecordsTypeOK, Tracking,
      StartTracked, ActiveTracked, QueueTracked, JobsTracked, process, authorization,
      LiveStates, Registered
<1>15. ASSUME NEW j \in Jobs, Poll(j)
      PROVE  Tracking'
  <2>1. CASE j \in cancel
    BY <1>15, <2>1, WorkerKeepsTracking
    DEF Poll, Terminate, authorization, Registered, LiveStates
  <2>2. CASE j \notin cancel
    BY <1>15, <2>2
    DEF Poll, process, authorization, Tracking, StartTracked, ActiveTracked,
        QueueTracked, JobsTracked
  <2>. QED BY <2>1, <2>2
<1>16. ASSUME NEW j \in Jobs, Write(j)
      PROVE  Tracking'
  BY <1>16
  DEF Write, TypeOK, ProcessTypeOK, WorkersTypeOK, RecordsTypeOK, Tracking,
      StartTracked, ActiveTracked, QueueTracked, JobsTracked, process, authorization,
      LiveStates, Registered
<1>17. ASSUME NEW j \in Jobs, Fail(j)
      PROVE  Tracking'
  BY <1>17, WorkerKeepsTracking
  DEF Fail, Terminate, authorization, Registered, LiveStates
<1>18. ASSUME NEW j \in Jobs, Complete(j)
      PROVE  Tracking'
  BY <1>18, WorkerKeepsTracking
  DEF Complete, Terminate, authorization, Registered, LiveStates
<1>19. ASSUME NEW j \in Jobs, Finish(j)
      PROVE  Tracking'
  BY <1>19, WorkerKeepsTracking
  DEF Finish, Unrecorded, authorization, Registered, LiveStates
<1>20. ASSUME NEW j \in Jobs, Publish(j)
      PROVE  Tracking'
  BY <1>20, WorkerKeepsTracking DEF Publish, authorization, Registered, LiveStates
<1>21. ASSUME NEW j \in Jobs, Resolve(j)
      PROVE  Tracking'
  BY <1>21, WorkerKeepsTracking DEF Resolve, authorization, Registered, LiveStates
<1>22. ASSUME NEW j \in Jobs, Forget(j)
      PROVE  Tracking'
  <2>1. /\ pc[j] = "forgetting"
        /\ \A k \in Jobs : pc'[k] = IF k = j THEN "gone" ELSE pc[k]
        /\ \A i \in 1 .. Len(queue) : queue[i] \in Jobs
    BY <1>22 DEF Forget, TypeOK, ProcessTypeOK, WorkersTypeOK, RecordsTypeOK
  <2>2. StartTracked'
    BY <1>22, <2>1
    DEF Forget, authorization, Registered, LiveStates, TypeOK, ProcessTypeOK,
        WorkersTypeOK, RecordsTypeOK, Tracking, StartTracked
  <2>3. ActiveTracked'
    BY <1>22, <2>1
    DEF Forget, authorization, Registered, LiveStates, TypeOK, ProcessTypeOK,
        WorkersTypeOK, RecordsTypeOK, Tracking, ActiveTracked
  <2>4. QueueTracked'
    BY <1>22, <2>1
    DEF Forget, authorization, Registered, LiveStates, Tracking, QueueTracked
  <2>5. JobsTracked'
    BY <1>22, <2>1
    DEF Forget, authorization, Registered, LiveStates, TypeOK, ProcessTypeOK,
        WorkersTypeOK, RecordsTypeOK, Tracking, JobsTracked
  <2>. QED BY <2>2, <2>3, <2>4, <2>5 DEF Tracking
<1>23. ASSUME NEW j \in Jobs, OrphanWrite(j)
      PROVE  Tracking'
  BY <1>23
  DEF OrphanWrite, TypeOK, ProcessTypeOK, WorkersTypeOK, RecordsTypeOK, Tracking,
      StartTracked, ActiveTracked, QueueTracked, JobsTracked, process, workers,
      authorization, LiveStates, Registered
<1>24. CASE LaunchOther
  BY <1>24
  DEF LaunchOther, TypeOK, ProcessTypeOK, WorkersTypeOK, RecordsTypeOK, Tracking,
      StartTracked, ActiveTracked, QueueTracked, JobsTracked, process, workers,
      authorization, LiveStates, Registered
<1>25. CASE UNCHANGED vars
  BY <1>25
  DEF TypeOK, ProcessTypeOK, WorkersTypeOK, RecordsTypeOK, Tracking, StartTracked,
      ActiveTracked, QueueTracked, JobsTracked, GuiReady, vars, process, workers,
      authorization, LiveStates, Registered
<1>. QED
  BY <1>1, <1>2, <1>3, <1>4, <1>5, <1>6, <1>7, <1>8, <1>9, <1>10, <1>11, <1>12, <1>13,
     <1>14, <1>15, <1>16, <1>17, <1>18, <1>19, <1>20, <1>21, <1>22, <1>23, <1>24, <1>25
  DEF Next, GuiCalls, GuiThread, Worker, BackendStep, Exit, Crash

-----------------------------------------------------------------------------
(* What a report carries: an open status, and no more bytes than written. *)
LEMMA ReportFacts ==
    ASSUME NEW b \in BackendKinds, NEW s \in ReportingStages(b), NEW w \in 0 .. Size,
           s \in {"called", "prepared", "locked"} => w = 0
    PROVE  /\ ReportOf(b, s, w) \in Progress
           /\ ReportOf(b, s, w).status \in OpenStatuses
           /\ ReportOf(b, s, w).bytes # Null => ReportOf(b, s, w).bytes \in 0 .. w
<1>1. s \in {"called", "prepared", "locked", "written", "flushed"}
  BY DEF ReportingStages, BackendKinds
<1>2. StatusOf(b, s) \in OpenStatuses
  BY <1>1 DEF StatusOf, OpenStatuses
<1>3. KnownBytes(b, s, w) \in (0 .. w) \cup {Null}
  BY <1>1, SizeAssumption DEF KnownBytes
<1>. QED
  BY <1>2, <1>3, SizeAssumption DEF ReportOf, Progress, Statuses, Bytes

(* Where a run goes from there, given what it has written. *)
LEMMA AfterReportFacts ==
    ASSUME NEW b \in BackendKinds, NEW s \in ReportingStages(b), NEW w \in 0 .. Size,
           s \in {"called", "prepared", "locked"} => w = 0,
           s = "flushed" => w = Size, s = "locked" => b = "native"
    PROVE  /\ AfterReport(b, s, w) \in Stages
           /\ AfterReport(b, s, w) \in {"called", "prepared", "locked"} => w = 0
           /\ AfterReport(b, s, w) \in {"polling", "writing"} => w < Size
           /\ AfterReport(b, s, w) \in {"flushed", "verified"} => w = Size
           /\ AfterReport(b, s, w) = "locked" => b = "native"
           /\ AfterReport(b, s, w) = "writing" => b = "diskpart"
<1>1. /\ s \in {"called", "prepared", "locked", "written", "flushed"}
      /\ s = "prepared" => b \in {"diskpart", "native"}
  BY DEF ReportingStages, BackendKinds
<1>. QED
  BY <1>1, SizeAssumption DEF AfterReport, AfterChunk, Stages

(* Building and reading progress records, without their sets. *)
LEMMA ProgressFacts ==
    /\ NoProgress \in Progress
    /\ \A s \in Statuses, n \in Bytes : [status |-> s, bytes |-> n] \in Progress
    /\ \A r \in Progress : /\ r.status \in Statuses /\ r.bytes \in Bytes
                           /\ r = [status |-> r.status, bytes |-> r.bytes]
    /\ \A r \in Progress \cup {NoRow} :
          /\ Reconciled(r) \in Progress \cup {NoRow}
          /\ Reconciled(r) = IF RowIsOpen(r)
                             THEN [status |-> "INTERRUPTED", bytes |-> r.bytes] ELSE r
    /\ \A n \in Bytes : /\ [status |-> "PREPARING", bytes |-> n] \in Progress
                       /\ [status |-> "COMPLETE", bytes |-> n] \in Progress
                       /\ [status |-> "CANCELLED_INCOMPLETE", bytes |-> n] \in Progress
                       /\ [status |-> "ERROR", bytes |-> n] \in Progress
    /\ \A n \in 0 .. Size : n \in Bytes
    /\ Null \in Bytes /\ 0 \in Bytes /\ Size \in Bytes
    /\ OpenStatuses \cup FinishedStatuses \cup {"INTERRUPTED"} = Statuses
<1>. USE SizeAssumption DEF Progress, Statuses, OpenStatuses, FinishedStatuses, Bytes,
         NoProgress, NoRow
<1>1. NoProgress \in Progress
  OBVIOUS
<1>2. \A s \in Statuses, n \in Bytes : [status |-> s, bytes |-> n] \in Progress
  OBVIOUS
<1>3. \A r \in Progress : /\ r.status \in Statuses /\ r.bytes \in Bytes
                          /\ r = [status |-> r.status, bytes |-> r.bytes]
  OBVIOUS
<1>4. ASSUME NEW r \in Progress \cup {NoRow}
      PROVE  /\ Reconciled(r) \in Progress \cup {NoRow}
             /\ Reconciled(r) = IF RowIsOpen(r)
                                THEN [status |-> "INTERRUPTED", bytes |-> r.bytes] ELSE r
  BY DEF Reconciled, RowIsOpen
<1>. QED
  BY <1>1, <1>2, <1>3, <1>4

(* The end of the process strands the jobs that are under way, and only a   *)
(* DiskPart that was writing goes on.                                      *)
LEMMA AbandonedFacts ==
    ASSUME NEW j \in Jobs, pc[j] \in WorkerStates
    PROVE  /\ Abandoned(j) \in {"new", "gone", "lost", "orphan"}
           /\ Abandoned(j) = "new" <=> pc[j] = "new"
           /\ Abandoned(j) = "orphan" =>
                 \/ pc[j] = "orphan"
                 \/ pc[j] = "running" /\ stage[j] = "writing" /\ kind[j] = "diskpart"
           /\ pc[j] \in LiveStates => Abandoned(j) \in {"lost", "orphan"}
           /\ pc[j] \in {"lost", "orphan"} => Abandoned(j) = pc[j]
           /\ pc[j] \in {"gone", "done", "forgetting"} => Abandoned(j) = "gone"
  BY DEF Abandoned, WorkerStates, LiveStates

(* A call of report seen from outside the backend: r was to be recorded,    *)
(* seen is the byte count remembered, next the stage the run goes on to.    *)
ReportedAs(j, r, seen, next) ==
    /\ pc[j] = "running"
    /\ r.status \in OpenStatuses
    /\ r.bytes # Null => r.bytes \in 0 .. wiped[j]
    /\ next \in {"called", "prepared", "locked"} => wiped[j] = 0
    /\ next \in {"polling", "writing"} => wiped[j] < Size
    /\ next \in {"flushed", "verified"} => wiped[j] = Size
    /\ next = "locked" => kind[j] = "native"
    /\ next = "writing" => kind[j] = "diskpart"
    /\ last' = [last EXCEPT ![j] = seen]
    /\ UNCHANGED <<process, window, authorization, wiped, atCancel>>
    /\ \/ Recorded(j, r) /\ stage' = [stage EXCEPT ![j] = next]
       \/ Terminate(j, ErrorAfter(seen)) /\ UNCHANGED <<stage, rows, unrecorded>>

(* What Report does, from outside the backend.                              *)
LEMMA ReportOutcome ==
    ASSUME TypeOK, Tracking, Accounting, NEW j \in Jobs, Report(j)
    PROVE  \E r \in Progress, seen \in 0 .. wiped[j], next \in Stages :
              ReportedAs(j, r, seen, next)
<1>. DEFINE r == ReportOf(kind[j], stage[j], wiped[j])
            seen == IF r.bytes = Null THEN last[j] ELSE r.bytes
            next == AfterReport(kind[j], stage[j], wiped[j])
<1>1. /\ kind[j] \in BackendKinds /\ stage[j] \in ReportingStages(kind[j])
      /\ wiped[j] \in 0 .. Size /\ last[j] \in 0 .. wiped[j] /\ pc[j] = "running"
      /\ stage[j] \in {"called", "prepared", "locked"} => wiped[j] = 0
      /\ stage[j] = "flushed" => wiped[j] = Size
      /\ stage[j] = "locked" => kind[j] = "native"
  BY BackendsAssumption, SizeAssumption
  DEF Report, Tracking, JobsTracked, Accounting, BeforeEnd, TypeOK, WorkersTypeOK,
      RecordsTypeOK
<1>2. /\ r \in Progress /\ r.status \in OpenStatuses
      /\ r.bytes # Null => r.bytes \in 0 .. wiped[j]
      /\ seen \in 0 .. wiped[j]
  BY <1>1, ReportFacts
<1>3. /\ next \in Stages
      /\ next \in {"called", "prepared", "locked"} => wiped[j] = 0
      /\ next \in {"polling", "writing"} => wiped[j] < Size
      /\ next \in {"flushed", "verified"} => wiped[j] = Size
      /\ next = "locked" => kind[j] = "native"
      /\ next = "writing" => kind[j] = "diskpart"
  BY <1>1, AfterReportFacts
<1>4. /\ last' = [last EXCEPT ![j] = seen]
      /\ UNCHANGED <<process, window, authorization, wiped, atCancel>>
      /\ \/ Recorded(j, r) /\ stage' = [stage EXCEPT ![j] = next]
         \/ Terminate(j, ErrorAfter(seen)) /\ UNCHANGED <<stage, rows, unrecorded>>
  BY DEF Report
<1>5. ReportedAs(j, r, seen, next)
  BY <1>1, <1>2, <1>3, <1>4 DEF ReportedAs
<1>. QED
  BY <1>2, <1>3, <1>5

(* Type correctness, the process: every variable stays in its set.          *)
LEMMA ProcessTypeStep ==
    ASSUME TypeOK, Tracking, [Next]_vars
    PROVE  ProcessTypeOK'
<1>1. CASE Launch
  BY <1>1, LaunchesAssumption
  DEF Launch, TypeOK, ProcessTypeOK, workers, window, authorization, observed
<1>2. ASSUME NEW j \in Jobs, NEW d \in Disks, NEW b \in Backends, Start(j, d, b)
      PROVE  ProcessTypeOK'
  BY <1>2 DEF Start, StoreRow, TypeOK, ProcessTypeOK, GuiStates, window, observed
<1>3. ASSUME NEW d \in Disks, Cancel(d)
      PROVE  ProcessTypeOK'
  BY <1>3 DEF Cancel, TypeOK, ProcessTypeOK, workers, window, authorization
<1>4. CASE Close
  BY <1>4
  DEF Close, TypeOK, ProcessTypeOK, GuiStates, workers, window, authorization, observed
<1>5. CASE Submit
  BY <1>5
  DEF Submit, TypeOK, ProcessTypeOK, GuiStates, window, authorization, observed,
      Tracking, StartTracked
<1>6. CASE Register
  BY <1>6
  DEF Register, TypeOK, ProcessTypeOK, GuiStates, workers, window, authorization,
      observed, Tracking, StartTracked
<1>7. CASE RegisterFinished
  BY <1>7
  DEF RegisterFinished, TypeOK, ProcessTypeOK, GuiStates, workers, window,
      authorization, observed
<1>8. CASE Drain
  BY <1>8 DEF Drain, TypeOK, ProcessTypeOK, process, workers, authorization, observed
<1>9. CASE EndProcess
  BY <1>9 DEF EndProcess, TypeOK, ProcessTypeOK, GuiStates, authorization
<1>10. ASSUME NEW j \in Jobs, Take(j)
      PROVE  ProcessTypeOK'
  BY <1>10 DEF Take, TypeOK, ProcessTypeOK, window, authorization, observed
<1>11. ASSUME NEW j \in Jobs, Accept(j)
      PROVE  ProcessTypeOK'
  BY <1>11
  DEF Accept, Recorded, Unrecorded, StoreRow, TypeOK, ProcessTypeOK, process, window,
      authorization
<1>12. ASSUME NEW j \in Jobs, Announce(j)
      PROVE  ProcessTypeOK'
  BY <1>12 DEF Announce, TypeOK, ProcessTypeOK, process, authorization, observed
<1>13. ASSUME NEW j \in Jobs, Report(j)
      PROVE  ProcessTypeOK'
  BY <1>13
  DEF Report, Recorded, Terminate, StoreRow, ErrorAfter, TypeOK, ProcessTypeOK, process,
      window, authorization
<1>14. ASSUME NEW j \in Jobs, StaySilent(j)
      PROVE  ProcessTypeOK'
  BY <1>14
  DEF StaySilent, TypeOK, ProcessTypeOK, process, window, authorization, observed
<1>15. ASSUME NEW j \in Jobs, Poll(j)
      PROVE  ProcessTypeOK'
  BY <1>15
  DEF Poll, Terminate, TypeOK, ProcessTypeOK, process, window, authorization, observed
<1>16. ASSUME NEW j \in Jobs, Write(j)
      PROVE  ProcessTypeOK'
  BY <1>16 DEF Write, TypeOK, ProcessTypeOK, process, window, authorization, observed
<1>17. ASSUME NEW j \in Jobs, Fail(j)
      PROVE  ProcessTypeOK'
  BY <1>17
  DEF Fail, Terminate, ErrorAfter, TypeOK, ProcessTypeOK, process, window,
      authorization, observed
<1>18. ASSUME NEW j \in Jobs, Complete(j)
      PROVE  ProcessTypeOK'
  BY <1>18
  DEF Complete, Terminate, TypeOK, ProcessTypeOK, process, window, authorization,
      observed
<1>19. ASSUME NEW j \in Jobs, Finish(j)
      PROVE  ProcessTypeOK'
  BY <1>19
  DEF Finish, StoreRow, Unrecorded, TypeOK, ProcessTypeOK, process, window,
      authorization
<1>20. ASSUME NEW j \in Jobs, Publish(j)
      PROVE  ProcessTypeOK'
  BY <1>20 DEF Publish, TypeOK, ProcessTypeOK, process, authorization, observed
<1>21. ASSUME NEW j \in Jobs, Resolve(j)
      PROVE  ProcessTypeOK'
  BY <1>21 DEF Resolve, TypeOK, ProcessTypeOK, process, window, authorization, observed
<1>22. ASSUME NEW j \in Jobs, Forget(j)
      PROVE  ProcessTypeOK'
  BY <1>22 DEF Forget, TypeOK, ProcessTypeOK, window, authorization, observed
<1>23. ASSUME NEW j \in Jobs, OrphanWrite(j)
      PROVE  ProcessTypeOK'
  BY <1>23
  DEF OrphanWrite, TypeOK, ProcessTypeOK, process, workers, window, authorization,
      observed
<1>24. CASE LaunchOther
  BY <1>24
  DEF LaunchOther, TypeOK, ProcessTypeOK, process, workers, window, authorization,
      observed
<1>25. CASE UNCHANGED vars
  BY <1>25, LaunchesAssumption
  DEF TypeOK, ProcessTypeOK, GuiStates, vars, process, workers, window, authorization,
      observed
<1>. QED
  BY <1>1, <1>2, <1>3, <1>4, <1>5, <1>6, <1>7, <1>8, <1>9, <1>10, <1>11, <1>12, <1>13,
     <1>14, <1>15, <1>16, <1>17, <1>18, <1>19, <1>20, <1>21, <1>22, <1>23, <1>24, <1>25
  DEF Next, GuiCalls, GuiThread, Worker, BackendStep, Exit, Crash

(* Type correctness, the workers.                                           *)
LEMMA WorkersTypeStep ==
    ASSUME TypeOK, Accounting, Tracking, [Next]_vars
    PROVE  WorkersTypeOK'
<1>1. CASE Launch
  BY <1>1, SizeAssumption, ProgressFacts
  DEF Launch, TypeOK, WorkersTypeOK, WorkerStates, LiveStates, Stages, workers, window,
      authorization, observed
<1>2. ASSUME NEW j \in Jobs, NEW d \in Disks, NEW b \in Backends, Start(j, d, b)
      PROVE  WorkersTypeOK'
  BY <1>2, SizeAssumption, ProgressFacts
  DEF Start, StoreRow, TypeOK, WorkersTypeOK, WorkerStates, LiveStates, Stages, window,
      observed
<1>3. ASSUME NEW d \in Disks, Cancel(d)
      PROVE  WorkersTypeOK'
  BY <1>3, SizeAssumption, ProgressFacts
  DEF Cancel, TypeOK, WorkersTypeOK, WorkerStates, LiveStates, Stages, workers, window,
      authorization
<1>4. CASE Close
  BY <1>4, SizeAssumption, ProgressFacts
  DEF Close, TypeOK, WorkersTypeOK, WorkerStates, LiveStates, Stages, workers, window,
      authorization, observed
<1>5. CASE Submit
  BY <1>5, SizeAssumption, ProgressFacts
  DEF Submit, TypeOK, WorkersTypeOK, WorkerStates, LiveStates, Stages, window,
      authorization, observed
<1>6. CASE Register
  BY <1>6, SizeAssumption, ProgressFacts
  DEF Register, TypeOK, WorkersTypeOK, WorkerStates, LiveStates, Stages, workers,
      window, authorization, observed
<1>7. CASE RegisterFinished
  BY <1>7, SizeAssumption, ProgressFacts
  DEF RegisterFinished, TypeOK, WorkersTypeOK, WorkerStates, LiveStates, Stages,
      workers, window, authorization, observed
<1>8. CASE Drain
  BY <1>8, SizeAssumption, ProgressFacts
  DEF Drain, TypeOK, WorkersTypeOK, WorkerStates, LiveStates, Stages, process, workers,
      authorization, observed
<1>9. CASE EndProcess
  BY <1>9, SizeAssumption, ProgressFacts
  DEF EndProcess, TypeOK, WorkersTypeOK, WorkerStates, LiveStates, Stages,
      authorization, Abandoned
<1>10. ASSUME NEW j \in Jobs, Take(j)
      PROVE  WorkersTypeOK'
  BY <1>10, SizeAssumption, ProgressFacts
  DEF Take, TypeOK, WorkersTypeOK, WorkerStates, LiveStates, Stages, window,
      authorization, observed
<1>11. ASSUME NEW j \in Jobs, Accept(j)
      PROVE  WorkersTypeOK'
  BY <1>11, ProgressFacts
  DEF Accept, Recorded, Unrecorded, TypeOK, WorkersTypeOK, WorkerStates, LiveStates,
      vars, process, workers, window, authorization, observed
<1>12. ASSUME NEW j \in Jobs, Announce(j)
      PROVE  WorkersTypeOK'
  BY <1>12, SizeAssumption, ProgressFacts
  DEF Announce, TypeOK, WorkersTypeOK, WorkerStates, LiveStates, Stages, process,
      authorization, observed
<1>13. ASSUME NEW j \in Jobs, Report(j)
      PROVE  WorkersTypeOK'
  <2>1. PICK r \in Progress, seen \in 0 .. wiped[j], next \in Stages :
          ReportedAs(j, r, seen, next)
    BY <1>13, ReportOutcome
  <2>2. seen \in 0 .. Size
    BY SizeAssumption DEF TypeOK, RecordsTypeOK
  <2>3. ErrorAfter(seen) \in Progress
    BY <2>2, ProgressFacts DEF ErrorAfter
  <2>. QED
    BY <2>1, <2>2, <2>3
    DEF ReportedAs, Recorded, Terminate, TypeOK, WorkersTypeOK, WorkerStates, LiveStates
<1>14. ASSUME NEW j \in Jobs, StaySilent(j)
      PROVE  WorkersTypeOK'
  <2>1. AfterChunk(kind[j], wiped[j]) \in Stages
    BY DEF AfterChunk, Stages
  <2>. QED BY <1>14, <2>1 DEF StaySilent, TypeOK, WorkersTypeOK
<1>15. ASSUME NEW j \in Jobs, Poll(j)
      PROVE  WorkersTypeOK'
  <2>1. kind[j] \in BackendKinds /\ wiped[j] \in 0 .. Size /\ stage[j] \in Stages
        /\ pc \in [Jobs -> WorkerStates] /\ last[j] \in 0 .. Size
    BY <1>15, BackendsAssumption
    DEF Poll, JobsTracked, TypeOK, WorkersTypeOK, RecordsTypeOK, Tracking
  <2>2. [status |-> "CANCELLED_INCOMPLETE", bytes |-> wiped[j]] \in Progress
    BY <2>1, ProgressFacts
  <2>. QED
    BY <1>15, <2>1, <2>2
    DEF Poll, Terminate, TypeOK, WorkersTypeOK, Stages, WorkerStates, LiveStates
<1>16. ASSUME NEW j \in Jobs, Write(j)
      PROVE  WorkersTypeOK'
  <2>1. AfterChunk(kind[j], wiped[j] + 1) \in Stages /\ "written" \in Stages
    BY DEF AfterChunk, Stages
  <2>. QED BY <1>16, <2>1 DEF Write, TypeOK, WorkersTypeOK
<1>17. ASSUME NEW j \in Jobs, Fail(j)
      PROVE  WorkersTypeOK'
  <2>1. kind[j] \in BackendKinds /\ wiped[j] \in 0 .. Size /\ stage[j] \in Stages
        /\ pc \in [Jobs -> WorkerStates] /\ last[j] \in 0 .. Size
    BY <1>17, BackendsAssumption
    DEF Fail, JobsTracked, TypeOK, WorkersTypeOK, RecordsTypeOK, Tracking
  <2>2. ErrorAfter(last[j]) \in Progress
    BY <2>1, ProgressFacts DEF ErrorAfter
  <2>. QED
    BY <1>17, <2>1, <2>2
    DEF Fail, Terminate, TypeOK, WorkersTypeOK, WorkerStates, LiveStates
<1>18. ASSUME NEW j \in Jobs, Complete(j)
      PROVE  WorkersTypeOK'
  <2>1. kind[j] \in BackendKinds /\ wiped[j] \in 0 .. Size /\ stage[j] \in Stages
        /\ pc \in [Jobs -> WorkerStates] /\ last[j] \in 0 .. Size
    BY <1>18, BackendsAssumption
    DEF Complete, JobsTracked, TypeOK, WorkersTypeOK, RecordsTypeOK, Tracking
  <2>2. [status |-> "COMPLETE", bytes |-> Size] \in Progress
    BY <2>1, ProgressFacts DEF ErrorAfter
  <2>. QED
    BY <1>18, <2>1, <2>2
    DEF Complete, Terminate, TypeOK, WorkersTypeOK, WorkerStates, LiveStates
<1>19. ASSUME NEW j \in Jobs, Finish(j)
      PROVE  WorkersTypeOK'
  BY <1>19, SizeAssumption, ProgressFacts
  DEF Finish, StoreRow, Unrecorded, TypeOK, WorkersTypeOK, WorkerStates, LiveStates,
      Stages, process, window, authorization
<1>20. ASSUME NEW j \in Jobs, Publish(j)
      PROVE  WorkersTypeOK'
  BY <1>20, SizeAssumption, ProgressFacts
  DEF Publish, TypeOK, WorkersTypeOK, WorkerStates, LiveStates, Stages, process,
      authorization, observed
<1>21. ASSUME NEW j \in Jobs, Resolve(j)
      PROVE  WorkersTypeOK'
  BY <1>21, SizeAssumption, ProgressFacts
  DEF Resolve, TypeOK, WorkersTypeOK, WorkerStates, LiveStates, Stages, process, window,
      authorization, observed
<1>22. ASSUME NEW j \in Jobs, Forget(j)
      PROVE  WorkersTypeOK'
  BY <1>22, SizeAssumption, ProgressFacts
  DEF Forget, TypeOK, WorkersTypeOK, WorkerStates, LiveStates, Stages, window,
      authorization, observed
<1>23. ASSUME NEW j \in Jobs, OrphanWrite(j)
      PROVE  WorkersTypeOK'
  BY <1>23, SizeAssumption, ProgressFacts
  DEF OrphanWrite, TypeOK, WorkersTypeOK, WorkerStates, LiveStates, Stages, process,
      workers, window, authorization, observed
<1>24. CASE LaunchOther
  BY <1>24, SizeAssumption, ProgressFacts
  DEF LaunchOther, TypeOK, WorkersTypeOK, WorkerStates, LiveStates, Stages, process,
      workers, window, authorization, observed
<1>25. CASE UNCHANGED vars
  BY <1>25, SizeAssumption, ProgressFacts
  DEF TypeOK, WorkersTypeOK, WorkerStates, LiveStates, Stages, vars, process, workers,
      window, authorization, observed
<1>. QED
  BY <1>1, <1>2, <1>3, <1>4, <1>5, <1>6, <1>7, <1>8, <1>9, <1>10, <1>11, <1>12, <1>13,
     <1>14, <1>15, <1>16, <1>17, <1>18, <1>19, <1>20, <1>21, <1>22, <1>23, <1>24, <1>25
  DEF Next, GuiCalls, GuiThread, Worker, BackendStep, Exit, Crash

(* Type correctness, what is recorded: in particular no backend overwrites  *)
(* more than its disk.                                                      *)
LEMMA RecordsTypeStep ==
    ASSUME TypeOK, Accounting, Tracking, [Next]_vars
    PROVE  RecordsTypeOK'
<1>1. CASE Launch
  BY <1>1, SizeAssumption, ProgressFacts
  DEF Launch, TypeOK, WorkersTypeOK, RecordsTypeOK, workers, window, authorization,
      observed
<1>2. ASSUME NEW j \in Jobs, NEW d \in Disks, NEW b \in Backends, Start(j, d, b)
      PROVE  RecordsTypeOK'
  <2>1. [status |-> "PREPARING", bytes |-> Null] \in Progress
    BY ProgressFacts
  <2>. QED BY <1>2, <2>1 DEF Start, StoreRow, TypeOK, RecordsTypeOK, window, observed
<1>3. ASSUME NEW d \in Disks, Cancel(d)
      PROVE  RecordsTypeOK'
  BY <1>3, SizeAssumption, ProgressFacts
  DEF Cancel, TypeOK, WorkersTypeOK, RecordsTypeOK, workers, window, authorization
<1>4. CASE Close
  BY <1>4, SizeAssumption, ProgressFacts
  DEF Close, TypeOK, WorkersTypeOK, RecordsTypeOK, workers, window, authorization,
      observed
<1>5. CASE Submit
  BY <1>5, SizeAssumption, ProgressFacts
  DEF Submit, TypeOK, WorkersTypeOK, RecordsTypeOK, window, authorization, observed
<1>6. CASE Register
  BY <1>6, SizeAssumption, ProgressFacts
  DEF Register, TypeOK, WorkersTypeOK, RecordsTypeOK, workers, window, authorization,
      observed
<1>7. CASE RegisterFinished
  BY <1>7, SizeAssumption, ProgressFacts
  DEF RegisterFinished, TypeOK, WorkersTypeOK, RecordsTypeOK, workers, window,
      authorization, observed
<1>8. CASE Drain
  BY <1>8, SizeAssumption, ProgressFacts
  DEF Drain, TypeOK, WorkersTypeOK, RecordsTypeOK, process, workers, authorization,
      observed
<1>9. CASE EndProcess
  BY <1>9, SizeAssumption DEF EndProcess, TypeOK, RecordsTypeOK, authorization
<1>10. ASSUME NEW j \in Jobs, Take(j)
      PROVE  RecordsTypeOK'
  BY <1>10, SizeAssumption, ProgressFacts
  DEF Take, TypeOK, WorkersTypeOK, RecordsTypeOK, window, authorization, observed
<1>11. ASSUME NEW j \in Jobs, Accept(j)
      PROVE  RecordsTypeOK'
  <2>1. [status |-> "PREPARING", bytes |-> 0] \in Progress
    BY ProgressFacts
  <2>. QED
    BY <1>11, <2>1
    DEF Accept, Recorded, Unrecorded, StoreRow, TypeOK, RecordsTypeOK, window,
        authorization
<1>12. ASSUME NEW j \in Jobs, Announce(j)
      PROVE  RecordsTypeOK'
  BY <1>12, SizeAssumption, ProgressFacts
  DEF Announce, TypeOK, WorkersTypeOK, RecordsTypeOK, process, authorization, observed
<1>13. ASSUME NEW j \in Jobs, Report(j)
      PROVE  RecordsTypeOK'
  <2>1. PICK r \in Progress, seen \in 0 .. wiped[j], next \in Stages :
          ReportedAs(j, r, seen, next)
    BY <1>13, ReportOutcome
  <2>. QED
    BY <2>1
    DEF ReportedAs, Recorded, Terminate, StoreRow, TypeOK, RecordsTypeOK, window,
        authorization
<1>14. ASSUME NEW j \in Jobs, StaySilent(j)
      PROVE  RecordsTypeOK'
  BY <1>14, SizeAssumption, ProgressFacts
  DEF StaySilent, TypeOK, WorkersTypeOK, RecordsTypeOK, process, window, authorization,
      observed
<1>15. ASSUME NEW j \in Jobs, Poll(j)
      PROVE  RecordsTypeOK'
  BY <1>15, SizeAssumption, ProgressFacts
  DEF Poll, Terminate, TypeOK, WorkersTypeOK, RecordsTypeOK, process, window,
      authorization, observed
<1>16. ASSUME NEW j \in Jobs, Write(j)
      PROVE  RecordsTypeOK'
  <2>1. wiped[j] + 1 \in 0 .. Size
    BY <1>16, SizeAssumption DEF Write, Accounting, TypeOK, WorkersTypeOK, RecordsTypeOK
  <2>. QED
    BY <1>16, <2>1
    DEF Write, TypeOK, RecordsTypeOK, window, authorization, observed
<1>17. ASSUME NEW j \in Jobs, Fail(j)
      PROVE  RecordsTypeOK'
  BY <1>17, SizeAssumption, ProgressFacts
  DEF Fail, Terminate, ErrorAfter, TypeOK, WorkersTypeOK, RecordsTypeOK, process,
      window, authorization, observed
<1>18. ASSUME NEW j \in Jobs, Complete(j)
      PROVE  RecordsTypeOK'
  BY <1>18, SizeAssumption, ProgressFacts
  DEF Complete, Terminate, TypeOK, WorkersTypeOK, RecordsTypeOK, process, window,
      authorization, observed
<1>19. ASSUME NEW j \in Jobs, Finish(j)
      PROVE  RecordsTypeOK'
  BY <1>19
  DEF Finish, StoreRow, Unrecorded, TypeOK, WorkersTypeOK, RecordsTypeOK, window,
      authorization
<1>20. ASSUME NEW j \in Jobs, Publish(j)
      PROVE  RecordsTypeOK'
  BY <1>20, SizeAssumption, ProgressFacts
  DEF Publish, TypeOK, WorkersTypeOK, RecordsTypeOK, process, authorization, observed
<1>21. ASSUME NEW j \in Jobs, Resolve(j)
      PROVE  RecordsTypeOK'
  BY <1>21, SizeAssumption, ProgressFacts
  DEF Resolve, TypeOK, WorkersTypeOK, RecordsTypeOK, process, window, authorization,
      observed
<1>22. ASSUME NEW j \in Jobs, Forget(j)
      PROVE  RecordsTypeOK'
  BY <1>22, SizeAssumption, ProgressFacts
  DEF Forget, TypeOK, WorkersTypeOK, RecordsTypeOK, window, authorization, observed
<1>23. ASSUME NEW j \in Jobs, OrphanWrite(j)
      PROVE  RecordsTypeOK'
  BY <1>23, SizeAssumption, ProgressFacts
  DEF OrphanWrite, TypeOK, WorkersTypeOK, RecordsTypeOK, process, workers, window,
      authorization, observed
<1>24. CASE LaunchOther
  BY <1>24, SizeAssumption, ProgressFacts
  DEF LaunchOther, TypeOK, WorkersTypeOK, RecordsTypeOK, process, workers, window,
      authorization, observed
<1>25. CASE UNCHANGED vars
  BY <1>25, SizeAssumption, ProgressFacts
  DEF TypeOK, WorkersTypeOK, RecordsTypeOK, vars, process, workers, window,
      authorization, observed
<1>. QED
  BY <1>1, <1>2, <1>3, <1>4, <1>5, <1>6, <1>7, <1>8, <1>9, <1>10, <1>11, <1>12, <1>13,
     <1>14, <1>15, <1>16, <1>17, <1>18, <1>19, <1>20, <1>21, <1>22, <1>23, <1>24, <1>25
  DEF Next, GuiCalls, GuiThread, Worker, BackendStep, Exit, Crash

(* Stages, written chunks and remembered byte counts stay in step.          *)
LEMMA AccountingStep ==
    ASSUME TypeOK, Accounting, Tracking, [Next]_vars
    PROVE  Accounting'
<1>1. CASE Launch
  BY <1>1, SizeAssumption
  DEF Launch, TypeOK, WorkersTypeOK, RecordsTypeOK, Accounting, workers, window,
      authorization, observed, BeforeEnd
<1>2. ASSUME NEW j \in Jobs, NEW d \in Disks, NEW b \in Backends, Start(j, d, b)
      PROVE  Accounting'
  BY <1>2, SizeAssumption
  DEF Start, StoreRow, TypeOK, WorkersTypeOK, RecordsTypeOK, Accounting, window,
      observed, BeforeEnd
<1>3. ASSUME NEW d \in Disks, Cancel(d)
      PROVE  Accounting'
  BY <1>3, SizeAssumption
  DEF Cancel, TypeOK, WorkersTypeOK, RecordsTypeOK, Accounting, workers, window,
      authorization, BeforeEnd
<1>4. CASE Close
  BY <1>4, SizeAssumption
  DEF Close, TypeOK, WorkersTypeOK, RecordsTypeOK, Accounting, workers, window,
      authorization, observed, BeforeEnd
<1>5. CASE Submit
  <2>1. starting \in Jobs /\ pc[starting] = "starting"
    BY <1>5 DEF Submit, Tracking, StartTracked
  <2>. QED
    BY <1>5, <2>1
    DEF Submit, Accounting, BeforeEnd, TypeOK, WorkersTypeOK, RecordsTypeOK,
        authorization
<1>6. CASE Register
  BY <1>6, SizeAssumption
  DEF Register, TypeOK, WorkersTypeOK, RecordsTypeOK, Accounting, workers, window,
      authorization, observed, BeforeEnd
<1>7. CASE RegisterFinished
  BY <1>7, SizeAssumption
  DEF RegisterFinished, TypeOK, WorkersTypeOK, RecordsTypeOK, Accounting, workers,
      window, authorization, observed, BeforeEnd
<1>8. CASE Drain
  BY <1>8, SizeAssumption
  DEF Drain, TypeOK, WorkersTypeOK, RecordsTypeOK, Accounting, process, workers,
      authorization, observed, BeforeEnd
<1>9. CASE EndProcess
  <2>1. ASSUME NEW k \in Jobs
        PROVE  /\ pc'[k] \in {"new", "gone", "lost", "orphan"}
               /\ pc'[k] = "new" => wiped[k] = 0
    BY <1>9, <2>1, AbandonedFacts
    DEF EndProcess, Accounting, BeforeEnd, TypeOK, WorkersTypeOK
  <2>2. /\ \A k \in Jobs : wiped[k] \in 0 .. Size /\ stage'[k] = "called" /\ last'[k] = 0
        /\ wiped' = wiped
    BY <1>9 DEF EndProcess, TypeOK, RecordsTypeOK
  <2>. QED BY <2>1, <2>2, SizeAssumption DEF Accounting, BeforeEnd
<1>10. ASSUME NEW j \in Jobs, Take(j)
      PROVE  Accounting'
  <2>1. pc[j] = "queued"
    BY <1>10 DEF Take, Tracking, QueueTracked, TypeOK, ProcessTypeOK
  <2>. QED
    BY <1>10, <2>1
    DEF Take, Accounting, BeforeEnd, TypeOK, WorkersTypeOK, RecordsTypeOK, authorization
<1>11. ASSUME NEW j \in Jobs, Accept(j)
      PROVE  Accounting'
  BY <1>11, SizeAssumption
  DEF Accept, Recorded, Unrecorded, StoreRow, TypeOK, WorkersTypeOK, RecordsTypeOK,
      Accounting, process, window, authorization, BeforeEnd
<1>12. ASSUME NEW j \in Jobs, Announce(j)
      PROVE  Accounting'
  BY <1>12, SizeAssumption
  DEF Announce, TypeOK, WorkersTypeOK, RecordsTypeOK, Accounting, process,
      authorization, observed, BeforeEnd
<1>13. ASSUME NEW j \in Jobs, Report(j)
      PROVE  Accounting'
  <2>1. PICK r \in Progress, seen \in 0 .. wiped[j], next \in Stages :
          ReportedAs(j, r, seen, next)
    BY <1>13, ReportOutcome
  <2>. QED
    BY <2>1, SizeAssumption
    DEF ReportedAs, Recorded, Terminate, Accounting, BeforeEnd, TypeOK, WorkersTypeOK,
        RecordsTypeOK, authorization
<1>14. ASSUME NEW j \in Jobs, StaySilent(j)
      PROVE  Accounting'
  <2>1. kind[j] \in BackendKinds /\ wiped[j] \in 0 .. Size /\ stage[j] \in Stages
        /\ pc \in [Jobs -> WorkerStates] /\ last[j] \in 0 .. Size
    BY <1>14, BackendsAssumption
    DEF StaySilent, JobsTracked, TypeOK, WorkersTypeOK, RecordsTypeOK, Tracking
  <2>2. /\ AfterChunk(kind[j], wiped[j]) \in {"flushed", "writing", "polling"}
        /\ AfterChunk(kind[j], wiped[j]) = "flushed" <=> wiped[j] = Size
    BY DEF AfterChunk
  <2>. QED
    BY <1>14, <2>1, <2>2, SizeAssumption
    DEF StaySilent, Accounting, MayStaySilent, BeforeEnd, TypeOK, WorkersTypeOK,
        RecordsTypeOK, authorization
<1>15. ASSUME NEW j \in Jobs, Poll(j)
      PROVE  Accounting'
  BY <1>15, SizeAssumption
  DEF Poll, Terminate, TypeOK, WorkersTypeOK, RecordsTypeOK, Accounting, process,
      window, authorization, observed, BeforeEnd
<1>16. ASSUME NEW j \in Jobs, Write(j)
      PROVE  Accounting'
  <2>1. kind[j] \in BackendKinds /\ wiped[j] \in 0 .. Size /\ stage[j] \in Stages
        /\ pc \in [Jobs -> WorkerStates] /\ last[j] \in 0 .. Size
    BY <1>16, BackendsAssumption
    DEF Write, JobsTracked, TypeOK, WorkersTypeOK, RecordsTypeOK, Tracking
  <2>2. /\ AfterChunk(kind[j], wiped[j] + 1) \in {"flushed", "writing", "polling"}
        /\ AfterChunk(kind[j], wiped[j] + 1) = "flushed" <=> wiped[j] + 1 = Size
    BY DEF AfterChunk
  <2>3. wiped[j] < Size /\ pc[j] = "running"
    BY <1>16 DEF Write, Accounting
  <2>4. /\ stage'[j] \in {"flushed", "writing", "polling", "written"}
        /\ stage'[j] = "flushed" => wiped[j] + 1 = Size
        /\ stage'[j] \in {"writing", "polling"} => wiped[j] + 1 < Size
        /\ wiped'[j] = wiped[j] + 1
        /\ \A k \in Jobs \ {j} : stage'[k] = stage[k] /\ wiped'[k] = wiped[k]
        /\ pc' = pc /\ last' = last /\ kind' = kind
    BY <1>16, <2>1, <2>2, <2>3, SizeAssumption
    DEF Write, TypeOK, WorkersTypeOK, RecordsTypeOK, authorization
  <2>. QED BY <2>1, <2>3, <2>4, SizeAssumption DEF Accounting, BeforeEnd
<1>17. ASSUME NEW j \in Jobs, Fail(j)
      PROVE  Accounting'
  BY <1>17, SizeAssumption
  DEF Fail, Terminate, ErrorAfter, TypeOK, WorkersTypeOK, RecordsTypeOK, Accounting,
      process, window, authorization, observed, BeforeEnd
<1>18. ASSUME NEW j \in Jobs, Complete(j)
      PROVE  Accounting'
  BY <1>18, SizeAssumption
  DEF Complete, Terminate, TypeOK, WorkersTypeOK, RecordsTypeOK, Accounting, process,
      window, authorization, observed, BeforeEnd
<1>19. ASSUME NEW j \in Jobs, Finish(j)
      PROVE  Accounting'
  BY <1>19, SizeAssumption
  DEF Finish, StoreRow, Unrecorded, TypeOK, WorkersTypeOK, RecordsTypeOK, Accounting,
      process, window, authorization, BeforeEnd
<1>20. ASSUME NEW j \in Jobs, Publish(j)
      PROVE  Accounting'
  BY <1>20, SizeAssumption
  DEF Publish, TypeOK, WorkersTypeOK, RecordsTypeOK, Accounting, process, authorization,
      observed, BeforeEnd
<1>21. ASSUME NEW j \in Jobs, Resolve(j)
      PROVE  Accounting'
  BY <1>21, SizeAssumption
  DEF Resolve, TypeOK, WorkersTypeOK, RecordsTypeOK, Accounting, process, window,
      authorization, observed, BeforeEnd
<1>22. ASSUME NEW j \in Jobs, Forget(j)
      PROVE  Accounting'
  BY <1>22, SizeAssumption
  DEF Forget, TypeOK, WorkersTypeOK, RecordsTypeOK, Accounting, window, authorization,
      observed, BeforeEnd
<1>23. ASSUME NEW j \in Jobs, OrphanWrite(j)
      PROVE  Accounting'
  BY <1>23, SizeAssumption
  DEF OrphanWrite, TypeOK, WorkersTypeOK, RecordsTypeOK, Accounting, process, workers,
      window, authorization, observed, BeforeEnd
<1>24. CASE LaunchOther
  BY <1>24, SizeAssumption
  DEF LaunchOther, TypeOK, WorkersTypeOK, RecordsTypeOK, Accounting, process, workers,
      window, authorization, observed, BeforeEnd
<1>25. CASE UNCHANGED vars
  BY <1>25, SizeAssumption
  DEF TypeOK, WorkersTypeOK, RecordsTypeOK, Accounting, vars, process, workers, window,
      authorization, observed, BeforeEnd
<1>. QED
  BY <1>1, <1>2, <1>3, <1>4, <1>5, <1>6, <1>7, <1>8, <1>9, <1>10, <1>11, <1>12, <1>13,
     <1>14, <1>15, <1>16, <1>17, <1>18, <1>19, <1>20, <1>21, <1>22, <1>23, <1>24, <1>25
  DEF Next, GuiCalls, GuiThread, Worker, BackendStep, Exit, Crash

(* The invariant holds at first.                                            *)
LEMMA InitInv == Init => Inv
<1>. SUFFICES ASSUME Init PROVE Inv
  OBVIOUS
<1>. USE SizeAssumption, NullAssumption, LaunchesAssumption, ProgressFacts
<1>1. TypeOK
  BY
  DEF Init, TypeOK, ProcessTypeOK, WorkersTypeOK, RecordsTypeOK, GuiStates,
      WorkerStates, LiveStates, Stages
<1>2. Tracking
  BY
  DEF Init, Tracking, StartTracked, ActiveTracked, QueueTracked, JobsTracked,
      Registered, LiveStates
<1>3. Accounting
  BY DEF Init, Accounting, BeforeEnd
<1>4. Exclusion /\ Overlap /\ Cancelling
  BY DEF Init, Exclusion, Overlap, RealJobs, Cancelling
<1>. QED
  BY <1>1, <1>2, <1>3, <1>4 DEF Inv

(* start()'s same-number check, made before the job is in _active, is enough: *)
(* no other job can enter _active in between.                               *)
LEMMA ExclusionStep ==
    ASSUME TypeOK, Tracking, Exclusion, [Next]_vars
    PROVE  Exclusion'
<1>1. CASE Launch
  BY <1>1
  DEF Launch, TypeOK, ProcessTypeOK, WorkersTypeOK, RecordsTypeOK, Tracking,
      StartTracked, ActiveTracked, Exclusion, workers, window, authorization, observed
<1>2. ASSUME NEW j \in Jobs, NEW d \in Disks, NEW b \in Backends, Start(j, d, b)
      PROVE  Exclusion'
  <2>1. /\ pc[j] = "new" /\ ~DiskIsActive(d) /\ gui' = "submitting" /\ starting' = j
        /\ active' = active /\ j \notin active
        /\ \A k \in Jobs : disk'[k] = IF k = j THEN d ELSE disk[k]
    BY <1>2
    DEF Start, Tracking, ActiveTracked, TypeOK, ProcessTypeOK, WorkersTypeOK,
        RecordsTypeOK
  <2>. QED BY <2>1 DEF Exclusion, DiskIsActive, TypeOK, ProcessTypeOK
<1>3. ASSUME NEW d \in Disks, Cancel(d)
      PROVE  Exclusion'
  BY <1>3
  DEF Cancel, TypeOK, ProcessTypeOK, WorkersTypeOK, RecordsTypeOK, Tracking,
      StartTracked, ActiveTracked, Exclusion, workers, window, authorization
<1>4. CASE Close
  BY <1>4
  DEF Close, TypeOK, ProcessTypeOK, WorkersTypeOK, RecordsTypeOK, Tracking,
      StartTracked, ActiveTracked, Exclusion, workers, window, authorization, observed
<1>5. CASE Submit
  BY <1>5
  DEF Submit, TypeOK, ProcessTypeOK, WorkersTypeOK, RecordsTypeOK, Tracking,
      StartTracked, ActiveTracked, Exclusion, window, authorization, observed
<1>6. CASE Register
  BY <1>6
  DEF Register, TypeOK, ProcessTypeOK, WorkersTypeOK, RecordsTypeOK, Tracking,
      StartTracked, ActiveTracked, Exclusion, workers, window, authorization, observed
<1>7. CASE RegisterFinished
  BY <1>7
  DEF RegisterFinished, TypeOK, ProcessTypeOK, WorkersTypeOK, RecordsTypeOK, Tracking,
      StartTracked, ActiveTracked, Exclusion, workers, window, authorization, observed
<1>8. CASE Drain
  BY <1>8
  DEF Drain, TypeOK, ProcessTypeOK, WorkersTypeOK, RecordsTypeOK, Tracking,
      StartTracked, ActiveTracked, Exclusion, process, workers, authorization, observed
<1>9. CASE EndProcess
  BY <1>9
  DEF EndProcess, TypeOK, ProcessTypeOK, WorkersTypeOK, RecordsTypeOK, Tracking,
      StartTracked, ActiveTracked, Exclusion, authorization
<1>10. ASSUME NEW j \in Jobs, Take(j)
      PROVE  Exclusion'
  BY <1>10
  DEF Take, TypeOK, ProcessTypeOK, WorkersTypeOK, RecordsTypeOK, Tracking, StartTracked,
      ActiveTracked, Exclusion, window, authorization, observed
<1>11. ASSUME NEW j \in Jobs, Accept(j)
      PROVE  Exclusion'
  BY <1>11
  DEF Accept, Recorded, Unrecorded, StoreRow, TypeOK, ProcessTypeOK, WorkersTypeOK,
      RecordsTypeOK, Tracking, StartTracked, ActiveTracked, Exclusion, process, window,
      authorization
<1>12. ASSUME NEW j \in Jobs, Announce(j)
      PROVE  Exclusion'
  BY <1>12
  DEF Announce, TypeOK, ProcessTypeOK, WorkersTypeOK, RecordsTypeOK, Tracking,
      StartTracked, ActiveTracked, Exclusion, process, authorization, observed
<1>13. ASSUME NEW j \in Jobs, Report(j)
      PROVE  Exclusion'
  BY <1>13
  DEF Report, Recorded, Terminate, StoreRow, ErrorAfter, TypeOK, ProcessTypeOK,
      WorkersTypeOK, RecordsTypeOK, Tracking, StartTracked, ActiveTracked, Exclusion,
      process, window, authorization
<1>14. ASSUME NEW j \in Jobs, StaySilent(j)
      PROVE  Exclusion'
  BY <1>14
  DEF StaySilent, TypeOK, ProcessTypeOK, WorkersTypeOK, RecordsTypeOK, Tracking,
      StartTracked, ActiveTracked, Exclusion, process, window, authorization, observed
<1>15. ASSUME NEW j \in Jobs, Poll(j)
      PROVE  Exclusion'
  BY <1>15
  DEF Poll, Terminate, TypeOK, ProcessTypeOK, WorkersTypeOK, RecordsTypeOK, Tracking,
      StartTracked, ActiveTracked, Exclusion, process, window, authorization, observed
<1>16. ASSUME NEW j \in Jobs, Write(j)
      PROVE  Exclusion'
  BY <1>16
  DEF Write, TypeOK, ProcessTypeOK, WorkersTypeOK, RecordsTypeOK, Tracking,
      StartTracked, ActiveTracked, Exclusion, process, window, authorization, observed
<1>17. ASSUME NEW j \in Jobs, Fail(j)
      PROVE  Exclusion'
  BY <1>17
  DEF Fail, Terminate, ErrorAfter, TypeOK, ProcessTypeOK, WorkersTypeOK, RecordsTypeOK,
      Tracking, StartTracked, ActiveTracked, Exclusion, process, window, authorization,
      observed
<1>18. ASSUME NEW j \in Jobs, Complete(j)
      PROVE  Exclusion'
  BY <1>18
  DEF Complete, Terminate, TypeOK, ProcessTypeOK, WorkersTypeOK, RecordsTypeOK,
      Tracking, StartTracked, ActiveTracked, Exclusion, process, window, authorization,
      observed
<1>19. ASSUME NEW j \in Jobs, Finish(j)
      PROVE  Exclusion'
  BY <1>19
  DEF Finish, StoreRow, Unrecorded, TypeOK, ProcessTypeOK, WorkersTypeOK, RecordsTypeOK,
      Tracking, StartTracked, ActiveTracked, Exclusion, process, window, authorization
<1>20. ASSUME NEW j \in Jobs, Publish(j)
      PROVE  Exclusion'
  BY <1>20
  DEF Publish, TypeOK, ProcessTypeOK, WorkersTypeOK, RecordsTypeOK, Tracking,
      StartTracked, ActiveTracked, Exclusion, process, authorization, observed
<1>21. ASSUME NEW j \in Jobs, Resolve(j)
      PROVE  Exclusion'
  BY <1>21
  DEF Resolve, TypeOK, ProcessTypeOK, WorkersTypeOK, RecordsTypeOK, Tracking,
      StartTracked, ActiveTracked, Exclusion, process, window, authorization, observed
<1>22. ASSUME NEW j \in Jobs, Forget(j)
      PROVE  Exclusion'
  BY <1>22
  DEF Forget, TypeOK, ProcessTypeOK, WorkersTypeOK, RecordsTypeOK, Tracking,
      StartTracked, ActiveTracked, Exclusion, window, authorization, observed
<1>23. ASSUME NEW j \in Jobs, OrphanWrite(j)
      PROVE  Exclusion'
  BY <1>23
  DEF OrphanWrite, TypeOK, ProcessTypeOK, WorkersTypeOK, RecordsTypeOK, Tracking,
      StartTracked, ActiveTracked, Exclusion, process, workers, window, authorization,
      observed
<1>24. CASE LaunchOther
  BY <1>24
  DEF LaunchOther, TypeOK, ProcessTypeOK, WorkersTypeOK, RecordsTypeOK, Tracking,
      StartTracked, ActiveTracked, Exclusion, process, workers, window, authorization,
      observed
<1>25. CASE UNCHANGED vars
  BY <1>25
  DEF TypeOK, ProcessTypeOK, WorkersTypeOK, RecordsTypeOK, Tracking, StartTracked,
      ActiveTracked, Exclusion, vars, process, workers, window, authorization, observed
<1>. QED
  BY <1>1, <1>2, <1>3, <1>4, <1>5, <1>6, <1>7, <1>8, <1>9, <1>10, <1>11, <1>12, <1>13,
     <1>14, <1>15, <1>16, <1>17, <1>18, <1>19, <1>20, <1>21, <1>22, <1>23, <1>24, <1>25
  DEF Next, GuiCalls, GuiThread, Worker, BackendStep, Exit, Crash

(* Comparing the newcomer with one active real job is enough, because the   *)
(* others were compared when they came.                                     *)
LEMMA OverlapStep ==
    ASSUME TypeOK, Tracking, Overlap, [Next]_vars
    PROVE  Overlap'
<1>1. CASE Launch
  BY <1>1
  DEF Launch, TypeOK, ProcessTypeOK, WorkersTypeOK, RecordsTypeOK, Tracking,
      StartTracked, ActiveTracked, Overlap, RealJobs, workers, window, authorization,
      observed
<1>2. ASSUME NEW j \in Jobs, NEW d \in Disks, NEW b \in Backends, Start(j, d, b)
      PROVE  Overlap'
  <2>1. /\ pc[j] = "new" /\ MayOverlap(b) /\ gui' = "submitting" /\ starting' = j
        /\ active' = active /\ j \notin active /\ active \subseteq Jobs
        /\ \A k \in Jobs : kind'[k] = IF k = j THEN b ELSE kind[k]
    BY <1>2
    DEF Start, Tracking, ActiveTracked, TypeOK, ProcessTypeOK, WorkersTypeOK,
        RecordsTypeOK
  <2>. QED BY <2>1 DEF Overlap, MayOverlap, RealJobs
<1>3. ASSUME NEW d \in Disks, Cancel(d)
      PROVE  Overlap'
  BY <1>3
  DEF Cancel, TypeOK, ProcessTypeOK, WorkersTypeOK, RecordsTypeOK, Tracking,
      StartTracked, ActiveTracked, Overlap, RealJobs, workers, window, authorization
<1>4. CASE Close
  BY <1>4
  DEF Close, TypeOK, ProcessTypeOK, WorkersTypeOK, RecordsTypeOK, Tracking,
      StartTracked, ActiveTracked, Overlap, RealJobs, workers, window, authorization,
      observed
<1>5. CASE Submit
  BY <1>5
  DEF Submit, TypeOK, ProcessTypeOK, WorkersTypeOK, RecordsTypeOK, Tracking,
      StartTracked, ActiveTracked, Overlap, RealJobs, window, authorization, observed
<1>6. CASE Register
  BY <1>6
  DEF Register, TypeOK, ProcessTypeOK, WorkersTypeOK, RecordsTypeOK, Tracking,
      StartTracked, ActiveTracked, Overlap, RealJobs, workers, window, authorization,
      observed
<1>7. CASE RegisterFinished
  BY <1>7
  DEF RegisterFinished, TypeOK, ProcessTypeOK, WorkersTypeOK, RecordsTypeOK, Tracking,
      StartTracked, ActiveTracked, Overlap, RealJobs, workers, window, authorization,
      observed
<1>8. CASE Drain
  BY <1>8
  DEF Drain, TypeOK, ProcessTypeOK, WorkersTypeOK, RecordsTypeOK, Tracking,
      StartTracked, ActiveTracked, Overlap, RealJobs, process, workers, authorization,
      observed
<1>9. CASE EndProcess
  BY <1>9
  DEF EndProcess, TypeOK, ProcessTypeOK, WorkersTypeOK, RecordsTypeOK, Tracking,
      StartTracked, ActiveTracked, Overlap, RealJobs, authorization
<1>10. ASSUME NEW j \in Jobs, Take(j)
      PROVE  Overlap'
  BY <1>10
  DEF Take, TypeOK, ProcessTypeOK, WorkersTypeOK, RecordsTypeOK, Tracking, StartTracked,
      ActiveTracked, Overlap, RealJobs, window, authorization, observed
<1>11. ASSUME NEW j \in Jobs, Accept(j)
      PROVE  Overlap'
  BY <1>11
  DEF Accept, Recorded, Unrecorded, StoreRow, TypeOK, ProcessTypeOK, WorkersTypeOK,
      RecordsTypeOK, Tracking, StartTracked, ActiveTracked, Overlap, RealJobs, process,
      window, authorization
<1>12. ASSUME NEW j \in Jobs, Announce(j)
      PROVE  Overlap'
  BY <1>12
  DEF Announce, TypeOK, ProcessTypeOK, WorkersTypeOK, RecordsTypeOK, Tracking,
      StartTracked, ActiveTracked, Overlap, RealJobs, process, authorization, observed
<1>13. ASSUME NEW j \in Jobs, Report(j)
      PROVE  Overlap'
  BY <1>13
  DEF Report, Recorded, Terminate, StoreRow, ErrorAfter, TypeOK, ProcessTypeOK,
      WorkersTypeOK, RecordsTypeOK, Tracking, StartTracked, ActiveTracked, Overlap,
      RealJobs, process, window, authorization
<1>14. ASSUME NEW j \in Jobs, StaySilent(j)
      PROVE  Overlap'
  BY <1>14
  DEF StaySilent, TypeOK, ProcessTypeOK, WorkersTypeOK, RecordsTypeOK, Tracking,
      StartTracked, ActiveTracked, Overlap, RealJobs, process, window, authorization,
      observed
<1>15. ASSUME NEW j \in Jobs, Poll(j)
      PROVE  Overlap'
  BY <1>15
  DEF Poll, Terminate, TypeOK, ProcessTypeOK, WorkersTypeOK, RecordsTypeOK, Tracking,
      StartTracked, ActiveTracked, Overlap, RealJobs, process, window, authorization,
      observed
<1>16. ASSUME NEW j \in Jobs, Write(j)
      PROVE  Overlap'
  BY <1>16
  DEF Write, TypeOK, ProcessTypeOK, WorkersTypeOK, RecordsTypeOK, Tracking,
      StartTracked, ActiveTracked, Overlap, RealJobs, process, window, authorization,
      observed
<1>17. ASSUME NEW j \in Jobs, Fail(j)
      PROVE  Overlap'
  BY <1>17
  DEF Fail, Terminate, ErrorAfter, TypeOK, ProcessTypeOK, WorkersTypeOK, RecordsTypeOK,
      Tracking, StartTracked, ActiveTracked, Overlap, RealJobs, process, window,
      authorization, observed
<1>18. ASSUME NEW j \in Jobs, Complete(j)
      PROVE  Overlap'
  BY <1>18
  DEF Complete, Terminate, TypeOK, ProcessTypeOK, WorkersTypeOK, RecordsTypeOK,
      Tracking, StartTracked, ActiveTracked, Overlap, RealJobs, process, window,
      authorization, observed
<1>19. ASSUME NEW j \in Jobs, Finish(j)
      PROVE  Overlap'
  BY <1>19
  DEF Finish, StoreRow, Unrecorded, TypeOK, ProcessTypeOK, WorkersTypeOK, RecordsTypeOK,
      Tracking, StartTracked, ActiveTracked, Overlap, RealJobs, process, window,
      authorization
<1>20. ASSUME NEW j \in Jobs, Publish(j)
      PROVE  Overlap'
  BY <1>20
  DEF Publish, TypeOK, ProcessTypeOK, WorkersTypeOK, RecordsTypeOK, Tracking,
      StartTracked, ActiveTracked, Overlap, RealJobs, process, authorization, observed
<1>21. ASSUME NEW j \in Jobs, Resolve(j)
      PROVE  Overlap'
  BY <1>21
  DEF Resolve, TypeOK, ProcessTypeOK, WorkersTypeOK, RecordsTypeOK, Tracking,
      StartTracked, ActiveTracked, Overlap, RealJobs, process, window, authorization,
      observed
<1>22. ASSUME NEW j \in Jobs, Forget(j)
      PROVE  Overlap'
  BY <1>22
  DEF Forget, TypeOK, ProcessTypeOK, WorkersTypeOK, RecordsTypeOK, Tracking,
      StartTracked, ActiveTracked, Overlap, RealJobs, window, authorization, observed
<1>23. ASSUME NEW j \in Jobs, OrphanWrite(j)
      PROVE  Overlap'
  BY <1>23
  DEF OrphanWrite, TypeOK, ProcessTypeOK, WorkersTypeOK, RecordsTypeOK, Tracking,
      StartTracked, ActiveTracked, Overlap, RealJobs, process, workers, window,
      authorization, observed
<1>24. CASE LaunchOther
  BY <1>24
  DEF LaunchOther, TypeOK, ProcessTypeOK, WorkersTypeOK, RecordsTypeOK, Tracking,
      StartTracked, ActiveTracked, Overlap, RealJobs, process, workers, window,
      authorization, observed
<1>25. CASE UNCHANGED vars
  BY <1>25
  DEF TypeOK, ProcessTypeOK, WorkersTypeOK, RecordsTypeOK, Tracking, StartTracked,
      ActiveTracked, Overlap, RealJobs, vars, process, workers, window, authorization,
      observed
<1>. QED
  BY <1>1, <1>2, <1>3, <1>4, <1>5, <1>6, <1>7, <1>8, <1>9, <1>10, <1>11, <1>12, <1>13,
     <1>14, <1>15, <1>16, <1>17, <1>18, <1>19, <1>20, <1>21, <1>22, <1>23, <1>24, <1>25
  DEF Next, GuiCalls, GuiThread, Worker, BackendStep, Exit, Crash

(* Past the poll that found the cancel event clear there is one chunk.      *)
LEMMA CancellingStep ==
    ASSUME TypeOK, Tracking, Accounting, Cancelling, [Next]_vars
    PROVE  Cancelling'
<1>1. CASE Launch
  BY <1>1, SizeAssumption
  DEF Launch, TypeOK, ProcessTypeOK, WorkersTypeOK, RecordsTypeOK, JobsTracked,
      Tracking, Accounting, Cancelling, workers, window, authorization, observed
<1>2. ASSUME NEW j \in Jobs, NEW d \in Disks, NEW b \in Backends, Start(j, d, b)
      PROVE  Cancelling'
  BY <1>2, SizeAssumption
  DEF Start, StoreRow, TypeOK, ProcessTypeOK, WorkersTypeOK, RecordsTypeOK, JobsTracked,
      Tracking, Accounting, Cancelling, window, observed
<1>3. ASSUME NEW d \in Disks, Cancel(d)
      PROVE  Cancelling'
  BY <1>3, SizeAssumption
  DEF Cancel, TypeOK, ProcessTypeOK, WorkersTypeOK, RecordsTypeOK, JobsTracked,
      Tracking, Accounting, Cancelling, workers, window, authorization
<1>4. CASE Close
  BY <1>4, SizeAssumption
  DEF Close, TypeOK, ProcessTypeOK, WorkersTypeOK, RecordsTypeOK, JobsTracked, Tracking,
      Accounting, Cancelling, workers, window, authorization, observed
<1>5. CASE Submit
  BY <1>5, SizeAssumption
  DEF Submit, TypeOK, ProcessTypeOK, WorkersTypeOK, RecordsTypeOK, JobsTracked,
      Tracking, Accounting, Cancelling, window, authorization, observed
<1>6. CASE Register
  BY <1>6, SizeAssumption
  DEF Register, TypeOK, ProcessTypeOK, WorkersTypeOK, RecordsTypeOK, JobsTracked,
      Tracking, Accounting, Cancelling, workers, window, authorization, observed
<1>7. CASE RegisterFinished
  BY <1>7, SizeAssumption
  DEF RegisterFinished, TypeOK, ProcessTypeOK, WorkersTypeOK, RecordsTypeOK,
      JobsTracked, Tracking, Accounting, Cancelling, workers, window, authorization,
      observed
<1>8. CASE Drain
  BY <1>8, SizeAssumption
  DEF Drain, TypeOK, ProcessTypeOK, WorkersTypeOK, RecordsTypeOK, JobsTracked, Tracking,
      Accounting, Cancelling, process, workers, authorization, observed
<1>9. CASE EndProcess
  <2>1. \A k \in Jobs : pc'[k] = "orphan" => kind[k] = "diskpart"
    BY <1>9, AbandonedFacts
    DEF EndProcess, Cancelling, TypeOK, WorkersTypeOK, RecordsTypeOK
  <2>. QED BY <1>9, <2>1 DEF EndProcess, Cancelling, authorization
<1>10. ASSUME NEW j \in Jobs, Take(j)
      PROVE  Cancelling'
  BY <1>10, SizeAssumption
  DEF Take, TypeOK, ProcessTypeOK, WorkersTypeOK, RecordsTypeOK, JobsTracked, Tracking,
      Accounting, Cancelling, window, authorization, observed
<1>11. ASSUME NEW j \in Jobs, Accept(j)
      PROVE  Cancelling'
  BY <1>11, SizeAssumption
  DEF Accept, Recorded, Unrecorded, StoreRow, TypeOK, ProcessTypeOK, WorkersTypeOK,
      RecordsTypeOK, JobsTracked, Tracking, Accounting, Cancelling, process, window,
      authorization
<1>12. ASSUME NEW j \in Jobs, Announce(j)
      PROVE  Cancelling'
  BY <1>12, SizeAssumption
  DEF Announce, TypeOK, ProcessTypeOK, WorkersTypeOK, RecordsTypeOK, JobsTracked,
      Tracking, Accounting, Cancelling, process, authorization, observed
<1>13. ASSUME NEW j \in Jobs, Report(j)
      PROVE  Cancelling'
  <2>1. PICK r \in Progress, seen \in 0 .. wiped[j], next \in Stages :
          ReportedAs(j, r, seen, next)
    BY <1>13, ReportOutcome
  <2>2. pc'[j] \in {"announcing", "finishing"} /\ \A k \in Jobs \ {j} : pc'[k] = pc[k]
    BY <2>1 DEF ReportedAs, Recorded, Terminate, TypeOK, WorkersTypeOK, RecordsTypeOK
  <2>. QED
    BY <2>1, <2>2
    DEF ReportedAs, Recorded, Terminate, Cancelling, SupportsCancel, TypeOK,
        ProcessTypeOK, WorkersTypeOK, RecordsTypeOK, process, authorization
<1>14. ASSUME NEW j \in Jobs, StaySilent(j)
      PROVE  Cancelling'
  <2>1. AfterChunk("native", wiped[j]) # "writing"
    BY DEF AfterChunk
  <2>. QED
    BY <1>14, <2>1
    DEF StaySilent, MayStaySilent, Cancelling, TypeOK, WorkersTypeOK, RecordsTypeOK,
        process, authorization, observed
<1>15. ASSUME NEW j \in Jobs, Poll(j)
      PROVE  Cancelling'
  BY <1>15, SizeAssumption
  DEF Poll, Terminate, TypeOK, ProcessTypeOK, WorkersTypeOK, RecordsTypeOK, JobsTracked,
      Tracking, Accounting, Cancelling, process, window, authorization, observed
<1>16. ASSUME NEW j \in Jobs, Write(j)
      PROVE  Cancelling'
  <2>1. /\ kind[j] # "diskpart" => stage'[j] = "written"
        /\ wiped'[j] = wiped[j] + 1 /\ wiped[j] \in 0 .. Size /\ atCancel[j] \in 0 .. Size
        /\ stage[j] = "writing"
        /\ \A k \in Jobs \ {j} : stage'[k] = stage[k] /\ wiped'[k] = wiped[k]
        /\ pc' = pc /\ kind' = kind /\ cancel' = cancel /\ atCancel' = atCancel
        /\ cancel \subseteq Jobs
    BY <1>16
    DEF Write, TypeOK, ProcessTypeOK, WorkersTypeOK, RecordsTypeOK, process,
        authorization, observed
  <2>. QED BY <2>1, SizeAssumption DEF Cancelling, SupportsCancel
<1>17. ASSUME NEW j \in Jobs, Fail(j)
      PROVE  Cancelling'
  BY <1>17, SizeAssumption
  DEF Fail, Terminate, ErrorAfter, TypeOK, ProcessTypeOK, WorkersTypeOK, RecordsTypeOK,
      JobsTracked, Tracking, Accounting, Cancelling, process, window, authorization,
      observed
<1>18. ASSUME NEW j \in Jobs, Complete(j)
      PROVE  Cancelling'
  BY <1>18, SizeAssumption
  DEF Complete, Terminate, TypeOK, ProcessTypeOK, WorkersTypeOK, RecordsTypeOK,
      JobsTracked, Tracking, Accounting, Cancelling, process, window, authorization,
      observed
<1>19. ASSUME NEW j \in Jobs, Finish(j)
      PROVE  Cancelling'
  BY <1>19, SizeAssumption
  DEF Finish, StoreRow, Unrecorded, TypeOK, ProcessTypeOK, WorkersTypeOK, RecordsTypeOK,
      JobsTracked, Tracking, Accounting, Cancelling, process, window, authorization
<1>20. ASSUME NEW j \in Jobs, Publish(j)
      PROVE  Cancelling'
  BY <1>20, SizeAssumption
  DEF Publish, TypeOK, ProcessTypeOK, WorkersTypeOK, RecordsTypeOK, JobsTracked,
      Tracking, Accounting, Cancelling, process, authorization, observed
<1>21. ASSUME NEW j \in Jobs, Resolve(j)
      PROVE  Cancelling'
  BY <1>21, SizeAssumption
  DEF Resolve, TypeOK, ProcessTypeOK, WorkersTypeOK, RecordsTypeOK, JobsTracked,
      Tracking, Accounting, Cancelling, process, window, authorization, observed
<1>22. ASSUME NEW j \in Jobs, Forget(j)
      PROVE  Cancelling'
  BY <1>22, SizeAssumption
  DEF Forget, TypeOK, ProcessTypeOK, WorkersTypeOK, RecordsTypeOK, JobsTracked,
      Tracking, Accounting, Cancelling, window, authorization, observed
<1>23. ASSUME NEW j \in Jobs, OrphanWrite(j)
      PROVE  Cancelling'
  <2>1. j \notin cancel
    BY <1>23 DEF OrphanWrite, Cancelling, SupportsCancel
  <2>. QED
    BY <1>23, <2>1
    DEF OrphanWrite, Cancelling, TypeOK, ProcessTypeOK, WorkersTypeOK, RecordsTypeOK,
        process, workers, authorization, observed
<1>24. CASE LaunchOther
  BY <1>24, SizeAssumption
  DEF LaunchOther, TypeOK, ProcessTypeOK, WorkersTypeOK, RecordsTypeOK, JobsTracked,
      Tracking, Accounting, Cancelling, process, workers, window, authorization,
      observed
<1>25. CASE UNCHANGED vars
  BY <1>25, SizeAssumption
  DEF TypeOK, ProcessTypeOK, WorkersTypeOK, RecordsTypeOK, JobsTracked, Tracking,
      Accounting, Cancelling, vars, process, workers, window, authorization, observed
<1>. QED
  BY <1>1, <1>2, <1>3, <1>4, <1>5, <1>6, <1>7, <1>8, <1>9, <1>10, <1>11, <1>12, <1>13,
     <1>14, <1>15, <1>16, <1>17, <1>18, <1>19, <1>20, <1>21, <1>22, <1>23, <1>24, <1>25
  DEF Next, GuiCalls, GuiThread, Worker, BackendStep, Exit, Crash

(* The invariant is inductive.                                              *)
LEMMA StepInv == Inv /\ [Next]_vars => Inv'
BY ProcessTypeStep, WorkersTypeStep, RecordsTypeStep, TrackingStep, AccountingStep,
   ExclusionStep, OverlapStep, CancellingStep
DEF Inv, TypeOK

(* The invariant holds in every reachable state.                            *)
THEOREM Invariance == Spec => []Inv
<1>. QED
  BY InitInv, StepInv, PTL DEF Spec

(* Type correctness of the whole manager.                                   *)
THEOREM TypeCorrect == Spec => []TypeOK
<1>1. Inv => TypeOK
  BY DEF Inv
<1>. QED
  BY <1>1, Invariance, PTL

(* Two jobs whose workers have not ended never have the same disk number,   *)
(* though start() inserts the row and submits before it fills _active, and a *)
(* worker ends before _forget runs.                                         *)
THEOREM DisksExcluded == Spec => []OneLiveJobPerDisk
<1>1. Inv => OneLiveJobPerDisk
  BY
  DEF Inv, OneLiveJobPerDisk, Live, Exclusion, Tracking, StartTracked, ActiveTracked,
      Registered, LiveStates
<1>. QED
  BY <1>1, Invariance, PTL

(* Real wipes only ever overlap if their backends allow it.                 *)
THEOREM OverlapsParallel == Spec => []RealOverlapIsParallel
<1>1. Inv => RealOverlapIsParallel
  BY
  DEF Inv, RealOverlapIsParallel, Live, RealJobs, Overlap, Tracking, StartTracked,
      ActiveTracked, Registered, LiveStates
<1>. QED
  BY <1>1, Invariance, PTL

(* closeEvent's look at _active before shutdown(wait=True) is enough: the   *)
(* window never waits for a worker.                                         *)
THEOREM CloseIsQuick == Spec => []CloseFindsNothingRunning
<1>1. Inv => CloseFindsNothingRunning
  BY
  DEF Inv, CloseFindsNothingRunning, Tracking, ActiveTracked, Registered, BusyStates,
      LiveStates
<1>. QED
  BY <1>1, Invariance, PTL

(* However the cancel call falls between a poll and a write, a cancelled job *)
(* writes at most one more chunk.                                           *)
THEOREM CancelIsPrompt == Spec => []CancelStopsWriting
<1>1. Inv => CancelStopsWriting
  BY DEF Inv, CancelStopsWriting, Cancelling
<1>. QED
  BY <1>1, Invariance, PTL

-----------------------------------------------------------------------------
(* How jobs leave _active: the safety half of SubmittedJobsAreForgotten.    *)

(***************************************************************************)
(* Whatever is in _active is on its way out.  Its worker is queued, under  *)
(* way or about to call _forget; a future that finished before its         *)
(* callback was registered is the one start() is still working on; and a   *)
(* job whose callback is missing has start() to register it.               *)
(***************************************************************************)
Expected ==
    /\ active \subseteq {j \in Jobs : pc[j] \in Registered}
    /\ \A j \in Jobs : pc[j] = "queued" => \E i \in 1 .. Len(queue) : queue[i] = j
    /\ \A j \in Jobs : pc[j] = "done" =>
          j = starting /\ gui \in {"registering", "blocked"}
    /\ \A j \in callback : pc[j] \notin {"new", "starting"}
    /\ gui = "registering" => starting \in active \ callback
    /\ gui = "blocked" => pc[starting] = "done"
    /\ \A j \in active \ callback : j = starting /\ gui \in {"registering", "blocked"}

(* The points a run of backend b comes past. *)
StagesOf(b) ==
    CASE b = "simulation" -> Stages \ {"prepared", "locked"}
      [] b = "diskpart" -> {"called", "prepared", "writing", "flushed", "verified"}
      [] b = "native" -> Stages

(* A run is always at a point its backend comes past, so one of the         *)
(* branches of run() goes on from there.                                    *)
Fitting ==
    \A j \in Jobs : pc[j] \in {"running", "announcing"} => stage[j] \in StagesOf(kind[j])

(* A worker in the middle of its run changes nothing of this. *)
LEMMA WorkerKeepsExpected ==
    ASSUME TypeOK, Tracking, Expected, NEW j \in Jobs,
           pc[j] \in Registered \ {"queued", "done"},
           pc'[j] \in Registered \ {"queued", "done"},
           \A k \in Jobs \ {j} : pc'[k] = pc[k], UNCHANGED process
    PROVE  Expected'
<1>1. \A k \in Jobs : pc'[k] = "queued" => \E i \in 1 .. Len(queue') : queue'[i] = k
  BY DEF Expected, process
<1>2. active' \subseteq {k \in Jobs : pc'[k] \in Registered}
  BY DEF Expected, process
<1>3. \A k \in Jobs : pc'[k] = "done" => k = starting /\ gui \in {"registering", "blocked"}
  BY DEF Expected
<1>4. \A k \in callback : pc'[k] \notin {"new", "starting"}
  BY DEF Expected, Registered, LiveStates, TypeOK, ProcessTypeOK
<1>5. gui = "blocked" => pc'[starting] = "done"
  BY DEF Expected, Tracking, StartTracked
<1>. QED
  BY <1>1, <1>2, <1>3, <1>4, <1>5 DEF Expected, process

(* What is in _active stays on its way out.                                 *)
LEMMA ExpectedStep ==
    ASSUME TypeOK, Tracking, Expected, [Next]_vars
    PROVE  Expected'
<1>1. CASE Launch
  BY <1>1
  DEF Launch, workers, Expected, Tracking, StartTracked, ActiveTracked,
      Registered, LiveStates, TypeOK, ProcessTypeOK, WorkersTypeOK,
      RecordsTypeOK
<1>2. ASSUME NEW j \in Jobs, NEW d \in Disks, NEW b \in Backends, Start(j, d, b)
      PROVE  Expected'
  BY <1>2
  DEF Start, GuiReady, Expected, Tracking, StartTracked, ActiveTracked,
      Registered, LiveStates, TypeOK, ProcessTypeOK, WorkersTypeOK,
      RecordsTypeOK
<1>3. ASSUME NEW d \in Disks, Cancel(d)
      PROVE  Expected'
  BY <1>3
  DEF Cancel, GuiReady, workers, Expected, Tracking, StartTracked,
      ActiveTracked, Registered, LiveStates, TypeOK, ProcessTypeOK,
      WorkersTypeOK, RecordsTypeOK
<1>4. CASE Close
  BY <1>4
  DEF Close, GuiReady, workers, Expected, Tracking, StartTracked, ActiveTracked,
      Registered, LiveStates, TypeOK, ProcessTypeOK, WorkersTypeOK,
      RecordsTypeOK
<1>5. CASE Submit
  <2>1. /\ starting \in Jobs /\ pc[starting] = "starting" /\ gui = "submitting"
        /\ active' = active \cup {starting} /\ gui' = "registering"
        /\ callback' = callback /\ starting' = starting
        /\ \A k \in Jobs : pc'[k] = IF k = starting THEN "queued" ELSE pc[k]
    BY <1>5
    DEF Submit, Tracking, StartTracked, TypeOK, ProcessTypeOK, WorkersTypeOK
  <2>2. /\ Len(queue') = Len(queue) + 1 /\ Len(queue) \in Nat
        /\ \A i \in 1 .. Len(queue) : queue'[i] = queue[i]
        /\ queue'[Len(queue) + 1] = starting
    BY <1>5 DEF Submit, TypeOK, ProcessTypeOK
  <2>3. \A k \in Jobs : pc'[k] = "queued" => \E i \in 1 .. Len(queue') : queue'[i] = k
    <3>1. \A k \in Jobs : pc[k] = "queued" => \E i \in 1 .. Len(queue) : queue[i] = k
      BY DEF Expected
    <3>. QED BY <2>1, <2>2, <3>1
  <2>4. \A k \in Jobs : pc[k] # "done"
    BY <2>1 DEF Expected
  <2>5. starting \notin callback /\ active \subseteq callback
    BY <2>1 DEF Expected
  <2>6. active' \subseteq {k \in Jobs : pc'[k] \in Registered}
    BY <2>1 DEF Expected, Registered, LiveStates
  <2>7. \A k \in callback' : pc'[k] \notin {"new", "starting"}
    BY <2>1 DEF Expected, TypeOK, ProcessTypeOK
  <2>. QED
    BY <2>1, <2>3, <2>4, <2>5, <2>6, <2>7 DEF Expected
<1>6. CASE Register
  BY <1>6
  DEF Register, workers, Expected, Tracking, StartTracked, ActiveTracked,
      Registered, LiveStates, TypeOK, ProcessTypeOK, WorkersTypeOK,
      RecordsTypeOK
<1>7. CASE RegisterFinished
  BY <1>7
  DEF RegisterFinished, workers, Expected, Tracking, StartTracked,
      ActiveTracked, Registered, LiveStates, TypeOK, ProcessTypeOK,
      WorkersTypeOK, RecordsTypeOK
<1>8. CASE Drain
  BY <1>8
  DEF Drain, process, workers, Expected, Tracking, StartTracked, ActiveTracked,
      Registered, LiveStates, TypeOK, ProcessTypeOK, WorkersTypeOK,
      RecordsTypeOK
<1>9. CASE EndProcess
  <2>1. \A k \in Jobs : pc'[k] \notin {"queued", "done"}
    BY <1>9, AbandonedFacts DEF EndProcess, TypeOK, WorkersTypeOK
  <2>. QED BY <1>9, <2>1 DEF EndProcess, Expected
<1>10. ASSUME NEW j \in Jobs, Take(j)
       PROVE  Expected'
  <2>1. /\ queue \in Seq(Jobs) /\ queue # << >> /\ queue[1] = j /\ queue' = Tail(queue)
        /\ \A k \in Jobs : pc'[k] = IF k = j THEN "accepting" ELSE pc[k]
        /\ UNCHANGED <<gui, starting, active, callback>>
    BY <1>10 DEF Take, TypeOK, ProcessTypeOK, WorkersTypeOK
  <2>2. /\ Len(queue') = Len(queue) - 1 /\ Len(queue) \in Nat \ {0}
        /\ \A i \in 1 .. Len(queue) - 1 : queue'[i] = queue[i + 1]
    BY <2>1
  <2>3. pc[j] = "queued"
    BY <2>1, <2>2 DEF Tracking, QueueTracked
  <2>4. ASSUME NEW k \in Jobs, pc'[k] = "queued"
        PROVE  \E i \in 1 .. Len(queue') : queue'[i] = k
    <3>1. PICK i \in 1 .. Len(queue) : queue[i] = k
      BY <2>1, <2>4 DEF Expected
    <3>2. i # 1
      BY <2>1, <2>4, <3>1
    <3>3. i - 1 \in 1 .. Len(queue') /\ queue'[i - 1] = k
      BY <2>2, <3>1, <3>2
    <3>. QED BY <3>3
  <2>5. active' \subseteq {k \in Jobs : pc'[k] \in Registered}
    BY <2>1 DEF Expected, Registered, LiveStates
  <2>6. \A k \in callback' : pc'[k] \notin {"new", "starting"}
    BY <2>1 DEF Expected, TypeOK, ProcessTypeOK
  <2>7. \A k \in Jobs : pc'[k] = "done" <=> pc[k] = "done"
    BY <2>1, <2>3
  <2>8. gui = "blocked" => starting \in Jobs
    BY DEF Tracking, StartTracked
  <2>. QED
    BY <2>1, <2>4, <2>5, <2>6, <2>7, <2>8 DEF Expected
<1>11. ASSUME NEW j \in Jobs, Accept(j)
       PROVE  Expected'
  <2>1. /\ pc[j] \in Registered \ {"queued", "done"}
        /\ pc'[j] \in Registered \ {"queued", "done"}
        /\ \A k \in Jobs \ {j} : pc'[k] = pc[k]
        /\ UNCHANGED process
    BY <1>11
    DEF Accept, Recorded, Unrecorded, Registered, LiveStates, TypeOK, WorkersTypeOK
  <2>. QED BY <2>1, WorkerKeepsExpected
<1>12. ASSUME NEW j \in Jobs, Announce(j)
       PROVE  Expected'
  <2>1. /\ pc[j] \in Registered \ {"queued", "done"}
        /\ pc'[j] \in Registered \ {"queued", "done"}
        /\ \A k \in Jobs \ {j} : pc'[k] = pc[k]
        /\ UNCHANGED process
    BY <1>12
    DEF Announce, Registered, LiveStates, TypeOK, WorkersTypeOK
  <2>. QED BY <2>1, WorkerKeepsExpected
<1>13. ASSUME NEW j \in Jobs, Report(j)
       PROVE  Expected'
  <2>1. /\ pc[j] \in Registered \ {"queued", "done"}
        /\ pc'[j] \in Registered \ {"queued", "done"}
        /\ \A k \in Jobs \ {j} : pc'[k] = pc[k]
        /\ UNCHANGED process
    BY <1>13
    DEF Report, Recorded, Terminate, Registered, LiveStates, TypeOK, WorkersTypeOK
  <2>. QED BY <2>1, WorkerKeepsExpected
<1>14. ASSUME NEW j \in Jobs, StaySilent(j)
       PROVE  Expected'
  <2>1. /\ pc[j] \in Registered \ {"queued", "done"}
        /\ pc'[j] \in Registered \ {"queued", "done"}
        /\ \A k \in Jobs \ {j} : pc'[k] = pc[k]
        /\ UNCHANGED process
    BY <1>14
    DEF StaySilent, Registered, LiveStates, TypeOK, WorkersTypeOK
  <2>. QED BY <2>1, WorkerKeepsExpected
<1>15. ASSUME NEW j \in Jobs, Poll(j)
       PROVE  Expected'
  <2>1. /\ pc[j] \in Registered \ {"queued", "done"}
        /\ pc'[j] \in Registered \ {"queued", "done"}
        /\ \A k \in Jobs \ {j} : pc'[k] = pc[k]
        /\ UNCHANGED process
    BY <1>15
    DEF Poll, Terminate, Registered, LiveStates, TypeOK, WorkersTypeOK
  <2>. QED BY <2>1, WorkerKeepsExpected
<1>16. ASSUME NEW j \in Jobs, Write(j)
       PROVE  Expected'
  <2>1. /\ pc[j] \in Registered \ {"queued", "done"}
        /\ pc'[j] \in Registered \ {"queued", "done"}
        /\ \A k \in Jobs \ {j} : pc'[k] = pc[k]
        /\ UNCHANGED process
    BY <1>16
    DEF Write, Registered, LiveStates, TypeOK, WorkersTypeOK
  <2>. QED BY <2>1, WorkerKeepsExpected
<1>17. ASSUME NEW j \in Jobs, Fail(j)
       PROVE  Expected'
  <2>1. /\ pc[j] \in Registered \ {"queued", "done"}
        /\ pc'[j] \in Registered \ {"queued", "done"}
        /\ \A k \in Jobs \ {j} : pc'[k] = pc[k]
        /\ UNCHANGED process
    BY <1>17
    DEF Fail, Terminate, Registered, LiveStates, TypeOK, WorkersTypeOK
  <2>. QED BY <2>1, WorkerKeepsExpected
<1>18. ASSUME NEW j \in Jobs, Complete(j)
       PROVE  Expected'
  <2>1. /\ pc[j] \in Registered \ {"queued", "done"}
        /\ pc'[j] \in Registered \ {"queued", "done"}
        /\ \A k \in Jobs \ {j} : pc'[k] = pc[k]
        /\ UNCHANGED process
    BY <1>18
    DEF Complete, Terminate, Registered, LiveStates, TypeOK, WorkersTypeOK
  <2>. QED BY <2>1, WorkerKeepsExpected
<1>19. ASSUME NEW j \in Jobs, Finish(j)
       PROVE  Expected'
  <2>1. /\ pc[j] \in Registered \ {"queued", "done"}
        /\ pc'[j] \in Registered \ {"queued", "done"}
        /\ \A k \in Jobs \ {j} : pc'[k] = pc[k]
        /\ UNCHANGED process
    BY <1>19
    DEF Finish, Unrecorded, Registered, LiveStates, TypeOK, WorkersTypeOK
  <2>. QED BY <2>1, WorkerKeepsExpected
<1>20. ASSUME NEW j \in Jobs, Publish(j)
       PROVE  Expected'
  <2>1. /\ pc[j] \in Registered \ {"queued", "done"}
        /\ pc'[j] \in Registered \ {"queued", "done"}
        /\ \A k \in Jobs \ {j} : pc'[k] = pc[k]
        /\ UNCHANGED process
    BY <1>20
    DEF Publish, Registered, LiveStates, TypeOK, WorkersTypeOK
  <2>. QED BY <2>1, WorkerKeepsExpected
<1>21. ASSUME NEW j \in Jobs, Resolve(j)
       PROVE  Expected'
  BY <1>21
  DEF Resolve, process, Expected, Tracking, StartTracked, ActiveTracked,
      Registered, LiveStates, TypeOK, ProcessTypeOK, WorkersTypeOK,
      RecordsTypeOK
<1>22. ASSUME NEW j \in Jobs, Forget(j)
       PROVE  Expected'
  BY <1>22
  DEF Forget, LockFree, Expected, Tracking, StartTracked, ActiveTracked,
      Registered, LiveStates, TypeOK, ProcessTypeOK, WorkersTypeOK,
      RecordsTypeOK
<1>23. ASSUME NEW j \in Jobs, OrphanWrite(j)
       PROVE  Expected'
  BY <1>23
  DEF OrphanWrite, process, workers, Expected, Tracking, StartTracked,
      ActiveTracked, Registered, LiveStates, TypeOK, ProcessTypeOK,
      WorkersTypeOK, RecordsTypeOK
<1>24. CASE LaunchOther
  BY <1>24
  DEF LaunchOther, process, workers, Expected, Tracking, StartTracked,
      ActiveTracked, Registered, LiveStates, TypeOK, ProcessTypeOK,
      WorkersTypeOK, RecordsTypeOK
<1>25. CASE UNCHANGED vars
  BY <1>25
  DEF vars, process, workers, Expected, Tracking, StartTracked, ActiveTracked,
      Registered, LiveStates, TypeOK, ProcessTypeOK, WorkersTypeOK,
      RecordsTypeOK
<1>. QED
  BY <1>1, <1>2, <1>3, <1>4, <1>5, <1>6, <1>7, <1>8, <1>9, <1>10, <1>11, <1>12,
     <1>13, <1>14, <1>15, <1>16, <1>17, <1>18, <1>19, <1>20, <1>21, <1>22,
     <1>23, <1>24, <1>25
  DEF Next, GuiCalls, GuiThread, Worker, BackendStep, Exit, Crash

(* No backend ever leaves its own path. *)
LEMMA PathFacts ==
    ASSUME NEW b \in BackendKinds, NEW s \in StagesOf(b), NEW w \in 0 .. Size
    PROVE  /\ "called" \in StagesOf(b) /\ "flushed" \in StagesOf(b)
           /\ s \in ReportingStages(b) => AfterReport(b, s, w) \in StagesOf(b)
           /\ AfterChunk(b, w) \in StagesOf(b)
           /\ s \in {"polling", "writing"} => "writing" \in StagesOf(b)
           /\ b # "diskpart" => "written" \in StagesOf(b)
           /\ s \in ReportingStages(b) \cup {"polling", "writing", "verified"}
  BY DEF StagesOf, Stages, BackendKinds, ReportingStages, AfterReport, AfterChunk

(* Every step leaves every run on its path.                                 *)
LEMMA FittingStep ==
    ASSUME TypeOK, Tracking, Accounting, Fitting, [Next]_vars
    PROVE  Fitting'
<1>. USE BackendsAssumption, SizeAssumption
<1>1. CASE Launch
  BY <1>1
  DEF Launch, workers, authorization, Fitting, Tracking, JobsTracked, TypeOK,
      ProcessTypeOK, WorkersTypeOK, RecordsTypeOK
<1>2. ASSUME NEW j \in Jobs, NEW d \in Disks, NEW b \in Backends, Start(j, d, b)
      PROVE  Fitting'
  BY <1>2
  DEF Start, Fitting, Tracking, JobsTracked, TypeOK, ProcessTypeOK,
      WorkersTypeOK, RecordsTypeOK
<1>3. ASSUME NEW d \in Disks, Cancel(d)
      PROVE  Fitting'
  BY <1>3
  DEF Cancel, workers, authorization, Fitting, Tracking, JobsTracked, TypeOK,
      ProcessTypeOK, WorkersTypeOK, RecordsTypeOK
<1>4. CASE Close
  BY <1>4
  DEF Close, workers, authorization, Fitting, Tracking, JobsTracked, TypeOK,
      ProcessTypeOK, WorkersTypeOK, RecordsTypeOK
<1>5. CASE Submit
  BY <1>5
  DEF Submit, authorization, Fitting, Tracking, JobsTracked, TypeOK,
      ProcessTypeOK, WorkersTypeOK, RecordsTypeOK
<1>6. CASE Register
  BY <1>6
  DEF Register, workers, authorization, Fitting, Tracking, JobsTracked, TypeOK,
      ProcessTypeOK, WorkersTypeOK, RecordsTypeOK
<1>7. CASE RegisterFinished
  BY <1>7
  DEF RegisterFinished, workers, authorization, Fitting, Tracking, JobsTracked,
      TypeOK, ProcessTypeOK, WorkersTypeOK, RecordsTypeOK
<1>8. CASE Drain
  BY <1>8
  DEF Drain, process, workers, authorization, Fitting, Tracking, JobsTracked,
      TypeOK, ProcessTypeOK, WorkersTypeOK, RecordsTypeOK
<1>9. CASE EndProcess
  <2>1. \A k \in Jobs : pc'[k] \notin {"running", "announcing"}
    BY <1>9, AbandonedFacts DEF EndProcess, TypeOK, WorkersTypeOK
  <2>. QED BY <2>1 DEF Fitting
<1>10. ASSUME NEW j \in Jobs, Take(j)
       PROVE  Fitting'
  BY <1>10
  DEF Take, authorization, Fitting, Tracking, JobsTracked, TypeOK,
      ProcessTypeOK, WorkersTypeOK, RecordsTypeOK
<1>11. ASSUME NEW j \in Jobs, Accept(j)
       PROVE  Fitting'
  <2>1. /\ j \in Jobs /\ kind[j] \in BackendKinds /\ kind' = kind
        /\ \A k \in Jobs \ {j} : pc'[k] = pc[k] /\ stage'[k] = stage[k]
        /\ wiped[j] \in 0 .. Size
    BY <1>11
    DEF Accept, Recorded, Unrecorded, Tracking, JobsTracked, authorization, TypeOK,
        WorkersTypeOK, RecordsTypeOK
  <2>2. stage'[j] = "called"
    BY <1>11 DEF Accept, Accounting
  <2>. QED BY <2>1, <2>2 DEF Fitting, StagesOf, Stages, BackendKinds
<1>12. ASSUME NEW j \in Jobs, Announce(j)
       PROVE  Fitting'
  BY <1>12
  DEF Announce, process, authorization, Fitting, Tracking, JobsTracked, TypeOK,
      ProcessTypeOK, WorkersTypeOK, RecordsTypeOK
<1>13. ASSUME NEW j \in Jobs, Report(j)
       PROVE  Fitting'
  <2>1. /\ j \in Jobs /\ kind[j] \in BackendKinds /\ kind' = kind
        /\ \A k \in Jobs \ {j} : pc'[k] = pc[k] /\ stage'[k] = stage[k]
        /\ wiped[j] \in 0 .. Size
    BY <1>13
    DEF Report, Recorded, Terminate, Tracking, JobsTracked, authorization, TypeOK,
        WorkersTypeOK, RecordsTypeOK
  <2>2. pc'[j] = "announcing" => stage'[j] \in StagesOf(kind[j])
    BY <1>13, <2>1, PathFacts
    DEF Report, Recorded, Terminate, Fitting, TypeOK, WorkersTypeOK
  <2>3. pc'[j] # "running"
    BY <1>13 DEF Report, Recorded, Terminate, TypeOK, WorkersTypeOK
  <2>. QED BY <2>1, <2>2, <2>3 DEF Fitting
<1>14. ASSUME NEW j \in Jobs, StaySilent(j)
       PROVE  Fitting'
  <2>1. /\ j \in Jobs /\ kind[j] \in BackendKinds /\ kind' = kind
        /\ \A k \in Jobs \ {j} : pc'[k] = pc[k] /\ stage'[k] = stage[k]
        /\ wiped[j] \in 0 .. Size
    BY <1>14
    DEF StaySilent, Tracking, JobsTracked, authorization, TypeOK, WorkersTypeOK,
        RecordsTypeOK
  <2>2. stage'[j] \in StagesOf(kind[j])
    BY <1>14, <2>1, PathFacts DEF StaySilent, Fitting, TypeOK, WorkersTypeOK
  <2>. QED BY <2>1, <2>2 DEF Fitting
<1>15. ASSUME NEW j \in Jobs, Poll(j)
       PROVE  Fitting'
  <2>1. /\ j \in Jobs /\ kind[j] \in BackendKinds /\ kind' = kind
        /\ \A k \in Jobs \ {j} : pc'[k] = pc[k] /\ stage'[k] = stage[k]
        /\ wiped[j] \in 0 .. Size
    BY <1>15
    DEF Poll, Terminate, Tracking, JobsTracked, authorization, TypeOK, WorkersTypeOK,
        RecordsTypeOK
  <2>2. stage'[j] \in {stage[j], "writing"} /\ stage[j] = "polling" /\ pc[j] = "running"
    BY <1>15 DEF Poll, Terminate, TypeOK, WorkersTypeOK
  <2>3. stage'[j] \in StagesOf(kind[j])
    BY <2>1, <2>2, PathFacts DEF Fitting
  <2>. QED BY <2>1, <2>3 DEF Fitting
<1>16. ASSUME NEW j \in Jobs, Write(j)
       PROVE  Fitting'
  <2>1. /\ j \in Jobs /\ kind[j] \in BackendKinds /\ kind' = kind
        /\ \A k \in Jobs \ {j} : pc'[k] = pc[k] /\ stage'[k] = stage[k]
        /\ wiped[j] \in 0 .. Size
    BY <1>16
    DEF Write, Tracking, JobsTracked, authorization, TypeOK, WorkersTypeOK,
        RecordsTypeOK
  <2>2. kind[j] = "diskpart" => stage'[j] \in {"writing", "flushed"}
    BY <1>16 DEF Write, AfterChunk, TypeOK, WorkersTypeOK
  <2>3. kind[j] # "diskpart" => stage'[j] = "written"
    BY <1>16 DEF Write, TypeOK, WorkersTypeOK
  <2>4. stage'[j] \in StagesOf(kind[j])
    BY <1>16, <2>1, <2>2, <2>3, PathFacts DEF Write, Fitting
  <2>. QED BY <2>1, <2>4 DEF Fitting
<1>17. ASSUME NEW j \in Jobs, Fail(j)
       PROVE  Fitting'
  BY <1>17
  DEF Fail, Terminate, process, authorization, Fitting, Tracking, JobsTracked,
      TypeOK, ProcessTypeOK, WorkersTypeOK, RecordsTypeOK
<1>18. ASSUME NEW j \in Jobs, Complete(j)
       PROVE  Fitting'
  BY <1>18
  DEF Complete, Terminate, process, authorization, Fitting, Tracking,
      JobsTracked, TypeOK, ProcessTypeOK, WorkersTypeOK, RecordsTypeOK
<1>19. ASSUME NEW j \in Jobs, Finish(j)
       PROVE  Fitting'
  BY <1>19
  DEF Finish, Unrecorded, process, authorization, Fitting, Tracking,
      JobsTracked, TypeOK, ProcessTypeOK, WorkersTypeOK, RecordsTypeOK
<1>20. ASSUME NEW j \in Jobs, Publish(j)
       PROVE  Fitting'
  BY <1>20
  DEF Publish, process, authorization, Fitting, Tracking, JobsTracked, TypeOK,
      ProcessTypeOK, WorkersTypeOK, RecordsTypeOK
<1>21. ASSUME NEW j \in Jobs, Resolve(j)
       PROVE  Fitting'
  BY <1>21
  DEF Resolve, process, authorization, Fitting, Tracking, JobsTracked, TypeOK,
      ProcessTypeOK, WorkersTypeOK, RecordsTypeOK
<1>22. ASSUME NEW j \in Jobs, Forget(j)
       PROVE  Fitting'
  BY <1>22
  DEF Forget, authorization, Fitting, Tracking, JobsTracked, TypeOK,
      ProcessTypeOK, WorkersTypeOK, RecordsTypeOK
<1>23. ASSUME NEW j \in Jobs, OrphanWrite(j)
       PROVE  Fitting'
  BY <1>23
  DEF OrphanWrite, process, workers, authorization, Fitting, Tracking,
      JobsTracked, TypeOK, ProcessTypeOK, WorkersTypeOK, RecordsTypeOK
<1>24. CASE LaunchOther
  BY <1>24
  DEF LaunchOther, process, workers, authorization, Fitting, Tracking,
      JobsTracked, TypeOK, ProcessTypeOK, WorkersTypeOK, RecordsTypeOK
<1>25. CASE UNCHANGED vars
  BY <1>25
  DEF vars, process, workers, authorization, Fitting, Tracking, JobsTracked,
      TypeOK, ProcessTypeOK, WorkersTypeOK, RecordsTypeOK
<1>. QED
  BY <1>1, <1>2, <1>3, <1>4, <1>5, <1>6, <1>7, <1>8, <1>9, <1>10, <1>11, <1>12,
     <1>13, <1>14, <1>15, <1>16, <1>17, <1>18, <1>19, <1>20, <1>21, <1>22,
     <1>23, <1>24, <1>25
  DEF Next, GuiCalls, GuiThread, Worker, BackendStep, Exit, Crash

(* The conjuncts hold together, from the first state on.                    *)
THEOREM RunsInvariance == Spec => [](Inv /\ Expected /\ Fitting)
<1>1. Init => Expected /\ Fitting
  BY DEF Init, Expected, Fitting, Registered, LiveStates
<1>2. Inv /\ Expected /\ Fitting /\ [Next]_vars => Inv' /\ Expected' /\ Fitting'
  BY StepInv, ExpectedStep, FittingStep DEF Inv
<1>. QED
  BY <1>1, <1>2, InitInv, PTL DEF Spec

(* The next thing the worker of job j does needs nobody else: a free thread *)
(* for the job at the head of the queue, the lock for _forget.              *)
MayStep(j) ==
    \/ /\ pc[j] = "queued" /\ queue # << >> /\ Head(queue) = j
       /\ Cardinality({k \in Jobs : pc[k] \in BusyStates}) < MaxWorkers
    \/ pc[j] \in {"accepting", "announcing", "finishing", "publishing", "ended"}
    \/ /\ pc[j] = "running"
       /\ stage[j] \in ReportingStages(kind[j]) \cup {"polling", "writing", "verified"}
    \/ pc[j] = "forgetting" /\ LockFree

(* Nobody waits for everybody: as long as there is a job in _active, the    *)
(* GUI thread is inside start(), or the worker of one of these jobs can     *)
(* take its next step.  So no entry of _active is ever left without a       *)
(* thread that will remove it, except by a start() that blocks itself.      *)
SomebodyMoves ==
    active # {} /\ LockFree => \E j \in active : MayStep(j)

(* A busy worker can always go on; without one, the head of the queue can   *)
(* start, and a job that is neither queued nor busy is start()'s own.       *)
THEOREM WorkersNeverStall == Spec => []SomebodyMoves
<1>1. Inv /\ Expected /\ Fitting => SomebodyMoves
  <2> SUFFICES ASSUME Inv, Expected, Fitting, active # {}, LockFree
               PROVE  \E j \in active : MayStep(j)
    BY DEF SomebodyMoves
  <2>. DEFINE Busy == {k \in Jobs : pc[k] \in BusyStates}
  <2>1. CASE Busy # {}
    <3>1. PICK j \in Jobs : pc[j] \in BusyStates
      BY <2>1
    <3>2. j \in active
      BY <3>1 DEF Inv, Tracking, ActiveTracked, Registered, BusyStates, LiveStates
    <3>3. CASE pc[j] = "running"
      <4>1. /\ stage[j] \in StagesOf(kind[j]) /\ kind[j] \in BackendKinds
            /\ wiped[j] \in 0 .. Size
        BY <3>3, BackendsAssumption
        DEF Inv, Fitting, Tracking, JobsTracked, TypeOK, RecordsTypeOK
      <4>2. stage[j] \in ReportingStages(kind[j]) \cup {"polling", "writing", "verified"}
        BY <4>1, PathFacts
      <4>. QED BY <3>2, <3>3, <4>2 DEF MayStep
    <3>4. CASE pc[j] # "running"
      BY <3>1, <3>2, <3>4 DEF MayStep, BusyStates, LiveStates
    <3>. QED BY <3>3, <3>4
  <2>2. CASE Busy = {}
    <3>1. PICK k \in active : TRUE
      OBVIOUS
    <3>2. k \in Jobs /\ pc[k] \in Registered /\ pc[k] \notin BusyStates
      BY <2>2, <3>1 DEF Expected
    <3>3. pc[k] = "queued"
      BY <3>2 DEF Expected, LockFree, Registered, BusyStates, LiveStates
    <3>4. PICK i \in 1 .. Len(queue) : queue[i] = k
      BY <3>2, <3>3 DEF Expected
    <3>5. queue \in Seq(Jobs) /\ queue # << >> /\ 1 \in 1 .. Len(queue)
      BY <3>4 DEF Inv, TypeOK, ProcessTypeOK
    <3>6. PICK h \in Jobs : h = queue[1] /\ pc[h] = "queued"
      BY <3>5 DEF Inv, Tracking, QueueTracked
    <3>7. h \in active /\ Head(queue) = h
      BY <3>5, <3>6 DEF Inv, Tracking, ActiveTracked, Registered, LiveStates
    <3>8. Cardinality(Busy) < MaxWorkers
      <4>1. Cardinality({}) = 0
        BY FS_EmptySet
      <4>. QED BY <2>2, <4>1, WorkersAssumption
    <3>. QED BY <3>5, <3>6, <3>7, <3>8 DEF MayStep
  <2>. QED BY <2>1, <2>2
<1>. QED
  BY <1>1, RunsInvariance, PTL

-----------------------------------------------------------------------------

(* A job of a process that has ended is stranded, and an orphan that is met *)
(* by a running program was left by an earlier one.                         *)
Restarts ==
    /\ app = "up" => launches >= 1
    /\ app = "down" => \A j \in Jobs : pc[j] \notin LiveStates \cup {"forgetting", "done"}
    /\ \A j \in Jobs : pc[j] = "orphan" => launches >= IF app = "up" THEN 2 ELSE 1

(* Every step keeps count of the launches an orphan needs.                  *)
LEMMA RestartsStep ==
    ASSUME TypeOK, Tracking, Restarts, [Next]_vars
    PROVE  Restarts'
<1>1. CASE Launch
  BY <1>1, LaunchesAssumption
  DEF Launch, workers, Restarts, LiveStates, TypeOK, ProcessTypeOK,
      WorkersTypeOK, RecordsTypeOK
<1>2. ASSUME NEW j \in Jobs, NEW d \in Disks, NEW b \in Backends, Start(j, d, b)
      PROVE  Restarts'
  BY <1>2, LaunchesAssumption
  DEF Start, GuiReady, Restarts, LiveStates, TypeOK, ProcessTypeOK,
      WorkersTypeOK, RecordsTypeOK
<1>3. ASSUME NEW d \in Disks, Cancel(d)
      PROVE  Restarts'
  BY <1>3, LaunchesAssumption
  DEF Cancel, GuiReady, workers, Restarts, LiveStates, TypeOK, ProcessTypeOK,
      WorkersTypeOK, RecordsTypeOK
<1>4. CASE Close
  BY <1>4, LaunchesAssumption
  DEF Close, GuiReady, workers, Restarts, LiveStates, TypeOK, ProcessTypeOK,
      WorkersTypeOK, RecordsTypeOK
<1>5. CASE Submit
  BY <1>5, LaunchesAssumption
  DEF Submit, Tracking, StartTracked, Restarts, LiveStates, TypeOK,
      ProcessTypeOK, WorkersTypeOK, RecordsTypeOK
<1>6. CASE Register
  BY <1>6, LaunchesAssumption
  DEF Register, workers, Restarts, LiveStates, TypeOK, ProcessTypeOK,
      WorkersTypeOK, RecordsTypeOK
<1>7. CASE RegisterFinished
  BY <1>7, LaunchesAssumption
  DEF RegisterFinished, workers, Restarts, LiveStates, TypeOK, ProcessTypeOK,
      WorkersTypeOK, RecordsTypeOK
<1>8. CASE Drain
  BY <1>8, LaunchesAssumption
  DEF Drain, process, workers, Restarts, LiveStates, TypeOK, ProcessTypeOK,
      WorkersTypeOK, RecordsTypeOK
<1>9. CASE EndProcess
  <2>1. \A k \in Jobs : /\ pc'[k] \notin LiveStates \cup {"forgetting", "done"}
                        /\ pc'[k] = "orphan" => pc[k] \in LiveStates \cup {"orphan"}
    BY <1>9, AbandonedFacts DEF EndProcess, LiveStates, TypeOK, WorkersTypeOK
  <2>. QED BY <1>9, <2>1 DEF EndProcess, Restarts, TypeOK, ProcessTypeOK, LiveStates
<1>10. ASSUME NEW j \in Jobs, Take(j)
       PROVE  Restarts'
  <2>1. pc[j] = "queued"
    BY <1>10 DEF Take, Tracking, QueueTracked, TypeOK, ProcessTypeOK
  <2>. QED
    BY <1>10, <2>1 DEF Take, Restarts, LiveStates, TypeOK, WorkersTypeOK
<1>11. ASSUME NEW j \in Jobs, Accept(j)
       PROVE  Restarts'
  BY <1>11, LaunchesAssumption
  DEF Accept, Recorded, Unrecorded, process, Restarts, LiveStates, TypeOK,
      ProcessTypeOK, WorkersTypeOK, RecordsTypeOK
<1>12. ASSUME NEW j \in Jobs, Announce(j)
       PROVE  Restarts'
  BY <1>12, LaunchesAssumption
  DEF Announce, process, Restarts, LiveStates, TypeOK, ProcessTypeOK,
      WorkersTypeOK, RecordsTypeOK
<1>13. ASSUME NEW j \in Jobs, Report(j)
       PROVE  Restarts'
  BY <1>13, LaunchesAssumption
  DEF Report, Recorded, Terminate, process, Restarts, LiveStates, TypeOK,
      ProcessTypeOK, WorkersTypeOK, RecordsTypeOK
<1>14. ASSUME NEW j \in Jobs, StaySilent(j)
       PROVE  Restarts'
  BY <1>14, LaunchesAssumption
  DEF StaySilent, process, Restarts, LiveStates, TypeOK, ProcessTypeOK,
      WorkersTypeOK, RecordsTypeOK
<1>15. ASSUME NEW j \in Jobs, Poll(j)
       PROVE  Restarts'
  BY <1>15, LaunchesAssumption
  DEF Poll, Terminate, process, Restarts, LiveStates, TypeOK, ProcessTypeOK,
      WorkersTypeOK, RecordsTypeOK
<1>16. ASSUME NEW j \in Jobs, Write(j)
       PROVE  Restarts'
  BY <1>16, LaunchesAssumption
  DEF Write, process, Restarts, LiveStates, TypeOK, ProcessTypeOK,
      WorkersTypeOK, RecordsTypeOK
<1>17. ASSUME NEW j \in Jobs, Fail(j)
       PROVE  Restarts'
  BY <1>17, LaunchesAssumption
  DEF Fail, Terminate, process, Restarts, LiveStates, TypeOK, ProcessTypeOK,
      WorkersTypeOK, RecordsTypeOK
<1>18. ASSUME NEW j \in Jobs, Complete(j)
       PROVE  Restarts'
  BY <1>18, LaunchesAssumption
  DEF Complete, Terminate, process, Restarts, LiveStates, TypeOK, ProcessTypeOK,
      WorkersTypeOK, RecordsTypeOK
<1>19. ASSUME NEW j \in Jobs, Finish(j)
       PROVE  Restarts'
  BY <1>19, LaunchesAssumption
  DEF Finish, Unrecorded, process, Restarts, LiveStates, TypeOK, ProcessTypeOK,
      WorkersTypeOK, RecordsTypeOK
<1>20. ASSUME NEW j \in Jobs, Publish(j)
       PROVE  Restarts'
  BY <1>20, LaunchesAssumption
  DEF Publish, process, Restarts, LiveStates, TypeOK, ProcessTypeOK,
      WorkersTypeOK, RecordsTypeOK
<1>21. ASSUME NEW j \in Jobs, Resolve(j)
       PROVE  Restarts'
  BY <1>21, LaunchesAssumption
  DEF Resolve, process, Restarts, LiveStates, TypeOK, ProcessTypeOK,
      WorkersTypeOK, RecordsTypeOK
<1>22. ASSUME NEW j \in Jobs, Forget(j)
       PROVE  Restarts'
  BY <1>22, LaunchesAssumption
  DEF Forget, Restarts, LiveStates, TypeOK, ProcessTypeOK, WorkersTypeOK,
      RecordsTypeOK
<1>23. ASSUME NEW j \in Jobs, OrphanWrite(j)
       PROVE  Restarts'
  BY <1>23, LaunchesAssumption
  DEF OrphanWrite, process, workers, Restarts, LiveStates, TypeOK,
      ProcessTypeOK, WorkersTypeOK, RecordsTypeOK
<1>24. CASE LaunchOther
  BY <1>24, LaunchesAssumption
  DEF LaunchOther, process, workers, Restarts, LiveStates, TypeOK,
      ProcessTypeOK, WorkersTypeOK, RecordsTypeOK
<1>25. CASE UNCHANGED vars
  BY <1>25, LaunchesAssumption
  DEF vars, process, workers, Restarts, LiveStates, TypeOK, ProcessTypeOK,
      WorkersTypeOK, RecordsTypeOK
<1>. QED
  BY <1>1, <1>2, <1>3, <1>4, <1>5, <1>6, <1>7, <1>8, <1>9, <1>10, <1>11, <1>12,
     <1>13, <1>14, <1>15, <1>16, <1>17, <1>18, <1>19, <1>20, <1>21, <1>22,
     <1>23, <1>24, <1>25
  DEF Next, GuiCalls, GuiThread, Worker, BackendStep, Exit, Crash

(* Jobs whose diskpart.exe runs, may still be started, or has outlived the  *)
(* program.                                                                 *)
DiskPartJobs == {j \in Jobs : kind[j] = "diskpart" /\ pc[j] \in LiveStates \cup {"orphan"}}

(* In the first launch, and after it, there is one such job.                *)
SingleDiskPart == launches < 2 => \A i, j \in DiskPartJobs : i = j

(* While a program of the first launch runs, this is what start() refuses:  *)
(* no orphan is left by an earlier one, and no two live DiskPart jobs        *)
(* overlap.                                                                 *)
LEMMA SingleWhileUp ==
    ASSUME Inv, Restarts, app = "up"
    PROVE  SingleDiskPart
<1>1. RealOverlapIsParallel
  BY
  DEF Inv, RealOverlapIsParallel, Live, RealJobs, Overlap, Tracking, StartTracked,
      ActiveTracked, Registered, LiveStates
<1>2. ASSUME launches < 2, NEW j \in DiskPartJobs
      PROVE  j \in RealJobs(Live) /\ ~SupportsParallelReal(kind[j])
  <2>1. pc[j] # "orphan"
    BY <1>2, LaunchesAssumption DEF DiskPartJobs, Restarts, Inv, TypeOK, ProcessTypeOK
  <2>. QED
    BY <1>2, <2>1 DEF DiskPartJobs, RealJobs, Live, Simulated, SupportsParallelReal
<1>. QED
  BY <1>1, <1>2 DEF SingleDiskPart, RealOverlapIsParallel, DiskPartJobs

(* What a worker takes from the queue is a queued job.                      *)
LEMMA TakenWasQueued ==
    ASSUME queue \in Seq(Jobs), QueueTracked, NEW j \in Jobs, Take(j)
    PROVE  pc[j] = "queued"
<1>1. Len(queue) \in Nat \ {0} /\ queue[1] = j
  BY DEF Take
<1>. QED
  BY <1>1 DEF QueueTracked

(* A step that leaves the program down leaves it with the DiskPart jobs it   *)
(* had: the end of the process takes the live one along or orphans it.      *)
LEMMA DiskPartJobsWhileDown ==
    ASSUME Inv, Restarts, [Next]_vars, app' = "down"
    PROVE  launches' = launches /\ DiskPartJobs' \subseteq DiskPartJobs
<1>. USE DEF Inv, TypeOK, ProcessTypeOK, WorkersTypeOK, RecordsTypeOK
<1>1. CASE EndProcess
  <2>1. \A j \in Jobs : pc'[j] \in LiveStates \cup {"orphan"} =>
            pc[j] \in LiveStates \cup {"orphan"}
    BY <1>1, AbandonedFacts DEF EndProcess, LiveStates
  <2>2. kind' = kind /\ launches' = launches
    BY <1>1 DEF EndProcess, authorization
  <2>. QED BY <2>1, <2>2 DEF DiskPartJobs
<1>2. CASE \E j \in Jobs : Worker(j)
  <2>1. PICK j \in Jobs : Worker(j)
    BY <1>2
  <2>2. pc[j] \in LiveStates \cup {"forgetting"}
    <3>1. CASE Take(j)
      BY <3>1, TakenWasQueued DEF LiveStates, Tracking
    <3>2. CASE Accept(j) \/ Announce(j) \/ BackendStep(j)
      BY <3>2
      DEF BackendStep, Accept, Announce, Report, StaySilent, Poll, Write, Fail, Complete,
          LiveStates
    <3>3. CASE Finish(j) \/ Publish(j) \/ Resolve(j) \/ Forget(j)
      BY <3>3 DEF Finish, Publish, Resolve, Forget, LiveStates
    <3>. QED BY <2>1, <3>1, <3>2, <3>3 DEF Worker
  <2>3. app' = app
    BY <2>1
    DEF Worker, BackendStep, Take, Accept, Announce, Report, StaySilent, Poll, Write,
        Fail, Complete, Finish, Publish, Resolve, Forget, process
  <2>. QED BY <2>2, <2>3 DEF Restarts
<1>3. CASE GuiCalls \/ Drain
  BY <1>3 DEF GuiCalls, Start, Cancel, Close, Drain, GuiReady, process
<1>4. CASE Submit
  BY <1>4 DEF Submit, Tracking, StartTracked, Restarts, LiveStates
<1>5. CASE Register \/ RegisterFinished
  BY <1>5 DEF Register, RegisterFinished, workers, authorization, DiskPartJobs
<1>6. CASE (\E j \in Jobs : OrphanWrite(j)) \/ UNCHANGED vars
  BY <1>6 DEF OrphanWrite, vars, process, workers, authorization, DiskPartJobs
<1>7. CASE Launch \/ LaunchOther
  BY <1>7 DEF Launch, LaunchOther, process
<1>. QED
  BY <1>1, <1>2, <1>3, <1>4, <1>5, <1>6, <1>7 DEF Next, GuiThread, Exit, Crash

(* README.md, "intentionally permits only one real wipe at a time", holds   *)
(* of DiskPart until the program is started again: the second diskpart.exe  *)
(* that JobManager_orphan shows takes a restart, and nothing less.          *)
OneDiskPartInOneLaunch == launches < 2 => OneDiskPartAtATime

(* While the program runs start() keeps a second DiskPart job out, in       *)
(* whatever order jobs are submitted, queued and forgotten; once it is gone *)
(* its one diskpart.exe may go on, and nothing joins it before a restart.   *)
THEOREM OneDiskPartPerLaunch == Spec => []OneDiskPartInOneLaunch
<1>. DEFINE Single == Restarts /\ SingleDiskPart
<1>1. Init => Single
  BY DEF Init, Restarts, SingleDiskPart, DiskPartJobs, LiveStates
<1>2. Inv /\ Single /\ [Next]_vars => Inv' /\ Single'
  <2>. SUFFICES ASSUME Inv, Single, [Next]_vars
                PROVE  Inv' /\ Single'
    OBVIOUS
  <2>1. Inv' /\ Restarts'
    BY StepInv, RestartsStep DEF Inv
  <2>2. CASE app' = "up"
    <3>1. (Inv /\ Restarts /\ app = "up" => SingleDiskPart)'
      BY SingleWhileUp, PTL
    <3>. QED BY <2>1, <2>2, <3>1
  <2>3. CASE app' = "down"
    BY <2>1, <2>3, DiskPartJobsWhileDown DEF SingleDiskPart
  <2>. QED BY <2>1, <2>2, <2>3 DEF Inv, TypeOK, ProcessTypeOK
<1>3. Inv /\ Single => OneDiskPartInOneLaunch
  BY
  DEF SingleDiskPart, DiskPartJobs, OneDiskPartInOneLaunch, OneDiskPartAtATime,
      DiskPartWrites, LiveStates
<1>. QED
  BY <1>1, <1>2, <1>3, InitInv, PTL DEF Spec

-----------------------------------------------------------------------------

(* How much of a run lies ahead at each stage, besides its chunks.          *)
Weight(s) ==
    CASE s = "called" -> 12 [] s = "prepared" -> 10 [] s = "locked" -> 8
      [] s = "written" -> 7 [] s = "polling" -> 4 [] s = "writing" -> 3
      [] s = "flushed" -> 2 [] s = "verified" -> 0

Ahead(j) == 6 * (Size - wiped[j]) + Weight(stage[j])

(* An upper bound of the steps the worker of job j has left.                *)
Left(j) ==
    CASE pc[j] = "queued" -> Ahead(j) + 9
      [] pc[j] = "accepting" -> Ahead(j) + 8
      [] pc[j] = "announcing" -> Ahead(j) + 7
      [] pc[j] = "running" -> Ahead(j) + 6
      [] pc[j] = "finishing" -> 4
      [] pc[j] = "publishing" -> 3
      [] pc[j] = "ended" -> 2
      [] pc[j] = "forgetting" -> 1
      [] OTHER -> 0

(* It is a natural number, and no more than six steps a chunk and a few.    *)
LEMMA LeftFacts ==
    ASSUME TypeOK, NEW j \in Jobs
    PROVE  /\ Left(j) \in 0 .. 6 * Size + 21
           /\ Ahead(j) \in 0 .. 6 * Size + 12
<1>1. /\ Weight(stage[j]) \in 0 .. 12
      /\ wiped[j] \in 0 .. Size
      /\ Size \in Nat
  BY SizeAssumption DEF Weight, Stages, TypeOK, WorkersTypeOK, RecordsTypeOK
<1>2. Ahead(j) \in 0 .. 6 * Size + 12
  BY <1>1 DEF Ahead
<1>. QED
  BY <1>1, <1>2 DEF Left

(* So it is after a step that keeps the types.                              *)
LEMMA LeftFactsNext ==
    ASSUME TypeOK', NEW j \in Jobs
    PROVE  Left(j)' \in Nat
<1>1. /\ Weight(stage'[j]) \in 0 .. 12
      /\ wiped'[j] \in 0 .. Size
      /\ Size \in Nat
  BY SizeAssumption DEF Weight, Stages, TypeOK, WorkersTypeOK, RecordsTypeOK
<1>2. Ahead(j)' \in Nat
  BY <1>1 DEF Ahead
<1>. QED
  BY <1>1, <1>2 DEF Left

(* What happens elsewhere does not bring a job back.                        *)
LEMMA LeftStays ==
    ASSUME NEW j \in Jobs, pc'[j] = pc[j], stage'[j] = stage[j], wiped'[j] = wiped[j]
    PROVE  Left(j)' = Left(j)
  BY DEF Left, Ahead

(* The steps of its own worker bring it closer to the end.                  *)
LEMMA WorkerRunsDown ==
    ASSUME TypeOK, Accounting, Tracking, NEW j \in Jobs, Worker(j)
    PROVE  /\ Left(j)' < Left(j)
           /\ \A k \in Jobs \ {j} : Left(k)' = Left(k)
<1>1. /\ Size \in Nat /\ wiped[j] \in 0 .. Size /\ pc \in [Jobs -> WorkerStates]
      /\ stage \in [Jobs -> Stages] /\ wiped \in [Jobs -> 0 .. Size]
      /\ Ahead(j) \in 0 .. 6 * Size + 12
  BY LeftFacts, SizeAssumption DEF TypeOK, WorkersTypeOK, RecordsTypeOK
<1>2. CASE Take(j)
  <2>1. pc[j] = "queued"
    BY <1>2 DEF Take, Tracking, QueueTracked, TypeOK, ProcessTypeOK
  <2>2. Left(j)' = Ahead(j) + 8 /\ Left(j) = Ahead(j) + 9
    BY <1>1, <1>2, <2>1 DEF Take, Left, Ahead
  <2>. QED BY <1>1, <1>2, <2>2, LeftStays DEF Take
<1>3. CASE Accept(j)
  <2>1. Left(j)' \in {Ahead(j) + 7, 2} /\ Left(j) = Ahead(j) + 8
    BY <1>1, <1>3 DEF Accept, Recorded, Unrecorded, Left, Ahead
  <2>. QED BY <1>1, <1>3, <2>1, LeftStays DEF Accept, Recorded, Unrecorded
<1>4. CASE Announce(j)
  <2>1. Left(j)' = Ahead(j) + 6 /\ Left(j) = Ahead(j) + 7
    BY <1>1, <1>4 DEF Announce, Left, Ahead
  <2>. QED BY <1>1, <1>4, <2>1, LeftStays DEF Announce
<1>5. CASE Report(j)
  <2>1. /\ kind[j] \in BackendKinds /\ stage[j] \in ReportingStages(kind[j])
        /\ pc[j] = "running" /\ Left(j) = Ahead(j) + 6
    BY <1>5, BackendsAssumption DEF Report, Left, Tracking, JobsTracked
  <2>2. CASE pc'[j] = "finishing"
    BY <1>1, <1>5, <2>1, <2>2, LeftStays DEF Report, Recorded, Terminate, Left
  <2>3. CASE pc'[j] = "announcing"
    <3>1. stage'[j] = AfterReport(kind[j], stage[j], wiped[j]) /\ wiped' = wiped
      BY <1>1, <1>5, <2>3 DEF Report, Recorded, Terminate
    <3>2. Weight(stage'[j]) + 2 <= Weight(stage[j])
      BY <1>1, <2>1, <3>1
      DEF ReportingStages, BackendKinds, AfterReport, AfterChunk, Weight, Stages
    <3>3. Left(j)' = 6 * (Size - wiped[j]) + Weight(stage'[j]) + 7
      BY <2>3, <3>1 DEF Left, Ahead
    <3>4. /\ Left(j) = 6 * (Size - wiped[j]) + Weight(stage[j]) + 6
          /\ Weight(stage'[j]) \in 0 .. 12 /\ Weight(stage[j]) \in 0 .. 12
      BY <1>1, <2>1, <3>1 DEF Ahead, Weight, Stages, ReportingStages, BackendKinds,
         AfterReport, AfterChunk
    <3>5. Left(j)' < Left(j)
      BY <1>1, <3>2, <3>3, <3>4
    <3>. QED BY <1>1, <1>5, <3>1, <3>5, LeftStays DEF Report, Recorded, Terminate
  <2>. QED BY <1>1, <1>5, <2>2, <2>3 DEF Report, Recorded, Terminate
<1>6. CASE StaySilent(j)
  <2>1. /\ stage[j] = "written" /\ stage'[j] = "polling" /\ pc[j] = "running"
        /\ pc' = pc /\ wiped' = wiped
    BY <1>1, <1>6 DEF StaySilent, MayStaySilent, AfterChunk
  <2>2. Left(j)' = 6 * (Size - wiped[j]) + 10 /\ Left(j) = 6 * (Size - wiped[j]) + 13
    BY <1>1, <2>1 DEF Left, Ahead, Weight
  <2>. QED BY <1>1, <1>6, <2>1, <2>2, LeftStays DEF StaySilent
<1>7. CASE Poll(j)
  <2>1. /\ pc[j] = "running" /\ stage[j] = "polling" /\ wiped' = wiped
        /\ \/ pc'[j] = "finishing"
           \/ pc'[j] = "running" /\ stage'[j] = "writing"
        /\ \A k \in Jobs \ {j} : pc'[k] = pc[k] /\ stage'[k] = stage[k]
    BY <1>1, <1>7 DEF Poll, Terminate
  <2>2. /\ Left(j)' \in {4, 6 * (Size - wiped[j]) + 9}
        /\ Left(j) = 6 * (Size - wiped[j]) + 10
    BY <1>1, <2>1 DEF Left, Ahead, Weight
  <2>. QED BY <1>1, <2>1, <2>2, LeftStays
<1>8. CASE Write(j)
  <2>1. /\ pc[j] = "running" /\ stage[j] = "writing" /\ pc' = pc
        /\ wiped[j] < Size /\ wiped'[j] = wiped[j] + 1
        /\ stage'[j] \in {"writing", "written", "flushed"}
        /\ \A k \in Jobs \ {j} : wiped'[k] = wiped[k] /\ stage'[k] = stage[k]
    BY <1>1, <1>8 DEF Write, AfterChunk, Accounting
  <2>2. /\ Left(j)' \in {6 * (Size - (wiped[j] + 1)) + n + 6 : n \in {2, 3, 7}}
        /\ Left(j) = 6 * (Size - wiped[j]) + 9
    BY <1>1, <2>1 DEF Left, Ahead, Weight
  <2>. QED BY <1>1, <2>1, <2>2, LeftStays
<1>9. CASE Fail(j) \/ Complete(j)
  <2>1. Left(j)' = 4 /\ Left(j) = Ahead(j) + 6
    BY <1>1, <1>9 DEF Fail, Complete, Terminate, Left, Ahead
  <2>. QED BY <1>1, <1>9, <2>1, LeftStays DEF Fail, Complete, Terminate
<1>10. CASE Finish(j)
  BY <1>1, <1>10, LeftStays DEF Finish, Unrecorded, Left
<1>11. CASE Publish(j)
  BY <1>1, <1>11, LeftStays DEF Publish, Left
<1>12. CASE Resolve(j)
  BY <1>1, <1>12, LeftStays DEF Resolve, Left
<1>13. CASE Forget(j)
  BY <1>1, <1>13, LeftStays DEF Forget, Left
<1>. QED
  BY <1>2, <1>3, <1>4, <1>5, <1>6, <1>7, <1>8, <1>9, <1>10, <1>11, <1>12, <1>13
  DEF Worker, BackendStep

(* Every step of a job's worker uses up one of the steps it has left, and   *)
(* nothing but its submission gives it any: _run_job of a job makes at most *)
(* 6 * Size + 21 steps, whatever fails, whatever is cancelled and whatever  *)
(* the other workers and the GUI thread do.                                 *)
RunsDown ==
    [][\A j \in Jobs :
          /\ Left(j) \in 0 .. 6 * Size + 21
          /\ Worker(j) => Left(j)' < Left(j)
          /\ Left(j)' > Left(j) => Submit /\ starting = j]_vars

(* A step that is no worker's leaves every job as far from its end, unless  *)
(* it is its submission or the end of the process.                          *)
LEMMA OthersRunNothing ==
    ASSUME TypeOK, Tracking, Next, \A k \in Jobs : ~Worker(k), NEW j \in Jobs
    PROVE  Left(j)' \in {Left(j), 0} \/ (Submit /\ starting = j)
<1>1. pc \in [Jobs -> WorkerStates] /\ wiped \in [Jobs -> 0 .. Size]
  BY DEF TypeOK, WorkersTypeOK, RecordsTypeOK
<1>2. CASE Launch \/ LaunchOther \/ Close \/ Register \/ RegisterFinished \/ Drain
  BY <1>2, LeftStays
  DEF Launch, LaunchOther, Close, Register, RegisterFinished, Drain, workers
<1>3. ASSUME NEW i \in Jobs, NEW d \in Disks, NEW b \in Backends, Start(i, d, b)
      PROVE  Left(j)' = Left(j)
  <2>1. i # j => pc'[j] = pc[j]
    BY <1>1, <1>3 DEF Start
  <2>2. i = j => Left(j)' = 0 /\ Left(j) = 0
    BY <1>1, <1>3 DEF Start, Left
  <2>. QED BY <1>3, <2>1, <2>2, LeftStays DEF Start
<1>4. ASSUME NEW d \in Disks, Cancel(d)
      PROVE  Left(j)' = Left(j)
  BY <1>4, LeftStays DEF Cancel, workers
<1>5. CASE Submit
  BY <1>1, <1>5, LeftStays DEF Submit
<1>6. CASE EndProcess
  <2>1. pc'[j] \in {"new", "gone", "lost", "orphan"}
    BY <1>1, <1>6, AbandonedFacts DEF EndProcess
  <2>. QED BY <2>1 DEF Left
<1>7. ASSUME NEW i \in Jobs, OrphanWrite(i)
      PROVE  Left(j)' = Left(j)
  <2>1. i # j => wiped'[j] = wiped[j]
    BY <1>1, <1>7 DEF OrphanWrite
  <2>2. i = j => pc[j] = "orphan" /\ pc' = pc
    BY <1>7 DEF OrphanWrite, workers
  <2>. QED BY <1>7, <2>1, <2>2, LeftStays DEF OrphanWrite, workers, Left
<1>. QED
  BY <1>2, <1>3, <1>4, <1>5, <1>6, <1>7 DEF Next, GuiCalls, GuiThread, Exit, Crash

(* A run ends: the variant, on every step of every behaviour.               *)
THEOREM JobsRunDown == Spec => RunsDown
<1>1. Inv /\ [Next]_vars =>
        [\A j \in Jobs :
           /\ Left(j) \in 0 .. 6 * Size + 21
           /\ Worker(j) => Left(j)' < Left(j)
           /\ Left(j)' > Left(j) => Submit /\ starting = j]_vars
  <2> SUFFICES ASSUME Inv, Next, NEW j \in Jobs
               PROVE  /\ Left(j) \in 0 .. 6 * Size + 21
                      /\ Worker(j) => Left(j)' < Left(j)
                      /\ Left(j)' > Left(j) => Submit /\ starting = j
    OBVIOUS
  <2>1. /\ Left(j) \in 0 .. 6 * Size + 21 /\ Size \in Nat
        /\ Worker(j) => Left(j)' < Left(j)
        /\ Left(j)' \in Nat
    BY LeftFacts, LeftFactsNext, WorkerRunsDown, SizeAssumption, StepInv DEF Inv
  <2>2. CASE \E k \in Jobs : Worker(k)
    <3>1. PICK k \in Jobs : Worker(k)
      BY <2>2
    <3>2. k # j => Left(j)' = Left(j)
      BY <3>1, WorkerRunsDown DEF Inv
    <3>. QED BY <2>1, <3>1, <3>2
  <2>3. CASE \A k \in Jobs : ~Worker(k)
    <3>1. Left(j)' \in {Left(j), 0} \/ (Submit /\ starting = j)
      BY <2>3, OthersRunNothing DEF Inv
    <3>. QED BY <2>1, <3>1
  <2>. QED BY <2>1, <2>2, <2>3
<1>. QED
  BY <1>1, Invariance, PTL DEF Spec, RunsDown
=============================================================================
