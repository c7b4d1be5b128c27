------------------------ MODULE JobRefinementProofs ------------------------
(***************************************************************************)
(* JobManager implements JobLedger, as long as no second instance of the   *)
(* program interferes with the rows; and its workers take only the steps   *)
(* that BackendRun allows a backend.                                       *)
(***************************************************************************)
EXTENDS JobHistoryProofs

(* The status a row has while its run stands at a stage. *)
PhaseAt(s) ==
    IF s \in {"called", "prepared", "locked"} THEN "PREPARING"
    ELSE IF s = "verified" THEN "VERIFYING"
    ELSE "WIPING"

(* Nobody works in a process that is not there. *)
DownTracked == app = "down" => \A j \in Jobs : pc[j] \in {"new", "gone", "lost", "orphan"}

(* With no other instance to interrupt it, the row keeps step with the run, *)
(* and the end that is about to be stored fits the row it replaces.         *)
PhasesTracked ==
    \A j \in Jobs :
        /\ pc[j] \in {"starting", "queued", "accepting", "running", "announcing"}
              => rows[j].status = PhaseAt(stage[j])
        /\ pc[j] = "finishing" =>
              /\ rows[j].status \in OpenStatuses
              /\ note[j].status = "COMPLETE" => rows[j].status = "VERIFYING"
              /\ note[j].status = "CANCELLED_INCOMPLETE" => rows[j].status = "WIPING"

-----------------------------------------------------------------------------
(* A report tells the phase the run is entering, and phases only go forwards. *)
LEMMA PhaseFacts ==
    ASSUME NEW b \in BackendKinds, NEW s \in ReportingStages(b), NEW w \in 0 .. Size
    PROVE  /\ ReportOf(b, s, w).status = PhaseAt(AfterReport(b, s, w))
           /\ Ledger!Phase(PhaseAt(s)) <= Ledger!Phase(ReportOf(b, s, w).status)
           /\ ReportOf(b, s, w).status = "VERIFYING" => s = "flushed"
<1>1. \/ b = "simulation" /\ s \in {"called", "written", "flushed"}
      \/ b = "diskpart" /\ s \in {"called", "prepared", "flushed"}
      \/ b = "native" /\ s \in {"called", "prepared", "locked", "written", "flushed"}
  BY DEF ReportingStages, BackendKinds
<1>2. /\ ReportOf(b, s, w).status = StatusOf(b, s)
      /\ s = "flushed" => StatusOf(b, s) = "VERIFYING"
      /\ s \in {"written", "locked"} => StatusOf(b, s) = "WIPING"
      /\ b = "simulation" /\ s = "called" => StatusOf(b, s) = "WIPING"
      /\ b = "diskpart" /\ s = "prepared" => StatusOf(b, s) = "WIPING"
      /\ b = "native" /\ s \in {"called", "prepared"} => StatusOf(b, s) = "PREPARING"
      /\ b = "diskpart" /\ s = "called" => StatusOf(b, s) = "PREPARING"
  BY DEF ReportOf, StatusOf
<1>3. /\ s = "written" => AfterReport(b, s, w) \in {"polling", "writing", "flushed"}
      /\ s = "called" => AfterReport(b, s, w) = IF b = "simulation" THEN "polling" ELSE "prepared"
      /\ s = "prepared" => AfterReport(b, s, w) = IF b = "native" THEN "locked" ELSE "writing"
      /\ s = "locked" => AfterReport(b, s, w) = "polling"
      /\ s = "flushed" => AfterReport(b, s, w) = "verified"
  BY DEF AfterReport, AfterChunk
<1>4. /\ Ledger!Phase("PREPARING") = 1
      /\ Ledger!Phase("WIPING") = 2
      /\ Ledger!Phase("VERIFYING") = 3
  BY DEF Ledger!Phase
<1>5. ReportOf(b, s, w).status = PhaseAt(AfterReport(b, s, w))
  BY <1>1, <1>2, <1>3 DEF PhaseAt
<1>6. Ledger!Phase(PhaseAt(s)) <= Ledger!Phase(ReportOf(b, s, w).status)
  BY <1>1, <1>2, <1>4 DEF PhaseAt
<1>. QED
  BY <1>1, <1>2, <1>5, <1>6

(* Nobody works in a process that is not there.                             *)
LEMMA DownTrackedStep ==
    ASSUME TypeOK, Tracking, DownTracked, [Next]_vars
    PROVE  DownTracked'
<1>1. CASE Launch
  BY <1>1
  DEF Launch, TypeOK, ProcessTypeOK, WorkersTypeOK, RecordsTypeOK, Tracking,
      StartTracked, QueueTracked, DownTracked, workers, window, authorization, observed
<1>2. ASSUME NEW j \in Jobs, NEW d \in Disks, NEW b \in Backends, Start(j, d, b)
      PROVE  DownTracked'
  BY <1>2
  DEF Start, StoreRow, TypeOK, ProcessTypeOK, WorkersTypeOK, RecordsTypeOK, Tracking,
      StartTracked, QueueTracked, GuiReady, DownTracked, window, observed
<1>3. ASSUME NEW d \in Disks, Cancel(d)
      PROVE  DownTracked'
  BY <1>3
  DEF Cancel, TypeOK, ProcessTypeOK, WorkersTypeOK, RecordsTypeOK, Tracking,
      StartTracked, QueueTracked, GuiReady, DownTracked, workers, window, authorization
<1>4. CASE Close
  BY <1>4
  DEF Close, TypeOK, ProcessTypeOK, WorkersTypeOK, RecordsTypeOK, Tracking,
      StartTracked, QueueTracked, GuiReady, DownTracked, workers, window, authorization,
      observed
<1>5. CASE Submit
  BY <1>5
  DEF Submit, TypeOK, ProcessTypeOK, WorkersTypeOK, RecordsTypeOK, Tracking,
      StartTracked, QueueTracked, DownTracked, window, authorization, observed
<1>6. CASE Register
  BY <1>6
  DEF Register, TypeOK, ProcessTypeOK, WorkersTypeOK, RecordsTypeOK, Tracking,
      StartTracked, QueueTracked, DownTracked, workers, window, authorization, observed
<1>7. CASE RegisterFinished
  BY <1>7
  DEF RegisterFinished, TypeOK, ProcessTypeOK, WorkersTypeOK, RecordsTypeOK, Tracking,
      StartTracked, QueueTracked, DownTracked, workers, window, authorization, observed
<1>8. CASE Drain
  BY <1>8
  DEF Drain, TypeOK, ProcessTypeOK, WorkersTypeOK, RecordsTypeOK, Tracking,
      StartTracked, QueueTracked, GuiReady, DownTracked, process, workers,
      authorization, observed
<1>9. CASE EndProcess
  <2>1. ASSUME NEW k \in Jobs
        PROVE  pc'[k] \in {"new", "gone", "lost", "orphan"}
    BY <1>9, <2>1, AbandonedFacts
    DEF EndProcess, TypeOK, ProcessTypeOK, WorkersTypeOK, RecordsTypeOK
  <2>. QED BY <2>1 DEF DownTracked
<1>10. ASSUME NEW j \in Jobs, Take(j)
      PROVE  DownTracked'
  <2>1. pc[j] = "queued" /\ app' = app
    BY <1>10 DEF Take, Tracking, QueueTracked, TypeOK, ProcessTypeOK
  <2>. QED BY <1>10, <2>1 DEF DownTracked
<1>11. ASSUME NEW j \in Jobs, Accept(j)
      PROVE  DownTracked'
  BY <1>11
  DEF Accept, Recorded, Unrecorded, StoreRow, TypeOK, ProcessTypeOK, WorkersTypeOK,
      RecordsTypeOK, Tracking, StartTracked, QueueTracked, DownTracked, process, window,
      authorization
<1>12. ASSUME NEW j \in Jobs, Announce(j)
      PROVE  DownTracked'
  BY <1>12
  DEF Announce, TypeOK, ProcessTypeOK, WorkersTypeOK, RecordsTypeOK, Tracking,
      StartTracked, QueueTracked, DownTracked, process, authorization, observed
<1>13. ASSUME NEW j \in Jobs, Report(j)
      PROVE  DownTracked'
  BY <1>13 DEF Report, DownTracked, process
<1>14. ASSUME NEW j \in Jobs, StaySilent(j)
      PROVE  DownTracked'
  BY <1>14
  DEF StaySilent, TypeOK, ProcessTypeOK, WorkersTypeOK, RecordsTypeOK, Tracking,
      StartTracked, QueueTracked, DownTracked, process, window, authorization, observed
<1>15. ASSUME NEW j \in Jobs, Poll(j)
      PROVE  DownTracked'
  BY <1>15
  DEF Poll, Terminate, TypeOK, ProcessTypeOK, WorkersTypeOK, RecordsTypeOK, Tracking,
      StartTracked, QueueTracked, DownTracked, process, window, authorization, observed
<1>16. ASSUME NEW j \in Jobs, Write(j)
      PROVE  DownTracked'
  BY <1>16
  DEF Write, TypeOK, ProcessTypeOK, WorkersTypeOK, RecordsTypeOK, Tracking,
      StartTracked, QueueTracked, DownTracked, process, window, authorization, observed
<1>17. ASSUME NEW j \in Jobs, Fail(j)
      PROVE  DownTracked'
  BY <1>17
  DEF Fail, Terminate, ErrorAfter, TypeOK, ProcessTypeOK, WorkersTypeOK, RecordsTypeOK,
      Tracking, StartTracked, QueueTracked, DownTracked, process, window, authorization,
      observed
<1>18. ASSUME NEW j \in Jobs, Complete(j)
      PROVE  DownTracked'
  BY <1>18
  DEF Complete, Terminate, TypeOK, ProcessTypeOK, WorkersTypeOK, RecordsTypeOK,
      Tracking, StartTracked, QueueTracked, DownTracked, process, window, authorization,
      observed
<1>19. ASSUME NEW j \in Jobs, Finish(j)
      PROVE  DownTracked'
  BY <1>19
  DEF Finish, StoreRow, Unrecorded, TypeOK, ProcessTypeOK, WorkersTypeOK, RecordsTypeOK,
      Tracking, StartTracked, QueueTracked, DownTracked, process, window, authorization
<1>20. ASSUME NEW j \in Jobs, Publish(j)
      PROVE  DownTracked'
  BY <1>20
  DEF Publish, TypeOK, ProcessTypeOK, WorkersTypeOK, RecordsTypeOK, Tracking,
      StartTracked, QueueTracked, DownTracked, process, authorization, observed
<1>21. ASSUME NEW j \in Jobs, Resolve(j)
      PROVE  DownTracked'
  BY <1>21
  DEF Resolve, TypeOK, ProcessTypeOK, WorkersTypeOK, RecordsTypeOK, Tracking,
      StartTracked, QueueTracked, DownTracked, process, window, authorization, observed
<1>22. ASSUME NEW j \in Jobs, Forget(j)
      PROVE  DownTracked'
  BY <1>22
  DEF Forget, TypeOK, ProcessTypeOK, WorkersTypeOK, RecordsTypeOK, Tracking,
      StartTracked, QueueTracked, DownTracked, window, authorization, observed
<1>23. ASSUME NEW j \in Jobs, OrphanWrite(j)
      PROVE  DownTracked'
  BY <1>23
  DEF OrphanWrite, TypeOK, ProcessTypeOK, WorkersTypeOK, RecordsTypeOK, Tracking,
      StartTracked, QueueTracked, DownTracked, process, workers, window, authorization,
      observed
<1>24. CASE LaunchOther
  BY <1>24
  DEF LaunchOther, TypeOK, ProcessTypeOK, WorkersTypeOK, RecordsTypeOK, Tracking,
      StartTracked, QueueTracked, DownTracked, process, workers, window, authorization,
      observed
<1>25. CASE UNCHANGED vars
  BY <1>25
  DEF TypeOK, ProcessTypeOK, WorkersTypeOK, RecordsTypeOK, Tracking, StartTracked,
      QueueTracked, GuiReady, DownTracked, vars, process, workers, window,
      authorization, observed
<1>. QED
  BY <1>1, <1>2, <1>3, <1>4, <1>5, <1>6, <1>7, <1>8, <1>9, <1>10, <1>11, <1>12, <1>13,
     <1>14, <1>15, <1>16, <1>17, <1>18, <1>19, <1>20, <1>21, <1>22, <1>23, <1>24, <1>25
  DEF Next, GuiCalls, GuiThread, Worker, BackendStep, Exit, Crash

(* The row's phase follows the run's stage.                                 *)
LEMMA PhasesTrackedStep ==
    ASSUME TypeOK, Tracking, Accounting, DownTracked,
           PhasesTracked, OtherInstance = FALSE, [Next]_vars
    PROVE  PhasesTracked'
<1>1. CASE Launch
  <2>1. \A k \in Jobs : pc'[k] \in {"new", "gone", "lost", "orphan"}
    BY <1>1 DEF Launch, DownTracked, workers
  <2>. QED BY <2>1 DEF PhasesTracked
<1>2. ASSUME NEW j \in Jobs, NEW d \in Disks, NEW b \in Backends, Start(j, d, b)
      PROVE  PhasesTracked'
  <2>1. /\ pc'[j] = "starting" /\ rows'[j].status = "PREPARING" /\ stage'[j] = "called"
        /\ \A k \in Jobs \ {j} : pc'[k] = pc[k] /\ rows'[k] = rows[k]
        /\ UNCHANGED <<stage, note>>
    BY <1>2
    DEF Start, StoreRow, Accounting, TypeOK, ProcessTypeOK, WorkersTypeOK, RecordsTypeOK
  <2>. QED BY <2>1 DEF PhasesTracked, PhaseAt
<1>3. ASSUME NEW d \in Disks, Cancel(d)
      PROVE  PhasesTracked'
  BY <1>3
  DEF Cancel, TypeOK, ProcessTypeOK, WorkersTypeOK, RecordsTypeOK, Tracking,
      StartTracked, PhasesTracked, workers, window, authorization
<1>4. CASE Close
  BY <1>4
  DEF Close, TypeOK, ProcessTypeOK, WorkersTypeOK, RecordsTypeOK, Tracking,
      StartTracked, PhasesTracked, workers, window, authorization, observed
<1>5. CASE Submit
  BY <1>5
  DEF Submit, TypeOK, ProcessTypeOK, WorkersTypeOK, RecordsTypeOK, Tracking,
      StartTracked, PhasesTracked, window, authorization, observed
<1>6. CASE Register
  BY <1>6
  DEF Register, TypeOK, ProcessTypeOK, WorkersTypeOK, RecordsTypeOK, Tracking,
      StartTracked, PhasesTracked, workers, window, authorization, observed
<1>7. CASE RegisterFinished
  BY <1>7
  DEF RegisterFinished, TypeOK, ProcessTypeOK, WorkersTypeOK, RecordsTypeOK, Tracking,
      StartTracked, PhasesTracked, workers, window, authorization, observed
<1>8. CASE Drain
  BY <1>8
  DEF Drain, TypeOK, ProcessTypeOK, WorkersTypeOK, RecordsTypeOK, Tracking,
      StartTracked, PhasesTracked, process, workers, authorization, observed
<1>9. CASE EndProcess
  <2>1. ASSUME NEW k \in Jobs
        PROVE  pc'[k] \in {"new", "gone", "lost", "orphan"}
    BY <1>9, <2>1, AbandonedFacts
    DEF EndProcess, TypeOK, ProcessTypeOK, WorkersTypeOK, RecordsTypeOK
  <2>. QED BY <2>1 DEF PhasesTracked
<1>10. ASSUME NEW j \in Jobs, Take(j)
      PROVE  PhasesTracked'
  <2>1. /\ pc[j] = "queued" /\ UNCHANGED <<rows, stage, note>>
        /\ pc' = [pc EXCEPT ![j] = "accepting"]
    BY <1>10 DEF Take, Tracking, QueueTracked, TypeOK, ProcessTypeOK
  <2>. QED BY <2>1 DEF PhasesTracked, TypeOK, WorkersTypeOK
<1>11. ASSUME NEW j \in Jobs, Accept(j)
      PROVE  PhasesTracked'
  <2>1. /\ pc'[j] \in {"announcing", "ended"} /\ stage[j] = "called"
        /\ pc'[j] = "announcing" => rows'[j].status = "PREPARING"
        /\ \A k \in Jobs \ {j} :
              pc'[k] = pc[k] /\ rows'[k] = rows[k] /\ note'[k] = note[k]
        /\ UNCHANGED stage
    BY <1>11
    DEF Accept, Recorded, Unrecorded, StoreRow, Accounting, TypeOK, ProcessTypeOK,
        WorkersTypeOK, RecordsTypeOK
  <2>. QED BY <2>1 DEF PhasesTracked, PhaseAt
<1>12. ASSUME NEW j \in Jobs, Announce(j)
      PROVE  PhasesTracked'
  BY <1>12
  DEF Announce, TypeOK, ProcessTypeOK, WorkersTypeOK, RecordsTypeOK, Tracking,
      StartTracked, PhasesTracked, process, authorization, observed
<1>13. ASSUME NEW j \in Jobs, Report(j)
      PROVE  PhasesTracked'
  <2>. DEFINE r == ReportOf(kind[j], stage[j], wiped[j])
              next == AfterReport(kind[j], stage[j], wiped[j])
  <2>1. /\ kind[j] \in BackendKinds /\ stage[j] \in ReportingStages(kind[j])
        /\ wiped[j] \in 0 .. Size
    BY <1>13, BackendsAssumption
    DEF Report, Tracking, JobsTracked, TypeOK, ProcessTypeOK, WorkersTypeOK,
        RecordsTypeOK
  <2>2. r.status = PhaseAt(next)
    BY <2>1, PhaseFacts
  <2>3. /\ pc[j] = "running"
        /\ \/ pc'[j] = "announcing" /\ rows'[j] = r /\ stage'[j] = next
           \/ /\ pc'[j] = "finishing" /\ note'[j].status = "ERROR"
              /\ rows'[j] = rows[j] /\ stage'[j] = stage[j]
        /\ \A k \in Jobs \ {j} :
              /\ pc'[k] = pc[k] /\ rows'[k] = rows[k]
              /\ stage'[k] = stage[k] /\ note'[k] = note[k]
    BY <1>13
    DEF Report, Recorded, StoreRow, Terminate, ErrorAfter, TypeOK, ProcessTypeOK,
        WorkersTypeOK, RecordsTypeOK
  <2>. QED
    BY <2>2, <2>3 DEF PhasesTracked, PhaseAt, OpenStatuses
<1>14. ASSUME NEW j \in Jobs, StaySilent(j)
      PROVE  PhasesTracked'
  <2>1. AfterChunk("native", wiped[j]) \in {"polling", "flushed"}
    BY DEF AfterChunk
  <2>. QED
    BY <1>14, <2>1
    DEF StaySilent, MayStaySilent, PhasesTracked, PhaseAt, TypeOK, ProcessTypeOK,
        WorkersTypeOK, RecordsTypeOK
<1>15. ASSUME NEW j \in Jobs, Poll(j)
      PROVE  PhasesTracked'
  <2>1. /\ pc[j] = "running" /\ stage[j] = "polling"
        /\ \/ pc'[j] = "finishing" /\ note'[j].status = "CANCELLED_INCOMPLETE"
              /\ stage'[j] = stage[j]
           \/ pc'[j] = "running" /\ note'[j] = note[j] /\ stage'[j] = "writing"
        /\ \A k \in Jobs \ {j} : pc'[k] = pc[k] /\ note'[k] = note[k]
                                        /\ stage'[k] = stage[k]
        /\ rows' = rows
    BY <1>15 DEF Poll, Terminate, TypeOK, ProcessTypeOK, WorkersTypeOK, RecordsTypeOK
  <2>. QED BY <2>1 DEF PhasesTracked, PhaseAt, OpenStatuses
<1>16. ASSUME NEW j \in Jobs, Write(j)
      PROVE  PhasesTracked'
  <2>1. AfterChunk(kind[j], wiped[j] + 1) \in {"polling", "writing", "flushed"}
    BY DEF AfterChunk
  <2>. QED
    BY <1>16, <2>1
    DEF Write, PhasesTracked, PhaseAt, TypeOK, ProcessTypeOK, WorkersTypeOK,
        RecordsTypeOK
<1>17. ASSUME NEW j \in Jobs, Fail(j)
      PROVE  PhasesTracked'
  <2>1. /\ pc[j] = "running" /\ pc'[j] = "finishing" /\ note'[j].status = "ERROR"
        /\ UNCHANGED <<rows, stage>>
        /\ \A k \in Jobs \ {j} : pc'[k] = pc[k] /\ note'[k] = note[k]
    BY <1>17
    DEF Fail, Terminate, ErrorAfter, TypeOK, ProcessTypeOK, WorkersTypeOK, RecordsTypeOK
  <2>. QED BY <2>1 DEF PhasesTracked, PhaseAt, OpenStatuses
<1>18. ASSUME NEW j \in Jobs, Complete(j)
      PROVE  PhasesTracked'
  <2>1. /\ pc[j] = "running" /\ pc'[j] = "finishing" /\ note'[j].status = "COMPLETE"
        /\ UNCHANGED <<rows, stage>> /\ stage[j] = "verified"
        /\ \A k \in Jobs \ {j} : pc'[k] = pc[k] /\ note'[k] = note[k]
    BY <1>18
    DEF Complete, Terminate, TypeOK, ProcessTypeOK, WorkersTypeOK, RecordsTypeOK
  <2>. QED BY <2>1 DEF PhasesTracked, PhaseAt, OpenStatuses
<1>19. ASSUME NEW j \in Jobs, Finish(j)
      PROVE  PhasesTracked'
  <2>1. /\ pc'[j] \in {"publishing", "ended"}
        /\ \A k \in Jobs \ {j} :
              /\ pc'[k] = pc[k] /\ rows'[k] = rows[k]
              /\ note'[k] = note[k] /\ stage'[k] = stage[k]
    BY <1>19
    DEF Finish, Unrecorded, StoreRow, TypeOK, ProcessTypeOK, WorkersTypeOK,
        RecordsTypeOK
  <2>. QED BY <2>1 DEF PhasesTracked
<1>20. ASSUME NEW j \in Jobs, Publish(j)
      PROVE  PhasesTracked'
  BY <1>20
  DEF Publish, TypeOK, ProcessTypeOK, WorkersTypeOK, RecordsTypeOK, Tracking,
      StartTracked, PhasesTracked, process, authorization, observed
<1>21. ASSUME NEW j \in Jobs, Resolve(j)
      PROVE  PhasesTracked'
  BY <1>21
  DEF Resolve, TypeOK, ProcessTypeOK, WorkersTypeOK, RecordsTypeOK, Tracking,
      StartTracked, PhasesTracked, process, window, authorization, observed
<1>22. ASSUME NEW j \in Jobs, Forget(j)
      PROVE  PhasesTracked'
  BY <1>22
  DEF Forget, TypeOK, ProcessTypeOK, WorkersTypeOK, RecordsTypeOK, Tracking,
      StartTracked, PhasesTracked, window, authorization, observed
<1>23. ASSUME NEW j \in Jobs, OrphanWrite(j)
      PROVE  PhasesTracked'
  BY <1>23
  DEF OrphanWrite, TypeOK, ProcessTypeOK, WorkersTypeOK, RecordsTypeOK, Tracking,
      StartTracked, PhasesTracked, process, workers, window, authorization, observed
<1>24. CASE LaunchOther
  BY <1>24 DEF LaunchOther
<1>25. CASE UNCHANGED vars
  BY <1>25
  DEF TypeOK, ProcessTypeOK, WorkersTypeOK, RecordsTypeOK, Tracking, StartTracked,
      PhasesTracked, vars, process, workers, window, authorization, observed
<1>. QED
  BY <1>1, <1>2, <1>3, <1>4, <1>5, <1>6, <1>7, <1>8, <1>9, <1>10, <1>11, <1>12, <1>13,
     <1>14, <1>15, <1>16, <1>17, <1>18, <1>19, <1>20, <1>21, <1>22, <1>23, <1>24, <1>25
  DEF Next, GuiCalls, GuiThread, Worker, BackendStep, Exit, Crash

(* The phases are only tracked without a second instance. *)
LEMMA RefinementInvariance ==
    OtherInstance = FALSE => (Spec => [](Inv /\ History /\ DownTracked /\ PhasesTracked))
<1>. SUFFICES ASSUME OtherInstance = FALSE
              PROVE  Spec => [](Inv /\ History /\ DownTracked /\ PhasesTracked)
  OBVIOUS
<1>1. Init => DownTracked /\ PhasesTracked
  BY DEF Init, DownTracked, PhasesTracked
<1>2. Inv /\ History /\ DownTracked /\ PhasesTracked /\ [Next]_vars
         => DownTracked' /\ PhasesTracked'
  BY DownTrackedStep, PhasesTrackedStep DEF Inv
<1>3. Init => Inv /\ History
  BY InitInv, InitHistory
<1>4. Inv /\ History /\ [Next]_vars => Inv' /\ History'
  BY StepInv, StepHistory
<1>. QED
  BY <1>1, <1>2, <1>3, <1>4, PTL DEF Spec

(* A step that writes no row, overwrites no chunk and only moves workers    *)
(* among the working states, or among the others, is invisible.             *)
LEMMA Invisible ==
    ASSUME UNCHANGED <<rows, wiped>>,
           \A j \in Jobs : pc'[j] \in LiveStates \ {"publishing", "ended"}
                              <=> pc[j] \in LiveStates \ {"publishing", "ended"}
    PROVE  UNCHANGED Ledger!ledgerVars
BY DEF Ledger!ledgerVars

(* The ledger's copies of the sets of statuses are the manager's. *)
LEMMA LedgerStatuses ==
    /\ Ledger!OpenStatuses = OpenStatuses
    /\ Ledger!FinishedStatuses = FinishedStatuses
  BY DEF Ledger!OpenStatuses, Ledger!FinishedStatuses, OpenStatuses, FinishedStatuses

(* A recorded report advances the row. *)
LEMMA LedgerAdvances ==
    ASSUME TypeOK, NEW j \in Jobs, pc[j] \in LiveStates \ {"publishing", "ended"},
           NEW r \in Progress, StoreRow(j, r), r.status \in OpenStatuses,
           pc' = [pc EXCEPT ![j] = "announcing"], UNCHANGED wiped,
           rows[j].status \in OpenStatuses,
           Ledger!Phase(rows[j].status) <= Ledger!Phase(r.status),
           r.status = "VERIFYING" => wiped[j] = Size
    PROVE  Ledger!LedgerNext
<1>. DEFINE Working == LiveStates \ {"publishing", "ended"}
<1>1. /\ \A k \in Jobs : rows'[k].status = IF k = j THEN r.status ELSE rows[k].status
      /\ \A k \in Jobs : pc'[k] \in Working <=> pc[k] \in Working
  BY DEF StoreRow, TypeOK, WorkersTypeOK, RecordsTypeOK, LiveStates
<1>2. Ledger!Advance(j, r.status)
  BY <1>1, LedgerStatuses DEF Ledger!Advance
<1>. QED BY <1>2, LedgerStatuses DEF Ledger!LedgerNext

(* A worker that dies of a failed write just drops its job. *)
LEMMA LedgerDrops ==
    ASSUME TypeOK, NEW j \in Jobs, pc[j] \in LiveStates \ {"publishing", "ended"},
           pc' = [pc EXCEPT ![j] = "ended"], UNCHANGED <<rows, wiped>>
    PROVE  Ledger!LedgerNext
<1>. DEFINE Working == LiveStates \ {"publishing", "ended"}
<1>1. \A k \in Jobs : pc'[k] \in Working <=> pc[k] \in Working /\ k # j
  BY DEF TypeOK, WorkersTypeOK
<1>2. Ledger!Drop({j})
  BY <1>1 DEF Ledger!Drop
<1>. QED BY <1>2 DEF Ledger!LedgerNext

(* A chunk written under a row that is not final. *)
LEMMA LedgerOverwrites ==
    ASSUME TypeOK, NEW j \in Jobs, wiped[j] < Size,
           rows[j].status \in OpenStatuses \cup {"INTERRUPTED"},
           wiped' = [wiped EXCEPT ![j] = @ + 1], UNCHANGED <<pc, rows>>
    PROVE  Ledger!LedgerNext
<1>1. Ledger!Overwrite(j)
  BY LedgerStatuses DEF Ledger!Overwrite, TypeOK, RecordsTypeOK
<1>. QED BY <1>1 DEF Ledger!LedgerNext

(* Every step of the manager is a step of the ledger, or none. *)
LEMMA LedgerStep ==
    ASSUME Inv, History, DownTracked, PhasesTracked, OtherInstance = FALSE, [Next]_vars
    PROVE  [Ledger!LedgerNext]_(Ledger!ledgerVars)
<1>. USE DEF Ledger!ledgerVars
<1>. DEFINE Working == LiveStates \ {"publishing", "ended"}
<1>1. CASE Launch
  <2>1. rows' = [j \in Jobs |-> Reconciled(rows[j])] /\ UNCHANGED <<pc, wiped>>
    BY <1>1 DEF Launch, workers
  <2>2. \A j \in Jobs : pc[j] \notin Working
    BY <1>1 DEF Launch, DownTracked, LiveStates
  <2>3. \A j \in Jobs : rows'[j].status = IF rows[j].status \in OpenStatuses
                                          THEN "INTERRUPTED" ELSE rows[j].status
    BY <2>1, RecoveryFacts DEF Inv
  <2>4. Ledger!Recover
    BY <2>1, <2>2, <2>3, LedgerStatuses DEF Ledger!Recover
  <2>. QED BY <2>4 DEF Ledger!LedgerNext
<1>2. ASSUME NEW j \in Jobs, NEW d \in Disks, NEW b \in Backends, Start(j, d, b)
      PROVE  Ledger!LedgerNext
  <2>1. /\ pc[j] = "new" /\ rows[j] = NoRow
        /\ rows' = [rows EXCEPT ![j] = [status |-> "PREPARING", bytes |-> Null]]
        /\ pc' = [pc EXCEPT ![j] = "starting"] /\ UNCHANGED wiped
    BY <1>2 DEF Start, StoreRow, History, RowsTracked
  <2>2. /\ \A k \in Jobs : rows'[k].status = IF k = j THEN "PREPARING" ELSE rows[k].status
        /\ \A k \in Jobs : pc'[k] \in Working <=> k = j \/ pc[k] \in Working
    BY <2>1 DEF Inv, TypeOK, WorkersTypeOK, RecordsTypeOK, LiveStates
  <2>3. rows[j].status = "NONE"
    BY <2>1 DEF NoRow
  <2>4. Ledger!Open(j)
    BY <2>1, <2>2, <2>3 DEF Ledger!Open
  <2>. QED BY <2>4 DEF Ledger!LedgerNext
<1>3. ASSUME NEW d \in Disks, Cancel(d)
      PROVE  UNCHANGED Ledger!ledgerVars
  BY <1>3 DEF Cancel, workers
<1>4. CASE Close \/ Register \/ RegisterFinished \/ Drain
  BY <1>4 DEF Close, Register, RegisterFinished, Drain, workers
<1>5. CASE Submit
  <2>1. /\ pc[starting] = "starting" /\ pc' = [pc EXCEPT ![starting] = "queued"]
        /\ UNCHANGED <<rows, wiped>>
    BY <1>5 DEF Submit, Inv, Tracking, StartTracked
  <2>. QED BY <2>1, Invisible DEF Inv, TypeOK, WorkersTypeOK, LiveStates
<1>6. CASE EndProcess
  <2>1. \A k \in Jobs : pc'[k] \notin Working
    BY <1>6, AbandonedFacts DEF EndProcess, Inv, TypeOK, WorkersTypeOK, LiveStates
  <2>2. UNCHANGED <<rows, wiped>>
    BY <1>6 DEF EndProcess
  <2>3. CASE \E k \in Jobs : pc[k] \in Working
    <3>1. PICK S \in SUBSET Jobs : S = {k \in Jobs : pc[k] \in Working}
      OBVIOUS
    <3>2. Ledger!Drop(S)
      BY <2>1, <2>2, <2>3, <3>1 DEF Ledger!Drop
    <3>. QED BY <3>2 DEF Ledger!LedgerNext
  <2>4. CASE \A k \in Jobs : pc[k] \notin Working
    BY <2>1, <2>2, <2>4, Invisible
  <2>. QED BY <2>3, <2>4
<1>7. ASSUME NEW j \in Jobs, Take(j)
      PROVE  UNCHANGED Ledger!ledgerVars
  <2>1. /\ pc[j] = "queued" /\ pc' = [pc EXCEPT ![j] = "accepting"]
        /\ UNCHANGED <<rows, wiped>>
    BY <1>7 DEF Take, Inv, Tracking, QueueTracked, TypeOK, ProcessTypeOK
  <2>. QED BY <2>1, Invisible DEF Inv, TypeOK, WorkersTypeOK, LiveStates
<1>8. ASSUME NEW j \in Jobs, Accept(j)
      PROVE  Ledger!LedgerNext
  <2>. DEFINE r == [status |-> "PREPARING", bytes |-> 0]
  <2>1. /\ TypeOK /\ pc[j] = "accepting" /\ UNCHANGED wiped
        /\ Recorded(j, r) \/ Unrecorded(j)
    BY <1>8 DEF Accept, Inv
  <2>2. r \in Progress /\ r.status = "PREPARING"
    BY ProgressFacts
  <2>3. rows[j].status = "PREPARING"
    BY <2>1 DEF PhasesTracked, PhaseAt, Inv, Accounting
  <2>4. Ledger!Phase("PREPARING") = 1
    BY DEF Ledger!Phase
  <2>5. /\ rows[j].status \in OpenStatuses /\ r.status \in OpenStatuses
        /\ Ledger!Phase(rows[j].status) <= Ledger!Phase(r.status)
        /\ pc[j] \in LiveStates \ {"publishing", "ended"}
    BY <2>1, <2>2, <2>3, <2>4 DEF OpenStatuses, LiveStates
  <2>. HIDE DEF r
  <2>6. CASE Recorded(j, r)
    BY <2>1, <2>2, <2>5, <2>6, LedgerAdvances DEF Recorded
  <2>7. CASE Unrecorded(j)
    BY <2>1, <2>5, <2>7, LedgerDrops DEF Unrecorded
  <2>. QED BY <2>1, <2>6, <2>7
<1>9. ASSUME NEW j \in Jobs, Announce(j) \/ StaySilent(j) \/ Fail(j) \/ Complete(j)
      PROVE  UNCHANGED Ledger!ledgerVars
  <2>1. /\ pc[j] \in {"announcing", "running"}
        /\ pc' = pc \/ pc' = [pc EXCEPT ![j] = "running"] \/ pc' = [pc EXCEPT ![j] = "finishing"]
        /\ UNCHANGED <<rows, wiped>>
    BY <1>9 DEF Announce, StaySilent, Fail, Complete, Terminate
  <2>. QED BY <2>1, Invisible DEF Inv, TypeOK, WorkersTypeOK, LiveStates
<1>10. ASSUME NEW j \in Jobs, Report(j)
       PROVE  [Ledger!LedgerNext]_(Ledger!ledgerVars)
  <2>. DEFINE r == ReportOf(kind[j], stage[j], wiped[j])
  <2>1. /\ kind[j] \in BackendKinds /\ stage[j] \in ReportingStages(kind[j])
        /\ wiped[j] \in 0 .. Size /\ pc[j] = "running" /\ UNCHANGED wiped
        /\ stage[j] \in {"called", "prepared", "locked"} => wiped[j] = 0
        /\ stage[j] = "flushed" => wiped[j] = Size
        /\ rows[j].status = PhaseAt(stage[j])
        /\ TypeOK
    BY <1>10, BackendsAssumption
    DEF Report, PhasesTracked, Inv, Tracking, JobsTracked, Accounting, BeforeEnd,
        TypeOK, WorkersTypeOK, RecordsTypeOK
  <2>2. /\ r \in Progress /\ r.status \in OpenStatuses
        /\ Ledger!Phase(rows[j].status) <= Ledger!Phase(r.status)
        /\ r.status = "VERIFYING" => wiped[j] = Size
    BY <2>1, ReportFacts, PhaseFacts
  <2>3. Recorded(j, r) \/ (pc' = [pc EXCEPT ![j] = "finishing"] /\ UNCHANGED rows)
    BY <1>10 DEF Report, Terminate
  <2>. HIDE DEF r
  <2>4. CASE Recorded(j, r)
    BY <2>1, <2>2, <2>4, LedgerAdvances DEF Recorded, LiveStates, PhaseAt, OpenStatuses
  <2>5. CASE pc' = [pc EXCEPT ![j] = "finishing"] /\ UNCHANGED rows
    BY <2>1, <2>5, Invisible DEF TypeOK, WorkersTypeOK, LiveStates
  <2>. QED BY <2>3, <2>4, <2>5
<1>11. ASSUME NEW j \in Jobs, Poll(j)
       PROVE  UNCHANGED Ledger!ledgerVars
  <2>1. /\ pc[j] = "running" /\ UNCHANGED <<rows, wiped>>
        /\ pc' = pc \/ pc' = [pc EXCEPT ![j] = "finishing"]
    BY <1>11 DEF Poll, Terminate
  <2>. QED BY <2>1, Invisible DEF Inv, TypeOK, WorkersTypeOK, LiveStates
<1>12. ASSUME NEW j \in Jobs, Write(j)
       PROVE  Ledger!LedgerNext
  <2>1. wiped[j] < Size /\ rows[j].status = "WIPING"
    BY <1>12 DEF Write, Inv, Accounting, PhasesTracked, PhaseAt
  <2>. QED BY <1>12, <2>1, LedgerOverwrites DEF Write, Inv, OpenStatuses
<1>13. ASSUME NEW j \in Jobs, Finish(j)
       PROVE  Ledger!LedgerNext
  <2>1. CASE Unrecorded(j)
    BY <1>13, <2>1, LedgerDrops DEF Finish, Unrecorded, Inv, LiveStates
  <2>2. CASE StoreRow(j, note[j]) /\ pc' = [pc EXCEPT ![j] = "publishing"]
    <3>1. /\ pc[j] = "finishing" /\ UNCHANGED wiped
          /\ rows[j].status \in OpenStatuses /\ note[j].status \in FinishedStatuses
          /\ note[j].status = "COMPLETE" => wiped[j] = Size /\ rows[j].status = "VERIFYING"
          /\ note[j].status = "CANCELLED_INCOMPLETE"
                => wiped[j] < Size /\ rows[j].status = "WIPING"
      BY <1>13 DEF Finish, PhasesTracked, History, NotesHonest, Honest
    <3>2. /\ \A k \in Jobs : rows'[k].status = IF k = j THEN note[j].status ELSE rows[k].status
          /\ \A k \in Jobs : pc'[k] \in Working <=> pc[k] \in Working /\ k # j
      BY <2>2, <3>1 DEF StoreRow, Inv, TypeOK, WorkersTypeOK, RecordsTypeOK, LiveStates
    <3>3. PICK s \in FinishedStatuses : s = note[j].status
      BY <3>1
    <3>4. Ledger!Close(j, s)
      BY <3>1, <3>2, <3>3, LedgerStatuses DEF Ledger!Close, Ledger!Truthful, LiveStates
    <3>. QED BY <3>4, LedgerStatuses DEF Ledger!LedgerNext
  <2>. QED BY <1>13, <2>1, <2>2 DEF Finish
<1>14. ASSUME NEW j \in Jobs, Publish(j) \/ Resolve(j) \/ Forget(j)
       PROVE  UNCHANGED Ledger!ledgerVars
  <2>1. /\ pc[j] \in {"publishing", "ended", "forgetting"} /\ UNCHANGED <<rows, wiped>>
        /\ \E s \in {"ended", "forgetting", "done", "gone"} : pc' = [pc EXCEPT ![j] = s]
    BY <1>14 DEF Publish, Resolve, Forget
  <2>. QED BY <2>1, Invisible DEF Inv, TypeOK, WorkersTypeOK, LiveStates
<1>15. ASSUME NEW j \in Jobs, OrphanWrite(j)
       PROVE  Ledger!LedgerNext
  <2>1. rows[j].status \in OpenStatuses \cup {"INTERRUPTED"}
    BY <1>15 DEF OrphanWrite, History, RowsTracked
  <2>. QED BY <1>15, <2>1, LedgerOverwrites DEF OrphanWrite, Inv, workers
<1>16. ~LaunchOther
  BY DEF LaunchOther
<1>17. CASE UNCHANGED vars
  BY <1>17 DEF vars, workers
<1>. QED
  BY <1>1, <1>2, <1>3, <1>4, <1>5, <1>6, <1>7, <1>8, <1>9, <1>10, <1>11, <1>12, <1>13,
     <1>14, <1>15, <1>16, <1>17
  DEF Next, GuiCalls, GuiThread, Worker, BackendStep, Exit, Crash

(* Without a second instance the manager's history is the ledger's: rows    *)
(* open once, advance, are closed truthfully and never written again, and   *)
(* recovery only closes rows of jobs nobody works on.                       *)
THEOREM ImplementsLedger == OtherInstance = FALSE => (Spec => LedgerSpec)
<1>. SUFFICES ASSUME OtherInstance = FALSE
              PROVE  Spec => LedgerSpec
  OBVIOUS
<1>1. Init => Ledger!LedgerInit
  BY DEF Init, Ledger!LedgerInit, NoRow, LiveStates
<1>2. Inv /\ History /\ DownTracked /\ PhasesTracked /\ [Next]_vars
         => [Ledger!LedgerNext]_(Ledger!ledgerVars)
  BY LedgerStep
<1>. QED
  BY <1>1, <1>2, RefinementInvariance, PTL DEF Spec, LedgerSpec, Ledger!LedgerSpec

(* database.py closes a row as INTERRUPTED with the message "Application    *)
(* exited before the job reached a terminal state": nobody is working on    *)
(* the job of such a row.                                                   *)
InterruptedJobsAreOver ==
    \A j \in Jobs : rows[j].status = "INTERRUPTED" =>
        pc[j] \notin LiveStates \ {"publishing", "ended"}

(* Such a row says the truth unless a second copy of the program wrote it:  *)
(* the UPDATE of initialize() at a start is never beside a worker of the    *)
(* copy that starts.                                                        *)
THEOREM InterruptedWithoutCopy ==
    OtherInstance = FALSE => (Spec => []InterruptedJobsAreOver)
<1>1. ASSUME Inv, History, PhasesTracked, NEW j \in Jobs,
             pc[j] \in LiveStates \ {"publishing", "ended"}
      PROVE  rows[j].status \in OpenStatuses
  <2>1. CASE pc[j] = "finishing"
    BY <1>1, <2>1 DEF PhasesTracked
  <2>2. CASE pc[j] # "finishing"
    <3>1. rows[j].status = PhaseAt(stage[j])
      BY <1>1, <2>2 DEF PhasesTracked, LiveStates
    <3>. QED BY <3>1 DEF PhaseAt, OpenStatuses
  <2>. QED BY <2>1, <2>2
<1>2. Inv /\ History /\ PhasesTracked => InterruptedJobsAreOver
  BY <1>1 DEF InterruptedJobsAreOver, OpenStatuses
<1>. QED
  BY <1>2, RefinementInvariance, PTL

-----------------------------------------------------------------------------
(* The other side of the contract that NativeWipe and DiskPartWipe keep:    *)
(* what a worker of JobManager does in place of its backend is a run of     *)
(* BackendRun, until the process dies under it.                             *)

(* The run of job j has come to an end. *)
Returned(j) == note[j].status \in FinishedStatuses

RunStage(j) == IF Returned(j) THEN "returned" ELSE stage[j]

(* An exception has no byte count; the ERROR the manager makes of it has    *)
(* the last one it saw.                                                     *)
RunResult(j) ==
    IF ~Returned(j) THEN Null
    ELSE [status |-> note[j].status,
          bytes |-> IF note[j].status = "ERROR" THEN Null ELSE note[j].bytes]

Contract(b, j) == INSTANCE BackendRun WITH
    Kind <- b,
    stage <- RunStage(j),
    wiped <- wiped[j],
    cancelled <- j \in cancel,
    result <- RunResult(j)

(* In one life of the process, whatever happens to a job of backend b is a  *)
(* step of a run of b or does not concern it, interleaved in any way with   *)
(* the other workers, the GUI thread and cancellation.                      *)
WorkersKeepContract ==
    [][\A j \in Jobs, b \in Backends :
          kind[j] = b /\ pc[j] # "orphan" /\ app' = "up" =>
              Contract(b, j)!RunNext \/ UNCHANGED Contract(b, j)!runVars]_vars

(* Until its run ends, the last progress of a job is an open one.           *)
NotesOpen ==
    \A j \in Jobs : pc[j] \in {"new", "starting", "queued", "accepting", "announcing",
                               "running"} => note[j].status \in OpenStatuses

(* No step makes an end of a progress before the run has one.               *)
LEMMA NotesOpenStep ==
    ASSUME TypeOK, Tracking, Accounting, NotesOpen, [Next]_vars
    PROVE  NotesOpen'
<1>1. CASE Launch
  BY <1>1
  DEF Launch, workers, NotesOpen, TypeOK, ProcessTypeOK, WorkersTypeOK,
      RecordsTypeOK
<1>2. ASSUME NEW j \in Jobs, NEW d \in Disks, NEW b \in Backends, Start(j, d, b)
      PROVE  NotesOpen'
  BY <1>2
  DEF Start, GuiReady, NotesOpen, TypeOK, ProcessTypeOK, WorkersTypeOK,
      RecordsTypeOK
<1>3. ASSUME NEW d \in Disks, Cancel(d)
      PROVE  NotesOpen'
  BY <1>3
  DEF Cancel, GuiReady, workers, NotesOpen, TypeOK, ProcessTypeOK,
      WorkersTypeOK, RecordsTypeOK
<1>4. CASE Close
  BY <1>4
  DEF Close, GuiReady, workers, NotesOpen, TypeOK, ProcessTypeOK, WorkersTypeOK,
      RecordsTypeOK
<1>5. CASE Submit
  BY <1>5
  DEF Submit, Tracking, StartTracked, NotesOpen, TypeOK, ProcessTypeOK,
      WorkersTypeOK, RecordsTypeOK
<1>6. CASE Register
  BY <1>6
  DEF Register, workers, NotesOpen, TypeOK, ProcessTypeOK, WorkersTypeOK,
      RecordsTypeOK
<1>7. CASE RegisterFinished
  BY <1>7
  DEF RegisterFinished, workers, NotesOpen, TypeOK, ProcessTypeOK,
      WorkersTypeOK, RecordsTypeOK
<1>8. CASE Drain
  BY <1>8
  DEF Drain, process, workers, NotesOpen, TypeOK, ProcessTypeOK, WorkersTypeOK,
      RecordsTypeOK
<1>9. CASE EndProcess
  <2>. QED BY <1>9 DEF EndProcess, NotesOpen, NoProgress, OpenStatuses
<1>10. ASSUME NEW j \in Jobs, Take(j)
       PROVE  NotesOpen'
  <2>1. pc[j] = "queued"
    BY <1>10 DEF Take, Tracking, QueueTracked, TypeOK, ProcessTypeOK
  <2>. QED
    BY <1>10, <2>1 DEF Take, NotesOpen, TypeOK, WorkersTypeOK
<1>11. ASSUME NEW j \in Jobs, Accept(j)
       PROVE  NotesOpen'
  <2>1. /\ \/ note'[j].status \in OpenStatuses
           \/ pc'[j] = "ended"
        /\ \A k \in Jobs \ {j} : pc'[k] = pc[k] /\ note'[k] = note[k]
    BY <1>11 DEF Accept, Recorded, Unrecorded, OpenStatuses, TypeOK, WorkersTypeOK
  <2>. QED BY <2>1 DEF NotesOpen
<1>12. ASSUME NEW j \in Jobs, Announce(j)
       PROVE  NotesOpen'
  BY <1>12
  DEF Announce, process, NotesOpen, TypeOK, ProcessTypeOK, WorkersTypeOK,
      RecordsTypeOK
<1>13. ASSUME NEW j \in Jobs, Report(j)
       PROVE  NotesOpen'
  <2>1. PICK r \in Progress, seen \in 0 .. wiped[j], next \in Stages :
          ReportedAs(j, r, seen, next)
    BY <1>13, ReportOutcome
  <2>. QED
    BY <2>1 DEF ReportedAs, Recorded, Terminate, NotesOpen, TypeOK, WorkersTypeOK
<1>14. ASSUME NEW j \in Jobs, StaySilent(j)
       PROVE  NotesOpen'
  BY <1>14
  DEF StaySilent, process, NotesOpen, TypeOK, ProcessTypeOK, WorkersTypeOK,
      RecordsTypeOK
<1>15. ASSUME NEW j \in Jobs, Poll(j)
       PROVE  NotesOpen'
  <2>1. /\ pc[j] = "running" /\ pc'[j] \in {"running", "finishing"}
        /\ pc'[j] = "running" => note' = note
        /\ \A k \in Jobs \ {j} : pc'[k] = pc[k] /\ note'[k] = note[k]
    BY <1>15 DEF Poll, Terminate, TypeOK, WorkersTypeOK
  <2>. QED BY <2>1 DEF NotesOpen
<1>16. ASSUME NEW j \in Jobs, Write(j)
       PROVE  NotesOpen'
  BY <1>16
  DEF Write, process, NotesOpen, TypeOK, ProcessTypeOK, WorkersTypeOK,
      RecordsTypeOK
<1>17. ASSUME NEW j \in Jobs, Fail(j)
       PROVE  NotesOpen'
  <2>1. /\ pc[j] = "running" /\ pc'[j] \in {"running", "finishing"}
        /\ pc'[j] = "running" => note' = note
        /\ \A k \in Jobs \ {j} : pc'[k] = pc[k] /\ note'[k] = note[k]
    BY <1>17 DEF Fail, Terminate, TypeOK, WorkersTypeOK
  <2>. QED BY <2>1 DEF NotesOpen
<1>18. ASSUME NEW j \in Jobs, Complete(j)
       PROVE  NotesOpen'
  <2>1. /\ pc[j] = "running" /\ pc'[j] \in {"running", "finishing"}
        /\ pc'[j] = "running" => note' = note
        /\ \A k \in Jobs \ {j} : pc'[k] = pc[k] /\ note'[k] = note[k]
    BY <1>18 DEF Complete, Terminate, TypeOK, WorkersTypeOK
  <2>. QED BY <2>1 DEF NotesOpen
<1>19. ASSUME NEW j \in Jobs, Finish(j)
       PROVE  NotesOpen'
  BY <1>19
  DEF Finish, Unrecorded, process, NotesOpen, TypeOK, ProcessTypeOK,
      WorkersTypeOK, RecordsTypeOK
<1>20. ASSUME NEW j \in Jobs, Publish(j)
       PROVE  NotesOpen'
  BY <1>20
  DEF Publish, process, NotesOpen, TypeOK, ProcessTypeOK, WorkersTypeOK,
      RecordsTypeOK
<1>21. ASSUME NEW j \in Jobs, Resolve(j)
       PROVE  NotesOpen'
  BY <1>21
  DEF Resolve, process, NotesOpen, TypeOK, ProcessTypeOK, WorkersTypeOK,
      RecordsTypeOK
<1>22. ASSUME NEW j \in Jobs, Forget(j)
       PROVE  NotesOpen'
  BY <1>22
  DEF Forget, NotesOpen, TypeOK, ProcessTypeOK, WorkersTypeOK, RecordsTypeOK
<1>23. ASSUME NEW j \in Jobs, OrphanWrite(j)
       PROVE  NotesOpen'
  BY <1>23
  DEF OrphanWrite, process, workers, NotesOpen, TypeOK, ProcessTypeOK,
      WorkersTypeOK, RecordsTypeOK
<1>24. CASE LaunchOther
  BY <1>24
  DEF LaunchOther, process, workers, NotesOpen, TypeOK, ProcessTypeOK,
      WorkersTypeOK, RecordsTypeOK
<1>25. CASE UNCHANGED vars
  BY <1>25
  DEF vars, process, workers, NotesOpen, TypeOK, ProcessTypeOK, WorkersTypeOK,
      RecordsTypeOK
<1>. QED
  BY <1>1, <1>2, <1>3, <1>4, <1>5, <1>6, <1>7, <1>8, <1>9, <1>10, <1>11, <1>12,
     <1>13, <1>14, <1>15, <1>16, <1>17, <1>18, <1>19, <1>20, <1>21, <1>22,
     <1>23, <1>24, <1>25
  DEF Next, GuiCalls, GuiThread, Worker, BackendStep, Exit, Crash

(* What does not touch the run, its end or its cancellation stutters.       *)
LEMMA RunStutters ==
    ASSUME NEW j \in Jobs, NEW b \in Backends,
           stage'[j] = stage[j], wiped'[j] = wiped[j],
           note'[j] = note[j] \/ (~Returned(j) /\ ~Returned(j)'),
           j \in cancel' <=> j \in cancel
    PROVE  UNCHANGED Contract(b, j)!runVars
<1>1. RunStage(j)' = RunStage(j) /\ RunResult(j)' = RunResult(j)
  BY DEF RunStage, RunResult, Returned
<1>2. (j \in cancel)' = (j \in cancel)
  OBVIOUS
<1>. QED
  BY <1>1, <1>2 DEF Contract!runVars

(* A try statement that ends is a run that returns.                         *)
LEMMA RunReturns ==
    ASSUME TypeOK, NEW j \in Jobs, NEW b \in Backends, NEW r \in Progress,
           r.status \in FinishedStatuses, Terminate(j, r), ~Returned(j),
           UNCHANGED <<wiped, cancel>>
    PROVE  Contract(b, j)!Return(r.status, IF r.status = "ERROR" THEN Null ELSE r.bytes)
<1>1. note'[j] = r
  BY DEF Terminate, TypeOK, WorkersTypeOK
<1>. QED
  BY <1>1 DEF Contract!Return, Returned, RunStage, RunResult

(* A worker that goes from one stage to the next.                           *)
LEMMA RunGoesOn ==
    ASSUME TypeOK, NEW j \in Jobs, NEW b \in Backends, NEW s \in Stages,
           stage'[j] = s, ~Returned(j), ~Returned(j)', UNCHANGED <<wiped, cancel>>
    PROVE  Contract(b, j)!GoTo(s)
  BY DEF Contract!GoTo, RunStage, RunResult

(* The words of the contract mean what they mean here. *)
LEMMA OneVocabulary ==
    ASSUME NEW j \in Jobs, NEW b \in Backends, NEW s, NEW w
    PROVE  /\ Contract(b, j)!ReportingStages(b) = ReportingStages(b)
           /\ Contract(b, j)!AfterReport(b, s, w) = AfterReport(b, s, w)
           /\ Contract(b, j)!AfterChunk(b, w) = AfterChunk(b, w)
           /\ Contract(b, j)!MayStaySilent(b, s, w) = MayStaySilent(b, s, w)
           /\ Contract(b, j)!Simulated(b) = Simulated(b)
  BY
  DEF ReportingStages, AfterReport, AfterChunk, MayStaySilent, Simulated,
      Contract!ReportingStages, Contract!AfterReport, Contract!AfterChunk,
      Contract!MayStaySilent, Contract!Simulated

(* A step of a worker is a step of its backend, or none.                    *)
LEMMA WorkerContract ==
    ASSUME TypeOK, Tracking, Accounting, NotesOpen, NEW j \in Jobs, NEW b \in Backends,
           kind[j] = b, Worker(j)
    PROVE  Contract(b, j)!RunNext \/ UNCHANGED Contract(b, j)!runVars
<1>. DEFINE C == Contract(b, j)!RunNext \/ UNCHANGED Contract(b, j)!runVars
<1>1. /\ b \in BackendKinds /\ wiped[j] \in 0 .. Size
      /\ pc \in [Jobs -> WorkerStates] /\ stage \in [Jobs -> Stages]
      /\ note \in [Jobs -> Progress] /\ wiped \in [Jobs -> 0 .. Size]
      /\ last[j] \in 0 .. Size /\ Size \in Nat
      /\ Null \in Bytes /\ \A n \in 0 .. Size : n \in Bytes
  BY BackendsAssumption, SizeAssumption
  DEF TypeOK, WorkersTypeOK, RecordsTypeOK, Bytes
<1>2. OpenStatuses \cap FinishedStatuses = {}
  BY DEF OpenStatuses, FinishedStatuses
<1>3. pc[j] = "running" => ~Returned(j)
  BY <1>2 DEF NotesOpen, Returned
<1>4. CASE Report(j)
  <2>1. /\ stage[j] \in ReportingStages(b) /\ pc[j] = "running"
        /\ RunStage(j) = stage[j] /\ ~Returned(j)
        /\ UNCHANGED <<wiped, cancel>>
    BY <1>3, <1>4 DEF Report, RunStage, process
  <2>2. PICK r \in Progress, seen \in 0 .. wiped[j], next \in Stages :
          /\ r.status \in OpenStatuses /\ next = AfterReport(b, stage[j], wiped[j])
          /\ \/ Recorded(j, r) /\ stage' = [stage EXCEPT ![j] = next]
             \/ Terminate(j, ErrorAfter(seen)) /\ UNCHANGED stage
    <3>1. /\ stage[j] \in {"called", "prepared", "locked"} => wiped[j] = 0
          /\ stage[j] = "flushed" => wiped[j] = Size
          /\ stage[j] = "locked" => b = "native"
          /\ last[j] \in 0 .. wiped[j]
      BY <1>1, <2>1 DEF Accounting, BeforeEnd
    <3>2. /\ ReportOf(b, stage[j], wiped[j]) \in Progress
          /\ ReportOf(b, stage[j], wiped[j]).status \in OpenStatuses
          /\ ReportOf(b, stage[j], wiped[j]).bytes # Null =>
                ReportOf(b, stage[j], wiped[j]).bytes \in 0 .. wiped[j]
          /\ AfterReport(b, stage[j], wiped[j]) \in Stages
      BY <1>1, <2>1, <3>1, ReportFacts, AfterReportFacts
    <3>. QED BY <1>4, <3>1, <3>2 DEF Report
  <2>3. CASE Recorded(j, r) /\ stage' = [stage EXCEPT ![j] = next]
    <3>1. stage'[j] = next /\ ~Returned(j)'
      BY <1>1, <1>2, <2>2, <2>3 DEF Recorded, Returned
    <3>2. Contract(b, j)!GoTo(next)
      BY <2>1, <3>1, RunGoesOn
    <3>. QED
      BY <2>1, <2>2, <3>2, OneVocabulary DEF Contract!RunNext, Contract!RunReport
  <2>4. CASE Terminate(j, ErrorAfter(seen))
    <3>1. ErrorAfter(seen) \in Progress /\ ErrorAfter(seen).status = "ERROR"
      <4>1. seen \in 0 .. Size
        BY <1>1
      <4>. QED BY <1>1, <4>1, ProgressFacts DEF ErrorAfter
    <3>2. Contract(b, j)!Return("ERROR", Null)
      BY <2>1, <2>4, <3>1, RunReturns DEF FinishedStatuses
    <3>. QED
      BY <2>1, <3>2, OneVocabulary DEF Contract!RunNext, Contract!RunReport
  <2>. QED BY <2>2, <2>3, <2>4
<1>5. CASE StaySilent(j)
  <2>1. /\ pc[j] = "running" /\ MayStaySilent(b, stage[j], wiped[j])
        /\ stage'[j] = AfterChunk(b, wiped[j]) /\ UNCHANGED <<wiped, cancel, note>>
        /\ ~Returned(j) /\ ~Returned(j)' /\ RunStage(j) = stage[j]
        /\ stage[j] # "returned"
    BY <1>1, <1>3, <1>5
    DEF StaySilent, MayStaySilent, process, Returned, RunStage
  <2>2. AfterChunk(b, wiped[j]) \in Stages
    BY DEF AfterChunk, Stages
  <2>. QED
    BY <2>1, <2>2, RunGoesOn, OneVocabulary DEF Contract!RunNext, Contract!RunStaySilent
<1>6. CASE Poll(j)
  <2>1. /\ pc[j] = "running" /\ stage[j] = "polling" /\ RunStage(j) = "polling"
        /\ ~Returned(j) /\ UNCHANGED <<wiped, cancel>>
    BY <1>3, <1>6 DEF Poll, process, RunStage
  <2>2. CASE j \in cancel
    <3>. DEFINE r == [status |-> "CANCELLED_INCOMPLETE", bytes |-> wiped[j]]
    <3>1. r \in Progress /\ Terminate(j, r)
      BY <1>1, <1>6, <2>2, ProgressFacts DEF Poll
    <3>2. Contract(b, j)!Return("CANCELLED_INCOMPLETE", wiped[j])
      BY <2>1, <3>1, RunReturns DEF FinishedStatuses
    <3>. QED BY <2>1, <2>2, <3>2 DEF Contract!RunNext, Contract!RunPoll
  <2>3. CASE j \notin cancel
    <3>1. stage'[j] = "writing" /\ ~Returned(j)' /\ "writing" \in Stages
      BY <1>1, <1>6, <2>1, <2>3 DEF Poll, Returned, Stages
    <3>2. Contract(b, j)!GoTo("writing")
      BY <2>1, <3>1, RunGoesOn
    <3>. QED BY <2>1, <2>3, <3>2 DEF Contract!RunNext, Contract!RunPoll
  <2>. QED BY <2>2, <2>3
<1>7. CASE Write(j)
  <2>1. /\ RunStage(j) = "writing" /\ wiped'[j] = wiped[j] + 1
        /\ RunStage(j)' = IF b = "diskpart" THEN AfterChunk(b, wiped[j] + 1) ELSE "written"
        /\ RunResult(j)' = RunResult(j) /\ cancel' = cancel
    BY <1>1, <1>3, <1>7 DEF Write, RunStage, RunResult, Returned, process
  <2>. QED BY <2>1, OneVocabulary DEF Contract!RunNext, Contract!RunWrite
<1>8. CASE Fail(j)
  <2>1. /\ Terminate(j, ErrorAfter(last[j])) /\ ~Returned(j)
        /\ UNCHANGED <<wiped, cancel>> /\ ~Simulated(b)
        /\ RunStage(j) = stage[j] /\ stage[j] # "returned"
    BY <1>1, <1>3, <1>8 DEF Fail, process, RunStage, Stages
  <2>2. ErrorAfter(last[j]) \in Progress /\ ErrorAfter(last[j]).status = "ERROR"
    BY <1>1, ProgressFacts DEF ErrorAfter
  <2>3. Contract(b, j)!Return("ERROR", Null)
    BY <2>1, <2>2, RunReturns DEF FinishedStatuses
  <2>. QED BY <2>1, <2>3, OneVocabulary DEF Contract!RunNext, Contract!RunFail
<1>9. CASE Complete(j)
  <2>. DEFINE r == [status |-> "COMPLETE", bytes |-> Size]
  <2>1. /\ Terminate(j, r) /\ ~Returned(j) /\ UNCHANGED <<wiped, cancel>>
        /\ RunStage(j) = "verified"
    BY <1>3, <1>9 DEF Complete, process, RunStage
  <2>2. r \in Progress
    BY ProgressFacts
  <2>3. Contract(b, j)!Return("COMPLETE", Size)
    BY <2>1, <2>2, RunReturns DEF FinishedStatuses
  <2>. QED BY <2>1, <2>3 DEF Contract!RunNext, Contract!RunComplete
<1>10. CASE Accept(j)
  <2>1. /\ stage' = stage /\ wiped' = wiped /\ cancel' = cancel /\ pc[j] = "accepting"
        /\ \/ note' = note
           \/ note'[j].status \in OpenStatuses
    BY <1>1, <1>10 DEF Accept, Recorded, Unrecorded, process, OpenStatuses
  <2>2. ~Returned(j) /\ (note' = note \/ ~Returned(j)')
    BY <1>2, <2>1 DEF NotesOpen, Returned
  <2>. QED BY <2>1, <2>2, RunStutters
<1>11. CASE Take(j) \/ Announce(j) \/ Finish(j) \/ Publish(j) \/ Resolve(j) \/ Forget(j)
  BY <1>11, RunStutters
  DEF Take, Announce, Finish, Unrecorded, Publish, Resolve, Forget, process
<1>. QED
  BY <1>4, <1>5, <1>6, <1>7, <1>8, <1>9, <1>10, <1>11 DEF Worker, BackendStep

(* A step of another worker does not concern the run.                       *)
LEMMA OtherWorkers ==
    ASSUME TypeOK, NEW i \in Jobs, NEW j \in Jobs \ {i}, Worker(i)
    PROVE  /\ stage'[j] = stage[j] /\ wiped'[j] = wiped[j] /\ note'[j] = note[j]
           /\ cancel' = cancel
<1>. USE DEF TypeOK, WorkersTypeOK, RecordsTypeOK, process
<1>1. CASE Take(i) \/ Accept(i) \/ Announce(i)
  BY <1>1 DEF Take, Accept, Recorded, Unrecorded, Announce
<1>2. CASE Report(i) \/ StaySilent(i)
  BY <1>2 DEF Report, Recorded, Terminate, StaySilent
<1>3. CASE Poll(i) \/ Write(i) \/ Fail(i) \/ Complete(i)
  BY <1>3 DEF Poll, Write, Fail, Complete, Terminate
<1>4. CASE Finish(i) \/ Publish(i) \/ Resolve(i) \/ Forget(i)
  BY <1>4 DEF Finish, Unrecorded, Publish, Resolve, Forget
<1>. QED
  BY <1>1, <1>2, <1>3, <1>4 DEF Worker, BackendStep

(* Every worker keeps the contract of its backend.                          *)
THEOREM WorkersKeepTheContract == Spec => WorkersKeepContract
<1>1. Init => NotesOpen
  BY DEF Init, NotesOpen, NoProgress, OpenStatuses
<1>2. Inv /\ NotesOpen /\ [Next]_vars => Inv' /\ NotesOpen'
  BY StepInv, NotesOpenStep DEF Inv
<1>3. Inv /\ NotesOpen /\ [Next]_vars =>
        [\A j \in Jobs, b \in Backends :
           kind[j] = b /\ pc[j] # "orphan" /\ app' = "up" =>
               Contract(b, j)!RunNext \/ UNCHANGED Contract(b, j)!runVars]_vars
  <2> SUFFICES ASSUME Inv, NotesOpen, Next, NEW j \in Jobs, NEW b \in Backends,
                      kind[j] = b, pc[j] # "orphan", app' = "up"
               PROVE  Contract(b, j)!RunNext \/ UNCHANGED Contract(b, j)!runVars
    OBVIOUS
  <2>1. CASE Worker(j)
    BY <2>1, WorkerContract DEF Inv
  <2>2. ASSUME NEW i \in Jobs \ {j}, Worker(i)
        PROVE  UNCHANGED Contract(b, j)!runVars
    BY <2>2, OtherWorkers, RunStutters DEF Inv
  <2>3. CASE Launch \/ LaunchOther \/ Close \/ Submit \/ Register \/ RegisterFinished
             \/ Drain
    BY <2>3, RunStutters
    DEF Launch, LaunchOther, Close, Submit, Register, RegisterFinished, Drain, workers,
        process
  <2>4. ASSUME NEW i \in Jobs, NEW d \in Disks, NEW c \in Backends, Start(i, d, c)
        PROVE  UNCHANGED Contract(b, j)!runVars
    BY <2>4, RunStutters DEF Start
  <2>5. ASSUME NEW d \in Disks, Cancel(d)
        PROVE  Contract(b, j)!RunNext \/ UNCHANGED Contract(b, j)!runVars
    <3>1. PICK i \in active : cancel' = cancel \cup {i}
      BY <2>5 DEF Cancel
    <3>2. stage' = stage /\ wiped' = wiped /\ note' = note
      BY <2>5 DEF Cancel, workers
    <3>3. CASE i = j
      <4>1. j \in cancel' /\ RunStage(j)' = RunStage(j) /\ RunResult(j)' = RunResult(j)
        BY <3>1, <3>2, <3>3 DEF RunStage, RunResult, Returned
      <4>. QED BY <3>2, <4>1 DEF Contract!RunNext, Contract!SetCancel
    <3>4. CASE i # j
      BY <3>1, <3>2, <3>4, RunStutters
    <3>. QED BY <3>3, <3>4
  <2>6. ASSUME NEW i \in Jobs, OrphanWrite(i)
        PROVE  UNCHANGED Contract(b, j)!runVars
    <3>1. i # j /\ wiped'[j] = wiped[j]
      BY <2>6 DEF OrphanWrite, Inv, TypeOK, RecordsTypeOK
    <3>. QED BY <2>6, <3>1, RunStutters DEF OrphanWrite, workers, process
  <2>7. ~EndProcess
    BY DEF EndProcess
  <2>. QED
    BY <2>1, <2>2, <2>3, <2>4, <2>5, <2>6, <2>7 DEF Next, GuiCalls, GuiThread, Exit,
       Crash
<1>. QED
  BY <1>1, <1>2, <1>3, InitInv, PTL DEF Spec, WorkersKeepContract
=============================================================================
