-------------------------- MODULE JobHistoryProofs --------------------------
(***************************************************************************)
(* What the history rows of JobManager say, proved on top of the           *)
(* invariant of JobManagerProofs.                                          *)
(***************************************************************************)
EXTENDS JobManagerProofs

(* While anybody may still write for a job, its row says nothing final.     *)
RowsTracked ==
    \A j \in Jobs :
        /\ pc[j] = "new" => rows[j] = NoRow
        /\ pc[j] \in (BeforeEnd \ {"new"}) \cup {"orphan"}
              => rows[j].status \in OpenStatuses \cup {"INTERRUPTED"}

(* What r says of job j is what j has done. *)
Honest(j, r) ==
    /\ r.status = "COMPLETE" => wiped[j] = Size /\ r.bytes = Size
    /\ r.status = "CANCELLED_INCOMPLETE" => wiped[j] < Size /\ r.bytes = wiped[j]
    /\ r.bytes # Null => r.bytes <= wiped[j]

(* The same of the progress a worker carries, and its row once stored.      *)
NotesHonest ==
    \A j \in Jobs :
        /\ pc[j] = "announcing" => note[j].status \in OpenStatuses
        /\ pc[j] \in {"finishing", "publishing"} => note[j].status \in FinishedStatuses
        /\ pc[j] \in {"announcing", "finishing", "publishing"} => Honest(j, note[j])
        /\ pc[j] = "publishing" => rows[j] = note[j]

RowsHonest == \A j \in Jobs : Honest(j, rows[j])

(* The ends on their way to the window, or there, are the history's; no     *)
(* byte count on that way exceeds what is written.                          *)
Told(j, e) ==
    /\ e.status \in FinishedStatuses => rows[j] = e
    /\ e.bytes # Null => e.bytes <= wiped[j]

WindowHonest ==
    \A j \in Jobs :
        /\ Told(j, shown[j])
        /\ \A i \in DOMAIN events[j] : Told(j, events[j][i])

(* An open row is one a worker will still close, or could not.              *)
OpenTracked ==
    app = "up" => \A j \in Jobs : RowIsOpen(rows[j]) =>
        pc[j] \in BeforeEnd \/ j \in unrecorded

History == RowsTracked /\ NotesHonest /\ RowsHonest /\ WindowHonest /\ OpenTracked

-----------------------------------------------------------------------------
(* initialize() closes the open rows as INTERRUPTED and leaves byte counts. *)
LEMMA RecoveryFacts ==
    ASSUME TypeOK, NEW k \in Jobs, rows' = [j \in Jobs |-> Reconciled(rows[j])]
    PROVE  /\ rows[k].status \in OpenStatuses => rows'[k].status = "INTERRUPTED"
           /\ rows[k].status \notin OpenStatuses => rows'[k] = rows[k]
           /\ rows'[k].bytes = rows[k].bytes
<1>1. rows[k] \in Progress \cup {NoRow}
  BY DEF TypeOK, RecordsTypeOK
<1>2. rows'[k] = IF RowIsOpen(rows[k])
                 THEN [status |-> "INTERRUPTED", bytes |-> rows[k].bytes] ELSE rows[k]
  BY <1>1, ProgressFacts
<1>. QED
  BY <1>2 DEF RowIsOpen

(* Nobody writes to a disk, and nobody reports, under a row that is final.  *)
LEMMA RowsTrackedStep ==
    ASSUME TypeOK, Tracking, Accounting, RowsTracked, [Next]_vars
    PROVE  RowsTracked'
<1>1. CASE Launch
  <2>1. rows' = [k \in Jobs |-> Reconciled(rows[k])] /\ UNCHANGED workers
    BY <1>1 DEF Launch
  <2>2. ASSUME NEW k \in Jobs
        PROVE  /\ rows[k].status \in OpenStatuses => rows'[k].status = "INTERRUPTED"
               /\ rows[k].status \notin OpenStatuses => rows'[k] = rows[k]
    BY <2>1, RecoveryFacts
  <2>. QED BY <2>1, <2>2 DEF RowsTracked, workers, NoRow, OpenStatuses
<1>2. ASSUME NEW j \in Jobs, NEW d \in Disks, NEW b \in Backends, Start(j, d, b)
      PROVE  RowsTracked'
  BY <1>2, ProgressFacts
  DEF Start, StoreRow, TypeOK, ProcessTypeOK, WorkersTypeOK, RecordsTypeOK, Tracking,
      StartTracked, QueueTracked, RowsTracked, BeforeEnd, OpenStatuses,
      FinishedStatuses, window, observed
<1>3. ASSUME NEW d \in Disks, Cancel(d)
      PROVE  RowsTracked'
  BY <1>3, ProgressFacts
  DEF Cancel, TypeOK, ProcessTypeOK, WorkersTypeOK, RecordsTypeOK, Tracking,
      StartTracked, QueueTracked, RowsTracked, BeforeEnd, OpenStatuses,
      FinishedStatuses, workers, window, authorization
<1>4. CASE Close
  BY <1>4, ProgressFacts
  DEF Close, TypeOK, ProcessTypeOK, WorkersTypeOK, RecordsTypeOK, Tracking,
      StartTracked, QueueTracked, RowsTracked, BeforeEnd, OpenStatuses,
      FinishedStatuses, workers, window, authorization, observed
<1>5. CASE Submit
  BY <1>5, ProgressFacts
  DEF Submit, TypeOK, ProcessTypeOK, WorkersTypeOK, RecordsTypeOK, Tracking,
      StartTracked, QueueTracked, RowsTracked, BeforeEnd, OpenStatuses,
      FinishedStatuses, window, authorization, observed
<1>6. CASE Register
  BY <1>6, ProgressFacts
  DEF Register, TypeOK, ProcessTypeOK, WorkersTypeOK, RecordsTypeOK, Tracking,
      StartTracked, QueueTracked, RowsTracked, BeforeEnd, OpenStatuses,
      FinishedStatuses, workers, window, authorization, observed
<1>7. CASE RegisterFinished
  BY <1>7, ProgressFacts
  DEF RegisterFinished, TypeOK, ProcessTypeOK, WorkersTypeOK, RecordsTypeOK, Tracking,
      StartTracked, QueueTracked, RowsTracked, BeforeEnd, OpenStatuses,
      FinishedStatuses, workers, window, authorization, observed
<1>8. CASE Drain
  BY <1>8, ProgressFacts
  DEF Drain, TypeOK, ProcessTypeOK, WorkersTypeOK, RecordsTypeOK, Tracking,
      StartTracked, QueueTracked, RowsTracked, BeforeEnd, OpenStatuses,
      FinishedStatuses, process, workers, authorization, observed
<1>9. CASE EndProcess
  <2>1. ASSUME NEW k \in Jobs
        PROVE  /\ pc'[k] \in {"new", "gone", "lost", "orphan"}
               /\ pc'[k] = "new" => pc[k] = "new"
               /\ pc'[k] = "orphan" => pc[k] \in {"orphan", "running"}
    BY <1>9, <2>1, AbandonedFacts
    DEF EndProcess, TypeOK, ProcessTypeOK, WorkersTypeOK, RecordsTypeOK
  <2>. QED BY <1>9, <2>1 DEF EndProcess, RowsTracked, BeforeEnd, OpenStatuses
<1>10. ASSUME NEW j \in Jobs, Take(j)
      PROVE  RowsTracked'
  <2>1. pc[j] = "queued" /\ rows' = rows /\ pc' = [pc EXCEPT ![j] = "accepting"]
    BY <1>10 DEF Take, Tracking, QueueTracked, TypeOK, ProcessTypeOK
  <2>. QED BY <2>1 DEF RowsTracked, BeforeEnd, TypeOK, WorkersTypeOK
<1>11. ASSUME NEW j \in Jobs, Accept(j)
      PROVE  RowsTracked'
  <2>1. /\ pc'[j] \in {"announcing", "ended"}
        /\ \/ rows' = rows
           \/ rows'[j] = [status |-> "PREPARING", bytes |-> 0] /\ note'[j] = rows'[j]
        /\ pc'[j] = "announcing" => note'[j] = [status |-> "PREPARING", bytes |-> 0]
        /\ \A k \in Jobs \ {j} :
              pc'[k] = pc[k] /\ rows'[k] = rows[k] /\ note'[k] = note[k]
        /\ UNCHANGED <<wiped, events, shown>>
        /\ pc[j] = "accepting" /\ wiped[j] \in 0 .. Size
    BY <1>11
    DEF Accept, Recorded, Unrecorded, StoreRow, window, TypeOK, ProcessTypeOK,
        WorkersTypeOK, RecordsTypeOK
  <2>. QED BY <2>1 DEF RowsTracked, BeforeEnd, OpenStatuses
<1>12. ASSUME NEW j \in Jobs, Announce(j)
      PROVE  RowsTracked'
  BY <1>12, ProgressFacts
  DEF Announce, TypeOK, ProcessTypeOK, WorkersTypeOK, RecordsTypeOK, Tracking,
      StartTracked, QueueTracked, RowsTracked, BeforeEnd, OpenStatuses,
      FinishedStatuses, process, authorization, observed
<1>13. ASSUME NEW j \in Jobs, Report(j)
      PROVE  RowsTracked'
  <2>1. PICK r \in Progress, seen \in 0 .. wiped[j], next \in Stages :
          ReportedAs(j, r, seen, next)
    BY <1>13, ReportOutcome
  <2>. QED
    BY <2>1
    DEF ReportedAs, Recorded, StoreRow, Terminate, RowsTracked, BeforeEnd, TypeOK,
        ProcessTypeOK, WorkersTypeOK, RecordsTypeOK
<1>14. ASSUME NEW j \in Jobs, StaySilent(j)
      PROVE  RowsTracked'
  BY <1>14, ProgressFacts
  DEF StaySilent, TypeOK, ProcessTypeOK, WorkersTypeOK, RecordsTypeOK, Tracking,
      StartTracked, QueueTracked, RowsTracked, BeforeEnd, OpenStatuses,
      FinishedStatuses, process, window, authorization, observed
<1>15. ASSUME NEW j \in Jobs, Poll(j)
      PROVE  RowsTracked'
  <2>1. /\ pc[j] = "running" /\ pc'[j] \in {"running", "finishing"}
        /\ \A k \in Jobs \ {j} : pc'[k] = pc[k]
        /\ rows' = rows
    BY <1>15 DEF Poll, Terminate, TypeOK, ProcessTypeOK, WorkersTypeOK, RecordsTypeOK
  <2>. QED BY <2>1 DEF RowsTracked, BeforeEnd, OpenStatuses
<1>16. ASSUME NEW j \in Jobs, Write(j)
      PROVE  RowsTracked'
  BY <1>16, ProgressFacts
  DEF Write, TypeOK, ProcessTypeOK, WorkersTypeOK, RecordsTypeOK, Tracking,
      StartTracked, QueueTracked, RowsTracked, BeforeEnd, OpenStatuses,
      FinishedStatuses, process, window, authorization, observed
<1>17. ASSUME NEW j \in Jobs, Fail(j)
      PROVE  RowsTracked'
  BY <1>17, ProgressFacts
  DEF Fail, Terminate, ErrorAfter, TypeOK, ProcessTypeOK, WorkersTypeOK, RecordsTypeOK,
      Tracking, StartTracked, QueueTracked, RowsTracked, BeforeEnd, OpenStatuses,
      FinishedStatuses, process, window, authorization, observed
<1>18. ASSUME NEW j \in Jobs, Complete(j)
      PROVE  RowsTracked'
  BY <1>18, ProgressFacts
  DEF Complete, Terminate, TypeOK, ProcessTypeOK, WorkersTypeOK, RecordsTypeOK,
      Tracking, StartTracked, QueueTracked, RowsTracked, BeforeEnd, OpenStatuses,
      FinishedStatuses, process, window, authorization, observed
<1>19. ASSUME NEW j \in Jobs, Finish(j)
      PROVE  RowsTracked'
  <2>1. /\ pc'[j] \in {"publishing", "ended"}
        /\ pc'[j] = "publishing" => rows'[j] = note[j]
        /\ pc'[j] = "ended" => rows'[j] = rows[j]
        /\ \A k \in Jobs \ {j} : pc'[k] = pc[k] /\ rows'[k] = rows[k]
        /\ pc[j] = "finishing" /\ UNCHANGED <<note, wiped, events, shown>>
    BY <1>19
    DEF Finish, Unrecorded, StoreRow, window, TypeOK, ProcessTypeOK, WorkersTypeOK,
        RecordsTypeOK
  <2>. QED BY <2>1 DEF RowsTracked, BeforeEnd, OpenStatuses
<1>20. ASSUME NEW j \in Jobs, Publish(j)
      PROVE  RowsTracked'
  BY <1>20, ProgressFacts
  DEF Publish, TypeOK, ProcessTypeOK, WorkersTypeOK, RecordsTypeOK, Tracking,
      StartTracked, QueueTracked, RowsTracked, BeforeEnd, OpenStatuses,
      FinishedStatuses, process, authorization, observed
<1>21. ASSUME NEW j \in Jobs, Resolve(j)
      PROVE  RowsTracked'
  BY <1>21, ProgressFacts
  DEF Resolve, TypeOK, ProcessTypeOK, WorkersTypeOK, RecordsTypeOK, Tracking,
      StartTracked, QueueTracked, RowsTracked, BeforeEnd, OpenStatuses,
      FinishedStatuses, process, window, authorization, observed
<1>22. ASSUME NEW j \in Jobs, Forget(j)
      PROVE  RowsTracked'
  BY <1>22, ProgressFacts
  DEF Forget, TypeOK, ProcessTypeOK, WorkersTypeOK, RecordsTypeOK, Tracking,
      StartTracked, QueueTracked, RowsTracked, BeforeEnd, OpenStatuses,
      FinishedStatuses, window, authorization, observed
<1>23. ASSUME NEW j \in Jobs, OrphanWrite(j)
      PROVE  RowsTracked'
  BY <1>23, ProgressFacts
  DEF OrphanWrite, TypeOK, ProcessTypeOK, WorkersTypeOK, RecordsTypeOK, Tracking,
      StartTracked, QueueTracked, RowsTracked, BeforeEnd, OpenStatuses,
      FinishedStatuses, process, workers, window, authorization, observed
<1>24. CASE LaunchOther
  <2>1. rows' = [k \in Jobs |-> Reconciled(rows[k])] /\ UNCHANGED workers
    BY <1>24 DEF LaunchOther
  <2>2. ASSUME NEW k \in Jobs
        PROVE  /\ rows[k].status \in OpenStatuses => rows'[k].status = "INTERRUPTED"
               /\ rows[k].status \notin OpenStatuses => rows'[k] = rows[k]
    BY <2>1, RecoveryFacts
  <2>. QED BY <2>1, <2>2 DEF RowsTracked, workers, NoRow, OpenStatuses
<1>25. CASE UNCHANGED vars
  BY <1>25, ProgressFacts
  DEF TypeOK, ProcessTypeOK, WorkersTypeOK, RecordsTypeOK, Tracking, StartTracked,
      QueueTracked, RowsTracked, BeforeEnd, OpenStatuses, FinishedStatuses, vars,
      process, workers, window, authorization, observed
<1>. QED
  BY <1>1, <1>2, <1>3, <1>4, <1>5, <1>6, <1>7, <1>8, <1>9, <1>10, <1>11, <1>12, <1>13,
     <1>14, <1>15, <1>16, <1>17, <1>18, <1>19, <1>20, <1>21, <1>22, <1>23, <1>24, <1>25
  DEF Next, GuiCalls, GuiThread, Worker, BackendStep, Exit, Crash

(* The progress a worker carries stays true until it is stored and queued.  *)
LEMMA NotesHonestStep ==
    ASSUME TypeOK, Tracking, Accounting, RowsTracked, NotesHonest, [Next]_vars
    PROVE  NotesHonest'
<1>1. CASE Launch
  BY <1>1, SizeAssumption, NullAssumption
  DEF Launch, TypeOK, ProcessTypeOK, WorkersTypeOK, RecordsTypeOK, Tracking,
      StartTracked, QueueTracked, NotesHonest, Honest, Accounting, OpenStatuses,
      FinishedStatuses, workers, window, authorization, observed, Reconciled, RowIsOpen
<1>2. ASSUME NEW j \in Jobs, NEW d \in Disks, NEW b \in Backends, Start(j, d, b)
      PROVE  NotesHonest'
  BY <1>2, SizeAssumption, NullAssumption
  DEF Start, StoreRow, TypeOK, ProcessTypeOK, WorkersTypeOK, RecordsTypeOK, Tracking,
      StartTracked, QueueTracked, NotesHonest, Honest, Accounting, OpenStatuses,
      FinishedStatuses, window, observed
<1>3. ASSUME NEW d \in Disks, Cancel(d)
      PROVE  NotesHonest'
  BY <1>3, SizeAssumption, NullAssumption
  DEF Cancel, TypeOK, ProcessTypeOK, WorkersTypeOK, RecordsTypeOK, Tracking,
      StartTracked, QueueTracked, NotesHonest, Honest, Accounting, OpenStatuses,
      FinishedStatuses, workers, window, authorization
<1>4. CASE Close
  BY <1>4, SizeAssumption, NullAssumption
  DEF Close, TypeOK, ProcessTypeOK, WorkersTypeOK, RecordsTypeOK, Tracking,
      StartTracked, QueueTracked, NotesHonest, Honest, Accounting, OpenStatuses,
      FinishedStatuses, workers, window, authorization, observed
<1>5. CASE Submit
  BY <1>5, SizeAssumption, NullAssumption
  DEF Submit, TypeOK, ProcessTypeOK, WorkersTypeOK, RecordsTypeOK, Tracking,
      StartTracked, QueueTracked, NotesHonest, Honest, Accounting, OpenStatuses,
      FinishedStatuses, window, authorization, observed
<1>6. CASE Register
  BY <1>6, SizeAssumption, NullAssumption
  DEF Register, TypeOK, ProcessTypeOK, WorkersTypeOK, RecordsTypeOK, Tracking,
      StartTracked, QueueTracked, NotesHonest, Honest, Accounting, OpenStatuses,
      FinishedStatuses, workers, window, authorization, observed
<1>7. CASE RegisterFinished
  BY <1>7, SizeAssumption, NullAssumption
  DEF RegisterFinished, TypeOK, ProcessTypeOK, WorkersTypeOK, RecordsTypeOK, Tracking,
      StartTracked, QueueTracked, NotesHonest, Honest, Accounting, OpenStatuses,
      FinishedStatuses, workers, window, authorization, observed
<1>8. CASE Drain
  BY <1>8, SizeAssumption, NullAssumption
  DEF Drain, TypeOK, ProcessTypeOK, WorkersTypeOK, RecordsTypeOK, Tracking,
      StartTracked, QueueTracked, NotesHonest, Honest, Accounting, OpenStatuses,
      FinishedStatuses, process, workers, authorization, observed
<1>9. CASE EndProcess
  <2>1. ASSUME NEW k \in Jobs
        PROVE  /\ pc'[k] \in {"new", "gone", "lost", "orphan"}
               /\ pc'[k] = "new" => pc[k] = "new"
               /\ pc'[k] = "orphan" => pc[k] \in {"orphan", "running"}
    BY <1>9, <2>1, AbandonedFacts
    DEF EndProcess, TypeOK, ProcessTypeOK, WorkersTypeOK, RecordsTypeOK
  <2>. QED BY <1>9, <2>1 DEF EndProcess, NotesHonest
<1>10. ASSUME NEW j \in Jobs, Take(j)
      PROVE  NotesHonest'
  BY <1>10, SizeAssumption, NullAssumption
  DEF Take, TypeOK, ProcessTypeOK, WorkersTypeOK, RecordsTypeOK, Tracking, StartTracked,
      QueueTracked, NotesHonest, Honest, Accounting, OpenStatuses, FinishedStatuses,
      window, authorization, observed
<1>11. ASSUME NEW j \in Jobs, Accept(j)
      PROVE  NotesHonest'
  <2>1. /\ pc'[j] \in {"announcing", "ended"}
        /\ \/ rows' = rows
           \/ rows'[j] = [status |-> "PREPARING", bytes |-> 0] /\ note'[j] = rows'[j]
        /\ pc'[j] = "announcing" => note'[j] = [status |-> "PREPARING", bytes |-> 0]
        /\ \A k \in Jobs \ {j} :
              pc'[k] = pc[k] /\ rows'[k] = rows[k] /\ note'[k] = note[k]
        /\ UNCHANGED <<wiped, events, shown>>
        /\ pc[j] = "accepting" /\ wiped[j] \in 0 .. Size
    BY <1>11
    DEF Accept, Recorded, Unrecorded, StoreRow, window, TypeOK, ProcessTypeOK,
        WorkersTypeOK, RecordsTypeOK
  <2>. QED
    BY <2>1, SizeAssumption, NullAssumption
    DEF NotesHonest, Honest, OpenStatuses, FinishedStatuses
<1>12. ASSUME NEW j \in Jobs, Announce(j)
      PROVE  NotesHonest'
  BY <1>12, SizeAssumption, NullAssumption
  DEF Announce, TypeOK, ProcessTypeOK, WorkersTypeOK, RecordsTypeOK, Tracking,
      StartTracked, QueueTracked, NotesHonest, Honest, Accounting, OpenStatuses,
      FinishedStatuses, process, authorization, observed
<1>13. ASSUME NEW j \in Jobs, Report(j)
      PROVE  NotesHonest'
  <2>1. PICK r \in Progress, seen \in 0 .. wiped[j], next \in Stages :
          ReportedAs(j, r, seen, next)
    BY <1>13, ReportOutcome
  <2>2. /\ pc[j] = "running" /\ wiped[j] \in 0 .. Size /\ UNCHANGED wiped
        /\ \/ pc'[j] = "announcing" /\ note'[j] = r
           \/ pc'[j] = "finishing" /\ note'[j] = [status |-> "ERROR", bytes |-> seen]
        /\ \A k \in Jobs \ {j} :
              pc'[k] = pc[k] /\ note'[k] = note[k] /\ rows'[k] = rows[k]
    BY <2>1
    DEF ReportedAs, Recorded, StoreRow, Terminate, ErrorAfter, TypeOK, ProcessTypeOK,
        WorkersTypeOK, RecordsTypeOK
  <2>3. r.status \in OpenStatuses /\ (r.bytes # Null => r.bytes \in 0 .. wiped[j])
    BY <2>1 DEF ReportedAs
  <2>. QED
    BY <2>2, <2>3, SizeAssumption
    DEF NotesHonest, Honest, OpenStatuses, FinishedStatuses
<1>14. ASSUME NEW j \in Jobs, StaySilent(j)
      PROVE  NotesHonest'
  BY <1>14, SizeAssumption, NullAssumption
  DEF StaySilent, TypeOK, ProcessTypeOK, WorkersTypeOK, RecordsTypeOK, Tracking,
      StartTracked, QueueTracked, NotesHonest, Honest, Accounting, OpenStatuses,
      FinishedStatuses, process, window, authorization, observed
<1>15. ASSUME NEW j \in Jobs, Poll(j)
      PROVE  NotesHonest'
  <2>1. /\ pc[j] = "running" /\ wiped[j] < Size /\ wiped[j] \in 0 .. Size
        /\ \/ /\ note'[j] = [status |-> "CANCELLED_INCOMPLETE", bytes |-> wiped[j]]
              /\ pc'[j] = "finishing"
           \/ pc' = pc /\ note' = note
        /\ \A k \in Jobs \ {j} : pc'[k] = pc[k] /\ note'[k] = note[k]
        /\ UNCHANGED <<rows, wiped>>
    BY <1>15
    DEF Poll, Terminate, Accounting, TypeOK, ProcessTypeOK, WorkersTypeOK, RecordsTypeOK
  <2>. QED
    BY <2>1, SizeAssumption, NullAssumption
    DEF NotesHonest, Honest, OpenStatuses, FinishedStatuses
<1>16. ASSUME NEW j \in Jobs, Write(j)
      PROVE  NotesHonest'
  BY <1>16, SizeAssumption, NullAssumption
  DEF Write, TypeOK, ProcessTypeOK, WorkersTypeOK, RecordsTypeOK, Tracking,
      StartTracked, QueueTracked, NotesHonest, Honest, Accounting, OpenStatuses,
      FinishedStatuses, process, window, authorization, observed
<1>17. ASSUME NEW j \in Jobs, Fail(j)
      PROVE  NotesHonest'
  BY <1>17, SizeAssumption, NullAssumption
  DEF Fail, Terminate, ErrorAfter, TypeOK, ProcessTypeOK, WorkersTypeOK, RecordsTypeOK,
      Tracking, StartTracked, QueueTracked, NotesHonest, Honest, Accounting,
      OpenStatuses, FinishedStatuses, process, window, authorization, observed
<1>18. ASSUME NEW j \in Jobs, Complete(j)
      PROVE  NotesHonest'
  BY <1>18, SizeAssumption, NullAssumption
  DEF Complete, Terminate, TypeOK, ProcessTypeOK, WorkersTypeOK, RecordsTypeOK,
      Tracking, StartTracked, QueueTracked, NotesHonest, Honest, Accounting,
      OpenStatuses, FinishedStatuses, process, window, authorization, observed
<1>19. ASSUME NEW j \in Jobs, Finish(j)
      PROVE  NotesHonest'
  <2>1. /\ pc'[j] \in {"publishing", "ended"}
        /\ pc'[j] = "publishing" => rows'[j] = note[j]
        /\ pc'[j] = "ended" => rows'[j] = rows[j]
        /\ \A k \in Jobs \ {j} : pc'[k] = pc[k] /\ rows'[k] = rows[k]
        /\ pc[j] = "finishing" /\ UNCHANGED <<note, wiped, events, shown>>
    BY <1>19
    DEF Finish, Unrecorded, StoreRow, window, TypeOK, ProcessTypeOK, WorkersTypeOK,
        RecordsTypeOK
  <2>. QED BY <2>1 DEF NotesHonest, Honest, OpenStatuses, FinishedStatuses
<1>20. ASSUME NEW j \in Jobs, Publish(j)
      PROVE  NotesHonest'
  BY <1>20, SizeAssumption, NullAssumption
  DEF Publish, TypeOK, ProcessTypeOK, WorkersTypeOK, RecordsTypeOK, Tracking,
      StartTracked, QueueTracked, NotesHonest, Honest, Accounting, OpenStatuses,
      FinishedStatuses, process, authorization, observed
<1>21. ASSUME NEW j \in Jobs, Resolve(j)
      PROVE  NotesHonest'
  BY <1>21, SizeAssumption, NullAssumption
  DEF Resolve, TypeOK, ProcessTypeOK, WorkersTypeOK, RecordsTypeOK, Tracking,
      StartTracked, QueueTracked, NotesHonest, Honest, Accounting, OpenStatuses,
      FinishedStatuses, process, window, authorization, observed
<1>22. ASSUME NEW j \in Jobs, Forget(j)
      PROVE  NotesHonest'
  BY <1>22, SizeAssumption, NullAssumption
  DEF Forget, TypeOK, ProcessTypeOK, WorkersTypeOK, RecordsTypeOK, Tracking,
      StartTracked, QueueTracked, NotesHonest, Honest, Accounting, OpenStatuses,
      FinishedStatuses, window, authorization, observed
<1>23. ASSUME NEW j \in Jobs, OrphanWrite(j)
      PROVE  NotesHonest'
  BY <1>23, SizeAssumption, NullAssumption
  DEF OrphanWrite, TypeOK, ProcessTypeOK, WorkersTypeOK, RecordsTypeOK, Tracking,
      StartTracked, QueueTracked, NotesHonest, Honest, Accounting, OpenStatuses,
      FinishedStatuses, process, workers, window, authorization, observed
<1>24. CASE LaunchOther
  BY <1>24, SizeAssumption, NullAssumption
  DEF LaunchOther, TypeOK, ProcessTypeOK, WorkersTypeOK, RecordsTypeOK, Tracking,
      StartTracked, QueueTracked, NotesHonest, Honest, Accounting, OpenStatuses,
      FinishedStatuses, process, workers, window, authorization, observed, Reconciled,
      RowIsOpen
<1>25. CASE UNCHANGED vars
  BY <1>25, SizeAssumption, NullAssumption
  DEF TypeOK, ProcessTypeOK, WorkersTypeOK, RecordsTypeOK, Tracking, StartTracked,
      QueueTracked, NotesHonest, Honest, Accounting, OpenStatuses, FinishedStatuses,
      vars, process, workers, window, authorization, observed
<1>. QED
  BY <1>1, <1>2, <1>3, <1>4, <1>5, <1>6, <1>7, <1>8, <1>9, <1>10, <1>11, <1>12, <1>13,
     <1>14, <1>15, <1>16, <1>17, <1>18, <1>19, <1>20, <1>21, <1>22, <1>23, <1>24, <1>25
  DEF Next, GuiCalls, GuiThread, Worker, BackendStep, Exit, Crash

(* The rows stay true while other chunks are written and recovery runs.     *)
LEMMA RowsHonestStep ==
    ASSUME TypeOK, Tracking, Accounting, RowsTracked, NotesHonest, RowsHonest, [Next]_vars
    PROVE  RowsHonest'
<1>1. CASE Launch
  BY <1>1, SizeAssumption, NullAssumption
  DEF Launch, TypeOK, ProcessTypeOK, WorkersTypeOK, RecordsTypeOK, RowsTracked,
      BeforeEnd, NotesHonest, RowsHonest, Honest, OpenStatuses, FinishedStatuses,
      workers, window, authorization, observed, Reconciled, RowIsOpen
<1>2. ASSUME NEW j \in Jobs, NEW d \in Disks, NEW b \in Backends, Start(j, d, b)
      PROVE  RowsHonest'
  BY <1>2, SizeAssumption, NullAssumption
  DEF Start, StoreRow, TypeOK, ProcessTypeOK, WorkersTypeOK, RecordsTypeOK, RowsTracked,
      BeforeEnd, NotesHonest, RowsHonest, Honest, OpenStatuses, FinishedStatuses,
      window, observed
<1>3. ASSUME NEW d \in Disks, Cancel(d)
      PROVE  RowsHonest'
  BY <1>3, SizeAssumption, NullAssumption
  DEF Cancel, TypeOK, ProcessTypeOK, WorkersTypeOK, RecordsTypeOK, RowsTracked,
      BeforeEnd, NotesHonest, RowsHonest, Honest, OpenStatuses, FinishedStatuses,
      workers, window, authorization
<1>4. CASE Close
  BY <1>4, SizeAssumption, NullAssumption
  DEF Close, TypeOK, ProcessTypeOK, WorkersTypeOK, RecordsTypeOK, RowsTracked,
      BeforeEnd, NotesHonest, RowsHonest, Honest, OpenStatuses, FinishedStatuses,
      workers, window, authorization, observed
<1>5. CASE Submit
  BY <1>5, SizeAssumption, NullAssumption
  DEF Submit, TypeOK, ProcessTypeOK, WorkersTypeOK, RecordsTypeOK, RowsTracked,
      BeforeEnd, NotesHonest, RowsHonest, Honest, OpenStatuses, FinishedStatuses,
      window, authorization, observed
<1>6. CASE Register
  BY <1>6, SizeAssumption, NullAssumption
  DEF Register, TypeOK, ProcessTypeOK, WorkersTypeOK, RecordsTypeOK, RowsTracked,
      BeforeEnd, NotesHonest, RowsHonest, Honest, OpenStatuses, FinishedStatuses,
      workers, window, authorization, observed
<1>7. CASE RegisterFinished
  BY <1>7, SizeAssumption, NullAssumption
  DEF RegisterFinished, TypeOK, ProcessTypeOK, WorkersTypeOK, RecordsTypeOK,
      RowsTracked, BeforeEnd, NotesHonest, RowsHonest, Honest, OpenStatuses,
      FinishedStatuses, workers, window, authorization, observed
<1>8. CASE Drain
  BY <1>8, SizeAssumption, NullAssumption
  DEF Drain, TypeOK, ProcessTypeOK, WorkersTypeOK, RecordsTypeOK, RowsTracked,
      BeforeEnd, NotesHonest, RowsHonest, Honest, OpenStatuses, FinishedStatuses,
      process, workers, authorization, observed
<1>9. CASE EndProcess
  BY <1>9, SizeAssumption, NullAssumption
  DEF EndProcess, TypeOK, ProcessTypeOK, WorkersTypeOK, RecordsTypeOK, RowsTracked,
      BeforeEnd, NotesHonest, RowsHonest, Honest, OpenStatuses, FinishedStatuses,
      authorization
<1>10. ASSUME NEW j \in Jobs, Take(j)
      PROVE  RowsHonest'
  BY <1>10, SizeAssumption, NullAssumption
  DEF Take, TypeOK, ProcessTypeOK, WorkersTypeOK, RecordsTypeOK, RowsTracked, BeforeEnd,
      NotesHonest, RowsHonest, Honest, OpenStatuses, FinishedStatuses, window,
      authorization, observed
<1>11. ASSUME NEW j \in Jobs, Accept(j)
      PROVE  RowsHonest'
  <2>1. /\ pc'[j] \in {"announcing", "ended"}
        /\ \/ rows' = rows
           \/ rows'[j] = [status |-> "PREPARING", bytes |-> 0] /\ note'[j] = rows'[j]
        /\ pc'[j] = "announcing" => note'[j] = [status |-> "PREPARING", bytes |-> 0]
        /\ \A k \in Jobs \ {j} :
              pc'[k] = pc[k] /\ rows'[k] = rows[k] /\ note'[k] = note[k]
        /\ UNCHANGED <<wiped, events, shown>>
        /\ pc[j] = "accepting" /\ wiped[j] \in 0 .. Size
    BY <1>11
    DEF Accept, Recorded, Unrecorded, StoreRow, window, TypeOK, ProcessTypeOK,
        WorkersTypeOK, RecordsTypeOK
  <2>. QED BY <2>1, SizeAssumption, NullAssumption DEF RowsHonest, Honest
<1>12. ASSUME NEW j \in Jobs, Announce(j)
      PROVE  RowsHonest'
  BY <1>12, SizeAssumption, NullAssumption
  DEF Announce, TypeOK, ProcessTypeOK, WorkersTypeOK, RecordsTypeOK, RowsTracked,
      BeforeEnd, NotesHonest, RowsHonest, Honest, OpenStatuses, FinishedStatuses,
      process, authorization, observed
<1>13. ASSUME NEW j \in Jobs, Report(j)
      PROVE  RowsHonest'
  <2>1. PICK r \in Progress, seen \in 0 .. wiped[j], next \in Stages :
          ReportedAs(j, r, seen, next)
    BY <1>13, ReportOutcome
  <2>2. /\ rows'[j] \in {rows[j], r} /\ UNCHANGED wiped
        /\ \A k \in Jobs \ {j} : rows'[k] = rows[k]
        /\ r.status \in OpenStatuses /\ (r.bytes # Null => r.bytes \in 0 .. wiped[j])
        /\ wiped[j] \in 0 .. Size
    BY <2>1
    DEF ReportedAs, Recorded, StoreRow, Terminate, TypeOK, ProcessTypeOK, WorkersTypeOK,
        RecordsTypeOK
  <2>. QED
    BY <2>2, SizeAssumption DEF RowsHonest, Honest, OpenStatuses
<1>14. ASSUME NEW j \in Jobs, StaySilent(j)
      PROVE  RowsHonest'
  BY <1>14, SizeAssumption, NullAssumption
  DEF StaySilent, TypeOK, ProcessTypeOK, WorkersTypeOK, RecordsTypeOK, RowsTracked,
      BeforeEnd, NotesHonest, RowsHonest, Honest, OpenStatuses, FinishedStatuses,
      process, window, authorization, observed
<1>15. ASSUME NEW j \in Jobs, Poll(j)
      PROVE  RowsHonest'
  BY <1>15, SizeAssumption, NullAssumption
  DEF Poll, Terminate, TypeOK, ProcessTypeOK, WorkersTypeOK, RecordsTypeOK, RowsTracked,
      BeforeEnd, NotesHonest, RowsHonest, Honest, OpenStatuses, FinishedStatuses,
      process, window, authorization, observed
<1>16. ASSUME NEW j \in Jobs, Write(j)
      PROVE  RowsHonest'
  <2>1. /\ pc[j] = "running" /\ wiped[j] \in 0 .. Size
        /\ wiped'[j] = wiped[j] + 1 /\ \A k \in Jobs \ {j} : wiped'[k] = wiped[k]
        /\ UNCHANGED <<pc, rows, note, events, shown>>
    BY <1>16
    DEF Write, workers, window, TypeOK, ProcessTypeOK, WorkersTypeOK, RecordsTypeOK
  <2>2. rows[j].bytes # Null => rows[j].bytes \in 0 .. Size
    BY DEF TypeOK, RecordsTypeOK, Progress, Bytes, NoRow
  <2>3. rows[j].status \in OpenStatuses \cup {"INTERRUPTED"}
    BY <2>1 DEF RowsTracked, BeforeEnd
  <2>. QED BY <2>1, <2>2, <2>3, SizeAssumption DEF RowsHonest, Honest, OpenStatuses
<1>17. ASSUME NEW j \in Jobs, Fail(j)
      PROVE  RowsHonest'
  BY <1>17, SizeAssumption, NullAssumption
  DEF Fail, Terminate, ErrorAfter, TypeOK, ProcessTypeOK, WorkersTypeOK, RecordsTypeOK,
      RowsTracked, BeforeEnd, NotesHonest, RowsHonest, Honest, OpenStatuses,
      FinishedStatuses, process, window, authorization, observed
<1>18. ASSUME NEW j \in Jobs, Complete(j)
      PROVE  RowsHonest'
  BY <1>18, SizeAssumption, NullAssumption
  DEF Complete, Terminate, TypeOK, ProcessTypeOK, WorkersTypeOK, RecordsTypeOK,
      RowsTracked, BeforeEnd, NotesHonest, RowsHonest, Honest, OpenStatuses,
      FinishedStatuses, process, window, authorization, observed
<1>19. ASSUME NEW j \in Jobs, Finish(j)
      PROVE  RowsHonest'
  <2>1. /\ pc'[j] \in {"publishing", "ended"}
        /\ pc'[j] = "publishing" => rows'[j] = note[j]
        /\ pc'[j] = "ended" => rows'[j] = rows[j]
        /\ \A k \in Jobs \ {j} : pc'[k] = pc[k] /\ rows'[k] = rows[k]
        /\ pc[j] = "finishing" /\ UNCHANGED <<note, wiped, events, shown>>
    BY <1>19
    DEF Finish, Unrecorded, StoreRow, window, TypeOK, ProcessTypeOK, WorkersTypeOK,
        RecordsTypeOK
  <2>. QED BY <2>1 DEF RowsHonest, Honest, NotesHonest
<1>20. ASSUME NEW j \in Jobs, Publish(j)
      PROVE  RowsHonest'
  BY <1>20, SizeAssumption, NullAssumption
  DEF Publish, TypeOK, ProcessTypeOK, WorkersTypeOK, RecordsTypeOK, RowsTracked,
      BeforeEnd, NotesHonest, RowsHonest, Honest, OpenStatuses, FinishedStatuses,
      process, authorization, observed
<1>21. ASSUME NEW j \in Jobs, Resolve(j)
      PROVE  RowsHonest'
  BY <1>21, SizeAssumption, NullAssumption
  DEF Resolve, TypeOK, ProcessTypeOK, WorkersTypeOK, RecordsTypeOK, RowsTracked,
      BeforeEnd, NotesHonest, RowsHonest, Honest, OpenStatuses, FinishedStatuses,
      process, window, authorization, observed
<1>22. ASSUME NEW j \in Jobs, Forget(j)
      PROVE  RowsHonest'
  BY <1>22, SizeAssumption, NullAssumption
  DEF Forget, TypeOK, ProcessTypeOK, WorkersTypeOK, RecordsTypeOK, RowsTracked,
      BeforeEnd, NotesHonest, RowsHonest, Honest, OpenStatuses, FinishedStatuses,
      window, authorization, observed
<1>23. ASSUME NEW j \in Jobs, OrphanWrite(j)
      PROVE  RowsHonest'
  <2>1. /\ pc[j] = "orphan" /\ wiped[j] \in 0 .. Size
        /\ wiped'[j] = wiped[j] + 1 /\ \A k \in Jobs \ {j} : wiped'[k] = wiped[k]
        /\ UNCHANGED <<pc, rows, note, events, shown>>
    BY <1>23
    DEF OrphanWrite, workers, window, TypeOK, ProcessTypeOK, WorkersTypeOK,
        RecordsTypeOK
  <2>2. rows[j].bytes # Null => rows[j].bytes \in 0 .. Size
    BY DEF TypeOK, RecordsTypeOK, Progress, Bytes, NoRow
  <2>3. rows[j].status \in OpenStatuses \cup {"INTERRUPTED"}
    BY <2>1 DEF RowsTracked, BeforeEnd
  <2>. QED BY <2>1, <2>2, <2>3, SizeAssumption DEF RowsHonest, Honest, OpenStatuses
<1>24. CASE LaunchOther
  BY <1>24, SizeAssumption, NullAssumption
  DEF LaunchOther, TypeOK, ProcessTypeOK, WorkersTypeOK, RecordsTypeOK, RowsTracked,
      BeforeEnd, NotesHonest, RowsHonest, Honest, OpenStatuses, FinishedStatuses,
      process, workers, window, authorization, observed, Reconciled, RowIsOpen
<1>25. CASE UNCHANGED vars
  BY <1>25, SizeAssumption, NullAssumption
  DEF TypeOK, ProcessTypeOK, WorkersTypeOK, RecordsTypeOK, RowsTracked, BeforeEnd,
      NotesHonest, RowsHonest, Honest, OpenStatuses, FinishedStatuses, vars, process,
      workers, window, authorization, observed
<1>. QED
  BY <1>1, <1>2, <1>3, <1>4, <1>5, <1>6, <1>7, <1>8, <1>9, <1>10, <1>11, <1>12, <1>13,
     <1>14, <1>15, <1>16, <1>17, <1>18, <1>19, <1>20, <1>21, <1>22, <1>23, <1>24, <1>25
  DEF Next, GuiCalls, GuiThread, Worker, BackendStep, Exit, Crash

(* What is queued for the window stays true, and stays what the row says.   *)
LEMMA WindowHonestStep ==
    ASSUME TypeOK, Tracking, Accounting, RowsTracked, NotesHonest, WindowHonest, [Next]_vars
    PROVE  WindowHonest'
<1>1. CASE Launch
  BY <1>1, SizeAssumption, NullAssumption
  DEF Launch, TypeOK, ProcessTypeOK, WorkersTypeOK, RecordsTypeOK, RowsTracked,
      BeforeEnd, NotesHonest, Honest, WindowHonest, Told, OpenStatuses,
      FinishedStatuses, workers, window, authorization, observed, Reconciled, RowIsOpen
<1>2. ASSUME NEW j \in Jobs, NEW d \in Disks, NEW b \in Backends, Start(j, d, b)
      PROVE  WindowHonest'
  <2>1. /\ pc[j] = "new" /\ UNCHANGED <<wiped, events, shown>>
        /\ \A k \in Jobs \ {j} : rows'[k] = rows[k]
    BY <1>2
    DEF Start, StoreRow, window, observed, TypeOK, ProcessTypeOK, WorkersTypeOK,
        RecordsTypeOK
  <2>. QED
    BY <2>1
    DEF WindowHonest, Told, OpenStatuses, FinishedStatuses, RowsTracked, NoRow
<1>3. ASSUME NEW d \in Disks, Cancel(d)
      PROVE  WindowHonest'
  BY <1>3, SizeAssumption, NullAssumption
  DEF Cancel, TypeOK, ProcessTypeOK, WorkersTypeOK, RecordsTypeOK, RowsTracked,
      BeforeEnd, NotesHonest, Honest, WindowHonest, Told, OpenStatuses,
      FinishedStatuses, workers, window, authorization
<1>4. CASE Close
  BY <1>4, SizeAssumption, NullAssumption
  DEF Close, TypeOK, ProcessTypeOK, WorkersTypeOK, RecordsTypeOK, RowsTracked,
      BeforeEnd, NotesHonest, Honest, WindowHonest, Told, OpenStatuses,
      FinishedStatuses, workers, window, authorization, observed
<1>5. CASE Submit
  BY <1>5, SizeAssumption, NullAssumption
  DEF Submit, TypeOK, ProcessTypeOK, WorkersTypeOK, RecordsTypeOK, RowsTracked,
      BeforeEnd, NotesHonest, Honest, WindowHonest, Told, OpenStatuses,
      FinishedStatuses, window, authorization, observed
<1>6. CASE Register
  BY <1>6, SizeAssumption, NullAssumption
  DEF Register, TypeOK, ProcessTypeOK, WorkersTypeOK, RecordsTypeOK, RowsTracked,
      BeforeEnd, NotesHonest, Honest, WindowHonest, Told, OpenStatuses,
      FinishedStatuses, workers, window, authorization, observed
<1>7. CASE RegisterFinished
  BY <1>7, SizeAssumption, NullAssumption
  DEF RegisterFinished, TypeOK, ProcessTypeOK, WorkersTypeOK, RecordsTypeOK,
      RowsTracked, BeforeEnd, NotesHonest, Honest, WindowHonest, Told, OpenStatuses,
      FinishedStatuses, workers, window, authorization, observed
<1>8. CASE Drain
  BY <1>8, SizeAssumption, NullAssumption
  DEF Drain, TypeOK, ProcessTypeOK, WorkersTypeOK, RecordsTypeOK, RowsTracked,
      BeforeEnd, NotesHonest, Honest, WindowHonest, Told, OpenStatuses,
      FinishedStatuses, process, workers, authorization, observed
<1>9. CASE EndProcess
  <2>1. /\ UNCHANGED rows
        /\ \A k \in Jobs : shown'[k] = NoRow /\ events'[k] = << >>
    BY <1>9 DEF EndProcess
  <2>. QED BY <2>1 DEF WindowHonest, Told, NoRow, FinishedStatuses
<1>10. ASSUME NEW j \in Jobs, Take(j)
      PROVE  WindowHonest'
  BY <1>10, SizeAssumption, NullAssumption
  DEF Take, TypeOK, ProcessTypeOK, WorkersTypeOK, RecordsTypeOK, RowsTracked, BeforeEnd,
      NotesHonest, Honest, WindowHonest, Told, OpenStatuses, FinishedStatuses, window,
      authorization, observed
<1>11. ASSUME NEW j \in Jobs, Accept(j)
      PROVE  WindowHonest'
  <2>1. /\ pc'[j] \in {"announcing", "ended"}
        /\ \/ rows' = rows
           \/ rows'[j] = [status |-> "PREPARING", bytes |-> 0] /\ note'[j] = rows'[j]
        /\ pc'[j] = "announcing" => note'[j] = [status |-> "PREPARING", bytes |-> 0]
        /\ \A k \in Jobs \ {j} :
              pc'[k] = pc[k] /\ rows'[k] = rows[k] /\ note'[k] = note[k]
        /\ UNCHANGED <<wiped, events, shown>>
        /\ pc[j] = "accepting" /\ wiped[j] \in 0 .. Size
    BY <1>11
    DEF Accept, Recorded, Unrecorded, StoreRow, window, TypeOK, ProcessTypeOK,
        WorkersTypeOK, RecordsTypeOK
  <2>. QED
    BY <2>1
    DEF WindowHonest, Told, OpenStatuses, FinishedStatuses, RowsTracked, BeforeEnd,
        OpenStatuses
<1>12. ASSUME NEW j \in Jobs, Announce(j)
      PROVE  WindowHonest'
  <2>1. /\ pc[j] = "announcing" /\ UNCHANGED <<rows, wiped, shown>>
        /\ \A k \in Jobs \ {j} : events'[k] = events[k]
        /\ \A i \in DOMAIN events'[j] :
              \/ events'[j][i] = note[j]
              \/ i \in DOMAIN events[j] /\ events'[j][i] = events[j][i]
    BY <1>12 DEF Announce, TypeOK, ProcessTypeOK, WorkersTypeOK, RecordsTypeOK
  <2>. QED
    BY <2>1
    DEF WindowHonest, Told, OpenStatuses, FinishedStatuses, NotesHonest, Honest
<1>13. ASSUME NEW j \in Jobs, Report(j)
      PROVE  WindowHonest'
  <2>1. PICK r \in Progress, seen \in 0 .. wiped[j], next \in Stages :
          ReportedAs(j, r, seen, next)
    BY <1>13, ReportOutcome
  <2>2. /\ pc[j] = "running" /\ UNCHANGED <<wiped, events, shown>>
        /\ \A k \in Jobs \ {j} : rows'[k] = rows[k]
    BY <2>1
    DEF ReportedAs, Recorded, StoreRow, Terminate, TypeOK, ProcessTypeOK, WorkersTypeOK,
        RecordsTypeOK, window
  <2>. QED
    BY <2>2
    DEF WindowHonest, Told, OpenStatuses, FinishedStatuses, RowsTracked, BeforeEnd,
        OpenStatuses
<1>14. ASSUME NEW j \in Jobs, StaySilent(j)
      PROVE  WindowHonest'
  BY <1>14, SizeAssumption, NullAssumption
  DEF StaySilent, TypeOK, ProcessTypeOK, WorkersTypeOK, RecordsTypeOK, RowsTracked,
      BeforeEnd, NotesHonest, Honest, WindowHonest, Told, OpenStatuses,
      FinishedStatuses, process, window, authorization, observed
<1>15. ASSUME NEW j \in Jobs, Poll(j)
      PROVE  WindowHonest'
  BY <1>15, SizeAssumption, NullAssumption
  DEF Poll, Terminate, TypeOK, ProcessTypeOK, WorkersTypeOK, RecordsTypeOK, RowsTracked,
      BeforeEnd, NotesHonest, Honest, WindowHonest, Told, OpenStatuses,
      FinishedStatuses, process, window, authorization, observed
<1>16. ASSUME NEW j \in Jobs, Write(j)
      PROVE  WindowHonest'
  <2>1. /\ wiped[j] \in 0 .. Size /\ UNCHANGED <<rows, events, shown>>
        /\ wiped'[j] = wiped[j] + 1 /\ \A k \in Jobs \ {j} : wiped'[k] = wiped[k]
    BY <1>16
    DEF Write, TypeOK, ProcessTypeOK, WorkersTypeOK, RecordsTypeOK, workers, window
  <2>2. ASSUME NEW e \in Progress \cup {NoRow}, Told(j, e)
        PROVE  Told(j, e)'
    BY <2>1, <2>2, SizeAssumption DEF Told, Progress, Bytes, NoRow
  <2>3. /\ shown[j] \in Progress \cup {NoRow}
        /\ \A i \in DOMAIN events[j] : events[j][i] \in Progress
    BY DEF TypeOK, RecordsTypeOK
  <2>. QED BY <2>1, <2>2, <2>3 DEF WindowHonest, Told
<1>17. ASSUME NEW j \in Jobs, Fail(j)
      PROVE  WindowHonest'
  BY <1>17, SizeAssumption, NullAssumption
  DEF Fail, Terminate, ErrorAfter, TypeOK, ProcessTypeOK, WorkersTypeOK, RecordsTypeOK,
      RowsTracked, BeforeEnd, NotesHonest, Honest, WindowHonest, Told, OpenStatuses,
      FinishedStatuses, process, window, authorization, observed
<1>18. ASSUME NEW j \in Jobs, Complete(j)
      PROVE  WindowHonest'
  BY <1>18, SizeAssumption, NullAssumption
  DEF Complete, Terminate, TypeOK, ProcessTypeOK, WorkersTypeOK, RecordsTypeOK,
      RowsTracked, BeforeEnd, NotesHonest, Honest, WindowHonest, Told, OpenStatuses,
      FinishedStatuses, process, window, authorization, observed
<1>19. ASSUME NEW j \in Jobs, Finish(j)
      PROVE  WindowHonest'
  <2>1. /\ pc'[j] \in {"publishing", "ended"}
        /\ pc'[j] = "publishing" => rows'[j] = note[j]
        /\ pc'[j] = "ended" => rows'[j] = rows[j]
        /\ \A k \in Jobs \ {j} : pc'[k] = pc[k] /\ rows'[k] = rows[k]
        /\ pc[j] = "finishing" /\ UNCHANGED <<note, wiped, events, shown>>
    BY <1>19
    DEF Finish, Unrecorded, StoreRow, window, TypeOK, ProcessTypeOK, WorkersTypeOK,
        RecordsTypeOK
  <2>. QED
    BY <2>1
    DEF WindowHonest, Told, OpenStatuses, FinishedStatuses, RowsTracked, BeforeEnd,
        OpenStatuses
<1>20. ASSUME NEW j \in Jobs, Publish(j)
      PROVE  WindowHonest'
  <2>1. /\ pc[j] = "publishing" /\ UNCHANGED <<rows, wiped, shown>>
        /\ \A k \in Jobs \ {j} : events'[k] = events[k]
        /\ \A i \in DOMAIN events'[j] :
              \/ events'[j][i] = note[j]
              \/ i \in DOMAIN events[j] /\ events'[j][i] = events[j][i]
    BY <1>20 DEF Publish, TypeOK, ProcessTypeOK, WorkersTypeOK, RecordsTypeOK
  <2>. QED
    BY <2>1
    DEF WindowHonest, Told, OpenStatuses, FinishedStatuses, NotesHonest, Honest
<1>21. ASSUME NEW j \in Jobs, Resolve(j)
      PROVE  WindowHonest'
  BY <1>21, SizeAssumption, NullAssumption
  DEF Resolve, TypeOK, ProcessTypeOK, WorkersTypeOK, RecordsTypeOK, RowsTracked,
      BeforeEnd, NotesHonest, Honest, WindowHonest, Told, OpenStatuses,
      FinishedStatuses, process, window, authorization, observed
<1>22. ASSUME NEW j \in Jobs, Forget(j)
      PROVE  WindowHonest'
  BY <1>22, SizeAssumption, NullAssumption
  DEF Forget, TypeOK, ProcessTypeOK, WorkersTypeOK, RecordsTypeOK, RowsTracked,
      BeforeEnd, NotesHonest, Honest, WindowHonest, Told, OpenStatuses,
      FinishedStatuses, window, authorization, observed
<1>23. ASSUME NEW j \in Jobs, OrphanWrite(j)
      PROVE  WindowHonest'
  <2>1. /\ wiped[j] \in 0 .. Size /\ UNCHANGED <<rows, events, shown>>
        /\ wiped'[j] = wiped[j] + 1 /\ \A k \in Jobs \ {j} : wiped'[k] = wiped[k]
    BY <1>23
    DEF OrphanWrite, TypeOK, ProcessTypeOK, WorkersTypeOK, RecordsTypeOK, workers,
        window
  <2>2. ASSUME NEW e \in Progress \cup {NoRow}, Told(j, e)
        PROVE  Told(j, e)'
    BY <2>1, <2>2, SizeAssumption DEF Told, Progress, Bytes, NoRow
  <2>3. /\ shown[j] \in Progress \cup {NoRow}
        /\ \A i \in DOMAIN events[j] : events[j][i] \in Progress
    BY DEF TypeOK, RecordsTypeOK
  <2>. QED BY <2>1, <2>2, <2>3 DEF WindowHonest, Told
<1>24. CASE LaunchOther
  BY <1>24, SizeAssumption, NullAssumption
  DEF LaunchOther, TypeOK, ProcessTypeOK, WorkersTypeOK, RecordsTypeOK, RowsTracked,
      BeforeEnd, NotesHonest, Honest, WindowHonest, Told, OpenStatuses,
      FinishedStatuses, process, workers, window, authorization, observed, Reconciled,
      RowIsOpen
<1>25. CASE UNCHANGED vars
  BY <1>25, SizeAssumption, NullAssumption
  DEF TypeOK, ProcessTypeOK, WorkersTypeOK, RecordsTypeOK, RowsTracked, BeforeEnd,
      NotesHonest, Honest, WindowHonest, Told, OpenStatuses, FinishedStatuses, vars,
      process, workers, window, authorization, observed
<1>. QED
  BY <1>1, <1>2, <1>3, <1>4, <1>5, <1>6, <1>7, <1>8, <1>9, <1>10, <1>11, <1>12, <1>13,
     <1>14, <1>15, <1>16, <1>17, <1>18, <1>19, <1>20, <1>21, <1>22, <1>23, <1>24, <1>25
  DEF Next, GuiCalls, GuiThread, Worker, BackendStep, Exit, Crash

(* Open rows keep a worker, or the mark that theirs could not write.        *)
LEMMA OpenTrackedStep ==
    ASSUME TypeOK, Tracking, Accounting, RowsTracked, NotesHonest, OpenTracked, [Next]_vars
    PROVE  OpenTracked'
<1>1. CASE Launch
  BY <1>1
  DEF Launch, TypeOK, ProcessTypeOK, WorkersTypeOK, RecordsTypeOK, Tracking,
      StartTracked, QueueTracked, RowIsOpen, RowsTracked, NotesHonest, OpenTracked,
      BeforeEnd, OpenStatuses, FinishedStatuses, workers, window, authorization,
      observed, Reconciled
<1>2. ASSUME NEW j \in Jobs, NEW d \in Disks, NEW b \in Backends, Start(j, d, b)
      PROVE  OpenTracked'
  BY <1>2
  DEF Start, StoreRow, TypeOK, ProcessTypeOK, WorkersTypeOK, RecordsTypeOK, Tracking,
      StartTracked, QueueTracked, RowIsOpen, RowsTracked, NotesHonest, OpenTracked,
      BeforeEnd, OpenStatuses, FinishedStatuses, window, observed
<1>3. ASSUME NEW d \in Disks, Cancel(d)
      PROVE  OpenTracked'
  BY <1>3
  DEF Cancel, TypeOK, ProcessTypeOK, WorkersTypeOK, RecordsTypeOK, Tracking,
      StartTracked, QueueTracked, RowIsOpen, RowsTracked, NotesHonest, OpenTracked,
      BeforeEnd, OpenStatuses, FinishedStatuses, workers, window, authorization
<1>4. CASE Close
  BY <1>4
  DEF Close, TypeOK, ProcessTypeOK, WorkersTypeOK, RecordsTypeOK, Tracking,
      StartTracked, QueueTracked, RowIsOpen, RowsTracked, NotesHonest, OpenTracked,
      BeforeEnd, OpenStatuses, FinishedStatuses, workers, window, authorization,
      observed
<1>5. CASE Submit
  BY <1>5
  DEF Submit, TypeOK, ProcessTypeOK, WorkersTypeOK, RecordsTypeOK, Tracking,
      StartTracked, QueueTracked, RowIsOpen, RowsTracked, NotesHonest, OpenTracked,
      BeforeEnd, OpenStatuses, FinishedStatuses, window, authorization, observed
<1>6. CASE Register
  BY <1>6
  DEF Register, TypeOK, ProcessTypeOK, WorkersTypeOK, RecordsTypeOK, Tracking,
      StartTracked, QueueTracked, RowIsOpen, RowsTracked, NotesHonest, OpenTracked,
      BeforeEnd, OpenStatuses, FinishedStatuses, workers, window, authorization,
      observed
<1>7. CASE RegisterFinished
  BY <1>7
  DEF RegisterFinished, TypeOK, ProcessTypeOK, WorkersTypeOK, RecordsTypeOK, Tracking,
      StartTracked, QueueTracked, RowIsOpen, RowsTracked, NotesHonest, OpenTracked,
      BeforeEnd, OpenStatuses, FinishedStatuses, workers, window, authorization,
      observed
<1>8. CASE Drain
  BY <1>8
  DEF Drain, TypeOK, ProcessTypeOK, WorkersTypeOK, RecordsTypeOK, Tracking,
      StartTracked, QueueTracked, RowIsOpen, RowsTracked, NotesHonest, OpenTracked,
      BeforeEnd, OpenStatuses, FinishedStatuses, process, workers, authorization,
      observed
<1>9. CASE EndProcess
  BY <1>9
  DEF EndProcess, TypeOK, ProcessTypeOK, WorkersTypeOK, RecordsTypeOK, Tracking,
      StartTracked, QueueTracked, RowIsOpen, RowsTracked, NotesHonest, OpenTracked,
      BeforeEnd, OpenStatuses, FinishedStatuses, authorization
<1>10. ASSUME NEW j \in Jobs, Take(j)
      PROVE  OpenTracked'
  BY <1>10
  DEF Take, TypeOK, ProcessTypeOK, WorkersTypeOK, RecordsTypeOK, Tracking, StartTracked,
      QueueTracked, RowIsOpen, RowsTracked, NotesHonest, OpenTracked, BeforeEnd,
      OpenStatuses, FinishedStatuses, window, authorization, observed
<1>11. ASSUME NEW j \in Jobs, Accept(j)
      PROVE  OpenTracked'
  BY <1>11
  DEF Accept, Recorded, Unrecorded, StoreRow, TypeOK, ProcessTypeOK, WorkersTypeOK,
      RecordsTypeOK, Tracking, StartTracked, QueueTracked, RowIsOpen, RowsTracked,
      NotesHonest, OpenTracked, BeforeEnd, OpenStatuses, FinishedStatuses, process,
      window, authorization
<1>12. ASSUME NEW j \in Jobs, Announce(j)
      PROVE  OpenTracked'
  BY <1>12
  DEF Announce, TypeOK, ProcessTypeOK, WorkersTypeOK, RecordsTypeOK, Tracking,
      StartTracked, QueueTracked, RowIsOpen, RowsTracked, NotesHonest, OpenTracked,
      BeforeEnd, OpenStatuses, FinishedStatuses, process, authorization, observed
<1>13. ASSUME NEW j \in Jobs, Report(j)
      PROVE  OpenTracked'
  <2>1. PICK r \in Progress, seen \in 0 .. wiped[j], next \in Stages :
          ReportedAs(j, r, seen, next)
    BY <1>13, ReportOutcome
  <2>. QED
    BY <2>1
    DEF ReportedAs, Recorded, StoreRow, Terminate, OpenTracked, RowIsOpen, BeforeEnd,
        TypeOK, ProcessTypeOK, WorkersTypeOK, RecordsTypeOK, process
<1>14. ASSUME NEW j \in Jobs, StaySilent(j)
      PROVE  OpenTracked'
  BY <1>14
  DEF StaySilent, TypeOK, ProcessTypeOK, WorkersTypeOK, RecordsTypeOK, Tracking,
      StartTracked, QueueTracked, RowIsOpen, RowsTracked, NotesHonest, OpenTracked,
      BeforeEnd, OpenStatuses, FinishedStatuses, process, window, authorization,
      observed
<1>15. ASSUME NEW j \in Jobs, Poll(j)
      PROVE  OpenTracked'
  BY <1>15
  DEF Poll, Terminate, TypeOK, ProcessTypeOK, WorkersTypeOK, RecordsTypeOK, Tracking,
      StartTracked, QueueTracked, RowIsOpen, RowsTracked, NotesHonest, OpenTracked,
      BeforeEnd, OpenStatuses, FinishedStatuses, process, window, authorization,
      observed
<1>16. ASSUME NEW j \in Jobs, Write(j)
      PROVE  OpenTracked'
  BY <1>16
  DEF Write, TypeOK, ProcessTypeOK, WorkersTypeOK, RecordsTypeOK, Tracking,
      StartTracked, QueueTracked, RowIsOpen, RowsTracked, NotesHonest, OpenTracked,
      BeforeEnd, OpenStatuses, FinishedStatuses, process, window, authorization,
      observed
<1>17. ASSUME NEW j \in Jobs, Fail(j)
      PROVE  OpenTracked'
  BY <1>17
  DEF Fail, Terminate, ErrorAfter, TypeOK, ProcessTypeOK, WorkersTypeOK, RecordsTypeOK,
      Tracking, StartTracked, QueueTracked, RowIsOpen, RowsTracked, NotesHonest,
      OpenTracked, BeforeEnd, OpenStatuses, FinishedStatuses, process, window,
      authorization, observed
<1>18. ASSUME NEW j \in Jobs, Complete(j)
      PROVE  OpenTracked'
  BY <1>18
  DEF Complete, Terminate, TypeOK, ProcessTypeOK, WorkersTypeOK, RecordsTypeOK,
      Tracking, StartTracked, QueueTracked, RowIsOpen, RowsTracked, NotesHonest,
      OpenTracked, BeforeEnd, OpenStatuses, FinishedStatuses, process, window,
      authorization, observed
<1>19. ASSUME NEW j \in Jobs, Finish(j)
      PROVE  OpenTracked'
  BY <1>19
  DEF Finish, StoreRow, Unrecorded, TypeOK, ProcessTypeOK, WorkersTypeOK, RecordsTypeOK,
      Tracking, StartTracked, QueueTracked, RowIsOpen, RowsTracked, NotesHonest,
      OpenTracked, BeforeEnd, OpenStatuses, FinishedStatuses, process, window,
      authorization
<1>20. ASSUME NEW j \in Jobs, Publish(j)
      PROVE  OpenTracked'
  BY <1>20
  DEF Publish, TypeOK, ProcessTypeOK, WorkersTypeOK, RecordsTypeOK, Tracking,
      StartTracked, QueueTracked, RowIsOpen, RowsTracked, NotesHonest, OpenTracked,
      BeforeEnd, OpenStatuses, FinishedStatuses, process, authorization, observed
<1>21. ASSUME NEW j \in Jobs, Resolve(j)
      PROVE  OpenTracked'
  BY <1>21
  DEF Resolve, TypeOK, ProcessTypeOK, WorkersTypeOK, RecordsTypeOK, Tracking,
      StartTracked, QueueTracked, RowIsOpen, RowsTracked, NotesHonest, OpenTracked,
      BeforeEnd, OpenStatuses, FinishedStatuses, process, window, authorization,
      observed
<1>22. ASSUME NEW j \in Jobs, Forget(j)
      PROVE  OpenTracked'
  BY <1>22
  DEF Forget, TypeOK, ProcessTypeOK, WorkersTypeOK, RecordsTypeOK, Tracking,
      StartTracked, QueueTracked, RowIsOpen, RowsTracked, NotesHonest, OpenTracked,
      BeforeEnd, OpenStatuses, FinishedStatuses, window, authorization, observed
<1>23. ASSUME NEW j \in Jobs, OrphanWrite(j)
      PROVE  OpenTracked'
  BY <1>23
  DEF OrphanWrite, TypeOK, ProcessTypeOK, WorkersTypeOK, RecordsTypeOK, Tracking,
      StartTracked, QueueTracked, RowIsOpen, RowsTracked, NotesHonest, OpenTracked,
      BeforeEnd, OpenStatuses, FinishedStatuses, process, workers, window,
      authorization, observed
<1>24. CASE LaunchOther
  BY <1>24
  DEF LaunchOther, TypeOK, ProcessTypeOK, WorkersTypeOK, RecordsTypeOK, Tracking,
      StartTracked, QueueTracked, RowIsOpen, RowsTracked, NotesHonest, OpenTracked,
      BeforeEnd, OpenStatuses, FinishedStatuses, process, workers, window,
      authorization, observed, Reconciled
<1>25. CASE UNCHANGED vars
  BY <1>25
  DEF TypeOK, ProcessTypeOK, WorkersTypeOK, RecordsTypeOK, Tracking, StartTracked,
      QueueTracked, RowIsOpen, RowsTracked, NotesHonest, OpenTracked, BeforeEnd,
      OpenStatuses, FinishedStatuses, vars, process, workers, window, authorization,
      observed
<1>. QED
  BY <1>1, <1>2, <1>3, <1>4, <1>5, <1>6, <1>7, <1>8, <1>9, <1>10, <1>11, <1>12, <1>13,
     <1>14, <1>15, <1>16, <1>17, <1>18, <1>19, <1>20, <1>21, <1>22, <1>23, <1>24, <1>25
  DEF Next, GuiCalls, GuiThread, Worker, BackendStep, Exit, Crash

(* The history invariant holds at first.                                    *)
LEMMA InitHistory == Init => History
BY SizeAssumption, NullAssumption
DEF Init, History, RowsTracked, NotesHonest, RowsHonest, Honest, WindowHonest, Told,
    OpenTracked, NoRow, NoProgress, BeforeEnd, OpenStatuses, FinishedStatuses

(* The history invariant is inductive relative to the manager's.            *)
LEMMA StepHistory == Inv /\ History /\ [Next]_vars => History'
BY RowsTrackedStep, NotesHonestStep, RowsHonestStep, WindowHonestStep, OpenTrackedStep
DEF Inv, History

(* Both hold in every reachable state.                                      *)
THEOREM HistoryInvariance == Spec => [](Inv /\ History)
<1>. QED
  BY InitInv, StepInv, InitHistory, StepHistory, PTL DEF Spec

(* A row says COMPLETE only of a disk that was overwritten to its last chunk. *)
THEOREM CompletionsReal == Spec => []CompletionIsReal
<1>1. Inv /\ History => CompletionIsReal
  BY DEF History, RowsHonest, Honest, CompletionIsReal
<1>. QED
  BY <1>1, HistoryInvariance, PTL

(* A row says CANCELLED only of a disk that is incomplete, with the exact count. *)
THEOREM CancellationsIncomplete == Spec => []CancellationIsIncomplete
<1>1. Inv /\ History => CancellationIsIncomplete
  BY DEF History, RowsHonest, Honest, CancellationIsIncomplete
<1>. QED
  BY <1>1, HistoryInvariance, PTL

(* Neither the history nor the window credits a job with more than it wrote. *)
THEOREM BytesNotOverreported == Spec => []NeverOverreported
<1>1. Inv /\ History => NeverOverreported
  BY DEF History, RowsHonest, Honest, WindowHonest, Told, NeverOverreported
<1>. QED
  BY <1>1, HistoryInvariance, PTL

(* finish_job before put: an end the window can see is the history's.       *)
THEOREM EndsRecordedFirst == Spec => []EndsAreRecordedFirst
<1>1. Inv /\ History => EndsAreRecordedFirst
  BY DEF History, WindowHonest, Told, EndsAreRecordedFirst
<1>. QED
  BY <1>1, HistoryInvariance, PTL

(* While the program runs, an open row has a worker or an unwritable history; *)
(* what a crash leaves open is closed by the next initialize().             *)
THEOREM OpenRowsLive == Spec => []OpenRowsAreLive
<1>1. Inv /\ History => OpenRowsAreLive
  BY
  DEF History, OpenTracked, OpenRowsAreLive, Live, LiveStates, BeforeEnd, RowsTracked,
      RowIsOpen, OpenStatuses, NoRow
<1>. QED
  BY <1>1, HistoryInvariance, PTL

(* No step writes a finished row.                                           *)
LEMMA FinishedRowsStay ==
    ASSUME TypeOK, Tracking, Accounting, RowsTracked, [Next]_vars
    PROVE  \A k \in Jobs : rows[k].status \in FinishedStatuses => rows'[k] = rows[k]
<1>1. CASE Launch
  BY <1>1
  DEF Launch, TypeOK, ProcessTypeOK, WorkersTypeOK, RecordsTypeOK, RowsTracked,
      BeforeEnd, OpenStatuses, FinishedStatuses, workers, window, authorization,
      observed, Reconciled, RowIsOpen
<1>2. ASSUME NEW j \in Jobs, NEW d \in Disks, NEW b \in Backends, Start(j, d, b)
      PROVE  \A k \in Jobs : rows[k].status \in FinishedStatuses => rows'[k] = rows[k]
  <2>1. /\ pc[j] = "new" /\ \A k \in Jobs \ {j} : rows'[k] = rows[k]
    BY <1>2 DEF Start, StoreRow, TypeOK, ProcessTypeOK, WorkersTypeOK, RecordsTypeOK
  <2>. QED BY <2>1 DEF RowsTracked, NoRow, FinishedStatuses
<1>3. ASSUME NEW d \in Disks, Cancel(d)
      PROVE  \A k \in Jobs : rows[k].status \in FinishedStatuses => rows'[k] = rows[k]
  BY <1>3
  DEF Cancel, TypeOK, ProcessTypeOK, WorkersTypeOK, RecordsTypeOK, RowsTracked,
      BeforeEnd, OpenStatuses, FinishedStatuses, workers, window, authorization
<1>4. CASE Close
  BY <1>4
  DEF Close, TypeOK, ProcessTypeOK, WorkersTypeOK, RecordsTypeOK, RowsTracked,
      BeforeEnd, OpenStatuses, FinishedStatuses, workers, window, authorization,
      observed
<1>5. CASE Submit
  BY <1>5
  DEF Submit, TypeOK, ProcessTypeOK, WorkersTypeOK, RecordsTypeOK, RowsTracked,
      BeforeEnd, OpenStatuses, FinishedStatuses, window, authorization, observed
<1>6. CASE Register
  BY <1>6
  DEF Register, TypeOK, ProcessTypeOK, WorkersTypeOK, RecordsTypeOK, RowsTracked,
      BeforeEnd, OpenStatuses, FinishedStatuses, workers, window, authorization,
      observed
<1>7. CASE RegisterFinished
  BY <1>7
  DEF RegisterFinished, TypeOK, ProcessTypeOK, WorkersTypeOK, RecordsTypeOK,
      RowsTracked, BeforeEnd, OpenStatuses, FinishedStatuses, workers, window,
      authorization, observed
<1>8. CASE Drain
  BY <1>8
  DEF Drain, TypeOK, ProcessTypeOK, WorkersTypeOK, RecordsTypeOK, RowsTracked,
      BeforeEnd, OpenStatuses, FinishedStatuses, process, workers, authorization,
      observed
<1>9. CASE EndProcess
  BY <1>9
  DEF EndProcess, TypeOK, ProcessTypeOK, WorkersTypeOK, RecordsTypeOK, RowsTracked,
      BeforeEnd, OpenStatuses, FinishedStatuses, authorization
<1>10. ASSUME NEW j \in Jobs, Take(j)
      PROVE  \A k \in Jobs : rows[k].status \in FinishedStatuses => rows'[k] = rows[k]
  BY <1>10
  DEF Take, TypeOK, ProcessTypeOK, WorkersTypeOK, RecordsTypeOK, RowsTracked, BeforeEnd,
      OpenStatuses, FinishedStatuses, window, authorization, observed
<1>11. ASSUME NEW j \in Jobs, Accept(j)
      PROVE  \A k \in Jobs : rows[k].status \in FinishedStatuses => rows'[k] = rows[k]
  BY <1>11
  DEF Accept, Recorded, Unrecorded, StoreRow, TypeOK, ProcessTypeOK, WorkersTypeOK,
      RecordsTypeOK, RowsTracked, BeforeEnd, OpenStatuses, FinishedStatuses, process,
      window, authorization
<1>12. ASSUME NEW j \in Jobs, Announce(j)
      PROVE  \A k \in Jobs : rows[k].status \in FinishedStatuses => rows'[k] = rows[k]
  BY <1>12
  DEF Announce, TypeOK, ProcessTypeOK, WorkersTypeOK, RecordsTypeOK, RowsTracked,
      BeforeEnd, OpenStatuses, FinishedStatuses, process, authorization, observed
<1>13. ASSUME NEW j \in Jobs, Report(j)
      PROVE  \A k \in Jobs : rows[k].status \in FinishedStatuses => rows'[k] = rows[k]
  <2>1. PICK r \in Progress, seen \in 0 .. wiped[j], next \in Stages :
          ReportedAs(j, r, seen, next)
    BY <1>13, ReportOutcome
  <2>. QED
    BY <2>1
    DEF ReportedAs, Recorded, StoreRow, Terminate, RowsTracked, BeforeEnd, OpenStatuses,
        FinishedStatuses, TypeOK, ProcessTypeOK, WorkersTypeOK, RecordsTypeOK
<1>14. ASSUME NEW j \in Jobs, StaySilent(j)
      PROVE  \A k \in Jobs : rows[k].status \in FinishedStatuses => rows'[k] = rows[k]
  BY <1>14
  DEF StaySilent, TypeOK, ProcessTypeOK, WorkersTypeOK, RecordsTypeOK, RowsTracked,
      BeforeEnd, OpenStatuses, FinishedStatuses, process, window, authorization,
      observed
<1>15. ASSUME NEW j \in Jobs, Poll(j)
      PROVE  \A k \in Jobs : rows[k].status \in FinishedStatuses => rows'[k] = rows[k]
  BY <1>15
  DEF Poll, Terminate, TypeOK, ProcessTypeOK, WorkersTypeOK, RecordsTypeOK, RowsTracked,
      BeforeEnd, OpenStatuses, FinishedStatuses, process, window, authorization,
      observed
<1>16. ASSUME NEW j \in Jobs, Write(j)
      PROVE  \A k \in Jobs : rows[k].status \in FinishedStatuses => rows'[k] = rows[k]
  BY <1>16
  DEF Write, TypeOK, ProcessTypeOK, WorkersTypeOK, RecordsTypeOK, RowsTracked,
      BeforeEnd, OpenStatuses, FinishedStatuses, process, window, authorization,
      observed
<1>17. ASSUME NEW j \in Jobs, Fail(j)
      PROVE  \A k \in Jobs : rows[k].status \in FinishedStatuses => rows'[k] = rows[k]
  BY <1>17
  DEF Fail, Terminate, ErrorAfter, TypeOK, ProcessTypeOK, WorkersTypeOK, RecordsTypeOK,
      RowsTracked, BeforeEnd, OpenStatuses, FinishedStatuses, process, window,
      authorization, observed
<1>18. ASSUME NEW j \in Jobs, Complete(j)
      PROVE  \A k \in Jobs : rows[k].status \in FinishedStatuses => rows'[k] = rows[k]
  BY <1>18
  DEF Complete, Terminate, TypeOK, ProcessTypeOK, WorkersTypeOK, RecordsTypeOK,
      RowsTracked, BeforeEnd, OpenStatuses, FinishedStatuses, process, window,
      authorization, observed
<1>19. ASSUME NEW j \in Jobs, Finish(j)
      PROVE  \A k \in Jobs : rows[k].status \in FinishedStatuses => rows'[k] = rows[k]
  BY <1>19
  DEF Finish, StoreRow, Unrecorded, TypeOK, ProcessTypeOK, WorkersTypeOK, RecordsTypeOK,
      RowsTracked, BeforeEnd, OpenStatuses, FinishedStatuses, process, window,
      authorization
<1>20. ASSUME NEW j \in Jobs, Publish(j)
      PROVE  \A k \in Jobs : rows[k].status \in FinishedStatuses => rows'[k] = rows[k]
  BY <1>20
  DEF Publish, TypeOK, ProcessTypeOK, WorkersTypeOK, RecordsTypeOK, RowsTracked,
      BeforeEnd, OpenStatuses, FinishedStatuses, process, authorization, observed
<1>21. ASSUME NEW j \in Jobs, Resolve(j)
      PROVE  \A k \in Jobs : rows[k].status \in FinishedStatuses => rows'[k] = rows[k]
  BY <1>21
  DEF Resolve, TypeOK, ProcessTypeOK, WorkersTypeOK, RecordsTypeOK, RowsTracked,
      BeforeEnd, OpenStatuses, FinishedStatuses, process, window, authorization,
      observed
<1>22. ASSUME NEW j \in Jobs, Forget(j)
      PROVE  \A k \in Jobs : rows[k].status \in FinishedStatuses => rows'[k] = rows[k]
  BY <1>22
  DEF Forget, TypeOK, ProcessTypeOK, WorkersTypeOK, RecordsTypeOK, RowsTracked,
      BeforeEnd, OpenStatuses, FinishedStatuses, window, authorization, observed
<1>23. ASSUME NEW j \in Jobs, OrphanWrite(j)
      PROVE  \A k \in Jobs : rows[k].status \in FinishedStatuses => rows'[k] = rows[k]
  BY <1>23
  DEF OrphanWrite, TypeOK, ProcessTypeOK, WorkersTypeOK, RecordsTypeOK, RowsTracked,
      BeforeEnd, OpenStatuses, FinishedStatuses, process, workers, window,
      authorization, observed
<1>24. CASE LaunchOther
  BY <1>24
  DEF LaunchOther, TypeOK, ProcessTypeOK, WorkersTypeOK, RecordsTypeOK, RowsTracked,
      BeforeEnd, OpenStatuses, FinishedStatuses, process, workers, window,
      authorization, observed, Reconciled, RowIsOpen
<1>25. CASE UNCHANGED vars
  BY <1>25
  DEF TypeOK, ProcessTypeOK, WorkersTypeOK, RecordsTypeOK, RowsTracked, BeforeEnd,
      OpenStatuses, FinishedStatuses, vars, process, workers, window, authorization,
      observed
<1>. QED
  BY <1>1, <1>2, <1>3, <1>4, <1>5, <1>6, <1>7, <1>8, <1>9, <1>10, <1>11, <1>12, <1>13,
     <1>14, <1>15, <1>16, <1>17, <1>18, <1>19, <1>20, <1>21, <1>22, <1>23, <1>24, <1>25
  DEF Next, GuiCalls, GuiThread, Worker, BackendStep, Exit, Crash

(* A row that says how a job ended is never written again.                  *)
THEOREM FinishedRowsFinal == Spec => FinishedRowsAreFinal
<1>1. Inv /\ History /\ [Next]_vars =>
         [\A j \in Jobs : rows[j].status \in FinishedStatuses => rows'[j] = rows[j]]_vars
  BY FinishedRowsStay DEF Inv, History
<1>. QED
  BY <1>1, HistoryInvariance, PTL DEF Spec, FinishedRowsAreFinal

-----------------------------------------------------------------------------

(* A job that is over and whose row is still open is one whose worker could *)
(* not write to the history, which is the case JobManager_lost_end shows,   *)
(* and no other.                                                            *)
OnlyFailedWritesStayOpen ==
    app = "up" => \A j \in Jobs :
        pc[j] \in {"forgetting", "done", "gone"} /\ RowIsOpen(rows[j]) => j \in unrecorded

(* A row is left open by a failed history write alone.                      *)
THEOREM OpenEndsAreFailedWrites == Spec => []OnlyFailedWritesStayOpen
<1>1. OpenRowsAreLive => OnlyFailedWritesStayOpen
  BY DEF OpenRowsAreLive, OnlyFailedWritesStayOpen, Live, LiveStates
<1>. QED
  BY <1>1, OpenRowsLive, PTL

(* A job nobody will send an event for any more. *)
Over == {"ended", "forgetting", "done", "gone"}

(* What the window shows of job j once it has drained the queue.            *)
Word(j) == IF events[j] = << >> THEN shown[j] ELSE events[j][Len(events[j])]

(* It is the end the history has, or it went with the process.              *)
WordIsTheEnd(j) ==
    \/ Word(j) = rows[j] /\ rows[j].status \in FinishedStatuses
    \/ pc[j] = "gone" /\ Word(j) = NoRow

(* The safety half of EndsAreShown.  Once the worker of a job has published *)
(* its end, that end is what the window shows, or will show at its next     *)
(* drain: it is in the queue behind every report of the job, equal to the   *)
(* row, and nothing comes after it.                                         *)
EndsHaveTheLastWord ==
    \A j \in Jobs : pc[j] \in Over /\ j \notin unrecorded => WordIsTheEnd(j)

(* Nothing that leaves the last word of a job can spoil it: rows that tell  *)
(* an end are final.                                                        *)
LEMMA EndKept ==
    ASSUME TypeOK, Tracking, Accounting, RowsTracked, [Next]_vars, EndsHaveTheLastWord,
           NEW k \in Jobs, pc[k] \in Over, k \notin unrecorded,
           Word(k)' = Word(k), pc[k] = "gone" => pc'[k] = "gone"
    PROVE  WordIsTheEnd(k)'
<1>1. rows[k].status \in FinishedStatuses => rows'[k] = rows[k]
  BY FinishedRowsStay
<1>2. WordIsTheEnd(k)
  BY DEF EndsHaveTheLastWord
<1>. QED
  BY <1>1, <1>2 DEF WordIsTheEnd

(* Steps of other workers leave the word of a job.                          *)
LEMMA OtherWords ==
    ASSUME TypeOK, NEW j \in Jobs, NEW k \in Jobs \ {j}, Worker(j)
    PROVE  /\ Word(k)' = Word(k) /\ pc'[k] = pc[k]
           /\ k \in unrecorded <=> k \in unrecorded'
<1>. USE DEF TypeOK, WorkersTypeOK, RecordsTypeOK, window, observed, Word
<1>1. CASE Take(j) \/ Accept(j) \/ Announce(j)
  BY <1>1 DEF Take, Accept, Recorded, Unrecorded, Announce
<1>2. CASE Report(j) \/ StaySilent(j)
  BY <1>2 DEF Report, Recorded, Terminate, StaySilent
<1>3. CASE Poll(j) \/ Write(j) \/ Fail(j) \/ Complete(j)
  BY <1>3 DEF Poll, Write, Fail, Complete, Terminate
<1>4. CASE Finish(j) \/ Publish(j) \/ Resolve(j) \/ Forget(j)
  BY <1>4 DEF Finish, Unrecorded, Publish, Resolve, Forget
<1>. QED
  BY <1>1, <1>2, <1>3, <1>4 DEF Worker, BackendStep

(* A worker's own steps: the end is the last thing it sends.                *)
LEMMA OwnWord ==
    ASSUME TypeOK, Tracking, Accounting, RowsTracked, NotesHonest, EndsHaveTheLastWord,
           [Next]_vars, NEW j \in Jobs, Worker(j), pc'[j] \in Over, j \notin unrecorded'
    PROVE  WordIsTheEnd(j)'
<1>. USE DEF TypeOK, WorkersTypeOK, RecordsTypeOK, Over
<1>1. ~Take(j) /\ ~Accept(j) /\ ~Announce(j)
  BY DEF Take, Accept, Recorded, Unrecorded, Announce
<1>2. ~BackendStep(j)
  BY DEF BackendStep, Report, Recorded, Terminate, StaySilent, Poll, Write, Fail,
     Complete
<1>3. ~Finish(j)
  BY DEF Finish, Unrecorded
<1>4. CASE Publish(j)
  <2>1. /\ rows'[j] = note[j] /\ note[j].status \in FinishedStatuses
        /\ events'[j] = Append(events[j], note[j]) /\ events[j] \in Seq(Progress)
        /\ note[j] \in Progress
    <3>1. /\ rows' = rows /\ rows[j] = note[j] /\ note[j].status \in FinishedStatuses
      BY <1>4 DEF Publish, NotesHonest
    <3>2. events' = [events EXCEPT ![j] = Append(@, note[j])]
      BY <1>4 DEF Publish
    <3>. QED BY <3>1, <3>2
  <2>2. events'[j] # << >> /\ events'[j][Len(events'[j])] = note[j]
    <3>1. /\ Len(events'[j]) = Len(events[j]) + 1 /\ Len(events[j]) \in Nat
          /\ events'[j][Len(events[j]) + 1] = note[j]
      BY <2>1
    <3>2. events'[j] # << >>
      BY <3>1
    <3>. QED BY <3>1, <3>2
  <2>3. Word(j)' = note[j]
    BY <2>2 DEF Word
  <2>. QED BY <2>1, <2>3 DEF WordIsTheEnd
<1>5. CASE Resolve(j) \/ Forget(j)
  <2>1. /\ pc[j] \in Over /\ pc[j] # "gone" /\ j \notin unrecorded
        /\ UNCHANGED <<events, shown>>
    BY <1>5 DEF Resolve, Forget, window, observed
  <2>2. Word(j)' = Word(j)
    BY <2>1 DEF Word
  <2>. QED BY <2>1, <2>2, EndKept
<1>. QED
  BY <1>1, <1>2, <1>3, <1>4, <1>5 DEF Worker

(* Every step leaves the ends where they are.                               *)
LEMMA LastWordStep ==
    ASSUME Inv, History, EndsHaveTheLastWord, [Next]_vars
    PROVE  EndsHaveTheLastWord'
<1>. SUFFICES ASSUME NEW k \in Jobs, pc'[k] \in Over, k \notin unrecorded'
              PROVE  WordIsTheEnd(k)'
  BY DEF EndsHaveTheLastWord
<1>. USE DEF Inv, History
<1>1. ASSUME NEW j \in Jobs, Worker(j)
      PROVE  WordIsTheEnd(k)'
  <2>1. CASE k = j
    BY <1>1, <2>1, OwnWord
  <2>2. CASE k # j
    <3>1. Word(k)' = Word(k) /\ pc'[k] = pc[k] /\ k \notin unrecorded
      BY <1>1, <2>2, OtherWords
    <3>. QED BY <3>1, EndKept
  <2>. QED BY <2>1, <2>2
<1>2. CASE EndProcess
  <2>1. pc'[k] = "gone"
    BY <1>2, AbandonedFacts DEF EndProcess, Over, TypeOK, WorkersTypeOK
  <2>2. Word(k)' = NoRow
    BY <1>2 DEF EndProcess, Word
  <2>. QED BY <2>1, <2>2 DEF WordIsTheEnd
<1>3. CASE Drain
  <2>1. Word(k)' = Word(k)
    BY <1>3 DEF Drain, Word
  <2>. QED BY <1>3, <2>1, EndKept DEF Drain, workers, observed
<1>4. CASE Launch \/ LaunchOther \/ Close \/ Register \/ RegisterFinished
  <2>1. Word(k)' = Word(k) /\ pc' = pc /\ unrecorded' = unrecorded
    BY <1>4
    DEF Launch, LaunchOther, Close, Register, RegisterFinished, Word, workers, window,
        observed
  <2>. QED BY <2>1, EndKept
<1>5. CASE Submit
  <2>1. /\ Word(k)' = Word(k) /\ unrecorded' = unrecorded
        /\ pc'[k] = pc[k]
    BY <1>5 DEF Submit, Word, window, observed, Over, TypeOK, WorkersTypeOK
  <2>. QED BY <2>1, EndKept
<1>6. ASSUME NEW j \in Jobs, NEW d \in Disks, NEW b \in Backends, Start(j, d, b)
      PROVE  WordIsTheEnd(k)'
  <2>1. /\ Word(k)' = Word(k) /\ unrecorded' = unrecorded
        /\ pc'[k] = pc[k]
    BY <1>6 DEF Start, Word, window, observed, Over, TypeOK, WorkersTypeOK
  <2>. QED BY <2>1, EndKept
<1>7. ASSUME NEW d \in Disks, Cancel(d)
      PROVE  WordIsTheEnd(k)'
  <2>1. Word(k)' = Word(k) /\ pc' = pc /\ unrecorded' = unrecorded
    BY <1>7 DEF Cancel, Word, workers, window
  <2>. QED BY <2>1, EndKept
<1>8. ASSUME NEW j \in Jobs, OrphanWrite(j)
      PROVE  WordIsTheEnd(k)'
  <2>1. Word(k)' = Word(k) /\ pc' = pc /\ unrecorded' = unrecorded
    BY <1>8 DEF OrphanWrite, Word, workers, window, observed
  <2>. QED BY <2>1, EndKept
<1>9. CASE UNCHANGED vars
  <2>1. Word(k)' = Word(k) /\ pc' = pc /\ unrecorded' = unrecorded
    BY <1>9 DEF vars, Word, workers, window, observed
  <2>. QED BY <2>1, EndKept
<1>. QED
  BY <1>1, <1>2, <1>3, <1>4, <1>5, <1>6, <1>7, <1>8, <1>9
  DEF Next, GuiCalls, GuiThread, Exit, Crash

(* No late report overtakes the end of its job on the way to the window.    *)
THEOREM EndsAreNotOvertaken == Spec => []EndsHaveTheLastWord
<1>1. Init => EndsHaveTheLastWord
  BY DEF Init, EndsHaveTheLastWord, Over
<1>2. Inv /\ History /\ EndsHaveTheLastWord /\ [Next]_vars => EndsHaveTheLastWord'
  BY LastWordStep
<1>. QED
  BY <1>1, <1>2, HistoryInvariance, PTL DEF Spec
=============================================================================
