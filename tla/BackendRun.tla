----------------------------- MODULE BackendRun -----------------------------
(***************************************************************************)
(* What the job manager assumes of one call of backend.run: the order in   *)
(* which it reports, looks at the cancel event and writes, and what it may *)
(* return.  These are the steps JobManager's workers take through a        *)
(* backend; NativeWipe is shown to take no others.                         *)
(***************************************************************************)
EXTENDS WipeBackends

CONSTANT Kind   \* which backend

VARIABLES
    stage,      \* where run() stands, or "returned"
    wiped,      \* chunks overwritten
    cancelled,  \* the cancel event
    result      \* what it returned (an exception is an ERROR), or Null

runVars == <<stage, wiped, cancelled, result>>

Results == [status : FinishedStatuses, bytes : Bytes]

RunTypeOK ==
    /\ stage \in Stages \cup {"returned"}
    /\ wiped \in 0 .. Size
    /\ cancelled \in BOOLEAN
    /\ result \in Results \cup {Null}

RunInit ==
    /\ stage = "called"
    /\ wiped = 0
    /\ cancelled = FALSE
    /\ result = Null

Return(status, bytes) ==
    /\ stage' = "returned"
    /\ result' = [status |-> status, bytes |-> bytes]
    /\ UNCHANGED <<wiped, cancelled>>

GoTo(next) ==
    /\ stage' = next
    /\ UNCHANGED <<wiped, cancelled, result>>

RunReport ==
    /\ stage \in ReportingStages(Kind)
    /\ GoTo(AfterReport(Kind, stage, wiped)) \/ Return("ERROR", Null)

RunStaySilent ==
    /\ stage # "returned"
    /\ MayStaySilent(Kind, stage, wiped)
    /\ GoTo(AfterChunk(Kind, wiped))

RunPoll ==
    /\ stage = "polling"
    /\ IF cancelled THEN Return("CANCELLED_INCOMPLETE", wiped) ELSE GoTo("writing")

RunWrite ==
    /\ stage = "writing"
    /\ wiped' = wiped + 1
    /\ stage' = IF Kind = "diskpart" THEN AfterChunk(Kind, wiped + 1) ELSE "written"
    /\ UNCHANGED <<cancelled, result>>

RunFail ==
    /\ stage # "returned"
    /\ ~Simulated(Kind)
    /\ Return("ERROR", Null)

RunComplete ==
    /\ stage = "verified"
    /\ Return("COMPLETE", Size)

(* cancel_disk, in another thread, at any time. *)
SetCancel ==
    /\ cancelled' = TRUE
    /\ UNCHANGED <<stage, wiped, result>>

RunNext ==
    \/ RunReport \/ RunStaySilent \/ RunPoll \/ RunWrite \/ RunFail \/ RunComplete
    \/ SetCancel

RunSpec == RunInit /\ [][RunNext]_runVars
=============================================================================
