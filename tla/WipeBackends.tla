---------------------------- MODULE WipeBackends ----------------------------
(***************************************************************************)
(* What the job manager sees of the three wipe backends                    *)
(* (wipe/backends.py, wipe/native.py): their capability flags, and the     *)
(* order in which run() reports, polls the cancel event and writes.  A     *)
(* disk is Size chunks long; bytes are counted in chunks, and Null is      *)
(* Python's None.                                                          *)
(***************************************************************************)
EXTENDS Integers

CONSTANTS
    Size,       \* authorization.size_bytes, in chunks
    Null        \* None

ASSUME SizeAssumption == Size \in Nat \ {0}
ASSUME NullAssumption == Null \notin Nat

(* JobStatus, split by what a history row of that status means. *)
OpenStatuses == {"PREPARING", "WIPING", "VERIFYING"}
FinishedStatuses == {"COMPLETE", "CANCELLED_INCOMPLETE", "ERROR"}
Statuses == OpenStatuses \cup FinishedStatuses \cup {"INTERRUPTED"}

Bytes == 0 .. Size \cup {Null}

(* The part of a JobProgress that the history and the window keep. *)
Progress == [status : Statuses, bytes : Bytes]

BackendKinds == {"simulation", "diskpart", "native"}
Simulated(b) == b = "simulation"
SupportsCancel(b) == b # "diskpart"
SupportsParallelReal(b) == b = "native"

(***************************************************************************)
(* Where run() stands.                                                     *)
(*   called    nothing done yet                                            *)
(*   prepared  PREPARING reported; the identity is being revalidated       *)
(*   locked    (native) PREPARING reported again under the volume locks    *)
(*   polling   about to look at the cancel event                           *)
(*   writing   the cancel event was clear; about to write a chunk          *)
(*   written   a chunk was written and is about to be reported             *)
(*   flushed   every chunk written; VERIFYING not reported yet             *)
(*   verified  VERIFYING reported; about to return COMPLETE                *)
(***************************************************************************)
Stages == {"called", "prepared", "locked", "polling", "writing", "written",
           "flushed", "verified"}

(* The stages in which the next thing backend b does is a call of report. *)
ReportingStages(b) ==
    CASE b = "simulation" -> {"called", "written", "flushed"}
      [] b = "diskpart"   -> {"called", "prepared", "flushed"}
      [] b = "native"     -> {"called", "prepared", "locked", "written", "flushed"}

(* The status that call carries. *)
StatusOf(b, s) ==
    IF s = "flushed" THEN "VERIFYING"
    ELSE IF \/ s \in {"written", "locked"}
            \/ b = "simulation"
            \/ b = "diskpart" /\ s = "prepared" THEN "WIPING"
    ELSE "PREPARING"

(* The byte count, with w chunks written so far.  DiskPart never knows one  *)
(* once it runs.                                                            *)
KnownBytes(b, s, w) ==
    IF b = "diskpart" /\ s # "called" THEN Null
    ELSE IF s \in {"written", "flushed"} THEN w
    ELSE 0

(* Mutation of ReportOf: the arguments of the progress callback swapped. *)
MutantReportsTotal(b, s, w) ==
    [status |-> StatusOf(b, s), bytes |-> IF s = "written" THEN Size ELSE 0]

(* The progress that call carries. *)
ReportOf(b, s, w) == [status |-> StatusOf(b, s), bytes |-> KnownBytes(b, s, w)]

(* Mutations of AfterChunk: the loop runs once too often, or stops one      *)
(* chunk early.                                                             *)
MutantOneChunkTooMany(b, w) == IF w > Size THEN "flushed" ELSE "polling"
MutantOneChunkShort(b, w) == IF w + 1 >= Size THEN "flushed" ELSE "polling"

(* Once a chunk is accounted for: the loop goes on, or the disk is done. *)
AfterChunk(b, w) ==
    IF w = Size THEN "flushed"
    ELSE IF b = "diskpart" THEN "writing"
    ELSE "polling"

AfterReport(b, s, w) ==
    CASE s = "called" -> IF b = "simulation" THEN "polling" ELSE "prepared"
      [] s = "prepared" -> IF b = "native" THEN "locked" ELSE "writing"
      [] s = "locked" -> "polling"
      [] s = "written" -> AfterChunk(b, w)
      [] s = "flushed" -> "verified"

(* The native backend throttles its progress: it reports a chunk count     *)
(* always when it is the whole disk, and otherwise only when enough time   *)
(* or bytes have passed since the last report.                             *)
MayStaySilent(b, s, w) == b = "native" /\ s = "written" /\ w < Size
=============================================================================
