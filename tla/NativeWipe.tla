----------------------------- MODULE NativeWipe -----------------------------
(***************************************************************************)
(* One run of the native backend (wipe/native.py, NativeRawWriteBackend    *)
(* .run) with the volume locks and the raw handle of wipe/win32.py, on a   *)
(* machine whose disks come, go and change number, whose partitions other  *)
(* programs may change, and whose protected disks the window may extend,   *)
(* all between any two steps of the run.                                   *)
(*                                                                         *)
(* A discovery is a snapshot taken in one step and used in a later one.    *)
(* Windows keeps the number of a disk while a handle on it or on one of    *)
(* its volumes is open: if the disk is unplugged, its number becomes Gone  *)
(* and is not given to another one until this run has let go.              *)
(***************************************************************************)
EXTENDS WipeBackends

CONSTANTS
    Devices,        \* physical disks
    Target,         \* the one whose fingerprint was authorised
    Twins,          \* those with the size and the sector sizes of Target
    Armed,          \* those that are configured as test targets
    Numbers,        \* disk numbers
    Number,         \* authorization.disk_number
    Partitions,     \* partitions that Target may have
    Lockable,       \* those with a volume path that can be locked
    Unlockable,     \* those with a file system or a path, but none of that kind
    Gone

ASSUME DevicesAssumption ==
    /\ Target \in Devices
    /\ Twins \subseteq Devices /\ Target \in Twins
    /\ Armed \subseteq Devices
    /\ Null \notin Devices /\ Gone \notin Devices /\ Gone # Null
ASSUME ResultAssumption == Null \notin FinishedStatuses
ASSUME NumberAssumption == Number \in Numbers
ASSUME PartitionsAssumption ==
    /\ Lockable \subseteq Partitions
    /\ Unlockable \subseteq Partitions \ Lockable

VARIABLES
    (* The machine. *)
    at,         \* the disk each number denotes, Null, or Gone
    partitions, \* the partitions of Target
    live,       \* volumes this run holds a lock on that still works
    zeroed,     \* chunks overwritten on each disk
    protected,  \* disks the policy of the backend protects
    cancelled,  \* the cancel event
    (* The run. *)
    pc,
    seen,       \* the last discovery's entry for Number
    paths,      \* volume_paths
    handles,    \* LockedVolumes._handles
    raw,        \* the disk the raw handle is open on, Gone if it was unplugged
    wiped,      \* chunks written
    result      \* the result or exception on its way out, or Null

machine == <<at, partitions, zeroed>>
run == <<pc, seen, paths, handles, wiped, result>>
vars == <<machine, live, protected, cancelled, run, raw>>

(***************************************************************************)
(* called         gates not looked at yet                                  *)
(* discovering, checking              the first _revalidate                *)
(* locking        LockedVolumes.__init__                                   *)
(* locked         about to report that the volumes are locked              *)
(* rediscovering, rechecking          the second _revalidate               *)
(* opening, probing                   WindowsRawDisk, geometry             *)
(* starting       about to report 0 bytes                                  *)
(* polling, writing, written          overwrite_with_zeros                 *)
(* flushing, flushed, updating        flush, VERIFYING, update_properties  *)
(* closing, unlocking                 leaving the two with statements      *)
(* verifying, confirming              _verify_completion                   *)
(***************************************************************************)
Steps == {"called", "discovering", "checking", "locking", "locked",
          "rediscovering", "rechecking", "opening", "probing", "starting",
          "polling", "writing", "written", "flushing", "flushed", "updating",
          "closing", "unlocking", "verifying", "confirming", "returned"}

NotFound == [device |-> Null, partitions |-> {}]

TypeOK ==
    /\ at \in [Numbers -> Devices \cup {Null, Gone}]
    /\ partitions \subseteq Partitions
    /\ live \subseteq handles
    /\ zeroed \in [Devices -> 0 .. Size]
    /\ protected \subseteq Devices
    /\ cancelled \in BOOLEAN
    /\ pc \in Steps
    /\ seen \in [device : Devices \cup {Null}, partitions : SUBSET Partitions]
    /\ paths \subseteq Lockable
    /\ handles \subseteq Lockable
    /\ raw \in Devices \cup {Null, Gone}
    /\ wiped \in 0 .. Size
    /\ result \in FinishedStatuses \cup {Null}

Plugged == {d \in Devices : \E n \in Numbers : at[n] = d}

-----------------------------------------------------------------------------
(* Leaving run() with an exception: the with statements that were entered   *)
(* are left one after the other.                                            *)

(* Mutation of AfterError: the locks are kept. *)
MutantKeepsLocks == IF raw # Null THEN "closing" ELSE "returned"

AfterError ==
    IF raw # Null THEN "closing" ELSE IF handles # {} THEN "unlocking" ELSE "returned"

Raise ==
    /\ result' = "ERROR"
    /\ pc' = AfterError
    /\ UNCHANGED <<machine, live, protected, cancelled, seen, paths, handles, raw,
                   wiped>>

(* The run goes on at another step; what else changes is said beside it. *)
GoTo(step) ==
    /\ pc' = step
    /\ UNCHANGED <<machine, protected, cancelled, result>>

(* Mutation of Fallible: a write that fails is tried for ever. *)
MutantRetriesForever ==
    {"called", "discovering", "checking", "locking", "locked", "rediscovering",
     "opening", "probing", "starting", "written", "flushing", "flushed", "updating",
     "verifying"}

(* Steps that may raise whatever the state: a closed gate, a report whose   *)
(* history write fails, a discovery that fails twice, an inventory that     *)
(* does not list a volume for every partition, a call of Windows that fails.*)
Fallible ==
    {"called", "discovering", "checking", "locking", "locked", "rediscovering",
     "opening", "probing", "starting", "writing", "written", "flushing", "flushed",
     "updating", "verifying"}

Fail == pc \in Fallible /\ Raise

-----------------------------------------------------------------------------
(* Discovery and revalidation. *)

(* The entry a discovery would make for Number. *)
Inventory ==
    IF at[Number] \in Devices
    THEN [device |-> at[Number],
          partitions |-> IF at[Number] = Target THEN partitions ELSE {}]
    ELSE NotFound

Discover(from, to) ==
    /\ pc = from
    /\ seen' = Inventory
    /\ GoTo(to)
    /\ UNCHANGED <<live, paths, handles, raw, wiped>>

(* Mutation of Valid: the protection is not assessed. *)
MutantIgnoresProtection == seen.device = Target /\ seen.device \in Armed

(* _revalidate and _validate_test_target. *)
Valid ==
    /\ seen.device = Target
    /\ seen.device \notin protected
    /\ seen.device \in Armed

(* _lockable_volume_paths: partitions without file system and path are      *)
(* passed over.                                                             *)
LayoutProvable == seen.partitions \cap Unlockable = {}
VolumePaths == seen.partitions \cap Lockable

Check ==
    /\ pc = "checking"
    /\ IF Valid /\ LayoutProvable
       THEN /\ paths' = VolumePaths
            /\ GoTo("locking")
            /\ UNCHANGED <<live, seen, handles, raw, wiped>>
       ELSE Raise

(* LockedVolumes opens, locks and dismounts the volumes one by one. *)
Lock(v) ==
    /\ pc = "locking"
    /\ v \in paths \ handles
    /\ Target \in Plugged /\ v \in partitions
    /\ handles' = handles \cup {v}
    /\ live' = live \cup {v}
    /\ GoTo("locking")
    /\ UNCHANGED <<seen, paths, raw, wiped>>

Locked ==
    /\ pc = "locking"
    /\ handles = paths
    /\ GoTo("locked")
    /\ UNCHANGED <<live, seen, paths, handles, raw, wiped>>

(* Mutation of SameLayout: the layouts are not compared. *)
MutantAnyLayout == LayoutProvable

SameLayout == LayoutProvable /\ VolumePaths = paths

(* Mutation of Recheck: what the second discovery says is not looked at. *)
MutantTrustsFirstLook ==
    /\ pc = "rechecking"
    /\ GoTo("opening")
    /\ UNCHANGED <<live, seen, paths, handles, raw, wiped>>

Recheck ==
    /\ pc = "rechecking"
    /\ IF Valid /\ SameLayout
       THEN /\ GoTo("opening")
            /\ UNCHANGED <<live, seen, paths, handles, raw, wiped>>
       ELSE Raise

-----------------------------------------------------------------------------
(* The raw handle. *)

(* WindowsRawDisk opens whatever disk has the number now. *)
OpenRaw ==
    /\ pc = "opening"
    /\ at[Number] \in Devices
    /\ raw' = at[Number]
    /\ GoTo("probing")
    /\ UNCHANGED <<live, seen, paths, handles, wiped>>

(* _validate_raw_geometry and _validate_geometry see sizes, not identities. *)
Probe ==
    /\ pc = "probing"
    /\ IF raw \in Twins
       THEN /\ GoTo("starting")
            /\ UNCHANGED <<live, seen, paths, handles, raw, wiped>>
       ELSE Raise

(* A report that succeeds. *)
Report(from, to) ==
    /\ pc = from
    /\ GoTo(to)
    /\ UNCHANGED <<live, seen, paths, handles, raw, wiped>>

Return(status) ==
    /\ result' = status
    /\ pc' = "closing"
    /\ UNCHANGED <<live, protected, cancelled, seen, paths, handles, raw, wiped>>

(* Mutation of Poll: the result of a cancelled loop is not looked at. *)
MutantCancelCompletes ==
    /\ pc = "polling"
    /\ IF cancelled
       THEN Return("COMPLETE") /\ UNCHANGED machine
       ELSE /\ GoTo("writing")
            /\ UNCHANGED <<live, seen, paths, handles, raw, wiped>>

Poll ==
    /\ pc = "polling"
    /\ IF cancelled
       THEN Return("CANCELLED_INCOMPLETE") /\ UNCHANGED machine
       ELSE /\ GoTo("writing")
            /\ UNCHANGED <<live, seen, paths, handles, raw, wiped>>

Write ==
    /\ pc = "writing"
    /\ raw \in Devices
    /\ zeroed' = [zeroed EXCEPT ![raw] = @ + 1]
    /\ wiped' = wiped + 1
    /\ pc' = "written"
    /\ UNCHANGED <<at, partitions, live, protected, cancelled, seen, paths, handles,
                   raw, result>>

(* Reported, or let by by the throttle; either way the loop goes on or ends. *)
NextChunk ==
    /\ pc = "written"
    /\ GoTo(IF AfterChunk("native", wiped) = "flushed" THEN "flushing" ELSE "polling")
    /\ UNCHANGED <<live, seen, paths, handles, raw, wiped>>

Flush ==
    /\ pc = "flushing"
    /\ raw \in Devices
    /\ GoTo("flushed")
    /\ UNCHANGED <<live, seen, paths, handles, raw, wiped>>

(* Windows reads the partition table again, and finds none. *)
UpdateProperties ==
    /\ pc = "updating"
    /\ raw \in Devices
    /\ partitions' = IF raw = Target THEN {} ELSE partitions
    /\ Return("COMPLETE")
    /\ UNCHANGED <<at, zeroed>>

(* Both __exit__ let go of everything they hold, and may raise after that. *)
CloseRaw ==
    /\ pc = "closing"
    /\ raw' = Null
    /\ result' \in {result, "ERROR"}
    /\ pc' = IF handles # {} \/ result' = "COMPLETE" THEN "unlocking" ELSE "returned"
    /\ UNCHANGED <<machine, live, protected, cancelled, seen, paths, handles, wiped>>

Unlock ==
    /\ pc = "unlocking"
    /\ handles' = {}
    /\ live' = {}
    /\ result' \in IF handles = {} THEN {result} ELSE {result, "ERROR"}
    /\ pc' = IF result' = "COMPLETE" THEN "verifying" ELSE "returned"
    /\ UNCHANGED <<machine, protected, cancelled, seen, paths, raw, wiped>>

(* _verify_completion looks at identity and partitions, not at protection. *)
Confirm ==
    /\ pc = "confirming"
    /\ IF seen.device = Target /\ seen.partitions = {}
       THEN /\ GoTo("returned")
            /\ UNCHANGED <<live, seen, paths, handles, raw, wiped>>
       ELSE Raise

-----------------------------------------------------------------------------
(* The machine and the other threads. *)

(* A disk is unplugged; what was open on it is dead. *)
Unplug(n) ==
    /\ at[n] \in Devices
    /\ LET d == at[n]
           pinned == raw = d \/ (d = Target /\ live # {})
       IN  /\ at' = [at EXCEPT ![n] = IF pinned THEN Gone ELSE Null]
           /\ raw' = IF raw = d THEN Gone ELSE raw
           /\ live' = IF d = Target THEN {} ELSE live
    /\ UNCHANGED <<partitions, zeroed, protected, cancelled, run>>

Plug(n, d) ==
    /\ at[n] = Null
    /\ d \notin Plugged
    /\ at' = [at EXCEPT ![n] = d]
    /\ UNCHANGED <<partitions, live, zeroed, protected, cancelled, run, raw>>

(* Nothing is open any more: the number can be used again. *)
Vacate(n) ==
    /\ at[n] = Gone
    /\ handles = {} /\ raw = Null
    /\ at' = [at EXCEPT ![n] = Null]
    /\ UNCHANGED <<partitions, live, zeroed, protected, cancelled, run, raw>>

(* Other programs partition Target; a volume that is locked stays. *)
Repartition(S) ==
    /\ live \cap partitions \subseteq S
    /\ partitions' = S
    /\ UNCHANGED <<at, live, zeroed, protected, cancelled, run, raw>>

(* set_protection_policy, from the GUI thread. *)
Protect(d) ==
    /\ protected' = protected \cup {d}
    /\ UNCHANGED <<machine, live, cancelled, run, raw>>

(* cancel_disk, from the GUI thread. *)
SetCancel ==
    /\ cancelled' = TRUE
    /\ UNCHANGED <<machine, live, protected, run, raw>>

-----------------------------------------------------------------------------
Init ==
    /\ at \in [Numbers -> Devices \cup {Null}]
    /\ \A n, m \in Numbers : at[n] = at[m] /\ at[n] # Null => n = m
    /\ partitions \in SUBSET Partitions
    /\ live = {}
    /\ zeroed = [d \in Devices |-> 0]
    /\ protected = {}
    /\ cancelled = FALSE
    /\ pc = "called"
    /\ seen = NotFound
    /\ paths = {}
    /\ handles = {}
    /\ raw = Null
    /\ wiped = 0
    /\ result = Null

Reports ==
    \/ Report("called", "discovering")
    \/ Report("locked", "rediscovering")
    \/ Report("starting", "polling")
    \/ Report("flushed", "updating")

Discoveries ==
    \/ Discover("discovering", "checking")
    \/ Discover("rediscovering", "rechecking")
    \/ Discover("verifying", "confirming")

Run ==
    \/ Reports \/ Discoveries
    \/ Check \/ Locked \/ Recheck \/ OpenRaw \/ Probe
    \/ \E v \in Lockable : Lock(v)
    \/ Poll \/ Write \/ NextChunk \/ Flush \/ UpdateProperties
    \/ CloseRaw \/ Unlock \/ Confirm
    \/ Fail

Environment ==
    \/ \E n \in Numbers : Unplug(n) \/ Vacate(n)
    \/ \E n \in Numbers, d \in Devices : Plug(n, d)
    \/ \E S \in SUBSET Partitions : Repartition(S)
    \/ \E d \in Devices : Protect(d)
    \/ SetCancel

Next == Run \/ Environment

Spec == Init /\ [][Next]_vars

(* The worker thread is scheduled, and Windows answers every call. *)
FairSpec == Spec /\ WF_vars(Run)

-----------------------------------------------------------------------------
(* A disk other than the authorised one is overwritten only if it has the   *)
(* same geometry, and only by a run that holds no lock on a volume of the   *)
(* authorised one: a lock pins the number until the raw handle is open.     *)
WrongDiskOnlyUnlocked ==
    \A d \in Devices \ {Target} : zeroed[d] > 0 => d \in Twins /\ live = {}

(* While the raw handle is open, the volumes held are all the lockable ones *)
(* of the last discovery: none was missed between the two revalidations,    *)
(* and none is let go of before the handle is closed.                       *)
LocksCoverLayout == raw # Null => handles = VolumePaths

(* However the run ends, nothing stays open. *)
NothingStaysOpen == pc = "returned" => raw = Null /\ handles = {}

(* A run that returns COMPLETE has overwritten the whole of one disk, the   *)
(* authorised one unless it went astray, and has then seen the authorised   *)
(* one without partitions.                                                  *)
CompletionIsReal ==
    pc = "returned" /\ result = "COMPLETE" =>
        /\ \/ zeroed[Target] = Size
           \/ \E d \in Twins \ {Target} : zeroed[d] = Size
        /\ seen = [device |-> Target, partitions |-> {}]

(* A disk that becomes protected while the run has not taken its second     *)
(* look is not overwritten, whatever the first look said.                   *)
ProtectedInTime ==
    /\ Target \in protected
    /\ pc \in {"called", "discovering", "checking", "locking", "locked",
               "rediscovering"}
TargetIsUntouched == zeroed[Target] = 0

ProtectionIsHonoured == [](ProtectedInTime => []TargetIsUntouched)

(* The run ends: no device, lock or number it may lose leaves it waiting.   *)
RunEnds == <>(pc = "returned")

-----------------------------------------------------------------------------
(* The run is one the job manager expects of this backend. *)

StageOf ==
    CASE pc = "called" -> "called"
      [] pc \in {"discovering", "checking", "locking", "locked"} -> "prepared"
      [] pc \in {"rediscovering", "rechecking", "opening", "probing", "starting"} -> "locked"
      [] pc \in {"polling", "writing", "written"} -> pc
      [] pc \in {"flushing", "flushed"} -> "flushed"
      [] pc = "updating" -> "verified"
      [] pc \in {"closing", "unlocking", "verifying", "confirming", "returned"} ->
            IF result = "COMPLETE" THEN "verified" ELSE "polling"

(* An exception on its way out counts as returned, a result does not: the   *)
(* with statements may still turn it into an exception.                     *)
Over == pc = "returned" \/ result = "ERROR"

BytesReturned ==
    IF result = "COMPLETE" THEN Size
    ELSE IF result = "CANCELLED_INCOMPLETE" THEN wiped
    ELSE Null

RunStage == IF Over THEN "returned" ELSE StageOf
RunResult == IF Over THEN [status |-> result, bytes |-> BytesReturned] ELSE Null

Contract == INSTANCE BackendRun WITH
    Kind <- "native", stage <- RunStage, result <- RunResult

RunSpec == Contract!RunSpec

-----------------------------------------------------------------------------
(* Manifest.md, on the comparison of fingerprints before a wipe begins:     *)
(* "This prevents a disk-number reassignment from accidentally causing the  *)
(* wrong disk to be wiped."                                                 *)
OnlyTargetIsWritten == \A d \in Devices \ {Target} : zeroed[d] = 0
=============================================================================
