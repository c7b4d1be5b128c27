---------------------------- MODULE DiskPartWipe ----------------------------
(***************************************************************************)
(* One run of DiskPartBackend (wipe/backends.py): it revalidates the disk, *)
(* writes a script that names it by number, waits for the diskpart.exe     *)
(* that runs the script, and verifies by number again.  Between any two    *)
(* steps disks come, go and change number, other programs partition the    *)
(* target, and the window may protect more disks.                          *)
(*                                                                         *)
(* diskpart.exe is external: "select disk" takes whatever disk has the     *)
(* number then, "clean all" writes to that disk only, and the exit code is *)
(* 0 only if every command of the script succeeded.                        *)
(***************************************************************************)
EXTENDS WipeBackends

CONSTANTS
    Devices,        \* physical disks
    Target,         \* the one whose fingerprint was authorised
    Numbers,        \* disk numbers
    Number,         \* authorization.disk_number
    Gone            \* in place of a disk that was unplugged

ASSUME DevicesAssumption ==
    /\ Target \in Devices
    /\ Null \notin Devices /\ Gone \notin Devices /\ Gone # Null
ASSUME NumberAssumption == Number \in Numbers
ASSUME ResultAssumption == Null \notin FinishedStatuses \cup {"ok", "failed"}

VARIABLES
    (* The machine. *)
    at,             \* the disk each number denotes, or Null
    partitioned,    \* whether Target has partitions
    zeroed,         \* chunks overwritten on each disk
    protected,      \* disks the policy of the backend protects
    (* The run and its child process. *)
    pc,
    seen,           \* the last discovery's entry for Number
    script,         \* whether the temporary script is on the file system
    chosen,         \* the disk diskpart.exe has selected, Gone if unplugged
    code,           \* its exit code: "ok", "failed", or Null while it runs
    wiped,          \* chunks it has written
    result,         \* the result or exception on its way out, or Null
    (* History. *)
    moved           \* Number changed hands between the look and the select

machine == <<at, partitioned, zeroed, protected>>
child == <<chosen, code, wiped>>
vars == <<machine, pc, seen, script, child, result, moved>>

(***************************************************************************)
(* called                      gates; about to report PREPARING            *)
(* discovering, checking       _revalidate                                 *)
(* scripting                   about to write the temporary script         *)
(* announcing                  about to report WIPING                      *)
(* launching                   about to start diskpart.exe                 *)
(* selecting, cleaning         diskpart.exe runs                           *)
(* exited                      its exit code is in                         *)
(* verifying, confirming       _verify_completion                          *)
(* unlinking                   the finally clause                          *)
(***************************************************************************)
Steps == {"called", "discovering", "checking", "scripting", "announcing",
          "launching", "selecting", "cleaning", "exited", "verifying",
          "confirming", "unlinking", "returned"}

NotFound == [device |-> Null, partitioned |-> FALSE]

TypeOK ==
    /\ at \in [Numbers -> Devices \cup {Null}]
    /\ partitioned \in BOOLEAN
    /\ zeroed \in [Devices -> 0 .. Size]
    /\ protected \subseteq Devices
    /\ pc \in Steps
    /\ seen \in [device : Devices \cup {Null}, partitioned : BOOLEAN]
    /\ script \in BOOLEAN
    /\ chosen \in Devices \cup {Null, Gone}
    /\ code \in {"ok", "failed", Null}
    /\ wiped \in 0 .. Size
    /\ result \in FinishedStatuses \cup {Null}
    /\ moved \in BOOLEAN

Plugged == {d \in Devices : \E n \in Numbers : at[n] = d}

-----------------------------------------------------------------------------
(* Results and exceptions on their way out: from the try statement on, the  *)
(* finally clause comes first.                                              *)
Leave(status) ==
    /\ result' = status
    /\ pc' = IF pc \in {"called", "discovering", "checking"} THEN "returned"
             ELSE "unlinking"
    /\ UNCHANGED <<machine, seen, script, child, moved>>

GoTo(step) ==
    /\ pc' = step
    /\ UNCHANGED <<machine, result>>

(* Steps that may raise whatever the state: a closed gate, a report whose   *)
(* history write fails, a discovery that fails, another reason for the      *)
(* policy to protect the disk, a child that cannot be started.              *)
Fallible ==
    {"called", "discovering", "checking", "announcing", "launching", "exited",
     "verifying"}

Fail == pc \in Fallible /\ Leave("ERROR")

-----------------------------------------------------------------------------
(* The run. *)

(* A report that succeeds; it may take as long as the history is locked. *)
Report(from, to) ==
    /\ pc = from
    /\ GoTo(to)
    /\ UNCHANGED <<seen, script, child, moved>>

(* The entry a discovery would make for Number. *)
Inventory ==
    IF at[Number] \in Devices
    THEN [device |-> at[Number], partitioned |-> at[Number] = Target /\ partitioned]
    ELSE NotFound

Discover(from, to) ==
    /\ pc = from
    /\ seen' = Inventory
    /\ moved' = (moved /\ from = "verifying")
    /\ GoTo(to)
    /\ UNCHANGED <<script, child>>

(* Mutations of Valid: the fingerprint is not compared, the protection is   *)
(* not assessed.                                                            *)
MutantNumberIsEnough == seen.device # Null /\ seen.device \notin protected
MutantIgnoresProtection == seen.device = Target

(* _revalidate.  The policy is the one of this moment, not of the look. *)
Valid == seen.device = Target /\ seen.device \notin protected

Check ==
    /\ pc = "checking"
    /\ IF Valid
       THEN GoTo("scripting") /\ UNCHANGED <<seen, script, child, moved>>
       ELSE Leave("ERROR")

(* NamedTemporaryFile with delete=False. *)
WriteScript ==
    /\ pc = "scripting"
    /\ script' = TRUE
    /\ GoTo("announcing")
    /\ UNCHANGED <<seen, child, moved>>

(* It cannot be created or written, and script_path is still None; or it    *)
(* cannot be closed, and the path is known.                                 *)
WriteScriptFails ==
    /\ pc = "scripting"
    /\ result' = "ERROR"
    /\ \/ pc' = "returned" /\ script' \in BOOLEAN
       \/ pc' = "unlinking" /\ script' = TRUE
    /\ UNCHANGED <<machine, seen, child, moved>>

Launch ==
    /\ pc = "launching"
    /\ GoTo("selecting")
    /\ UNCHANGED <<seen, script, child, moved>>

(* Mutations of AcceptExit: the exit code is not looked at, or it is taken  *)
(* for a cancellation.                                                      *)
MutantIgnoresCode ==
    /\ pc = "exited"
    /\ GoTo("verifying")
    /\ UNCHANGED <<seen, script, child, moved>>
MutantCallsItCancelled ==
    /\ pc = "exited"
    /\ IF code = "ok"
       THEN GoTo("verifying") /\ UNCHANGED <<seen, script, child, moved>>
       ELSE Leave("CANCELLED_INCOMPLETE")

(* subprocess.run has returned: an exit code other than 0 raises, otherwise *)
(* VERIFYING is reported.                                                   *)
AcceptExit ==
    /\ pc = "exited"
    /\ IF code = "ok"
       THEN GoTo("verifying") /\ UNCHANGED <<seen, script, child, moved>>
       ELSE Leave("ERROR")

(* Mutation of Confirm: it hands back the status it reported last. *)
MutantStaysVerifying == pc = "confirming" /\ Leave("VERIFYING")

(* _verify_completion looks at the identity and the partition count, not at *)
(* the protection.                                                          *)
Confirm ==
    /\ pc = "confirming"
    /\ Leave(IF seen = [device |-> Target, partitioned |-> FALSE] THEN "COMPLETE"
             ELSE "ERROR")

(* The finally clause; a script that cannot be removed is only logged. *)
Unlink ==
    /\ pc = "unlinking"
    /\ script' \in {FALSE, script}
    /\ GoTo("returned")
    /\ UNCHANGED <<seen, child, moved>>

-----------------------------------------------------------------------------
(* diskpart.exe. *)

Exits(c) ==
    /\ code' = c
    /\ GoTo("exited")
    /\ UNCHANGED <<seen, script, chosen, wiped, moved>>

(* "select disk": the disk that has the number now. *)
Select ==
    /\ pc = "selecting"
    /\ at[Number] \in Devices
    /\ chosen' = at[Number]
    /\ GoTo("cleaning")
    /\ UNCHANGED <<seen, script, code, wiped, moved>>

(* "clean all" drops the partitions and writes zeros from one end to the    *)
(* other.                                                                   *)
Clean ==
    /\ pc = "cleaning"
    /\ chosen \in Devices /\ wiped < Size
    /\ zeroed' = [zeroed EXCEPT ![chosen] = @ + 1]
    /\ wiped' = wiped + 1
    /\ partitioned' = (partitioned /\ chosen # Target)
    /\ UNCHANGED <<at, protected, pc, seen, script, chosen, code, result, moved>>

ExitOk == pc = "cleaning" /\ wiped = Size /\ Exits("ok")

(* Any command may fail: no disk with the number, a disk that is unplugged. *)
ExitFailed == pc \in {"selecting", "cleaning"} /\ Exits("failed")

-----------------------------------------------------------------------------
(* The machine and the other threads. *)

(* The steps between the discovery of _revalidate and "select disk". *)
Exposed == {"checking", "scripting", "announcing", "launching", "selecting"}

Moved(n) == moved \/ (n = Number /\ pc \in Exposed)

Unplug(n) ==
    /\ at[n] \in Devices
    /\ at' = [at EXCEPT ![n] = Null]
    /\ chosen' = IF chosen = at[n] THEN Gone ELSE chosen
    /\ moved' = Moved(n)
    /\ UNCHANGED <<partitioned, zeroed, protected, pc, seen, script, code, wiped, result>>

Plug(n, d) ==
    /\ at[n] = Null
    /\ d \notin Plugged
    /\ at' = [at EXCEPT ![n] = d]
    /\ moved' = Moved(n)
    /\ UNCHANGED <<partitioned, zeroed, protected, pc, seen, script, child, result>>

(* Another program partitions Target, or drops its partitions. *)
Repartition ==
    /\ partitioned' = ~partitioned
    /\ UNCHANGED <<at, zeroed, protected, pc, seen, script, child, result, moved>>

(* set_protection_policy, from the GUI thread. *)
Protect(d) ==
    /\ protected' = protected \cup {d}
    /\ UNCHANGED <<at, partitioned, zeroed, pc, seen, script, child, result, moved>>

-----------------------------------------------------------------------------
Init ==
    /\ at \in [Numbers -> Devices \cup {Null}]
    /\ \A n, m \in Numbers : at[n] = at[m] /\ at[n] # Null => n = m
    /\ partitioned \in BOOLEAN
    /\ zeroed = [d \in Devices |-> 0]
    /\ protected = {}
    /\ pc = "called"
    /\ seen = NotFound
    /\ script = FALSE
    /\ chosen = Null
    /\ code = Null
    /\ wiped = 0
    /\ result = Null
    /\ moved = FALSE

Run ==
    \/ Report("called", "discovering") \/ Report("announcing", "launching")
    \/ Discover("discovering", "checking") \/ Discover("verifying", "confirming")
    \/ Check \/ WriteScript \/ WriteScriptFails \/ Launch \/ AcceptExit \/ Confirm
    \/ Unlink \/ Fail

DiskPart == Select \/ Clean \/ ExitOk \/ ExitFailed

Environment ==
    \/ \E n \in Numbers : Unplug(n)
    \/ \E n \in Numbers, d \in Devices : Plug(n, d)
    \/ Repartition
    \/ \E d \in Devices : Protect(d)

Next == Run \/ DiskPart \/ Environment

Spec == Init /\ [][Next]_vars

-----------------------------------------------------------------------------
(* A disk other than the authorised one, a protected one for instance, is   *)
(* overwritten only if the number changed hands between the one look of     *)
(* _revalidate and the select of diskpart.exe.                              *)
StraysAreRenumbered == \A d \in Devices \ {Target} : zeroed[d] > 0 => moved

(* A run that returns COMPLETE has overwritten the whole of one disk, the   *)
(* authorised one unless the number changed hands, and has then seen the    *)
(* authorised one without partitions.                                       *)
CompletionIsReal ==
    pc = "returned" /\ result = "COMPLETE" =>
        /\ \E d \in Devices : zeroed[d] = Size /\ (~moved => d = Target)
        /\ seen = [device |-> Target, partitioned |-> FALSE]

(* A disk that becomes protected before the run has assessed it is not      *)
(* overwritten, although the policy is replaced while the run is under way. *)
ProtectedInTime ==
    Target \in protected /\ pc \in {"called", "discovering", "checking"}
TargetIsUntouched == zeroed[Target] = 0

ProtectionIsHonoured == [](ProtectedInTime => []TargetIsUntouched)

(* The run is one the job manager expects of this backend; the cancel event *)
(* is never looked at.                                                      *)
StageOf ==
    CASE pc = "called" -> "called"
      [] pc \in {"discovering", "checking", "scripting", "announcing"} -> "prepared"
      [] pc \in {"launching", "selecting", "cleaning", "exited"} ->
            IF wiped = Size THEN "flushed" ELSE "writing"
      [] OTHER -> "verified"

BytesReturned == IF result = "COMPLETE" THEN Size ELSE Null

RunStage == IF result = Null THEN StageOf ELSE "returned"
RunResult ==
    IF result = Null THEN Null ELSE [status |-> result, bytes |-> BytesReturned]

Contract == INSTANCE BackendRun WITH
    Kind <- "diskpart", stage <- RunStage, result <- RunResult, cancelled <- FALSE

RunSpec == Contract!RunSpec
=============================================================================
