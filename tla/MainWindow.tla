----------------------------- MODULE MainWindow -----------------------------
(***************************************************************************)
(* The inventory, the table and the dialogs of gui/main_window.py.         *)
(*                                                                         *)
(* A dialog runs an event loop of its own: while it is open the timers     *)
(* fire, and a discovery that finishes replaces inventory, assessments and *)
(* table under the handler that opened it.  Other clicks have to wait.     *)
(* Disks come, go and change number between two discoveries, and so do the *)
(* reasons against wiping them that lie in the disk itself, so that each   *)
(* discovery may find any layout.  A job is what JobManager.start          *)
(* registers; how it runs and is cancelled is the subject of JobManager.   *)
(***************************************************************************)
EXTENDS Integers

CONSTANTS
    Disks,      \* stable keys
    Numbers,    \* disk numbers
    Shifting,   \* disks whose own report can turn against wiping them, and back
    Parallel,   \* the backend in use lets wipes overlap
    Null

ASSUME NullAssumption == Null \notin Disks
ASSUME ShiftingAssumption == Shifting \subseteq Disks
ASSUME NumbersAssumption == Numbers \subseteq Nat
ASSUME ParallelAssumption == Parallel \in BOOLEAN

VARIABLES
    refresh,    \* _refresh_future: "idle", "running", "failed" or "done"
    found,      \* the layout the last discovery found
    rows,       \* _assessments and the table: an assessment, or Null
    checked,    \* disks with a check mark
    busy,       \* numbers whose action button says Cancel
    protected,  \* the persistent part of _policy
    jobs,       \* JobManager._active
    dialog,     \* "none", "confirm" or "protect"
    offered,    \* the assessment ConfirmWipeDialog shows
    rest,       \* the numbers _wipe_selected has still to go through
    asked,      \* the disks the protection question names
    wanted,     \* history: the disks that were asked to be wiped by the last click
    replaced    \* history: the inventory was replaced since

discovery == <<refresh, found>>
inventory == <<rows, checked, busy>>
request == <<dialog, offered, rest, asked, wanted, replaced>>
vars == <<discovery, inventory, protected, jobs, request>>

(* A disk as one discovery reports it.  It is barred if the report alone    *)
(* speaks against wiping it: its boot, system, cluster or read-only flag,   *)
(* its bus, a critical drive letter on it, an identifier or a size missing. *)
Sightings == [disk : Disks, barred : BOOLEAN]

(* What a discovery may find: no disk has two numbers, and only disks of    *)
(* Shifting are ever barred.                                                *)
Layouts ==
    {f \in [Numbers -> Sightings \cup {Null}] :
        /\ \A n, m \in Numbers :
              f[n] # Null /\ f[m] # Null /\ f[n].disk = f[m].disk => n = m
        /\ \A n \in Numbers :
              f[n] # Null /\ f[n].barred => f[n].disk \in Shifting}

NoDisks == [n \in Numbers |-> Null]

Assessments == [disk : Disks, barred : BOOLEAN, number : Numbers, wipeable : BOOLEAN]
Jobs == [disk : Disks, number : Numbers]

ActiveNumbers == {j.number : j \in jobs}
Wipeable(r) == {r[n].disk : n \in {m \in Numbers : r[m] # Null /\ r[m].wipeable}}

TypeOK ==
    /\ refresh \in {"idle", "running", "failed", "done"}
    /\ found \in Layouts
    /\ rows \in [Numbers -> Assessments \cup {Null}]
    /\ checked \subseteq Wipeable(rows)
    /\ busy \subseteq Numbers
    /\ protected \subseteq Disks
    /\ jobs \subseteq Jobs
    /\ dialog \in {"none", "confirm", "protect"}
    /\ offered \in IF dialog = "confirm" THEN Assessments ELSE {Null}
    /\ rest \subseteq Numbers
    /\ asked \subseteq Disks
    /\ wanted \subseteq Disks
    /\ replaced \in BOOLEAN

(* _inventory: the discovery the rows were made from. *)
Shown ==
    [n \in Numbers |->
        IF rows[n] = Null THEN Null
        ELSE [disk |-> rows[n].disk, barred |-> rows[n].barred]]

-----------------------------------------------------------------------------
(* ProtectionPolicy.assess on every disk of a layout. *)
Assess(layout, policy) ==
    [n \in Numbers |->
        IF layout[n] = Null THEN Null
        ELSE [disk |-> layout[n].disk, barred |-> layout[n].barred, number |-> n,
              wipeable |-> ~layout[n].barred /\ layout[n].disk \notin policy]]

(* Mutations of Render: check marks stay, or buttons stay. *)
MutantKeepsChecks(table, active) ==
    /\ UNCHANGED checked
    /\ busy' = {j.number : j \in active} \cap {n \in Numbers : table[n] # Null}

MutantKeepsButtons(table, active) ==
    /\ checked' = checked \cap Wipeable(table)
    /\ UNCHANGED busy

(* _render_table: check marks stay with their disks as long as those can be *)
(* wiped, and the buttons follow the manager.                               *)
Render(table, active) ==
    /\ checked' = checked \cap Wipeable(table)
    /\ busy' = {j.number : j \in active} \cap {n \in Numbers : table[n] # Null}

(* refresh_disks, by timer or button, and the discovery in its thread. *)
Refresh ==
    /\ refresh = "idle"
    /\ refresh' = "running"
    /\ UNCHANGED <<found, inventory, protected, jobs, request>>

Discover ==
    /\ refresh = "running"
    /\ \/ refresh' = "failed" /\ UNCHANGED found
       \/ refresh' = "done" /\ found' \in Layouts
    /\ UNCHANGED <<inventory, protected, jobs, request>>

(* Mutation of Poll: a failed discovery is polled again. *)
MutantPollsAgain ==
    /\ refresh = "done"
    /\ refresh' = "idle" /\ found' = NoDisks
    /\ rows' = Assess(found, protected)
    /\ Render(rows', jobs)
    /\ replaced' = TRUE
    /\ UNCHANGED <<protected, jobs, dialog, offered, rest, asked, wanted>>

(* _poll_background_work takes the future, then its result: a layout is     *)
(* assessed with the policy of now, an error only logged.                   *)
Poll ==
    /\ refresh \in {"failed", "done"}
    /\ refresh' = "idle" /\ found' = NoDisks
    /\ IF refresh = "failed"
       THEN UNCHANGED <<inventory, replaced>>
       ELSE /\ rows' = Assess(found, protected)
            /\ Render(rows', jobs)
            /\ replaced' = TRUE
    /\ UNCHANGED <<protected, jobs, dialog, offered, rest, asked, wanted>>

(* ... and renders the table again after events or a finished benchmark: a  *)
(* step of its own, since jobs may end in other threads between the two.    *)
Repaint ==
    /\ UNCHANGED <<discovery, rows, protected, jobs, request>>
    /\ Render(rows, jobs)

Toggle(d) ==
    /\ dialog = "none"
    /\ d \in Wipeable(rows)
    /\ checked' = IF d \in checked THEN checked \ {d} ELSE checked \cup {d}
    /\ UNCHANGED <<discovery, rows, busy, protected, jobs, request>>

-----------------------------------------------------------------------------
(* Wiping. *)

Selected == {n \in Numbers : rows[n] # Null /\ rows[n].disk \in checked}

(* _wipe_disk up to the dialog, for the first of numbers; the others have   *)
(* to wait for its end.                                                     *)
OfferFirst(numbers) ==
    \E n \in numbers :
        /\ \A m \in numbers : n <= m
        /\ IF rows[n] # Null /\ rows[n].wipeable
           THEN /\ dialog' = "confirm"
                /\ offered' = rows[n]
                /\ rest' = numbers \ {n}
           ELSE /\ dialog' = "none"
                /\ offered' = Null
                /\ rest' = {}

Dismiss ==
    /\ dialog' = "none"
    /\ offered' = Null
    /\ rest' = {}
    /\ asked' = {}

Click(numbers) ==
    /\ dialog = "none"
    /\ wanted' = {rows[n].disk : n \in numbers}
    /\ replaced' = FALSE
    /\ OfferFirst(numbers)
    /\ UNCHANGED <<discovery, inventory, protected, jobs, asked>>

WipeSelected == Selected # {} /\ Click(Selected)

WipeButton(n) ==
    /\ rows[n] # Null /\ rows[n].wipeable /\ n \notin busy
    /\ Click({n})

(* The dialog is declined, start() refuses or fails, or the rules cannot be *)
(* saved: nothing changes, and the numbers left over are dropped.           *)
Abandon ==
    /\ dialog # "none"
    /\ Dismiss
    /\ UNCHANGED <<discovery, inventory, protected, jobs, wanted, replaced>>

(* What JobManager.start asks for. *)
MayStart(number) == number \notin ActiveNumbers /\ (Parallel \/ jobs = {})

(* Mutation of Agreed: the assessment is looked up again after the dialog. *)
MutantLooksAgain ==
    IF rows[offered.number] = Null THEN offered ELSE rows[offered.number]

(* The assessment that is authorised is the one the dialog showed. *)
Agreed == offered

Accept ==
    /\ dialog = "confirm"
    /\ MayStart(Agreed.number)
    /\ jobs' = jobs \cup {[disk |-> Agreed.disk, number |-> Agreed.number]}
    /\ UNCHANGED rows
    /\ Render(rows, jobs')
    /\ IF rest = {} THEN Dismiss
       ELSE OfferFirst(rest) /\ UNCHANGED asked
    /\ UNCHANGED <<discovery, protected, wanted, replaced>>

JobEnds(j) ==
    /\ jobs' = jobs \ {j}
    /\ UNCHANGED <<discovery, inventory, protected, request>>

-----------------------------------------------------------------------------
(* Protecting. *)

ProtectSelected ==
    /\ dialog = "none"
    /\ Selected # {} /\ Selected \cap ActiveNumbers = {}
    /\ dialog' = "protect"
    /\ asked' = {rows[n].disk : n \in Selected}
    /\ UNCHANGED <<discovery, inventory, protected, jobs, offered, rest, wanted, replaced>>

(* Mutation of Protect: the assessments are left for the next discovery. *)
MutantAwaitsDiscovery ==
    /\ dialog = "protect"
    /\ \E stored \in SUBSET Disks : protected' = stored \cup asked
    /\ UNCHANGED rows
    /\ Render(rows, jobs)
    /\ Dismiss
    /\ UNCHANGED <<discovery, jobs, wanted, replaced>>

(* The rules of the file, whatever an editor or another copy of the program *)
(* has made of them, are loaded, extended and saved, put in force in place  *)
(* of the old ones, and applied to the inventory of now, which may be newer *)
(* than the question.                                                       *)
Protect ==
    /\ dialog = "protect"
    /\ \E stored \in SUBSET Disks : protected' = stored \cup asked
    /\ rows' = Assess(Shown, protected')
    /\ Render(rows', jobs)
    /\ Dismiss
    /\ UNCHANGED <<discovery, jobs, wanted, replaced>>

-----------------------------------------------------------------------------
Init ==
    /\ refresh = "idle" /\ found = NoDisks
    /\ rows = [n \in Numbers |-> Null]
    /\ checked = {} /\ busy = {}
    /\ protected \in SUBSET Disks
    /\ jobs = {}
    /\ dialog = "none" /\ offered = Null /\ rest = {} /\ asked = {}
    /\ wanted = {} /\ replaced = FALSE

Clicks ==
    \/ \E d \in Disks : Toggle(d)
    \/ WipeSelected \/ \E n \in Numbers : WipeButton(n)
    \/ Accept \/ Abandon
    \/ ProtectSelected \/ Protect

Timers == Refresh \/ Poll

Next == Timers \/ Repaint \/ Discover \/ Clicks \/ \E j \in jobs : JobEnds(j)

Spec == Init /\ [][Next]_vars

(* The timers fire whatever dialog is open, and the discovery process ends  *)
(* or is killed after its time.                                             *)
FairSpec == Spec /\ WF_vars(Refresh) /\ WF_vars(Poll) /\ WF_vars(Discover)

-----------------------------------------------------------------------------
(* However often the inventory is replaced, no row offers to wipe a number  *)
(* that has a job already.                                                  *)
BusyRowsOfferNoWipe == \A n \in ActiveNumbers : rows[n] # Null => n \in busy

(* A job is for the disk its dialog showed, whatever the table shows when   *)
(* it is accepted, and for one the user had selected, unless the inventory  *)
(* was replaced while an earlier dialog of the same click was open.         *)
JobsAreAgreed ==
    [][\A j \in jobs' \ jobs :
          j.disk = offered.disk /\ (j.disk \in wanted \/ replaced)]_vars

(* No job starts for a disk that the rules in force protect, however old    *)
(* the discovery, the table or the dialog it comes from; nor for one that   *)
(* the discovery its dialog shows had a reason of its own against.          *)
ProtectedAreSpared ==
    [][\A j \in jobs' \ jobs : j.disk \notin protected /\ ~offered.barred]_vars

(* No discovery, failed or applied under a dialog, is the last one.         *)
RefreshGoesOn == []<>(refresh = "idle") /\ []<>(refresh = "running")
=============================================================================
