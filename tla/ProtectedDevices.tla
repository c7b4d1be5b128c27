-------------------------- MODULE ProtectedDevices --------------------------
(***************************************************************************)
(* protected_devices.json (disks/protection.py): the rules are loaded when *)
(* the program starts (main.py) and extended from the window               *)
(* (main_window.py, _protect_selected) by loading the file, writing a      *)
(* temporary one and moving it over the file.  Several copies of the       *)
(* program may share the data directory, each may be killed between any    *)
(* two steps, every call of the file system may fail, and the user edits   *)
(* the file by hand.                                                       *)
(*                                                                         *)
(* The file system is external: a move replaces the file at once, and      *)
(* Windows refuses to move or to remove a file another program has open.   *)
(***************************************************************************)
EXTENDS ProtectionPolicy

CONSTANTS
    Programs,   \* copies of the program
    Disks,      \* what discovery reports
    Typed,      \* the rules the user may type into the file
    Buses,      \* allowed_bus_types
    Letters     \* critical_drive_letters

Rules == Typed \cup {NormalRule(r) : r \in Typed} \cup {KeyRule(d) : d \in Disks}

(* What a file may be: absent, not the JSON object that was meant, or rules. *)
Absent == [kind |-> "absent", rules |-> {}]
Broken == [kind |-> "broken", rules |-> {}]
Holding(rules) == [kind |-> "rules", rules |-> rules]
Contents == {Absent, Broken} \cup {Holding(rules) : rules \in SUBSET Rules}

ASSUME DiskAssumption ==
    \A d \in Disks :
        /\ DOMAIN d = {"flags", "bus", "letters"} \cup Identity \cup Sizes
        /\ \A part \in Identity : d[part] \in DOMAIN Normal
ASSUME TypedAssumption ==
    \A r \in Typed : r.list \in {"serial_numbers", "unique_ids"} /\ r.value \in DOMAIN Normal

VARIABLES
    (* The data directory. *)
    file,       \* protected_devices.json: its contents
    tmp,        \* protected_devices.json.tmp, which all copies share
    (* Each copy. *)
    pc,
    policy,     \* the rules of its ProtectionPolicy
    adding,     \* the disks it is asked to protect
    updated,    \* the rules it is about to save
    (* History. *)
    told,       \* disks each copy has said or loaded to be protected by a rule
    racing      \* copies whose saving overlaps another copy's, or an edit

files == <<file, tmp>>
copies == <<pc, policy, adding, updated>>
history == <<told, racing>>
vars == <<files, copies, history>>

(***************************************************************************)
(* down       not running                                                  *)
(* idle       the window waits                                             *)
(* loading    confirmed; about to load the file                            *)
(* opening    loaded and merged; about to open the temporary file          *)
(* writing    it is open and empty                                         *)
(* replacing  written and closed; about to move it                         *)
(* unlinking  an OSError is on its way out; about to remove it             *)
(* applying   moved; about to put the rules in force                       *)
(***************************************************************************)
Steps == {"down", "idle", "loading", "opening", "writing", "replacing", "unlinking",
          "applying"}

TypeOK ==
    /\ file \in Contents
    /\ tmp \in Contents
    /\ pc \in [Programs -> Steps]
    /\ policy \in [Programs -> SUBSET Rules]
    /\ adding \in [Programs -> SUBSET Disks]
    /\ updated \in [Programs -> SUBSET Rules]
    /\ told \in [Programs -> SUBSET Disks]
    /\ racing \subseteq Programs

PolicyOf(p) == [rules |-> policy[p], buses |-> Buses, letters |-> Letters]

(* load_protected_devices: a file that is absent has no rules; one that is  *)
(* broken is an error.                                                      *)
Readable(c) == c.kind # "broken"
RulesIn(c) == Loaded(c.rules)

(* A copy has read the file and not moved or given up its own yet. *)
Merging == {p \in Programs : pc[p] \in {"opening", "writing", "replacing"}}
Applying == {p \in Programs : pc[p] = "applying"}
HeldByOther(p) == \E q \in Programs \ {p} : pc[q] = "writing"

GoTo(p, step) == pc' = [pc EXCEPT ![p] = step]

(* Only the promises that c keeps are left. *)
Withdraw(c) ==
    LET kept == {d \in Disks : Named(d, c.rules)}
    IN  told' = [p \in Programs |-> told[p] \cap kept]

(* add_protected_stable_keys and _protect_selected return. *)
Finish(p) ==
    /\ GoTo(p, "idle")
    /\ adding' = [adding EXCEPT ![p] = {}]
    /\ updated' = [updated EXCEPT ![p] = {}]
    /\ racing' = racing \ {p}

-----------------------------------------------------------------------------
(* main: the program starts with the rules of the file, or not at all. *)
Launch(p) ==
    /\ pc[p] = "down"
    /\ Readable(file)
    /\ GoTo(p, "idle")
    /\ policy' = [policy EXCEPT ![p] = RulesIn(file)]
    /\ told' = [told EXCEPT ![p] = {d \in Disks : Named(d, file.rules)}]
    /\ UNCHANGED <<files, adding, updated, racing>>

(* It ends, or it is killed; what it had open is closed. *)
Exit(p) ==
    /\ pc[p] # "down"
    /\ GoTo(p, "down")
    /\ policy' = [policy EXCEPT ![p] = {}]
    /\ adding' = [adding EXCEPT ![p] = {}]
    /\ updated' = [updated EXCEPT ![p] = {}]
    /\ racing' = racing \ {p}
    /\ told' = [told EXCEPT ![p] = {}]
    /\ UNCHANGED files

(* _protect_selected, confirmed: only disks that may be wiped have a check  *)
(* mark to select them by.                                                  *)
Protect(p, ds) ==
    /\ pc[p] = "idle"
    /\ ds # {} /\ \A d \in ds : CanWipe(d, PolicyOf(p))
    /\ adding' = [adding EXCEPT ![p] = ds]
    /\ GoTo(p, "loading")
    /\ UNCHANGED <<files, policy, updated, history>>

(* Mutation of Merged: the serial numbers are saved in place of the         *)
(* fingerprints.                                                            *)
MutantSavesSerials(p) == RulesIn(file) \cup {SerialRule(d) : d \in adding[p]}

Merged(p) == RulesIn(file) \cup {KeyRule(d) : d \in adding[p]}

Load(p) ==
    /\ pc[p] = "loading"
    /\ Readable(file)
    /\ updated' = [updated EXCEPT ![p] = Merged(p)]
    /\ GoTo(p, "opening")
    /\ racing' = IF Merging = {} THEN racing ELSE racing \cup Merging \cup {p}
    /\ UNCHANGED <<files, policy, adding, told>>

(* The file is broken or cannot be read, or the directory is gone: nothing  *)
(* has been touched, and the window goes on with the rules it had.          *)
GiveUp(p) ==
    /\ pc[p] \in {"loading", "opening"}
    /\ Finish(p)
    /\ UNCHANGED <<files, policy, told>>

(* Mutation of Open: the file is opened for writing itself. *)
MutantWritesInPlace(p) ==
    /\ pc[p] = "opening"
    /\ file' = Broken
    /\ GoTo(p, "writing")
    /\ UNCHANGED <<tmp, policy, adding, updated, history>>

(* write_text opens the temporary file and empties it ... *)
Open(p) ==
    /\ pc[p] = "opening"
    /\ tmp' = Broken
    /\ GoTo(p, "writing")
    /\ UNCHANGED <<file, policy, adding, updated, history>>

(* ... and writes it.  What another copy has written since may show behind  *)
(* the end.                                                                 *)
Write(p) ==
    /\ pc[p] = "writing"
    /\ tmp' \in {Holding(updated[p])} \cup (IF tmp = Broken THEN {} ELSE {Broken})
    /\ GoTo(p, "replacing")
    /\ UNCHANGED <<file, policy, adding, updated, history>>

(* os.replace.  A race may cost what other copies have promised or are      *)
(* about to.                                                                *)
Replace(p) ==
    /\ pc[p] = "replacing"
    /\ tmp.kind # "absent" /\ ~HeldByOther(p)
    /\ file' = tmp
    /\ tmp' = Absent
    /\ GoTo(p, "applying")
    /\ IF p \in racing
       THEN Withdraw(tmp) /\ racing' = racing \cup Applying
       ELSE UNCHANGED <<told, racing>>
    /\ UNCHANGED <<policy, adding, updated>>

(* Any of the three may raise an OSError. *)
SaveFails(p) ==
    /\ p \in Merging
    /\ GoTo(p, "unlinking")
    /\ UNCHANGED <<files, policy, adding, updated, history>>

(* The except clause; the window shows the error it re-raises, or the one   *)
(* that removing the file raises.                                           *)
Unlink(p) ==
    /\ pc[p] = "unlinking"
    /\ tmp' \in {tmp} \cup (IF HeldByOther(p) THEN {} ELSE {Absent})
    /\ Finish(p)
    /\ UNCHANGED <<file, policy, told>>

(* "Permanently protected": unless it raced, the promise is in the file. *)
Promise(p) ==
    told' = [told EXCEPT ![p] = @ \cup IF p \in racing THEN {} ELSE adding[p]]

(* Mutation of Apply: the rules wait for the next start. *)
MutantAppliesAtRestart(p) ==
    /\ pc[p] = "applying"
    /\ Finish(p)
    /\ Promise(p)
    /\ UNCHANGED <<files, policy>>

(* The window and its backend take the rules that were saved. *)
Apply(p) ==
    /\ pc[p] = "applying"
    /\ policy' = [policy EXCEPT ![p] = updated[p]]
    /\ Finish(p)
    /\ Promise(p)
    /\ UNCHANGED files

(* The user adds or removes a rule, removes the file, or spoils it. *)
Drafts ==
    {Absent, Broken}
    \cup {Holding(file.rules \cup {r}) : r \in Typed}
    \cup {Holding(file.rules \ {r}) : r \in file.rules}

(* A disk the file names no more was promised nothing. *)
Edit(c) ==
    /\ file' = c
    /\ Withdraw(c)
    /\ racing' = racing \cup Merging \cup Applying
    /\ UNCHANGED <<tmp, copies>>

-----------------------------------------------------------------------------
Init ==
    /\ file \in {Absent, Broken} \cup {Holding(rules) : rules \in SUBSET Typed}
    /\ tmp \in {Absent, Broken}
    /\ pc = [p \in Programs |-> "down"]
    /\ policy = [p \in Programs |-> {}]
    /\ adding = [p \in Programs |-> {}]
    /\ updated = [p \in Programs |-> {}]
    /\ told = [p \in Programs |-> {}]
    /\ racing = {}

Program(p) ==
    \/ Launch(p) \/ Exit(p)
    \/ \E ds \in SUBSET Disks : Protect(p, ds)
    \/ Load(p) \/ GiveUp(p) \/ Open(p) \/ Write(p) \/ Replace(p) \/ SaveFails(p)
    \/ Unlink(p) \/ Apply(p)

Next ==
    \/ \E p \in Programs : Program(p)
    \/ \E c \in Drafts : Edit(c)

Spec == Init /\ [][Next]_vars

-----------------------------------------------------------------------------
(* What a program has said to be protected is protected: by a rule of the   *)
(* file, for every later start, and by its own policy, for every wipe, as   *)
(* long as the user leaves the rule in the file and no two copies save at   *)
(* once.  A crash, a failed call or a temporary file left behind does not   *)
(* change it.                                                               *)
PromisesAreKept ==
    \A p \in Programs : \A d \in told[p] :
        /\ Readable(file) /\ Named(d, file.rules)
        /\ ~CanWipe(d, PolicyOf(p))

(* add_protected_stable_keys adds "without dropping existing rules": at no  *)
(* step, finished or not, does a program that races nobody take a rule out  *)
(* of the file, or leave a file that the next start refuses.                *)
ProgramsDropNothing ==
    [][\A p \in Programs \ racing :
          pc'[p] # pc[p] /\ Readable(file) =>
              Readable(file') /\ RulesIn(file) \subseteq RulesIn(file')]_vars
=============================================================================
