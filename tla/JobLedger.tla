------------------------------ MODULE JobLedger ------------------------------
(***************************************************************************)
(* What the job history promises, without threads, locks, queues or        *)
(* backends: a job's row opens, follows the job's phases forwards, and is  *)
(* closed once, by the job itself with what it really did to the disk, or  *)
(* by the next start of the program with INTERRUPTED if the job is no      *)
(* longer worked on.  JobManager implements it.                            *)
(***************************************************************************)
EXTENDS WipeBackends

CONSTANT Jobs

VARIABLES
    ledger,     \* the status of each job's row, "NONE" before it exists
    worked,     \* jobs that somebody in this process is still working on
    chunks      \* how much of its disk each job has overwritten

ledgerVars == <<ledger, worked, chunks>>

(* An open row only moves forwards along these. *)
Phase(s) == CASE s = "PREPARING" -> 1 [] s = "WIPING" -> 2 [] s = "VERIFYING" -> 3

LedgerTypeOK ==
    /\ ledger \in [Jobs -> Statuses \cup {"NONE"}]
    /\ worked \subseteq Jobs
    /\ chunks \in [Jobs -> 0 .. Size]

LedgerInit ==
    /\ ledger = [j \in Jobs |-> "NONE"]
    /\ worked = {}
    /\ chunks = [j \in Jobs |-> 0]

Open(j) ==
    /\ ledger[j] = "NONE"
    /\ ledger' = [ledger EXCEPT ![j] = "PREPARING"]
    /\ worked' = worked \cup {j}
    /\ UNCHANGED chunks

Advance(j, s) ==
    /\ j \in worked
    /\ ledger[j] \in OpenStatuses
    /\ Phase(ledger[j]) <= Phase(s)
    /\ s = "VERIFYING" => chunks[j] = Size
    /\ ledger' = [ledger EXCEPT ![j] = s]
    /\ UNCHANGED <<worked, chunks>>

(* A process the program started may outlive it, so j need not be worked on; *)
(* a closed row other than INTERRUPTED means that nothing is written any     *)
(* more.                                                                     *)
Overwrite(j) ==
    /\ ledger[j] \in OpenStatuses \cup {"INTERRUPTED"}
    /\ chunks[j] < Size
    /\ chunks' = [chunks EXCEPT ![j] = @ + 1]
    /\ UNCHANGED <<ledger, worked>>

(* What a row of each final status claims about the disk. *)
Truthful(j, s) ==
    /\ s = "COMPLETE" => chunks[j] = Size /\ ledger[j] = "VERIFYING"
    /\ s = "CANCELLED_INCOMPLETE" => chunks[j] < Size /\ ledger[j] = "WIPING"

Close(j, s) ==
    /\ j \in worked
    /\ ledger[j] \in OpenStatuses
    /\ Truthful(j, s)
    /\ ledger' = [ledger EXCEPT ![j] = s]
    /\ worked' = worked \ {j}
    /\ UNCHANGED chunks

(* Jobs stop being worked on without a word: the process dies, or the      *)
(* history cannot be written.                                              *)
Drop(S) ==
    /\ S # {}
    /\ S \subseteq worked
    /\ worked' = worked \ S
    /\ UNCHANGED <<ledger, chunks>>

Recover ==
    /\ worked = {}
    /\ ledger' = [j \in Jobs |-> IF ledger[j] \in OpenStatuses THEN "INTERRUPTED"
                                 ELSE ledger[j]]
    /\ UNCHANGED <<worked, chunks>>

LedgerNext ==
    \/ \E j \in Jobs : Open(j) \/ Overwrite(j)
    \/ \E j \in Jobs, s \in OpenStatuses : Advance(j, s)
    \/ \E j \in Jobs, s \in FinishedStatuses : Close(j, s)
    \/ \E S \in SUBSET Jobs : Drop(S)
    \/ Recover

LedgerSpec == LedgerInit /\ [][LedgerNext]_ledgerVars
=============================================================================
