-------------------------- MODULE NativeWipeProofs --------------------------
(***************************************************************************)
(* Proofs about NativeWipe, for any number of disks, disk numbers and      *)
(* partitions and a disk of any size.                                      *)
(***************************************************************************)
EXTENDS NativeWipe, TLAPS

BeforeLocks == {"called", "discovering", "checking"}
UnderLocks == {"locked", "rediscovering", "rechecking", "opening"}
WithRaw == {"probing", "starting", "polling", "writing", "written", "flushing",
            "flushed", "updating", "closing"}
AfterLocks == {"verifying", "confirming", "returned"}

(* The handles each part of the run holds. *)
Holding ==
    /\ raw # Null <=> pc \in WithRaw
    /\ pc \in BeforeLocks \cup AfterLocks => handles = {}
    /\ pc = "locking" => handles \subseteq paths
    /\ pc \in UnderLocks \cup WithRaw => handles = paths
    /\ pc \in {"opening"} \cup WithRaw => paths = VolumePaths

(* What is on its way out of run(). *)
Outcome ==
    /\ result # Null <=> pc \in {"closing", "unlocking"} \cup AfterLocks
    /\ pc \in {"verifying", "confirming"} => result = "COMPLETE"
    /\ pc = "returned" /\ result = "COMPLETE" =>
           seen = [device |-> Target, partitions |-> {}]
    /\ result = "CANCELLED_INCOMPLETE" => cancelled

(* The chunk count at each step of the loop, and the disks it is about. *)
Counting ==
    /\ pc \in BeforeLocks \cup UnderLocks \cup {"locking", "probing", "starting"} =>
           wiped = 0
    /\ pc \in {"polling", "writing"} => wiped < Size
    /\ pc \in {"flushing", "flushed", "updating"} => wiped = Size
    /\ \A d \in Devices :
          /\ zeroed[d] <= wiped
          /\ raw = d => zeroed[d] = wiped
          /\ zeroed[d] > 0 => d \in Twins
          /\ raw = d /\ pc \notin {"probing", "closing"} => d \in Twins
    /\ result = "COMPLETE" => \E d \in Twins : zeroed[d] = Size

(* A lock that works pins the number Target had at the second discovery. *)
Pinning ==
    /\ live # {} /\ pc = "rechecking" /\ seen.device = Target => at[Number] = Target
    /\ live # {} /\ pc = "opening" => at[Number] = Target
    /\ live # {} /\ raw \in Devices => raw = Target
    /\ \A d \in Devices \ {Target} : zeroed[d] > 0 => live = {}

Inv == TypeOK /\ Holding /\ Outcome /\ Counting /\ Pinning

-----------------------------------------------------------------------------

(* Initially. *)
LEMMA InitInv == Init => Inv
<1> SUFFICES ASSUME Init PROVE Inv
    OBVIOUS
<1>1. TypeOK
  <2>1. at \in [Numbers -> Devices \cup {Null, Gone}]
    <3>1. at \in [Numbers -> Devices \cup {Null}]
        BY DEF Init
    <3> QED
        BY <3>1
  <2>2. zeroed \in [Devices -> 0 .. Size] /\ wiped \in 0 .. Size
    BY SizeAssumption DEF Init
  <2>3. seen \in [device : Devices \cup {Null}, partitions : SUBSET Partitions]
    BY DEF Init, NotFound
  <2> QED
    BY <2>1, <2>2, <2>3 DEF Init, TypeOK, Steps
<1>2. Holding /\ Outcome
    BY ResultAssumption DEF Init, Holding, Outcome, BeforeLocks, UnderLocks, WithRaw,
       AfterLocks, FinishedStatuses
<1>3. Counting
    BY SizeAssumption, DevicesAssumption, ResultAssumption
       DEF Init, Counting, BeforeLocks, UnderLocks, FinishedStatuses
<1>4. Pinning
    BY DEF Init, Pinning
<1> QED
    BY <1>1, <1>2, <1>3, <1>4 DEF Inv

(* Every step keeps the types. *)
LEMMA TypeStep ==
    ASSUME Inv, [Next]_vars
    PROVE  TypeOK'
<1>1. ASSUME Report("called", "discovering")
      PROVE  TypeOK'
    BY <1>1, SizeAssumption, DevicesAssumption, NumberAssumption,
    PartitionsAssumption DEF Inv, TypeOK, Holding, Counting, Outcome, Steps,
    FinishedStatuses, BeforeLocks, UnderLocks, WithRaw, AfterLocks, Report,
    GoTo, machine
<1>2. ASSUME Report("locked", "rediscovering")
      PROVE  TypeOK'
    BY <1>2, SizeAssumption, DevicesAssumption, NumberAssumption,
    PartitionsAssumption DEF Inv, TypeOK, Holding, Counting, Outcome, Steps,
    FinishedStatuses, BeforeLocks, UnderLocks, WithRaw, AfterLocks, Report,
    GoTo, machine
<1>3. ASSUME Report("starting", "polling")
      PROVE  TypeOK'
    BY <1>3, SizeAssumption, DevicesAssumption, NumberAssumption,
    PartitionsAssumption DEF Inv, TypeOK, Holding, Counting, Outcome, Steps,
    FinishedStatuses, BeforeLocks, UnderLocks, WithRaw, AfterLocks, Report,
    GoTo, machine
<1>4. ASSUME Report("flushed", "updating")
      PROVE  TypeOK'
    BY <1>4, SizeAssumption, DevicesAssumption, NumberAssumption,
    PartitionsAssumption DEF Inv, TypeOK, Holding, Counting, Outcome, Steps,
    FinishedStatuses, BeforeLocks, UnderLocks, WithRaw, AfterLocks, Report,
    GoTo, machine
<1>5. ASSUME Discover("discovering", "checking")
      PROVE  TypeOK'
    BY <1>5, SizeAssumption, DevicesAssumption, NumberAssumption,
    PartitionsAssumption DEF Inv, TypeOK, Holding, Counting, Outcome, Steps,
    FinishedStatuses, BeforeLocks, UnderLocks, WithRaw, AfterLocks, Discover,
    Inventory, NotFound, GoTo, machine
<1>6. ASSUME Discover("rediscovering", "rechecking")
      PROVE  TypeOK'
    BY <1>6, SizeAssumption, DevicesAssumption, NumberAssumption,
    PartitionsAssumption DEF Inv, TypeOK, Holding, Counting, Outcome, Steps,
    FinishedStatuses, BeforeLocks, UnderLocks, WithRaw, AfterLocks, Discover,
    Inventory, NotFound, GoTo, machine
<1>7. ASSUME Discover("verifying", "confirming")
      PROVE  TypeOK'
    BY <1>7, SizeAssumption, DevicesAssumption, NumberAssumption,
    PartitionsAssumption DEF Inv, TypeOK, Holding, Counting, Outcome, Steps,
    FinishedStatuses, BeforeLocks, UnderLocks, WithRaw, AfterLocks, Discover,
    Inventory, NotFound, GoTo, machine
<1>8. ASSUME Check
      PROVE  TypeOK'
    BY <1>8, SizeAssumption, DevicesAssumption, NumberAssumption,
    PartitionsAssumption DEF Inv, TypeOK, Holding, Counting, Outcome, Steps,
    FinishedStatuses, BeforeLocks, UnderLocks, WithRaw, AfterLocks, Check,
    Valid, VolumePaths, GoTo, Raise, AfterError, machine
<1>9. ASSUME NEW v \in Lockable, Lock(v)
      PROVE  TypeOK'
    BY <1>9, SizeAssumption, DevicesAssumption, NumberAssumption,
    PartitionsAssumption DEF Inv, TypeOK, Holding, Counting, Outcome, Steps,
    FinishedStatuses, BeforeLocks, UnderLocks, WithRaw, AfterLocks, Lock, GoTo,
    machine
<1>10. ASSUME Locked
      PROVE  TypeOK'
    BY <1>10, SizeAssumption, DevicesAssumption, NumberAssumption,
    PartitionsAssumption DEF Inv, TypeOK, Holding, Counting, Outcome, Steps,
    FinishedStatuses, BeforeLocks, UnderLocks, WithRaw, AfterLocks, Locked,
    GoTo, machine
<1>11. ASSUME Recheck
      PROVE  TypeOK'
    BY <1>11, SizeAssumption, DevicesAssumption, NumberAssumption,
    PartitionsAssumption DEF Inv, TypeOK, Holding, Counting, Outcome, Steps,
    FinishedStatuses, BeforeLocks, UnderLocks, WithRaw, AfterLocks, Recheck,
    Valid, SameLayout, VolumePaths, GoTo, Raise, AfterError, machine
<1>12. ASSUME OpenRaw
      PROVE  TypeOK'
    BY <1>12, SizeAssumption, DevicesAssumption, NumberAssumption,
    PartitionsAssumption DEF Inv, TypeOK, Holding, Counting, Outcome, Steps,
    FinishedStatuses, BeforeLocks, UnderLocks, WithRaw, AfterLocks, OpenRaw,
    GoTo, machine
<1>13. ASSUME Probe
      PROVE  TypeOK'
    BY <1>13, SizeAssumption, DevicesAssumption, NumberAssumption,
    PartitionsAssumption DEF Inv, TypeOK, Holding, Counting, Outcome, Steps,
    FinishedStatuses, BeforeLocks, UnderLocks, WithRaw, AfterLocks, Probe, GoTo,
    Raise, AfterError, machine
<1>14. ASSUME Poll
      PROVE  TypeOK'
    BY <1>14, SizeAssumption, DevicesAssumption, NumberAssumption,
    PartitionsAssumption DEF Inv, TypeOK, Holding, Counting, Outcome, Steps,
    FinishedStatuses, BeforeLocks, UnderLocks, WithRaw, AfterLocks, Poll,
    Return, GoTo, machine
<1>15. ASSUME Write
      PROVE  TypeOK'
    BY <1>15, SizeAssumption, DevicesAssumption, NumberAssumption,
    PartitionsAssumption DEF Inv, TypeOK, Holding, Counting, Outcome, Steps,
    FinishedStatuses, BeforeLocks, UnderLocks, WithRaw, AfterLocks, Write
<1>16. ASSUME NextChunk
      PROVE  TypeOK'
    BY <1>16, SizeAssumption, DevicesAssumption, NumberAssumption,
    PartitionsAssumption DEF Inv, TypeOK, Holding, Counting, Outcome, Steps,
    FinishedStatuses, BeforeLocks, UnderLocks, WithRaw, AfterLocks, NextChunk,
    AfterChunk, GoTo, machine
<1>17. ASSUME Flush
      PROVE  TypeOK'
    BY <1>17, SizeAssumption, DevicesAssumption, NumberAssumption,
    PartitionsAssumption DEF Inv, TypeOK, Holding, Counting, Outcome, Steps,
    FinishedStatuses, BeforeLocks, UnderLocks, WithRaw, AfterLocks, Flush, GoTo,
    machine
<1>18. ASSUME UpdateProperties
      PROVE  TypeOK'
    BY <1>18, SizeAssumption, DevicesAssumption, NumberAssumption,
    PartitionsAssumption DEF Inv, TypeOK, Holding, Counting, Outcome, Steps,
    FinishedStatuses, BeforeLocks, UnderLocks, WithRaw, AfterLocks,
    UpdateProperties, Return
<1>19. ASSUME CloseRaw
      PROVE  TypeOK'
    BY <1>19, SizeAssumption, DevicesAssumption, NumberAssumption,
    PartitionsAssumption DEF Inv, TypeOK, Holding, Counting, Outcome, Steps,
    FinishedStatuses, BeforeLocks, UnderLocks, WithRaw, AfterLocks, CloseRaw,
    machine
<1>20. ASSUME Unlock
      PROVE  TypeOK'
    BY <1>20, SizeAssumption, DevicesAssumption, NumberAssumption,
    PartitionsAssumption DEF Inv, TypeOK, Holding, Counting, Outcome, Steps,
    FinishedStatuses, BeforeLocks, UnderLocks, WithRaw, AfterLocks, Unlock,
    machine
<1>21. ASSUME Confirm
      PROVE  TypeOK'
    BY <1>21, SizeAssumption, DevicesAssumption, NumberAssumption,
    PartitionsAssumption DEF Inv, TypeOK, Holding, Counting, Outcome, Steps,
    FinishedStatuses, BeforeLocks, UnderLocks, WithRaw, AfterLocks, Confirm,
    GoTo, Raise, AfterError, machine
<1>22. ASSUME Fail
      PROVE  TypeOK'
    BY <1>22, SizeAssumption, DevicesAssumption, NumberAssumption,
    PartitionsAssumption DEF Inv, TypeOK, Holding, Counting, Outcome, Steps,
    FinishedStatuses, BeforeLocks, UnderLocks, WithRaw, AfterLocks, Fail,
    Fallible, Raise, AfterError, machine
<1>23. ASSUME NEW n \in Numbers, Unplug(n)
      PROVE  TypeOK'
    BY <1>23, SizeAssumption, DevicesAssumption, NumberAssumption,
    PartitionsAssumption DEF Inv, TypeOK, Holding, Counting, Outcome, Steps,
    FinishedStatuses, BeforeLocks, UnderLocks, WithRaw, AfterLocks, Unplug, run
<1>24. ASSUME NEW n \in Numbers, Vacate(n)
      PROVE  TypeOK'
    BY <1>24, SizeAssumption, DevicesAssumption, NumberAssumption,
    PartitionsAssumption DEF Inv, TypeOK, Holding, Counting, Outcome, Steps,
    FinishedStatuses, BeforeLocks, UnderLocks, WithRaw, AfterLocks, Vacate, run
<1>25. ASSUME NEW n \in Numbers, NEW d \in Devices, Plug(n, d)
      PROVE  TypeOK'
    BY <1>25, SizeAssumption, DevicesAssumption, NumberAssumption,
    PartitionsAssumption DEF Inv, TypeOK, Holding, Counting, Outcome, Steps,
    FinishedStatuses, BeforeLocks, UnderLocks, WithRaw, AfterLocks, Plug, run
<1>26. ASSUME NEW S \in SUBSET Partitions, Repartition(S)
      PROVE  TypeOK'
    BY <1>26, SizeAssumption, DevicesAssumption, NumberAssumption,
    PartitionsAssumption DEF Inv, TypeOK, Holding, Counting, Outcome, Steps,
    FinishedStatuses, BeforeLocks, UnderLocks, WithRaw, AfterLocks, Repartition,
    run
<1>27. ASSUME NEW d \in Devices, Protect(d)
      PROVE  TypeOK'
    BY <1>27, SizeAssumption, DevicesAssumption, NumberAssumption,
    PartitionsAssumption DEF Inv, TypeOK, Holding, Counting, Outcome, Steps,
    FinishedStatuses, BeforeLocks, UnderLocks, WithRaw, AfterLocks, Protect,
    run, machine
<1>28. ASSUME SetCancel
      PROVE  TypeOK'
    BY <1>28, SizeAssumption, DevicesAssumption, NumberAssumption,
    PartitionsAssumption DEF Inv, TypeOK, Holding, Counting, Outcome, Steps,
    FinishedStatuses, BeforeLocks, UnderLocks, WithRaw, AfterLocks, SetCancel,
    run, machine
<1>29. CASE UNCHANGED vars
    BY <1>29 DEF Inv, TypeOK, Holding, Counting, Outcome, Steps,
    FinishedStatuses, BeforeLocks, UnderLocks, WithRaw, AfterLocks, vars,
    machine, run
<1> QED
    BY <1>1, <1>2, <1>3, <1>4, <1>5, <1>6, <1>7, <1>8, <1>9, <1>10, <1>11,
    <1>12, <1>13, <1>14, <1>15, <1>16, <1>17, <1>18, <1>19, <1>20, <1>21, <1>22,
    <1>23, <1>24, <1>25, <1>26, <1>27, <1>28, <1>29 DEF Next, Run, Environment,
    Reports, Discoveries

(* Every step keeps the handles as Holding says. *)
LEMMA HoldingStep ==
    ASSUME Inv, [Next]_vars
    PROVE  Holding'
<1>1. ASSUME Report("called", "discovering")
      PROVE  Holding'
    BY <1>1, NullAssumption, DevicesAssumption DEF Inv, TypeOK, Holding,
    Outcome, VolumePaths, BeforeLocks, UnderLocks, WithRaw, AfterLocks, Report,
    GoTo, machine
<1>2. ASSUME Report("locked", "rediscovering")
      PROVE  Holding'
    BY <1>2, NullAssumption, DevicesAssumption DEF Inv, TypeOK, Holding,
    Outcome, VolumePaths, BeforeLocks, UnderLocks, WithRaw, AfterLocks, Report,
    GoTo, machine
<1>3. ASSUME Report("starting", "polling")
      PROVE  Holding'
    BY <1>3, NullAssumption, DevicesAssumption DEF Inv, TypeOK, Holding,
    Outcome, VolumePaths, BeforeLocks, UnderLocks, WithRaw, AfterLocks, Report,
    GoTo, machine
<1>4. ASSUME Report("flushed", "updating")
      PROVE  Holding'
    BY <1>4, NullAssumption, DevicesAssumption DEF Inv, TypeOK, Holding,
    Outcome, VolumePaths, BeforeLocks, UnderLocks, WithRaw, AfterLocks, Report,
    GoTo, machine
<1>5. ASSUME Discover("discovering", "checking")
      PROVE  Holding'
    BY <1>5, NullAssumption, DevicesAssumption DEF Inv, TypeOK, Holding,
    Outcome, VolumePaths, BeforeLocks, UnderLocks, WithRaw, AfterLocks,
    Discover, Inventory, NotFound, GoTo, machine
<1>6. ASSUME Discover("rediscovering", "rechecking")
      PROVE  Holding'
    BY <1>6, NullAssumption, DevicesAssumption DEF Inv, TypeOK, Holding,
    Outcome, VolumePaths, BeforeLocks, UnderLocks, WithRaw, AfterLocks,
    Discover, Inventory, NotFound, GoTo, machine
<1>7. ASSUME Discover("verifying", "confirming")
      PROVE  Holding'
    BY <1>7, NullAssumption, DevicesAssumption DEF Inv, TypeOK, Holding,
    Outcome, VolumePaths, BeforeLocks, UnderLocks, WithRaw, AfterLocks,
    Discover, Inventory, NotFound, GoTo, machine
<1>8. ASSUME Check
      PROVE  Holding'
    BY <1>8, NullAssumption, DevicesAssumption DEF Inv, TypeOK, Holding,
    Outcome, VolumePaths, BeforeLocks, UnderLocks, WithRaw, AfterLocks, Check,
    Valid, GoTo, Raise, AfterError, machine
<1>9. ASSUME NEW v \in Lockable, Lock(v)
      PROVE  Holding'
    BY <1>9, NullAssumption, DevicesAssumption DEF Inv, TypeOK, Holding,
    Outcome, VolumePaths, BeforeLocks, UnderLocks, WithRaw, AfterLocks, Lock,
    GoTo, machine
<1>10. ASSUME Locked
      PROVE  Holding'
    BY <1>10, NullAssumption, DevicesAssumption DEF Inv, TypeOK, Holding,
    Outcome, VolumePaths, BeforeLocks, UnderLocks, WithRaw, AfterLocks, Locked,
    GoTo, machine
<1>11. ASSUME Recheck
      PROVE  Holding'
    BY <1>11, NullAssumption, DevicesAssumption DEF Inv, TypeOK, Holding,
    Outcome, VolumePaths, BeforeLocks, UnderLocks, WithRaw, AfterLocks, Recheck,
    Valid, SameLayout, GoTo, Raise, AfterError, machine
<1>12. ASSUME OpenRaw
      PROVE  Holding'
    BY <1>12, NullAssumption, DevicesAssumption DEF Inv, TypeOK, Holding,
    Outcome, VolumePaths, BeforeLocks, UnderLocks, WithRaw, AfterLocks, OpenRaw,
    GoTo, machine
<1>13. ASSUME Probe
      PROVE  Holding'
    BY <1>13, NullAssumption, DevicesAssumption DEF Inv, TypeOK, Holding,
    Outcome, VolumePaths, BeforeLocks, UnderLocks, WithRaw, AfterLocks, Probe,
    GoTo, Raise, AfterError, machine
<1>14. ASSUME Poll
      PROVE  Holding'
    BY <1>14, NullAssumption, DevicesAssumption DEF Inv, TypeOK, Holding,
    Outcome, VolumePaths, BeforeLocks, UnderLocks, WithRaw, AfterLocks, Poll,
    Return, GoTo, machine
<1>15. ASSUME Write
      PROVE  Holding'
    BY <1>15, NullAssumption, DevicesAssumption DEF Inv, TypeOK, Holding,
    Outcome, VolumePaths, BeforeLocks, UnderLocks, WithRaw, AfterLocks, Write
<1>16. ASSUME NextChunk
      PROVE  Holding'
    BY <1>16, NullAssumption, DevicesAssumption DEF Inv, TypeOK, Holding,
    Outcome, VolumePaths, BeforeLocks, UnderLocks, WithRaw, AfterLocks,
    NextChunk, AfterChunk, GoTo, machine
<1>17. ASSUME Flush
      PROVE  Holding'
    BY <1>17, NullAssumption, DevicesAssumption DEF Inv, TypeOK, Holding,
    Outcome, VolumePaths, BeforeLocks, UnderLocks, WithRaw, AfterLocks, Flush,
    GoTo, machine
<1>18. ASSUME UpdateProperties
      PROVE  Holding'
    BY <1>18, NullAssumption, DevicesAssumption DEF Inv, TypeOK, Holding,
    Outcome, VolumePaths, BeforeLocks, UnderLocks, WithRaw, AfterLocks,
    UpdateProperties, Return
<1>19. ASSUME CloseRaw
      PROVE  Holding'
    BY <1>19, NullAssumption, DevicesAssumption DEF Inv, TypeOK, Holding,
    Outcome, VolumePaths, BeforeLocks, UnderLocks, WithRaw, AfterLocks,
    CloseRaw, machine
<1>20. ASSUME Unlock
      PROVE  Holding'
    BY <1>20, NullAssumption, DevicesAssumption DEF Inv, TypeOK, Holding,
    Outcome, VolumePaths, BeforeLocks, UnderLocks, WithRaw, AfterLocks, Unlock,
    machine
<1>21. ASSUME Confirm
      PROVE  Holding'
    BY <1>21, NullAssumption, DevicesAssumption DEF Inv, TypeOK, Holding,
    Outcome, VolumePaths, BeforeLocks, UnderLocks, WithRaw, AfterLocks, Confirm,
    GoTo, Raise, AfterError, machine
<1>22. ASSUME Fail
      PROVE  Holding'
    BY <1>22, NullAssumption, DevicesAssumption DEF Inv, TypeOK, Holding,
    Outcome, VolumePaths, BeforeLocks, UnderLocks, WithRaw, AfterLocks, Fail,
    Fallible, Raise, AfterError, machine
<1>23. ASSUME NEW n \in Numbers, Unplug(n)
      PROVE  Holding'
    BY <1>23, NullAssumption, DevicesAssumption DEF Inv, TypeOK, Holding,
    Outcome, VolumePaths, BeforeLocks, UnderLocks, WithRaw, AfterLocks, Unplug,
    run
<1>24. ASSUME NEW n \in Numbers, Vacate(n)
      PROVE  Holding'
    BY <1>24, NullAssumption, DevicesAssumption DEF Inv, TypeOK, Holding,
    Outcome, VolumePaths, BeforeLocks, UnderLocks, WithRaw, AfterLocks, Vacate,
    run
<1>25. ASSUME NEW n \in Numbers, NEW d \in Devices, Plug(n, d)
      PROVE  Holding'
    BY <1>25, NullAssumption, DevicesAssumption DEF Inv, TypeOK, Holding,
    Outcome, VolumePaths, BeforeLocks, UnderLocks, WithRaw, AfterLocks, Plug,
    run
<1>26. ASSUME NEW S \in SUBSET Partitions, Repartition(S)
      PROVE  Holding'
    BY <1>26, NullAssumption, DevicesAssumption DEF Inv, TypeOK, Holding,
    Outcome, VolumePaths, BeforeLocks, UnderLocks, WithRaw, AfterLocks,
    Repartition, run
<1>27. ASSUME NEW d \in Devices, Protect(d)
      PROVE  Holding'
    BY <1>27, NullAssumption, DevicesAssumption DEF Inv, TypeOK, Holding,
    Outcome, VolumePaths, BeforeLocks, UnderLocks, WithRaw, AfterLocks, Protect,
    run, machine
<1>28. ASSUME SetCancel
      PROVE  Holding'
    BY <1>28, NullAssumption, DevicesAssumption DEF Inv, TypeOK, Holding,
    Outcome, VolumePaths, BeforeLocks, UnderLocks, WithRaw, AfterLocks,
    SetCancel, run, machine
<1>29. CASE UNCHANGED vars
    BY <1>29 DEF Inv, TypeOK, Holding, Outcome, VolumePaths, BeforeLocks,
    UnderLocks, WithRaw, AfterLocks, vars, machine, run
<1> QED
    BY <1>1, <1>2, <1>3, <1>4, <1>5, <1>6, <1>7, <1>8, <1>9, <1>10, <1>11,
    <1>12, <1>13, <1>14, <1>15, <1>16, <1>17, <1>18, <1>19, <1>20, <1>21, <1>22,
    <1>23, <1>24, <1>25, <1>26, <1>27, <1>28, <1>29 DEF Next, Run, Environment,
    Reports, Discoveries

(* Every step keeps the outcome as Outcome says. *)
LEMMA OutcomeStep ==
    ASSUME Inv, [Next]_vars
    PROVE  Outcome'
<1>1. ASSUME Report("called", "discovering")
      PROVE  Outcome'
    BY <1>1, ResultAssumption DEF Inv, TypeOK, Holding, Outcome,
    FinishedStatuses, BeforeLocks, UnderLocks, WithRaw, AfterLocks, Report,
    GoTo, machine
<1>2. ASSUME Report("locked", "rediscovering")
      PROVE  Outcome'
    BY <1>2, ResultAssumption DEF Inv, TypeOK, Holding, Outcome,
    FinishedStatuses, BeforeLocks, UnderLocks, WithRaw, AfterLocks, Report,
    GoTo, machine
<1>3. ASSUME Report("starting", "polling")
      PROVE  Outcome'
    BY <1>3, ResultAssumption DEF Inv, TypeOK, Holding, Outcome,
    FinishedStatuses, BeforeLocks, UnderLocks, WithRaw, AfterLocks, Report,
    GoTo, machine
<1>4. ASSUME Report("flushed", "updating")
      PROVE  Outcome'
    BY <1>4, ResultAssumption DEF Inv, TypeOK, Holding, Outcome,
    FinishedStatuses, BeforeLocks, UnderLocks, WithRaw, AfterLocks, Report,
    GoTo, machine
<1>5. ASSUME Discover("discovering", "checking")
      PROVE  Outcome'
    BY <1>5, ResultAssumption DEF Inv, TypeOK, Holding, Outcome,
    FinishedStatuses, BeforeLocks, UnderLocks, WithRaw, AfterLocks, Discover,
    Inventory, NotFound, GoTo, machine
<1>6. ASSUME Discover("rediscovering", "rechecking")
      PROVE  Outcome'
    BY <1>6, ResultAssumption DEF Inv, TypeOK, Holding, Outcome,
    FinishedStatuses, BeforeLocks, UnderLocks, WithRaw, AfterLocks, Discover,
    Inventory, NotFound, GoTo, machine
<1>7. ASSUME Discover("verifying", "confirming")
      PROVE  Outcome'
    BY <1>7, ResultAssumption DEF Inv, TypeOK, Holding, Outcome,
    FinishedStatuses, BeforeLocks, UnderLocks, WithRaw, AfterLocks, Discover,
    Inventory, NotFound, GoTo, machine
<1>8. ASSUME Check
      PROVE  Outcome'
    BY <1>8, ResultAssumption DEF Inv, TypeOK, Holding, Outcome,
    FinishedStatuses, BeforeLocks, UnderLocks, WithRaw, AfterLocks, Check,
    Valid, VolumePaths, GoTo, Raise, AfterError, machine
<1>9. ASSUME NEW v \in Lockable, Lock(v)
      PROVE  Outcome'
    BY <1>9, ResultAssumption DEF Inv, TypeOK, Holding, Outcome,
    FinishedStatuses, BeforeLocks, UnderLocks, WithRaw, AfterLocks, Lock, GoTo,
    machine
<1>10. ASSUME Locked
      PROVE  Outcome'
    BY <1>10, ResultAssumption DEF Inv, TypeOK, Holding, Outcome,
    FinishedStatuses, BeforeLocks, UnderLocks, WithRaw, AfterLocks, Locked,
    GoTo, machine
<1>11. ASSUME Recheck
      PROVE  Outcome'
    BY <1>11, ResultAssumption DEF Inv, TypeOK, Holding, Outcome,
    FinishedStatuses, BeforeLocks, UnderLocks, WithRaw, AfterLocks, Recheck,
    Valid, SameLayout, VolumePaths, GoTo, Raise, AfterError, machine
<1>12. ASSUME OpenRaw
      PROVE  Outcome'
    BY <1>12, ResultAssumption DEF Inv, TypeOK, Holding, Outcome,
    FinishedStatuses, BeforeLocks, UnderLocks, WithRaw, AfterLocks, OpenRaw,
    GoTo, machine
<1>13. ASSUME Probe
      PROVE  Outcome'
    BY <1>13, ResultAssumption DEF Inv, TypeOK, Holding, Outcome,
    FinishedStatuses, BeforeLocks, UnderLocks, WithRaw, AfterLocks, Probe, GoTo,
    Raise, AfterError, machine
<1>14. ASSUME Poll
      PROVE  Outcome'
    BY <1>14, ResultAssumption DEF Inv, TypeOK, Holding, Outcome,
    FinishedStatuses, BeforeLocks, UnderLocks, WithRaw, AfterLocks, Poll,
    Return, GoTo, machine
<1>15. ASSUME Write
      PROVE  Outcome'
    BY <1>15, ResultAssumption DEF Inv, TypeOK, Holding, Outcome,
    FinishedStatuses, BeforeLocks, UnderLocks, WithRaw, AfterLocks, Write
<1>16. ASSUME NextChunk
      PROVE  Outcome'
    BY <1>16, ResultAssumption DEF Inv, TypeOK, Holding, Outcome,
    FinishedStatuses, BeforeLocks, UnderLocks, WithRaw, AfterLocks, NextChunk,
    AfterChunk, GoTo, machine
<1>17. ASSUME Flush
      PROVE  Outcome'
    BY <1>17, ResultAssumption DEF Inv, TypeOK, Holding, Outcome,
    FinishedStatuses, BeforeLocks, UnderLocks, WithRaw, AfterLocks, Flush, GoTo,
    machine
<1>18. ASSUME UpdateProperties
      PROVE  Outcome'
    BY <1>18, ResultAssumption DEF Inv, TypeOK, Holding, Outcome,
    FinishedStatuses, BeforeLocks, UnderLocks, WithRaw, AfterLocks,
    UpdateProperties, Return
<1>19. ASSUME CloseRaw
      PROVE  Outcome'
    BY <1>19, ResultAssumption DEF Inv, TypeOK, Holding, Outcome,
    FinishedStatuses, BeforeLocks, UnderLocks, WithRaw, AfterLocks, CloseRaw,
    machine
<1>20. ASSUME Unlock
      PROVE  Outcome'
    BY <1>20, ResultAssumption DEF Inv, TypeOK, Holding, Outcome,
    FinishedStatuses, BeforeLocks, UnderLocks, WithRaw, AfterLocks, Unlock,
    machine
<1>21. ASSUME Confirm
      PROVE  Outcome'
    BY <1>21, ResultAssumption DEF Inv, TypeOK, Holding, Outcome,
    FinishedStatuses, BeforeLocks, UnderLocks, WithRaw, AfterLocks, Confirm,
    GoTo, Raise, AfterError, machine
<1>22. ASSUME Fail
      PROVE  Outcome'
    BY <1>22, ResultAssumption DEF Inv, TypeOK, Holding, Outcome,
    FinishedStatuses, BeforeLocks, UnderLocks, WithRaw, AfterLocks, Fail,
    Fallible, Raise, AfterError, machine
<1>23. ASSUME NEW n \in Numbers, Unplug(n)
      PROVE  Outcome'
    BY <1>23, ResultAssumption DEF Inv, TypeOK, Holding, Outcome,
    FinishedStatuses, BeforeLocks, UnderLocks, WithRaw, AfterLocks, Unplug, run
<1>24. ASSUME NEW n \in Numbers, Vacate(n)
      PROVE  Outcome'
    BY <1>24, ResultAssumption DEF Inv, TypeOK, Holding, Outcome,
    FinishedStatuses, BeforeLocks, UnderLocks, WithRaw, AfterLocks, Vacate, run
<1>25. ASSUME NEW n \in Numbers, NEW d \in Devices, Plug(n, d)
      PROVE  Outcome'
    BY <1>25, ResultAssumption DEF Inv, TypeOK, Holding, Outcome,
    FinishedStatuses, BeforeLocks, UnderLocks, WithRaw, AfterLocks, Plug, run
<1>26. ASSUME NEW S \in SUBSET Partitions, Repartition(S)
      PROVE  Outcome'
    BY <1>26, ResultAssumption DEF Inv, TypeOK, Holding, Outcome,
    FinishedStatuses, BeforeLocks, UnderLocks, WithRaw, AfterLocks, Repartition,
    run
<1>27. ASSUME NEW d \in Devices, Protect(d)
      PROVE  Outcome'
    BY <1>27, ResultAssumption DEF Inv, TypeOK, Holding, Outcome,
    FinishedStatuses, BeforeLocks, UnderLocks, WithRaw, AfterLocks, Protect,
    run, machine
<1>28. ASSUME SetCancel
      PROVE  Outcome'
    BY <1>28, ResultAssumption DEF Inv, TypeOK, Holding, Outcome,
    FinishedStatuses, BeforeLocks, UnderLocks, WithRaw, AfterLocks, SetCancel,
    run, machine
<1>29. CASE UNCHANGED vars
    BY <1>29 DEF Inv, TypeOK, Holding, Outcome, FinishedStatuses, BeforeLocks,
    UnderLocks, WithRaw, AfterLocks, vars, machine, run
<1> QED
    BY <1>1, <1>2, <1>3, <1>4, <1>5, <1>6, <1>7, <1>8, <1>9, <1>10, <1>11,
    <1>12, <1>13, <1>14, <1>15, <1>16, <1>17, <1>18, <1>19, <1>20, <1>21, <1>22,
    <1>23, <1>24, <1>25, <1>26, <1>27, <1>28, <1>29 DEF Next, Run, Environment,
    Reports, Discoveries

(* Every step keeps the counts as Counting says. *)
LEMMA CountingStep ==
    ASSUME Inv, [Next]_vars
    PROVE  Counting'
<1>1. ASSUME Report("called", "discovering")
      PROVE  Counting'
    BY <1>1, SizeAssumption, NullAssumption, DevicesAssumption DEF Inv, TypeOK,
    Holding, Outcome, Counting, BeforeLocks, UnderLocks, WithRaw, AfterLocks,
    Report, GoTo, machine
<1>2. ASSUME Report("locked", "rediscovering")
      PROVE  Counting'
    BY <1>2, SizeAssumption, NullAssumption, DevicesAssumption DEF Inv, TypeOK,
    Holding, Outcome, Counting, BeforeLocks, UnderLocks, WithRaw, AfterLocks,
    Report, GoTo, machine
<1>3. ASSUME Report("starting", "polling")
      PROVE  Counting'
    BY <1>3, SizeAssumption, NullAssumption, DevicesAssumption DEF Inv, TypeOK,
    Holding, Outcome, Counting, BeforeLocks, UnderLocks, WithRaw, AfterLocks,
    Report, GoTo, machine
<1>4. ASSUME Report("flushed", "updating")
      PROVE  Counting'
    BY <1>4, SizeAssumption, NullAssumption, DevicesAssumption DEF Inv, TypeOK,
    Holding, Outcome, Counting, BeforeLocks, UnderLocks, WithRaw, AfterLocks,
    Report, GoTo, machine
<1>5. ASSUME Discover("discovering", "checking")
      PROVE  Counting'
    BY <1>5, SizeAssumption, NullAssumption, DevicesAssumption DEF Inv, TypeOK,
    Holding, Outcome, Counting, BeforeLocks, UnderLocks, WithRaw, AfterLocks,
    Discover, Inventory, NotFound, GoTo, machine
<1>6. ASSUME Discover("rediscovering", "rechecking")
      PROVE  Counting'
    BY <1>6, SizeAssumption, NullAssumption, DevicesAssumption DEF Inv, TypeOK,
    Holding, Outcome, Counting, BeforeLocks, UnderLocks, WithRaw, AfterLocks,
    Discover, Inventory, NotFound, GoTo, machine
<1>7. ASSUME Discover("verifying", "confirming")
      PROVE  Counting'
    BY <1>7, SizeAssumption, NullAssumption, DevicesAssumption DEF Inv, TypeOK,
    Holding, Outcome, Counting, BeforeLocks, UnderLocks, WithRaw, AfterLocks,
    Discover, Inventory, NotFound, GoTo, machine
<1>8. ASSUME Check
      PROVE  Counting'
    BY <1>8, SizeAssumption, NullAssumption, DevicesAssumption DEF Inv, TypeOK,
    Holding, Outcome, Counting, BeforeLocks, UnderLocks, WithRaw, AfterLocks,
    Check, Valid, VolumePaths, GoTo, Raise, AfterError, machine
<1>9. ASSUME NEW v \in Lockable, Lock(v)
      PROVE  Counting'
    BY <1>9, SizeAssumption, NullAssumption, DevicesAssumption DEF Inv, TypeOK,
    Holding, Outcome, Counting, BeforeLocks, UnderLocks, WithRaw, AfterLocks,
    Lock, GoTo, machine
<1>10. ASSUME Locked
      PROVE  Counting'
    BY <1>10, SizeAssumption, NullAssumption, DevicesAssumption DEF Inv, TypeOK,
    Holding, Outcome, Counting, BeforeLocks, UnderLocks, WithRaw, AfterLocks,
    Locked, GoTo, machine
<1>11. ASSUME Recheck
      PROVE  Counting'
    BY <1>11, SizeAssumption, NullAssumption, DevicesAssumption DEF Inv, TypeOK,
    Holding, Outcome, Counting, BeforeLocks, UnderLocks, WithRaw, AfterLocks,
    Recheck, Valid, SameLayout, VolumePaths, GoTo, Raise, AfterError, machine
<1>12. ASSUME OpenRaw
      PROVE  Counting'
    BY <1>12, SizeAssumption, NullAssumption, DevicesAssumption DEF Inv, TypeOK,
    Holding, Outcome, Counting, BeforeLocks, UnderLocks, WithRaw, AfterLocks,
    OpenRaw, GoTo, machine
<1>13. ASSUME Probe
      PROVE  Counting'
    BY <1>13, SizeAssumption, NullAssumption, DevicesAssumption DEF Inv, TypeOK,
    Holding, Outcome, Counting, BeforeLocks, UnderLocks, WithRaw, AfterLocks,
    Probe, GoTo, Raise, AfterError, machine
<1>14. ASSUME Poll
      PROVE  Counting'
    BY <1>14, SizeAssumption, NullAssumption, DevicesAssumption DEF Inv, TypeOK,
    Holding, Outcome, Counting, BeforeLocks, UnderLocks, WithRaw, AfterLocks,
    Poll, Return, GoTo, machine
<1>15. ASSUME Write
      PROVE  Counting'
    BY <1>15, SizeAssumption, NullAssumption, DevicesAssumption DEF Inv, TypeOK,
    Holding, Outcome, Counting, BeforeLocks, UnderLocks, WithRaw, AfterLocks,
    Write
<1>16. ASSUME NextChunk
      PROVE  Counting'
    BY <1>16, SizeAssumption, NullAssumption, DevicesAssumption DEF Inv, TypeOK,
    Holding, Outcome, Counting, BeforeLocks, UnderLocks, WithRaw, AfterLocks,
    NextChunk, AfterChunk, GoTo, machine
<1>17. ASSUME Flush
      PROVE  Counting'
    BY <1>17, SizeAssumption, NullAssumption, DevicesAssumption DEF Inv, TypeOK,
    Holding, Outcome, Counting, BeforeLocks, UnderLocks, WithRaw, AfterLocks,
    Flush, GoTo, machine
<1>18. ASSUME UpdateProperties
      PROVE  Counting'
    BY <1>18, SizeAssumption, NullAssumption, DevicesAssumption DEF Inv, TypeOK,
    Holding, Outcome, Counting, BeforeLocks, UnderLocks, WithRaw, AfterLocks,
    UpdateProperties, Return
<1>19. ASSUME CloseRaw
      PROVE  Counting'
    BY <1>19, SizeAssumption, NullAssumption, DevicesAssumption DEF Inv, TypeOK,
    Holding, Outcome, Counting, BeforeLocks, UnderLocks, WithRaw, AfterLocks,
    CloseRaw, machine
<1>20. ASSUME Unlock
      PROVE  Counting'
    BY <1>20, SizeAssumption, NullAssumption, DevicesAssumption DEF Inv, TypeOK,
    Holding, Outcome, Counting, BeforeLocks, UnderLocks, WithRaw, AfterLocks,
    Unlock, machine
<1>21. ASSUME Confirm
      PROVE  Counting'
    BY <1>21, SizeAssumption, NullAssumption, DevicesAssumption DEF Inv, TypeOK,
    Holding, Outcome, Counting, BeforeLocks, UnderLocks, WithRaw, AfterLocks,
    Confirm, GoTo, Raise, AfterError, machine
<1>22. ASSUME Fail
      PROVE  Counting'
    BY <1>22, SizeAssumption, NullAssumption, DevicesAssumption DEF Inv, TypeOK,
    Holding, Outcome, Counting, BeforeLocks, UnderLocks, WithRaw, AfterLocks,
    Fail, Fallible, Raise, AfterError, machine
<1>23. ASSUME NEW n \in Numbers, Unplug(n)
      PROVE  Counting'
    BY <1>23, SizeAssumption, NullAssumption, DevicesAssumption DEF Inv, TypeOK,
    Holding, Outcome, Counting, BeforeLocks, UnderLocks, WithRaw, AfterLocks,
    Unplug, run
<1>24. ASSUME NEW n \in Numbers, Vacate(n)
      PROVE  Counting'
    BY <1>24, SizeAssumption, NullAssumption, DevicesAssumption DEF Inv, TypeOK,
    Holding, Outcome, Counting, BeforeLocks, UnderLocks, WithRaw, AfterLocks,
    Vacate, run
<1>25. ASSUME NEW n \in Numbers, NEW d \in Devices, Plug(n, d)
      PROVE  Counting'
    BY <1>25, SizeAssumption, NullAssumption, DevicesAssumption DEF Inv, TypeOK,
    Holding, Outcome, Counting, BeforeLocks, UnderLocks, WithRaw, AfterLocks,
    Plug, run
<1>26. ASSUME NEW S \in SUBSET Partitions, Repartition(S)
      PROVE  Counting'
    BY <1>26, SizeAssumption, NullAssumption, DevicesAssumption DEF Inv, TypeOK,
    Holding, Outcome, Counting, BeforeLocks, UnderLocks, WithRaw, AfterLocks,
    Repartition, run
<1>27. ASSUME NEW d \in Devices, Protect(d)
      PROVE  Counting'
    BY <1>27, SizeAssumption, NullAssumption, DevicesAssumption DEF Inv, TypeOK,
    Holding, Outcome, Counting, BeforeLocks, UnderLocks, WithRaw, AfterLocks,
    Protect, run, machine
<1>28. ASSUME SetCancel
      PROVE  Counting'
    BY <1>28, SizeAssumption, NullAssumption, DevicesAssumption DEF Inv, TypeOK,
    Holding, Outcome, Counting, BeforeLocks, UnderLocks, WithRaw, AfterLocks,
    SetCancel, run, machine
<1>29. CASE UNCHANGED vars
    BY <1>29 DEF Inv, TypeOK, Holding, Outcome, Counting, BeforeLocks,
    UnderLocks, WithRaw, AfterLocks, vars, machine, run
<1> QED
    BY <1>1, <1>2, <1>3, <1>4, <1>5, <1>6, <1>7, <1>8, <1>9, <1>10, <1>11,
    <1>12, <1>13, <1>14, <1>15, <1>16, <1>17, <1>18, <1>19, <1>20, <1>21, <1>22,
    <1>23, <1>24, <1>25, <1>26, <1>27, <1>28, <1>29 DEF Next, Run, Environment,
    Reports, Discoveries

(* Every step keeps the number pinned. *)
LEMMA PinningStep ==
    ASSUME Inv, [Next]_vars
    PROVE  Pinning'
<1>1. ASSUME Report("called", "discovering")
      PROVE  Pinning'
    BY <1>1, NullAssumption, DevicesAssumption, NumberAssumption DEF Inv,
    TypeOK, Holding, Counting, Pinning, BeforeLocks, UnderLocks, WithRaw,
    AfterLocks, Report, GoTo, machine
<1>2. ASSUME Report("locked", "rediscovering")
      PROVE  Pinning'
    BY <1>2, NullAssumption, DevicesAssumption, NumberAssumption DEF Inv,
    TypeOK, Holding, Counting, Pinning, BeforeLocks, UnderLocks, WithRaw,
    AfterLocks, Report, GoTo, machine
<1>3. ASSUME Report("starting", "polling")
      PROVE  Pinning'
    BY <1>3, NullAssumption, DevicesAssumption, NumberAssumption DEF Inv,
    TypeOK, Holding, Counting, Pinning, BeforeLocks, UnderLocks, WithRaw,
    AfterLocks, Report, GoTo, machine
<1>4. ASSUME Report("flushed", "updating")
      PROVE  Pinning'
    BY <1>4, NullAssumption, DevicesAssumption, NumberAssumption DEF Inv,
    TypeOK, Holding, Counting, Pinning, BeforeLocks, UnderLocks, WithRaw,
    AfterLocks, Report, GoTo, machine
<1>5. ASSUME Discover("discovering", "checking")
      PROVE  Pinning'
    BY <1>5, NullAssumption, DevicesAssumption, NumberAssumption DEF Inv,
    TypeOK, Holding, Counting, Pinning, BeforeLocks, UnderLocks, WithRaw,
    AfterLocks, Discover, Inventory, NotFound, GoTo, machine
<1>6. ASSUME Discover("rediscovering", "rechecking")
      PROVE  Pinning'
    BY <1>6, NullAssumption, DevicesAssumption, NumberAssumption DEF Inv,
    TypeOK, Holding, Counting, Pinning, BeforeLocks, UnderLocks, WithRaw,
    AfterLocks, Discover, Inventory, NotFound, GoTo, machine
<1>7. ASSUME Discover("verifying", "confirming")
      PROVE  Pinning'
    BY <1>7, NullAssumption, DevicesAssumption, NumberAssumption DEF Inv,
    TypeOK, Holding, Counting, Pinning, BeforeLocks, UnderLocks, WithRaw,
    AfterLocks, Discover, Inventory, NotFound, GoTo, machine
<1>8. ASSUME Check
      PROVE  Pinning'
    BY <1>8, NullAssumption, DevicesAssumption, NumberAssumption DEF Inv,
    TypeOK, Holding, Counting, Pinning, BeforeLocks, UnderLocks, WithRaw,
    AfterLocks, Check, Valid, VolumePaths, GoTo, Raise, AfterError, machine
<1>9. ASSUME NEW v \in Lockable, Lock(v)
      PROVE  Pinning'
    BY <1>9, NullAssumption, DevicesAssumption, NumberAssumption DEF Inv,
    TypeOK, Holding, Counting, Pinning, BeforeLocks, UnderLocks, WithRaw,
    AfterLocks, Lock, GoTo, machine
<1>10. ASSUME Locked
      PROVE  Pinning'
    BY <1>10, NullAssumption, DevicesAssumption, NumberAssumption DEF Inv,
    TypeOK, Holding, Counting, Pinning, BeforeLocks, UnderLocks, WithRaw,
    AfterLocks, Locked, GoTo, machine
<1>11. ASSUME Recheck
      PROVE  Pinning'
    BY <1>11, NullAssumption, DevicesAssumption, NumberAssumption DEF Inv,
    TypeOK, Holding, Counting, Pinning, BeforeLocks, UnderLocks, WithRaw,
    AfterLocks, Recheck, Valid, SameLayout, VolumePaths, GoTo, Raise,
    AfterError, machine
<1>12. ASSUME OpenRaw
      PROVE  Pinning'
    BY <1>12, NullAssumption, DevicesAssumption, NumberAssumption DEF Inv,
    TypeOK, Holding, Counting, Pinning, BeforeLocks, UnderLocks, WithRaw,
    AfterLocks, OpenRaw, GoTo, machine
<1>13. ASSUME Probe
      PROVE  Pinning'
    BY <1>13, NullAssumption, DevicesAssumption, NumberAssumption DEF Inv,
    TypeOK, Holding, Counting, Pinning, BeforeLocks, UnderLocks, WithRaw,
    AfterLocks, Probe, GoTo, Raise, AfterError, machine
<1>14. ASSUME Poll
      PROVE  Pinning'
    BY <1>14, NullAssumption, DevicesAssumption, NumberAssumption DEF Inv,
    TypeOK, Holding, Counting, Pinning, BeforeLocks, UnderLocks, WithRaw,
    AfterLocks, Poll, Return, GoTo, machine
<1>15. ASSUME Write
      PROVE  Pinning'
    BY <1>15, NullAssumption, DevicesAssumption, NumberAssumption DEF Inv,
    TypeOK, Holding, Counting, Pinning, BeforeLocks, UnderLocks, WithRaw,
    AfterLocks, Write
<1>16. ASSUME NextChunk
      PROVE  Pinning'
    BY <1>16, NullAssumption, DevicesAssumption, NumberAssumption DEF Inv,
    TypeOK, Holding, Counting, Pinning, BeforeLocks, UnderLocks, WithRaw,
    AfterLocks, NextChunk, AfterChunk, GoTo, machine
<1>17. ASSUME Flush
      PROVE  Pinning'
    BY <1>17, NullAssumption, DevicesAssumption, NumberAssumption DEF Inv,
    TypeOK, Holding, Counting, Pinning, BeforeLocks, UnderLocks, WithRaw,
    AfterLocks, Flush, GoTo, machine
<1>18. ASSUME UpdateProperties
      PROVE  Pinning'
    BY <1>18, NullAssumption, DevicesAssumption, NumberAssumption DEF Inv,
    TypeOK, Holding, Counting, Pinning, BeforeLocks, UnderLocks, WithRaw,
    AfterLocks, UpdateProperties, Return
<1>19. ASSUME CloseRaw
      PROVE  Pinning'
    BY <1>19, NullAssumption, DevicesAssumption, NumberAssumption DEF Inv,
    TypeOK, Holding, Counting, Pinning, BeforeLocks, UnderLocks, WithRaw,
    AfterLocks, CloseRaw, machine
<1>20. ASSUME Unlock
      PROVE  Pinning'
    BY <1>20, NullAssumption, DevicesAssumption, NumberAssumption DEF Inv,
    TypeOK, Holding, Counting, Pinning, BeforeLocks, UnderLocks, WithRaw,
    AfterLocks, Unlock, machine
<1>21. ASSUME Confirm
      PROVE  Pinning'
    BY <1>21, NullAssumption, DevicesAssumption, NumberAssumption DEF Inv,
    TypeOK, Holding, Counting, Pinning, BeforeLocks, UnderLocks, WithRaw,
    AfterLocks, Confirm, GoTo, Raise, AfterError, machine
<1>22. ASSUME Fail
      PROVE  Pinning'
    BY <1>22, NullAssumption, DevicesAssumption, NumberAssumption DEF Inv,
    TypeOK, Holding, Counting, Pinning, BeforeLocks, UnderLocks, WithRaw,
    AfterLocks, Fail, Fallible, Raise, AfterError, machine
<1>23. ASSUME NEW n \in Numbers, Unplug(n)
      PROVE  Pinning'
    BY <1>23, NullAssumption, DevicesAssumption, NumberAssumption DEF Inv,
    TypeOK, Holding, Counting, Pinning, BeforeLocks, UnderLocks, WithRaw,
    AfterLocks, Unplug, run
<1>24. ASSUME NEW n \in Numbers, Vacate(n)
      PROVE  Pinning'
    BY <1>24, NullAssumption, DevicesAssumption, NumberAssumption DEF Inv,
    TypeOK, Holding, Counting, Pinning, BeforeLocks, UnderLocks, WithRaw,
    AfterLocks, Vacate, run
<1>25. ASSUME NEW n \in Numbers, NEW d \in Devices, Plug(n, d)
      PROVE  Pinning'
    BY <1>25, NullAssumption, DevicesAssumption, NumberAssumption DEF Inv,
    TypeOK, Holding, Counting, Pinning, BeforeLocks, UnderLocks, WithRaw,
    AfterLocks, Plug, run
<1>26. ASSUME NEW S \in SUBSET Partitions, Repartition(S)
      PROVE  Pinning'
    BY <1>26, NullAssumption, DevicesAssumption, NumberAssumption DEF Inv,
    TypeOK, Holding, Counting, Pinning, BeforeLocks, UnderLocks, WithRaw,
    AfterLocks, Repartition, run
<1>27. ASSUME NEW d \in Devices, Protect(d)
      PROVE  Pinning'
    BY <1>27, NullAssumption, DevicesAssumption, NumberAssumption DEF Inv,
    TypeOK, Holding, Counting, Pinning, BeforeLocks, UnderLocks, WithRaw,
    AfterLocks, Protect, run, machine
<1>28. ASSUME SetCancel
      PROVE  Pinning'
    BY <1>28, NullAssumption, DevicesAssumption, NumberAssumption DEF Inv,
    TypeOK, Holding, Counting, Pinning, BeforeLocks, UnderLocks, WithRaw,
    AfterLocks, SetCancel, run, machine
<1>29. CASE UNCHANGED vars
    BY <1>29 DEF Inv, TypeOK, Holding, Counting, Pinning, BeforeLocks,
    UnderLocks, WithRaw, AfterLocks, vars, machine, run
<1> QED
    BY <1>1, <1>2, <1>3, <1>4, <1>5, <1>6, <1>7, <1>8, <1>9, <1>10, <1>11,
    <1>12, <1>13, <1>14, <1>15, <1>16, <1>17, <1>18, <1>19, <1>20, <1>21, <1>22,
    <1>23, <1>24, <1>25, <1>26, <1>27, <1>28, <1>29 DEF Next, Run, Environment,
    Reports, Discoveries

-----------------------------------------------------------------------------
(* The inductive invariant holds of the run. *)
THEOREM NativeInvariance == Spec => []Inv
<1>1. Inv /\ [Next]_vars => Inv'
    BY TypeStep, HoldingStep, OutcomeStep, CountingStep, PinningStep DEF Inv
<1> QED
    BY InitInv, <1>1, PTL DEF Spec

(* Every variable of the run and of the machine keeps its type: no chunk is *)
(* written beyond the end of a disk.                                        *)
THEOREM NativeTypeCorrect == Spec => []TypeOK
<1>1. Inv => TypeOK
    BY DEF Inv
<1> QED
    BY NativeInvariance, <1>1, PTL

(* A disk other than the authorised one is overwritten only if it has the   *)
(* same geometry and the run holds no lock.                                 *)
THEOREM StraysOnlyUnlocked == Spec => []WrongDiskOnlyUnlocked
<1>1. Inv => WrongDiskOnlyUnlocked
    BY DEF Inv, Counting, Pinning, WrongDiskOnlyUnlocked
<1> QED
    BY NativeInvariance, <1>1, PTL

(* The raw handle is open only under locks of every lockable volume.        *)
THEOREM LocksCover == Spec => []LocksCoverLayout
<1>1. Inv => LocksCoverLayout
    BY DEF Inv, Holding, LocksCoverLayout
<1> QED
    BY NativeInvariance, <1>1, PTL

(* However the run ends, it has let go of the raw handle and of the locks.  *)
THEOREM NothingLeftOpen == Spec => []NothingStaysOpen
<1>1. Inv => NothingStaysOpen
    BY DEF Inv, Holding, NothingStaysOpen, AfterLocks, WithRaw
<1> QED
    BY NativeInvariance, <1>1, PTL

(* COMPLETE means that the whole of one disk was overwritten, and that the  *)
(* authorised one was seen without partitions afterwards.                   *)
THEOREM NativeCompletionsReal == Spec => []CompletionIsReal
<1>1. Inv => CompletionIsReal
    BY DEF Inv, Counting, Outcome, CompletionIsReal
<1> QED
    BY NativeInvariance, <1>1, PTL

-----------------------------------------------------------------------------
(* A disk protected before the second look: the run can only end without it. *)
Shielded ==
    /\ Target \in protected
    /\ TargetIsUntouched
    /\ \/ pc \in BeforeLocks \cup {"locking", "locked", "rediscovering", "rechecking"}
       \/ pc \in {"unlocking", "returned"} /\ result = "ERROR"

(* No step of a shielded run touches the disk. *)
LEMMA ShieldedStep ==
    ASSUME Inv, Shielded, [Next]_vars
    PROVE  Shielded'
<1>1. ASSUME Report("called", "discovering")
      PROVE  Shielded'
    BY <1>1, DevicesAssumption DEF Inv, TypeOK, Holding, Shielded,
    TargetIsUntouched, BeforeLocks, UnderLocks, WithRaw, AfterLocks, Report,
    GoTo, machine
<1>2. ASSUME Report("locked", "rediscovering")
      PROVE  Shielded'
    BY <1>2, DevicesAssumption DEF Inv, TypeOK, Holding, Shielded,
    TargetIsUntouched, BeforeLocks, UnderLocks, WithRaw, AfterLocks, Report,
    GoTo, machine
<1>3. ASSUME Report("starting", "polling")
      PROVE  Shielded'
    BY <1>3, DevicesAssumption DEF Inv, TypeOK, Holding, Shielded,
    TargetIsUntouched, BeforeLocks, UnderLocks, WithRaw, AfterLocks, Report,
    GoTo, machine
<1>4. ASSUME Report("flushed", "updating")
      PROVE  Shielded'
    BY <1>4, DevicesAssumption DEF Inv, TypeOK, Holding, Shielded,
    TargetIsUntouched, BeforeLocks, UnderLocks, WithRaw, AfterLocks, Report,
    GoTo, machine
<1>5. ASSUME Discover("discovering", "checking")
      PROVE  Shielded'
    BY <1>5, DevicesAssumption DEF Inv, TypeOK, Holding, Shielded,
    TargetIsUntouched, BeforeLocks, UnderLocks, WithRaw, AfterLocks, Discover,
    Inventory, NotFound, GoTo, machine
<1>6. ASSUME Discover("rediscovering", "rechecking")
      PROVE  Shielded'
    BY <1>6, DevicesAssumption DEF Inv, TypeOK, Holding, Shielded,
    TargetIsUntouched, BeforeLocks, UnderLocks, WithRaw, AfterLocks, Discover,
    Inventory, NotFound, GoTo, machine
<1>7. ASSUME Discover("verifying", "confirming")
      PROVE  Shielded'
    BY <1>7, DevicesAssumption DEF Inv, TypeOK, Holding, Shielded,
    TargetIsUntouched, BeforeLocks, UnderLocks, WithRaw, AfterLocks, Discover,
    Inventory, NotFound, GoTo, machine
<1>8. ASSUME Check
      PROVE  Shielded'
    BY <1>8, DevicesAssumption DEF Inv, TypeOK, Holding, Shielded,
    TargetIsUntouched, BeforeLocks, UnderLocks, WithRaw, AfterLocks, Check,
    Valid, VolumePaths, GoTo, Raise, AfterError, machine
<1>9. ASSUME NEW v \in Lockable, Lock(v)
      PROVE  Shielded'
    BY <1>9, DevicesAssumption DEF Inv, TypeOK, Holding, Shielded,
    TargetIsUntouched, BeforeLocks, UnderLocks, WithRaw, AfterLocks, Lock, GoTo,
    machine
<1>10. ASSUME Locked
      PROVE  Shielded'
    BY <1>10, DevicesAssumption DEF Inv, TypeOK, Holding, Shielded,
    TargetIsUntouched, BeforeLocks, UnderLocks, WithRaw, AfterLocks, Locked,
    GoTo, machine
<1>11. ASSUME Recheck
      PROVE  Shielded'
    BY <1>11, DevicesAssumption DEF Inv, TypeOK, Holding, Shielded,
    TargetIsUntouched, BeforeLocks, UnderLocks, WithRaw, AfterLocks, Recheck,
    Valid, SameLayout, VolumePaths, GoTo, Raise, AfterError, machine
<1>12. ASSUME OpenRaw
      PROVE  Shielded'
    BY <1>12, DevicesAssumption DEF Inv, TypeOK, Holding, Shielded,
    TargetIsUntouched, BeforeLocks, UnderLocks, WithRaw, AfterLocks, OpenRaw,
    GoTo, machine
<1>13. ASSUME Probe
      PROVE  Shielded'
    BY <1>13, DevicesAssumption DEF Inv, TypeOK, Holding, Shielded,
    TargetIsUntouched, BeforeLocks, UnderLocks, WithRaw, AfterLocks, Probe,
    GoTo, Raise, AfterError, machine
<1>14. ASSUME Poll
      PROVE  Shielded'
    BY <1>14, DevicesAssumption DEF Inv, TypeOK, Holding, Shielded,
    TargetIsUntouched, BeforeLocks, UnderLocks, WithRaw, AfterLocks, Poll,
    Return, GoTo, machine
<1>15. ASSUME Write
      PROVE  Shielded'
    BY <1>15, DevicesAssumption DEF Inv, TypeOK, Holding, Shielded,
    TargetIsUntouched, BeforeLocks, UnderLocks, WithRaw, AfterLocks, Write
<1>16. ASSUME NextChunk
      PROVE  Shielded'
    BY <1>16, DevicesAssumption DEF Inv, TypeOK, Holding, Shielded,
    TargetIsUntouched, BeforeLocks, UnderLocks, WithRaw, AfterLocks, NextChunk,
    AfterChunk, GoTo, machine
<1>17. ASSUME Flush
      PROVE  Shielded'
    BY <1>17, DevicesAssumption DEF Inv, TypeOK, Holding, Shielded,
    TargetIsUntouched, BeforeLocks, UnderLocks, WithRaw, AfterLocks, Flush,
    GoTo, machine
<1>18. ASSUME UpdateProperties
      PROVE  Shielded'
    BY <1>18, DevicesAssumption DEF Inv, TypeOK, Holding, Shielded,
    TargetIsUntouched, BeforeLocks, UnderLocks, WithRaw, AfterLocks,
    UpdateProperties, Return
<1>19. ASSUME CloseRaw
      PROVE  Shielded'
    BY <1>19, DevicesAssumption DEF Inv, TypeOK, Holding, Shielded,
    TargetIsUntouched, BeforeLocks, UnderLocks, WithRaw, AfterLocks, CloseRaw,
    machine
<1>20. ASSUME Unlock
      PROVE  Shielded'
    BY <1>20, DevicesAssumption DEF Inv, TypeOK, Holding, Shielded,
    TargetIsUntouched, BeforeLocks, UnderLocks, WithRaw, AfterLocks, Unlock,
    machine
<1>21. ASSUME Confirm
      PROVE  Shielded'
    BY <1>21, DevicesAssumption DEF Inv, TypeOK, Holding, Shielded,
    TargetIsUntouched, BeforeLocks, UnderLocks, WithRaw, AfterLocks, Confirm,
    GoTo, Raise, AfterError, machine
<1>22. ASSUME Fail
      PROVE  Shielded'
    BY <1>22, DevicesAssumption DEF Inv, TypeOK, Holding, Shielded,
    TargetIsUntouched, BeforeLocks, UnderLocks, WithRaw, AfterLocks, Fail,
    Fallible, Raise, AfterError, machine
<1>23. ASSUME NEW n \in Numbers, Unplug(n)
      PROVE  Shielded'
    BY <1>23, DevicesAssumption DEF Inv, TypeOK, Holding, Shielded,
    TargetIsUntouched, BeforeLocks, UnderLocks, WithRaw, AfterLocks, Unplug, run
<1>24. ASSUME NEW n \in Numbers, Vacate(n)
      PROVE  Shielded'
    BY <1>24, DevicesAssumption DEF Inv, TypeOK, Holding, Shielded,
    TargetIsUntouched, BeforeLocks, UnderLocks, WithRaw, AfterLocks, Vacate, run
<1>25. ASSUME NEW n \in Numbers, NEW d \in Devices, Plug(n, d)
      PROVE  Shielded'
    BY <1>25, DevicesAssumption DEF Inv, TypeOK, Holding, Shielded,
    TargetIsUntouched, BeforeLocks, UnderLocks, WithRaw, AfterLocks, Plug, run
<1>26. ASSUME NEW S \in SUBSET Partitions, Repartition(S)
      PROVE  Shielded'
    BY <1>26, DevicesAssumption DEF Inv, TypeOK, Holding, Shielded,
    TargetIsUntouched, BeforeLocks, UnderLocks, WithRaw, AfterLocks,
    Repartition, run
<1>27. ASSUME NEW d \in Devices, Protect(d)
      PROVE  Shielded'
    BY <1>27, DevicesAssumption DEF Inv, TypeOK, Holding, Shielded,
    TargetIsUntouched, BeforeLocks, UnderLocks, WithRaw, AfterLocks, Protect,
    run, machine
<1>28. ASSUME SetCancel
      PROVE  Shielded'
    BY <1>28, DevicesAssumption DEF Inv, TypeOK, Holding, Shielded,
    TargetIsUntouched, BeforeLocks, UnderLocks, WithRaw, AfterLocks, SetCancel,
    run, machine
<1>29. CASE UNCHANGED vars
    BY <1>29 DEF Inv, TypeOK, Holding, Shielded, TargetIsUntouched, BeforeLocks,
    UnderLocks, WithRaw, AfterLocks, vars, machine, run
<1> QED
    BY <1>1, <1>2, <1>3, <1>4, <1>5, <1>6, <1>7, <1>8, <1>9, <1>10, <1>11,
    <1>12, <1>13, <1>14, <1>15, <1>16, <1>17, <1>18, <1>19, <1>20, <1>21, <1>22,
    <1>23, <1>24, <1>25, <1>26, <1>27, <1>28, <1>29 DEF Next, Run, Environment,
    Reports, Discoveries

(* A disk that becomes protected while the run has not taken its second     *)
(* look is never overwritten by it.                                         *)
THEOREM ProtectionHolds == Spec => ProtectionIsHonoured
<1>1. Inv /\ ProtectedInTime => Shielded
    BY DEF Inv, TypeOK, Counting, ProtectedInTime, Shielded, TargetIsUntouched,
       BeforeLocks, UnderLocks
<1>2. Inv /\ Shielded /\ [Next]_vars => Shielded'
    BY ShieldedStep
<1>3. Shielded => TargetIsUntouched
    BY DEF Shielded
<1> QED
    BY NativeInvariance, <1>1, <1>2, <1>3, PTL DEF Spec, ProtectionIsHonoured

-----------------------------------------------------------------------------

-----------------------------------------------------------------------------
(* A run begins as the contract says. *)
LEMMA ContractInit == Init => Contract!RunInit
    BY ResultAssumption
       DEF Init, Over, RunStage, RunResult, StageOf, FinishedStatuses, Contract!RunInit

(* Outside of its end, the run is at a stage of the contract. *)
LEMMA StageReached ==
    ASSUME Inv, ~Over
    PROVE  RunStage # "returned"
  BY DEF Inv, TypeOK, Steps, Over, RunStage, StageOf

(* An exception that sets out ends the run of the contract. *)
LEMMA ErrorIsFail ==
    ASSUME Inv, ~Over, result' = "ERROR", UNCHANGED <<wiped, cancelled>>
    PROVE  Contract!RunFail
<1>1. RunStage' = "returned"
    BY DEF RunStage, Over
<1>2. RunResult' = [status |-> "ERROR", bytes |-> Null]
    BY DEF RunResult, Over, BytesReturned
<1> QED
    BY <1>1, <1>2, StageReached DEF Contract!RunFail, Contract!Return, Contract!Simulated

LEMMA RaiseIsFail ==
    ASSUME Inv, ~Over, Raise
    PROVE  Contract!RunFail
  BY ErrorIsFail DEF Raise

(* Every step is one of the contract, or changes nothing of it. *)
LEMMA ContractStep ==
    ASSUME Inv, Inv', [Next]_vars
    PROVE  Contract!RunNext \/ UNCHANGED Contract!runVars
<1>1. ASSUME Report("called", "discovering")
      PROVE  Contract!RunNext \/ UNCHANGED Contract!runVars
  <2>1. RunStage = "called" /\ RunStage' = "prepared"
      BY <1>1, ResultAssumption DEF Report, GoTo, machine, Inv, Outcome, BeforeLocks,
         UnderLocks, AfterLocks, RunStage, StageOf, Over, FinishedStatuses
  <2>2. RunResult' = RunResult
      BY <1>1 DEF Report, GoTo, RunResult, Over, BytesReturned
  <2> QED
      BY <1>1, <2>1, <2>2 DEF Report, GoTo, Contract!RunNext, Contract!RunReport,
         Contract!GoTo, Contract!ReportingStages, Contract!AfterReport
<1>2. ASSUME Report("locked", "rediscovering")
      PROVE  Contract!RunNext \/ UNCHANGED Contract!runVars
    BY <1>2, ResultAssumption DEF Inv, TypeOK, Outcome, Counting, Over,
    RunStage, RunResult, StageOf, BytesReturned, FinishedStatuses, BeforeLocks,
    UnderLocks, WithRaw, AfterLocks, Contract!RunNext, Contract!runVars, Report,
    GoTo, machine, Contract!RunReport, Contract!GoTo, Contract!ReportingStages,
    Contract!AfterReport
<1>3. ASSUME Report("starting", "polling")
      PROVE  Contract!RunNext \/ UNCHANGED Contract!runVars
    BY <1>3, ResultAssumption DEF Inv, TypeOK, Outcome, Counting, Over,
    RunStage, RunResult, StageOf, BytesReturned, FinishedStatuses, BeforeLocks,
    UnderLocks, WithRaw, AfterLocks, Contract!RunNext, Contract!runVars, Report,
    GoTo, machine, Contract!RunReport, Contract!GoTo, Contract!ReportingStages,
    Contract!AfterReport
<1>4. ASSUME Report("flushed", "updating")
      PROVE  Contract!RunNext \/ UNCHANGED Contract!runVars
    BY <1>4, ResultAssumption DEF Inv, TypeOK, Outcome, Counting, Over,
    RunStage, RunResult, StageOf, BytesReturned, FinishedStatuses, BeforeLocks,
    UnderLocks, WithRaw, AfterLocks, Contract!RunNext, Contract!runVars, Report,
    GoTo, machine, Contract!RunReport, Contract!GoTo, Contract!ReportingStages,
    Contract!AfterReport
<1>5. ASSUME Discover("discovering", "checking")
      PROVE  Contract!RunNext \/ UNCHANGED Contract!runVars
    BY <1>5, ResultAssumption DEF Inv, TypeOK, Outcome, Counting, Over,
    RunStage, RunResult, StageOf, BytesReturned, FinishedStatuses, BeforeLocks,
    UnderLocks, WithRaw, AfterLocks, Contract!RunNext, Contract!runVars,
    Discover, Inventory, NotFound, GoTo, machine
<1>6. ASSUME Discover("rediscovering", "rechecking")
      PROVE  Contract!RunNext \/ UNCHANGED Contract!runVars
    BY <1>6, ResultAssumption DEF Inv, TypeOK, Outcome, Counting, Over,
    RunStage, RunResult, StageOf, BytesReturned, FinishedStatuses, BeforeLocks,
    UnderLocks, WithRaw, AfterLocks, Contract!RunNext, Contract!runVars,
    Discover, Inventory, NotFound, GoTo, machine
<1>7. ASSUME Discover("verifying", "confirming")
      PROVE  Contract!RunNext \/ UNCHANGED Contract!runVars
    BY <1>7, ResultAssumption DEF Inv, TypeOK, Outcome, Counting, Over,
    RunStage, RunResult, StageOf, BytesReturned, FinishedStatuses, BeforeLocks,
    UnderLocks, WithRaw, AfterLocks, Contract!RunNext, Contract!runVars,
    Discover, Inventory, NotFound, GoTo, machine
<1>8. ASSUME Check
      PROVE  Contract!RunNext \/ UNCHANGED Contract!runVars
  <2>1. CASE Raise
      BY <2>1, <1>8, RaiseIsFail, ResultAssumption
         DEF Check, Inv, Outcome, Over, FinishedStatuses, UnderLocks, BeforeLocks,
             AfterLocks, Contract!RunNext
  <2>2. CASE Valid /\ LayoutProvable
      BY <1>8, <2>2 DEF Check, GoTo, machine, Over, RunStage, RunResult, StageOf, BytesReturned,
         Contract!runVars
  <2> QED
      BY <1>8, <2>1, <2>2 DEF Check
<1>9. ASSUME NEW v \in Lockable, Lock(v)
      PROVE  Contract!RunNext \/ UNCHANGED Contract!runVars
    BY <1>9, ResultAssumption DEF Inv, TypeOK, Outcome, Counting, Over,
    RunStage, RunResult, StageOf, BytesReturned, FinishedStatuses, BeforeLocks,
    UnderLocks, WithRaw, AfterLocks, Contract!RunNext, Contract!runVars, Lock,
    GoTo, machine
<1>10. ASSUME Locked
      PROVE  Contract!RunNext \/ UNCHANGED Contract!runVars
    BY <1>10, ResultAssumption DEF Inv, TypeOK, Outcome, Counting, Over,
    RunStage, RunResult, StageOf, BytesReturned, FinishedStatuses, BeforeLocks,
    UnderLocks, WithRaw, AfterLocks, Contract!RunNext, Contract!runVars, Locked,
    GoTo, machine
<1>11. ASSUME Recheck
      PROVE  Contract!RunNext \/ UNCHANGED Contract!runVars
  <2>1. CASE Raise
      BY <2>1, <1>11, RaiseIsFail, ResultAssumption
         DEF Recheck, Inv, Outcome, Over, FinishedStatuses, UnderLocks, BeforeLocks,
             AfterLocks, Contract!RunNext
  <2>2. CASE Valid /\ SameLayout
      BY <1>11, <2>2 DEF Recheck, GoTo, machine, Over, RunStage, RunResult, StageOf, BytesReturned,
         Contract!runVars
  <2> QED
      BY <1>11, <2>1, <2>2 DEF Recheck
<1>12. ASSUME OpenRaw
      PROVE  Contract!RunNext \/ UNCHANGED Contract!runVars
    BY <1>12, ResultAssumption DEF Inv, TypeOK, Outcome, Counting, Over,
    RunStage, RunResult, StageOf, BytesReturned, FinishedStatuses, BeforeLocks,
    UnderLocks, WithRaw, AfterLocks, Contract!RunNext, Contract!runVars,
    OpenRaw, GoTo, machine
<1>13. ASSUME Probe
      PROVE  Contract!RunNext \/ UNCHANGED Contract!runVars
  <2>1. CASE Raise
      BY <2>1, <1>13, RaiseIsFail, ResultAssumption
         DEF Probe, Inv, Outcome, Over, FinishedStatuses, UnderLocks, BeforeLocks,
             AfterLocks, Contract!RunNext
  <2>2. CASE raw \in Twins
      BY <1>13, <2>2 DEF Probe, GoTo, machine, Over, RunStage, RunResult, StageOf, BytesReturned,
         Contract!runVars
  <2> QED
      BY <1>13, <2>1, <2>2 DEF Probe
<1>14. ASSUME Poll
      PROVE  Contract!RunNext \/ UNCHANGED Contract!runVars
    BY <1>14, ResultAssumption DEF Inv, TypeOK, Outcome, Counting, Over,
    RunStage, RunResult, StageOf, BytesReturned, FinishedStatuses, BeforeLocks,
    UnderLocks, WithRaw, AfterLocks, Contract!RunNext, Contract!runVars, Poll,
    Return, GoTo, machine, Contract!RunPoll, Contract!GoTo, Contract!Return
<1>15. ASSUME Write
      PROVE  Contract!RunNext \/ UNCHANGED Contract!runVars
    BY <1>15, ResultAssumption DEF Inv, TypeOK, Outcome, Counting, Over,
    RunStage, RunResult, StageOf, BytesReturned, FinishedStatuses, BeforeLocks,
    UnderLocks, WithRaw, AfterLocks, Contract!RunNext, Contract!runVars, Write,
    Contract!RunWrite
<1>16. ASSUME NextChunk
      PROVE  Contract!RunNext \/ UNCHANGED Contract!runVars
  <2>1. RunStage = "written" /\ ~Over /\ ~Over'
      BY <1>16, ResultAssumption DEF NextChunk, GoTo, AfterChunk, Inv, Outcome,
         RunStage, StageOf, Over, FinishedStatuses, AfterLocks
  <2>2. RunStage' = AfterChunk("native", wiped)
      BY <1>16, <2>1 DEF NextChunk, GoTo, AfterChunk, RunStage, StageOf
  <2>3. RunResult' = RunResult /\ UNCHANGED <<wiped, cancelled>>
      BY <1>16, <2>1 DEF NextChunk, GoTo, RunResult
  <2> QED
      BY <2>1, <2>2, <2>3 DEF Contract!RunNext, Contract!RunReport, Contract!GoTo,
         Contract!ReportingStages, Contract!AfterReport, Contract!AfterChunk, AfterChunk
<1>17. ASSUME Flush
      PROVE  Contract!RunNext \/ UNCHANGED Contract!runVars
    BY <1>17, ResultAssumption DEF Inv, TypeOK, Outcome, Counting, Over,
    RunStage, RunResult, StageOf, BytesReturned, FinishedStatuses, BeforeLocks,
    UnderLocks, WithRaw, AfterLocks, Contract!RunNext, Contract!runVars, Flush,
    GoTo, machine
<1>18. ASSUME UpdateProperties
      PROVE  Contract!RunNext \/ UNCHANGED Contract!runVars
    BY <1>18, ResultAssumption DEF Inv, TypeOK, Outcome, Counting, Over,
    RunStage, RunResult, StageOf, BytesReturned, FinishedStatuses, BeforeLocks,
    UnderLocks, WithRaw, AfterLocks, Contract!RunNext, Contract!runVars,
    UpdateProperties, Return
<1>19. ASSUME CloseRaw
      PROVE  Contract!RunNext \/ UNCHANGED Contract!runVars
  <2>0. result \in FinishedStatuses /\ UNCHANGED <<wiped, cancelled>>
      BY <1>19, ResultAssumption DEF CloseRaw, Inv, TypeOK, Outcome, machine
  <2>1. CASE result = "ERROR"
      BY <1>19, <2>0, <2>1 DEF CloseRaw, Over, RunStage, RunResult, StageOf, BytesReturned,
         Contract!runVars
  <2>2. CASE result # "ERROR" /\ result' = "ERROR"
    <3>1. ~Over
        BY <1>19, <2>2 DEF CloseRaw, Over
    <3> QED
        BY <2>0, <2>2, <3>1, ErrorIsFail DEF Contract!RunNext
  <2>3. CASE result = "COMPLETE" /\ result' = result
      BY <1>19, <2>0, <2>3 DEF CloseRaw, Over, RunStage, RunResult, StageOf, BytesReturned,
         Contract!runVars
  <2>4. CASE result = "CANCELLED_INCOMPLETE" /\ result' = result
    <3>1. RunStage = "polling" /\ ~Over /\ cancelled
        BY <1>19, <2>4 DEF CloseRaw, RunStage, StageOf, Over, Inv, Outcome
    <3>2. CASE pc' = "returned"
        BY <2>0, <2>4, <3>1, <3>2 DEF Over, RunStage, RunResult, StageOf, BytesReturned,
           Contract!RunNext, Contract!RunPoll, Contract!Return
    <3>3. CASE pc' = "unlocking"
        BY <2>0, <2>4, <3>1, <3>3 DEF Over, RunStage, RunResult, StageOf, BytesReturned,
           Contract!runVars
    <3> QED
        BY <1>19, <2>4, <3>2, <3>3 DEF CloseRaw
  <2> QED
      BY <1>19, <2>0, <2>1, <2>2, <2>3, <2>4 DEF CloseRaw, FinishedStatuses
<1>20. ASSUME Unlock
      PROVE  Contract!RunNext \/ UNCHANGED Contract!runVars
  <2>0. result \in FinishedStatuses /\ UNCHANGED <<wiped, cancelled>>
      BY <1>20, ResultAssumption DEF Unlock, Inv, TypeOK, Outcome, machine
  <2>1. CASE result = "ERROR"
      BY <1>20, <2>0, <2>1 DEF Unlock, Over, RunStage, RunResult, StageOf, BytesReturned,
         Contract!runVars
  <2>2. CASE result # "ERROR" /\ result' = "ERROR"
    <3>1. ~Over
        BY <1>20, <2>2 DEF Unlock, Over
    <3> QED
        BY <2>0, <2>2, <3>1, ErrorIsFail DEF Contract!RunNext
  <2>3. CASE result = "COMPLETE" /\ result' = result
      BY <1>20, <2>0, <2>3 DEF Unlock, Over, RunStage, RunResult, StageOf, BytesReturned,
         Contract!runVars
  <2>4. CASE result = "CANCELLED_INCOMPLETE" /\ result' = result
    <3>1. RunStage = "polling" /\ ~Over /\ cancelled
        BY <1>20, <2>4 DEF Unlock, RunStage, StageOf, Over, Inv, Outcome
    <3>2. CASE pc' = "returned"
        BY <2>0, <2>4, <3>1, <3>2 DEF Over, RunStage, RunResult, StageOf, BytesReturned,
           Contract!RunNext, Contract!RunPoll, Contract!Return
    <3>3. CASE pc' = "unlocking"
        BY <2>0, <2>4, <3>1, <3>3 DEF Over, RunStage, RunResult, StageOf, BytesReturned,
           Contract!runVars
    <3> QED
        BY <1>20, <2>4, <3>2, <3>3 DEF Unlock
  <2> QED
      BY <1>20, <2>0, <2>1, <2>2, <2>3, <2>4 DEF Unlock, FinishedStatuses
<1>21. ASSUME Confirm
      PROVE  Contract!RunNext \/ UNCHANGED Contract!runVars
  <2>0. result = "COMPLETE" /\ ~Over
      BY <1>21 DEF Confirm, Inv, Outcome, Over
  <2>1. CASE Raise
      BY <2>0, <2>1, RaiseIsFail DEF Contract!RunNext
  <2>2. CASE ~Raise
      BY <1>21, <2>0, <2>2 DEF Confirm, GoTo, Over, RunStage, RunResult, StageOf, BytesReturned,
         Contract!RunNext, Contract!RunComplete, Contract!Return
  <2> QED
      BY <2>1, <2>2
<1>22. ASSUME Fail
      PROVE  Contract!RunNext \/ UNCHANGED Contract!runVars
  <2>1. ~Over
      BY <1>22, ResultAssumption DEF Fail, Fallible, Inv, Outcome, Over, AfterLocks,
         FinishedStatuses
  <2> QED
      BY <1>22, <2>1, RaiseIsFail DEF Fail, Contract!RunNext
<1>23. ASSUME NEW n \in Numbers, Unplug(n)
      PROVE  Contract!RunNext \/ UNCHANGED Contract!runVars
    BY <1>23, ResultAssumption DEF Inv, TypeOK, Outcome, Counting, Over,
    RunStage, RunResult, StageOf, BytesReturned, FinishedStatuses, BeforeLocks,
    UnderLocks, WithRaw, AfterLocks, Contract!RunNext, Contract!runVars, Unplug,
    run
<1>24. ASSUME NEW n \in Numbers, Vacate(n)
      PROVE  Contract!RunNext \/ UNCHANGED Contract!runVars
    BY <1>24, ResultAssumption DEF Inv, TypeOK, Outcome, Counting, Over,
    RunStage, RunResult, StageOf, BytesReturned, FinishedStatuses, BeforeLocks,
    UnderLocks, WithRaw, AfterLocks, Contract!RunNext, Contract!runVars, Vacate,
    run
<1>25. ASSUME NEW n \in Numbers, NEW d \in Devices, Plug(n, d)
      PROVE  Contract!RunNext \/ UNCHANGED Contract!runVars
    BY <1>25, ResultAssumption DEF Inv, TypeOK, Outcome, Counting, Over,
    RunStage, RunResult, StageOf, BytesReturned, FinishedStatuses, BeforeLocks,
    UnderLocks, WithRaw, AfterLocks, Contract!RunNext, Contract!runVars, Plug,
    run
<1>26. ASSUME NEW S \in SUBSET Partitions, Repartition(S)
      PROVE  Contract!RunNext \/ UNCHANGED Contract!runVars
    BY <1>26, ResultAssumption DEF Inv, TypeOK, Outcome, Counting, Over,
    RunStage, RunResult, StageOf, BytesReturned, FinishedStatuses, BeforeLocks,
    UnderLocks, WithRaw, AfterLocks, Contract!RunNext, Contract!runVars,
    Repartition, run
<1>27. ASSUME NEW d \in Devices, Protect(d)
      PROVE  Contract!RunNext \/ UNCHANGED Contract!runVars
    BY <1>27, ResultAssumption DEF Inv, TypeOK, Outcome, Counting, Over,
    RunStage, RunResult, StageOf, BytesReturned, FinishedStatuses, BeforeLocks,
    UnderLocks, WithRaw, AfterLocks, Contract!RunNext, Contract!runVars,
    Protect, run, machine
<1>28. ASSUME SetCancel
      PROVE  Contract!RunNext \/ UNCHANGED Contract!runVars
    BY <1>28, ResultAssumption DEF Inv, TypeOK, Outcome, Counting, Over,
    RunStage, RunResult, StageOf, BytesReturned, FinishedStatuses, BeforeLocks,
    UnderLocks, WithRaw, AfterLocks, Contract!RunNext, Contract!runVars,
    SetCancel, run, machine, Contract!SetCancel
<1>29. CASE UNCHANGED vars
    BY <1>29 DEF Inv, TypeOK, Outcome, Counting, Over, RunStage, RunResult,
    StageOf, BytesReturned, FinishedStatuses, BeforeLocks, UnderLocks, WithRaw,
    AfterLocks, Contract!RunNext, Contract!runVars, vars, machine, run
<1> QED
    BY <1>1, <1>2, <1>3, <1>4, <1>5, <1>6, <1>7, <1>8, <1>9, <1>10, <1>11,
    <1>12, <1>13, <1>14, <1>15, <1>16, <1>17, <1>18, <1>19, <1>20, <1>21, <1>22,
    <1>23, <1>24, <1>25, <1>26, <1>27, <1>28, <1>29 DEF Next, Run, Environment,
    Reports, Discoveries

(* The native backend is one the job manager expects: every run of it is a  *)
(* run of BackendRun.                                                       *)
THEOREM ImplementsBackendRun == Spec => RunSpec
<1>1. Inv /\ Inv' /\ [Next]_vars => [Contract!RunNext]_(Contract!runVars)
    BY ContractStep
<1> QED
    BY NativeInvariance, ContractInit, <1>1, PTL DEF Spec, RunSpec, Contract!RunSpec

-----------------------------------------------------------------------------
(* How far each step of the run is from its end; a chunk takes three steps, *)
(* from "polling" over "writing" to "written" and back.                     *)
Rank(s) ==
    CASE s = "called" -> 21 [] s = "discovering" -> 20 [] s = "checking" -> 19
      [] s = "locking" -> 18 [] s = "locked" -> 17 [] s = "rediscovering" -> 16
      [] s = "rechecking" -> 15 [] s = "opening" -> 14 [] s = "probing" -> 13
      [] s = "starting" -> 12 [] s = "written" -> 11 [] s = "polling" -> 10
      [] s = "writing" -> 9 [] s = "flushing" -> 7 [] s = "flushed" -> 6
      [] s = "updating" -> 5 [] s = "closing" -> 4 [] s = "unlocking" -> 3
      [] s = "verifying" -> 2 [] s = "confirming" -> 1 [] s = "returned" -> 0

(* An upper bound of the steps the run has left, the locks not counted.     *)
Left == 3 * (Size - wiped) + Rank(pc)

(* One more volume of the first discovery is locked. *)
OneMoreLock ==
    /\ paths' = paths
    /\ handles \subseteq handles' /\ handles' # handles
    /\ handles' \subseteq paths

(* Every step of the run brings its end closer, or locks a volume it has    *)
(* not locked yet; nothing the machine or the window does puts it off.      *)
RunsDown ==
    [][/\ Left \in 0 .. 3 * Size + 21
       /\ Run => Left' < Left \/ (Left' = Left /\ OneMoreLock)
       /\ Environment => Left' = Left]_vars

LEMMA LeftBounded ==
    ASSUME TypeOK
    PROVE  Left \in 0 .. 3 * Size + 21
<1>1. Size \in Nat /\ wiped \in 0 .. Size /\ Rank(pc) \in 0 .. 21
    BY SizeAssumption DEF TypeOK, Steps, Rank
<1> QED
    BY <1>1 DEF Left

(* An exception leaves by the with statements, each of which is nearer to   *)
(* the end than the steps that may raise it.                                *)
LEMMA RaiseDescends ==
    ASSUME TypeOK, Holding, Raise,
           pc \in Fallible \cup {"rechecking", "confirming"}
    PROVE  Rank(pc') < Rank(pc) /\ wiped' = wiped
<1>1. wiped' = wiped /\ pc' = AfterError
    BY DEF Raise
<1>2. CASE pc \in {"verifying", "confirming"}
  <2>1. AfterError = "returned"
    BY <1>2 DEF AfterError, Holding, WithRaw, AfterLocks
  <2> QED
    BY <1>1, <1>2, <2>1 DEF Rank
<1>3. CASE pc \notin {"verifying", "confirming"}
  <2>1. Rank(pc) \in 5 .. 21
    BY <1>3 DEF Fallible, Rank
  <2>2. Rank(AfterError) \in 0 .. 4
    BY DEF AfterError, Rank
  <2> QED
    BY <1>1, <2>1, <2>2
<1> QED
    BY <1>2, <1>3

(* The steps that write nothing go down the ranks, except from a chunk to   *)
(* the next one, which is written after it, and from a lock to the next.    *)
LEMMA RunDescends ==
    ASSUME TypeOK, Holding, Run
    PROVE  \/ Rank(pc') < Rank(pc) /\ wiped' = wiped
           \/ Rank(pc') = Rank(pc) + 2 /\ wiped' = wiped + 1
           \/ pc' = pc /\ wiped' = wiped /\ OneMoreLock
<1>1. CASE Reports
  <2>1. CASE Report("called", "discovering")
      BY <2>1 DEF Report, GoTo, Rank
  <2>2. CASE Report("locked", "rediscovering")
      BY <2>2 DEF Report, GoTo, Rank
  <2>3. CASE Report("starting", "polling")
      BY <2>3 DEF Report, GoTo, Rank
  <2>4. CASE Report("flushed", "updating")
      BY <2>4 DEF Report, GoTo, Rank
  <2> QED
      BY <1>1, <2>1, <2>2, <2>3, <2>4 DEF Reports
<1>2. CASE Discoveries
  <2>1. CASE Discover("discovering", "checking")
      BY <2>1 DEF Discover, GoTo, Rank
  <2>2. CASE Discover("rediscovering", "rechecking")
      BY <2>2 DEF Discover, GoTo, Rank
  <2>3. CASE Discover("verifying", "confirming")
      BY <2>3 DEF Discover, GoTo, Rank
  <2> QED
      BY <1>2, <2>1, <2>2, <2>3 DEF Discoveries
<1>3. CASE Check
  <2>1. CASE Raise
      BY <1>3, <2>1, RaiseDescends DEF Check, Fallible
  <2>2. CASE ~Raise
      BY <1>3, <2>2 DEF Check, GoTo, Rank
  <2> QED
      BY <2>1, <2>2
<1>4. ASSUME NEW v \in Lockable, Lock(v)
      PROVE  pc' = pc /\ wiped' = wiped /\ OneMoreLock
  <2>1. pc = "locking" /\ handles \subseteq paths
    BY <1>4 DEF Lock, Holding
  <2> QED
    BY <1>4, <2>1 DEF Lock, GoTo, OneMoreLock
<1>5. CASE Locked
    BY <1>5 DEF Locked, GoTo, Rank
<1>6. CASE Recheck
  <2>1. CASE Raise
      BY <1>6, <2>1, RaiseDescends DEF Recheck
  <2>2. CASE ~Raise
      BY <1>6, <2>2 DEF Recheck, GoTo, Rank
  <2> QED
      BY <2>1, <2>2
<1>7. CASE OpenRaw
    BY <1>7 DEF OpenRaw, GoTo, Rank
<1>8. CASE Probe
  <2>1. CASE Raise
      BY <1>8, <2>1, RaiseDescends DEF Probe, Fallible
  <2>2. CASE ~Raise
      BY <1>8, <2>2 DEF Probe, GoTo, Rank
  <2> QED
      BY <2>1, <2>2
<1>9. CASE Poll
    BY <1>9 DEF Poll, Return, GoTo, Rank
<1>10. CASE Write
    BY <1>10 DEF Write, Rank
<1>11. CASE NextChunk
    BY <1>11 DEF NextChunk, AfterChunk, GoTo, Rank
<1>12. CASE Flush
    BY <1>12 DEF Flush, GoTo, Rank
<1>13. CASE UpdateProperties
    BY <1>13 DEF UpdateProperties, Return, Rank
<1>14. CASE CloseRaw
    BY <1>14 DEF CloseRaw, Rank
<1>15. CASE Unlock
    BY <1>15 DEF Unlock, Rank
<1>16. CASE Confirm
  <2>1. CASE Raise
      BY <1>16, <2>1, RaiseDescends DEF Confirm
  <2>2. CASE ~Raise
      BY <1>16, <2>2 DEF Confirm, GoTo, Rank
  <2> QED
      BY <2>1, <2>2
<1>17. CASE Fail
    BY <1>17, RaiseDescends DEF Fail
<1> QED
    BY <1>1, <1>2, <1>3, <1>4, <1>5, <1>6, <1>7, <1>8, <1>9, <1>10, <1>11, <1>12,
       <1>13, <1>14, <1>15, <1>16, <1>17 DEF Run

(* A native run takes at most 3 * Size + 21 steps besides one lock for each *)
(* volume of the disk, whatever is unplugged, renumbered, partitioned or    *)
(* protected meanwhile: no retry, no waiting, no way back in the with       *)
(* statements.                                                              *)
THEOREM NativeRunsDown == Spec => RunsDown
<1>1. ASSUME Inv, Inv', [Next]_vars
      PROVE  [/\ Left \in 0 .. 3 * Size + 21
              /\ Run => Left' < Left \/ (Left' = Left /\ OneMoreLock)
              /\ Environment => Left' = Left]_vars
  <2>1. TypeOK /\ Holding
    BY <1>1 DEF Inv
  <2>2. /\ Size \in Nat /\ wiped \in 0 .. Size /\ wiped' \in 0 .. Size
        /\ Rank(pc) \in 0 .. 21 /\ Rank(pc') \in 0 .. 21
    BY <1>1, SizeAssumption DEF Inv, TypeOK, Steps, Rank
  <2>3. Run => Left' < Left \/ (Left' = Left /\ OneMoreLock)
    <3>1. ASSUME pc' = pc, wiped' = wiped PROVE Left' = Left
      BY <3>1 DEF Left
    <3>2. ASSUME Rank(pc') < Rank(pc), wiped' = wiped PROVE Left' < Left
      BY <2>2, <3>2 DEF Left
    <3>3. ASSUME Rank(pc') = Rank(pc) + 2, wiped' = wiped + 1 PROVE Left' < Left
      BY <2>2, <3>3 DEF Left
    <3> QED
      BY <2>1, <3>1, <3>2, <3>3, RunDescends
  <2>4. Environment => Left' = Left
    <3>1. Environment => pc' = pc /\ wiped' = wiped
      BY DEF Environment, Unplug, Vacate, Plug, Repartition, Protect, SetCancel, run
    <3> QED
      BY <3>1 DEF Left
  <2> QED
    BY <2>1, <2>3, <2>4, LeftBounded
<1> QED
    BY <1>1, NativeInvariance, PTL DEF Spec, RunsDown

(* Where no other disk has the size and the sector sizes of the authorised  *)
(* one, no other disk is ever overwritten, whatever is renumbered and when: *)
(* two disks of one model are what it takes for the run of NativeWipe that  *)
(* overwrites the wrong one.                                                *)
THEOREM OnlyTargetWithoutTwins ==
    ASSUME Twins = {Target}
    PROVE  Spec => []OnlyTargetIsWritten
<1>1. Inv => OnlyTargetIsWritten
  <2> SUFFICES ASSUME Inv, NEW d \in Devices \ {Target}
               PROVE  zeroed[d] = 0
    BY DEF OnlyTargetIsWritten
  <2>1. zeroed[d] \in 0 .. Size /\ Size \in Nat
    BY SizeAssumption DEF Inv, TypeOK
  <2>2. ~(zeroed[d] > 0)
    BY DEF Inv, Counting
  <2> QED
    BY <2>1, <2>2
<1> QED
    BY <1>1, NativeInvariance, PTL
=============================================================================
