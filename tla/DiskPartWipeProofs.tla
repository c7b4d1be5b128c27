------------------------- MODULE DiskPartWipeProofs -------------------------
(***************************************************************************)
(* Proofs about DiskPartWipe, for any number of disks and disk numbers and *)
(* a disk of any size.                                                     *)
(***************************************************************************)
EXTENDS DiskPartWipe, TLAPS

Looking == {"called", "discovering", "checking"}
Chosen == {"scripting", "announcing", "launching", "selecting"}

(* What is on its way out of run(). *)
Outcome ==
    /\ result # Null <=> pc \in {"unlinking", "returned"}
    /\ result = "COMPLETE" =>
           wiped = Size /\ seen = [device |-> Target, partitioned |-> FALSE]

(* As long as the number does not change hands, it denotes what was seen. *)
Pointing ==
    /\ pc = "checking" /\ ~moved /\ seen.device = Target => at[Number] = Target
    /\ pc \in Chosen /\ ~moved => at[Number] = Target
    /\ chosen \in Devices \ {Target} => moved

(* What has been overwritten is what diskpart.exe has selected. *)
Writing ==
    /\ pc \in Looking \cup Chosen =>
           /\ chosen = Null /\ wiped = 0
           /\ \A d \in Devices : zeroed[d] = 0
    /\ chosen \in Devices => zeroed[chosen] = wiped
    /\ \E d \in Devices : zeroed[d] = wiped /\ (~moved => d = Target)
    /\ \A d \in Devices \ {Target} : zeroed[d] > 0 => moved
    /\ code = "ok" => wiped = Size
    /\ pc \in Looking \cup Chosen \cup {"cleaning"} => code = Null
    /\ pc \in {"verifying", "confirming"} => code = "ok"

Inv == TypeOK /\ Outcome /\ Pointing /\ Writing

-----------------------------------------------------------------------------

(* Initially. *)
LEMMA InitInv == Init => Inv
<1> SUFFICES ASSUME Init PROVE Inv
    OBVIOUS
<1>1. TypeOK
  <2>1. at \in [Numbers -> Devices \cup {Null}]
      BY DEF Init
  <2>2. zeroed \in [Devices -> 0 .. Size] /\ wiped \in 0 .. Size
      BY SizeAssumption DEF Init
  <2> QED
      BY <2>1, <2>2 DEF Init, TypeOK, Steps, NotFound
<1>2. Outcome /\ Pointing
    BY DevicesAssumption, ResultAssumption
       DEF Init, Outcome, Pointing, NotFound, Chosen, FinishedStatuses
<1>3. Writing
  <2>1. Target \in Devices /\ zeroed[Target] = wiped /\ (~moved => Target = Target)
      BY DevicesAssumption DEF Init
  <2>2. \E d \in Devices : zeroed[d] = wiped /\ (~moved => d = Target)
      BY <2>1
  <2>3. pc = "called" /\ chosen = Null /\ code = Null /\ wiped = 0
      BY DEF Init
  <2>4. \A d \in Devices : zeroed[d] = 0
      BY DEF Init
  <2> QED
      BY <2>2, <2>3, <2>4, ResultAssumption, DevicesAssumption DEF Writing, Looking,
         Chosen
<1> QED
    BY <1>1, <1>2, <1>3 DEF Inv


(* Every step keeps the types. *)
LEMMA TypeStep ==
    ASSUME Inv, [Next]_vars
    PROVE  TypeOK'
<1>1. ASSUME Report("called", "discovering")
      PROVE  TypeOK'
    BY <1>1, SizeAssumption, DevicesAssumption, NumberAssumption DEF Inv,
       TypeOK, Writing, Steps, FinishedStatuses, Report, GoTo, machine, child
<1>2. ASSUME Report("announcing", "launching")
      PROVE  TypeOK'
    BY <1>2, SizeAssumption, DevicesAssumption, NumberAssumption DEF Inv,
       TypeOK, Writing, Steps, FinishedStatuses, Report, GoTo, machine, child
<1>3. ASSUME Discover("discovering", "checking")
      PROVE  TypeOK'
    BY <1>3, SizeAssumption, DevicesAssumption, NumberAssumption DEF Inv,
       TypeOK, Writing, Steps, FinishedStatuses, Discover, Inventory, NotFound,
       GoTo, machine, child
<1>4. ASSUME Discover("verifying", "confirming")
      PROVE  TypeOK'
    BY <1>4, SizeAssumption, DevicesAssumption, NumberAssumption DEF Inv,
       TypeOK, Writing, Steps, FinishedStatuses, Discover, Inventory, NotFound,
       GoTo, machine, child
<1>5. ASSUME Check
      PROVE  TypeOK'
    BY <1>5, SizeAssumption, DevicesAssumption, NumberAssumption DEF Inv,
       TypeOK, Writing, Steps, FinishedStatuses, Check, Valid, GoTo, Leave,
       machine, child
<1>6. ASSUME WriteScript
      PROVE  TypeOK'
    BY <1>6, SizeAssumption, DevicesAssumption, NumberAssumption DEF Inv,
       TypeOK, Writing, Steps, FinishedStatuses, WriteScript, GoTo, machine,
       child
<1>7. ASSUME WriteScriptFails
      PROVE  TypeOK'
    BY <1>7, SizeAssumption, DevicesAssumption, NumberAssumption DEF Inv,
       TypeOK, Writing, Steps, FinishedStatuses, WriteScriptFails, machine,
       child
<1>8. ASSUME Launch
      PROVE  TypeOK'
    BY <1>8, SizeAssumption, DevicesAssumption, NumberAssumption DEF Inv,
       TypeOK, Writing, Steps, FinishedStatuses, Launch, GoTo, machine, child
<1>9. ASSUME AcceptExit
      PROVE  TypeOK'
    BY <1>9, SizeAssumption, DevicesAssumption, NumberAssumption DEF Inv,
       TypeOK, Writing, Steps, FinishedStatuses, AcceptExit, GoTo, Leave,
       machine, child
<1>10. ASSUME Confirm
      PROVE  TypeOK'
    BY <1>10, SizeAssumption, DevicesAssumption, NumberAssumption DEF Inv,
       TypeOK, Writing, Steps, FinishedStatuses, Confirm, Leave, machine, child
<1>11. ASSUME Unlink
      PROVE  TypeOK'
    BY <1>11, SizeAssumption, DevicesAssumption, NumberAssumption DEF Inv,
       TypeOK, Writing, Steps, FinishedStatuses, Unlink, GoTo, machine, child
<1>12. ASSUME Fail
      PROVE  TypeOK'
    BY <1>12, SizeAssumption, DevicesAssumption, NumberAssumption DEF Inv,
       TypeOK, Writing, Steps, FinishedStatuses, Fail, Fallible, Leave, machine,
       child
<1>13. ASSUME Select
      PROVE  TypeOK'
    BY <1>13, SizeAssumption, DevicesAssumption, NumberAssumption DEF Inv,
       TypeOK, Writing, Steps, FinishedStatuses, Select, GoTo, machine
<1>14. ASSUME Clean
      PROVE  TypeOK'
    BY <1>14, SizeAssumption, DevicesAssumption, NumberAssumption DEF Inv,
       TypeOK, Writing, Steps, FinishedStatuses, Clean
<1>15. ASSUME ExitOk
      PROVE  TypeOK'
    BY <1>15, SizeAssumption, DevicesAssumption, NumberAssumption DEF Inv,
       TypeOK, Writing, Steps, FinishedStatuses, ExitOk, Exits, GoTo, machine
<1>16. ASSUME ExitFailed
      PROVE  TypeOK'
    BY <1>16, SizeAssumption, DevicesAssumption, NumberAssumption DEF Inv,
       TypeOK, Writing, Steps, FinishedStatuses, ExitFailed, Exits, GoTo,
       machine
<1>17. ASSUME NEW n \in Numbers, Unplug(n)
      PROVE  TypeOK'
    BY <1>17, SizeAssumption, DevicesAssumption, NumberAssumption DEF Inv,
       TypeOK, Writing, Steps, FinishedStatuses, Unplug, Moved, Exposed
<1>18. ASSUME NEW n \in Numbers, NEW d \in Devices, Plug(n, d)
      PROVE  TypeOK'
    BY <1>18, SizeAssumption, DevicesAssumption, NumberAssumption DEF Inv,
       TypeOK, Writing, Steps, FinishedStatuses, Plug, Moved, Exposed, child
<1>19. ASSUME Repartition
      PROVE  TypeOK'
    BY <1>19, SizeAssumption, DevicesAssumption, NumberAssumption DEF Inv,
       TypeOK, Writing, Steps, FinishedStatuses, Repartition, child
<1>20. ASSUME NEW d \in Devices, Protect(d)
      PROVE  TypeOK'
    BY <1>20, SizeAssumption, DevicesAssumption, NumberAssumption DEF Inv,
       TypeOK, Writing, Steps, FinishedStatuses, Protect, child
<1>21. CASE UNCHANGED vars
    BY <1>21 DEF Inv, TypeOK, Writing, Steps, FinishedStatuses, vars, machine,
       child
<1> QED
    BY <1>1, <1>2, <1>3, <1>4, <1>5, <1>6, <1>7, <1>8, <1>9, <1>10, <1>11,
       <1>12, <1>13, <1>14, <1>15, <1>16, <1>17, <1>18, <1>19, <1>20, <1>21 DEF
       Next, Run, DiskPart, Environment

(* Every step keeps the outcome as Outcome says. *)
LEMMA OutcomeStep ==
    ASSUME Inv, [Next]_vars
    PROVE  Outcome'
<1>1. ASSUME Report("called", "discovering")
      PROVE  Outcome'
    BY <1>1, ResultAssumption, SizeAssumption DEF Inv, TypeOK, Outcome, Writing,
       FinishedStatuses, Report, GoTo, machine, child
<1>2. ASSUME Report("announcing", "launching")
      PROVE  Outcome'
    BY <1>2, ResultAssumption, SizeAssumption DEF Inv, TypeOK, Outcome, Writing,
       FinishedStatuses, Report, GoTo, machine, child
<1>3. ASSUME Discover("discovering", "checking")
      PROVE  Outcome'
    BY <1>3, ResultAssumption, SizeAssumption DEF Inv, TypeOK, Outcome, Writing,
       FinishedStatuses, Discover, Inventory, NotFound, GoTo, machine, child
<1>4. ASSUME Discover("verifying", "confirming")
      PROVE  Outcome'
    BY <1>4, ResultAssumption, SizeAssumption DEF Inv, TypeOK, Outcome, Writing,
       FinishedStatuses, Discover, Inventory, NotFound, GoTo, machine, child
<1>5. ASSUME Check
      PROVE  Outcome'
    BY <1>5, ResultAssumption, SizeAssumption DEF Inv, TypeOK, Outcome, Writing,
       FinishedStatuses, Check, Valid, GoTo, Leave, machine, child
<1>6. ASSUME WriteScript
      PROVE  Outcome'
    BY <1>6, ResultAssumption, SizeAssumption DEF Inv, TypeOK, Outcome, Writing,
       FinishedStatuses, WriteScript, GoTo, machine, child
<1>7. ASSUME WriteScriptFails
      PROVE  Outcome'
    BY <1>7, ResultAssumption, SizeAssumption DEF Inv, TypeOK, Outcome, Writing,
       FinishedStatuses, WriteScriptFails, machine, child
<1>8. ASSUME Launch
      PROVE  Outcome'
    BY <1>8, ResultAssumption, SizeAssumption DEF Inv, TypeOK, Outcome, Writing,
       FinishedStatuses, Launch, GoTo, machine, child
<1>9. ASSUME AcceptExit
      PROVE  Outcome'
    BY <1>9, ResultAssumption, SizeAssumption DEF Inv, TypeOK, Outcome, Writing,
       FinishedStatuses, AcceptExit, GoTo, Leave, machine, child
<1>10. ASSUME Confirm
      PROVE  Outcome'
    BY <1>10, ResultAssumption, SizeAssumption DEF Inv, TypeOK, Outcome,
       Writing, FinishedStatuses, Confirm, Leave, machine, child
<1>11. ASSUME Unlink
      PROVE  Outcome'
    BY <1>11, ResultAssumption, SizeAssumption DEF Inv, TypeOK, Outcome,
       Writing, FinishedStatuses, Unlink, GoTo, machine, child
<1>12. ASSUME Fail
      PROVE  Outcome'
    BY <1>12, ResultAssumption, SizeAssumption DEF Inv, TypeOK, Outcome,
       Writing, FinishedStatuses, Fail, Fallible, Leave, machine, child
<1>13. ASSUME Select
      PROVE  Outcome'
    BY <1>13, ResultAssumption, SizeAssumption DEF Inv, TypeOK, Outcome,
       Writing, FinishedStatuses, Select, GoTo, machine
<1>14. ASSUME Clean
      PROVE  Outcome'
    BY <1>14, ResultAssumption, SizeAssumption DEF Inv, TypeOK, Outcome,
       Writing, FinishedStatuses, Clean
<1>15. ASSUME ExitOk
      PROVE  Outcome'
    BY <1>15, ResultAssumption, SizeAssumption DEF Inv, TypeOK, Outcome,
       Writing, FinishedStatuses, ExitOk, Exits, GoTo, machine
<1>16. ASSUME ExitFailed
      PROVE  Outcome'
    BY <1>16, ResultAssumption, SizeAssumption DEF Inv, TypeOK, Outcome,
       Writing, FinishedStatuses, ExitFailed, Exits, GoTo, machine
<1>17. ASSUME NEW n \in Numbers, Unplug(n)
      PROVE  Outcome'
    BY <1>17, ResultAssumption, SizeAssumption DEF Inv, TypeOK, Outcome,
       Writing, FinishedStatuses, Unplug, Moved, Exposed
<1>18. ASSUME NEW n \in Numbers, NEW d \in Devices, Plug(n, d)
      PROVE  Outcome'
    BY <1>18, ResultAssumption, SizeAssumption DEF Inv, TypeOK, Outcome,
       Writing, FinishedStatuses, Plug, Moved, Exposed, child
<1>19. ASSUME Repartition
      PROVE  Outcome'
    BY <1>19, ResultAssumption, SizeAssumption DEF Inv, TypeOK, Outcome,
       Writing, FinishedStatuses, Repartition, child
<1>20. ASSUME NEW d \in Devices, Protect(d)
      PROVE  Outcome'
    BY <1>20, ResultAssumption, SizeAssumption DEF Inv, TypeOK, Outcome,
       Writing, FinishedStatuses, Protect, child
<1>21. CASE UNCHANGED vars
    BY <1>21 DEF Inv, TypeOK, Outcome, Writing, FinishedStatuses, vars, machine,
       child
<1> QED
    BY <1>1, <1>2, <1>3, <1>4, <1>5, <1>6, <1>7, <1>8, <1>9, <1>10, <1>11,
       <1>12, <1>13, <1>14, <1>15, <1>16, <1>17, <1>18, <1>19, <1>20, <1>21 DEF
       Next, Run, DiskPart, Environment

(* Every step keeps the number as Pointing says. *)
LEMMA PointingStep ==
    ASSUME Inv, [Next]_vars
    PROVE  Pointing'
<1>1. ASSUME Report("called", "discovering")
      PROVE  Pointing'
    BY <1>1, DevicesAssumption, NumberAssumption DEF Inv, TypeOK, Pointing,
       Writing, Looking, Chosen, Report, GoTo, machine, child
<1>2. ASSUME Report("announcing", "launching")
      PROVE  Pointing'
    BY <1>2, DevicesAssumption, NumberAssumption DEF Inv, TypeOK, Pointing,
       Writing, Looking, Chosen, Report, GoTo, machine, child
<1>3. ASSUME Discover("discovering", "checking")
      PROVE  Pointing'
    BY <1>3, DevicesAssumption, NumberAssumption DEF Inv, TypeOK, Pointing,
       Writing, Looking, Chosen, Discover, Inventory, NotFound, GoTo, machine,
       child
<1>4. ASSUME Discover("verifying", "confirming")
      PROVE  Pointing'
    BY <1>4, DevicesAssumption, NumberAssumption DEF Inv, TypeOK, Pointing,
       Writing, Looking, Chosen, Discover, Inventory, NotFound, GoTo, machine,
       child
<1>5. ASSUME Check
      PROVE  Pointing'
    BY <1>5, DevicesAssumption, NumberAssumption DEF Inv, TypeOK, Pointing,
       Writing, Looking, Chosen, Check, Valid, GoTo, Leave, machine, child
<1>6. ASSUME WriteScript
      PROVE  Pointing'
    BY <1>6, DevicesAssumption, NumberAssumption DEF Inv, TypeOK, Pointing,
       Writing, Looking, Chosen, WriteScript, GoTo, machine, child
<1>7. ASSUME WriteScriptFails
      PROVE  Pointing'
    BY <1>7, DevicesAssumption, NumberAssumption DEF Inv, TypeOK, Pointing,
       Writing, Looking, Chosen, WriteScriptFails, machine, child
<1>8. ASSUME Launch
      PROVE  Pointing'
    BY <1>8, DevicesAssumption, NumberAssumption DEF Inv, TypeOK, Pointing,
       Writing, Looking, Chosen, Launch, GoTo, machine, child
<1>9. ASSUME AcceptExit
      PROVE  Pointing'
    BY <1>9, DevicesAssumption, NumberAssumption DEF Inv, TypeOK, Pointing,
       Writing, Looking, Chosen, AcceptExit, GoTo, Leave, machine, child
<1>10. ASSUME Confirm
      PROVE  Pointing'
    BY <1>10, DevicesAssumption, NumberAssumption DEF Inv, TypeOK, Pointing,
       Writing, Looking, Chosen, Confirm, Leave, machine, child
<1>11. ASSUME Unlink
      PROVE  Pointing'
    BY <1>11, DevicesAssumption, NumberAssumption DEF Inv, TypeOK, Pointing,
       Writing, Looking, Chosen, Unlink, GoTo, machine, child
<1>12. ASSUME Fail
      PROVE  Pointing'
    BY <1>12, DevicesAssumption, NumberAssumption DEF Inv, TypeOK, Pointing,
       Writing, Looking, Chosen, Fail, Fallible, Leave, machine, child
<1>13. ASSUME Select
      PROVE  Pointing'
    BY <1>13, DevicesAssumption, NumberAssumption DEF Inv, TypeOK, Pointing,
       Writing, Looking, Chosen, Select, GoTo, machine
<1>14. ASSUME Clean
      PROVE  Pointing'
    BY <1>14, DevicesAssumption, NumberAssumption DEF Inv, TypeOK, Pointing,
       Writing, Looking, Chosen, Clean
<1>15. ASSUME ExitOk
      PROVE  Pointing'
    BY <1>15, DevicesAssumption, NumberAssumption DEF Inv, TypeOK, Pointing,
       Writing, Looking, Chosen, ExitOk, Exits, GoTo, machine
<1>16. ASSUME ExitFailed
      PROVE  Pointing'
    BY <1>16, DevicesAssumption, NumberAssumption DEF Inv, TypeOK, Pointing,
       Writing, Looking, Chosen, ExitFailed, Exits, GoTo, machine
<1>17. ASSUME NEW n \in Numbers, Unplug(n)
      PROVE  Pointing'
    BY <1>17, DevicesAssumption, NumberAssumption DEF Inv, TypeOK, Pointing,
       Writing, Looking, Chosen, Unplug, Moved, Exposed
<1>18. ASSUME NEW n \in Numbers, NEW d \in Devices, Plug(n, d)
      PROVE  Pointing'
    BY <1>18, DevicesAssumption, NumberAssumption DEF Inv, TypeOK, Pointing,
       Writing, Looking, Chosen, Plug, Moved, Exposed, child
<1>19. ASSUME Repartition
      PROVE  Pointing'
    BY <1>19, DevicesAssumption, NumberAssumption DEF Inv, TypeOK, Pointing,
       Writing, Looking, Chosen, Repartition, child
<1>20. ASSUME NEW d \in Devices, Protect(d)
      PROVE  Pointing'
    BY <1>20, DevicesAssumption, NumberAssumption DEF Inv, TypeOK, Pointing,
       Writing, Looking, Chosen, Protect, child
<1>21. CASE UNCHANGED vars
    BY <1>21 DEF Inv, TypeOK, Pointing, Writing, Looking, Chosen, vars, machine,
       child
<1> QED
    BY <1>1, <1>2, <1>3, <1>4, <1>5, <1>6, <1>7, <1>8, <1>9, <1>10, <1>11,
       <1>12, <1>13, <1>14, <1>15, <1>16, <1>17, <1>18, <1>19, <1>20, <1>21 DEF
       Next, Run, DiskPart, Environment

(* Every step keeps the chunks as Writing says. *)
LEMMA WritingStep ==
    ASSUME Inv, [Next]_vars
    PROVE  Writing'
<1>1. ASSUME Report("called", "discovering")
      PROVE  Writing'
    BY <1>1, DevicesAssumption, SizeAssumption DEF Inv, TypeOK, Outcome,
       Pointing, Writing, Looking, Chosen, FinishedStatuses, Report, GoTo,
       machine, child
<1>2. ASSUME Report("announcing", "launching")
      PROVE  Writing'
    BY <1>2, DevicesAssumption, SizeAssumption DEF Inv, TypeOK, Outcome,
       Pointing, Writing, Looking, Chosen, FinishedStatuses, Report, GoTo,
       machine, child
<1>3. ASSUME Discover("discovering", "checking")
      PROVE  Writing'
    BY <1>3, DevicesAssumption, SizeAssumption DEF Inv, TypeOK, Outcome,
       Pointing, Writing, Looking, Chosen, FinishedStatuses, Discover,
       Inventory, NotFound, GoTo, machine, child
<1>4. ASSUME Discover("verifying", "confirming")
      PROVE  Writing'
    BY <1>4, DevicesAssumption, SizeAssumption DEF Inv, TypeOK, Outcome,
       Pointing, Writing, Looking, Chosen, FinishedStatuses, Discover,
       Inventory, NotFound, GoTo, machine, child
<1>5. ASSUME Check
      PROVE  Writing'
    BY <1>5, DevicesAssumption, SizeAssumption DEF Inv, TypeOK, Outcome,
       Pointing, Writing, Looking, Chosen, FinishedStatuses, Check, Valid, GoTo,
       Leave, machine, child
<1>6. ASSUME WriteScript
      PROVE  Writing'
    BY <1>6, DevicesAssumption, SizeAssumption DEF Inv, TypeOK, Outcome,
       Pointing, Writing, Looking, Chosen, FinishedStatuses, WriteScript, GoTo,
       machine, child
<1>7. ASSUME WriteScriptFails
      PROVE  Writing'
    BY <1>7, DevicesAssumption, SizeAssumption DEF Inv, TypeOK, Outcome,
       Pointing, Writing, Looking, Chosen, FinishedStatuses, WriteScriptFails,
       machine, child
<1>8. ASSUME Launch
      PROVE  Writing'
    BY <1>8, DevicesAssumption, SizeAssumption DEF Inv, TypeOK, Outcome,
       Pointing, Writing, Looking, Chosen, FinishedStatuses, Launch, GoTo,
       machine, child
<1>9. ASSUME AcceptExit
      PROVE  Writing'
    BY <1>9, DevicesAssumption, SizeAssumption DEF Inv, TypeOK, Outcome,
       Pointing, Writing, Looking, Chosen, FinishedStatuses, AcceptExit, GoTo,
       Leave, machine, child
<1>10. ASSUME Confirm
      PROVE  Writing'
    BY <1>10, DevicesAssumption, SizeAssumption DEF Inv, TypeOK, Outcome,
       Pointing, Writing, Looking, Chosen, FinishedStatuses, Confirm, Leave,
       machine, child
<1>11. ASSUME Unlink
      PROVE  Writing'
    BY <1>11, DevicesAssumption, SizeAssumption DEF Inv, TypeOK, Outcome,
       Pointing, Writing, Looking, Chosen, FinishedStatuses, Unlink, GoTo,
       machine, child
<1>12. ASSUME Fail
      PROVE  Writing'
    BY <1>12, DevicesAssumption, SizeAssumption DEF Inv, TypeOK, Outcome,
       Pointing, Writing, Looking, Chosen, FinishedStatuses, Fail, Fallible,
       Leave, machine, child
<1>13. ASSUME Select
      PROVE  Writing'
    BY <1>13, DevicesAssumption, SizeAssumption DEF Inv, TypeOK, Outcome,
       Pointing, Writing, Looking, Chosen, FinishedStatuses, Select, GoTo,
       machine
<1>14. ASSUME Clean
      PROVE  Writing'
    BY <1>14, DevicesAssumption, SizeAssumption DEF Inv, TypeOK, Outcome,
       Pointing, Writing, Looking, Chosen, FinishedStatuses, Clean
<1>15. ASSUME ExitOk
      PROVE  Writing'
    BY <1>15, DevicesAssumption, SizeAssumption DEF Inv, TypeOK, Outcome,
       Pointing, Writing, Looking, Chosen, FinishedStatuses, ExitOk, Exits,
       GoTo, machine
<1>16. ASSUME ExitFailed
      PROVE  Writing'
    BY <1>16, DevicesAssumption, SizeAssumption DEF Inv, TypeOK, Outcome,
       Pointing, Writing, Looking, Chosen, FinishedStatuses, ExitFailed, Exits,
       GoTo, machine
<1>17. ASSUME NEW n \in Numbers, Unplug(n)
      PROVE  Writing'
    BY <1>17, DevicesAssumption, SizeAssumption DEF Inv, TypeOK, Outcome,
       Pointing, Writing, Looking, Chosen, FinishedStatuses, Unplug, Moved,
       Exposed
<1>18. ASSUME NEW n \in Numbers, NEW d \in Devices, Plug(n, d)
      PROVE  Writing'
    BY <1>18, DevicesAssumption, SizeAssumption DEF Inv, TypeOK, Outcome,
       Pointing, Writing, Looking, Chosen, FinishedStatuses, Plug, Moved,
       Exposed, child
<1>19. ASSUME Repartition
      PROVE  Writing'
    BY <1>19, DevicesAssumption, SizeAssumption DEF Inv, TypeOK, Outcome,
       Pointing, Writing, Looking, Chosen, FinishedStatuses, Repartition, child
<1>20. ASSUME NEW d \in Devices, Protect(d)
      PROVE  Writing'
    BY <1>20, DevicesAssumption, SizeAssumption DEF Inv, TypeOK, Outcome,
       Pointing, Writing, Looking, Chosen, FinishedStatuses, Protect, child
<1>21. CASE UNCHANGED vars
    BY <1>21 DEF Inv, TypeOK, Outcome, Pointing, Writing, Looking, Chosen,
       FinishedStatuses, vars, machine, child
<1> QED
    BY <1>1, <1>2, <1>3, <1>4, <1>5, <1>6, <1>7, <1>8, <1>9, <1>10, <1>11,
       <1>12, <1>13, <1>14, <1>15, <1>16, <1>17, <1>18, <1>19, <1>20, <1>21 DEF
       Next, Run, DiskPart, Environment

-----------------------------------------------------------------------------

(* The inductive invariant. *)
THEOREM DiskPartInvariance == Spec => []Inv
<1>1. Inv /\ [Next]_vars => Inv'
    BY TypeStep, OutcomeStep, PointingStep, WritingStep DEF Inv
<1> QED
    BY InitInv, <1>1, PTL DEF Spec

(* Every variable of the run, of diskpart.exe and of the machine keeps its  *)
(* type: nothing is written beyond the end of a disk.                       *)
THEOREM DiskPartTypeCorrect == Spec => []TypeOK
<1>1. Inv => TypeOK
    BY DEF Inv
<1> QED
    BY DiskPartInvariance, <1>1, PTL

(* Another disk is overwritten only if the number changed hands between the *)
(* look of _revalidate and the select of diskpart.exe.                      *)
THEOREM DiskPartStrays == Spec => []StraysAreRenumbered
<1>1. Inv => StraysAreRenumbered
    BY DEF Inv, Writing, StraysAreRenumbered
<1> QED
    BY DiskPartInvariance, <1>1, PTL

(* COMPLETE means that the whole of a disk was overwritten, and that the    *)
(* authorised one was seen without partitions afterwards.                   *)
THEOREM DiskPartCompletionsReal == Spec => []CompletionIsReal
<1>1. Inv => CompletionIsReal
    BY DEF Inv, Outcome, Writing, CompletionIsReal
<1> QED
    BY DiskPartInvariance, <1>1, PTL

-----------------------------------------------------------------------------
(* A disk protected before the policy is asked: the run can only end. *)
Shielded ==
    /\ Target \in protected
    /\ TargetIsUntouched
    /\ pc \in Looking \cup {"returned"}

(* No step of a shielded run touches the disk. *)
LEMMA ShieldedStep ==
    ASSUME Inv, Shielded, [Next]_vars
    PROVE  Shielded'
<1>1. ASSUME Report("called", "discovering")
      PROVE  Shielded'
    BY <1>1 DEF Inv, TypeOK, Shielded, TargetIsUntouched, Looking, Report, GoTo,
       machine, child
<1>2. ASSUME Report("announcing", "launching")
      PROVE  Shielded'
    BY <1>2 DEF Inv, TypeOK, Shielded, TargetIsUntouched, Looking, Report, GoTo,
       machine, child
<1>3. ASSUME Discover("discovering", "checking")
      PROVE  Shielded'
    BY <1>3 DEF Inv, TypeOK, Shielded, TargetIsUntouched, Looking, Discover,
       Inventory, NotFound, GoTo, machine, child
<1>4. ASSUME Discover("verifying", "confirming")
      PROVE  Shielded'
    BY <1>4 DEF Inv, TypeOK, Shielded, TargetIsUntouched, Looking, Discover,
       Inventory, NotFound, GoTo, machine, child
<1>5. ASSUME Check
      PROVE  Shielded'
    BY <1>5 DEF Inv, TypeOK, Shielded, TargetIsUntouched, Looking, Check, Valid,
       GoTo, Leave, machine, child
<1>6. ASSUME WriteScript
      PROVE  Shielded'
    BY <1>6 DEF Inv, TypeOK, Shielded, TargetIsUntouched, Looking, WriteScript,
       GoTo, machine, child
<1>7. ASSUME WriteScriptFails
      PROVE  Shielded'
    BY <1>7 DEF Inv, TypeOK, Shielded, TargetIsUntouched, Looking,
       WriteScriptFails, machine, child
<1>8. ASSUME Launch
      PROVE  Shielded'
    BY <1>8 DEF Inv, TypeOK, Shielded, TargetIsUntouched, Looking, Launch, GoTo,
       machine, child
<1>9. ASSUME AcceptExit
      PROVE  Shielded'
    BY <1>9 DEF Inv, TypeOK, Shielded, TargetIsUntouched, Looking, AcceptExit,
       GoTo, Leave, machine, child
<1>10. ASSUME Confirm
      PROVE  Shielded'
    BY <1>10 DEF Inv, TypeOK, Shielded, TargetIsUntouched, Looking, Confirm,
       Leave, machine, child
<1>11. ASSUME Unlink
      PROVE  Shielded'
    BY <1>11 DEF Inv, TypeOK, Shielded, TargetIsUntouched, Looking, Unlink,
       GoTo, machine, child
<1>12. ASSUME Fail
      PROVE  Shielded'
    BY <1>12 DEF Inv, TypeOK, Shielded, TargetIsUntouched, Looking, Fail,
       Fallible, Leave, machine, child
<1>13. ASSUME Select
      PROVE  Shielded'
    BY <1>13 DEF Inv, TypeOK, Shielded, TargetIsUntouched, Looking, Select,
       GoTo, machine
<1>14. ASSUME Clean
      PROVE  Shielded'
    BY <1>14 DEF Inv, TypeOK, Shielded, TargetIsUntouched, Looking, Clean
<1>15. ASSUME ExitOk
      PROVE  Shielded'
    BY <1>15 DEF Inv, TypeOK, Shielded, TargetIsUntouched, Looking, ExitOk,
       Exits, GoTo, machine
<1>16. ASSUME ExitFailed
      PROVE  Shielded'
    BY <1>16 DEF Inv, TypeOK, Shielded, TargetIsUntouched, Looking, ExitFailed,
       Exits, GoTo, machine
<1>17. ASSUME NEW n \in Numbers, Unplug(n)
      PROVE  Shielded'
    BY <1>17 DEF Inv, TypeOK, Shielded, TargetIsUntouched, Looking, Unplug,
       Moved, Exposed
<1>18. ASSUME NEW n \in Numbers, NEW d \in Devices, Plug(n, d)
      PROVE  Shielded'
    BY <1>18 DEF Inv, TypeOK, Shielded, TargetIsUntouched, Looking, Plug, Moved,
       Exposed, child
<1>19. ASSUME Repartition
      PROVE  Shielded'
    BY <1>19 DEF Inv, TypeOK, Shielded, TargetIsUntouched, Looking, Repartition,
       child
<1>20. ASSUME NEW d \in Devices, Protect(d)
      PROVE  Shielded'
    BY <1>20 DEF Inv, TypeOK, Shielded, TargetIsUntouched, Looking, Protect,
       child
<1>21. CASE UNCHANGED vars
    BY <1>21 DEF Inv, TypeOK, Shielded, TargetIsUntouched, Looking, vars,
       machine, child
<1> QED
    BY <1>1, <1>2, <1>3, <1>4, <1>5, <1>6, <1>7, <1>8, <1>9, <1>10, <1>11,
       <1>12, <1>13, <1>14, <1>15, <1>16, <1>17, <1>18, <1>19, <1>20, <1>21 DEF
       Next, Run, DiskPart, Environment

(* A disk that becomes protected before the run has assessed it is never    *)
(* overwritten by it.                                                       *)
THEOREM DiskPartProtectionHolds == Spec => ProtectionIsHonoured
<1>1. Inv /\ ProtectedInTime => Shielded
    BY DevicesAssumption
       DEF Inv, Writing, ProtectedInTime, Shielded, TargetIsUntouched, Looking
<1>2. Inv /\ Shielded /\ [Next]_vars => Shielded'
    BY ShieldedStep
<1>3. Shielded => TargetIsUntouched
    BY DEF Shielded
<1> QED
    BY DiskPartInvariance, <1>1, <1>2, <1>3, PTL DEF Spec, ProtectionIsHonoured

-----------------------------------------------------------------------------
(* A run begins as the contract says. *)
LEMMA ContractInit == Init => Contract!RunInit
    BY DEF Init, RunStage, RunResult, StageOf, Contract!RunInit

(* A result or an exception that sets out ends the run of the contract. *)
LEMMA LeaveEnds ==
    ASSUME Inv, result = Null, result' \in FinishedStatuses, wiped' = wiped,
           result' = "ERROR" \/ (result' = "COMPLETE" /\ RunStage = "verified")
    PROVE  Contract!RunNext
<1>1. RunStage # "returned" /\ RunStage' = "returned"
    BY ResultAssumption DEF RunStage, StageOf
<1>2. RunResult' = [status |-> result', bytes |-> BytesReturned']
    BY ResultAssumption DEF RunResult
<1>3. CASE result' = "ERROR"
    BY <1>1, <1>2, <1>3 DEF BytesReturned, Contract!RunNext, Contract!RunFail,
       Contract!Return, Contract!Simulated
<1>4. CASE result' = "COMPLETE" /\ RunStage = "verified"
    BY <1>1, <1>2, <1>4 DEF BytesReturned, Contract!RunNext, Contract!RunComplete,
       Contract!Return
<1> QED
    BY <1>3, <1>4


(* Every step is one of the contract, or changes nothing of it. *)
LEMMA ContractStep ==
    ASSUME Inv, [Next]_vars
    PROVE  Contract!RunNext \/ UNCHANGED Contract!runVars
<1>1. ASSUME Report("called", "discovering")
      PROVE  Contract!RunNext \/ UNCHANGED Contract!runVars
  <2>1. RunStage = "called" /\ RunStage' = "prepared"
      BY <1>1 DEF Report, GoTo, Inv, Outcome, RunStage, StageOf
  <2>2. RunResult' = RunResult /\ wiped' = wiped
      BY <1>1 DEF Report, GoTo, child, RunResult, BytesReturned
  <2> QED
      BY <2>1, <2>2 DEF Contract!RunNext, Contract!RunReport, Contract!GoTo,
         Contract!ReportingStages, Contract!AfterReport
<1>2. ASSUME Report("announcing", "launching")
      PROVE  Contract!RunNext \/ UNCHANGED Contract!runVars
  <2>1. RunStage = "prepared" /\ RunStage' = "writing"
      BY <1>2, SizeAssumption
         DEF Report, GoTo, child, Inv, Outcome, Writing, Chosen, RunStage, StageOf
  <2>2. RunResult' = RunResult /\ wiped' = wiped
      BY <1>2 DEF Report, GoTo, child, RunResult, BytesReturned
  <2> QED
      BY <2>1, <2>2 DEF Contract!RunNext, Contract!RunReport, Contract!GoTo,
         Contract!ReportingStages, Contract!AfterReport
<1>3. ASSUME Discover("discovering", "checking")
      PROVE  Contract!RunNext \/ UNCHANGED Contract!runVars
    BY <1>3 DEF Inv, Outcome, Writing, RunStage, RunResult, StageOf,
       BytesReturned, Contract!runVars, Discover, Inventory, NotFound, GoTo,
       machine, child
<1>4. ASSUME Discover("verifying", "confirming")
      PROVE  Contract!RunNext \/ UNCHANGED Contract!runVars
    BY <1>4 DEF Inv, Outcome, Writing, RunStage, RunResult, StageOf,
       BytesReturned, Contract!runVars, Discover, Inventory, NotFound, GoTo,
       machine, child
<1>5. ASSUME Check
      PROVE  Contract!RunNext \/ UNCHANGED Contract!runVars
  <2>1. CASE Valid
      BY <1>5, <2>1 DEF Check, GoTo, machine, child, Inv, Outcome, Writing, RunStage,
         RunResult, StageOf, BytesReturned, Contract!runVars
  <2>2. CASE Leave("ERROR")
      BY <1>5, <2>2, LeaveEnds, ResultAssumption
         DEF Check, Leave, Inv, Outcome, child, FinishedStatuses
  <2> QED
      BY <1>5, <2>1, <2>2 DEF Check
<1>6. ASSUME WriteScript
      PROVE  Contract!RunNext \/ UNCHANGED Contract!runVars
    BY <1>6 DEF Inv, Outcome, Writing, RunStage, RunResult, StageOf,
       BytesReturned, Contract!runVars, WriteScript, GoTo, machine, child
<1>7. ASSUME WriteScriptFails
      PROVE  Contract!RunNext \/ UNCHANGED Contract!runVars
    BY <1>7, LeaveEnds, ResultAssumption
       DEF WriteScriptFails, Inv, Outcome, child, FinishedStatuses
<1>8. ASSUME Launch
      PROVE  Contract!RunNext \/ UNCHANGED Contract!runVars
    BY <1>8 DEF Inv, Outcome, Writing, RunStage, RunResult, StageOf,
       BytesReturned, Contract!runVars, Launch, GoTo, machine, child
<1>9. ASSUME AcceptExit
      PROVE  Contract!RunNext \/ UNCHANGED Contract!runVars
  <2>1. CASE code = "ok"
    <3>1. RunStage = "flushed" /\ RunStage' = "verified"
        BY <1>9, <2>1 DEF AcceptExit, GoTo, Inv, Outcome, Writing, RunStage, StageOf
    <3>2. RunResult' = RunResult /\ wiped' = wiped
        BY <1>9, <2>1 DEF AcceptExit, GoTo, child, RunResult, BytesReturned
    <3> QED
        BY <3>1, <3>2 DEF Contract!RunNext, Contract!RunReport, Contract!GoTo,
           Contract!ReportingStages, Contract!AfterReport
  <2>2. CASE Leave("ERROR")
      BY <1>9, <2>2, LeaveEnds, ResultAssumption
         DEF AcceptExit, Leave, Inv, Outcome, child, FinishedStatuses
  <2> QED
      BY <1>9, <2>1, <2>2 DEF AcceptExit
<1>10. ASSUME Confirm
      PROVE  Contract!RunNext \/ UNCHANGED Contract!runVars
  <2>1. result = Null /\ RunStage = "verified" /\ wiped' = wiped
      BY <1>10 DEF Confirm, Leave, child, Inv, Outcome, RunStage, StageOf
  <2>2. result' \in {"COMPLETE", "ERROR"}
      BY <1>10 DEF Confirm, Leave
  <2> QED
      BY <2>1, <2>2, LeaveEnds DEF FinishedStatuses
<1>11. ASSUME Unlink
      PROVE  Contract!RunNext \/ UNCHANGED Contract!runVars
    BY <1>11 DEF Inv, Outcome, Writing, RunStage, RunResult, StageOf,
       BytesReturned, Contract!runVars, Unlink, GoTo, machine, child
<1>12. ASSUME Fail
      PROVE  Contract!RunNext \/ UNCHANGED Contract!runVars
    BY <1>12, LeaveEnds, ResultAssumption
       DEF Fail, Fallible, Leave, Inv, Outcome, child, FinishedStatuses
<1>13. ASSUME Select
      PROVE  Contract!RunNext \/ UNCHANGED Contract!runVars
    BY <1>13 DEF Inv, Outcome, Writing, RunStage, RunResult, StageOf,
       BytesReturned, Contract!runVars, Select, GoTo, machine
<1>14. ASSUME Clean
      PROVE  Contract!RunNext \/ UNCHANGED Contract!runVars
  <2>1. RunStage = "writing" /\ wiped' = wiped + 1
      BY <1>14, SizeAssumption DEF Clean, Inv, TypeOK, Outcome, RunStage, StageOf
  <2>2. RunStage' = IF wiped + 1 = Size THEN "flushed" ELSE "writing"
      BY <1>14 DEF Clean, Inv, Outcome, RunStage, StageOf
  <2>3. RunResult' = RunResult
      BY <1>14 DEF Clean, RunResult, BytesReturned
  <2> QED
      BY <2>1, <2>2, <2>3 DEF Contract!RunNext, Contract!RunWrite, Contract!AfterChunk
<1>15. ASSUME ExitOk
      PROVE  Contract!RunNext \/ UNCHANGED Contract!runVars
    BY <1>15 DEF Inv, Outcome, Writing, RunStage, RunResult, StageOf,
       BytesReturned, Contract!runVars, ExitOk, Exits, GoTo, machine
<1>16. ASSUME ExitFailed
      PROVE  Contract!RunNext \/ UNCHANGED Contract!runVars
    BY <1>16 DEF Inv, Outcome, Writing, RunStage, RunResult, StageOf,
       BytesReturned, Contract!runVars, ExitFailed, Exits, GoTo, machine
<1>17. ASSUME NEW n \in Numbers, Unplug(n)
      PROVE  Contract!RunNext \/ UNCHANGED Contract!runVars
    BY <1>17 DEF Inv, Outcome, Writing, RunStage, RunResult, StageOf,
       BytesReturned, Contract!runVars, Unplug, Moved, Exposed
<1>18. ASSUME NEW n \in Numbers, NEW d \in Devices, Plug(n, d)
      PROVE  Contract!RunNext \/ UNCHANGED Contract!runVars
    BY <1>18 DEF Inv, Outcome, Writing, RunStage, RunResult, StageOf,
       BytesReturned, Contract!runVars, Plug, Moved, Exposed, child
<1>19. ASSUME Repartition
      PROVE  Contract!RunNext \/ UNCHANGED Contract!runVars
    BY <1>19 DEF Inv, Outcome, Writing, RunStage, RunResult, StageOf,
       BytesReturned, Contract!runVars, Repartition, child
<1>20. ASSUME NEW d \in Devices, Protect(d)
      PROVE  Contract!RunNext \/ UNCHANGED Contract!runVars
    BY <1>20 DEF Inv, Outcome, Writing, RunStage, RunResult, StageOf,
       BytesReturned, Contract!runVars, Protect, child
<1>21. CASE UNCHANGED vars
    BY <1>21 DEF Inv, Outcome, Writing, RunStage, RunResult, StageOf,
       BytesReturned, Contract!runVars, vars, machine, child
<1> QED
    BY <1>1, <1>2, <1>3, <1>4, <1>5, <1>6, <1>7, <1>8, <1>9, <1>10, <1>11,
       <1>12, <1>13, <1>14, <1>15, <1>16, <1>17, <1>18, <1>19, <1>20, <1>21 DEF
       Next, Run, DiskPart, Environment


(* A DiskPart run takes the steps the job manager expects of it, and no     *)
(* others.                                                                  *)
THEOREM DiskPartImplementsRun == Spec => RunSpec
<1>1. Inv /\ [Next]_vars => [Contract!RunNext]_Contract!runVars
    BY ContractStep
<1> QED
    BY ContractInit, DiskPartInvariance, <1>1, PTL DEF Spec, RunSpec, Contract!RunSpec

-----------------------------------------------------------------------------
(* How far each step of the run is from its end. *)
Rank(s) ==
    CASE s = "called" -> 12 [] s = "discovering" -> 11 [] s = "checking" -> 10
      [] s = "scripting" -> 9 [] s = "announcing" -> 8 [] s = "launching" -> 7
      [] s = "selecting" -> 6 [] s = "cleaning" -> 5 [] s = "exited" -> 4
      [] s = "verifying" -> 3 [] s = "confirming" -> 2 [] s = "unlinking" -> 1
      [] s = "returned" -> 0

(* An upper bound of the steps that run() and diskpart.exe have left. *)
Left == Size - wiped + Rank(pc)

(* Every step of run() and of diskpart.exe brings the end closer, and       *)
(* nothing the machine or the window does puts it off.                      *)
RunsDown ==
    [][/\ Left \in 0 .. Size + 12
       /\ Run \/ DiskPart => Left' < Left
       /\ Environment => Left' = Left]_vars

LEMMA LeftBounded ==
    ASSUME TypeOK
    PROVE  Left \in 0 .. Size + 12
<1>1. Size \in Nat /\ wiped \in 0 .. Size /\ Rank(pc) \in 0 .. 12
    BY SizeAssumption DEF TypeOK, Steps, Rank
<1> QED
    BY <1>1 DEF Left

(* The steps of run(), which write nothing themselves, go down the ranks.   *)
LEMMA RunDescends ==
    ASSUME TypeOK, Outcome, Run
    PROVE  Rank(pc') < Rank(pc) /\ wiped' = wiped
<1>1. CASE Report("called", "discovering") \/ Report("announcing", "launching")
    BY <1>1 DEF Report, GoTo, child, Rank
<1>2. CASE Discover("discovering", "checking") \/ Discover("verifying", "confirming")
    BY <1>2 DEF Discover, GoTo, child, Rank
<1>3. CASE Check
    BY <1>3 DEF Check, GoTo, Leave, child, Rank
<1>4. CASE WriteScript \/ WriteScriptFails
    BY <1>4 DEF WriteScript, WriteScriptFails, GoTo, child, Rank
<1>5. CASE Launch
    BY <1>5 DEF Launch, GoTo, child, Rank
<1>9. CASE Unlink
    BY <1>9 DEF Unlink, GoTo, child, Rank
<1>6. CASE AcceptExit
    BY <1>6 DEF AcceptExit, GoTo, Leave, child, Rank
<1>7. CASE Confirm
    BY <1>7 DEF Confirm, Leave, child, Rank
<1>8. CASE Fail
    BY <1>8 DEF Fail, Fallible, Leave, child, Rank
<1> QED
    BY <1>1, <1>2, <1>3, <1>4, <1>5, <1>6, <1>7, <1>8, <1>9 DEF Run

(* So do those of diskpart.exe, except that it writes a chunk instead.      *)
LEMMA DiskPartDescends ==
    ASSUME TypeOK, DiskPart
    PROVE  \/ Rank(pc') < Rank(pc) /\ wiped' = wiped
           \/ pc' = pc /\ wiped' = wiped + 1
<1>1. CASE Select
    BY <1>1 DEF Select, GoTo, Rank
<1>2. CASE Clean
    BY <1>2 DEF Clean
<1>3. CASE ExitOk \/ ExitFailed
    BY <1>3 DEF ExitOk, ExitFailed, Exits, GoTo, Rank
<1> QED
    BY <1>1, <1>2, <1>3 DEF DiskPart

(* A run of DiskPart takes at most Size + 12 steps, whatever is unplugged,  *)
(* partitioned or protected meanwhile: nothing in it is tried again.        *)
THEOREM DiskPartRunsDown == Spec => RunsDown
<1>1. ASSUME Inv, Inv', [Next]_vars
      PROVE  [/\ Left \in 0 .. Size + 12
              /\ Run \/ DiskPart => Left' < Left
              /\ Environment => Left' = Left]_vars
  <2>1. TypeOK /\ Outcome
    BY <1>1 DEF Inv
  <2>2. /\ Size \in Nat /\ wiped \in 0 .. Size /\ wiped' \in 0 .. Size
        /\ Rank(pc) \in 0 .. 12 /\ Rank(pc') \in 0 .. 12
    BY <1>1, SizeAssumption DEF Inv, TypeOK, Steps, Rank
  <2>3. Run => Left' < Left
    BY <2>1, <2>2, RunDescends DEF Left
  <2>4. DiskPart => Left' < Left
    <3>1. ASSUME pc' = pc PROVE Rank(pc') = Rank(pc)
      BY <3>1
    <3> QED
      BY <2>1, <2>2, <3>1, DiskPartDescends DEF Left
  <2>5. Environment => Left' = Left
    <3>1. Environment => pc' = pc /\ wiped' = wiped
      BY DEF Environment, Unplug, Plug, Repartition, Protect, child
    <3> QED
      BY <3>1 DEF Left
  <2> QED
    BY <2>1, <2>3, <2>4, <2>5, LeftBounded
<1> QED
    BY <1>1, DiskPartInvariance, PTL DEF Spec, RunsDown
=============================================================================
