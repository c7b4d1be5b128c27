----------------------- MODULE ProtectedDevicesProofs -----------------------
(***************************************************************************)
(* Proofs about ProtectionPolicy and ProtectedDevices, for any number of   *)
(* copies of the program, any disks and any rules to type.                 *)
(***************************************************************************)
EXTENDS ProtectedDevices, TLAPS

(* A normalised rule is a rule, and normalising it again changes nothing. *)
LEMMA NormalRules ==
    \A r \in Rules :
        NormalRule(r) \in Rules /\ NormalRule(NormalRule(r)) = NormalRule(r)
<1> TAKE r \in Rules
<1>1. CASE r \in Typed
  <2>1. NormalRule(r) = Rule(r.list, Normal[r.value])
      BY <1>1, TypedAssumption DEF NormalRule
  <2>2. Normal[Normal[r.value]] = Normal[r.value]
      BY <1>1, TypedAssumption, NormalAssumption
  <2>3. NormalRule(NormalRule(r)) = NormalRule(r)
      BY <1>1, <2>1, <2>2, TypedAssumption DEF NormalRule, Rule
  <2> QED
      BY <1>1, <2>3 DEF Rules
<1>2. CASE \E s \in Typed : r = NormalRule(s)
  <2>1. PICK s \in Typed : r = NormalRule(s)
      BY <1>2
  <2>2. NormalRule(s) = Rule(s.list, Normal[s.value])
      BY <2>1, TypedAssumption DEF NormalRule
  <2>3. Normal[Normal[s.value]] = Normal[s.value]
      BY <2>1, TypedAssumption, NormalAssumption
  <2>4. NormalRule(r) = r
      BY <2>1, <2>2, <2>3, TypedAssumption DEF NormalRule, Rule
  <2> QED
      BY <2>4
<1>3. CASE \E d \in Disks : r = KeyRule(d)
  <2>1. NormalRule(r) = r
      BY <1>3 DEF NormalRule, KeyRule, Rule
  <2> QED
      BY <2>1
<1> QED
    BY <1>1, <1>2, <1>3 DEF Rules

(* What is loaded are rules ... *)
LEMMA LoadedAreRules ==
    ASSUME NEW rules \in SUBSET Rules
    PROVE  Loaded(rules) \in SUBSET Rules
BY NormalRules DEF Loaded

(* ... and a file they are saved in yields them again. *)
LEMMA LoadedAgain ==
    ASSUME NEW rules \in SUBSET Rules, NEW more, Loaded(rules) \subseteq more
    PROVE  Loaded(rules) \subseteq Loaded(more)
<1> SUFFICES ASSUME NEW r \in Loaded(rules)
             PROVE  r \in Loaded(more)
    OBVIOUS
<1>1. NormalRule(r) = r /\ NotBlank(r) /\ r \in more
    BY NormalRules DEF Loaded
<1> QED
    BY <1>1 DEF Loaded

(* A disk is named exactly by a rule that is loaded. *)
LEMMA NamedByLoaded ==
    ASSUME NEW d, NEW rules
    PROVE  Named(d, rules) <=> RulesFor(d) \cap Loaded(rules) # {}
BY DEF Named, Loaded

(* A file with more rules names as many disks. *)
LEMMA NamedByMore ==
    ASSUME NEW rules \in SUBSET Rules, NEW more, Loaded(rules) \subseteq more,
           NEW d, Named(d, rules)
    PROVE  Named(d, more)
BY LoadedAgain, NamedByLoaded

(* A file with the fingerprint of a disk names it. *)
LEMMA NamedByKey ==
    ASSUME NEW d, NEW rules, KeyRule(d) \in rules
    PROVE  Named(d, rules)
BY DEF Named, NormalRule, NotBlank, RulesFor, KeyRule, Rule

(* ProtectionPolicy.assess: a disk with a rule in the policy is never       *)
(* eligible.                                                                *)
LEMMA RuleProtects ==
    ASSUME NEW d, NEW policies, RulesFor(d) \cap policies.rules # {}
    PROVE  ~CanWipe(d, policies)
BY DEF CanWipe, Reasons

(* What a file holds. *)
LEMMA ContentsHold ==
    ASSUME NEW c \in Contents
    PROVE  /\ c.rules \in SUBSET Rules
           /\ ~Readable(c) => c = Broken
           /\ c.rules # {} => Readable(c)
BY DEF Contents, Absent, Broken, Holding, Readable

LEMMA HoldingHolds ==
    ASSUME NEW rules
    PROVE  Holding(rules).rules = rules /\ Readable(Holding(rules))
BY DEF Holding, Readable

(* A disk named by a file is named by a readable one. *)
LEMMA NamedInFile ==
    ASSUME NEW c \in Contents, NEW d, Named(d, c.rules)
    PROVE  Readable(c)
BY ContentsHold DEF Named

-----------------------------------------------------------------------------
(* What is about to be saved protects what was told and what was asked. *)
Saved == {"opening", "writing", "replacing", "applying"}
Ready ==
    \A p \in Programs : pc[p] \in Saved =>
        /\ \A d \in told[p] : RulesFor(d) \cap updated[p] # {}
        /\ \A d \in adding[p] : KeyRule(d) \in updated[p]

(* A copy that races nobody saves everything the file holds. *)
Saving ==
    \A p \in Merging \ racing :
        /\ Merging = {p}
        /\ Readable(file) /\ RulesIn(file) \subseteq updated[p]
        /\ pc[p] = "writing" => tmp = Broken
        /\ pc[p] = "replacing" => tmp \in {Absent, Holding(updated[p])}

(* What it has saved stays in the file. *)
Applied ==
    \A p \in Applying \ racing : \A d \in adding[p] : Named(d, file.rules)

(* What it has told is in the file and in its policy. *)
Told ==
    \A p \in Programs : \A d \in told[p] :
        Named(d, file.rules) /\ RulesFor(d) \cap policy[p] # {}

Inv == TypeOK /\ Ready /\ Saving /\ Applied /\ Told

-----------------------------------------------------------------------------
(* Initially. *)
LEMMA InitInv == Init => Inv
<1> SUFFICES ASSUME Init PROVE Inv
    OBVIOUS
<1>1. TypeOK
    BY DEF Init, TypeOK, Contents, Steps, Rules
<1>2. Merging = {} /\ Applying = {}
    BY DEF Init, Merging, Applying
<1> QED
    BY <1>1, <1>2 DEF Init, Inv, Ready, Saved, Saving, Applied, Told


(* Every step keeps the types. *)
LEMMA TypeStep ==
    ASSUME Inv, [Next]_vars
    PROVE  TypeOK'
<1>1. ASSUME NEW p \in Programs, Launch(p)
      PROVE  TypeOK'
    BY <1>1, ContentsHold, LoadedAreRules DEF Inv, TypeOK, Steps, Launch, GoTo,
       files, history, RulesIn
<1>2. ASSUME NEW p \in Programs, Exit(p)
      PROVE  TypeOK'
    BY <1>2 DEF Inv, TypeOK, Steps, Exit, GoTo, files
<1>3. ASSUME NEW p \in Programs, NEW ds \in SUBSET Disks, Protect(p, ds)
      PROVE  TypeOK'
    BY <1>3 DEF Inv, TypeOK, Steps, Protect, GoTo, files, history
<1>4. ASSUME NEW p \in Programs, Load(p)
      PROVE  TypeOK'
  <2>1. Merged(p) \in SUBSET Rules
    <3>1. RulesIn(file) \in SUBSET Rules
        BY ContentsHold, LoadedAreRules DEF Inv, TypeOK, RulesIn
    <3>2. \A d \in Disks : KeyRule(d) \in Rules
        BY DEF Rules
    <3>3. adding[p] \in SUBSET Disks
        BY DEF Inv, TypeOK
    <3> QED
        BY <3>1, <3>2, <3>3 DEF Merged
  <2> QED
      BY <1>4, <2>1 DEF Inv, TypeOK, Steps, Load, GoTo, Merging, files
<1>5. ASSUME NEW p \in Programs, GiveUp(p)
      PROVE  TypeOK'
    BY <1>5 DEF Inv, TypeOK, Steps, GiveUp, Finish, GoTo, files
<1>6. ASSUME NEW p \in Programs, Open(p)
      PROVE  TypeOK'
    BY <1>6 DEF Inv, TypeOK, Steps, Open, GoTo, history, Contents
<1>7. ASSUME NEW p \in Programs, Write(p)
      PROVE  TypeOK'
  <2>1. Holding(updated[p]) \in Contents /\ Broken \in Contents
      BY DEF Inv, TypeOK, Contents
  <2>2. tmp' \in Contents
      BY <1>7, <2>1 DEF Write
  <2> QED
      BY <1>7, <2>2 DEF Inv, TypeOK, Steps, Write, GoTo, history
<1>8. ASSUME NEW p \in Programs, Replace(p)
      PROVE  TypeOK'
    BY <1>8 DEF Inv, TypeOK, Steps, Replace, Withdraw, GoTo, Contents, Applying
<1>9. ASSUME NEW p \in Programs, SaveFails(p)
      PROVE  TypeOK'
    BY <1>9 DEF Inv, TypeOK, Steps, SaveFails, GoTo, files, history
<1>10. ASSUME NEW p \in Programs, Unlink(p)
      PROVE  TypeOK'
    BY <1>10 DEF Inv, TypeOK, Steps, Unlink, Finish, GoTo, Contents
<1>11. ASSUME NEW p \in Programs, Apply(p)
      PROVE  TypeOK'
    BY <1>11 DEF Inv, TypeOK, Steps, Apply, Promise, Finish, GoTo, files
<1>12. ASSUME NEW c \in Drafts, Edit(c)
      PROVE  TypeOK'
  <2>1. c \in Contents
    <3>1. Typed \subseteq Rules
        BY DEF Rules
    <3>2. file.rules \in SUBSET Rules
        BY ContentsHold DEF Inv, TypeOK
    <3> QED
        BY <3>1, <3>2 DEF Drafts, Contents
  <2> QED
      BY <1>12, <2>1 DEF Inv, TypeOK, Edit, Withdraw, Merging, Applying, copies
<1>13. CASE UNCHANGED vars
    BY <1>13 DEF Inv, TypeOK, Steps, vars, files, copies, history
<1> QED
    BY <1>1, <1>2, <1>3, <1>4, <1>5, <1>6, <1>7, <1>8, <1>9, <1>10, <1>11,
       <1>12, <1>13 DEF Next, Program

(* Every step keeps what is about to be saved. *)
LEMMA ReadyStep ==
    ASSUME Inv, [Next]_vars
    PROVE  Ready'
<1>1. ASSUME NEW p \in Programs, Launch(p)
      PROVE  Ready'
    BY <1>1 DEF Inv, TypeOK, Ready, Saved, Launch, GoTo, files, history
<1>2. ASSUME NEW p \in Programs, Exit(p)
      PROVE  Ready'
    BY <1>2 DEF Inv, TypeOK, Ready, Saved, Exit, GoTo, files
<1>3. ASSUME NEW p \in Programs, NEW ds \in SUBSET Disks, Protect(p, ds)
      PROVE  Ready'
    BY <1>3 DEF Inv, TypeOK, Ready, Saved, Protect, GoTo, files, history
<1>4. ASSUME NEW p \in Programs, Load(p)
      PROVE  Ready'
  <2>1. SUFFICES ASSUME NEW q \in Programs, pc'[q] \in Saved
                 PROVE  /\ \A d \in told'[q] : RulesFor(d) \cap updated'[q] # {}
                        /\ \A d \in adding'[q] : KeyRule(d) \in updated'[q]
      BY DEF Ready
  <2>2. CASE q # p
      BY <1>4, <2>1, <2>2 DEF Load, GoTo, Inv, TypeOK, Ready
  <2>3. CASE q = p
    <3>1. updated'[p] = Merged(p) /\ told'[p] = told[p] /\ adding'[p] = adding[p]
        BY <1>4 DEF Load, Inv, TypeOK
    <3>2. \A d \in told[p] : RulesFor(d) \cap RulesIn(file) # {}
        BY NamedByLoaded DEF Inv, Told, RulesIn
    <3> QED
        BY <2>3, <3>1, <3>2 DEF Merged
  <2> QED
      BY <2>2, <2>3
<1>5. ASSUME NEW p \in Programs, GiveUp(p)
      PROVE  Ready'
    BY <1>5 DEF Inv, TypeOK, Ready, Saved, GiveUp, Finish, GoTo, files
<1>6. ASSUME NEW p \in Programs, Open(p)
      PROVE  Ready'
    BY <1>6 DEF Inv, TypeOK, Ready, Saved, Open, GoTo, history
<1>7. ASSUME NEW p \in Programs, Write(p)
      PROVE  Ready'
    BY <1>7 DEF Inv, TypeOK, Ready, Saved, Write, GoTo, history
<1>8. ASSUME NEW p \in Programs, Replace(p)
      PROVE  Ready'
    BY <1>8 DEF Inv, TypeOK, Ready, Saved, Replace, Withdraw, GoTo
<1>9. ASSUME NEW p \in Programs, SaveFails(p)
      PROVE  Ready'
    BY <1>9 DEF Inv, TypeOK, Ready, Saved, SaveFails, GoTo, files, history
<1>10. ASSUME NEW p \in Programs, Unlink(p)
      PROVE  Ready'
    BY <1>10 DEF Inv, TypeOK, Ready, Saved, Unlink, Finish, GoTo
<1>11. ASSUME NEW p \in Programs, Apply(p)
      PROVE  Ready'
    BY <1>11 DEF Inv, TypeOK, Ready, Saved, Apply, Promise, Finish, GoTo, files
<1>12. ASSUME NEW c \in Drafts, Edit(c)
      PROVE  Ready'
    BY <1>12 DEF Inv, TypeOK, Ready, Saved, Edit, Withdraw, copies
<1>13. CASE UNCHANGED vars
    BY <1>13 DEF Inv, TypeOK, Ready, Saved, vars, files, copies, history
<1> QED
    BY <1>1, <1>2, <1>3, <1>4, <1>5, <1>6, <1>7, <1>8, <1>9, <1>10, <1>11,
       <1>12, <1>13 DEF Next, Program

(* Every step keeps what a copy that races nobody saves. *)
LEMMA SavingStep ==
    ASSUME Inv, [Next]_vars
    PROVE  Saving'
<1>1. ASSUME NEW p \in Programs, Launch(p)
      PROVE  Saving'
    BY <1>1 DEF Inv, TypeOK, Saving, Merging, Applying, Saved, Launch, GoTo,
       files, history
<1>2. ASSUME NEW p \in Programs, Exit(p)
      PROVE  Saving'
    BY <1>2 DEF Inv, TypeOK, Saving, Merging, Applying, Saved, Exit, GoTo, files
<1>3. ASSUME NEW p \in Programs, NEW ds \in SUBSET Disks, Protect(p, ds)
      PROVE  Saving'
    BY <1>3 DEF Inv, TypeOK, Saving, Merging, Applying, Saved, Protect, GoTo,
       files, history
<1>4. ASSUME NEW p \in Programs, Load(p)
      PROVE  Saving'
    BY <1>4 DEF Inv, TypeOK, Saving, Merging, Applying, Saved, Load, GoTo,
       files, RulesIn, Merged
<1>5. ASSUME NEW p \in Programs, GiveUp(p)
      PROVE  Saving'
    BY <1>5 DEF Inv, TypeOK, Saving, Merging, Applying, Saved, GiveUp, Finish,
       GoTo, files
<1>6. ASSUME NEW p \in Programs, Open(p)
      PROVE  Saving'
    BY <1>6 DEF Inv, TypeOK, Saving, Merging, Applying, Saved, Open, GoTo,
       history
<1>7. ASSUME NEW p \in Programs, Write(p)
      PROVE  Saving'
    BY <1>7 DEF Inv, TypeOK, Saving, Merging, Applying, Saved, Write, GoTo,
       history
<1>8. ASSUME NEW p \in Programs, Replace(p)
      PROVE  Saving'
    BY <1>8 DEF Inv, TypeOK, Saving, Merging, Applying, Saved, Replace,
       Withdraw, GoTo
<1>9. ASSUME NEW p \in Programs, SaveFails(p)
      PROVE  Saving'
    BY <1>9 DEF Inv, TypeOK, Saving, Merging, Applying, Saved, SaveFails, GoTo,
       files, history
<1>10. ASSUME NEW p \in Programs, Unlink(p)
      PROVE  Saving'
  <2>1. Merging' = Merging /\ racing' \cup {p} = racing \cup {p} /\ p \notin Merging'
      BY <1>10 DEF Unlink, Finish, GoTo, Inv, TypeOK, Merging
  <2>2. file' = file /\ tmp' \in {tmp, Absent} /\ (HeldByOther(p) => tmp' = tmp)
      BY <1>10 DEF Unlink
  <2>3. ASSUME NEW q \in Merging' \ racing'
        PROVE  /\ pc'[q] = pc[q] /\ updated'[q] = updated[q]
               /\ q \in Merging \ racing
               /\ pc[q] = "writing" => HeldByOther(p)
      BY <1>10, <2>1, <2>3
         DEF Unlink, Finish, GoTo, Inv, TypeOK, HeldByOther, Merging
  <2> QED
      BY <2>1, <2>2, <2>3 DEF Inv, Saving, RulesIn
<1>11. ASSUME NEW p \in Programs, Apply(p)
      PROVE  Saving'
    BY <1>11 DEF Inv, TypeOK, Saving, Merging, Applying, Saved, Apply, Promise,
       Finish, GoTo, files
<1>12. ASSUME NEW c \in Drafts, Edit(c)
      PROVE  Saving'
    BY <1>12 DEF Inv, TypeOK, Saving, Merging, Applying, Saved, Edit, Withdraw,
       copies
<1>13. CASE UNCHANGED vars
    BY <1>13 DEF Inv, TypeOK, Saving, Merging, Applying, Saved, vars, files,
       copies, history
<1> QED
    BY <1>1, <1>2, <1>3, <1>4, <1>5, <1>6, <1>7, <1>8, <1>9, <1>10, <1>11,
       <1>12, <1>13 DEF Next, Program

(* A copy that races nobody replaces the file by one with more rules. *)
LEMMA ReplaceKeeps ==
    ASSUME Inv, NEW p \in Programs, Replace(p), p \notin racing
    PROVE  /\ file' = Holding(updated[p]) /\ Readable(file')
           /\ file'.rules = updated[p]
           /\ RulesIn(file) \subseteq RulesIn(file')
           /\ \A d : Named(d, file.rules) => Named(d, file'.rules)
<1>1. p \in Merging \ racing /\ pc[p] = "replacing"
    BY DEF Replace, Merging
<1>2. tmp = Holding(updated[p]) /\ RulesIn(file) \subseteq updated[p]
    BY <1>1 DEF Replace, Inv, Saving, Absent
<1>3. file' = Holding(updated[p]) /\ file'.rules = updated[p] /\ Readable(file')
    BY <1>2, HoldingHolds DEF Replace
<1>4. file.rules \in SUBSET Rules
    BY ContentsHold DEF Inv, TypeOK
<1> QED
    BY <1>2, <1>3, <1>4, LoadedAgain, NamedByMore DEF RulesIn

(* Every step keeps what has been saved. *)
LEMMA AppliedStep ==
    ASSUME Inv, [Next]_vars
    PROVE  Applied'
<1>1. ASSUME NEW p \in Programs, Launch(p)
      PROVE  Applied'
    BY <1>1 DEF Inv, TypeOK, Applied, Applying, Launch, GoTo, files, history
<1>2. ASSUME NEW p \in Programs, Exit(p)
      PROVE  Applied'
    BY <1>2 DEF Inv, TypeOK, Applied, Applying, Exit, GoTo, files
<1>3. ASSUME NEW p \in Programs, NEW ds \in SUBSET Disks, Protect(p, ds)
      PROVE  Applied'
    BY <1>3 DEF Inv, TypeOK, Applied, Applying, Protect, GoTo, files, history
<1>4. ASSUME NEW p \in Programs, Load(p)
      PROVE  Applied'
    BY <1>4 DEF Inv, TypeOK, Applied, Applying, Load, GoTo, files
<1>5. ASSUME NEW p \in Programs, GiveUp(p)
      PROVE  Applied'
    BY <1>5 DEF Inv, TypeOK, Applied, Applying, GiveUp, Finish, GoTo, files
<1>6. ASSUME NEW p \in Programs, Open(p)
      PROVE  Applied'
    BY <1>6 DEF Inv, TypeOK, Applied, Applying, Open, GoTo, history
<1>7. ASSUME NEW p \in Programs, Write(p)
      PROVE  Applied'
    BY <1>7 DEF Inv, TypeOK, Applied, Applying, Write, GoTo, history
<1>8. ASSUME NEW p \in Programs, Replace(p)
      PROVE  Applied'
  <2>1. SUFFICES ASSUME NEW q \in Applying' \ racing', NEW d \in adding'[q]
                 PROVE  Named(d, file'.rules)
      BY DEF Applied
  <2>2. p \notin racing
      BY <1>8, <2>1 DEF Replace, GoTo, Applying, Inv, TypeOK
  <2>3. CASE q = p
      BY <1>8, <2>1, <2>2, <2>3, ReplaceKeeps, NamedByKey
         DEF Replace, Inv, TypeOK, Ready, Saved
  <2>4. CASE q # p
      BY <1>8, <2>1, <2>2, <2>4, ReplaceKeeps
         DEF Replace, GoTo, Inv, TypeOK, Applying, Applied
  <2> QED
      BY <2>3, <2>4
<1>9. ASSUME NEW p \in Programs, SaveFails(p)
      PROVE  Applied'
    BY <1>9 DEF Inv, TypeOK, Applied, Applying, SaveFails, GoTo, files, history
<1>10. ASSUME NEW p \in Programs, Unlink(p)
      PROVE  Applied'
    BY <1>10 DEF Inv, TypeOK, Applied, Applying, Unlink, Finish, GoTo
<1>11. ASSUME NEW p \in Programs, Apply(p)
      PROVE  Applied'
    BY <1>11 DEF Inv, TypeOK, Applied, Applying, Apply, Promise, Finish, GoTo,
       files
<1>12. ASSUME NEW c \in Drafts, Edit(c)
      PROVE  Applied'
    BY <1>12 DEF Inv, TypeOK, Applied, Applying, Edit, Withdraw, copies
<1>13. CASE UNCHANGED vars
    BY <1>13 DEF Inv, TypeOK, Applied, Applying, vars, files, copies, history
<1> QED
    BY <1>1, <1>2, <1>3, <1>4, <1>5, <1>6, <1>7, <1>8, <1>9, <1>10, <1>11,
       <1>12, <1>13 DEF Next, Program

(* Every step keeps what has been told. *)
LEMMA ToldStep ==
    ASSUME Inv, [Next]_vars
    PROVE  Told'
<1>1. ASSUME NEW p \in Programs, Launch(p)
      PROVE  Told'
  <2>1. SUFFICES ASSUME NEW q \in Programs, NEW d \in told'[q]
                 PROVE  Named(d, file'.rules) /\ RulesFor(d) \cap policy'[q] # {}
      BY DEF Told
  <2>2. CASE q = p
      BY <1>1, <2>1, <2>2, NamedByLoaded DEF Launch, files, Inv, TypeOK, RulesIn
  <2>3. CASE q # p
      BY <1>1, <2>1, <2>3 DEF Launch, files, Inv, TypeOK, Told
  <2> QED
      BY <2>2, <2>3
<1>2. ASSUME NEW p \in Programs, Exit(p)
      PROVE  Told'
    BY <1>2 DEF Inv, TypeOK, Ready, Saved, Told, Applied, Applying, Exit, GoTo,
       files
<1>3. ASSUME NEW p \in Programs, NEW ds \in SUBSET Disks, Protect(p, ds)
      PROVE  Told'
    BY <1>3 DEF Inv, TypeOK, Ready, Saved, Told, Applied, Applying, Protect,
       GoTo, files, history
<1>4. ASSUME NEW p \in Programs, Load(p)
      PROVE  Told'
    BY <1>4 DEF Inv, TypeOK, Ready, Saved, Told, Applied, Applying, Load, GoTo,
       files
<1>5. ASSUME NEW p \in Programs, GiveUp(p)
      PROVE  Told'
    BY <1>5 DEF Inv, TypeOK, Ready, Saved, Told, Applied, Applying, GiveUp,
       Finish, GoTo, files
<1>6. ASSUME NEW p \in Programs, Open(p)
      PROVE  Told'
    BY <1>6 DEF Inv, TypeOK, Ready, Saved, Told, Applied, Applying, Open, GoTo,
       history
<1>7. ASSUME NEW p \in Programs, Write(p)
      PROVE  Told'
    BY <1>7 DEF Inv, TypeOK, Ready, Saved, Told, Applied, Applying, Write, GoTo,
       history
<1>8. ASSUME NEW p \in Programs, Replace(p)
      PROVE  Told'
  <2>1. SUFFICES ASSUME NEW q \in Programs, NEW d \in told'[q]
                 PROVE  Named(d, file'.rules) /\ RulesFor(d) \cap policy'[q] # {}
      BY DEF Told
  <2>2. d \in told[q] /\ policy' = policy /\ file' = tmp
      BY <1>8, <2>1 DEF Replace, Withdraw
  <2>3. CASE p \in racing
      BY <1>8, <2>1, <2>2, <2>3 DEF Replace, Withdraw, Inv, Told
  <2>4. CASE p \notin racing
      BY <1>8, <2>2, <2>4, ReplaceKeeps DEF Inv, Told
  <2> QED
      BY <2>3, <2>4
<1>9. ASSUME NEW p \in Programs, SaveFails(p)
      PROVE  Told'
    BY <1>9 DEF Inv, TypeOK, Ready, Saved, Told, Applied, Applying, SaveFails,
       GoTo, files, history
<1>10. ASSUME NEW p \in Programs, Unlink(p)
      PROVE  Told'
    BY <1>10 DEF Inv, TypeOK, Ready, Saved, Told, Applied, Applying, Unlink,
       Finish, GoTo
<1>11. ASSUME NEW p \in Programs, Apply(p)
      PROVE  Told'
  <2>1. SUFFICES ASSUME NEW q \in Programs, NEW d \in told'[q]
                 PROVE  Named(d, file'.rules) /\ RulesFor(d) \cap policy'[q] # {}
      BY DEF Told
  <2>2. CASE q # p
      BY <1>11, <2>1, <2>2 DEF Apply, Promise, files, Inv, TypeOK, Told
  <2>3. CASE q = p
    <3>1. policy'[p] = updated[p] /\ file' = file /\ pc[p] = "applying"
        BY <1>11 DEF Apply, files, Inv, TypeOK
    <3>2. CASE d \in told[p]
        BY <2>3, <3>1, <3>2 DEF Inv, Told, Ready, Saved
    <3>3. CASE d \in adding[p] /\ p \notin racing
        BY <2>3, <3>1, <3>3 DEF Inv, Applied, Applying, Ready, Saved, RulesFor
    <3> QED
        BY <1>11, <2>1, <2>3, <3>2, <3>3 DEF Apply, Promise, Inv, TypeOK
  <2> QED
      BY <2>2, <2>3
<1>12. ASSUME NEW c \in Drafts, Edit(c)
      PROVE  Told'
    BY <1>12 DEF Inv, TypeOK, Ready, Saved, Told, Applied, Applying, Edit,
       Withdraw, copies
<1>13. CASE UNCHANGED vars
    BY <1>13 DEF Inv, TypeOK, Ready, Saved, Told, Applied, Applying, vars,
       files, copies, history
<1> QED
    BY <1>1, <1>2, <1>3, <1>4, <1>5, <1>6, <1>7, <1>8, <1>9, <1>10, <1>11,
       <1>12, <1>13 DEF Next, Program

-----------------------------------------------------------------------------

(* The inductive invariant. *)
THEOREM RulesInvariance == Spec => []Inv
<1>1. Inv /\ [Next]_vars => Inv'
    BY TypeStep, ReadyStep, SavingStep, AppliedStep, ToldStep DEF Inv
<1> QED
    BY InitInv, <1>1, PTL DEF Spec

(* The file, every copy's policy and what it is about to save only ever     *)
(* hold rules somebody typed or the fingerprint of a disk.                  *)
THEOREM RulesTypeCorrect == Spec => []TypeOK
<1>1. Inv => TypeOK
    BY DEF Inv
<1> QED
    BY RulesInvariance, <1>1, PTL

(* A disk the program has said to be protected stays so: in the file, for   *)
(* every later start, and in its own policy, for every wipe.                *)
THEOREM RulesPromisesKept == Spec => []PromisesAreKept
<1>1. Inv => PromisesAreKept
  <2> SUFFICES ASSUME Inv, NEW p \in Programs, NEW d \in told[p]
               PROVE  /\ Readable(file) /\ Named(d, file.rules)
                      /\ ~CanWipe(d, PolicyOf(p))
      BY DEF PromisesAreKept
  <2>1. Named(d, file.rules) /\ RulesFor(d) \cap policy[p] # {}
      BY DEF Inv, Told
  <2>2. Readable(file)
      BY <2>1, NamedInFile DEF Inv, TypeOK
  <2>3. ~CanWipe(d, PolicyOf(p))
      BY <2>1, RuleProtects DEF PolicyOf
  <2> QED
      BY <2>1, <2>2, <2>3
<1> QED
    BY RulesInvariance, <1>1, PTL

(* No step of a program that races nobody takes a rule out of the file or   *)
(* spoils it.                                                               *)
LEMMA DropStep ==
    ASSUME Inv, [Next]_vars, NEW q \in Programs \ racing, pc'[q] # pc[q],
           Readable(file)
    PROVE  Readable(file') /\ RulesIn(file) \subseteq RulesIn(file')
<1>1. ASSUME NEW p \in Programs, Launch(p)
      PROVE  Readable(file') /\ RulesIn(file) \subseteq RulesIn(file')
    BY <1>1 DEF RulesIn, Launch, GoTo, files, history
<1>2. ASSUME NEW p \in Programs, Exit(p)
      PROVE  Readable(file') /\ RulesIn(file) \subseteq RulesIn(file')
    BY <1>2 DEF RulesIn, Exit, GoTo, files
<1>3. ASSUME NEW p \in Programs, NEW ds \in SUBSET Disks, Protect(p, ds)
      PROVE  Readable(file') /\ RulesIn(file) \subseteq RulesIn(file')
    BY <1>3 DEF RulesIn, Protect, GoTo, files, history
<1>4. ASSUME NEW p \in Programs, Load(p)
      PROVE  Readable(file') /\ RulesIn(file) \subseteq RulesIn(file')
    BY <1>4 DEF RulesIn, Load, GoTo, files
<1>5. ASSUME NEW p \in Programs, GiveUp(p)
      PROVE  Readable(file') /\ RulesIn(file) \subseteq RulesIn(file')
    BY <1>5 DEF RulesIn, GiveUp, Finish, GoTo, files
<1>6. ASSUME NEW p \in Programs, Open(p)
      PROVE  Readable(file') /\ RulesIn(file) \subseteq RulesIn(file')
    BY <1>6 DEF RulesIn, Open, GoTo, history
<1>7. ASSUME NEW p \in Programs, Write(p)
      PROVE  Readable(file') /\ RulesIn(file) \subseteq RulesIn(file')
    BY <1>7 DEF RulesIn, Write, GoTo, history
<1>8. ASSUME NEW p \in Programs, Replace(p)
      PROVE  Readable(file') /\ RulesIn(file) \subseteq RulesIn(file')
  <2>1. q = p
      BY <1>8 DEF Replace, GoTo, Inv, TypeOK
  <2> QED
      BY <1>8, <2>1, ReplaceKeeps
<1>9. ASSUME NEW p \in Programs, SaveFails(p)
      PROVE  Readable(file') /\ RulesIn(file) \subseteq RulesIn(file')
    BY <1>9 DEF RulesIn, SaveFails, GoTo, files, history
<1>10. ASSUME NEW p \in Programs, Unlink(p)
      PROVE  Readable(file') /\ RulesIn(file) \subseteq RulesIn(file')
    BY <1>10 DEF RulesIn, Unlink, Finish, GoTo
<1>11. ASSUME NEW p \in Programs, Apply(p)
      PROVE  Readable(file') /\ RulesIn(file) \subseteq RulesIn(file')
    BY <1>11 DEF RulesIn, Apply, Promise, Finish, GoTo, files
<1>12. ASSUME NEW c \in Drafts, Edit(c)
      PROVE  Readable(file') /\ RulesIn(file) \subseteq RulesIn(file')
    BY <1>12 DEF Edit, copies
<1>13. CASE UNCHANGED vars
    BY <1>13 DEF RulesIn, vars, files, copies, history
<1> QED
    BY <1>1, <1>2, <1>3, <1>4, <1>5, <1>6, <1>7, <1>8, <1>9, <1>10, <1>11,
       <1>12, <1>13 DEF Next, Program

(* add_protected_stable_keys adds "without dropping existing rules".        *)
THEOREM RulesNothingDropped == Spec => ProgramsDropNothing
<1>1. Inv /\ [Next]_vars =>
          [\A p \in Programs \ racing :
              pc'[p] # pc[p] /\ Readable(file) =>
                  Readable(file') /\ RulesIn(file) \subseteq RulesIn(file')]_vars
    BY DropStep
<1> QED
    BY RulesInvariance, <1>1, PTL DEF Spec, ProgramsDropNothing

-----------------------------------------------------------------------------
(* More rules and more critical letters never make a disk eligible, and     *)
(* neither do fewer bus types: adding to the file can only protect.         *)
THEOREM RulesOnlyProtect ==
    ASSUME NEW disk, NEW policies, NEW stricter,
           policies.rules \subseteq stricter.rules,
           policies.letters \subseteq stricter.letters,
           stricter.buses \subseteq policies.buses,
           CanWipe(disk, stricter)
    PROVE  CanWipe(disk, policies)
<1>1. Reasons(disk, policies) \subseteq Reasons(disk, stricter)
    BY DEF Reasons
<1> QED
    BY <1>1 DEF CanWipe

(* What "Permanently protect" adds, a disk's fingerprint, protects the      *)
(* disks that have this fingerprint and no others, however much they are    *)
(* alike: of the disks that may be wiped, the others still may.             *)
THEOREM KeysAreExact ==
    ASSUME NEW disk, NEW other, NEW rules, NEW buses, NEW letters,
           CanWipe(other, [rules |-> rules, buses |-> buses, letters |-> letters])
    PROVE  CanWipe(other, [rules |-> rules \cup {KeyRule(disk)}, buses |-> buses,
                           letters |-> letters])
               <=> KeyRule(other) # KeyRule(disk)
<1> DEFINE old == [rules |-> rules, buses |-> buses, letters |-> letters]
           new == [rules |-> rules \cup {KeyRule(disk)}, buses |-> buses,
                   letters |-> letters]
<1>1. KeyRule(disk) \notin {SerialRule(other), IdRule(other)}
    BY DEF KeyRule, SerialRule, IdRule, Rule
<1>2. RulesFor(other) \cap new.rules =
          (RulesFor(other) \cap rules) \cup (RulesFor(other) \cap {KeyRule(disk)})
    OBVIOUS
<1>3. RulesFor(other) \cap {KeyRule(disk)} = {} <=> KeyRule(other) # KeyRule(disk)
    BY <1>1 DEF RulesFor
<1>4. Reasons(other, new) =
          Reasons(other, old) \cup (RulesFor(other) \cap {KeyRule(disk)})
    BY <1>2 DEF Reasons
<1> QED
    BY <1>3, <1>4 DEF CanWipe

-----------------------------------------------------------------------------
(* The rules in force, and those about to be saved and put in force, are    *)
(* normalised and none is blank.                                            *)
NormalInForce ==
    \A p \in Programs : Loaded(policy[p]) = policy[p] /\ Loaded(updated[p]) = updated[p]

(* A rule in force protects exactly the disks that it names, however it was *)
(* spelled in the file; a blank one protects nothing.                       *)
RulesMeanWhatTheySay ==
    \A p \in Programs, d \in Disks :
        Named(d, policy[p]) <=> RulesFor(d) \cap policy[p] # {}

LEMMA LoadedTwice ==
    ASSUME NEW rules \in SUBSET Rules
    PROVE  Loaded(Loaded(rules)) = Loaded(rules)
  BY NormalRules DEF Loaded

LEMMA LoadedWithKeys ==
    ASSUME NEW rules \in SUBSET Rules, Loaded(rules) = rules, NEW ds \in SUBSET Disks
    PROVE  Loaded(rules \cup {KeyRule(d) : d \in ds}) = rules \cup {KeyRule(d) : d \in ds}
<1>1. \A d : NormalRule(KeyRule(d)) = KeyRule(d) /\ NotBlank(KeyRule(d))
    BY DEF NormalRule, KeyRule, NotBlank, Rule
<1>2. \A r \in rules : NormalRule(r) \in Rules
    BY NormalRules
<1> QED
    BY <1>1, <1>2 DEF Loaded

LEMMA NormalStep ==
    ASSUME TypeOK, NormalInForce, [Next]_vars
    PROVE  NormalInForce'
<1>1. file.rules \in SUBSET Rules
    BY ContentsHold DEF TypeOK
<1>2. RulesIn(file) \in SUBSET Rules /\ Loaded(RulesIn(file)) = RulesIn(file)
    BY <1>1, LoadedAreRules, LoadedTwice DEF RulesIn
<1>3. Loaded({}) = {}
    BY DEF Loaded
<1>4. ASSUME NEW p \in Programs, Launch(p)
      PROVE  NormalInForce'
    BY <1>2, <1>4 DEF Launch, TypeOK, NormalInForce
<1>5. ASSUME NEW p \in Programs, Exit(p)
      PROVE  NormalInForce'
    BY <1>3, <1>5 DEF Exit, TypeOK, NormalInForce
<1>6. ASSUME NEW p \in Programs, Load(p)
      PROVE  NormalInForce'
  <2>1. Loaded(Merged(p)) = Merged(p)
      BY <1>2, LoadedWithKeys DEF Merged, TypeOK
  <2> QED
      BY <1>6, <2>1 DEF Load, TypeOK, NormalInForce
<1>7. ASSUME NEW p \in Programs, GiveUp(p) \/ Unlink(p)
      PROVE  NormalInForce'
    BY <1>3, <1>7 DEF GiveUp, Unlink, Finish, TypeOK, NormalInForce
<1>8. ASSUME NEW p \in Programs, Apply(p)
      PROVE  NormalInForce'
    BY <1>3, <1>8 DEF Apply, Finish, TypeOK, NormalInForce
<1>9. ASSUME NEW p \in Programs,
             \/ \E ds \in SUBSET Disks : Protect(p, ds)
             \/ Open(p) \/ Write(p) \/ Replace(p) \/ SaveFails(p)
      PROVE  NormalInForce'
    BY <1>9 DEF Protect, Open, Write, Replace, SaveFails, NormalInForce
<1>10. CASE (\E c \in Drafts : Edit(c)) \/ UNCHANGED vars
    BY <1>10 DEF Edit, vars, copies, NormalInForce
<1> QED
    BY <1>4, <1>5, <1>6, <1>7, <1>8, <1>9, <1>10 DEF Next, Program

(* Whatever is typed into the file, saved or put in force, a running        *)
(* program's rules mean what the user meant by them.                        *)
THEOREM RulesInForce == Spec => []RulesMeanWhatTheySay
<1>1. Init => NormalInForce
    BY DEF Init, NormalInForce, Loaded
<1>2. Inv /\ NormalInForce /\ [Next]_vars => NormalInForce'
    BY NormalStep DEF Inv
<1>3. NormalInForce => RulesMeanWhatTheySay
    BY NamedByLoaded DEF NormalInForce, RulesMeanWhatTheySay
<1> QED
    BY <1>1, <1>2, <1>3, RulesInvariance, PTL DEF Spec
=============================================================================
