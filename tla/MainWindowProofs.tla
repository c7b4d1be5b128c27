-------------------------- MODULE MainWindowProofs --------------------------
(***************************************************************************)
(* Proofs about MainWindow, for any number of disks and disk numbers.      *)
(***************************************************************************)
EXTENDS MainWindow, TLAPS

(* What the rows say of a disk is in accord with the policy and with the    *)
(* discovery they were made from.                                           *)
RowsAreAssessed ==
    \A n \in Numbers : rows[n] # Null /\ rows[n].wipeable =>
        rows[n].disk \notin protected /\ ~rows[n].barred

(* So is what a dialog offers; it was wanted, unless the rows are new. *)
OfferIsAgreed ==
    dialog = "confirm" =>
        /\ offered.disk \notin protected /\ ~offered.barred
        /\ offered.disk \in wanted \/ replaced

(* The numbers still to go through stand for wanted disks likewise. *)
RestIsWanted ==
    dialog = "confirm" /\ ~replaced =>
        \A n \in rest : rows[n] # Null => rows[n].disk \in wanted

Inv == TypeOK /\ BusyRowsOfferNoWipe /\ RowsAreAssessed /\ OfferIsAgreed /\ RestIsWanted

-----------------------------------------------------------------------------
(* Finding no disk is a layout; initially. *)
LEMMA EmptyLayout == NoDisks \in Layouts
    BY DEF NoDisks, Layouts

LEMMA InitInv == Init => Inv
<1> SUFFICES ASSUME Init PROVE Inv
    OBVIOUS
<1>1. TypeOK
    BY EmptyLayout DEF Init, TypeOK, Wipeable
<1> QED
    BY <1>1 DEF Init, Inv, BusyRowsOfferNoWipe, RowsAreAssessed, OfferIsAgreed,
       RestIsWanted, ActiveNumbers

-----------------------------------------------------------------------------
(* Assessing a layout gives assessments that accord with the policy and     *)
(* with what the discovery saw.                                             *)
LEMMA AssessTypes ==
    ASSUME NEW layout \in [Numbers -> Sightings \cup {Null}], NEW policy
    PROVE  /\ Assess(layout, policy) \in [Numbers -> Assessments \cup {Null}]
           /\ \A n \in Numbers :
                 Assess(layout, policy)[n] # Null /\ Assess(layout, policy)[n].wipeable =>
                     /\ Assess(layout, policy)[n].disk \notin policy
                     /\ ~Assess(layout, policy)[n].barred
<1>1. ASSUME NEW n \in Numbers
      PROVE  /\ Assess(layout, policy)[n] \in Assessments \cup {Null}
             /\ Assess(layout, policy)[n] # Null /\ Assess(layout, policy)[n].wipeable =>
                      /\ Assess(layout, policy)[n].disk \notin policy
                      /\ ~Assess(layout, policy)[n].barred
  <2>1. CASE layout[n] = Null
    BY <1>1, <2>1 DEF Assess
  <2>2. CASE layout[n] # Null
    <3>1. layout[n].disk \in Disks /\ layout[n].barred \in BOOLEAN
        BY <1>1, <2>2 DEF Sightings
    <3> DEFINE free == ~layout[n].barred /\ layout[n].disk \notin policy
    <3>2. Assess(layout, policy)[n] =
            [disk |-> layout[n].disk, barred |-> layout[n].barred, number |-> n,
             wipeable |-> free]
        BY <1>1, <2>2 DEF Assess
    <3>3. free \in BOOLEAN
        OBVIOUS
    <3>4. free => layout[n].disk \notin policy /\ ~layout[n].barred
        OBVIOUS
    <3> HIDE DEF free
    <3> QED
        BY <1>1, <3>1, <3>2, <3>3, <3>4 DEF Assessments
  <2> QED
    BY <2>1, <2>2
<1> QED
    BY <1>1 DEF Assess

(* What a layout says of a number is a disk as reported, or nothing; and so *)
(* does the inventory the rows were made from.                              *)
LEMMA LayoutTypes ==
    /\ Layouts \subseteq [Numbers -> Sightings \cup {Null}]
    /\ TypeOK => Shown \in [Numbers -> Sightings \cup {Null}]
<1>1. Layouts \subseteq [Numbers -> Sightings \cup {Null}]
    BY DEF Layouts
<1>2. ASSUME TypeOK, NEW n \in Numbers, rows[n] # Null
      PROVE  [disk |-> rows[n].disk, barred |-> rows[n].barred] \in Sightings
  <2>1. rows[n] \in Assessments
    BY <1>2 DEF TypeOK
  <2> QED
    BY <2>1 DEF Assessments, Sightings
<1> QED
    BY <1>1, <1>2 DEF Shown

(* Every step keeps the types. *)
LEMMA TypeStep ==
    ASSUME Inv, [Next]_vars
    PROVE  TypeOK'
<1>1. ASSUME Refresh
      PROVE  TypeOK'
    BY <1>1, NullAssumption, NumbersAssumption DEF Inv, TypeOK, Assessments,
    Jobs, Wipeable, Refresh, discovery, inventory, request
<1>2. ASSUME Discover
      PROVE  TypeOK'
    BY <1>2, NullAssumption, NumbersAssumption DEF Inv, TypeOK, Assessments,
    Jobs, Wipeable, Discover, discovery, inventory, request
<1>3. ASSUME Poll
      PROVE  TypeOK'
  <2>1. CASE refresh = "failed"
    BY <1>3, <2>1, EmptyLayout DEF Poll, Inv, TypeOK, Wipeable, discovery, inventory
  <2>2. CASE refresh # "failed"
    <3>1. rows' \in [Numbers -> Assessments \cup {Null}]
        BY <1>3, <2>2, AssessTypes, LayoutTypes DEF Poll, Inv, TypeOK
    <3>2. checked' \subseteq Wipeable(rows') /\ busy' \subseteq Numbers
        BY <1>3, <2>2 DEF Poll, Render
    <3>3. Wipeable(rows)' = Wipeable(rows')
        BY DEF Wipeable
    <3> QED
        BY <1>3, <2>2, <3>1, <3>2, <3>3, EmptyLayout DEF Poll, Inv, TypeOK
  <2> QED
    BY <2>1, <2>2
<1>4. ASSUME Repaint
      PROVE  TypeOK'
    BY <1>4, NullAssumption, NumbersAssumption DEF Inv, TypeOK, Assessments,
    Jobs, Wipeable, Repaint, Render, discovery, inventory, request
<1>5. ASSUME NEW d \in Disks, Toggle(d)
      PROVE  TypeOK'
    BY <1>5, NullAssumption, NumbersAssumption DEF Inv, TypeOK, Assessments,
    Jobs, Wipeable, Toggle, discovery, inventory, request
<1>6. ASSUME WipeSelected
      PROVE  TypeOK'
  <2>1. /\ Selected \subseteq Numbers
        /\ \A n \in Selected : rows[n] \in Assessments
    BY DEF Selected, Inv, TypeOK
  <2>2. PICK n \in Selected :
            IF rows[n] # Null /\ rows[n].wipeable
            THEN dialog' = "confirm" /\ offered' = rows[n] /\ rest' = Selected \ {n}
            ELSE dialog' = "none" /\ offered' = Null /\ rest' = {}
    BY <1>6 DEF WipeSelected, Click, OfferFirst
  <2>3. /\ dialog' \in {"none", "confirm", "protect"}
        /\ offered' \in IF dialog' = "confirm" THEN Assessments ELSE {Null}
        /\ rest' \subseteq Numbers
    BY <2>1, <2>2
  <2>4. wanted' = {rows[m].disk : m \in Selected} /\ replaced' = FALSE
    BY <1>6 DEF WipeSelected, Click
  <2>5. wanted' \subseteq Disks
    BY <2>1, <2>4 DEF Assessments
  <2>6. UNCHANGED <<discovery, inventory, protected, jobs, asked>>
    BY <1>6 DEF WipeSelected, Click
  <2> QED
    BY <2>3, <2>4, <2>5, <2>6 DEF Inv, TypeOK, Wipeable, discovery, inventory
<1>7. ASSUME NEW n \in Numbers, WipeButton(n)
      PROVE  TypeOK'
  <2>1. rows[n] \in Assessments
    BY <1>7, NullAssumption DEF WipeButton, Inv, TypeOK
  <2>2. rows[n].disk \in Disks
    BY <2>1 DEF Assessments
  <2>3. wanted' = {rows[n].disk}
    BY <1>7 DEF WipeButton, Click
  <2>4. /\ dialog' = "confirm"
        /\ offered' = rows[n]
        /\ rest' = {}
    BY <1>7 DEF WipeButton, Click, OfferFirst
  <2>5. UNCHANGED <<discovery, inventory, protected, jobs, asked>> /\ replaced' = FALSE
    BY <1>7 DEF WipeButton, Click
  <2> QED
    BY <2>1, <2>2, <2>3, <2>4, <2>5 DEF Inv, TypeOK, Wipeable, discovery, inventory
<1>8. ASSUME Accept
      PROVE  TypeOK'
  <2>1. offered \in Assessments
    BY <1>8 DEF Accept, Inv, TypeOK
  <2>2. jobs' \subseteq Jobs
    BY <1>8, <2>1 DEF Accept, Agreed, Inv, TypeOK, Assessments, Jobs
  <2>3. checked' \subseteq Wipeable(rows) /\ busy' \subseteq Numbers
    BY <1>8 DEF Accept, Render
  <2>4. Wipeable(rows)' = Wipeable(rows)
    BY <1>8 DEF Accept, Wipeable
  <2>5. CASE rest = {}
    BY <1>8, <2>2, <2>3, <2>4, <2>5 DEF Accept, Dismiss, Inv, TypeOK, discovery
  <2>6. CASE rest # {}
    <3>1. PICK n \in rest :
            IF rows[n] # Null /\ rows[n].wipeable
            THEN dialog' = "confirm" /\ offered' = rows[n] /\ rest' = rest \ {n}
            ELSE dialog' = "none" /\ offered' = Null /\ rest' = {}
        BY <1>8, <2>6 DEF Accept, OfferFirst
    <3>2. rows[n] # Null => rows[n] \in Assessments
        BY <3>1 DEF Inv, TypeOK
    <3>3. /\ dialog' \in {"none", "confirm", "protect"}
          /\ offered' \in IF dialog' = "confirm" THEN Assessments ELSE {Null}
          /\ rest' \subseteq Numbers
        BY <3>1, <3>2 DEF Inv, TypeOK
    <3> QED
        BY <1>8, <2>2, <2>3, <2>4, <2>6, <3>3 DEF Accept, Inv, TypeOK, discovery
  <2> QED
    BY <2>5, <2>6
<1>9. ASSUME Abandon
      PROVE  TypeOK'
    BY <1>9, NullAssumption, NumbersAssumption DEF Inv, TypeOK, Assessments,
    Jobs, Wipeable, Abandon, Dismiss, discovery, inventory, request
<1>10. ASSUME ProtectSelected
      PROVE  TypeOK'
    BY <1>10, NullAssumption, NumbersAssumption DEF Inv, TypeOK, Assessments,
    Jobs, Wipeable, ProtectSelected, Selected, discovery, inventory, request
<1>11. ASSUME Protect
      PROVE  TypeOK'
    BY <1>11, NullAssumption, NumbersAssumption DEF Inv, TypeOK, Assessments,
    Jobs, Wipeable, Protect, Render, Assess, Shown, Dismiss, discovery,
    inventory, request
<1>12. ASSUME NEW j \in jobs, JobEnds(j)
      PROVE  TypeOK'
    BY <1>12, NullAssumption, NumbersAssumption DEF Inv, TypeOK, Assessments,
    Jobs, Wipeable, JobEnds, discovery, inventory, request
<1>13. CASE UNCHANGED vars
    BY <1>13 DEF Inv, TypeOK, Assessments, Jobs, Wipeable, vars, discovery,
    inventory, request
<1> QED
    BY <1>1, <1>2, <1>3, <1>4, <1>5, <1>6, <1>7, <1>8, <1>9, <1>10, <1>11,
    <1>12, <1>13 DEF Next, Timers, Clicks
(* Every step keeps the buttons in accord with the jobs. *)
LEMMA BusyStep ==
    ASSUME Inv, [Next]_vars
    PROVE  BusyRowsOfferNoWipe'
<1>1. ASSUME Refresh
      PROVE  BusyRowsOfferNoWipe'
    BY <1>1 DEF Inv, TypeOK, Assessments, Jobs, BusyRowsOfferNoWipe,
    ActiveNumbers, Refresh, discovery, inventory, request
<1>2. ASSUME Discover
      PROVE  BusyRowsOfferNoWipe'
    BY <1>2 DEF Inv, TypeOK, Assessments, Jobs, BusyRowsOfferNoWipe,
    ActiveNumbers, Discover, discovery, inventory, request
<1>3. ASSUME Poll
      PROVE  BusyRowsOfferNoWipe'
    BY <1>3 DEF Inv, TypeOK, Assessments, Jobs, BusyRowsOfferNoWipe,
    ActiveNumbers, Poll, Render, Assess, NoDisks, discovery, inventory, request
<1>4. ASSUME Repaint
      PROVE  BusyRowsOfferNoWipe'
    BY <1>4 DEF Inv, TypeOK, Assessments, Jobs, BusyRowsOfferNoWipe,
    ActiveNumbers, Repaint, Render, discovery, inventory, request
<1>5. ASSUME NEW d \in Disks, Toggle(d)
      PROVE  BusyRowsOfferNoWipe'
    BY <1>5 DEF Inv, TypeOK, Assessments, Jobs, BusyRowsOfferNoWipe,
    ActiveNumbers, Toggle, discovery, inventory, request
<1>6. ASSUME WipeSelected
      PROVE  BusyRowsOfferNoWipe'
    BY <1>6 DEF Inv, TypeOK, Assessments, Jobs, BusyRowsOfferNoWipe,
    ActiveNumbers, WipeSelected, Selected, Click, OfferFirst, discovery,
    inventory, request
<1>7. ASSUME NEW n \in Numbers, WipeButton(n)
      PROVE  BusyRowsOfferNoWipe'
    BY <1>7 DEF Inv, TypeOK, Assessments, Jobs, BusyRowsOfferNoWipe,
    ActiveNumbers, WipeButton, Click, OfferFirst, discovery, inventory, request
<1>8. ASSUME Accept
      PROVE  BusyRowsOfferNoWipe'
    BY <1>8 DEF Inv, TypeOK, Assessments, Jobs, BusyRowsOfferNoWipe,
    ActiveNumbers, Accept, Agreed, Render, Dismiss, OfferFirst, discovery,
    inventory, request
<1>9. ASSUME Abandon
      PROVE  BusyRowsOfferNoWipe'
    BY <1>9 DEF Inv, TypeOK, Assessments, Jobs, BusyRowsOfferNoWipe,
    ActiveNumbers, Abandon, Dismiss, discovery, inventory, request
<1>10. ASSUME ProtectSelected
      PROVE  BusyRowsOfferNoWipe'
    BY <1>10 DEF Inv, TypeOK, Assessments, Jobs, BusyRowsOfferNoWipe,
    ActiveNumbers, ProtectSelected, Selected, discovery, inventory, request
<1>11. ASSUME Protect
      PROVE  BusyRowsOfferNoWipe'
    BY <1>11 DEF Inv, TypeOK, Assessments, Jobs, BusyRowsOfferNoWipe,
    ActiveNumbers, Protect, Render, Assess, Shown, Dismiss, discovery,
    inventory, request
<1>12. ASSUME NEW j \in jobs, JobEnds(j)
      PROVE  BusyRowsOfferNoWipe'
    BY <1>12 DEF Inv, TypeOK, Assessments, Jobs, BusyRowsOfferNoWipe,
    ActiveNumbers, JobEnds, discovery, inventory, request
<1>13. CASE UNCHANGED vars
    BY <1>13 DEF Inv, TypeOK, Assessments, Jobs, BusyRowsOfferNoWipe,
    ActiveNumbers, vars, discovery, inventory, request
<1> QED
    BY <1>1, <1>2, <1>3, <1>4, <1>5, <1>6, <1>7, <1>8, <1>9, <1>10, <1>11,
    <1>12, <1>13 DEF Next, Timers, Clicks
(* Every step keeps the rows in accord with the policy. *)
LEMMA RowsStep ==
    ASSUME Inv, [Next]_vars
    PROVE  RowsAreAssessed'
<1>1. ASSUME Refresh
      PROVE  RowsAreAssessed'
    BY <1>1, NullAssumption DEF Inv, TypeOK, Assessments, Jobs, RowsAreAssessed,
    Refresh, discovery, inventory, request
<1>2. ASSUME Discover
      PROVE  RowsAreAssessed'
    BY <1>2, NullAssumption DEF Inv, TypeOK, Assessments, Jobs, RowsAreAssessed,
    Discover, discovery, inventory, request
<1>3. ASSUME Poll
      PROVE  RowsAreAssessed'
  <2>1. CASE refresh = "failed"
    BY <1>3, <2>1 DEF Poll, Inv, RowsAreAssessed, inventory
  <2>2. CASE refresh # "failed"
    BY <1>3, <2>2, AssessTypes, LayoutTypes DEF Poll, Inv, TypeOK, RowsAreAssessed
  <2> QED
    BY <2>1, <2>2
<1>4. ASSUME Repaint
      PROVE  RowsAreAssessed'
    BY <1>4, NullAssumption DEF Inv, TypeOK, Assessments, Jobs, RowsAreAssessed,
    Repaint, Render, discovery, inventory, request
<1>5. ASSUME NEW d \in Disks, Toggle(d)
      PROVE  RowsAreAssessed'
    BY <1>5, NullAssumption DEF Inv, TypeOK, Assessments, Jobs, RowsAreAssessed,
    Toggle, discovery, inventory, request
<1>6. ASSUME WipeSelected
      PROVE  RowsAreAssessed'
    BY <1>6, NullAssumption DEF Inv, TypeOK, Assessments, Jobs, RowsAreAssessed,
    WipeSelected, Selected, Click, OfferFirst, discovery, inventory, request
<1>7. ASSUME NEW n \in Numbers, WipeButton(n)
      PROVE  RowsAreAssessed'
    BY <1>7, NullAssumption DEF Inv, TypeOK, Assessments, Jobs, RowsAreAssessed,
    WipeButton, Click, OfferFirst, discovery, inventory, request
<1>8. ASSUME Accept
      PROVE  RowsAreAssessed'
    BY <1>8, NullAssumption DEF Inv, TypeOK, Assessments, Jobs, RowsAreAssessed,
    Accept, Agreed, Render, Dismiss, OfferFirst, discovery, inventory, request
<1>9. ASSUME Abandon
      PROVE  RowsAreAssessed'
    BY <1>9, NullAssumption DEF Inv, TypeOK, Assessments, Jobs, RowsAreAssessed,
    Abandon, Dismiss, discovery, inventory, request
<1>10. ASSUME ProtectSelected
      PROVE  RowsAreAssessed'
    BY <1>10, NullAssumption DEF Inv, TypeOK, Assessments, Jobs,
    RowsAreAssessed, ProtectSelected, Selected, discovery, inventory, request
<1>11. ASSUME Protect
      PROVE  RowsAreAssessed'
    BY <1>11, NullAssumption DEF Inv, TypeOK, Assessments, Jobs,
    RowsAreAssessed, Protect, Render, Assess, Shown, Dismiss, discovery,
    inventory, request
<1>12. ASSUME NEW j \in jobs, JobEnds(j)
      PROVE  RowsAreAssessed'
    BY <1>12, NullAssumption DEF Inv, TypeOK, Assessments, Jobs,
    RowsAreAssessed, JobEnds, discovery, inventory, request
<1>13. CASE UNCHANGED vars
    BY <1>13 DEF Inv, TypeOK, Assessments, Jobs, RowsAreAssessed, vars,
    discovery, inventory, request
<1> QED
    BY <1>1, <1>2, <1>3, <1>4, <1>5, <1>6, <1>7, <1>8, <1>9, <1>10, <1>11,
    <1>12, <1>13 DEF Next, Timers, Clicks
(* Every step keeps the offer agreed. *)
LEMMA OfferStep ==
    ASSUME Inv, [Next]_vars
    PROVE  OfferIsAgreed'
<1>1. ASSUME Refresh
      PROVE  OfferIsAgreed'
    BY <1>1, NullAssumption DEF Inv, TypeOK, Assessments, Jobs, RowsAreAssessed,
    OfferIsAgreed, RestIsWanted, Refresh, discovery, inventory, request
<1>2. ASSUME Discover
      PROVE  OfferIsAgreed'
    BY <1>2, NullAssumption DEF Inv, TypeOK, Assessments, Jobs, RowsAreAssessed,
    OfferIsAgreed, RestIsWanted, Discover, discovery, inventory, request
<1>3. ASSUME Poll
      PROVE  OfferIsAgreed'
    BY <1>3, NullAssumption DEF Inv, TypeOK, Assessments, Jobs, RowsAreAssessed,
    OfferIsAgreed, RestIsWanted, Poll, Render, Assess, NoDisks, discovery,
    inventory, request
<1>4. ASSUME Repaint
      PROVE  OfferIsAgreed'
    BY <1>4, NullAssumption DEF Inv, TypeOK, Assessments, Jobs, RowsAreAssessed,
    OfferIsAgreed, RestIsWanted, Repaint, Render, discovery, inventory, request
<1>5. ASSUME NEW d \in Disks, Toggle(d)
      PROVE  OfferIsAgreed'
    BY <1>5, NullAssumption DEF Inv, TypeOK, Assessments, Jobs, RowsAreAssessed,
    OfferIsAgreed, RestIsWanted, Toggle, discovery, inventory, request
<1>6. ASSUME WipeSelected
      PROVE  OfferIsAgreed'
    BY <1>6, NullAssumption DEF Inv, TypeOK, Assessments, Jobs, RowsAreAssessed,
    OfferIsAgreed, RestIsWanted, WipeSelected, Selected, Click, OfferFirst,
    discovery, inventory, request
<1>7. ASSUME NEW n \in Numbers, WipeButton(n)
      PROVE  OfferIsAgreed'
    BY <1>7, NullAssumption DEF Inv, TypeOK, Assessments, Jobs, RowsAreAssessed,
    OfferIsAgreed, RestIsWanted, WipeButton, Click, OfferFirst, discovery,
    inventory, request
<1>8. ASSUME Accept
      PROVE  OfferIsAgreed'
    BY <1>8, NullAssumption DEF Inv, TypeOK, Assessments, Jobs, RowsAreAssessed,
    OfferIsAgreed, RestIsWanted, Accept, Agreed, Render, Dismiss, OfferFirst,
    discovery, inventory, request
<1>9. ASSUME Abandon
      PROVE  OfferIsAgreed'
    BY <1>9, NullAssumption DEF Inv, TypeOK, Assessments, Jobs, RowsAreAssessed,
    OfferIsAgreed, RestIsWanted, Abandon, Dismiss, discovery, inventory, request
<1>10. ASSUME ProtectSelected
      PROVE  OfferIsAgreed'
    BY <1>10, NullAssumption DEF Inv, TypeOK, Assessments, Jobs,
    RowsAreAssessed, OfferIsAgreed, RestIsWanted, ProtectSelected, Selected,
    discovery, inventory, request
<1>11. ASSUME Protect
      PROVE  OfferIsAgreed'
    BY <1>11, NullAssumption DEF Inv, TypeOK, Assessments, Jobs,
    RowsAreAssessed, OfferIsAgreed, RestIsWanted, Protect, Render, Assess,
    Shown, Dismiss, discovery, inventory, request
<1>12. ASSUME NEW j \in jobs, JobEnds(j)
      PROVE  OfferIsAgreed'
    BY <1>12, NullAssumption DEF Inv, TypeOK, Assessments, Jobs,
    RowsAreAssessed, OfferIsAgreed, RestIsWanted, JobEnds, discovery, inventory,
    request
<1>13. CASE UNCHANGED vars
    BY <1>13 DEF Inv, TypeOK, Assessments, Jobs, RowsAreAssessed, OfferIsAgreed,
    RestIsWanted, vars, discovery, inventory, request
<1> QED
    BY <1>1, <1>2, <1>3, <1>4, <1>5, <1>6, <1>7, <1>8, <1>9, <1>10, <1>11,
    <1>12, <1>13 DEF Next, Timers, Clicks
(* Every step keeps the rest wanted. *)
LEMMA RestStep ==
    ASSUME Inv, [Next]_vars
    PROVE  RestIsWanted'
<1>1. ASSUME Refresh
      PROVE  RestIsWanted'
    BY <1>1, NullAssumption DEF Inv, TypeOK, Assessments, Jobs, RestIsWanted,
    Refresh, discovery, inventory, request
<1>2. ASSUME Discover
      PROVE  RestIsWanted'
    BY <1>2, NullAssumption DEF Inv, TypeOK, Assessments, Jobs, RestIsWanted,
    Discover, discovery, inventory, request
<1>3. ASSUME Poll
      PROVE  RestIsWanted'
    BY <1>3, NullAssumption DEF Inv, TypeOK, Assessments, Jobs, RestIsWanted,
    Poll, Render, Assess, NoDisks, discovery, inventory, request
<1>4. ASSUME Repaint
      PROVE  RestIsWanted'
    BY <1>4, NullAssumption DEF Inv, TypeOK, Assessments, Jobs, RestIsWanted,
    Repaint, Render, discovery, inventory, request
<1>5. ASSUME NEW d \in Disks, Toggle(d)
      PROVE  RestIsWanted'
    BY <1>5, NullAssumption DEF Inv, TypeOK, Assessments, Jobs, RestIsWanted,
    Toggle, discovery, inventory, request
<1>6. ASSUME WipeSelected
      PROVE  RestIsWanted'
    BY <1>6, NullAssumption DEF Inv, TypeOK, Assessments, Jobs, RestIsWanted,
    WipeSelected, Selected, Click, OfferFirst, discovery, inventory, request
<1>7. ASSUME NEW n \in Numbers, WipeButton(n)
      PROVE  RestIsWanted'
    BY <1>7, NullAssumption DEF Inv, TypeOK, Assessments, Jobs, RestIsWanted,
    WipeButton, Click, OfferFirst, discovery, inventory, request
<1>8. ASSUME Accept
      PROVE  RestIsWanted'
    BY <1>8, NullAssumption DEF Inv, TypeOK, Assessments, Jobs, RestIsWanted,
    Accept, Agreed, Render, Dismiss, OfferFirst, discovery, inventory, request
<1>9. ASSUME Abandon
      PROVE  RestIsWanted'
    BY <1>9, NullAssumption DEF Inv, TypeOK, Assessments, Jobs, RestIsWanted,
    Abandon, Dismiss, discovery, inventory, request
<1>10. ASSUME ProtectSelected
      PROVE  RestIsWanted'
    BY <1>10, NullAssumption DEF Inv, TypeOK, Assessments, Jobs, RestIsWanted,
    ProtectSelected, Selected, discovery, inventory, request
<1>11. ASSUME Protect
      PROVE  RestIsWanted'
    BY <1>11, NullAssumption DEF Inv, TypeOK, Assessments, Jobs, RestIsWanted,
    Protect, Render, Assess, Shown, Dismiss, discovery, inventory, request
<1>12. ASSUME NEW j \in jobs, JobEnds(j)
      PROVE  RestIsWanted'
    BY <1>12, NullAssumption DEF Inv, TypeOK, Assessments, Jobs, RestIsWanted,
    JobEnds, discovery, inventory, request
<1>13. CASE UNCHANGED vars
    BY <1>13 DEF Inv, TypeOK, Assessments, Jobs, RestIsWanted, vars, discovery,
    inventory, request
<1> QED
    BY <1>1, <1>2, <1>3, <1>4, <1>5, <1>6, <1>7, <1>8, <1>9, <1>10, <1>11,
    <1>12, <1>13 DEF Next, Timers, Clicks

LEMMA WindowInvariance == Spec => []Inv
<1>1. Inv /\ [Next]_vars => Inv'
    BY TypeStep, BusyStep, RowsStep, OfferStep, RestStep DEF Inv
<1> QED
    BY InitInv, <1>1, PTL DEF Spec

(* Every variable keeps its type, check marks are on rows that can be wiped. *)
THEOREM WindowTypeCorrect == Spec => []TypeOK
    BY WindowInvariance, PTL DEF Inv

(* No row offers to wipe a number that has a job already.                   *)
THEOREM BusyOfferNoWipe == Spec => []BusyRowsOfferNoWipe
    BY WindowInvariance, PTL DEF Inv

(* Only Accept starts a job, for the assessment that was offered.           *)
LEMMA StartedByAccept ==
    ASSUME [Next]_vars, NEW j \in jobs' \ jobs
    PROVE  dialog = "confirm" /\ j.disk = offered.disk
<1>1. ~(jobs' \subseteq jobs)
    OBVIOUS
<1>2. CASE Refresh \/ Discover \/ Poll \/ Repaint
    BY <1>1, <1>2 DEF Refresh, Discover, Poll, Repaint
<1>3. CASE (\E d \in Disks : Toggle(d)) \/ WipeSelected \/ (\E n \in Numbers : WipeButton(n))
    BY <1>1, <1>3 DEF Toggle, WipeSelected, WipeButton, Click
<1>4. CASE Abandon \/ ProtectSelected \/ Protect \/ (\E i \in jobs : JobEnds(i))
    BY <1>1, <1>4 DEF Abandon, ProtectSelected, Protect, JobEnds
<1>5. CASE Accept
    BY <1>5 DEF Accept, Agreed
<1>6. CASE UNCHANGED vars
    BY <1>1, <1>6 DEF vars
<1> QED
    BY <1>2, <1>3, <1>4, <1>5, <1>6 DEF Next, Timers, Clicks

(* A job is for the disk its dialog showed, and for a selected one unless   *)
(* the inventory was replaced under the dialogs.                            *)
THEOREM JobsAgreed == Spec => JobsAreAgreed
<1>1. ASSUME Inv, [Next]_vars, NEW j \in jobs' \ jobs
      PROVE  j.disk = offered.disk /\ (j.disk \in wanted \/ replaced)
    BY <1>1, StartedByAccept DEF Inv, OfferIsAgreed
<1>2. Inv /\ [Next]_vars =>
          [\A j \in jobs' \ jobs : j.disk = offered.disk /\ (j.disk \in wanted \/ replaced)]_vars
    BY <1>1
<1> QED
    BY WindowInvariance, <1>2, PTL DEF Spec, JobsAreAgreed

(* No job starts for a disk that the rules in force protect, nor for one    *)
(* the discovery behind its dialog had a reason of its own against.         *)
THEOREM ProtectedSpared == Spec => ProtectedAreSpared
<1>1. ASSUME Inv, [Next]_vars, NEW j \in jobs' \ jobs
      PROVE  j.disk \notin protected /\ ~offered.barred
    BY <1>1, StartedByAccept DEF Inv, OfferIsAgreed
<1>2. Inv /\ [Next]_vars =>
          [\A j \in jobs' \ jobs : j.disk \notin protected /\ ~offered.barred]_vars
    BY <1>1
<1> QED
    BY WindowInvariance, <1>2, PTL DEF Spec, ProtectedAreSpared
=============================================================================
