-------------------------- MODULE RawOverwriteProofs --------------------------
(***************************************************************************)
(* Proofs about RawOverwrite, for disks, sectors and chunks of any size.   *)
(***************************************************************************)
EXTENDS RawOverwrite, TLAPS

(* What a remainder of 0 means. *)
LEMMA Quotient ==
    ASSUME NEW a \in Nat, NEW m \in Nat \ {0}, a % m = 0
    PROVE  \E q \in Int : a = q * m
  BY SMT

LEMMA Product ==
    ASSUME NEW q \in Int, NEW m \in Nat \ {0}
    PROVE  (q * m) % m = 0
  BY SMT

LEMMA Sums ==
    ASSUME NEW a \in Nat, NEW b \in Nat, NEW m \in Nat \ {0}, a % m = 0, b % m = 0
    PROVE  (a + b) % m = 0 /\ (a - b) % m = 0
<1>1. PICK q \in Int : a = q * m
    BY Quotient
<1>2. PICK r \in Int : b = r * m
    BY Quotient
<1>3. a + b = (q + r) * m /\ a - b = (q - r) * m
    BY <1>1, <1>2
<1>4. ((q + r) * m) % m = 0 /\ ((q - r) * m) % m = 0
    BY Product, q + r \in Int, q - r \in Int
<1> QED
    BY <1>3, <1>4

LEMMA Multiples ==
    ASSUME NEW a \in Nat, NEW b \in Nat \ {0}, NEW m \in Nat \ {0}, a % b = 0, b % m = 0
    PROVE  a % m = 0
<1>1. PICK q \in Int : a = q * b
    BY Quotient
<1>2. PICK r \in Int : b = r * m
    BY Quotient
<1>3. a = (q * r) * m /\ q * r \in Int
    BY <1>1, <1>2
<1> QED
    BY <1>3, Product

-----------------------------------------------------------------------------
InLoop == {"starting", "polling", "writing", "written", "flushing"}

(* The loop runs on a valid geometry and stands at a sector boundary. *)
Checked ==
    pc \in InLoop =>
        /\ Valid
        /\ written % geometry.logical = 0

(* How far it has come, and how far the reports have. *)
Progressing ==
    /\ pc \in {"validating", "starting"} => written = 0
    /\ pc \in {"polling", "writing"} =>
           written < geometry.expected /\ written - reported < Interval
    /\ pc = "written" => written - reported < Interval + geometry.chunk
    /\ pc = "flushing" => written = geometry.expected /\ reported = written

(* Until the loop ends, the disk holds what was counted. *)
Counted ==
    pc # "returned" => zeroed = 0 .. written - 1 /\ result = "none"

Inv ==
    /\ TypeOK /\ Checked /\ Progressing /\ Counted
    /\ ZeroesAreCounted /\ EndsAreExact /\ ReportsKeepUp

-----------------------------------------------------------------------------
(* The fields of a geometry are integers. *)
LEMMA Fields ==
    ASSUME TypeOK
    PROVE  /\ geometry.expected \in Int /\ geometry.size \in Int
           /\ geometry.logical \in Int /\ geometry.physical \in Int
           /\ geometry.chunk \in Int
  BY GeometriesAssumption DEF TypeOK

(* A valid chunk is made of whole logical sectors, and so is every request. *)
LEMMA ChunkIsAligned ==
    ASSUME TypeOK, Valid
    PROVE  geometry.chunk % geometry.logical = 0
<1> DEFINE l == geometry.logical
           p == geometry.physical
           c == geometry.chunk
<1>1. l \in Nat \ {0} /\ p \in Nat \ {0} /\ c \in Nat /\ p % l = 0
    BY Fields DEF Valid
<1>2. c % Greatest(l, p) = 0
    BY DEF Valid
<1> HIDE DEF l, p, c
<1>3. CASE l < p
  <2>1. c % p = 0
      BY <1>2, <1>3 DEF Greatest
  <2>2. c % l = 0
      BY <1>1, <2>1, Multiples
  <2> QED
      BY <2>2 DEF c, l
<1>4. CASE ~(l < p)
  <2>1. c % l = 0
      BY <1>2, <1>4 DEF Greatest
  <2> QED
      BY <2>1 DEF c, l
<1> QED
    BY <1>3, <1>4

LEMMA LengthIsSound ==
    ASSUME Inv, pc \in {"polling", "writing"}
    PROVE  /\ Length \in Nat \ {0}
           /\ Length % geometry.logical = 0
           /\ (written + Length) % geometry.logical = 0
           /\ written + Length <= geometry.expected
           /\ Length <= geometry.chunk
<1> DEFINE l == geometry.logical
           c == geometry.chunk
           e == geometry.expected
<1>1. /\ Valid /\ TypeOK
      /\ written % l = 0
      /\ written < e
      /\ written \in Nat
    BY DEF Inv, Checked, Progressing, InLoop, TypeOK
<1>2. /\ l \in Nat \ {0} /\ c \in Nat \ {0} /\ e \in Nat
      /\ e % l = 0 /\ c % l = 0
    BY <1>1, Fields, ChunkIsAligned DEF Valid
<1>3. Length = Least(c, e - written)
    BY DEF Length
<1> HIDE DEF l, c, e
<1>4. (e - written) % l = 0
    BY <1>1, <1>2, Sums
<1>5. /\ Length \in Nat \ {0}
      /\ Length % l = 0
      /\ written + Length <= e
      /\ Length <= c
    BY <1>1, <1>2, <1>3, <1>4 DEF Least
<1>6. (written + Length) % l = 0
    BY <1>1, <1>2, <1>5, Sums
<1> QED
    BY <1>5, <1>6 DEF l, c, e

(* Initially. *)
LEMMA InitInv == Init => Inv
<1> SUFFICES ASSUME Init PROVE Inv
    OBVIOUS
<1>1. geometry.expected \in Int /\ geometry.chunk \in Int /\ geometry.size \in Int
    BY GeometriesAssumption DEF Init
<1>2. TypeOK
  <2>1. written \in 0 .. Greatest(geometry.expected, 0) /\ reported \in 0 .. written
      BY <1>1 DEF Init, Greatest
  <2> QED
      BY <2>1 DEF Init, TypeOK, Steps
<1>3. Checked /\ Progressing /\ Counted
    BY DEF Init, Checked, Progressing, Counted, InLoop
<1>4. ZeroesAreCounted /\ EndsAreExact /\ ReportsKeepUp
    BY <1>1, IntervalAssumption
       DEF Init, ZeroesAreCounted, EndsAreExact, ReportsKeepUp, Least
<1> QED
    BY <1>2, <1>3, <1>4 DEF Inv

-----------------------------------------------------------------------------
(* Every step keeps it. *)
LEMMA StepInv ==
    ASSUME Inv, [Next]_vars
    PROVE  Inv'
<1>0. /\ TypeOK /\ Checked /\ Progressing /\ Counted
      /\ ZeroesAreCounted /\ EndsAreExact /\ ReportsKeepUp
    BY DEF Inv
<1> USE Fields, IntervalAssumption, LengthIsSound
<1>1. CASE Validate
  <2>1. TypeOK'
      BY <1>0, <1>1 DEF TypeOK, Steps, Greatest, Validate, Raise,
         Return, Progressing, InLoop, Checked, Valid
  <2>2. Checked' /\ Progressing'
      BY <1>0, <1>1 DEF Checked, Progressing, Valid, InLoop, Validate,
         Raise, Return, TypeOK
  <2>3. Counted'
      BY <1>0, <1>1 DEF Counted, Validate, Raise, Return, TypeOK
  <2>4. ZeroesAreCounted'
      BY <1>0, <1>1 DEF ZeroesAreCounted, Least, Validate, Raise,
         Return, TypeOK, Progressing, Checked, Counted, Valid, InLoop
  <2>5. EndsAreExact'
      BY <1>0, <1>1 DEF EndsAreExact, Validate, Raise, Return, TypeOK,
         Progressing, Checked, Counted, Valid, InLoop
  <2>6. ReportsKeepUp'
      BY <1>0, <1>1 DEF ReportsKeepUp, Validate, Raise, Return, TypeOK,
         Progressing, Checked, Counted, Valid, InLoop
  <2> QED
      BY <2>1, <2>2, <2>3, <2>4, <2>5, <2>6 DEF Inv
<1>2. CASE Report
  <2>0. /\ Valid /\ written \in Nat /\ written <= geometry.expected
        /\ geometry' = geometry /\ written' = written /\ pc' = NextRound
        /\ reported \in 0 .. written /\ pc \in InLoop
        /\ geometry.expected \in Nat
      BY <1>0, <1>2 DEF Checked, Progressing, InLoop, Report, TypeOK, Valid, Greatest
  <2>0a. \/ reported' = written
         \/ /\ reported' = reported
            /\ written \notin {0, geometry.expected} /\ ~(written - reported >= Interval)
    <3>1. PICK elapsed \in BOOLEAN : reported' = IF Due(elapsed) THEN written ELSE reported
        BY <1>2 DEF Report
    <3> QED
        BY <3>1, Zenon DEF Due
  <2>1. TypeOK'
      BY <1>0, <1>2 DEF TypeOK, Steps, Greatest, Report, NextRound, Due,
         Progressing, InLoop, Checked, Valid
  <2>2. Checked' /\ Progressing'
    <3>1. Checked'
        BY <1>0, <2>0 DEF Checked, InLoop, Valid, NextRound
    <3>2. CASE written = geometry.expected
      <4>1. pc' = "flushing" /\ reported' = written
          BY <2>0, <2>0a, <3>2 DEF NextRound, Valid
      <4> QED
          BY <2>0, <3>1, <3>2, <4>1 DEF Progressing
    <3>3. CASE written < geometry.expected
      <4>1. pc' = "polling" /\ written - reported' < Interval
          BY <2>0, <2>0a, <3>3, IntervalAssumption DEF NextRound
      <4> QED
          BY <2>0, <3>1, <3>3, <4>1 DEF Progressing
    <3> QED
        BY <2>0, <3>1, <3>2, <3>3, Fields, <1>0 DEF Valid
  <2>3. Counted'
      BY <1>0, <1>2 DEF Counted, Report, NextRound, Due, TypeOK
  <2>4. ZeroesAreCounted'
      BY <1>0, <1>2 DEF ZeroesAreCounted, Least, Report, NextRound, Due,
         TypeOK, Progressing, Checked, Counted, Valid, InLoop
  <2>5. EndsAreExact'
      BY <1>0, <1>2 DEF EndsAreExact, Report, NextRound, Due, TypeOK,
         Progressing, Checked, Counted, Valid, InLoop
  <2>6. ReportsKeepUp'
      BY <1>0, <1>2 DEF ReportsKeepUp, Report, NextRound, Due, TypeOK,
         Progressing, Checked, Counted, Valid, InLoop
  <2> QED
      BY <2>1, <2>2, <2>3, <2>4, <2>5, <2>6 DEF Inv
<1>3. CASE FailReport
  <2>1. TypeOK'
      BY <1>0, <1>3 DEF TypeOK, Steps, Greatest, FailReport, Raise,
         Return, Progressing, InLoop, Checked, Valid
  <2>2. Checked' /\ Progressing'
      BY <1>0, <1>3 DEF Checked, Progressing, Valid, InLoop, FailReport,
         Raise, Return, TypeOK
  <2>3. Counted'
      BY <1>0, <1>3 DEF Counted, FailReport, Raise, Return, TypeOK
  <2>4. ZeroesAreCounted'
      BY <1>0, <1>3 DEF ZeroesAreCounted, Least, FailReport, Raise,
         Return, TypeOK, Progressing, Checked, Counted, Valid, InLoop
  <2>5. EndsAreExact'
      BY <1>0, <1>3 DEF EndsAreExact, FailReport, Raise, Return, TypeOK,
         Progressing, Checked, Counted, Valid, InLoop
  <2>6. ReportsKeepUp'
      BY <1>0, <1>3 DEF ReportsKeepUp, FailReport, Raise, Return,
         TypeOK, Progressing, Checked, Counted, Valid, InLoop
  <2> QED
      BY <2>1, <2>2, <2>3, <2>4, <2>5, <2>6 DEF Inv
<1>4. CASE Poll
  <2>1. TypeOK'
      BY <1>0, <1>4 DEF TypeOK, Steps, Greatest, Poll, Return,
         Progressing, InLoop, Checked, Valid
  <2>2. Checked' /\ Progressing'
      BY <1>0, <1>4 DEF Checked, Progressing, Valid, InLoop, Poll,
         Return, TypeOK
  <2>3. Counted'
      BY <1>0, <1>4 DEF Counted, Poll, Return, TypeOK
  <2>4. ZeroesAreCounted'
      BY <1>0, <1>4 DEF ZeroesAreCounted, Least, Poll, Return, TypeOK,
         Progressing, Checked, Counted, Valid, InLoop
  <2>5. EndsAreExact'
      BY <1>0, <1>4 DEF EndsAreExact, Poll, Return, TypeOK, Progressing,
         Checked, Counted, Valid, InLoop
  <2>6. ReportsKeepUp'
      BY <1>0, <1>4 DEF ReportsKeepUp, Poll, Return, TypeOK,
         Progressing, Checked, Counted, Valid, InLoop
  <2> QED
      BY <2>1, <2>2, <2>3, <2>4, <2>5, <2>6 DEF Inv
<1>5. CASE Write
  <2>0. /\ Valid /\ written < geometry.expected /\ written \in Nat
        /\ Length \in Nat \ {0} /\ written + Length <= geometry.expected
        /\ Length <= geometry.chunk
        /\ written' = written + Length /\ geometry' = geometry /\ reported' = reported
        /\ zeroed = 0 .. written - 1 /\ zeroed' = zeroed \cup (written .. written + Length - 1)
        /\ result' = "none" /\ pc' = "written"
        /\ geometry.expected \in Nat /\ geometry.chunk \in Nat
        /\ geometry.size = geometry.expected
      BY <1>0, <1>5 DEF Checked, Progressing, Counted, InLoop, Write, Overwritten,
         TypeOK, Valid
  <2>1. TypeOK'
    <3>1. written' \in 0 .. Greatest(geometry'.expected, 0) /\ reported' \in 0 .. written'
        BY <2>0, <1>0 DEF Greatest, TypeOK
    <3>2. zeroed' \subseteq Nat
        BY <2>0
    <3> QED
        BY <1>0, <1>5, <2>0, <3>1, <3>2 DEF TypeOK, Steps, Write
  <2>2. Checked' /\ Progressing'
      BY <1>0, <1>5 DEF Checked, Progressing, Valid, InLoop, Write,
         Overwritten, TypeOK
  <2>3. Counted'
      BY <1>0, <1>5 DEF Counted, Write, Overwritten, TypeOK
  <2>4. ZeroesAreCounted'
    <3>1. zeroed' = 0 .. written' - 1
        BY <2>0
    <3>2. written' <= Least(written' + geometry'.chunk, geometry'.size)
        BY <2>0 DEF Least
    <3>3. Least(written' + geometry'.chunk, geometry'.size) \in Int
        BY <2>0 DEF Least
    <3> QED
        BY <2>0, <3>1, <3>2, <3>3 DEF ZeroesAreCounted
  <2>5. EndsAreExact'
      BY <1>0, <1>5 DEF EndsAreExact, Write, Overwritten, TypeOK,
         Progressing, Checked, Counted, Valid, InLoop
  <2>6. ReportsKeepUp'
      BY <1>0, <1>5 DEF ReportsKeepUp, Write, Overwritten, TypeOK,
         Progressing, Checked, Counted, Valid, InLoop
  <2> QED
      BY <2>1, <2>2, <2>3, <2>4, <2>5, <2>6 DEF Inv
<1>6. CASE FailWrite
  <2>1. TypeOK'
      BY <1>0, <1>6 DEF TypeOK, Steps, Greatest, FailWrite, Return,
         Overwritten, Progressing, InLoop, Checked, Valid
  <2>2. Checked' /\ Progressing'
      BY <1>0, <1>6 DEF Checked, Progressing, Valid, InLoop, FailWrite,
         Return, Overwritten, TypeOK
  <2>3. Counted'
      BY <1>0, <1>6 DEF Counted, FailWrite, Return, Overwritten, TypeOK
  <2>4. ZeroesAreCounted'
      BY <1>0, <1>6 DEF ZeroesAreCounted, Least, FailWrite, Return,
         Overwritten, TypeOK, Progressing, Checked, Counted, Valid,
         InLoop
  <2>5. EndsAreExact'
      BY <1>0, <1>6 DEF EndsAreExact, FailWrite, Return, Overwritten,
         TypeOK, Progressing, Checked, Counted, Valid, InLoop
  <2>6. ReportsKeepUp'
      BY <1>0, <1>6 DEF ReportsKeepUp, FailWrite, Return, Overwritten,
         TypeOK, Progressing, Checked, Counted, Valid, InLoop
  <2> QED
      BY <2>1, <2>2, <2>3, <2>4, <2>5, <2>6 DEF Inv
<1>7. CASE Flush
  <2>1. TypeOK'
      BY <1>0, <1>7 DEF TypeOK, Steps, Greatest, Flush, Return,
         Progressing, InLoop, Checked, Valid
  <2>2. Checked' /\ Progressing'
      BY <1>0, <1>7 DEF Checked, Progressing, Valid, InLoop, Flush,
         Return, TypeOK
  <2>3. Counted'
      BY <1>0, <1>7 DEF Counted, Flush, Return, TypeOK
  <2>4. ZeroesAreCounted'
      BY <1>0, <1>7 DEF ZeroesAreCounted, Least, Flush, Return, TypeOK,
         Progressing, Checked, Counted, Valid, InLoop
  <2>5. EndsAreExact'
      BY <1>0, <1>7 DEF EndsAreExact, Flush, Return, TypeOK,
         Progressing, Checked, Counted, Valid, InLoop
  <2>6. ReportsKeepUp'
      BY <1>0, <1>7 DEF ReportsKeepUp, Flush, Return, TypeOK,
         Progressing, Checked, Counted, Valid, InLoop
  <2> QED
      BY <2>1, <2>2, <2>3, <2>4, <2>5, <2>6 DEF Inv
<1>8. CASE SetCancel
  <2>1. TypeOK'
      BY <1>0, <1>8 DEF TypeOK, Steps, Greatest, SetCancel, Progressing,
         InLoop, Checked, Valid
  <2>2. Checked' /\ Progressing'
      BY <1>0, <1>8 DEF Checked, Progressing, Valid, InLoop, SetCancel,
         TypeOK
  <2>3. Counted'
      BY <1>0, <1>8 DEF Counted, SetCancel, TypeOK
  <2>4. ZeroesAreCounted'
      BY <1>0, <1>8 DEF ZeroesAreCounted, Least, SetCancel, TypeOK,
         Progressing, Checked, Counted, Valid, InLoop
  <2>5. EndsAreExact'
      BY <1>0, <1>8 DEF EndsAreExact, SetCancel, TypeOK, Progressing,
         Checked, Counted, Valid, InLoop
  <2>6. ReportsKeepUp'
      BY <1>0, <1>8 DEF ReportsKeepUp, SetCancel, TypeOK, Progressing,
         Checked, Counted, Valid, InLoop
  <2> QED
      BY <2>1, <2>2, <2>3, <2>4, <2>5, <2>6 DEF Inv
<1>9. CASE UNCHANGED vars
  <2>1. TypeOK'
      BY <1>0, <1>9 DEF TypeOK, Steps, Greatest, vars, Progressing,
         InLoop, Checked, Valid
  <2>2. Checked' /\ Progressing'
      BY <1>0, <1>9 DEF Checked, Progressing, Valid, InLoop, vars,
         TypeOK
  <2>3. Counted'
      BY <1>0, <1>9 DEF Counted, vars, TypeOK
  <2>4. ZeroesAreCounted'
      BY <1>0, <1>9 DEF ZeroesAreCounted, Least, vars, TypeOK,
         Progressing, Checked, Counted, Valid, InLoop
  <2>5. EndsAreExact'
      BY <1>0, <1>9 DEF EndsAreExact, vars, TypeOK, Progressing,
         Checked, Counted, Valid, InLoop
  <2>6. ReportsKeepUp'
      BY <1>0, <1>9 DEF ReportsKeepUp, vars, TypeOK, Progressing,
         Checked, Counted, Valid, InLoop
  <2> QED
      BY <2>1, <2>2, <2>3, <2>4, <2>5, <2>6 DEF Inv
<1> QED
    BY <1>1, <1>2, <1>3, <1>4, <1>5, <1>6, <1>7, <1>8, <1>9 DEF Next

LEMMA RawInvariance == Spec => []Inv
    BY InitInv, StepInv, PTL DEF Spec

(* Every variable keeps its type: in particular, no more is counted as      *)
(* written than was authorised, nor more reported than was written.         *)
THEOREM RawTypeCorrect == Spec => []TypeOK
    BY RawInvariance, PTL DEF Inv

(* After validation no request is refused for its alignment or its end, and *)
(* none is empty, whatever sizes and chunks are.                            *)
THEOREM RequestsSound == Spec => []RequestsAreSound
<1>1. Inv => RequestsAreSound
  <2> SUFFICES ASSUME Inv, pc \in {"polling", "writing"}
               PROVE  Acceptable /\ written + Length <= geometry.size
      BY DEF RequestsAreSound
  <2>1. Valid /\ written % geometry.logical = 0 /\ TypeOK
      BY DEF Inv, Checked, InLoop
  <2> QED
      BY <2>1, Fields, LengthIsSound DEF Acceptable, Valid, TypeOK
<1> QED
    BY <1>1, RawInvariance, PTL

(* The disk holds the zeroes counted and at most one chunk more.            *)
THEOREM ZeroesCounted == Spec => []ZeroesAreCounted
    BY RawInvariance, PTL DEF Inv

(* A loop that ends normally has covered and reported the whole disk, and a *)
(* cancelled one has not.                                                   *)
THEOREM EndsExact == Spec => []EndsAreExact
    BY RawInvariance, PTL DEF Inv

(* The last report lags by less than the interval and one chunk.            *)
THEOREM ReportsBounded == Spec => []ReportsKeepUp
    BY RawInvariance, PTL DEF Inv

-----------------------------------------------------------------------------
(* How far each step of the loop is from its end; a round takes three.      *)
Rank(s) ==
    CASE s = "validating" -> 6 [] s = "starting" -> 5 [] s = "written" -> 4
      [] s = "polling" -> 3 [] s = "writing" -> 2 [] s = "flushing" -> 1
      [] s = "returned" -> 0

Ceiling == Greatest(geometry.expected, 0)

(* An upper bound of the steps the loop has left. *)
Left == 3 * (Ceiling - written) + Rank(pc)

(* Every step of the loop brings its end closer, and setting the cancel     *)
(* event does not put it off.                                               *)
RunsDown ==
    [][/\ Left \in 0 .. 3 * Ceiling + 6
       /\ Left' < Left \/ (SetCancel /\ Left' = Left)]_vars

LEMMA LeftBounded ==
    ASSUME TypeOK
    PROVE  /\ Ceiling \in Nat
           /\ Left \in 0 .. 3 * Ceiling + 6
<1>1. Ceiling \in Nat
    BY Fields DEF Ceiling, Greatest
<1>2. written \in 0 .. Ceiling /\ Rank(pc) \in 0 .. 6
    BY DEF TypeOK, Steps, Rank, Ceiling
<1> QED
    BY <1>1, <1>2 DEF Left

(* A step of the loop either writes at least one byte on the way from       *)
(* "writing" to "written", or writes nothing and goes down the ranks.       *)
LEMMA LoopDescends ==
    ASSUME Inv, Next
    PROVE  /\ Ceiling' = Ceiling
           /\ \/ Rank(pc') < Rank(pc) /\ written' = written
              \/ /\ Rank(pc') = Rank(pc) + 2
                 /\ written' = written + Length /\ Length \in Nat \ {0}
              \/ SetCancel /\ pc' = pc /\ written' = written
<1>1. geometry' = geometry
    BY DEF Next, Validate, Report, FailReport, Poll, Write, FailWrite, Flush, SetCancel,
       Raise
<1>2. Ceiling' = Ceiling
    BY <1>1 DEF Ceiling
<1>3. CASE Validate
    BY <1>2, <1>3 DEF Validate, Raise, Return, Rank
<1>4. CASE Report
    BY <1>2, <1>4 DEF Report, NextRound, Rank
<1>5. CASE FailReport
    BY <1>2, <1>5 DEF FailReport, Raise, Return, Rank
<1>6. CASE Poll
    BY <1>2, <1>6 DEF Poll, Return, Rank
<1>7. CASE Write
  <2>1. Rank(pc') = Rank(pc) + 2 /\ written' = written + Length
    BY <1>7 DEF Write, Rank
  <2>2. Length \in Nat \ {0}
    BY <1>7, LengthIsSound DEF Write
  <2> QED
    BY <1>2, <2>1, <2>2
<1>8. CASE FailWrite
    BY <1>2, <1>8 DEF FailWrite, Return, Rank
<1>9. CASE Flush
    BY <1>2, <1>9 DEF Flush, Return, Rank
<1>10. CASE SetCancel
    BY <1>2, <1>10 DEF SetCancel
<1> QED
    BY <1>3, <1>4, <1>5, <1>6, <1>7, <1>8, <1>9, <1>10 DEF Next

(* The loop takes at most three steps for each byte and six more, on any    *)
(* geometry: no request is empty and none is written twice.                 *)
THEOREM LoopRunsDown == Spec => RunsDown
<1>1. ASSUME Inv, Inv', [Next]_vars
      PROVE  [/\ Left \in 0 .. 3 * Ceiling + 6
              /\ Left' < Left \/ (SetCancel /\ Left' = Left)]_vars
  <2> SUFFICES ASSUME Next
               PROVE  Left' < Left \/ (SetCancel /\ Left' = Left)
    BY <1>1, LeftBounded DEF Inv
  <2>1. /\ Ceiling \in Nat /\ Ceiling' = Ceiling
        /\ written \in Nat /\ written' \in Nat
        /\ Rank(pc) \in 0 .. 6 /\ Rank(pc') \in 0 .. 6
    BY <1>1, LeftBounded, LoopDescends DEF Inv, TypeOK, Steps, Rank
  <2>2. ASSUME Rank(pc') < Rank(pc), written' = written PROVE Left' < Left
    BY <2>1, <2>2 DEF Left
  <2>3. ASSUME Rank(pc') = Rank(pc) + 2, written' = written + Length,
               Length \in Nat \ {0}
        PROVE  Left' < Left
    BY <2>1, <2>3 DEF Left
  <2>4. ASSUME pc' = pc, written' = written PROVE Left' = Left
    BY <2>1, <2>4 DEF Left
  <2> QED
    BY <1>1, <2>2, <2>3, <2>4, LoopDescends
<1> QED
    BY <1>1, RawInvariance, PTL DEF Spec, RunsDown

-----------------------------------------------------------------------------
(* The loop counted in chunks.                                              *)

(* The requests it takes to cover n bytes, the last of which may be short.  *)
Chunks(n) == (n + geometry.chunk - 1) \div geometry.chunk

Total == Chunks(geometry.expected)

(* Every request but the last is a whole chunk.                             *)
WholeChunks ==
    pc \in InLoop => written = geometry.expected \/ written % geometry.chunk = 0

(* Counted in chunks this is the loop of WipeBackends and NativeWipe on a   *)
(* disk of Total chunks: every write adds one, nothing else adds any, and   *)
(* what follows a chunk is what AfterChunk says.                            *)
LoopOverChunks ==
    [][/\ Write => Chunks(written)' = Chunks(written) + 1 /\ Chunks(written)' <= Total
       /\ ~Write => Chunks(written)' = Chunks(written)
       /\ Report => pc' = IF Chunks(written) = Total THEN "flushing" ELSE "polling"
       /\ Flush => Chunks(written) = Total]_vars

LEMMA Divided ==
    ASSUME NEW q \in Int, NEW m \in Nat \ {0}, NEW r \in 0 .. m - 1
    PROVE  (q * m + r) \div m = q
  BY SMT

LEMMA DividedGrows ==
    ASSUME NEW a \in Nat, NEW b \in Nat, NEW m \in Nat \ {0}, a <= b
    PROVE  a \div m <= b \div m
  BY SMT

(* Where a whole number of chunks is written, a request of at most a chunk  *)
(* is one more; so is whatever is left.                                     *)
LEMMA OneMoreChunk ==
    ASSUME NEW w \in Nat, NEW m \in Nat \ {0}, w % m = 0,
           NEW n \in 1 .. m, NEW e \in Nat, w + n <= e
    PROVE  /\ (w + n + m - 1) \div m = (w + m - 1) \div m + 1
           /\ (w + n + m - 1) \div m <= (e + m - 1) \div m
           /\ (w + m - 1) \div m < (e + m - 1) \div m
           /\ (w + m - 1) \div m \in Int /\ (e + m - 1) \div m \in Int
<1>1. PICK q \in Int : w = q * m
    BY Quotient
<1>2. (w + m - 1) \div m = q
  <2>1. m - 1 \in 0 .. m - 1 /\ w + m - 1 = q * m + (m - 1)
      BY <1>1
  <2> QED
      BY <2>1, Divided
<1>3. (w + n + m - 1) \div m = q + 1
  <2>1. /\ n - 1 \in 0 .. m - 1 /\ q + 1 \in Int
        /\ w + n + m - 1 = (q + 1) * m + (n - 1)
      BY <1>1
  <2> QED
      BY <2>1, Divided
<1>4. (w + n + m - 1) \div m <= (e + m - 1) \div m
  <2>1. w + n + m - 1 \in Nat /\ e + m - 1 \in Nat /\ w + n + m - 1 <= e + m - 1
      OBVIOUS
  <2> QED
      BY <2>1, DividedGrows
<1>5. (e + m - 1) \div m \in Int
    OBVIOUS
<1> QED
    BY <1>2, <1>3, <1>4, <1>5

(* In the loop the bytes and the chunks left agree.                         *)
LEMMA ChunksLeft ==
    ASSUME Inv, WholeChunks, pc \in InLoop
    PROVE  /\ geometry.chunk \in Nat \ {0} /\ geometry.expected \in Nat /\ written \in Nat
           /\ written < geometry.expected <=> Chunks(written) # Total
           /\ pc \in {"starting", "polling", "writing"} =>
                  written % geometry.chunk = 0 /\ written < geometry.expected
<1>1. /\ Valid /\ written \in Nat /\ written <= geometry.expected
      /\ geometry.chunk \in Nat \ {0} /\ geometry.expected \in Nat \ {0}
    BY Fields DEF Inv, TypeOK, Checked, Valid, Greatest
<1>2. pc \in {"starting", "polling", "writing"} => written < geometry.expected
    BY <1>1 DEF Inv, Progressing
<1>3. ASSUME written < geometry.expected
      PROVE  written % geometry.chunk = 0 /\ Chunks(written) # Total
  <2>1. written % geometry.chunk = 0
      BY <1>1, <1>3 DEF WholeChunks
  <2>2. 1 \in 1 .. geometry.chunk /\ written + 1 <= geometry.expected
      BY <1>1, <1>3
  <2>3. Chunks(written) < Total /\ Chunks(written) \in Int /\ Total \in Int
      BY <1>1, <2>1, <2>2, OneMoreChunk DEF Chunks, Total
  <2> QED
      BY <2>1, <2>3
<1>4. ASSUME ~(written < geometry.expected)
      PROVE  Chunks(written) = Total
  <2>1. written = geometry.expected
      BY <1>1, <1>4
  <2> QED
      BY <2>1 DEF Total
<1> QED
    BY <1>1, <1>2, <1>3, <1>4

(* A write adds one chunk, or the rest, and leaves a whole number of them   *)
(* unless it was the last.                                                  *)
LEMMA WriteIsAChunk ==
    ASSUME Inv, WholeChunks, Write
    PROVE  /\ WholeChunks'
           /\ Chunks(written)' = Chunks(written) + 1
           /\ Chunks(written)' <= Total
<1> DEFINE w == written
           c == geometry.chunk
           e == geometry.expected
           n == Length
<1>1. /\ pc \in InLoop /\ pc \in {"polling", "writing"}
      /\ written' = w + n /\ geometry' = geometry
    BY DEF Write, InLoop
<1>2. /\ c \in Nat \ {0} /\ e \in Nat /\ w \in Nat
      /\ w % c = 0 /\ w < e
    BY <1>1, ChunksLeft DEF Write
<1>3. n \in 1 .. c /\ w + n <= e /\ n = Least(c, e - w)
    BY <1>1, <1>2, LengthIsSound DEF Length
<1>4. /\ Chunks(written)' = (w + n + c - 1) \div c
      /\ Chunks(written) = (w + c - 1) \div c
      /\ Total = (e + c - 1) \div c
    BY <1>1 DEF Chunks, Total
<1>5. w + n = e \/ (w + n) % c = 0
  <2>1. c % c = 0
      BY <1>2
  <2>2. CASE n = c
      BY <1>2, <2>1, <2>2, Sums
  <2>3. CASE n = e - w
      BY <1>2, <2>3
  <2> QED
      BY <1>3, <2>2, <2>3 DEF Least
<1>6. WholeChunks'
    BY <1>1, <1>5 DEF WholeChunks
<1>7. /\ (w + n + c - 1) \div c = (w + c - 1) \div c + 1
      /\ (w + n + c - 1) \div c <= (e + c - 1) \div c
  <2> HIDE DEF w, c, e, n
  <2> QED
      BY <1>2, <1>3, OneMoreChunk
<1> QED
    BY <1>4, <1>6, <1>7

(* Nothing else writes.                                                     *)
LEMMA OthersKeepChunks ==
    ASSUME Inv, WholeChunks, [Next]_vars, ~Write
    PROVE  WholeChunks' /\ Chunks(written)' = Chunks(written)
<1>1. written' = written /\ geometry' = geometry
    BY DEF Next, Validate, Report, FailReport, Poll, FailWrite, Flush, SetCancel, Raise,
       vars
<1>2. CASE Validate
  <2>1. written = 0 /\ (pc' \in InLoop => Valid)
    BY <1>2 DEF Validate, Raise, Return, InLoop, Inv, Progressing
  <2>2. Valid => 0 % geometry.chunk = 0
    BY Fields DEF Valid, Inv
  <2> QED
    BY <1>1, <2>1, <2>2 DEF WholeChunks, Chunks
<1>3. CASE ~Validate
  <2>1. pc' \in InLoop => pc \in InLoop
    BY <1>3 DEF Next, Report, FailReport, Poll, FailWrite, Flush, SetCancel, Raise,
       Return, InLoop, vars
  <2> QED
    BY <1>1, <2>1 DEF WholeChunks, Chunks
<1> QED
    BY <1>2, <1>3

(* The loop over bytes is the loop over chunks.                             *)
THEOREM LoopCountsChunks == Spec => LoopOverChunks
<1>1. Init => WholeChunks
    BY DEF Init, WholeChunks, InLoop
<1>2. Inv /\ WholeChunks /\ [Next]_vars => WholeChunks'
    BY WriteIsAChunk, OthersKeepChunks
<1>3. ASSUME Inv, WholeChunks, [Next]_vars
      PROVE  /\ Write => Chunks(written)' = Chunks(written) + 1 /\ Chunks(written)' <= Total
             /\ ~Write => Chunks(written)' = Chunks(written)
             /\ Report => pc' = IF Chunks(written) = Total THEN "flushing" ELSE "polling"
             /\ Flush => Chunks(written) = Total
  <2>1. Report => pc' = IF Chunks(written) = Total THEN "flushing" ELSE "polling"
    <3> SUFFICES ASSUME Report
                 PROVE  pc' = IF Chunks(written) = Total THEN "flushing" ELSE "polling"
        OBVIOUS
    <3>1. pc \in InLoop /\ pc' = NextRound
        BY DEF Report, InLoop
    <3> QED
        BY <1>3, <3>1, ChunksLeft DEF NextRound
  <2>2. Flush => Chunks(written) = Total
    BY <1>3 DEF Flush, Inv, Progressing, Total
  <2> QED
    BY <1>3, <2>1, <2>2, WriteIsAChunk, OthersKeepChunks
<1>4. Inv /\ WholeChunks /\ [Next]_vars =>
          [/\ Write => Chunks(written)' = Chunks(written) + 1 /\ Chunks(written)' <= Total
           /\ ~Write => Chunks(written)' = Chunks(written)
           /\ Report => pc' = IF Chunks(written) = Total THEN "flushing" ELSE "polling"
           /\ Flush => Chunks(written) = Total]_vars
    BY <1>3
<1> QED
    BY <1>1, <1>2, <1>4, RawInvariance, PTL DEF Spec, LoopOverChunks
=============================================================================
