---------------------------- MODULE RawOverwrite ----------------------------
(***************************************************************************)
(* The zero overwrite of wipe/raw.py in bytes: which lengths it asks the   *)
(* device of wipe/win32.py to write where, what a short or failed write    *)
(* leaves behind, and how far the throttled progress of wipe/native.py     *)
(* lags behind the writes.  WipeBackends and NativeWipe count chunks.      *)
(***************************************************************************)
EXTENDS Integers

CONSTANTS
    Geometries,     \* what the authorisation, the device and the caller may say
    Interval        \* progress_interval_bytes

ASSUME GeometriesAssumption ==
    Geometries \subseteq
        [expected : Int,    \* authorization.size_bytes
         size : Int,        \* the device's length, sector sizes
         logical : Int,
         physical : Int,
         chunk : Int]       \* chunk_size
ASSUME IntervalAssumption == Interval \in Nat \ {0}

VARIABLES
    geometry,
    pc,
    written,
    zeroed,     \* bytes of the disk that hold zeroes of this run
    reported,   \* last_report_bytes
    cancelled,  \* the cancel event
    result      \* "none", "done", "cancelled" or "error"

vars == <<geometry, pc, written, zeroed, reported, cancelled, result>>

Steps == {"validating", "starting", "polling", "writing", "written", "flushing",
          "returned"}

Least(a, b) == IF a < b THEN a ELSE b
Greatest(a, b) == IF a < b THEN b ELSE a

TypeOK ==
    /\ geometry \in Geometries
    /\ pc \in Steps
    /\ written \in 0 .. Greatest(geometry.expected, 0)
    /\ zeroed \subseteq Nat
    /\ reported \in 0 .. written
    /\ cancelled \in BOOLEAN
    /\ result \in {"none", "done", "cancelled", "error"}

-----------------------------------------------------------------------------
Return(outcome) ==
    /\ pc' = "returned"
    /\ result' = outcome

Raise ==
    /\ Return("error")
    /\ UNCHANGED <<geometry, written, zeroed, reported, cancelled>>

(* Mutation of Valid: the size may end in the middle of a logical sector.   *)
MutantIgnoresTail ==
    /\ geometry.expected > 0 /\ geometry.size = geometry.expected
    /\ geometry.logical > 0 /\ geometry.physical > 0
    /\ geometry.physical % geometry.logical = 0
    /\ geometry.chunk > 0
    /\ geometry.chunk % Greatest(geometry.logical, geometry.physical) = 0

(* _validate_geometry; a remainder is taken only of a positive number. *)
Valid ==
    /\ geometry.expected > 0
    /\ geometry.size = geometry.expected
    /\ geometry.logical > 0 /\ geometry.physical > 0
    /\ geometry.physical % geometry.logical = 0
    /\ geometry.expected % geometry.logical = 0
    /\ geometry.chunk > 0
    /\ geometry.chunk % Greatest(geometry.logical, geometry.physical) = 0

Validate ==
    /\ pc = "validating"
    /\ IF Valid
       THEN /\ pc' = "starting"
            /\ UNCHANGED <<geometry, written, zeroed, reported, cancelled, result>>
       ELSE Raise

(* The loop condition. *)
NextRound == IF written < geometry.expected THEN "polling" ELSE "flushing"

(* Mutation of Due: the bytes since the last report are not looked at. *)
MutantOnlyClock(elapsed) == written \in {0, geometry.expected} \/ elapsed

(* progress() passes the count on: at the ends, after a while by the clock, *)
(* or after Interval bytes.                                                 *)
Due(elapsed) ==
    \/ written \in {0, geometry.expected}
    \/ elapsed
    \/ written - reported >= Interval

Report ==
    /\ pc \in {"starting", "written"}
    /\ \E elapsed \in BOOLEAN :
          reported' = IF Due(elapsed) THEN written ELSE reported
    /\ pc' = NextRound
    /\ UNCHANGED <<geometry, written, zeroed, cancelled, result>>

(* The history write inside the report fails. *)
FailReport ==
    /\ pc \in {"starting", "written"}
    /\ Raise

(* Mutation of Length: every request is a whole chunk. *)
MutantWholeChunks == geometry.chunk

Length == Least(geometry.chunk, geometry.expected - written)

Poll ==
    /\ pc = "polling"
    /\ IF cancelled
       THEN Return("cancelled")
       ELSE IF Length % geometry.logical # 0
       THEN Return("error")
       ELSE pc' = "writing" /\ UNCHANGED result
    /\ UNCHANGED <<geometry, written, zeroed, reported, cancelled>>

(* What write_zeros accepts: a request of whole logical sectors. *)
Acceptable ==
    /\ Length > 0
    /\ written % geometry.logical = 0 /\ Length % geometry.logical = 0

(* The first n bytes of the request are on the disk. *)
Overwritten(n) == zeroed \cup (written .. written + n - 1)

(* Mutation of Write: the loop goes on after a short write. *)
MutantTrustsLength ==
    /\ pc = "writing"
    /\ \E n \in 1 .. Length : zeroed' = Overwritten(n)
    /\ written' = written + Length
    /\ pc' = "written"
    /\ UNCHANGED <<geometry, reported, cancelled, result>>

Write ==
    /\ pc = "writing"
    /\ Acceptable
    /\ zeroed' = Overwritten(Length)
    /\ written' = written + Length
    /\ pc' = "written"
    /\ UNCHANGED <<geometry, reported, cancelled, result>>

(* A write that is refused, fails, or is short. *)
FailWrite ==
    /\ pc = "writing"
    /\ \E n \in 0 .. Length : zeroed' = IF Acceptable THEN Overwritten(n) ELSE zeroed
    /\ Return("error")
    /\ UNCHANGED <<geometry, written, reported, cancelled>>

Flush ==
    /\ pc = "flushing"
    /\ Return("done") \/ Return("error")
    /\ UNCHANGED <<geometry, written, zeroed, reported, cancelled>>

(* cancel_disk, in the GUI thread. *)
SetCancel ==
    /\ cancelled' = TRUE
    /\ UNCHANGED <<geometry, pc, written, zeroed, reported, result>>

-----------------------------------------------------------------------------
Init ==
    /\ geometry \in Geometries
    /\ pc = "validating"
    /\ written = 0
    /\ zeroed = {}
    /\ reported = 0
    /\ cancelled = FALSE
    /\ result = "none"

Next ==
    \/ Validate \/ Report \/ FailReport \/ Poll \/ Write \/ FailWrite \/ Flush
    \/ SetCancel

Spec == Init /\ [][Next]_vars

-----------------------------------------------------------------------------
(* After validation every request is of whole sectors, not empty, and ends  *)
(* on the disk: the checks of the loop and of write_zeros never refuse one. *)
RequestsAreSound ==
    pc \in {"polling", "writing"} =>
        /\ Acceptable
        /\ written + Length <= geometry.size

(* Nothing is overwritten out of order, twice, or past the request in      *)
(* flight: the disk holds the zeroes counted, and at most one chunk more.   *)
ZeroesAreCounted ==
    /\ \A b \in 0 .. written - 1 : b \in zeroed
    /\ zeroed \subseteq 0 .. Least(written + geometry.chunk, geometry.size) - 1
    /\ result # "error" => zeroed = 0 .. written - 1

(* A loop that ends normally has overwritten and reported the whole disk,   *)
(* even if chunk and size do not divide each other; a cancelled one has     *)
(* stopped short of it.                                                     *)
EndsAreExact ==
    /\ result = "done" => zeroed = 0 .. geometry.size - 1 /\ reported = geometry.size
    /\ result = "cancelled" => zeroed # 0 .. geometry.size - 1

(* However the loop ends, the last count it reported is behind the disk by  *)
(* less than the interval and one chunk, and never ahead of it.             *)
ReportsKeepUp ==
    /\ 0 .. reported - 1 \subseteq zeroed
    /\ \A b \in zeroed : b < reported + Interval + geometry.chunk - 1
=============================================================================
