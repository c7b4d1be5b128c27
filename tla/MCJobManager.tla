---------------------------- MODULE MCJobManager ----------------------------
(***************************************************************************)
(* JobManager on small instances.                                          *)
(***************************************************************************)
EXTENDS JobManager, TLC

(* Safety is symmetric in the job ids and in the disk numbers. *)
JobSymmetry == Permutations(Jobs) \cup Permutations(Disks)

(* Everything but atCancel: no action reads it, and no property but         *)
(* CancelStopsWriting.                                                      *)
JobView == <<process, workers, window, authorization, rows, wiped, unrecorded>>
=============================================================================
