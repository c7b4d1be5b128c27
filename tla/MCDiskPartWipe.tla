--------------------------- MODULE MCDiskPartWipe ---------------------------
(***************************************************************************)
(* DiskPartWipe on a small instance.                                       *)
(***************************************************************************)
EXTENDS DiskPartWipe
=============================================================================
