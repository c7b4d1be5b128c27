---------------------------- MODULE MCMainWindow ----------------------------
(* Three disks that come, go and exchange two numbers. *)
EXTENDS MainWindow
=============================================================================
