---------------------------- MODULE MCNativeWipe ----------------------------
(***************************************************************************)
(* NativeWipe on small instances.                                          *)
(***************************************************************************)
EXTENDS NativeWipe
=============================================================================
