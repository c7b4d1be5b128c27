------------------------- MODULE MCProtectedDevices -------------------------
(***************************************************************************)
(* ProtectedDevices on a small instance: two disks that may be wiped, and  *)
(* a serial number of one of them, differently spelled, to type.           *)
(***************************************************************************)
EXTENDS ProtectedDevices, TLC

MCNormal == [i \in {"s1", "S1", "S2", "U", "P", ""} |-> IF i = "s1" THEN "S1" ELSE i]

DiskWith(serial, flags, letters) ==
    [flags |-> flags, serial |-> serial, unique_id |-> "U", path |-> "P", pnp |-> "P",
     size |-> 1, logical |-> 1, physical |-> 1, bus |-> "USB", letters |-> letters]

MCDisks == {DiskWith("s1", {}, {}), DiskWith("S2", {}, {"E"})}

MCTyped == {Rule("serial_numbers", "s1")}

ProgramSymmetry == Permutations(Programs)
=============================================================================
