-------------------------- MODULE ProtectionPolicy --------------------------
(***************************************************************************)
(* Which disks may be wiped (disks/protection.py, ProtectionPolicy.assess  *)
(* and the rules it takes from protected_devices.json).                    *)
(*                                                                         *)
(* A disk is a record of what discovery reports: flags, the four parts of  *)
(* its identity, sizes, bus and drive letters.  A rule is a list of the    *)
(* file and a value; a stable key is the identity it is the digest of, and *)
(* two identities never have the same digest.                              *)
(***************************************************************************)
EXTENDS Integers

CONSTANTS
    Normal,     \* normalize_identifier, as a function on identifiers
    Blank       \* the identifier that is empty or all spaces

(* Normalising twice changes nothing more, and a blank stays blank. *)
ASSUME NormalAssumption ==
    \A i \in DOMAIN Normal :
        Normal[i] \in DOMAIN Normal /\ Normal[Normal[i]] = Normal[i]

Flags == {"boot", "system", "firmware", "clustered", "read-only"}
Identity == {"serial", "unique_id", "path", "pnp"}
Sizes == {"size", "logical", "physical"}

Rule(list, value) == [list |-> list, value |-> value]

(* DiskFingerprint.stable_key. *)
KeyRule(disk) ==
    Rule("stable_keys", <<Normal[disk.serial], Normal[disk.unique_id], Normal[disk.path],
                          Normal[disk.pnp], disk.size, disk.logical, disk.physical>>)
SerialRule(disk) == Rule("serial_numbers", Normal[disk.serial])
IdRule(disk) == Rule("unique_ids", Normal[disk.unique_id])

(* The rules that name a disk. *)
RulesFor(disk) == {KeyRule(disk), SerialRule(disk), IdRule(disk)}
(* A rule as it is loaded: its value normalised; a digest is one already. *)
NormalRule(r) ==
    IF r.list = "stable_keys" THEN r ELSE Rule(r.list, Normal[r.value])

(* The rules of a file: normalised, and without blank ones. *)
NotBlank(r) == r.list = "stable_keys" \/ r.value # Blank
Loaded(rules) == {r \in {NormalRule(s) : s \in rules} : NotBlank(r)}

(* What the user means by the rules: one names the disk, however spelled. *)
Named(disk, rules) ==
    \E r \in rules : NormalRule(r) \in RulesFor(disk) /\ NotBlank(NormalRule(r))

(* ProtectionPolicy.assess: each reason to protect the disk. *)
Reasons(disk, policy) ==
    disk.flags
    \cup {part \in Identity : disk[part] = Blank}
    \cup {size \in Sizes : disk[size] <= 0}
    \cup {bus \in {disk.bus} : bus \notin policy.buses}
    \cup (disk.letters \cap policy.letters)
    \cup (RulesFor(disk) \cap policy.rules)

CanWipe(disk, policy) == Reasons(disk, policy) = {}
=============================================================================
