--------------------------- MODULE MCProvisioning ---------------------------
(***************************************************************************)
(* Two devices and two artifact sets for TLC.  The partition table of the  *)
(* second set puts NVS further up, so that its images end where the first  *)
(* set has its NVS, or behind it.                                          *)
(***************************************************************************)
EXTENDS Provisioning, TLC

CONSTANTS s1, s2

MovedNvs == [set \in Sets |-> IF set = s1 THEN 1 ELSE 2]

FullReach == MovedNvs

\* Nothing tells one device from another.
Symmetry == Permutations(Devices)
=============================================================================
