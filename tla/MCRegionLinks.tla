--------------------------- MODULE MCRegionLinks ---------------------------
(* Small instances of RegionLinks for TLC. *)
EXTENDS RegionLinks, TLC

CONSTANTS r1, r2, r3, r4, c1, c2

(* Nothing is claimed after an overlap or an abandoned call: such a state  *)
(* is checked, and its successors are left out.                            *)
Undisturbed == ~disturbed

RegionSymmetry == Permutations(Regions) \cup Permutations(Clients)
============================================================================
