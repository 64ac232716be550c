----------------------------- MODULE MCIfaceOps -----------------------------
(* Small instances of IfaceOps for TLC. *)
EXTENDS IfaceOps, TLC

CONSTANTS e0, e1, r1, r2, c1, c2, lossy

(* Nothing but UplinksExist is claimed after an operation failed half way   *)
(* or worked from a stale copy: such a state is checked, and its           *)
(* successors are left out.                                                *)
Undisturbed == ~failed /\ ~stale

ClientSymmetry == Permutations(Clients)
=============================================================================
