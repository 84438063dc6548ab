----------------------------- MODULE MCUnitTrees -----------------------------
(* A small instance of UnitTrees. *)
EXTENDS UnitTrees, TLC

CONSTANTS p1, p2, a, b
MCSymmetry == Permutations({p1, p2}) \cup Permutations({a, b})
=============================================================================
