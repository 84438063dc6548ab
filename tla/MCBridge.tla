------------------------------ MODULE MCBridge ------------------------------
(***************************************************************************)
(* Bridge for TLC: the targets are interchangeable, no property names one.   *)
(***************************************************************************)
EXTENDS Bridge, TLC

TargetSymmetry == Permutations(Targets)
=============================================================================
