---------------------------- MODULE WholeOrNothing ----------------------------
(***************************************************************************)
(* What `conduct --land --push` promises (src/conduct/merge.ts): the default *)
(* branch gets every unit of the run in one step or none at all, and the     *)
(* upstream gets what the default branch has.                                *)
(***************************************************************************)
CONSTANT Units
VARIABLES inDefault, inRemote \* the units whose work is in the branch

Init == inDefault = {} /\ inRemote = {}

LandAll == /\ inDefault = {} /\ inDefault' = Units
           /\ UNCHANGED inRemote

PushAll == /\ inRemote # inDefault /\ inRemote' = inDefault
           /\ UNCHANGED inDefault

Next == LandAll \/ PushAll

Spec == Init /\ [][Next]_<<inDefault, inRemote>>
=============================================================================
