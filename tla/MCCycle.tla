------------------------------ MODULE MCCycle ------------------------------
(* The documents and the archive in projects that build in place, the       *)
(* repository in those that build in worktrees: each with its own bounds.   *)
EXTENDS Cycle

PerStrategy(worktree, inplace, branch) ==
  [s \in Strategies |->
     CASE s = "worktree" -> worktree [] s = "inplace" -> inplace [] s = "branch" -> branch]

Modes == PerStrategy("greenfield", "existing", "greenfield")
Texts == PerStrategy(1, 3, 1)
Saved == PerStrategy(2, 0, 1)
Kept == PerStrategy(1, 2, 1)
=============================================================================
