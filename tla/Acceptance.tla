----------------------------- MODULE Acceptance -----------------------------
(***************************************************************************)
(* What `sparra build` promises of an accepted work item, without rounds,   *)
(* gates, kills or files: once passed an item stays passed, memory.md gets  *)
(* at most one passed line of it, it is settled only when it has that line  *)
(* or the line could not be written, and a build reports done only when     *)
(* every passed item is settled.  BuildAcceptance implements it.            *)
(***************************************************************************)
EXTENDS Integers

CONSTANT N   \* number of work items

Items == 1 .. N

VARIABLES
  passed,    \* the accepted items
  settled,   \* the items with no acceptance effect outstanding
  lines,     \* passed lines in memory.md, per item; an earlier run may have left one
  unsaved,   \* the items whose line could not be written when it was last tried
  reported   \* the project's phase is done

vars == <<passed, settled, lines, unsaved, reported>>

Init ==
  /\ passed = {} /\ settled = {} /\ unsaved = {}
  /\ lines \in [Items -> 0 .. 1]
  /\ reported = FALSE

Resume == reported' = FALSE /\ UNCHANGED <<passed, settled, lines, unsaved>>

Pass(i) ==
  /\ ~reported /\ i \notin passed
  /\ passed' = passed \cup {i}
  /\ UNCHANGED <<settled, lines, unsaved, reported>>

Remember(i) ==
  /\ i \in passed /\ lines[i] = 0
  /\ lines' = [lines EXCEPT ![i] = 1]
  /\ unsaved' = unsaved \ {i}
  /\ UNCHANGED <<passed, settled, reported>>

\* The line is due and cannot be written.
Miss(i) ==
  /\ i \in passed \ settled /\ lines[i] = 0
  /\ unsaved' = unsaved \cup {i}
  /\ UNCHANGED <<passed, settled, lines, reported>>

Settle(i) ==
  /\ i \in passed \ settled
  /\ lines[i] = 1 \/ i \in unsaved
  /\ settled' = settled \cup {i}
  /\ UNCHANGED <<passed, lines, unsaved, reported>>

Report ==
  /\ passed \subseteq settled
  /\ reported' = TRUE
  /\ UNCHANGED <<passed, settled, lines, unsaved>>

Next == Resume \/ Report \/ \E i \in Items : Pass(i) \/ Remember(i) \/ Miss(i) \/ Settle(i)

Spec == Init /\ [][Next]_vars
=============================================================================
