----------------------- MODULE BuildAcceptance_proofs -----------------------
(***************************************************************************)
(* Proofs about BuildAcceptance, for every number of items, rounds and      *)
(* kills and every setting of its switches.  Inv is the inductive           *)
(* invariant: where the process is (ProcOK) tells how far the acceptance of *)
(* the current item has come (EffectsOK), and the rest follows from it.     *)
(***************************************************************************)
EXTENDS BuildAcceptance, TLAPS

FlagSteps == {"reconcileFlag", "measureFlag", "commitFlag", "memoryFlag"}

\* What the program counter says of the current item, the pause and the phase.
ProcOK ==
  /\ pc \notin {"down", "item"} => cur \in Items
  /\ pc = "generated" => round[cur] < MaxRounds
  /\ pc \in {"round", "generated", "grade"} => status[cur] = "building"
  /\ pc \in EffectSteps \cup FlagSteps => status[cur] = "passed"
  /\ pc = "gate" => Terminal(cur) \/ (status[cur] = "failed" /\ ~ItemGate)
  /\ paused.kind # "none" => paused.item \in Items
  /\ ~OnlyRuns => only = 0
  /\ pc # "down" => phase = "build"

\* How far the acceptance of the current item has come at each step of the finisher.
EffectsOK ==
  /\ pc = "reconcileFlag" =>
       /\ "reconciled" \notin acc[cur]
       /\ deviating[cur] => reconciles[cur] > 0 \/ "reconciled" \in missed[cur]
  /\ pc \in {"measure", "measureFlag", "commit", "commitFlag", "memory", "memoryFlag"}
       => "reconciled" \in acc[cur]
  /\ pc = "measureFlag" => measures[cur] > 0 \/ "measured" \in missed[cur]
  /\ pc = "commitFlag" => "committed" \notin acc[cur]
  /\ pc \in {"memory", "memoryFlag"} => "committed" \in acc[cur]
  /\ pc = "memoryFlag" =>
       /\ "memoryAppended" \notin acc[cur]
       /\ memory[cur] = 1 \/ "memoryAppended" \in missed[cur]
  /\ pc = "gate" /\ status[cur] = "passed" => NeededFlags \subseteq acc[cur]
  /\ \A i \in Items : memory[i] = 1 => "memoryAppended" \notin missed[i]

Inv == TypeOK /\ ProcOK /\ EffectsOK /\ FlagsTruthful /\ PauseConsistent /\ NoneLeftBehind

-----------------------------------------------------------------------------
(* The invariant, one step per action. *)

\* The initial state satisfies the invariant.
LEMMA InitInv == Init => Inv
  BY NAssumption, RoundsAssumption, CrashAssumption DEF Init, Inv, TypeOK, ProcOK, EffectsOK, FlagsTruthful, PauseConsistent, NoneLeftBehind,
         Items, Changes, Flags, NeededFlags, FlagSteps, EffectSteps, Pauses, NoPause, Decisions,
         Terminal

\* Every step of the build, the human or a kill keeps the invariant.
LEMMA NextInv == Inv /\ [Next]_vars => Inv'
<1> SUFFICES ASSUME Inv, [Next]_vars PROVE Inv'
  OBVIOUS
<1> USE NAssumption, RoundsAssumption, CrashAssumption, SwitchAssumption
<1> USE DEF Inv, TypeOK, store, git, effects, proc, EffectSteps, FlagSteps
<1>1. ASSUME NEW o \in 0 .. N, Start(o) PROVE Inv'
  <2>1. TypeOK'
    <3>1. cur' \in 1 .. N + 1 /\ only' \in 0 .. N
      BY <1>1 DEF Start
    <3> QED
      BY <3>1, <1>1 DEF Start
  <2>2. ProcOK'
    BY <1>1 DEF Start, ProcOK, Items, Terminal, Pauses, NoPause
  <2>3. EffectsOK'
    BY <1>1 DEF Start, EffectsOK, ProcOK, NeededFlags, Flags, FlagsTruthful
  <2>4. FlagsTruthful'
    BY <1>1 DEF Start, FlagsTruthful, EffectsOK, ProcOK, Flags, Terminal
  <2>5. PauseConsistent'
    BY <1>1 DEF Start, Items, PauseConsistent, ProcOK, EffectsOK, Terminal, NeededFlags, Pauses, NoPause
  <2>6. NoneLeftBehind'
    BY <1>1 DEF Start, Items, NoneLeftBehind, ProcOK, EffectsOK, Terminal, NeededFlags, Complete, FlagsTruthful
  <2> QED
    BY <2>1, <2>2, <2>3, <2>4, <2>5, <2>6
<1>2. CASE RecoverAcceptance
  <2>1. TypeOK'
    BY <1>2 DEF RecoverAcceptance, AtItem, NeedsRecovery, ProcOK
  <2>2. ProcOK'
    BY <1>2 DEF RecoverAcceptance, AtItem, NeedsRecovery, ProcOK, Items, Terminal, Pauses, NoPause
  <2>3. EffectsOK'
    BY <1>2 DEF RecoverAcceptance, AtItem, NeedsRecovery, EffectsOK, ProcOK, NeededFlags, Flags, FlagsTruthful
  <2>4. FlagsTruthful'
    BY <1>2 DEF RecoverAcceptance, AtItem, NeedsRecovery, FlagsTruthful, EffectsOK, ProcOK, Flags, Terminal
  <2>5. PauseConsistent'
    BY <1>2 DEF RecoverAcceptance, AtItem, NeedsRecovery, Items, PauseConsistent, ProcOK, EffectsOK, Terminal, NeededFlags, Pauses, NoPause
  <2>6. NoneLeftBehind'
    BY <1>2 DEF RecoverAcceptance, AtItem, NeedsRecovery, Items, NoneLeftBehind, ProcOK, EffectsOK, Terminal, NeededFlags, Complete, FlagsTruthful
  <2> QED
    BY <2>1, <2>2, <2>3, <2>4, <2>5, <2>6
<1>3. CASE ResumeItemPause
  <2>1. TypeOK'
    <3>1. cur' \in 1 .. N + 1 /\ paused' \in Pauses
      BY <1>3 DEF ResumeItemPause, AtItem, NeedsRecovery, AtPausedItem, NextItem, Pauses, NoPause, AtItem, NextItem
    <3> QED
      BY <3>1, <1>3 DEF ResumeItemPause, AtItem, NeedsRecovery, AtPausedItem, NextItem
  <2>2. ProcOK'
    BY <1>3 DEF ResumeItemPause, AtItem, NeedsRecovery, AtPausedItem, NextItem, ProcOK, Items, Terminal, Pauses, NoPause
  <2>3. EffectsOK'
    BY <1>3 DEF ResumeItemPause, AtItem, NeedsRecovery, AtPausedItem, NextItem, EffectsOK, ProcOK, NeededFlags, Flags, FlagsTruthful
  <2>4. FlagsTruthful'
    BY <1>3 DEF ResumeItemPause, AtItem, NeedsRecovery, AtPausedItem, NextItem, FlagsTruthful, EffectsOK, ProcOK, Flags, Terminal
  <2>5. PauseConsistent'
    BY <1>3 DEF ResumeItemPause, AtItem, NeedsRecovery, AtPausedItem, NextItem, Items, PauseConsistent, ProcOK, EffectsOK, Terminal, NeededFlags, Pauses, NoPause
  <2>6. NoneLeftBehind'
    <3> SUFFICES ASSUME ~OnlyRuns PROVE NoneLeftBehind'
      BY DEF NoneLeftBehind
    <3>1. only = 0 /\ phase' = "build" /\ cur \in Items
      BY <1>3 DEF ResumeItemPause, AtItem, NeedsRecovery, AtPausedItem, NextItem, ProcOK, Items
    <3>2. cur' = cur \/ (cur' = cur + 1 /\ (status[cur] = "passed" => NeededFlags \subseteq acc[cur]))
      BY <1>3, <3>1 DEF ResumeItemPause, AtItem, NeedsRecovery, AtPausedItem, NextItem, EffectsOK, PauseConsistent, Complete
    <3>3. pc # "down" /\ status' = status /\ acc' = acc
      BY <1>3 DEF ResumeItemPause, AtItem, NeedsRecovery, AtPausedItem, NextItem
    <3>4. ASSUME NEW i \in Items, i < cur', status[i] = "passed" PROVE NeededFlags \subseteq acc[i]
      <4>1. i < cur \/ i = cur
        BY <3>1, <3>2, <3>4 DEF Items
      <4> QED
        BY <3>2, <3>3, <3>4, <4>1 DEF NoneLeftBehind
    <3> QED
      BY <3>1, <3>3, <3>4 DEF NoneLeftBehind
  <2> QED
    BY <2>1, <2>2, <2>3, <2>4, <2>5, <2>6
<1>4. CASE SkipTerminal
  <2>1. TypeOK'
    <3>1. cur' \in 1 .. N + 1
      BY <1>4 DEF SkipTerminal, AtItem, NeedsRecovery, NextItem
    <3> QED
      BY <3>1, <1>4 DEF SkipTerminal, AtItem, NeedsRecovery, NextItem
  <2>2. ProcOK'
    BY <1>4 DEF SkipTerminal, AtItem, NeedsRecovery, NextItem, ProcOK, Items, Terminal, Pauses, NoPause
  <2>3. EffectsOK'
    BY <1>4 DEF SkipTerminal, AtItem, NeedsRecovery, NextItem, EffectsOK, ProcOK, NeededFlags, Flags, FlagsTruthful
  <2>4. FlagsTruthful'
    BY <1>4 DEF SkipTerminal, AtItem, NeedsRecovery, NextItem, FlagsTruthful, EffectsOK, ProcOK, Flags, Terminal
  <2>5. PauseConsistent'
    BY <1>4 DEF SkipTerminal, AtItem, NeedsRecovery, NextItem, Items, PauseConsistent, ProcOK, EffectsOK, Terminal, NeededFlags, Pauses, NoPause
  <2>6. NoneLeftBehind'
    <3> SUFFICES ASSUME ~OnlyRuns PROVE NoneLeftBehind'
      BY DEF NoneLeftBehind
    <3>1. only = 0 /\ phase' = "build" /\ cur \in Items
      BY <1>4 DEF SkipTerminal, AtItem, NeedsRecovery, NextItem, ProcOK, Items
    <3>2. cur' = cur \/ (cur' = cur + 1 /\ (status[cur] = "passed" => NeededFlags \subseteq acc[cur]))
      BY <1>4, <3>1 DEF SkipTerminal, AtItem, NeedsRecovery, NextItem, EffectsOK, PauseConsistent, Complete
    <3>3. pc # "down" /\ status' = status /\ acc' = acc
      BY <1>4 DEF SkipTerminal, AtItem, NeedsRecovery, NextItem
    <3>4. ASSUME NEW i \in Items, i < cur', status[i] = "passed" PROVE NeededFlags \subseteq acc[i]
      <4>1. i < cur \/ i = cur
        BY <3>1, <3>2, <3>4 DEF Items
      <4> QED
        BY <3>2, <3>3, <3>4, <4>1 DEF NoneLeftBehind
    <3> QED
      BY <3>1, <3>3, <3>4 DEF NoneLeftBehind
  <2> QED
    BY <2>1, <2>2, <2>3, <2>4, <2>5, <2>6
<1>5. CASE BeginItem
  <2>1. TypeOK'
    BY <1>5 DEF BeginItem, AtItem, AtPausedItem, ProcOK
  <2>2. ProcOK'
    BY <1>5 DEF BeginItem, AtItem, AtPausedItem, ProcOK, Items, Terminal, Pauses, NoPause
  <2>3. EffectsOK'
    BY <1>5 DEF BeginItem, AtItem, AtPausedItem, EffectsOK, ProcOK, NeededFlags, Flags, FlagsTruthful
  <2>4. FlagsTruthful'
    BY <1>5 DEF BeginItem, AtItem, AtPausedItem, FlagsTruthful, EffectsOK, ProcOK, Flags, Terminal
  <2>5. PauseConsistent'
    BY <1>5 DEF BeginItem, AtItem, AtPausedItem, Items, PauseConsistent, ProcOK, EffectsOK, Terminal, NeededFlags, Pauses, NoPause
  <2>6. NoneLeftBehind'
    BY <1>5 DEF BeginItem, AtItem, AtPausedItem, Items, NoneLeftBehind, ProcOK, EffectsOK, Terminal, NeededFlags, Complete, FlagsTruthful
  <2> QED
    BY <2>1, <2>2, <2>3, <2>4, <2>5, <2>6
<1>6. CASE Finish
  <2>1. TypeOK'
    BY <1>6 DEF Finish, ProcOK
  <2>2. ProcOK'
    BY <1>6 DEF Finish, ProcOK, Items, Terminal, Pauses, NoPause
  <2>3. EffectsOK'
    BY <1>6 DEF Finish, EffectsOK, ProcOK, NeededFlags, Flags, FlagsTruthful
  <2>4. FlagsTruthful'
    BY <1>6 DEF Finish, FlagsTruthful, EffectsOK, ProcOK, Flags, Terminal
  <2>5. PauseConsistent'
    BY <1>6 DEF Finish, Items, PauseConsistent, ProcOK, EffectsOK, Terminal, NeededFlags, Pauses, NoPause
  <2>6. NoneLeftBehind'
    BY <1>6 DEF Finish, Items, NoneLeftBehind, ProcOK, EffectsOK, Terminal, NeededFlags, Complete, FlagsTruthful
  <2> QED
    BY <2>1, <2>2, <2>3, <2>4, <2>5, <2>6
<1>7. CASE ItemDone
  <2>1. TypeOK'
    <3>1. cur \in Items /\ cur \in 1 .. N + 1
      BY <1>7 DEF ItemDone, ProcOK
    <3>2. cur' \in 1 .. N + 1
      BY <1>7, <3>1 DEF ItemDone, NextItem, Items
    <3>3. decision' \in [Items -> Decisions]
      BY <1>7, <3>1 DEF ItemDone, Decisions
    <3>4. paused' \in Pauses
      BY <1>7, <3>1 DEF ItemDone, Pauses, Items
    <3> QED
      BY <3>2, <3>3, <3>4, <1>7 DEF ItemDone
  <2>2. ProcOK'
    <3>1. pc' \in {"down", "item"} /\ only' = only /\ phase' = phase /\ cur \in Items
      BY <1>7 DEF ItemDone, ProcOK
    <3>2. paused' = paused \/ paused' = [kind |-> "item", item |-> cur]
      BY <1>7 DEF ItemDone
    <3> QED
      BY <3>1, <3>2, <1>7 DEF ProcOK, ItemDone
  <2>3. EffectsOK'
    BY <1>7 DEF ItemDone, NextItem, IsLast, EffectsOK, ProcOK, NeededFlags, Flags, FlagsTruthful
  <2>4. FlagsTruthful'
    BY <1>7 DEF ItemDone, NextItem, IsLast, FlagsTruthful, EffectsOK, ProcOK, Flags, Terminal
  <2>5. PauseConsistent'
    <3>1. cur \in Items /\ ItemGate => Terminal(cur) /\ (status[cur] = "passed" => NeededFlags \subseteq acc[cur])
      BY <1>7 DEF ItemDone, ProcOK, EffectsOK, Terminal
    <3>2. paused' = paused \/ (ItemGate /\ paused' = [kind |-> "item", item |-> cur])
      BY <1>7 DEF ItemDone
    <3>3. status' = status /\ acc' = acc /\ round' = round /\ cur \in Items
      BY <1>7 DEF ItemDone, ProcOK
    <3> QED
      BY <3>1, <3>2, <3>3 DEF PauseConsistent, Terminal, NeededFlags
  <2>6. NoneLeftBehind'
    <3> SUFFICES ASSUME ~OnlyRuns PROVE NoneLeftBehind'
      BY DEF NoneLeftBehind
    <3>1. only = 0 /\ phase' = "build" /\ cur \in Items
      BY <1>7 DEF ItemDone, NextItem, IsLast, ProcOK, Items
    <3>2. cur' = cur \/ (cur' = cur + 1 /\ (status[cur] = "passed" => NeededFlags \subseteq acc[cur]))
      BY <1>7, <3>1 DEF ItemDone, NextItem, IsLast, EffectsOK, PauseConsistent, Complete
    <3>3. pc # "down" /\ status' = status /\ acc' = acc
      BY <1>7 DEF ItemDone, NextItem, IsLast
    <3>4. ASSUME NEW i \in Items, i < cur', status[i] = "passed" PROVE NeededFlags \subseteq acc[i]
      <4>1. i < cur \/ i = cur
        BY <3>1, <3>2, <3>4 DEF Items
      <4> QED
        BY <3>2, <3>3, <3>4, <4>1 DEF NoneLeftBehind
    <3> QED
      BY <3>1, <3>3, <3>4 DEF NoneLeftBehind
  <2> QED
    BY <2>1, <2>2, <2>3, <2>4, <2>5, <2>6
<1>8. CASE Generate
  <2>1. TypeOK'
    <3>1. tree' \in SUBSET Changes
      BY <1>8 DEF Generate, ProcOK, Changes
    <3> QED
      BY <3>1, <1>8 DEF Generate
  <2>2. ProcOK'
    BY <1>8 DEF Generate, ProcOK, Items, Terminal, Pauses, NoPause
  <2>3. EffectsOK'
    BY <1>8 DEF Generate, EffectsOK, ProcOK, NeededFlags, Flags, FlagsTruthful
  <2>4. FlagsTruthful'
    BY <1>8 DEF Generate, FlagsTruthful, EffectsOK, ProcOK, Flags, Terminal
  <2>5. PauseConsistent'
    BY <1>8 DEF Generate, Items, PauseConsistent, ProcOK, EffectsOK, Terminal, NeededFlags, Pauses, NoPause
  <2>6. NoneLeftBehind'
    BY <1>8 DEF Generate, Items, NoneLeftBehind, ProcOK, EffectsOK, Terminal, NeededFlags, Complete, FlagsTruthful
  <2> QED
    BY <2>1, <2>2, <2>3, <2>4, <2>5, <2>6
<1>9. CASE SaveRound
  <2>1. TypeOK'
    <3>1. round' \in [Items -> 0 .. MaxRounds]
      BY <1>9 DEF SaveRound, ProcOK
    <3> QED
      BY <3>1, <1>9 DEF SaveRound
  <2>2. ProcOK'
    BY <1>9 DEF SaveRound, ProcOK, Items, Terminal, Pauses, NoPause
  <2>3. EffectsOK'
    BY <1>9 DEF SaveRound, EffectsOK, ProcOK, NeededFlags, Flags, FlagsTruthful
  <2>4. FlagsTruthful'
    BY <1>9 DEF SaveRound, FlagsTruthful, EffectsOK, ProcOK, Flags, Terminal
  <2>5. PauseConsistent'
    BY <1>9 DEF SaveRound, Items, PauseConsistent, ProcOK, EffectsOK, Terminal, NeededFlags, Pauses, NoPause
  <2>6. NoneLeftBehind'
    BY <1>9 DEF SaveRound, Items, NoneLeftBehind, ProcOK, EffectsOK, Terminal, NeededFlags, Complete, FlagsTruthful
  <2> QED
    BY <2>1, <2>2, <2>3, <2>4, <2>5, <2>6
<1>10. ASSUME NEW pivot \in BOOLEAN, Retry(pivot) PROVE Inv'
  <2>1. TypeOK'
    <3>1. tree' \in SUBSET Changes
      BY <1>10 DEF Retry
    <3> QED
      BY <3>1, <1>10 DEF Retry
  <2>2. ProcOK'
    BY <1>10 DEF Retry, ProcOK, Items, Terminal, Pauses, NoPause
  <2>3. EffectsOK'
    BY <1>10 DEF Retry, EffectsOK, ProcOK, NeededFlags, Flags, FlagsTruthful
  <2>4. FlagsTruthful'
    BY <1>10 DEF Retry, FlagsTruthful, EffectsOK, ProcOK, Flags, Terminal
  <2>5. PauseConsistent'
    BY <1>10 DEF Retry, Items, PauseConsistent, ProcOK, EffectsOK, Terminal, NeededFlags, Pauses, NoPause
  <2>6. NoneLeftBehind'
    BY <1>10 DEF Retry, Items, NoneLeftBehind, ProcOK, EffectsOK, Terminal, NeededFlags, Complete, FlagsTruthful
  <2> QED
    BY <2>1, <2>2, <2>3, <2>4, <2>5, <2>6
<1>11. ASSUME NEW outcome \in {"failed", "budget_exceeded"}, GiveUp(outcome) PROVE Inv'
  <2>1. TypeOK'
    BY <1>11 DEF GiveUp, ProcOK
  <2>2. ProcOK'
    BY <1>11 DEF GiveUp, ProcOK, Items, Terminal, Pauses, NoPause
  <2>3. EffectsOK'
    BY <1>11 DEF GiveUp, EffectsOK, ProcOK, NeededFlags, Flags, FlagsTruthful
  <2>4. FlagsTruthful'
    BY <1>11 DEF GiveUp, FlagsTruthful, EffectsOK, ProcOK, Flags, Terminal
  <2>5. PauseConsistent'
    BY <1>11 DEF GiveUp, Items, PauseConsistent, ProcOK, EffectsOK, Terminal, NeededFlags, Pauses, NoPause
  <2>6. NoneLeftBehind'
    BY <1>11 DEF GiveUp, Items, NoneLeftBehind, ProcOK, EffectsOK, Terminal, NeededFlags, Complete, FlagsTruthful
  <2> QED
    BY <2>1, <2>2, <2>3, <2>4, <2>5, <2>6
<1>12. ASSUME NEW dev \in BOOLEAN, MarkPassed(dev) PROVE Inv'
  <2>1. TypeOK'
    <3>1. accepted' \in SUBSET Changes
      BY <1>12 DEF MarkPassed, ProcOK
    <3> QED
      BY <3>1, <1>12 DEF MarkPassed
  <2>2. ProcOK'
    BY <1>12 DEF MarkPassed, ProcOK, Items, Terminal, Pauses, NoPause
  <2>3. EffectsOK'
    BY <1>12 DEF MarkPassed, EffectsOK, ProcOK, NeededFlags, Flags, FlagsTruthful
  <2>4. FlagsTruthful'
    BY <1>12 DEF MarkPassed, FlagsTruthful, EffectsOK, ProcOK, Flags, Terminal
  <2>5. PauseConsistent'
    BY <1>12 DEF MarkPassed, Items, PauseConsistent, ProcOK, EffectsOK, Terminal, NeededFlags, Pauses, NoPause
  <2>6. NoneLeftBehind'
    BY <1>12 DEF MarkPassed, Items, NoneLeftBehind, ProcOK, EffectsOK, Terminal, NeededFlags, Complete, FlagsTruthful
  <2> QED
    BY <2>1, <2>2, <2>3, <2>4, <2>5, <2>6
<1>13. CASE PassOver
  <2>1. TypeOK'
    BY <1>13 DEF PassOver, StepAfter, FlagOf, ProcOK
  <2>2. ProcOK'
    BY <1>13 DEF PassOver, StepAfter, FlagOf, ProcOK, Items, Terminal, Pauses, NoPause
  <2>3. EffectsOK'
    BY <1>13 DEF PassOver, StepAfter, FlagOf, EffectsOK, ProcOK, NeededFlags, Flags, FlagsTruthful
  <2>4. FlagsTruthful'
    BY <1>13 DEF PassOver, StepAfter, FlagOf, FlagsTruthful, EffectsOK, ProcOK, Flags, Terminal
  <2>5. PauseConsistent'
    BY <1>13 DEF PassOver, StepAfter, FlagOf, Items, PauseConsistent, ProcOK, EffectsOK, Terminal, NeededFlags, Pauses, NoPause
  <2>6. NoneLeftBehind'
    BY <1>13 DEF PassOver, StepAfter, FlagOf, Items, NoneLeftBehind, ProcOK, EffectsOK, Terminal, NeededFlags, Complete, FlagsTruthful
  <2> QED
    BY <2>1, <2>2, <2>3, <2>4, <2>5, <2>6
<1>14. ASSUME NEW failed \in BOOLEAN, Reconcile(failed) PROVE Inv'
  <2>1. TypeOK'
    <3>1. reconciles' \in [Items -> Nat] /\ missed' \in [Items -> SUBSET Flags]
      BY <1>14 DEF Reconcile, Swallow, Done, Pending, FlagOf, ProcOK, Flags
    <3> QED
      BY <3>1, <1>14 DEF Reconcile, Swallow, Done, Pending, FlagOf
  <2>2. ProcOK'
    BY <1>14 DEF Reconcile, Swallow, Done, Pending, FlagOf, ProcOK, Items, Terminal, Pauses, NoPause
  <2>3. EffectsOK'
    BY <1>14 DEF Reconcile, Swallow, Done, Pending, FlagOf, EffectsOK, ProcOK, NeededFlags, Flags, FlagsTruthful
  <2>4. FlagsTruthful'
    BY <1>14 DEF Reconcile, Swallow, Done, Pending, FlagOf, FlagsTruthful, EffectsOK, ProcOK, Flags, Terminal
  <2>5. PauseConsistent'
    BY <1>14 DEF Reconcile, Swallow, Done, Pending, FlagOf, Items, PauseConsistent, ProcOK, EffectsOK, Terminal, NeededFlags, Pauses, NoPause
  <2>6. NoneLeftBehind'
    BY <1>14 DEF Reconcile, Swallow, Done, Pending, FlagOf, Items, NoneLeftBehind, ProcOK, EffectsOK, Terminal, NeededFlags, Complete, FlagsTruthful
  <2> QED
    BY <2>1, <2>2, <2>3, <2>4, <2>5, <2>6
<1>15. CASE SaveReconciled
  <2>1. TypeOK'
    <3>1. acc' \in [Items -> SUBSET Flags]
      BY <1>15 DEF SaveReconciled, SaveFlag, FlagOf, StepAfter, ProcOK, Flags
    <3> QED
      BY <3>1, <1>15 DEF SaveReconciled, SaveFlag, FlagOf, StepAfter
  <2>2. ProcOK'
    BY <1>15 DEF SaveReconciled, SaveFlag, FlagOf, StepAfter, ProcOK, Items, Terminal, Pauses, NoPause
  <2>3. EffectsOK'
    BY <1>15 DEF SaveReconciled, SaveFlag, FlagOf, StepAfter, EffectsOK, ProcOK, NeededFlags, Flags, FlagsTruthful
  <2>4. FlagsTruthful'
    BY <1>15 DEF SaveReconciled, SaveFlag, FlagOf, StepAfter, FlagsTruthful, EffectsOK, ProcOK, Flags, Terminal
  <2>5. PauseConsistent'
    BY <1>15 DEF SaveReconciled, SaveFlag, FlagOf, StepAfter, Items, PauseConsistent, ProcOK, EffectsOK, Terminal, NeededFlags, Pauses, NoPause
  <2>6. NoneLeftBehind'
    BY <1>15 DEF SaveReconciled, SaveFlag, FlagOf, StepAfter, Items, NoneLeftBehind, ProcOK, EffectsOK, Terminal, NeededFlags, Complete, FlagsTruthful
  <2> QED
    BY <2>1, <2>2, <2>3, <2>4, <2>5, <2>6
<1>16. ASSUME NEW failed \in BOOLEAN, Measure(failed) PROVE Inv'
  <2>1. TypeOK'
    <3>1. measures' \in [Items -> Nat] /\ missed' \in [Items -> SUBSET Flags]
      BY <1>16 DEF Measure, Swallow, Done, Pending, FlagOf, ProcOK, Flags
    <3> QED
      BY <3>1, <1>16 DEF Measure, Swallow, Done, Pending, FlagOf
  <2>2. ProcOK'
    BY <1>16 DEF Measure, Swallow, Done, Pending, FlagOf, ProcOK, Items, Terminal, Pauses, NoPause
  <2>3. EffectsOK'
    BY <1>16 DEF Measure, Swallow, Done, Pending, FlagOf, EffectsOK, ProcOK, NeededFlags, Flags, FlagsTruthful
  <2>4. FlagsTruthful'
    BY <1>16 DEF Measure, Swallow, Done, Pending, FlagOf, FlagsTruthful, EffectsOK, ProcOK, Flags, Terminal
  <2>5. PauseConsistent'
    BY <1>16 DEF Measure, Swallow, Done, Pending, FlagOf, Items, PauseConsistent, ProcOK, EffectsOK, Terminal, NeededFlags, Pauses, NoPause
  <2>6. NoneLeftBehind'
    BY <1>16 DEF Measure, Swallow, Done, Pending, FlagOf, Items, NoneLeftBehind, ProcOK, EffectsOK, Terminal, NeededFlags, Complete, FlagsTruthful
  <2> QED
    BY <2>1, <2>2, <2>3, <2>4, <2>5, <2>6
<1>17. CASE SaveMeasured
  <2>1. TypeOK'
    <3>1. acc' \in [Items -> SUBSET Flags]
      BY <1>17 DEF SaveMeasured, SaveFlag, FlagOf, StepAfter, ProcOK, Flags
    <3> QED
      BY <3>1, <1>17 DEF SaveMeasured, SaveFlag, FlagOf, StepAfter
  <2>2. ProcOK'
    BY <1>17 DEF SaveMeasured, SaveFlag, FlagOf, StepAfter, ProcOK, Items, Terminal, Pauses, NoPause
  <2>3. EffectsOK'
    BY <1>17 DEF SaveMeasured, SaveFlag, FlagOf, StepAfter, EffectsOK, ProcOK, NeededFlags, Flags, FlagsTruthful
  <2>4. FlagsTruthful'
    BY <1>17 DEF SaveMeasured, SaveFlag, FlagOf, StepAfter, FlagsTruthful, EffectsOK, ProcOK, Flags, Terminal
  <2>5. PauseConsistent'
    BY <1>17 DEF SaveMeasured, SaveFlag, FlagOf, StepAfter, Items, PauseConsistent, ProcOK, EffectsOK, Terminal, NeededFlags, Pauses, NoPause
  <2>6. NoneLeftBehind'
    BY <1>17 DEF SaveMeasured, SaveFlag, FlagOf, StepAfter, Items, NoneLeftBehind, ProcOK, EffectsOK, Terminal, NeededFlags, Complete, FlagsTruthful
  <2> QED
    BY <2>1, <2>2, <2>3, <2>4, <2>5, <2>6
<1>18. CASE ParkCommit
  <2>1. TypeOK'
    <3>1. decision' \in [Items -> Decisions] /\ paused' \in Pauses
      BY <1>18 DEF ParkCommit, Pending, FlagOf, ProcOK, Items, Decisions, Pauses
    <3> QED
      BY <3>1, <1>18 DEF ParkCommit, Pending, FlagOf
  <2>2. ProcOK'
    BY <1>18 DEF ParkCommit, Pending, FlagOf, ProcOK, Items, Terminal, Pauses, NoPause
  <2>3. EffectsOK'
    BY <1>18 DEF ParkCommit, Pending, FlagOf, EffectsOK, ProcOK, NeededFlags, Flags, FlagsTruthful
  <2>4. FlagsTruthful'
    BY <1>18 DEF ParkCommit, Pending, FlagOf, FlagsTruthful, EffectsOK, ProcOK, Flags, Terminal
  <2>5. PauseConsistent'
    BY <1>18 DEF ParkCommit, Pending, FlagOf, Items, PauseConsistent, ProcOK, EffectsOK, Terminal, NeededFlags, Pauses, NoPause
  <2>6. NoneLeftBehind'
    BY <1>18 DEF ParkCommit, Pending, FlagOf, Items, NoneLeftBehind, ProcOK, EffectsOK, Terminal, NeededFlags, Complete, FlagsTruthful
  <2> QED
    BY <2>1, <2>2, <2>3, <2>4, <2>5, <2>6
<1>19. ASSUME NEW fs \in SUBSET tree, CommitFiles(fs) PROVE Inv'
  <2>1. TypeOK'
    <3>1. tree' \in SUBSET Changes /\ landed' \in SUBSET Changes
      BY <1>19 DEF CommitFiles, Pending, FlagOf, ProcOK
    <3> QED
      BY <3>1, <1>19 DEF CommitFiles, Pending, FlagOf
  <2>2. ProcOK'
    BY <1>19 DEF CommitFiles, Pending, FlagOf, ProcOK, Items, Terminal, Pauses, NoPause
  <2>3. EffectsOK'
    BY <1>19 DEF CommitFiles, Pending, FlagOf, EffectsOK, ProcOK, NeededFlags, Flags, FlagsTruthful
  <2>4. FlagsTruthful'
    BY <1>19 DEF CommitFiles, Pending, FlagOf, FlagsTruthful, EffectsOK, ProcOK, Flags, Terminal
  <2>5. PauseConsistent'
    BY <1>19 DEF CommitFiles, Pending, FlagOf, Items, PauseConsistent, ProcOK, EffectsOK, Terminal, NeededFlags, Pauses, NoPause
  <2>6. NoneLeftBehind'
    BY <1>19 DEF CommitFiles, Pending, FlagOf, Items, NoneLeftBehind, ProcOK, EffectsOK, Terminal, NeededFlags, Complete, FlagsTruthful
  <2> QED
    BY <2>1, <2>2, <2>3, <2>4, <2>5, <2>6
<1>20. CASE NoCommit
  <2>1. TypeOK'
    BY <1>20 DEF NoCommit, Pending, FlagOf, ProcOK
  <2>2. ProcOK'
    BY <1>20 DEF NoCommit, Pending, FlagOf, ProcOK, Items, Terminal, Pauses, NoPause
  <2>3. EffectsOK'
    BY <1>20 DEF NoCommit, Pending, FlagOf, EffectsOK, ProcOK, NeededFlags, Flags, FlagsTruthful
  <2>4. FlagsTruthful'
    BY <1>20 DEF NoCommit, Pending, FlagOf, FlagsTruthful, EffectsOK, ProcOK, Flags, Terminal
  <2>5. PauseConsistent'
    BY <1>20 DEF NoCommit, Pending, FlagOf, Items, PauseConsistent, ProcOK, EffectsOK, Terminal, NeededFlags, Pauses, NoPause
  <2>6. NoneLeftBehind'
    BY <1>20 DEF NoCommit, Pending, FlagOf, Items, NoneLeftBehind, ProcOK, EffectsOK, Terminal, NeededFlags, Complete, FlagsTruthful
  <2> QED
    BY <2>1, <2>2, <2>3, <2>4, <2>5, <2>6
<1>21. CASE SaveCommitted
  <2>1. TypeOK'
    <3>1. paused' \in Pauses /\ skipped' \in SUBSET Items /\ acc' \in [Items -> SUBSET Flags]
      BY <1>21 DEF SaveCommitted, SaveFlag, FlagOf, StepAfter, PauseAfterCommit, Parked, ProcOK, Pauses, NoPause, Flags
    <3> QED
      BY <3>1, <1>21 DEF SaveCommitted, SaveFlag, FlagOf, StepAfter, PauseAfterCommit, Parked
  <2>2. ProcOK'
    BY <1>21 DEF SaveCommitted, SaveFlag, FlagOf, StepAfter, PauseAfterCommit, Parked, ProcOK, Items, Terminal, Pauses, NoPause
  <2>3. EffectsOK'
    BY <1>21 DEF SaveCommitted, SaveFlag, FlagOf, StepAfter, PauseAfterCommit, Parked, EffectsOK, ProcOK, NeededFlags, Flags, FlagsTruthful
  <2>4. FlagsTruthful'
    BY <1>21 DEF SaveCommitted, SaveFlag, FlagOf, StepAfter, PauseAfterCommit, Parked, FlagsTruthful, EffectsOK, ProcOK, Flags, Terminal
  <2>5. PauseConsistent'
    BY <1>21 DEF SaveCommitted, SaveFlag, FlagOf, StepAfter, PauseAfterCommit, Parked, Items, PauseConsistent, ProcOK, EffectsOK, Terminal, NeededFlags, Pauses, NoPause
  <2>6. NoneLeftBehind'
    BY <1>21 DEF SaveCommitted, SaveFlag, FlagOf, StepAfter, PauseAfterCommit, Parked, Items, NoneLeftBehind, ProcOK, EffectsOK, Terminal, NeededFlags, Complete, FlagsTruthful
  <2> QED
    BY <2>1, <2>2, <2>3, <2>4, <2>5, <2>6
<1>22. ASSUME NEW failed \in BOOLEAN, AppendMemory(failed) PROVE Inv'
  <2>1. TypeOK'
    <3>1. memory' \in [Items -> 0 .. 1] /\ missed' \in [Items -> SUBSET Flags]
      BY <1>22 DEF AppendMemory, Swallow, Done, MemoryAfter, Pending, FlagOf, ProcOK, Flags
    <3> QED
      BY <3>1, <1>22 DEF AppendMemory, Swallow, Done, MemoryAfter, Pending, FlagOf
  <2>2. ProcOK'
    BY <1>22 DEF AppendMemory, Swallow, Done, MemoryAfter, Pending, FlagOf, ProcOK, Items, Terminal, Pauses, NoPause
  <2>3. EffectsOK'
    BY <1>22 DEF AppendMemory, Swallow, Done, MemoryAfter, Pending, FlagOf, EffectsOK, ProcOK, NeededFlags, Flags, FlagsTruthful
  <2>4. FlagsTruthful'
    BY <1>22 DEF AppendMemory, Swallow, Done, MemoryAfter, Pending, FlagOf, FlagsTruthful, EffectsOK, ProcOK, Flags, Terminal
  <2>5. PauseConsistent'
    BY <1>22 DEF AppendMemory, Swallow, Done, MemoryAfter, Pending, FlagOf, Items, PauseConsistent, ProcOK, EffectsOK, Terminal, NeededFlags, Pauses, NoPause
  <2>6. NoneLeftBehind'
    BY <1>22 DEF AppendMemory, Swallow, Done, MemoryAfter, Pending, FlagOf, Items, NoneLeftBehind, ProcOK, EffectsOK, Terminal, NeededFlags, Complete, FlagsTruthful
  <2> QED
    BY <2>1, <2>2, <2>3, <2>4, <2>5, <2>6
<1>23. CASE SaveMemory
  <2>1. TypeOK'
    <3>1. acc' \in [Items -> SUBSET Flags]
      BY <1>23 DEF SaveMemory, SaveFlag, FlagOf, StepAfter, ProcOK, Flags
    <3> QED
      BY <3>1, <1>23 DEF SaveMemory, SaveFlag, FlagOf, StepAfter
  <2>2. ProcOK'
    BY <1>23 DEF SaveMemory, SaveFlag, FlagOf, StepAfter, ProcOK, Items, Terminal, Pauses, NoPause
  <2>3. EffectsOK'
    BY <1>23 DEF SaveMemory, SaveFlag, FlagOf, StepAfter, EffectsOK, ProcOK, NeededFlags, Flags, FlagsTruthful
  <2>4. FlagsTruthful'
    BY <1>23 DEF SaveMemory, SaveFlag, FlagOf, StepAfter, FlagsTruthful, EffectsOK, ProcOK, Flags, Terminal
  <2>5. PauseConsistent'
    BY <1>23 DEF SaveMemory, SaveFlag, FlagOf, StepAfter, Items, PauseConsistent, ProcOK, EffectsOK, Terminal, NeededFlags, Pauses, NoPause
  <2>6. NoneLeftBehind'
    BY <1>23 DEF SaveMemory, SaveFlag, FlagOf, StepAfter, Items, NoneLeftBehind, ProcOK, EffectsOK, Terminal, NeededFlags, Complete, FlagsTruthful
  <2> QED
    BY <2>1, <2>2, <2>3, <2>4, <2>5, <2>6
<1>24. ASSUME NEW c \in Decisions, HumanDecides(c) PROVE Inv'
  <2>1. TypeOK'
    BY <1>24 DEF HumanDecides, Choices, ProcOK
  <2>2. ProcOK'
    BY <1>24 DEF HumanDecides, Choices, ProcOK, Items, Terminal, Pauses, NoPause
  <2>3. EffectsOK'
    BY <1>24 DEF HumanDecides, Choices, EffectsOK, ProcOK, NeededFlags, Flags, FlagsTruthful
  <2>4. FlagsTruthful'
    BY <1>24 DEF HumanDecides, Choices, FlagsTruthful, EffectsOK, ProcOK, Flags, Terminal
  <2>5. PauseConsistent'
    BY <1>24 DEF HumanDecides, Choices, Items, PauseConsistent, ProcOK, EffectsOK, Terminal, NeededFlags, Pauses, NoPause
  <2>6. NoneLeftBehind'
    BY <1>24 DEF HumanDecides, Choices, Items, NoneLeftBehind, ProcOK, EffectsOK, Terminal, NeededFlags, Complete, FlagsTruthful
  <2> QED
    BY <2>1, <2>2, <2>3, <2>4, <2>5, <2>6
<1>25. CASE Crash
  <2>1. TypeOK'
    <3>1. crashes' \in 0 .. MaxCrashes
      BY <1>25 DEF Crash
    <3> QED
      BY <3>1, <1>25 DEF Crash
  <2>2. ProcOK'
    BY <1>25 DEF Crash, ProcOK, Items, Terminal, Pauses, NoPause
  <2>3. EffectsOK'
    BY <1>25 DEF Crash, EffectsOK, ProcOK, NeededFlags, Flags, FlagsTruthful
  <2>4. FlagsTruthful'
    BY <1>25 DEF Crash, FlagsTruthful, EffectsOK, ProcOK, Flags, Terminal
  <2>5. PauseConsistent'
    BY <1>25 DEF Crash, Items, PauseConsistent, ProcOK, EffectsOK, Terminal, NeededFlags, Pauses, NoPause
  <2>6. NoneLeftBehind'
    BY <1>25 DEF Crash, Items, NoneLeftBehind, ProcOK, EffectsOK, Terminal, NeededFlags, Complete, FlagsTruthful
  <2> QED
    BY <2>1, <2>2, <2>3, <2>4, <2>5, <2>6
<1>26. CASE UNCHANGED vars
  <2>1. TypeOK'
    BY <1>26 DEF vars, ProcOK
  <2>2. ProcOK'
    BY <1>26 DEF vars, ProcOK, Items, Terminal, Pauses, NoPause
  <2>3. EffectsOK'
    BY <1>26 DEF vars, EffectsOK, ProcOK, NeededFlags, Flags, FlagsTruthful
  <2>4. FlagsTruthful'
    BY <1>26 DEF vars, FlagsTruthful, EffectsOK, ProcOK, Flags, Terminal
  <2>5. PauseConsistent'
    BY <1>26 DEF vars, Items, PauseConsistent, ProcOK, EffectsOK, Terminal, NeededFlags, Pauses, NoPause
  <2>6. NoneLeftBehind'
    BY <1>26 DEF vars, Items, NoneLeftBehind, ProcOK, EffectsOK, Terminal, NeededFlags, Complete, FlagsTruthful
  <2> QED
    BY <2>1, <2>2, <2>3, <2>4, <2>5, <2>6
<1> QED
  BY <1>1, <1>2, <1>3, <1>4, <1>5, <1>6, <1>7, <1>8, <1>9, <1>10, <1>11, <1>12, <1>13, <1>14, <1>15, <1>16, <1>17, <1>18, <1>19, <1>20, <1>21, <1>22, <1>23, <1>24, <1>25, <1>26
  DEF Next, Build, Loop, Rounds, Accept

\* The invariant holds in every reachable state.
LEMMA Invariance == Spec => []Inv
  BY InitInv, NextInv, PTL DEF Spec

-----------------------------------------------------------------------------
(* The safety properties the runs check.  *)

\* Every variable keeps its type.
THEOREM Typing == Spec => []TypeOK
<1>1. Inv => TypeOK
  BY DEF Inv
<1> QED
  BY <1>1, Invariance, PTL

\* No kill leaves a saved flag whose effect has not happened, or flags out of order.
THEOREM TruthfulFlags == Spec => []FlagsTruthful
<1>1. Inv => FlagsTruthful
  BY DEF Inv
<1> QED
  BY <1>1, Invariance, PTL

\* A saved pause always finds the item it names waiting at that gate.
THEOREM ConsistentPause == Spec => []PauseConsistent
<1>1. Inv => PauseConsistent
  BY DEF Inv
<1> QED
  BY <1>1, Invariance, PTL

\* Without --only runs, no build passes an accepted item with an effect outstanding.
THEOREM NothingLeftBehind == Spec => []NoneLeftBehind
<1>1. Inv => NoneLeftBehind
  BY DEF Inv
<1> QED
  BY <1>1, Invariance, PTL

-----------------------------------------------------------------------------
(* Acceptance is final.  *)

FinalStep == \A i \in Items :
  status[i] = "passed" =>
    status'[i] = "passed" /\ acc[i] \subseteq acc'[i] /\ round'[i] = round[i]

\* The actions that write status, round or acc do so for the current item, which is not
\* passed when it is begun, generated, graded or given up, and only adds flags.
LEMMA StepIsFinal == Inv /\ [Next]_vars => FinalStep
<1> SUFFICES ASSUME Inv, [Next]_vars PROVE FinalStep
  OBVIOUS
<1> USE DEF Inv, TypeOK, FinalStep, store
<1>1. CASE UNCHANGED <<status, round, acc>>
  BY <1>1
<1>2. CASE BeginItem
  BY <1>2 DEF BeginItem, AtItem, Terminal
<1>3. CASE SaveRound
  BY <1>3 DEF SaveRound, ProcOK
<1>4. ASSUME NEW outcome \in {"failed", "budget_exceeded"}, GiveUp(outcome) PROVE FinalStep
  BY <1>4 DEF GiveUp, ProcOK, EffectSteps
<1>5. ASSUME NEW dev \in BOOLEAN, MarkPassed(dev) PROVE FinalStep
  BY <1>5 DEF MarkPassed
<1>6. CASE SaveReconciled \/ SaveMeasured \/ SaveCommitted \/ SaveMemory
  BY <1>6 DEF SaveReconciled, SaveMeasured, SaveCommitted, SaveMemory, SaveFlag
<1> QED
  BY <1>1, <1>2, <1>3, <1>4, <1>5, <1>6
  DEF Next, Build, Loop, Rounds, Accept, vars, Start, RecoverAcceptance, ResumeItemPause,
      SkipTerminal, Finish, ItemDone, Generate, Retry, PassOver, Reconcile, Measure,
      ParkCommit, CommitFiles, NoCommit, AppendMemory, HumanDecides, Crash

\* An accepted item stays accepted, keeps its flags and is never graded again.
THEOREM FinalAcceptance == Spec => AcceptanceFinal
<1>1. Inv /\ [Next]_vars => [FinalStep]_vars
  BY StepIsFinal
<1> QED
  BY <1>1, Invariance, PTL DEF Spec, AcceptanceFinal, FinalStep

-----------------------------------------------------------------------------
(* Accepted work is not lost.  Without --only runs the items are settled in  *)
(* order (InOrder), so the one that a pivot may reset has only settled items *)
(* before it and untouched ones after it; what the settled ones made is in   *)
(* the history (Standing), because no commit failed.                         *)

\* An item the loop does not come back to, or comes back to without a round left.
Settled(i) == status[i] \in {"passed", "budget_exceeded"} \/ round[i] >= MaxRounds

Work(i) == accepted \cap ({i} \X Parts)

InOrder ==
  /\ \A i \in Items : status[i] = "failed" => round[i] >= MaxRounds
  /\ ~OnlyRuns => \A i, j \in Items : i < j /\ status[j] # "pending" => Settled(i)
  /\ ~OnlyRuns /\ pc # "down" => \A i \in Items : i < cur => Settled(i)

Standing ==
  /\ \A i \in Items : status[i] # "passed" => Work(i) = {}
  /\ \A i \in Items \ skipped : status[i] = "passed" => Work(i) \subseteq tree \cup landed
  /\ AutoCommit /\ ~CommitFails => \A i \in Items \ skipped :
       "committed" \in acc[i] \/ (i = cur /\ pc = "commitFlag" /\ WantsCommit)
         => Work(i) \subseteq landed

\* Nothing is settled out of order: no step touches an item while one before it has a
\* round left.
LEMMA OrderKept == Inv /\ InOrder /\ [Next]_vars => InOrder'
<1> SUFFICES ASSUME Inv, InOrder, [Next]_vars PROVE InOrder'
  OBVIOUS
<1> USE NAssumption, RoundsAssumption
<1> USE DEF Inv, TypeOK, store, InOrder, Settled
<1>1. CASE UNCHANGED <<status, round>> /\ (pc' = "down" \/ (pc # "down" /\ cur' = cur))
  BY <1>1
<1>2. ASSUME NEW o \in 0 .. N, Start(o) PROVE InOrder'
  BY <1>2 DEF Start, ProcOK, Items
<1>3. CASE BeginItem
  BY <1>3 DEF BeginItem, AtItem, Terminal, Items
<1>4. ASSUME UNCHANGED <<status, round>>, pc # "down", cur \in Items, cur' \in {cur, NextItem},
             cur' # cur => Terminal(cur) \/ Settled(cur)
      PROVE  InOrder'
  <2>1. ~OnlyRuns => cur' \in {cur, cur + 1} /\ cur \in Int
    BY <1>4 DEF NextItem, ProcOK, Items
  <2>2. cur' # cur => Settled(cur)
    BY <1>4 DEF Terminal
  <2>3. ASSUME ~OnlyRuns, NEW i \in Items, i < cur' PROVE Settled(i)
    <3>1. i < cur \/ (i = cur /\ cur' # cur)
      BY <2>1, <2>3 DEF Items
    <3> QED
      BY <1>4, <2>2, <2>3, <3>1
  <2> QED
    BY <1>4, <2>3
<1>5. CASE ResumeItemPause
  <2>1. pc # "down" /\ cur \in Items
    BY <1>5 DEF ResumeItemPause, AtItem, Items
  <2>2. UNCHANGED <<status, round>>
    BY <1>5 DEF ResumeItemPause
  <2>3. CASE decision[cur] = "stop"
    BY <1>5, <2>2, <2>3, <1>1 DEF ResumeItemPause
  <2>4. CASE decision[cur] # "stop"
    <3>1. cur' = IF Terminal(cur) THEN NextItem ELSE cur
      BY <1>5, <2>4 DEF ResumeItemPause
    <3> QED
      BY <2>1, <2>2, <3>1, <1>4
  <2> QED
    BY <2>3, <2>4
<1>6. CASE SkipTerminal
  <2>1. pc # "down" /\ cur \in Items /\ Terminal(cur) /\ cur' = NextItem /\ UNCHANGED <<status, round>>
    BY <1>6 DEF SkipTerminal, AtItem, Items
  <2> QED
    BY <2>1, <1>4
<1>7. CASE ItemDone
  <2>1. pc = "gate" /\ cur \in Items /\ UNCHANGED <<status, round>>
    BY <1>7 DEF ItemDone, ProcOK
  <2>2. Terminal(cur) \/ Settled(cur)
    BY <2>1 DEF ProcOK
  <2>3. pc' = "down" \/ cur' = NextItem
    BY <1>7 DEF ItemDone
  <2> QED
    BY <2>1, <2>2, <2>3, <1>1, <1>4
<1>8. CASE SaveRound
  <2>1. cur \in Items /\ status' = status /\ cur' = cur /\ pc # "down"
    BY <1>8 DEF SaveRound, ProcOK
  <2>2. \A i \in Items : round'[i] >= round[i]
    BY <1>8, <2>1 DEF SaveRound
  <2>3. \A i \in Items : Settled(i) => Settled(i)'
    BY <2>1, <2>2, <1>8 DEF SaveRound
  <2> QED
    BY <2>1, <2>2, <2>3, <1>8 DEF SaveRound
<1>9. ASSUME NEW outcome \in {"failed", "budget_exceeded"}, GiveUp(outcome) PROVE InOrder'
  BY <1>9 DEF GiveUp, ProcOK, EffectSteps
<1>10. ASSUME NEW dev \in BOOLEAN, MarkPassed(dev) PROVE InOrder'
  BY <1>10 DEF MarkPassed, ProcOK
<1>11. CASE SaveReconciled \/ SaveMeasured \/ SaveCommitted \/ SaveMemory
  BY <1>1, <1>11 DEF SaveReconciled, SaveMeasured, SaveCommitted, SaveMemory, SaveFlag
<1>12. CASE PassOver \/ ParkCommit \/ NoCommit \/ (\E failed \in BOOLEAN : Reconcile(failed) \/ Measure(failed) \/ AppendMemory(failed))
             \/ \E fs \in SUBSET tree : CommitFiles(fs)
  BY <1>1, <1>12 DEF PassOver, Reconcile, Measure, ParkCommit, NoCommit, AppendMemory,
       CommitFiles, Pending, EffectSteps
<1>13. CASE RecoverAcceptance \/ Finish \/ Generate \/ (\E pivot \in BOOLEAN : Retry(pivot))
  BY <1>1, <1>13 DEF RecoverAcceptance, AtItem, Finish, Generate, Retry
<1>14. CASE (\E c \in Decisions : HumanDecides(c)) \/ Crash \/ UNCHANGED vars
  BY <1>1, <1>14 DEF HumanDecides, Crash, vars, proc
<1> QED
  BY <1>2, <1>3, <1>5, <1>6, <1>7, <1>8, <1>9, <1>10, <1>11, <1>12, <1>13, <1>14
  DEF Next, Build, Loop, Rounds, Accept

\* What keeps accepted work where it is.  A pivot's reset empties the worktree: without
\* --only runs and failed commits everything accepted before is committed by then.
LEMMA StandingKept ==
  ASSUME ~ResetAllowed \/ (~OnlyRuns /\ ~CommitFails), Inv, InOrder, Standing, [Next]_vars
  PROVE  Standing'
<1> USE NAssumption, RoundsAssumption
<1> USE DEF Inv, TypeOK, store, git, effects, proc, Standing, Work
<1>1. CASE UNCHANGED <<status, acc, accepted, skipped, tree, landed>> /\ pc' # "commitFlag"
  BY <1>1
<1>2. CASE UNCHANGED <<vars>>
  BY <1>2 DEF vars, WantsCommit, Parked
<1>3. CASE BeginItem
  BY <1>3 DEF BeginItem, AtItem, Terminal
<1>4. ASSUME NEW outcome \in {"failed", "budget_exceeded"}, GiveUp(outcome) PROVE Standing'
  BY <1>4 DEF GiveUp, ProcOK, EffectSteps
<1>5. CASE Generate
  <2>1. cur \in Items /\ status[cur] = "building" /\ UNCHANGED <<status, acc, accepted, skipped, landed>>
    BY <1>5 DEF Generate, ProcOK
  <2>2. PICK ps \in SUBSET Parts : tree' = (tree \ ({cur} \X Parts)) \cup ({cur} \X ps)
    BY <1>5 DEF Generate
  <2>3. ASSUME NEW i \in Items \ skipped, status[i] = "passed" PROVE Work(i) \subseteq tree' \cup landed
    BY <2>1, <2>2, <2>3
  <2>4. pc' = "generated"
    BY <1>5 DEF Generate
  <2> QED
    BY <2>1, <2>3, <2>4
<1>6. ASSUME NEW pivot \in BOOLEAN, Retry(pivot) PROVE Standing'
  <2>1. /\ pc = "grade" /\ cur \in Items /\ status[cur] = "building" /\ round[cur] < MaxRounds
        /\ UNCHANGED <<status, acc, accepted, skipped, landed>> /\ pc' = "round"
    BY <1>6 DEF Retry, ProcOK
  <2>2. CASE tree' = tree
    BY <2>1, <2>2
  <2>3. CASE ResetAllowed
    <3>1. ~OnlyRuns /\ ~CommitFails /\ AutoCommit
      BY <2>3 DEF ResetAllowed
    <3>2. ASSUME NEW i \in Items \ skipped, status[i] = "passed" PROVE Work(i) \subseteq landed
      <4>1. i # cur
        BY <2>1, <3>2
      <4>2. ~(cur < i)
        BY <2>1, <3>1, <3>2 DEF InOrder, Settled
      <4>3. i < cur
        BY <2>1, <4>1, <4>2 DEF Items
      <4>4. "committed" \in acc[i]
        BY <2>1, <3>1, <3>2, <4>3 DEF NoneLeftBehind, NeededFlags
      <4> QED
        BY <3>1, <3>2, <4>4
    <3> QED
      BY <2>1, <3>2
  <2> QED
    BY <1>6, <2>2, <2>3 DEF Retry
<1>7. ASSUME NEW dev \in BOOLEAN, MarkPassed(dev) PROVE Standing'
  <2>1. /\ cur \in Items /\ status[cur] = "building" /\ status' = [status EXCEPT ![cur] = "passed"]
        /\ UNCHANGED <<acc, skipped, tree, landed>> /\ pc' = "reconcile"
        /\ accepted' = accepted \cup (tree \cap ({cur} \X Parts))
    BY <1>7 DEF MarkPassed, ProcOK
  <2>2. Work(cur) = {} /\ Work(cur)' \subseteq tree
    <3>1. Work(cur) = {}
      BY <2>1
    <3>2. cur' = cur
      BY <1>7 DEF MarkPassed
    <3> QED
      BY <2>1, <3>1, <3>2
  <2>3. \A i \in Items : i # cur => Work(i)' = Work(i)
    BY <2>1
  <2>4. acc[cur] = {}
    BY <2>1 DEF FlagsTruthful
  <2> QED
    BY <2>1, <2>2, <2>3, <2>4
<1>8. ASSUME NEW fs \in SUBSET tree, CommitFiles(fs) PROVE Standing'
  <2>1. /\ tree' \cup landed' = tree \cup landed /\ landed \subseteq landed'
        /\ UNCHANGED <<status, acc, accepted, skipped, cur, paused, decision>>
        /\ cur \in Items /\ status[cur] = "passed"
    BY <1>8 DEF CommitFiles, Pending, ProcOK, EffectSteps
  <2>2. pc' = "commitFlag" => tree' = {}
    BY <1>8 DEF CommitFiles, Pending
  <2>3. cur \notin skipped /\ pc' = "commitFlag" => Work(cur) \subseteq landed'
    BY <2>1, <2>2
  <2> QED
    BY <2>1, <2>3
<1>9. CASE NoCommit
  <2>1. /\ UNCHANGED <<status, acc, accepted, skipped, cur, tree, landed, paused, decision>>
        /\ cur \in Items /\ status[cur] = "passed"
        /\ WantsCommit /\ ~CommitFails => tree = {}
    BY <1>9 DEF NoCommit, Pending, ProcOK, EffectSteps
  <2>2. WantsCommit' = WantsCommit
    BY <2>1 DEF WantsCommit, Parked
  <2>3. cur \notin skipped /\ WantsCommit /\ ~CommitFails => Work(cur) \subseteq landed
    BY <2>1
  <2> QED
    BY <2>1, <2>2, <2>3
<1>10. CASE SaveCommitted
  <2>1. /\ pc = "commitFlag" /\ cur \in Items /\ pc' = "memory"
        /\ acc' = [acc EXCEPT ![cur] = @ \cup {"committed"}]
        /\ UNCHANGED <<status, accepted, tree, landed>>
        /\ skipped' = (IF Parked /\ decision[cur] = "skip" THEN skipped \cup {cur} ELSE skipped)
    BY <1>10 DEF SaveCommitted, SaveFlag, FlagOf, StepAfter, ProcOK
  <2>2. AutoCommit /\ cur \notin skipped' => WantsCommit /\ cur \notin skipped
    BY <2>1 DEF WantsCommit
  <2>3. AutoCommit /\ ~CommitFails /\ cur \notin skipped' => Work(cur) \subseteq landed
    BY <2>1, <2>2
  <2>4. skipped \subseteq skipped'
    BY <2>1
  <2> QED
    BY <2>1, <2>3, <2>4
<1>11. ASSUME SaveReconciled \/ SaveMeasured \/ SaveMemory PROVE Standing'
  <2>1. PICK f \in {"reconciled", "measured", "memoryAppended"} :
           acc' = [acc EXCEPT ![cur] = @ \cup {f}]
    BY <1>11 DEF SaveReconciled, SaveMeasured, SaveMemory, SaveFlag, FlagOf
  <2>2. /\ cur \in Items /\ UNCHANGED <<status, accepted, skipped, tree, landed>>
        /\ pc' # "commitFlag"
    BY <1>11 DEF SaveReconciled, SaveMeasured, SaveMemory, SaveFlag, ProcOK, StepAfter
  <2>3. \A i \in Items : "committed" \in acc'[i] <=> "committed" \in acc[i]
    BY <2>1, <2>2
  <2> QED
    BY <2>2, <2>3
<1>12. CASE Loop
  <2>1. CASE RecoverAcceptance \/ ResumeItemPause
    BY <1>1, <2>1 DEF RecoverAcceptance, ResumeItemPause, AtItem
  <2>2. CASE SkipTerminal \/ Finish
    BY <1>1, <2>2 DEF SkipTerminal, Finish, AtItem
  <2>3. CASE ItemDone
    BY <1>1, <2>3 DEF ItemDone
  <2> QED
    BY <1>3, <1>12, <2>1, <2>2, <2>3 DEF Loop
<1>13. CASE SaveRound \/ PassOver \/ ParkCommit \/ (\E failed \in BOOLEAN : Reconcile(failed) \/ Measure(failed) \/ AppendMemory(failed))
  BY <1>1, <1>13 DEF SaveRound, PassOver, Reconcile, Measure, ParkCommit, AppendMemory,
       EffectSteps, StepAfter
<1>14. CASE (\E o \in 0 .. N : Start(o)) \/ Crash
  BY <1>1, <1>14 DEF Start, Crash
<1>15. CASE \E c \in Decisions : HumanDecides(c)
  BY <1>1, <1>15 DEF HumanDecides
<1> QED
  BY <1>2, <1>4, <1>5, <1>6, <1>7, <1>8, <1>9, <1>10, <1>11, <1>12, <1>13, <1>14, <1>15
  DEF Next, Build, Rounds, Accept

\* The work of an accepted item that the human did not skip stays in the worktree or the
\* history wherever the process is killed, as long as the pivot's reset is off or the build
\* is run without --only and no commit fails (runs without these assumptions lose it).
THEOREM AcceptedWorkIsSafe ==
  ASSUME ~ResetAllowed \/ (~OnlyRuns /\ ~CommitFails)
  PROVE  Spec => []AcceptedWorkStands
<1>1. Init => InOrder /\ Standing
  BY NAssumption DEF Init, InOrder, Standing, Settled, Work, Items
<1>2. Inv /\ (InOrder /\ Standing) /\ [Next]_vars => (InOrder /\ Standing)'
  BY OrderKept, StandingKept
<1>3. Standing => AcceptedWorkStands
  BY DEF Standing, AcceptedWorkStands, Work
<1> QED
  BY <1>1, <1>2, <1>3, Invariance, PTL DEF Spec

-----------------------------------------------------------------------------
(* The build implements the abstract acceptance protocol.  *)

\* Initial states map to initial states.
LEMMA InitPromised == Init => Promise!Init
  BY DEF Init, Promise!Init, Items, Promise!Items, NeededFlags

\* The memory flag is the last one an item needs, so no other flag settles it.
LEMMA OnlyMemorySettles ==
  ASSUME Inv, NEW p \in EffectSteps \ {"memory"}, pc = (CASE p = "reconcile" -> "reconcileFlag"
           [] p = "measure" -> "measureFlag" [] p = "commit" -> "commitFlag"), SaveFlag(p)
  PROVE  \A i \in Items : NeededFlags \subseteq acc'[i] <=> NeededFlags \subseteq acc[i]
<1> USE DEF Inv, TypeOK, EffectSteps
<1>1. cur \in Items /\ acc' = [acc EXCEPT ![cur] = @ \cup {FlagOf(p)}]
  BY DEF SaveFlag, ProcOK
<1>2. CASE p = "measure"
  BY <1>1, <1>2 DEF FlagOf, NeededFlags
<1>3. CASE p # "measure"
  <2>1. "memoryAppended" \notin acc[cur] /\ "memoryAppended" \notin acc'[cur]
    BY <1>1, <1>3 DEF FlagOf, EffectsOK, FlagsTruthful
  <2> QED
    BY <1>1, <2>1 DEF NeededFlags
<1> QED
  BY <1>2, <1>3

\* Every step maps to a step of the abstract protocol or to a stutter.
LEMMA NextPromised ==
  ASSUME Inv, ~OnlyRuns, [Next]_vars
  PROVE  [Promise!Next]_(Promise!vars)
<1> USE DEF Inv, TypeOK, Items, Promise!Items, store, git, effects, proc
<1>1. ASSUME status' = status, acc' = acc, memory' = memory, missed' = missed, phase' = phase
      PROVE  UNCHANGED Promise!vars
  BY <1>1 DEF Promise!vars
<1>2. ASSUME NEW o \in 0 .. N, Start(o) PROVE Promise!Resume
  BY <1>2 DEF Start, Promise!Resume
<1>3. CASE Finish
  <2>1. CASE paused = NoPause
    <3>1. only = 0 /\ pc # "down" /\ cur > N
      BY <1>3 DEF Finish, ProcOK
    <3>2. \A i \in Items : i < cur
      BY <3>1, NAssumption
    <3>3. {i \in Items : status[i] = "passed"} \subseteq {i \in Items : NeededFlags \subseteq acc[i]}
      BY <3>1, <3>2 DEF NoneLeftBehind
    <3> QED
      BY <1>3, <2>1, <3>3 DEF Finish, Promise!Next, Promise!Report
  <2>2. CASE paused # NoPause
    BY <1>1, <1>3, <2>2 DEF Finish
  <2> QED
    BY <2>1, <2>2
<1>4. CASE BeginItem
  <2>1. {i \in Items : status[i] = "passed"}' = {i \in Items : status[i] = "passed"}
    BY <1>4 DEF BeginItem, AtItem, Terminal
  <2> QED
    BY <1>4, <2>1 DEF BeginItem, Promise!vars
<1>5. ASSUME NEW outcome \in {"failed", "budget_exceeded"}, GiveUp(outcome) PROVE UNCHANGED Promise!vars
  <2>1. {i \in Items : status[i] = "passed"}' = {i \in Items : status[i] = "passed"}
    BY <1>5 DEF GiveUp, ProcOK
  <2> QED
    BY <1>5, <2>1 DEF GiveUp, Promise!vars
<1>6. ASSUME NEW dev \in BOOLEAN, MarkPassed(dev) PROVE Promise!Next
  <2>1. cur \in Items /\ status[cur] = "building" /\ phase = "build"
    BY <1>6 DEF MarkPassed, ProcOK
  <2> QED
    BY <1>6, <2>1 DEF MarkPassed, Promise!Pass, Promise!Next
<1>7. ASSUME NEW failed \in BOOLEAN, AppendMemory(failed) PROVE [Promise!Next]_(Promise!vars)
  <2>1. /\ cur \in Items /\ status[cur] = "passed" /\ "memoryAppended" \notin acc[cur]
        /\ UNCHANGED <<status, acc, phase>> /\ pc = "memory"
    BY <1>7 DEF AppendMemory, Pending, ProcOK, EffectSteps, FlagOf
  <2>2. missed' = [missed EXCEPT ![cur] = IF failed THEN @ \cup {"memoryAppended"} ELSE @ \ {"memoryAppended"}]
    BY <1>7, <2>1 DEF AppendMemory, Swallow, FlagOf
  <2>3. CASE failed
    <3>1. memory[cur] = 0 /\ memory' = memory
      BY <1>7, <2>1, <2>3 DEF AppendMemory, MemoryAfter
    <3>2. {i \in Items : "memoryAppended" \in missed[i]}' = {i \in Items : "memoryAppended" \in missed[i]} \cup {cur}
      BY <2>1, <2>2, <2>3
    <3>3. cur \notin {i \in Items : NeededFlags \subseteq acc[i]}
      BY <2>1 DEF NeededFlags
    <3> QED
      BY <2>1, <3>1, <3>2, <3>3 DEF Promise!Next, Promise!Miss
  <2>4. CASE ~failed
    <3>1. {i \in Items : "memoryAppended" \in missed[i]}' = {i \in Items : "memoryAppended" \in missed[i]} \ {cur}
      BY <2>1, <2>2, <2>4
    <3>2. CASE memory[cur] = 0
      BY <1>7, <2>1, <2>4, <3>1, <3>2 DEF AppendMemory, MemoryAfter, Promise!Next, Promise!Remember
    <3>3. CASE memory[cur] # 0
      <4>1. memory' = memory
        BY <1>7, <2>1, <2>4, <3>3 DEF AppendMemory, MemoryAfter
      <4>2. "memoryAppended" \notin missed[cur]
        BY <2>1, <3>3 DEF EffectsOK
      <4>3. {i \in Items : "memoryAppended" \in missed[i]}' = {i \in Items : "memoryAppended" \in missed[i]}
        BY <3>1, <4>2
      <4> QED
        BY <2>1, <4>1, <4>3 DEF Promise!vars
    <3> QED
      BY <3>2, <3>3
  <2> QED
    BY <2>3, <2>4
<1>8. CASE SaveMemory
  <2>1. /\ cur \in Items /\ status[cur] = "passed" /\ "memoryAppended" \notin acc[cur]
        /\ memory[cur] = 1 \/ "memoryAppended" \in missed[cur]
        /\ {"reconciled", "committed"} \subseteq acc[cur]
    BY <1>8 DEF SaveMemory, ProcOK, EffectsOK, FlagSteps
  <2>2. acc' = [acc EXCEPT ![cur] = @ \cup {"memoryAppended"}]
    BY <1>8 DEF SaveMemory, SaveFlag, FlagOf
  <2>3. {i \in Items : NeededFlags \subseteq acc[i]}' = {i \in Items : NeededFlags \subseteq acc[i]} \cup {cur}
    BY <2>1, <2>2 DEF NeededFlags
  <2> QED
    BY <1>8, <2>1, <2>3 DEF SaveMemory, SaveFlag, Promise!Next, Promise!Settle, NeededFlags
<1>9. ASSUME SaveReconciled \/ SaveMeasured \/ SaveCommitted PROVE UNCHANGED Promise!vars
  <2>1. \A i \in Items : NeededFlags \subseteq acc'[i] <=> NeededFlags \subseteq acc[i]
    BY <1>9, OnlyMemorySettles DEF SaveReconciled, SaveMeasured, SaveCommitted, EffectSteps
  <2> QED
    BY <1>9, <2>1 DEF SaveReconciled, SaveMeasured, SaveCommitted, SaveFlag, Promise!vars
<1>14. ASSUME NEW failed \in BOOLEAN, Reconcile(failed) \/ Measure(failed) PROVE UNCHANGED Promise!vars
  <2>1. /\ pc \in {"reconcile", "measure"} /\ cur \in Items /\ UNCHANGED <<status, acc, memory, phase>>
        /\ missed' = [missed EXCEPT ![cur] = IF failed THEN @ \cup {FlagOf(pc)} ELSE @ \ {FlagOf(pc)}]
    BY <1>14 DEF Reconcile, Measure, Pending, Swallow, ProcOK, EffectSteps
  <2>2. FlagOf(pc) # "memoryAppended"
    BY <2>1 DEF FlagOf
  <2>3. {i \in Items : "memoryAppended" \in missed[i]}' = {i \in Items : "memoryAppended" \in missed[i]}
    BY <2>1, <2>2
  <2> QED
    BY <2>1, <2>3 DEF Promise!vars
<1>10. CASE Loop
  BY <1>1, <1>3, <1>4, <1>10
  DEF Loop, RecoverAcceptance, ResumeItemPause, SkipTerminal, ItemDone
<1>11. CASE Rounds
  BY <1>1, <1>5, <1>11 DEF Rounds, Generate, SaveRound, Retry
<1>12. CASE Accept
  <2>1. CASE PassOver \/ ParkCommit \/ NoCommit
             \/ \E fs \in SUBSET tree : CommitFiles(fs)
    BY <1>1, <2>1 DEF PassOver, ParkCommit, NoCommit, CommitFiles
  <2> QED
    BY <1>6, <1>7, <1>8, <1>9, <1>12, <1>14, <2>1 DEF Accept
<1>13. CASE (\E c \in Decisions : HumanDecides(c)) \/ Crash \/ UNCHANGED vars
  BY <1>1, <1>13 DEF HumanDecides, Crash, vars
<1> QED
  BY <1>2, <1>10, <1>11, <1>12, <1>13 DEF Next, Build, Promise!Next

\* Without --only runs, the build keeps the promise that Acceptance states.
THEOREM Implements == ASSUME ~OnlyRuns PROVE Spec => KeepsPromise
<1>1. Inv /\ [Next]_vars => [Promise!Next]_(Promise!vars)
  BY NextPromised
<1> QED
  BY <1>1, InitPromised, Invariance, PTL DEF Spec, KeepsPromise, Promise!Spec
=============================================================================
