-------------------------- MODULE BuildAcceptance --------------------------
(***************************************************************************)
(* The item loop of `sparra build` and the acceptance finisher it drives    *)
(* (src/phases/build.ts): every item is generated into one shared worktree, *)
(* graded, and, when it is accepted, reconciled, measured, committed and    *)
(* remembered, each effect followed by a flag saved to state.json.          *)
(*                                                                          *)
(* The process may be killed between any effect and the save of its flag;   *)
(* what survives is state.json (status, round, acc, deviating, paused,      *)
(* phase), the human's decision.json files, the git worktree and history,   *)
(* the plan/changelog and memory.md.  What is lost is pc, cur and only.     *)
(* The rounds of one item are abstracted here to "write, then grade"; the   *)
(* module ItemRounds models them in full.                                   *)
(***************************************************************************)
EXTENDS Integers, FiniteSets

CONSTANTS
  N,            \* number of work items, built in order 1..N
  Parts,        \* the separately committable parts (files) of one item's change
  MaxRounds,    \* build.maxRoundsPerItem
  AutoCommit,   \* git.autoCommit and a recorded Sparra branch
  AgentCommits, \* git.agentCommits = "agent": the committer role may split the change
  CommitGate,   \* --step=commit
  ItemGate,     \* --step=item
  MeasureOn,    \* measure.enabled with a command
  ResetOn,      \* every gate of the pivot's workspace reset but git.autoCommit holds
  CommitFails,  \* `git commit` may fail (a hook, a lock, a full disk)
  Earlier,      \* items whose id has a passed line in memory.md, which is kept across runs
  MayFail,      \* effects that can fail without the finisher noticing: reconcile, measure, memory
  OnlyRuns,     \* the user may run `sparra build --only <item>`
  MaxCrashes    \* bound on process kills

ASSUME NAssumption == N \in Nat \ {0}
ASSUME RoundsAssumption == MaxRounds \in Nat \ {0}
ASSUME CrashAssumption == MaxCrashes \in Nat
ASSUME SwitchAssumption ==
  /\ {AutoCommit, AgentCommits, CommitGate, ItemGate} \subseteq BOOLEAN
  /\ {MeasureOn, ResetOn, CommitFails, OnlyRuns} \subseteq BOOLEAN

Items   == 1 .. N
Changes == Items \X Parts
Flags   == {"reconciled", "measured", "committed", "memoryAppended"}

EffectSteps == {"reconcile", "measure", "commit", "memory"}

\* acceptanceComplete leaves `measured` out: a project that measures nothing completes too.
NeededFlags == {"reconciled", "committed", "memoryAppended"}

NoPause   == [kind |-> "none", item |-> 0]
Pauses    == [kind : {"none", "commit", "item"}, item : 0 .. N]
Decisions == {"none", "commit", "skip", "continue", "stop"}
Choices(kind) == IF kind = "commit" THEN {"commit", "skip"} ELSE {"continue", "stop"}

VARIABLES
  status, round, acc, deviating, paused, phase, \* .sparra/state.json
  decision,                                     \* interactive/<run>/<item>/decision.json
  tree, landed,                                 \* uncommitted and committed changes
  reconciles, measures, memory,                 \* effects per item: plan edits, measure lines, passed lines
  missed,                                       \* history: effects whose failure the finisher swallowed
  pc, cur, only,                                \* the running process
  accepted, skipped, crashes                    \* history: what was accepted, what the human skipped

store   == <<status, round, acc, deviating, paused, phase>>
git     == <<tree, landed>>
effects == <<reconciles, measures, memory, missed>>
proc    == <<pc, cur, only>>
vars    == <<store, decision, git, effects, proc, accepted, skipped, crashes>>

IsLast   == only # 0 \/ cur = N
NextItem == IF only # 0 THEN N + 1 ELSE cur + 1

(* Faulty variants of the definitions below, substituted for them to see the properties fail. *)
RecoverNothing           == FALSE
MemoryWithoutDedup(n)    == n + 1
PauseKept                == paused
MemoryBeforeCommit(p)    == CASE p = "reconcile" -> "measure" [] p = "measure" -> "memory"
                             [] p = "memory" -> "commit"     [] p = "commit" -> "gate"

Complete(i) == NeededFlags \subseteq acc[i]

\* What the item loop skips: a failed item is retried on resume unless the item gate is on.
Terminal(i) == \/ status[i] \in {"passed", "budget_exceeded"}
               \/ ItemGate /\ status[i] = "failed" /\ round[i] >= MaxRounds

\* A passed item whose acceptance is incomplete: looked for before the terminal skip.
NeedsRecovery == status[cur] = "passed" /\ ~Complete(cur)
AtPausedItem  == paused = [kind |-> "item", item |-> cur]

\* The commit gate: closed until the pause it wrote is the one this run resumes.
Parked      == paused = [kind |-> "commit", item |-> cur]
GateCloses  == CommitGate /\ AutoCommit /\ ~Parked
WantsCommit == AutoCommit /\ (Parked => decision[cur] # "skip")

\* A template commit takes every changed file; the agent's groups come one by one and
\* what they miss is swept by a last one.
OneCommit(fs) == fs # {} /\ (fs = tree \/ AgentCommits)

PauseAfterCommit == IF Parked THEN NoPause ELSE paused

\* hasLearning: the append is skipped when memory.md already holds a passed line of the item.
MemoryAfter(n) == IF n = 0 THEN 1 ELSE n

ResetAllowed == ResetOn /\ AutoCommit

Init ==
  /\ status = [i \in Items |-> "pending"]
  /\ round = [i \in Items |-> 0]
  /\ acc = [i \in Items |-> {}]
  /\ deviating = [i \in Items |-> FALSE]
  /\ paused = NoPause
  /\ phase = "frozen"
  /\ decision = [i \in Items |-> "none"]
  /\ tree = {} /\ landed = {}
  /\ reconciles = [i \in Items |-> 0]
  /\ measures = [i \in Items |-> 0]
  /\ memory = [i \in Items |-> IF i \in Earlier THEN 1 ELSE 0]
  /\ missed = [i \in Items |-> {}]
  /\ pc = "down" /\ cur = 1 /\ only = 0
  /\ accepted = {} /\ skipped = {} /\ crashes = 0

-----------------------------------------------------------------------------
(* Starting the process, and the top of the item loop.                      *)

\* `sparra build [--only i]`: an --only that would step over a pause is refused.
Start(o) ==
  /\ pc = "down"
  /\ o # 0 => OnlyRuns /\ paused.item \in {0, o}
  /\ phase' = "build"
  /\ pc' = "item" /\ cur' = (IF o = 0 THEN 1 ELSE o) /\ only' = o
  /\ UNCHANGED <<status, round, acc, deviating, paused, decision, git, effects,
                 accepted, skipped, crashes>>

AtItem == pc = "item" /\ cur <= N

RecoverAcceptance ==
  /\ AtItem /\ NeedsRecovery
  /\ pc' = "reconcile"
  /\ UNCHANGED <<store, decision, git, effects, cur, only, accepted, skipped, crashes>>

ResumeItemPause ==
  /\ AtItem /\ ~NeedsRecovery /\ AtPausedItem
  /\ paused' = NoPause
  /\ IF decision[cur] = "stop"
     THEN pc' = "down" /\ UNCHANGED cur
     ELSE pc' = "item" /\ cur' = (IF Terminal(cur) THEN NextItem ELSE cur)
  /\ UNCHANGED <<status, round, acc, deviating, phase, decision, git, effects,
                 only, accepted, skipped, crashes>>

SkipTerminal ==
  /\ AtItem /\ ~NeedsRecovery /\ ~AtPausedItem /\ Terminal(cur)
  /\ cur' = NextItem
  /\ UNCHANGED <<store, decision, git, effects, pc, only, accepted, skipped, crashes>>

BeginItem ==
  /\ AtItem /\ ~AtPausedItem /\ ~Terminal(cur)
  /\ status' = [status EXCEPT ![cur] = "building"]
  /\ pc' = "round"
  /\ UNCHANGED <<round, acc, deviating, paused, phase, decision, git, effects,
                 cur, only, accepted, skipped, crashes>>

Finish ==
  /\ pc = "item" /\ cur > N
  /\ phase' = (IF paused = NoPause THEN "done" ELSE phase)
  /\ pc' = "down"
  /\ UNCHANGED <<status, round, acc, deviating, paused, decision, git, effects,
                 cur, only, accepted, skipped, crashes>>

-----------------------------------------------------------------------------
(* The rounds of one item, as far as the worktree and the outcome see them.  *)

\* The generator writes into the shared worktree; the round is saved only afterwards.
Generate ==
  /\ pc = "round" /\ round[cur] < MaxRounds
  /\ \E ps \in SUBSET Parts :
       tree' = (tree \ ({cur} \X Parts)) \cup ({cur} \X ps)
  /\ pc' = "generated"
  /\ UNCHANGED <<store, decision, landed, effects, cur, only,
                 accepted, skipped, crashes>>

SaveRound ==
  /\ pc = "generated"
  /\ round' = [round EXCEPT ![cur] = @ + 1]
  /\ pc' = "grade"
  /\ UNCHANGED <<status, acc, deviating, paused, phase, decision, git, effects,
                 cur, only, accepted, skipped, crashes>>

\* A patch keeps the worktree; a pivot resets it to HEAD when every reset gate holds.
Retry(pivot) ==
  /\ pc = "grade" /\ round[cur] < MaxRounds
  /\ tree' = (IF pivot /\ ResetAllowed THEN {} ELSE tree)
  /\ pc' = "round"
  /\ UNCHANGED <<store, decision, landed, effects, cur, only,
                 accepted, skipped, crashes>>

\* The rounds or the budget ran out: the item's changes stay where they are.
GiveUp(outcome) ==
  /\ pc \in {"round", "grade"}
  /\ outcome = "failed" => round[cur] >= MaxRounds
  /\ status' = [status EXCEPT ![cur] = outcome]
  /\ pc' = "gate"
  /\ UNCHANGED <<round, acc, deviating, paused, phase, decision, git, effects,
                 cur, only, accepted, skipped, crashes>>

-----------------------------------------------------------------------------
(* finishAcceptance: mark passed, then four effects, each with its flag.     *)

\* status, the opened acceptance ledger and the deviations are saved at once.
MarkPassed(dev) ==
  /\ pc = "grade"
  /\ status' = [status EXCEPT ![cur] = "passed"]
  /\ deviating' = [deviating EXCEPT ![cur] = dev]
  /\ accepted' = accepted \cup (tree \cap ({cur} \X Parts))
  /\ pc' = "reconcile"
  /\ UNCHANGED <<round, acc, paused, phase, decision, git, effects, cur, only,
                 skipped, crashes>>

FlagOf(p)    == CASE p = "reconcile" -> "reconciled" [] p = "measure" -> "measured"
                  [] p = "commit" -> "committed"     [] p = "memory" -> "memoryAppended"
StepAfter(p) == CASE p = "reconcile" -> "measure"    [] p = "measure" -> "commit"
                  [] p = "commit" -> "memory"        [] p = "memory" -> "gate"

\* A step whose flag is already saved, or a measure that is not configured, is passed over.
PassOver ==
  /\ pc \in EffectSteps
  /\ FlagOf(pc) \in acc[cur] \/ (pc = "measure" /\ ~MeasureOn)
  /\ pc' = StepAfter(pc)
  /\ UNCHANGED <<store, decision, git, effects, cur, only, accepted, skipped, crashes>>

Pending(p) == pc = p /\ FlagOf(p) \notin acc[cur]

\* An effect that fails is not reported: its flag is saved all the same.
Swallow(failed) ==
  /\ failed => pc \in MayFail
  /\ missed' = [missed EXCEPT ![cur] = IF failed THEN @ \cup {FlagOf(pc)} ELSE @ \ {FlagOf(pc)}]

Done(failed) == IF failed THEN 0 ELSE 1

\* reconcilePlan edits the plan; without deviations it does nothing, and how its session
\* ended is not looked at.
Reconcile(failed) ==
  /\ Pending("reconcile")
  /\ failed => deviating[cur]
  /\ reconciles' = [reconciles EXCEPT ![cur] = IF deviating[cur] THEN @ + Done(failed) ELSE @]
  /\ Swallow(failed)
  /\ pc' = "reconcileFlag"
  /\ UNCHANGED <<store, decision, git, measures, memory, cur, only, accepted, skipped, crashes>>

\* A measure that throws, or a line that cannot be written, is a warning at most.
Measure(failed) ==
  /\ Pending("measure") /\ MeasureOn
  /\ measures' = [measures EXCEPT ![cur] = @ + Done(failed)]
  /\ Swallow(failed)
  /\ pc' = "measureFlag"
  /\ UNCHANGED <<store, decision, git, reconciles, memory, cur, only, accepted, skipped, crashes>>

\* The commit gate: write the default decision, save the pause, end the run.
ParkCommit ==
  /\ Pending("commit") /\ GateCloses
  /\ decision' = [decision EXCEPT ![cur] = "commit"]
  /\ paused' = [kind |-> "commit", item |-> cur]
  /\ pc' = "down"
  /\ UNCHANGED <<status, round, acc, deviating, phase, git, effects, cur, only,
                 accepted, skipped, crashes>>

\* One commit object with the item's trailer.
CommitFiles(fs) ==
  /\ Pending("commit") /\ ~GateCloses /\ WantsCommit
  /\ OneCommit(fs)
  /\ tree' = tree \ fs
  /\ landed' = landed \cup fs
  /\ pc' = (IF fs = tree THEN "commitFlag" ELSE pc)
  /\ UNCHANGED <<store, decision, effects, cur, only, accepted, skipped, crashes>>

\* Nothing to commit, a human skip, no autoCommit, or a failed git commit, whose
\* result finishAcceptance reads only for its log line.
NoCommit ==
  /\ Pending("commit") /\ ~GateCloses
  /\ WantsCommit => tree = {} \/ CommitFails
  /\ pc' = "commitFlag"
  /\ UNCHANGED <<store, decision, git, effects, cur, only, accepted, skipped, crashes>>

\* appendLearning, unless memory.md already holds a passed line for the item; it never
\* throws, so a write that failed looks like one that did not.
AppendMemory(failed) ==
  /\ Pending("memory")
  /\ failed => MemoryAfter(memory[cur]) # memory[cur]
  /\ memory' = [memory EXCEPT ![cur] = IF failed THEN @ ELSE MemoryAfter(@)]
  /\ Swallow(failed)
  /\ pc' = "memoryFlag"
  /\ UNCHANGED <<store, decision, git, reconciles, measures, cur, only,
                 accepted, skipped, crashes>>

\* The flag of an effect is set and saved once the effect has returned.
SaveFlag(p) ==
  /\ acc' = [acc EXCEPT ![cur] = @ \cup {FlagOf(p)}]
  /\ pc' = StepAfter(p)
  /\ UNCHANGED <<status, round, deviating, phase, decision, git, effects, cur, only,
                 accepted, crashes>>

SaveReconciled == pc = "reconcileFlag" /\ SaveFlag("reconcile") /\ UNCHANGED <<paused, skipped>>
SaveMeasured   == pc = "measureFlag" /\ SaveFlag("measure") /\ UNCHANGED <<paused, skipped>>
SaveMemory     == pc = "memoryFlag" /\ SaveFlag("memory") /\ UNCHANGED <<paused, skipped>>
SaveCommitted  ==
  /\ pc = "commitFlag" /\ SaveFlag("commit")
  /\ paused' = PauseAfterCommit
  /\ skipped' = (IF Parked /\ decision[cur] = "skip" THEN skipped \cup {cur} ELSE skipped)

\* maybeItemGate: never after the last item of the run.
ItemDone ==
  /\ pc = "gate"
  /\ IF ItemGate /\ ~IsLast
     THEN /\ decision' = [decision EXCEPT ![cur] = "continue"]
          /\ paused' = [kind |-> "item", item |-> cur]
          /\ pc' = "down" /\ UNCHANGED cur
     ELSE /\ pc' = "item" /\ cur' = NextItem
          /\ UNCHANGED <<decision, paused>>
  /\ UNCHANGED <<status, round, acc, deviating, phase, git, effects, only,
                 accepted, skipped, crashes>>

-----------------------------------------------------------------------------
(* The environment: the human at a pause, and process kills.                 *)

HumanDecides(c) ==
  /\ pc = "down" /\ paused # NoPause
  /\ c \in Choices(paused.kind)
  /\ decision' = [decision EXCEPT ![paused.item] = c]
  /\ UNCHANGED <<store, git, effects, proc, accepted, skipped, crashes>>

Crash ==
  /\ pc # "down" /\ crashes < MaxCrashes
  /\ pc' = "down" /\ crashes' = crashes + 1
  /\ UNCHANGED <<store, decision, git, effects, cur, only, accepted, skipped>>

Loop == RecoverAcceptance \/ ResumeItemPause \/ SkipTerminal \/ BeginItem \/ Finish \/ ItemDone

Rounds ==
  \/ Generate
  \/ SaveRound
  \/ \E pivot \in BOOLEAN : Retry(pivot)
  \/ \E outcome \in {"failed", "budget_exceeded"} : GiveUp(outcome)

Accept ==
  \/ \E dev \in BOOLEAN : MarkPassed(dev)
  \/ PassOver
  \/ \E failed \in BOOLEAN : Reconcile(failed) \/ Measure(failed) \/ AppendMemory(failed)
  \/ SaveReconciled \/ SaveMeasured
  \/ ParkCommit \/ (\E fs \in SUBSET tree : CommitFiles(fs)) \/ NoCommit \/ SaveCommitted
  \/ SaveMemory

Build == Loop \/ Rounds \/ Accept

Next ==
  \/ \E o \in 0 .. N : Start(o)
  \/ Build
  \/ \E c \in Decisions : HumanDecides(c)
  \/ Crash

Spec == Init /\ [][Next]_vars

\* The process runs while it is up, and the user re-runs `sparra build`, as every pause
\* and the crash-resume documentation ask; nothing is assumed of the human's decisions.
FairSpec == Spec /\ WF_vars(Build) /\ WF_vars(Start(0))

-----------------------------------------------------------------------------
(* Properties.                                                               *)

TypeOK ==
  /\ status \in [Items -> {"pending", "building", "passed", "failed", "budget_exceeded"}]
  /\ round \in [Items -> 0 .. MaxRounds]
  /\ acc \in [Items -> SUBSET Flags]
  /\ deviating \in [Items -> BOOLEAN]
  /\ paused \in Pauses
  /\ phase \in {"frozen", "build", "done"}
  /\ decision \in [Items -> Decisions]
  /\ tree \in SUBSET Changes /\ landed \in SUBSET Changes
  /\ reconciles \in [Items -> Nat] /\ measures \in [Items -> Nat]
  /\ memory \in [Items -> 0 .. 1] /\ missed \in [Items -> SUBSET Flags]
  /\ pc \in {"down", "item", "round", "generated", "grade", "gate"}
            \cup EffectSteps \cup {"reconcileFlag", "measureFlag", "commitFlag", "memoryFlag"}
  /\ cur \in 1 .. N + 1 /\ only \in 0 .. N
  /\ accepted \in SUBSET Changes /\ skipped \in SUBSET Items
  /\ crashes \in 0 .. MaxCrashes

\* A saved flag is truthful and in order: the item was accepted, and the effect the flag
\* stands for has happened, or its last attempt failed and finishAcceptance swallowed that.
\* A kill can lose a flag, never an effect behind a flag: no flag lies because of a kill.
FlagsTruthful ==
  \A i \in Items :
    /\ acc[i] # {} => status[i] = "passed"
    /\ "reconciled" \in acc[i] /\ deviating[i] => reconciles[i] > 0 \/ "reconciled" \in missed[i]
    /\ "measured" \in acc[i] => measures[i] > 0 \/ "measured" \in missed[i]
    /\ "committed" \in acc[i] => "reconciled" \in acc[i]
    /\ "memoryAppended" \in acc[i] =>
         "committed" \in acc[i] /\ (memory[i] = 1 \/ "memoryAppended" \in missed[i])

\* A pause always has the item it names waiting at that gate: a commit pause an accepted,
\* reconciled, uncommitted item; an item pause a finished one with no effect outstanding.
PauseConsistent ==
  /\ paused.kind = "commit" =>
       LET i == paused.item IN
         i \in Items /\ status[i] = "passed" /\ "reconciled" \in acc[i] /\ "committed" \notin acc[i]
  /\ paused.kind = "item" =>
       LET i == paused.item IN
         i \in Items /\ Terminal(i) /\ (status[i] = "passed" => NeededFlags \subseteq acc[i])

\* A full run never gets past an accepted item with an effect outstanding, so a build that
\* reports done has settled every accepted item (the recovery at the top of the item loop).
NoneLeftBehind ==
  ~OnlyRuns =>
    /\ pc # "down" => \A i \in Items : i < cur /\ status[i] = "passed" => NeededFlags \subseteq acc[i]
    /\ phase = "done" => \A i \in Items : status[i] = "passed" => NeededFlags \subseteq acc[i]

\* The work of an accepted item that the human did not skip is never destroyed, whatever a
\* later item's pivot resets and wherever the process is killed: it is in the worktree or in
\* the history, and in the history once its committed flag is set and git has not failed
\* (finishAcceptance, step 2: "committed | human-skipped | N/A").
AcceptedWorkStands ==
  \A i \in Items \ skipped :
    LET work == accepted \cap ({i} \X Parts) IN
      /\ status[i] = "passed" => work \subseteq tree \cup landed
      /\ "committed" \in acc[i] /\ AutoCommit /\ ~CommitFails => work \subseteq landed

\* Acceptance is final: no step takes an item out of passed, retracts one of its flags or
\* grades it again (the terminal skip of the item loop).
AcceptanceFinal ==
  [][\A i \in Items :
       status[i] = "passed" =>
         status'[i] = "passed" /\ acc[i] \subseteq acc'[i] /\ round'[i] = round[i]]_vars

\* Every build comes to report done, again and again, whatever the human decides at the gates.
BuildFinishes == []<>(phase = "done")

\* What Acceptance promises of a build, read off this module's state.
Promise == INSTANCE Acceptance WITH
  passed   <- {i \in Items : status[i] = "passed"},
  settled  <- {i \in Items : NeededFlags \subseteq acc[i]},
  lines    <- memory,
  unsaved  <- {i \in Items : "memoryAppended" \in missed[i]},
  reported <- phase = "done"

\* The item loop and its finisher implement the abstract acceptance protocol: memory.md never
\* gets a second passed line of an item, an item is settled only when it has its line or the
\* line could not be written, and the build reports done only when all are settled.
KeepsPromise == Promise!Spec

-----------------------------------------------------------------------------
(* What a comment or a document says and the code does not keep (README, section 4). *)

\* reset.ts 13: "accepted prior items are committed, so HEAD == item-start exactly", which is
\* what makes the pivot's reset discard the failed attempt and nothing else.
AcceptedPriorItemsCommitted ==
  pc = "grade" /\ ResetAllowed =>
    \A i \in Items \ {cur} : status[i] = "passed" => tree \cap ({i} \X Parts) = {}

\* build.ts 280-281: "A non-pass build item is NEVER committed (only an accepted item commits)".
NonPassNeverCommitted ==
  \A i \in Items : status[i] \in {"failed", "budget_exceeded"} => landed \cap ({i} \X Parts) = {}

\* build.ts 507: "3) memory (exactly once)"; docs/build-loop.md 203 says it of every effect.
EffectsHappened ==
  \A i \in Items :
    /\ "measured" \in acc[i] => measures[i] = 1
    /\ "memoryAppended" \in acc[i] => memory[i] = 1
=============================================================================
