# Sparra in TLA+

Sparra drives coding agents through a software project: it interviews for a plan, freezes it,
decomposes it into work items, and builds each item with a generator session and an adversarial
evaluator session until it passes. Beside the command line there are `conduct` (parallel units of
work that are merged, landed and pushed), an HTTP bridge that starts the same phases as jobs, a
role runner behind an MCP server, and a user-level inbox of findings about the harness itself.

This directory holds TLA+ models of the parts of Sparra whose correctness depends on order, on
crashes and on interleavings, the TLC configurations that check them, and TLAPS proofs of the
properties that matter most. Paths below are relative to the repository (`src/phases/build.ts`).

    tlc -workers 2 -config landing.cfg Landing      # one run; section 3 names the module of each
    tlapm Landing_proofs.tla                        # the proofs of one module; section 5 lists them

## 1. Inventory

| Part | State it keeps | Operations | What is hard | Modelled in |
|---|---|---|---|---|
| Item loop and acceptance finisher (`src/phases/build.ts`, `src/state.ts`, `src/build/{commit,reset,interactive,reconcile}.ts`, `src/memory.ts`) | `state.json`: item status, round, acceptance flags, pause, phase; `decision.json`; the shared worktree; `memory.md` | start and resume, item loop, four acceptance effects, commit and item gate, pivot reset | a kill between effect and flag; one worktree for all items; pauses that outlive the process | `BuildAcceptance`, `Acceptance` |
| Round loop of one item (`src/phases/build.ts`, `src/build/{budget,pivot,autoRestart,evaluate,generate,contract}.ts`) | the item's round, spend, streaks, pivots, escalation; limit windows | contract, generate, preflight, evaluate, pass gates, patch, pivot, halt, retry, human decision | state changed in memory and saved later; rounds handed back; replay after a kill | `ItemRounds` |
| Attempt ledger (`src/build/attemptLedger.ts`) | `attempts.jsonl` | append with dedup and lineage | appended between the saves of its callers | `AttemptLedger` |
| One unit of conduct (`src/conduct/unitRunner.ts`, `conductors/core/loop.ts`) | the runner's counters, its contract, its entry in `run.json`, its ledger | negotiate, generate, evaluate, recover, judge, strike an assertion | a grade older than the artifact; a strike rounds after its cause; kill and resume | `ConductUnit`, `UnitLife` |
| A run of conduct (`src/conduct/{run,runState,decisionEngine,pending,recovery,decision}.ts`, `conductors/core/bounded.ts`, `conductors/http/handlers/conduct.ts`) | `run.json`, request and decision files, the pool of units | start units, ask, park, answer, time out, gate, complete, resume, `--decide` | units in parallel; an answer races a timeout; decisions outlive the process; people answer the same decision at once, by three ways | `ConductRun`, `ParkedDecisions` |
| Merge, land, push (`src/conduct/{merge,commit}.ts`) | the units' branches and worktrees, the run branch, the default branch, the upstream | commit, rebase, fast-forward, merge, abort, tear down, land, push | a kill at every git command; others move the default branch | `Landing`, `WholeOrNothing` |
| Role runner (`src/build/{roleRun,evaluate,generate,integrity}.ts`, `src/mcp/*`) | the workspace, throwaway worktrees | baseline, snapshot, sessions over a chain of backends, re-ask, integrity guard, verdict | a fallback writes over work; a judge edits what it judges; early returns | `RoleRun` |
| Unit worktrees (`src/build/unitWorktree.ts`) | a registry in `state.json`, git's worktrees | ensure (reuse, verify, repair, adopt, refuse, create), remove | several processes write one registry back whole | `UnitTrees` |
| Reflect and the inbox (`src/phases/{reflect,reflectDedupe,reflectShipped,upstreamTriage}.ts`) | the files of the inbox and its archive | route a finding, list, done, wontdo, clear, check-shipped | reflections and triage of several projects share files and no lock | `Inbox` |
| Project life cycle (`src/phases/{plan,orient,prototype,freeze,build,batch,new,finish,clean}.ts`, `src/util/git.ts`) | `state.json`'s phase, the documents and frozen copies, work items, the archive, the repository | the commands themselves | commands killed half-way; leftovers of an earlier cycle; branches torn down | `Cycle` |
| Bridge jobs and lock (`conductors/http/{jobs,spawn,register}.ts`, `handlers/`) | job map, cancel callbacks, lock holders, children | start, finish, cancel, evict, restart | late closes, callbacks that outlive their job, eviction of running jobs | `Bridge` |
| Events feed (`conductors/http/events.ts`) | ring, next id, JSONL file | emit, seed, poll | ids and cursors over restarts and a ring that drops | `EventFeed` |
| Bridge server and dashboard, brain and prompts, Pi conductor, backends, workspace boundary, configuration, utilities | none that is shared, or strings only | input and output, parsing, classification | - | no (section 7) |

How they interact. `cmdBuild` owns the item loop and the round loop; both work on one `StateStore`
object, written to `state.json` at chosen points, so what a kill leaves behind is the last save plus
every file effect made since. A conduct run starts units that each call the role runner in a unit
worktree; what it decides is asked of a policy, a brain, or a person through decision files, and
once the units are settled their branches are merged, landed and pushed. The bridge starts `sparra`
children, and its `TargetLock` is there because `state.json` is not safe for two writers; jobs emit
events to the feed. A finished cycle is archived, and its reflection writes to the inbox.

What makes each part correct. An accepted item is committed and remembered no more than once and its
work is not lost; an item passes on a passing round, within its budget, its rounds recorded; a unit is
accepted on a grade of what is there; a completed run has settled everything it asked; the first answer
to a decision stands and is acted on; the default branch and the upstream take a run whole or not at
all; a judge leaves nothing behind; registered worktrees are live; no finding and no archive is lost;
one writer per target; a client of the feed misses nothing that is retained. `PROJECT.json` lists the
hazards at their lines, each with its properties.

## 2. Modules

Every module is one file of state and actions. An action ends where the code saves, awaits, or calls
git, so a kill or another process can come between any two. History variables (`hist`, `seen`,
`built`, `touched`, `swept`) are read by properties only. Definitions under "Faulty variants" or
"Mutant of" replace a definition to see that a property notices.

**BuildAcceptance, Acceptance.** The item loop. `status`, `round`, `acc` (the acceptance flags),
`deviating`, `paused`, `phase` are `state.json`; `decision` is `decision.json`; `tree` and `landed` are
the worktree and the history; `pc`, `cur`, `only` are the process. `RecoverAcceptance`,
`ResumeItemPause`, `SkipTerminal`, `BeginItem`, `Finish` are the top of the loop in the code's order;
`MarkPassed`, `Reconcile`, `Measure`, `ParkCommit`, `CommitFiles`, `NoCommit`, `AppendMemory` and the
`Save...` actions are `finishAcceptance`. Files are the pairs item x part: what counts is whose
change it is and where it is. `Reconcile`, `Measure` and `AppendMemory` may fail, which the code does
not notice and `missed` records: the flag is saved all the same. `Earlier` are the items whose id has a
passed line in `memory.md` from an earlier run. `Acceptance` is the abstract promise (pass, remember at
most once, settle, report); `KeepsPromise` is the refinement.

**ItemRounds, AttemptLedger.** What happens inside `BuildAcceptance`'s "write, then grade". `s` is
the item in memory, `saved` the one on disk. A session costs one unit, one cut short zero or one;
one criterion stands for the rubric; assertion streaks, on which the loop never branches, and the
token budget are left out; limit windows close only between processes.

**ConductUnit, UnitLife.** `u` is the runner's memory; `entry`, `contract`, `ledger` are on disk, and so
is `asked`, a decision that a killed runner left pending in `run.json`: the resume asks it again, and an
*accept* or *abandon* ends the unit before it is entered (`RecoverDecision`). The three modes are the
code's: the core's `runUnit`, the hybrid rounds with judgments and recovery, and the brain that picks
every turn. What a model, a policy or a person answers is a choice of the action. `UnitLife` is what the
rest of conduct relies on of a unit; `FollowsLife` is the refinement.

**ConductRun.** `run`, `pool`, `slot` are the process, `disk` is `run.json`, `files` the request and
decision files. A unit appears by how it ends and when it asks. `Decide`, `DecideReads` and
`DecideWrites` are the command beside the run: it creates the decision file, reads `run.json`, and
writes its copy back, and what the run wrote between the last two is gone from the file.
`hist.dropped` are the numbers whose records were lost so.

**ParkedDecisions.** How a parked decision is asked and answered, at the grain of the file system.
`chain` is the queue of the `RunStateWriter`: a write is queued with its snapshot and `Persist`
carries it out later, so a kill loses what is queued. `ask[u]` is the poll of one unit, in the order
of its loop: look for a decision file, take what was typed, hand over to the brain, sleep. The landing
asks as the unit "run" (`ParkLand`): its records are kept apart from the units' but draw from the same
numbers. `client`
is a person who answers with `conduct --decide` or through the bridge: find the request, validate,
create the decision file exclusively, read `run.json`, write it back, each a step (the bridge does
the last two twice). `pipe` and `job` are the lines of the child and what the bridge's parser makes
of them. What a unit does with its answer is `ConductRun`'s.

**Landing, WholeOrNothing.** Commits are numbered by unit and kind (its own, its rebased one, its
merge), a branch is the set of commits it contains. Each git command of `landAcceptedUnits` is an
action; other people commit to the default branch and use the main checkout. `DefaultTakesWhole`
shows that it implements `WholeOrNothing`.

**RoleRun.** A request with its chain of backends, as the MCP tool and as the build loop issue it. A
directory is the set of edits in it, each with its run, author and session. A Codex judge without
scratch is held by its sandbox; a Claude judge can write through a command wherever it runs, and only
where there is scratch is there a snapshot to find that out with.

**UnitTrees.** `disk` is the registry, `mem` each process's copy, `dir`, `dirty`, `branch`, `listed`
the ground truth. All processes write all of what they have back.

**Inbox.** Files are sequences of findings with a recurrence count; reflections and the user's
command are processes. `alone` tells whether commands ever overlapped. A reflection holds lines of
the listing (`live`), then targets in the files (`bump`) and a copy of one of them (`buf`); a triage
holds a copy of all (`before`). Which finding is which is an identity of the model that the code does
not have: the place a finding had at first, or the reflection and the section that wrote it.

**Cycle.** `disk` is `state.json`, `mem` a command's copy, `at` the point it has reached; texts are
numbered in the order they are written, branches are the runs, a tip is a set of commits. One item
per build. A user edits and commits between commands and may run `clean` beside a build. `upstream`
holds the commits of the default branch's upstream, to which others push commits of their own and the
user pushes the default branch (`Push`, between commands, as the commands that pull do so at their
start; a branch merged upstream without a squash is left out); with `git.pullBeforeWork` a build of a fresh workspace and a prototype pull it first (`Pulled`), which may
fail.

**EventFeed, Bridge.** `Bridge` EXTENDS `EventFeed`; `Emit` is part of every action whose handler
calls `onEvent`. A handler runs synchronously up to the start of its work, so it is one action.
`succeeded` and `failed` are merged into `finished`. Any retained job can be canceled; `astray` are the
targets whose lock the cancel of a /role or /unit took while a writer works there.

`MC...` modules define values a cfg cannot write (sequences, pairs, symmetry sets). `..._proofs`
modules hold the theorems; a component that interacts with no other may share one with a larger one
(section 5), and the modules it shares it with must not use a name twice: `ConductRun`,
`ParkedDecisions` and `Inbox` write `RunInit`, `RunNext`, `RunSpec`, `ParkedSpec`, `InboxSpec` and so
on where the others write `Init`, `Next`, `Spec`. A type invariant (`TypeOK`, `RunTypeOK`, ...) is in
every module of state, for the reader; `BuildAcceptance`'s is proved, the other proofs carry the types
they need as the first part of their invariant (`Typed`, `Shapes`, `Numbered`), and no run repeats them.

## 3. Runs

| Run (module) | Shows | Bounds |
|---|---|---|
| `acceptance` (BuildAcceptance) | `FlagsTruthful`, `NoneLeftBehind`, `AcceptedWorkStands`, `PauseConsistent`, `BuildFinishes`, refinement `KeepsPromise` | 2 items, 2 rounds, both gates, an agent that splits commits, measure and reset, a measure or a line that fails unnoticed, an earlier line for the second item, 2 kills |
| `rounds` (ItemRounds) | `SpendBounded`, `StrategyEarned`, `EveryRoundDecided`, `PassWarranted` | 3 rounds, cap of 5 sessions, pivot and escalation after 2, 1 restart, fallback model, all gates, failing reset, 1 kill |
| `unit` (ConductUnit) | `AcceptWarranted`, `StrikeSound`, refinement `FollowsLife`, `UnitEnds` | 2 assertions, 2 rounds, pivot after 1 or 2, 3 modes, 3 lives |
| `conduct` (MCConductRun) | `CompletedMeansSettled`, `UnitRequestsKept`, `RunEnds` | 2 units, landing, 2 lives, 2 questions; the first process `auto` with 1 slot or `park-timeout` with 2, the resume `park-timeout` with 2; 1 human answer, *abandon* or *skip-land*, whose read and write of `run.json` are apart |
| `decisions` (MCParkedDecisions) | `OneRecord`, `ParkedIsSeen`, `AnsweredIsActedOn` | 1 unit and the landing, 2 decisions, 1 client, 1 recorded answer, 2 lives: a child of the bridge or a terminal with `park`, resumed as a child with `park` or at a terminal with `park-timeout` |
| `landing` (Landing) | `MergedIsThere`, `WorkNotLost`, `PushedIsWhole`, refinement `DefaultTakesWhole`, `LandingEnds` | 2 units, `--commit`, `--merge` or `--push` (which includes `--land`), 2 lives, 1 foreign commit |
| `role_run` (MCRoleRun) | `JudgeLeavesNothing`, `PassIsEarned`, `NoSecondWriter` | 2 runs, chains of 2 and 3 sessions, 1 edit by others, 1 kill |
| `unit_trees` (MCUnitTrees) | `RegisteredAreLive`, `HealsItself`, `WorkStays` | 2 names, 2 processes, 4 calls, 2 user steps, 1 kill |
| `inbox` (MCInbox) | `NothingLost`, `CountsAreExact` | 2 reflections of 2 sections, 3 file names, 2 commands of up to 2 marks |
| `cycle` (MCCycle) | `CycleStartsClean`, `MainOnlyByMerge`, `WorkKept`, `ArchivesStand` | 2 build runs and 1 kill; in worktrees: 2 commits, 1 archive; in place: 3 texts, 2 archives; `git.pullBeforeWork` |
| `bridge_jobs` (MCBridge) | `LockIffWorking`, `NothingMissed`, `FreedByHolder` | 2 targets, 3 jobs of which 2 are retained, ring of 2, 2 cancels of any kind of job, 1 restart |
| `cycle_main` (MCCycle) | a violation of `MainOnlyByMerge` with the branch strategy (section 4) | 2 runs, 1 commit |

Why the bounds are enough. Items of a build meet in the worktree, in the loop's order and in the
pause, each of which relates an item to one other; two kills let recovery itself be killed. Three
rounds are the least in which a pivot at a streak of two is followed by a generation. Two units are
enough for one to hold the landing back, for a conflict, and for the whole/nothing distinction; two
lives for a resume, three for a unit whose resume is killed as well. A lost update of `run.json` takes
one answerer and a second decision of the run, whoever asks it, and TLC finds it at these bounds
(`UnitsNeverReuse` and `AcceptedStay` of `ConductRun`, section 4). Two sections per
reflection let a finding match one that moves while it is judged. In the cycle, three texts are a
plan, a holdout and the plan of the next cycle, and two archives are one left half done and the
next. Three jobs on two targets are a holder, a stale actor and a bystander, with an eviction of a
running job. `MaxCrashes`, `MaxKills`, `MaxLives`, `MaxSeq`, `MaxAnswers`, `MaxForeign`, `MaxCalls`,
`MaxUser`, `MaxEdits`, `MaxRuns`, `MaxCommands`, `MaxMarks`, `MaxTexts`, `MaxCommits`, `MaxCycles`,
`MaxJobs`, `MaxCancels` and `MaxRestarts` of the bridge are bounds of the models; other numbers are
settings of Sparra.

What the constants leave out. `acceptance` has `CommitFails` and `OnlyRuns` FALSE and no failing
reconcile in `MayFail` (the proofs have all three). `conduct` leaves out the surface `park`, under which
a run waits for a person for ever, by design, and has people answer *abandon* and *skip-land* only,
while policies and timeouts give every answer (the proofs have all of them). `landing` has
`SwitchAnytime` and `CommitsHalf` FALSE, again because of section 4. Properties that speak of one
situation say so in their statement: `AcceptWarranted` of the modes `none` and `hybrid` (the brain of
the mode `llm` may accept a unit that was never graded), `UnitRequestsKept` of numbers that no answerer
dropped, `LockIffWorking` and `FreedByHolder` of targets that are not astray (section 4),
`JudgeLeavesNothing` and `PassIsEarned` of runs with a snapshot to compare with (in place there is none,
section 4), `CountsAreExact` of one command at a time (lost updates are what a directory without a lock
gives), `WorkStays` and `WorkKept` of removals that were not forced.

`CHECK_DEADLOCK FALSE` is in the runs of `ConductUnit`, `ConductRun`, `ParkedDecisions`, `Landing`,
`RoleRun`, `UnitTrees`, `Inbox` and `Cycle`: a runner or a landing ends, or the bounded calls are
used up.

Fairness. `BuildAcceptance` has `WF(Build)`, a process that is up takes its next step (it awaits
sessions and git, which have turn caps and timeouts), and `WF(Start(0))`, the user re-runs `sparra
build`, as every pause message asks; nothing is assumed of the answers. `ConductUnit` has
`WF(Work)`: roles are capped and a judgment is answered by policy, brain, timeout or person.
`ConductRun` has `WF(Process)`: nobody has to answer, which `auto` and `park-timeout` provide for.
`ParkedDecisions` has weak fairness of `Persist`, of each unit's poll and of each parser, the event
loops of the process and of the bridge; nobody has to answer, no unit has to ask, and the clock may
never run out. `Landing` has weak fairness of its own process, without the kill. The other modules
have safety properties only.

## 4. What the code does not keep

`cycle_main` shows a defect: with `git.strategy` "branch", `prepareWorkspace`
(`src/util/git.ts:146-148`) returns the branch's name although `git checkout -b` failed, and the
accepted item is committed to whatever is checked out, the default branch included; README.md:119 and
docs/configuration.md:85-86 say that cannot happen. The worktree strategy returns no branch then.

A lost update is the second (`UnitsNeverReuse` and `AcceptedStay` of `ConductRun`):
`applyFileDecisionToRunState` (`src/conduct/decisionEngine.ts:307-365`) reads `run.json` in the process
of `conduct --decide` or of the bridge and writes the whole file back, while the run's own writer adds
the record of another decision, or the outcome of a unit, in between. After a kill the resume counts on
from the greatest number it finds (`src/conduct/run.ts:810`), so the lost decision is not recovered, its
number is given to the next question, and an old answer file answers that one; docs/conduct.md:283-285
says that a resumed decision never re-uses a number. A unit whose acceptance was lost is entered again.
What does hold is narrower: the request of a unit is written over only where its number was dropped so
(`UnitRequestsKept`), and the lost update never leaves a unit with two records of one number
(`OneRecord`).

The third needs no lost update: the resume looks for the greatest number among the records of the
units only, while the landing's decisions draw from the same counter, so that the number of a land
decision, which `run.json` keeps, is given to a unit's question (`NumbersApart` of `ParkedDecisions`).

Each module ends with the sentences of a document or comment that its model refutes. TLC shows the
trace when the name is added to a cfg with the constants given here.

| Statement (module) | Sentence | What happens | With |
|---|---|---|---|
| `AcceptedPriorItemsCommitted` (BuildAcceptance) | `src/build/reset.ts:13`, docs/build-loop.md:37 | *skip* at the commit gate leaves accepted work uncommitted, and the next item's pivot may reset it away | `acceptance.cfg` |
| `NonPassNeverCommitted` (BuildAcceptance) | `src/phases/build.ts:280-281` | leftovers of a failed item are in the next accepted item's commit | `acceptance.cfg` |
| `EffectsHappened` (BuildAcceptance) | `src/phases/build.ts:507`, docs/build-loop.md:203 | a measure that throws and a passed line that cannot be written set their flags too, and a kill repeats a measure | `acceptance.cfg` |
| `VerdictNotFabricated` (ItemRounds) | docs/build-loop.md:236-238 | a blocked round gets a verdict derived from the last score | `rounds.cfg` |
| `AcceptOverFailHasReason` (ItemRounds) | docs/build-loop.md:169 | a fail at or above the threshold is overridden without a reason | `rounds.cfg` |
| `EveryRoundRecorded` (ConductUnit) | `src/build/attemptLedger.ts:9` | the round whose pivot ends in a strike is not recorded | `unit.cfg` |
| `SeqNeverReused` (ConductRun) | docs/conduct.md:284 | the number of a land decision is given to a unit's question after a resume, whose request replaces the landing's | `conduct.cfg` |
| `UnitsNeverReuse` (ConductRun) | docs/conduct.md:284 | the lost update above: a unit's record is dropped and a resume gives its number to another question | `conduct.cfg` |
| `AcceptedStay` (ConductRun) | docs/conduct.md:306 | an answerer writes back a copy from before the unit was accepted, and a resume enters it again | `conduct.cfg` |
| `SeqNeverReused` (ParkedDecisions) | docs/conduct.md:283-285 | the lost update, or a land decision's number | `decisions.cfg` |
| `NumbersApart` (ParkedDecisions) | docs/conduct.md:283-285 | after a resume `run.json` has a land decision and a unit's decision of one number | `decisions.cfg` |
| `SameResolution` (ParkedDecisions) | docs/conduct.md:138-139 | a decision resolved by the terminal or the timeout leaves no decision file and still counts as parked: another answer is accepted and reported as recorded | `decisions.cfg` |
| `ResolvedStays` (ParkedDecisions) | `src/conduct/decisionEngine.ts:322` | the answerer, or the run, writes back a `run.json` in which the decision is still pending | `decisions.cfg` |
| `AnswersAreOptions` (ParkedDecisions) | docs/conduct.md:133 | the request file is read between its creation and its filling, so the options are not known and any answer is recorded, which shuts out the valid ones | `decisions.cfg` |
| `ParkedNotIgnored` (ConductRun) | docs/conduct.md:286 | `--decide` after the kill puts the abandon into `run.json`, so the resume finds the decision resolved, recovers nothing and enters the unit again | `conduct.cfg` |
| `NeverMergedIntoDefault` (Landing) | `src/conduct/merge.ts`, `resolveMergeTarget` | the main checkout was switched to the default branch meanwhile and the unit is merged into it | `SwitchAnytime = TRUE` |
| `NothingDiscarded` (Landing) | `src/conduct/commit.ts`, "lose nothing" | files that no commit took are removed with the worktree | `CommitsHalf = TRUE` |
| `NothingOfAJudge` (RoleRun) | the integrity guard's own comment | a judge that ends at a limit returns before the guard and leaves its edits | `role_run.cfg` |
| `NoSourceWrites` (RoleRun) | `src/sdk/guard.ts:131` | an evaluator run in place writes through run_command or Bash; no snapshot was taken (`src/build/roleRun.ts:1810`, `src/build/evaluate.ts:279`), so the write stays and the pass stands | `role_run.cfg` |
| `NoDanglingEntry` (UnitTrees) | `src/build/unitWorktree.ts:277` | another process writes its older registry back | `unit_trees.cfg` |
| `MarkedIsMeant` (Inbox) | docs/configuration.md:493-494 | indices are resolved against the inbox as it is now, not as it was listed | `inbox.cfg` |
| `ArchiveKeeps` (Inbox) | docs/phases.md:41 | `--clear` renames over an archived file of the same name | `inbox.cfg` |
| `SkipsAreWarned` (Cycle) | docs/phases.md:55-57 | the plan's hash is stored although the items are reused, so the second build does not warn | `cycle.cfg` |
| `ReleasedOnce` (Bridge) | docs/http-bridge.md:300-301 | a canceled /role or /unit releases at the cancel and again when it ends, and the callback of one that is over releases too: the second release frees the lock of another job | `bridge_jobs.cfg` |
| `OneMutatingJob` (Bridge) | `conductors/http/spawn.ts:162` | the lock is free while a canceled child still runs its grace period | `bridge_jobs.cfg` |

With `CommitFails = TRUE` a failed `git commit` sets the committed flag as well
(`src/phases/build.ts:491-503`), where docs/build-loop.md:46 says that the step is not dropped. The
deduplication of `memory.md` looks for the item's id, so a line of an earlier run suppresses this run's:
`Acceptance` promises at most one line, not that it is this run's.

Seen while reading, and not stated as a property: a resumed unit starts again at round 1 and the
ledger's dedup drops its rounds; the answers *pivot* and *generalize* to an exhausted unit end it as
exhausted; a land decision that was parked is not recovered, and units accepted but not landed
before a kill are not landed by the resume; `finish --branch` checks the project's directory when
that branch has no worktree; items never reached are absent from `state.items`, so `finish` does not
count them as in flight; `finish` and then `new` write two directories for one cycle; a kill inside
the archive splits a cycle over two; a kill between `git worktree add` and the save makes the
resumed build fall back to the project's directory; `freeze` leaves an old frozen holdout when the
file was taken away; `clean --yes` beside a build removes a worktree that is clean at that moment.

## 5. Proofs

TLAPS proves, for every value of the constants that satisfies the named ASSUMEs of the modules:

| Theorem | Statement | Assumes beyond the named ASSUMEs |
|---|---|---|
| **BuildAcceptance_proofs** | | |
| `Typing` | `Spec => []TypeOK` | - |
| `TruthfulFlags` | `Spec => []FlagsTruthful` | - |
| `ConsistentPause` | `Spec => []PauseConsistent` | - |
| `NothingLeftBehind` | `Spec => []NoneLeftBehind` | - |
| `FinalAcceptance` | `Spec => AcceptanceFinal` | - |
| `AcceptedWorkIsSafe` | `Spec => []AcceptedWorkStands` | `~ResetAllowed \/ (~OnlyRuns /\ ~CommitFails)` |
| `Implements` | `Spec => KeepsPromise` (refines Acceptance) | `~OnlyRuns` |
| **ItemRounds_proofs** | | |
| `SpendStaysBounded` | `Spec => []SpendBounded` | - |
| `StrategyIsEarned` | `Spec => []StrategyEarned` | - |
| `RoundsAreDecided` | `Spec => []EveryRoundDecided` | - |
| `PassesAreWarranted` | `Spec => []PassWarranted` | - |
| **ConductUnit_proofs** | | |
| `AcceptancesAreWarranted` | `Spec => []AcceptWarranted` | - |
| `StrikesAreSound` | `Spec => []StrikeSound` | - |
| `EntryFollowsLife` | `Spec => FollowsLife` (refines UnitLife) | - |
| `NumbersAreUnique` (of ParkedDecisions) | `ParkedSpec => []OneRecord` | - |
| `AnswersAreFinal` (of ParkedDecisions) | `ParkedSpec => FirstAnswerStands` | - |
| **Landing_proofs** | | |
| `NoUnitLost` | `Spec => []WorkNotLost` | - |
| `OnlyWholeIsPushed` | `Spec => []PushedIsWhole` | - |
| `RecordIsTrue` | `Spec => []MergedIsThere` | `~SwitchAnytime` |
| `LandsAsAWhole` | `Spec => DefaultTakesWhole` (refines WholeOrNothing) | `~SwitchAnytime` |
| **RoleRun_proofs** | | |
| `JudgesLeaveNothing` | `Spec => []JudgeLeavesNothing` | - |
| `PassesAreEarned` | `Spec => []PassIsEarned` | - |
| `WorkIsNotOverwritten` | `Spec => NoSecondWriter` | - |
| `NothingIsLost` (of Inbox) | `InboxSpec => []NothingLost` | - |
| `CountsStayExact` (of Inbox) | `InboxSpec => []CountsAreExact` | - |
| **UnitTrees_proofs** | | |
| `RegistryIsLive` | `Spec => []RegisteredAreLive` | - |
| `RefusalsAreForeign` | `Spec => []HealsItself` | - |
| `NoWorkLost` | `Spec => WorkStays` | - |
| **Cycle_proofs** | | |
| `CyclesStartClean` | `Spec => []CycleStartsClean` | - |
| `OnlyMergesMoveMain` | `Spec => MainOnlyByMerge` | `"branch" \notin Strategies` |
| `NoCommitLost` | `Spec => WorkKept` | - |
| `ArchivesArePermanent` | `Spec => ArchivesStand` | - |
| **Bridge_proofs** | | |
| `LockDiscipline` | `Spec => []LockIffWorking` | - |
| `NoForeignRelease` | `Spec => FreedByHolder` | - |
| `CanceledIsFinal` | `Spec => CanceledStays` | - |
| `EventsReachTheClient` | `Spec => []NothingMissed` | - |
| `CompletedRunsAreSettled` (of ConductRun) | `RunSpec => []CompletedMeansSettled` | - |
| `UnitRequestsAreKept` (of ConductRun) | `RunSpec => UnitRequestsKept` | - |

What the assumptions exclude is in section 4, as things the code does: without `~SwitchAnytime` the user
switches the main checkout to the default branch while the landing runs; with the branch strategy
`cycle_main` is a counterexample; with `CommitFails`, or with `--only` runs that leave an item behind in
the shared worktree, a later pivot's reset takes accepted work that no commit has. `Implements` needs
`~OnlyRuns` because `--only` settles items out of order, which the promise of `Acceptance` does not.
None is there for the proof's sake: TLC refutes each of these properties when the constants break its
assumption.

The named ASSUMEs are types of the constants and bounds greater than zero, but for `InboxStart`: it
says that the identities the model gives to the findings at first are distinct, and that every file
holds a finding, as a file without a heading is read as one.

The shape is the same everywhere: an inductive invariant `Inv` in named parts, each stated with a
sentence at the head of its module (`Settled`, `Numbered /\ Once`, `Preserved` and `Alone` for the
components that share one); one lemma per part or per action; the action properties and
refinements as one further lemma about a step from `Inv`. None of the properties is inductive; what
each needs besides is the following.

- *Item loop.* Where the process stands: at an effect step the item is passed and every earlier flag is
  set; at a flag step the effect has happened as well, or its failure is in `missed`; a commit pause
  names an item that is passed and reconciled but not committed; the items before `cur` are settled
  while a full run is up (`ProcOK`, `EffectsOK`). For `AcceptedWorkStands`: items are settled in order
  (`InOrder`), so the one that a pivot may reset has only settled ones before it, and what those made is
  in the history (`Standing`).
- *Round loop.* A kill takes the item back to its last save, so nothing holds of memory alone: every
  part speaks of `s` and of `saved`, and `Place` and `Money` say how far the two may be apart (one
  round, the sessions billed since). `Decided` and `Earned` count rounds without a record and weak
  grades; the sets they count grow by at most one with the round they end at (`Seen`, `Undecided`).
- *One unit.* From a grade to the judgments on it no generator runs, and nothing but a grade follows
  a strike (`GradeStands`); while a unit runs its entry has no end (`Running`); a decision that is left
  in `run.json` is a dead runner's, and one on a grade finds the artifact as it was graded (`Left`).
- *Landing.* The commit of the unit at hand is on its branch, then on the one it was merged into
  (`Carried`); what was merged before stays (`Kept`); the target is a branch of the user's in the
  main checkout or the run's in its own worktree, which is not made again over an old one
  (`Target`); the default branch has all units or none (`Whole`).
- *Role runner.* Edits carry their run (`Dated`), what was there when the chain of sessions began has
  nothing of this run (`Placed`), and a judge's edit is there until the guard, where it has a snapshot,
  looks (`Caught`).
- *Unit worktrees.* The registry on disk alone is not inductive, as a process may write back an old
  one: every name that any process has in memory or is about to register has its worktree (`Known`),
  and a branch exists only with its worktree (`Whole`).
- *Cycle.* Each piece is moved into the directory made for it once (`Archive`) and is not there any
  more (`Emptied`), nothing is older than the cycle (`Current`), and a build that has a branch has a
  directory of its own (`Apartness`).
- *Bridge.* A phase whose worker is live has not set `released`, jobs not yet created have no worker and
  no lock (`Flagged`), and only writers have a callback (`Uncanceled`). A step that settles a job keeps
  the lock, or frees the target and either ends the work of that job there or marks the target `astray`
  (`SettleLocks`); on a target that is not astray the writer at work is the holder. For the feed: ids
  are given out without gaps, so the file is the window `1..maxId` and the ring the end of it that fits
  (`FeedInv`), which a restart rebuilds.
- *Parked decisions.* Every copy of the units' records, on disk, in memory, in the writer's queue or in
  an answerer's hands, has one record of a number, and its numbers are bounded, so that the greatest one
  a resume goes on from exists (`Tables`, `MaxIsTop`); the process has counted past all of its own
  (`Numbered`). A decision file is created once (`Once`). Two programs append to different copies, and
  neither appends a number that its copy has.
- *A run of conduct* (`Settled` in `Bridge_proofs`). Every question that is open, and every request a
  unit has written, has its record both in the memory and in `run.json`, unless an answerer dropped it
  from the file (`Records`, `Known`), and the run has counted past all records of units (`Numbers`);
  hence a request is never written over by another with its number, unless that number was dropped. A
  record of a unit without an answer is asked for at this moment, or the resume still has to recover it,
  under its old number or the new one (`Pending`); what has ended is final, and a gate that failed keeps
  the run in its units (`Outcomes`). An answerer may put an old copy in the place of `run.json`, so what
  a completed file says holds of the copy in its hands as well (`Closed`, `Whole`). Without `Pending` a
  run could reach its end past a decision nobody asks for any more.
- *Inbox, nothing lost* (`Preserved` in `RoleRun_proofs`). Files are written back whole from copies
  that are old by then, so the property is one of the copies: a copy and its file agree on the
  findings that are in no archive (`Left(copy, Kept) = Holds(f)` in `Routes` and `Commands`), although
  they may differ in counters and in findings that were archived meanwhile and that the copy brings
  back. Every step is shown to carry on (`Carries`): what was safe stays safe, a name in use stays in
  use, and each file holds what it held but for what is kept. A new file has a name that no file and no
  archive has, so no copy is one of it. What a triage removes is in the archive by then (`Commands`).
- *Inbox, exact counts* (`Alone`, next to `Preserved`). One command at a time, a finding is in one
  place (`Once`), the lines and targets of a reflection point at what they name and its copy is the
  file counted up (`Points`), the files a triage has yet to change are as it loaded them (`AsRead`).
  Then every counter is the first value and one for each section that counted for the finding and
  whose target is not outstanding (`Tallied`, `Credits`); a killed reflection leaves targets that are
  never counted, which is why the property is an interval. The listing is a sequence by rank, and that
  it shows every finding once is a lemma about finite sets under an order (`ListedByRank`).

Every invariant and every action property that a run checks is stated by one of these theorems.
`AcceptanceFinal`, `CanceledStays` and `FirstAnswerStands` are proved and not repeated by a run.
Only model-checked: liveness under fairness (`BuildFinishes`, `UnitEnds`, `RunEnds`, `LandingEnds`,
`ParkedIsSeen`, `AnsweredIsActedOn`), which is out of the prover's reach, and that the properties of
section 4 fail. `Preserved` and `Alone` were checked by TLC at the bounds of `inbox` before they were
proved; no run repeats them.

## 6. Plan

The models are as complete as the parts named in section 1 allow, and what they keep safe is proved.
What could follow: the eviction and restart of the bridge together with parked decisions (`Bridge` and
`ParkedDecisions` each have their half), a write of `state.json` that is cut short, and the hazards of
`PROJECT.json` that no property covers yet.

## 7. Not modelled

Sessions, providers and backends, the brain's and the prompts' texts, the parsing of verdicts: their
results are choices of the models. The workspace boundary and the classification of paths and
commands are pure functions of strings. The bridge's server, tokens, paths and dashboard, the Pi
conductor, the configuration and the wrappers of files and git keep no state between calls that the
models would relate.

Inside the modelled parts: writes of a file are atomic (`state.json` is written in place by the
code, which `PROJECT.json` lists as a hazard); in `Cycle` pull requests and an unconfirmed merge,
which change nothing locally, a project map, snapshots, traces, provisioning
and prototype worktrees; in `RoleRun` a kept or irremovable worktree and the retirement of holdout
criteria while grading; in `Inbox` the other sections of a reflection and `applyReflection`; in
`ConductRun` learnings, the shadow judge and costs; in `ParkedDecisions` the surface `auto`, the
guards against symbolic links, an answerer killed half-way, and the eviction and restart of the
bridge, which `Bridge` has; in `Landing` which files a commit takes and its message; in
`BuildAcceptance` the distilled technique line and the contents of commits.
