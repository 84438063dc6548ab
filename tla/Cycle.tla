------------------------------- MODULE Cycle -------------------------------
(***************************************************************************)
(* The life of one project from plan to close-out: the commands of         *)
(* src/phases (plan, orient, prototype, freeze, build, batch, new, finish,  *)
(* clean) over state.json, the documents, the archive of past cycles and    *)
(* the git repository.                                                      *)
(*                                                                          *)
(* A command is a process.  It loads state.json into `mem`, changes files   *)
(* and git one after the other, and saves `mem` to `disk` where the code    *)
(* calls store.save or transition; Kill may end it between any two steps.   *)
(* The user edits documents and the repository between commands, and may    *)
(* run `clean` beside a build.  What happens inside the rounds of one item  *)
(* is ItemRounds and BuildAcceptance; here a build has one item, which is   *)
(* generated, judged and committed.                                         *)
(*                                                                          *)
(* A document is the number of the text it holds, 0 when the file is        *)
(* missing; a branch is its run (0 is the default branch), its tip the set  *)
(* of commits it contains.                                                  *)
(***************************************************************************)
EXTENDS Naturals, FiniteSets, Sequences

CONSTANTS
  Strategies,  \* the values of config.git.strategy
  Mode,        \* state.mode by strategy: greenfield or existing
  AutoCommit,  \* config.git.autoCommit
  PullBeforeWork, \* config.git.pullBeforeWork
  MaxTexts,    \* bound, by strategy: texts ever written
  MaxRuns,     \* bound: build runs
  MaxCommits,  \* bound, by strategy: commits
  MaxCycles,   \* bound, by strategy: archive directories
  MaxKills     \* bound: processes killed

ASSUME StrategyAssumption == Strategies \subseteq {"worktree", "branch", "inplace"}
ASSUME ModeAssumption == Mode \in [Strategies -> {"greenfield", "existing"}]
ASSUME CommitAssumption == {AutoCommit, PullBeforeWork} \subseteq BOOLEAN
ASSUME BoundsAssumption ==
  /\ {MaxRuns, MaxKills} \subseteq Nat
  /\ {MaxTexts, MaxCommits, MaxCycles} \subseteq [Strategies -> Nat]

VARIABLES
  strategy,
  disk,    \* state.json
  live,    \* PLAN.md and HOLDOUT.md
  frozen,  \* their frozen copies
  work,    \* workitems/items.json: the text it was decomposed from
  cycles,  \* .sparra/cycles: one record for each directory
  git,     \* the repository
  upstream, \* the commits of the default branch's upstream
  cmd,     \* the command that runs
  at,      \* where it is
  mem,     \* its copy of state.json
  opts,    \* its options
  texts,   \* the texts written so far
  runs,    \* the build runs so far
  built,   \* history: the plan and the holdout the passed item answers to
  since,   \* history: the first text of the cycle `new` began
  warned,  \* this build warned that the plan has changed
  kills

outside == <<strategy, upstream>>
files == <<outside, live, frozen, work, cycles, texts, since>>
vars == <<strategy, upstream, disk, live, frozen, work, cycles, git, cmd, at, mem, opts, texts,
          runs, built, since, warned, kills>>

----------------------------------------------------------------------------
Main == 0
Root == 0                 \* the directory of the project; a worktree is its branch
None == MaxRuns + 1
Apart == MaxRuns + 2      \* a workspace of `batch`, outside the repository
Docs == {"plan", "holdout"}
Empty == [d \in Docs |-> 0]

(* state.ts: an edge of the phase machine that needs no force.              *)
Valid(from) ==
  CASE from = "orient" -> {"plan"}
    [] from \in {"plan", "prototype"} -> {"prototype", "plan", "frozen"}
    [] from = "frozen" -> {"build", "plan"}
    [] from = "build" -> {"build", "done", "plan"}
    [] from = "done" -> {"build", "plan"}

Moved(s, to) == IF to \in Valid(s.phase) THEN [s EXCEPT !.phase = to] ELSE s

(* newState, and what `new` puts in place of the finished cycle's state.    *)
Fresh(phase) ==
  [phase |-> phase, run |-> 0, ws |-> None, branch |-> None, item |-> "none", hash |-> 0]

MidFlight == {"pending", "building"}
Settled == {"passed", "abandoned"}

NoCmd == [fresh |-> FALSE, apart |-> FALSE, target |-> None, force |-> FALSE]

Init ==
  /\ strategy \in Strategies
  /\ disk = Fresh(IF Mode[strategy] = "existing" THEN "orient" ELSE "plan")
  /\ live = [Empty EXCEPT !["plan"] = 1]
  /\ frozen = Empty
  /\ work = 0
  /\ cycles = <<>>
  /\ git = [tip |-> [b \in {Main} |-> {}], head |-> Main, trees |-> {}, dirty |-> {}, made |-> 0]
  /\ upstream = {}
  /\ cmd = "none" /\ at = "none" /\ mem = Fresh("plan") /\ opts = NoCmd
  /\ texts = 1
  /\ runs = 0
  /\ built = Empty
  /\ since = 1
  /\ warned = FALSE
  /\ kills = 0

Begin(c, where, o) == cmd = "none" /\ cmd' = c /\ at' = where /\ opts' = o
Step(from, to) == at = from /\ at' = to /\ UNCHANGED <<cmd, opts>>
End == cmd' = "none" /\ at' = "none" /\ mem' = Fresh("plan") /\ opts' = NoCmd /\ warned' = FALSE
Save(s) == mem' = s /\ disk' = s
Idle == cmd = "none" /\ UNCHANGED <<cmd, at, mem, opts, warned>>

Write(d) ==
  /\ texts < MaxTexts[strategy]
  /\ texts' = texts + 1
  /\ live' = [live EXCEPT ![d] = texts + 1]

----------------------------------------------------------------------------
(* Git.                                                                     *)
HeadOf(dir) == IF dir = Root THEN git.head ELSE dir
Within(b, onto) == {b, onto} \subseteq DOMAIN git.tip /\ git.tip[b] \subseteq git.tip[onto]
Reachable(g) == UNION {g.tip[b] : b \in DOMAIN g.tip}

Branched(g, b) == [g EXCEPT !.tip = [x \in DOMAIN @ \cup {b} |-> IF x = b THEN @[g.head] ELSE @[x]]]

(* A commit of what is changed in a directory, on the branch it has out.    *)
Committed(g, dir) ==
  [g EXCEPT !.tip[HeadOf(dir)] = @ \cup {g.made + 1}, !.made = @ + 1, !.dirty = @ \ {dir}]

(* Mutant of MayDelete: -D whatever was asked.                              *)
AlwaysD(g, b, force) == b \in DOMAIN g.tip /\ b # g.head /\ b \notin g.trees

(* git branch -d (merged into HEAD only) and -D; neither deletes a branch   *)
(* that is checked out.                                                     *)
MayDelete(g, b, force) ==
  /\ b \in DOMAIN g.tip
  /\ b # g.head /\ b \notin g.trees
  /\ force \/ g.tip[b] \subseteq g.tip[g.head]

Deleted(g, b, force) ==
  IF MayDelete(g, b, force)
  THEN [g EXCEPT !.tip = [x \in DOMAIN @ \ {b} |-> @[x]]]
  ELSE g

CheckedOut(g, b) == [g EXCEPT !.head = b]

(* pullUpstream: `git pull --ff-only` of the branch that is checked out in   *)
(* the project, if it has an upstream; here the default branch has one.      *)
Pulled(g) ==
  IF g.head = Main /\ g.tip[Main] \subseteq upstream
  THEN [g EXCEPT !.tip[Main] = upstream]
  ELSE g

(* Mutant of Workspace: a worktree that git refused keeps its branch.       *)
KeepsBranch(made) ==
  IF strategy = "worktree" /\ made
  THEN [git |-> [Branched(git, mem.run) EXCEPT !.trees = @ \cup {mem.run}],
        ws |-> mem.run, branch |-> mem.run]
  ELSE [git |-> git, ws |-> Root, branch |-> mem.run]

(* prepareWorkspace: the repository afterwards, the directory and the       *)
(* branch of the build.  `made` is whether git makes the branch: it does    *)
(* not when the branch is there already.                                    *)
Workspace(made) ==
  CASE strategy = "inplace" -> [git |-> git, ws |-> Root, branch |-> None]
    [] strategy = "branch" ->
         [git |-> IF made THEN CheckedOut(Branched(git, mem.run), mem.run) ELSE git,
          ws |-> Root, branch |-> mem.run]
    [] strategy = "worktree" /\ made ->
         [git |-> [Branched(git, mem.run) EXCEPT !.trees = @ \cup {mem.run}],
          ws |-> mem.run, branch |-> mem.run]
    [] OTHER -> [git |-> git, ws |-> Root, branch |-> None]

----------------------------------------------------------------------------
(* The user, between commands.                                              *)

(* `plan` enters the phase where the machine lets it, and the planner may   *)
(* write PLAN.md; `log-finding` writes it and leaves the phase alone.       *)
Plan ==
  /\ Idle
  /\ disk' = Moved(disk, "plan")
  /\ Write("plan") \/ UNCHANGED <<texts, live>>
  /\ UNCHANGED <<outside, frozen, work, cycles, git, runs, built, since, kills>>

LogFinding ==
  /\ Idle /\ Write("plan")
  /\ UNCHANGED <<outside, disk, frozen, work, cycles, git, runs, built, since, kills>>

(* `orient` ends in the plan phase when the session wrote the map.          *)
Orient ==
  /\ Idle
  /\ disk' = Moved(disk, "plan")
  /\ UNCHANGED <<files, runs, git, built, kills>>

(* A prototype of an existing project gets a worktree of its own, after the *)
(* pull, which may fail (offline, a file in the way).                       *)
Prototype ==
  /\ Idle
  /\ disk' = Moved(disk, "prototype")
  /\ git' \in {git} \cup IF PullBeforeWork /\ Mode[strategy] = "existing" THEN {Pulled(git)} ELSE {}
  /\ UNCHANGED <<files, runs, built, kills>>

(* The human writes HOLDOUT.md, or takes it away.                           *)
Hold ==
  /\ Idle
  /\ \/ Write("holdout")
     \/ live' = [live EXCEPT !["holdout"] = 0] /\ UNCHANGED texts
  /\ UNCHANGED <<outside, disk, frozen, work, cycles, git, runs, built, since, kills>>

UserCommit(dir) ==
  /\ Idle /\ dir \in git.dirty /\ git.made < MaxCommits[strategy]
  /\ git' = Committed(git, dir)
  /\ UNCHANGED <<files, runs, disk, built, kills>>

UserStash ==
  /\ Idle /\ Root \in git.dirty
  /\ git' = [git EXCEPT !.dirty = @ \ {Root}]
  /\ UNCHANGED <<files, runs, disk, built, kills>>

UserCheckout(b) ==
  /\ Idle /\ b \in DOMAIN git.tip \ git.trees /\ Root \notin git.dirty
  /\ git' = CheckedOut(git, b)
  /\ UNCHANGED <<files, runs, disk, built, kills>>

(* The upstream gets a commit of others (a pull request that is squashed is  *)
(* one), or the user pushes the default branch to it; between commands, as   *)
(* the commands that read it do so at their start.                          *)
Push ==
  /\ PullBeforeWork /\ cmd = "none"
  /\ \/ /\ git.made < MaxCommits[strategy]
        /\ git' = [git EXCEPT !.made = @ + 1] /\ upstream' = upstream \cup {git.made + 1}
     \/ upstream' = upstream \cup git.tip[Main] /\ UNCHANGED git
  /\ UNCHANGED <<strategy, live, frozen, work, cycles, texts, since, runs, disk, cmd, at, mem, opts,
                 built, warned, kills>>

----------------------------------------------------------------------------
(* freeze: the copies one by one, a document that is missing skipped, then  *)
(* the phase, by force.                                                     *)
Copied(d) == IF live[d] = 0 THEN frozen ELSE [frozen EXCEPT ![d] = live[d]]

Freeze ==
  /\ live["plan"] # 0 /\ Begin("freeze", "holdout copy", NoCmd)
  /\ mem' = disk
  /\ frozen' = Copied("plan")
  /\ UNCHANGED <<outside, disk, live, work, cycles, git, texts, runs, built, since, warned, kills>>

FreezeHoldout ==
  /\ Step("holdout copy", "enter")
  /\ frozen' = Copied("holdout")
  /\ UNCHANGED <<outside, disk, live, work, cycles, git, mem, texts, runs, built, since, warned, kills>>

FreezeEnter ==
  /\ cmd = "freeze" /\ at = "enter" /\ End
  /\ disk' = [mem EXCEPT !.phase = "frozen"]
  /\ UNCHANGED <<files, runs, git, built, kills>>

----------------------------------------------------------------------------
(* build, and `batch`, which builds afresh and, in a greenfield project, in *)
(* a workspace apart.                                                       *)
PlanText == IF frozen["plan"] # 0 THEN frozen["plan"] ELSE live["plan"]
HoldoutText == IF frozen["holdout"] # 0 THEN frozen["holdout"] ELSE live["holdout"]

Started(s, fresh) ==
  IF fresh \/ s.run = 0
  THEN [s EXCEPT !.phase = "build", !.run = runs + 1, !.item = "none", !.ws = None]
  ELSE [s EXCEPT !.phase = "build"]

Build(fresh, apart) ==
  /\ disk.phase \in {"frozen", "build", "done"} /\ PlanText # 0
  /\ Begin("build", "pull", [NoCmd EXCEPT !.fresh = fresh, !.apart = apart])
  /\ Started(disk, fresh).run <= MaxRuns
  /\ Save(Started(disk, fresh))
  /\ runs' = IF disk'.run > runs THEN runs + 1 ELSE runs
  /\ built' = IF disk'.item = "passed" THEN built ELSE Empty
  /\ UNCHANGED <<files, git, warned, kills>>

Batch == Build(TRUE, Mode[strategy] = "greenfield")

(* A fresh workspace is cut from what the pull, if it worked, has brought.  *)
BuildPull ==
  /\ cmd = "build" /\ Step("pull", "workspace")
  /\ git' \in {git} \cup IF PullBeforeWork /\ mem.ws = None /\ ~opts.apart THEN {Pulled(git)} ELSE {}
  /\ UNCHANGED <<files, runs, disk, mem, built, warned, kills>>

BuildWorkspace ==
  /\ cmd = "build" /\ Step("workspace", "provision")
  /\ IF mem.ws # None THEN UNCHANGED <<git, mem>>
     ELSE IF opts.apart THEN mem' = [mem EXCEPT !.ws = Apart] /\ UNCHANGED git
     ELSE \E made \in BOOLEAN :
            /\ made => mem.run \notin DOMAIN git.tip
            /\ git' = Workspace(made).git
            /\ mem' = [mem EXCEPT !.ws = Workspace(made).ws, !.branch = Workspace(made).branch]
  /\ UNCHANGED <<files, runs, disk, built, warned, kills>>

BuildProvision ==
  /\ cmd = "build" /\ Step("provision", "decompose")
  /\ Save(mem)
  /\ UNCHANGED <<files, runs, git, built, warned, kills>>

(* decompose: items that are there are used again, unless the run is fresh; *)
(* an answer without items ends the build.                                  *)
Reuses == work # 0 /\ ~opts.fresh
Decomposed == IF Reuses THEN {work} ELSE {PlanText, 0}

BuildDecompose ==
  /\ cmd = "build" /\ at = "decompose"
  /\ \E w \in Decomposed :
       IF w # 0
       THEN /\ work' = w
            /\ Step("decompose", "item")
            /\ Save([mem EXCEPT !.hash = PlanText])
            /\ warned' = (Reuses /\ mem.hash \notin {0, PlanText})
       ELSE /\ End
            /\ disk' = [mem EXCEPT !.hash = PlanText, !.phase = "done"]
            /\ UNCHANGED work
  /\ UNCHANGED <<outside, live, frozen, cycles, texts, since, runs, git, built, kills>>

HasDir(dir) == dir \in {Root, Apart} \cup git.trees

BuildItem ==
  /\ cmd = "build" /\ HasDir(mem.ws)
  /\ IF mem.item \in Settled
     THEN Step("item", "done") /\ UNCHANGED <<outside, disk, mem, git>>
     ELSE /\ Step("item", "judge")
          /\ Save([mem EXCEPT !.item = "building"])
          /\ git' = [git EXCEPT !.dirty = @ \cup ({mem.ws} \ {Apart})]
  /\ UNCHANGED <<files, runs, built, warned, kills>>

(* The workspace is not there any more: the session cannot start.           *)
BuildThrows ==
  /\ cmd = "build" /\ at \in {"item", "judge"} /\ ~HasDir(mem.ws)
  /\ End
  /\ UNCHANGED <<files, runs, disk, git, built, kills>>

(* Acceptance commits in the workspace, once there is a branch on record.   *)
Commits == AutoCommit /\ mem.branch # None /\ mem.ws \in git.dirty

BuildPasses ==
  /\ cmd = "build" /\ HasDir(mem.ws) /\ Step("judge", "done")
  /\ Save([mem EXCEPT !.item = "passed"])
  /\ built' = [d \in Docs |-> IF d = "plan" THEN work ELSE HoldoutText]
  /\ IF Commits THEN git.made < MaxCommits[strategy] /\ git' = Committed(git, mem.ws) ELSE UNCHANGED git
  /\ UNCHANGED <<files, runs, warned, kills>>

BuildFails ==
  /\ cmd = "build" /\ HasDir(mem.ws) /\ Step("judge", "done")
  /\ \E s \in {"failed", "abandoned"} : Save([mem EXCEPT !.item = s])
  /\ UNCHANGED <<files, runs, git, built, warned, kills>>

(* A limit or a pause: the build stays in its phase, to be resumed.         *)
BuildStops ==
  /\ cmd = "build" /\ at = "judge" /\ End
  /\ UNCHANGED <<files, runs, disk, git, built, kills>>

BuildDone ==
  /\ cmd = "build" /\ at = "done" /\ End
  /\ disk' = [mem EXCEPT !.phase = "done"]
  /\ UNCHANGED <<files, runs, git, built, kills>>

----------------------------------------------------------------------------
(* finish.                                                                  *)
(* --branch, else the branch on record, else the one checked out.           *)
Target(named) ==
  IF named # None THEN named
  ELSE IF disk.branch # None THEN disk.branch
  ELSE IF git.head # Main THEN git.head ELSE None

DirToCheck == IF disk.ws \in {None, Apart} THEN Root ELSE disk.ws

(* What finish refuses it refuses before it has changed anything.           *)
Refuses(named) ==
  \/ disk.item \in MidFlight
  \/ named # None /\ named \notin DOMAIN git.tip
  \/ DirToCheck \in git.dirty

(* A HOLDOUT.md that git tracks would land with the branch: nothing lands   *)
(* and nothing is torn down then, the cycle is archived all the same.       *)
Closing(named, to, force) ==
  /\ ~Refuses(named)
  /\ Begin("finish", to, [NoCmd EXCEPT !.target = Target(named), !.force = force])
  /\ mem' = disk
  /\ UNCHANGED <<files, runs, disk, built, warned, kills>>

(* --merge --yes: mergeFfOnly tests for a fast-forward, then checks the     *)
(* default branch out and merges; without --yes, or when a test fails,      *)
(* finish ends there.                                                       *)
MayMerge(b) == b # None /\ Within(Main, b)

MergedInto(g, b) == [CheckedOut(g, Main) EXCEPT !.tip[Main] = g.tip[b]]

FinishMerge(named, force) ==
  /\ Closing(named, "tree", force)
  /\ MayMerge(Target(named))
  /\ git' = MergedInto(git, Target(named))

(* --teardown without a merge, and what only archives.                      *)
FinishTeardown(named, force) ==
  /\ Closing(named, "tree", force)
  /\ Target(named) # None
  /\ UNCHANGED git

FinishArchive == Closing(None, "mkdir", FALSE) /\ UNCHANGED git

(* Teardown is over: the archive is next.                                   *)
ToArchive(from) == at = from /\ at' = "mkdir" /\ opts' = NoCmd /\ UNCHANGED cmd

(* The directory the teardown works on: the one that has the branch out,    *)
(* else the workspace on record.                                            *)
Separate(b) ==
  IF b \in git.trees THEN b
  ELSE IF b = git.head \/ mem.ws = None THEN Root ELSE mem.ws

(* The worktree first, without --force, so a dirty one stays, as does what  *)
(* is no worktree; a branch that is out in the project itself is vacated,   *)
(* which git may refuse.  A refusal ends the teardown.                      *)
FinishTree ==
  /\ cmd = "finish"
  /\ LET dir == Separate(opts.target)
     IN  \/ /\ dir \notin (git.dirty \ {Root}) \cup {Apart} /\ Step("tree", "branch")
            /\ git' = IF dir = Root THEN CheckedOut(git, Main)
                      ELSE [git EXCEPT !.trees = @ \ {dir}]
         \/ /\ dir \in git.dirty \cup {Apart} /\ ToArchive("tree")
            /\ UNCHANGED git
  /\ UNCHANGED <<files, runs, disk, mem, built, warned, kills>>

FinishBranch ==
  /\ cmd = "finish" /\ at = "branch"
  /\ git' = Deleted(git, opts.target, opts.force)
  /\ IF git' = git THEN ToArchive("branch") ELSE Step("branch", "clear")
  /\ UNCHANGED <<files, runs, disk, mem, built, warned, kills>>

FinishClear ==
  /\ cmd = "finish" /\ ToArchive("clear")
  /\ Save([mem EXCEPT !.branch = None, !.ws = None])
  /\ UNCHANGED <<files, runs, git, built, warned, kills>>

(* Mutant of NextNumber: a directory without a manifest is used again.      *)
Unfinished ==
  IF cycles # <<>> /\ ~cycles[Len(cycles)].whole THEN Len(cycles) ELSE Len(cycles) + 1

----------------------------------------------------------------------------
(* archiveCycle, for `finish` and `new`: the directory of the next number,  *)
(* one rename after the other, the manifest.  What the archive keeps of the  *)
(* frozen copies is not told apart from the plan it keeps.                   *)
NewDir == [plan |-> 0, holdout |-> 0, work |-> 0, whole |-> FALSE]
NextNumber == Len(cycles) + 1

Dir == cycles' = IF NextNumber > Len(cycles) THEN Append(cycles, NewDir) ELSE cycles

New ==
  /\ NextNumber <= MaxCycles[strategy] /\ Begin("new", "plan", NoCmd)
  /\ Dir /\ mem' = disk
  /\ UNCHANGED <<outside, disk, live, frozen, work, git, texts, runs, built, since, warned, kills>>

Mkdir ==
  /\ NextNumber <= MaxCycles[strategy] /\ Step("mkdir", "plan") /\ Dir
  /\ UNCHANGED <<outside, disk, live, frozen, work, git, mem, texts, runs, built, since, warned, kills>>

Put(piece, text) == cycles' = [cycles EXCEPT ![Len(cycles)] = [@ EXCEPT ![piece] = text]]

MoveDoc(d, to) ==
  /\ Step(d, to)
  /\ IF live[d] = 0 THEN UNCHANGED <<cycles, live>>
     ELSE Put(d, live[d]) /\ live' = [live EXCEPT ![d] = 0]
  /\ UNCHANGED <<outside, disk, frozen, work, git, mem, texts, runs, built, since, warned, kills>>

MoveFrozen ==
  /\ Step("frozen", "work")
  /\ frozen' = Empty
  /\ UNCHANGED <<outside, disk, live, work, cycles, git, mem, texts, runs, built, since, warned, kills>>

(* Mutant of WorkLeft: workitems/ is not among the moves.                   *)
WorkStays == work

(* What is left of workitems/ when it has been moved.                       *)
WorkLeft == 0

MoveWork ==
  /\ Step("work", "manifest")
  /\ Put("work", work) /\ work' = WorkLeft
  /\ UNCHANGED <<outside, disk, live, frozen, git, mem, texts, runs, built, since, warned, kills>>

(* cycle.json; `finish` ends here unless it was told --new. *)
Manifest ==
  /\ at = "manifest"
  /\ cycles' = [cycles EXCEPT ![Len(cycles)].whole = TRUE]
  /\ \/ Step("manifest", "fresh plan") /\ UNCHANGED <<mem, warned>>
     \/ cmd = "finish" /\ End
  /\ UNCHANGED <<outside, disk, live, frozen, work, git, texts, runs, built, since, kills>>

FreshPlan ==
  /\ Step("fresh plan", "reset") /\ Write("plan")
  /\ UNCHANGED <<outside, disk, frozen, work, cycles, git, mem, runs, built, since, warned, kills>>

Reset ==
  /\ at = "reset" /\ End
  /\ disk' = Fresh("plan")
  /\ since' = live["plan"] /\ built' = Empty
  /\ UNCHANGED <<outside, live, frozen, work, cycles, git, texts, runs, kills>>

----------------------------------------------------------------------------
(* clean --yes, a process of its own: trees that are clean, then branches   *)
(* that are merged (or any, with --force) and checked out nowhere.          *)
CleanTrees(g) == [g EXCEPT !.trees = @ \cap g.dirty]

Clean(force) ==
  /\ cmd \in {"none", "build"}
  /\ LET g == CleanTrees(git)
         old == {b \in DOMAIN g.tip \ {Main} :
                   /\ force \/ g.tip[b] \subseteq g.tip[Main]
                   /\ MayDelete(g, b, force /\ ~(g.tip[b] \subseteq g.tip[Main]))}
     IN  git' = [g EXCEPT !.tip = [b \in DOMAIN @ \ old |-> @[b]]]
  /\ git' # git
  /\ UNCHANGED <<files, runs, disk, cmd, at, mem, opts, built, warned, kills>>

Kill ==
  /\ cmd # "none" /\ kills < MaxKills
  /\ End /\ kills' = kills + 1
  /\ UNCHANGED <<files, runs, disk, git, built>>

Next ==
  \/ Plan \/ LogFinding \/ Orient \/ Prototype \/ Hold
  \/ \E dir \in 0..MaxRuns : UserCommit(dir)
  \/ Push \/ UserStash \/ \E b \in 0..MaxRuns : UserCheckout(b)
  \/ Freeze \/ FreezeHoldout \/ FreezeEnter
  \/ \E fresh \in BOOLEAN : Build(fresh, FALSE)
  \/ Batch
  \/ BuildPull \/ BuildWorkspace \/ BuildProvision \/ BuildDecompose \/ BuildItem \/ BuildThrows
  \/ BuildPasses \/ BuildFails \/ BuildStops \/ BuildDone
  \/ \E named \in {None} \cup (1..MaxRuns), force \in BOOLEAN :
       FinishMerge(named, force) \/ FinishTeardown(named, force)
  \/ FinishArchive \/ FinishTree \/ FinishBranch \/ FinishClear
  \/ New \/ Mkdir \/ MoveDoc("plan", "holdout") \/ MoveDoc("holdout", "frozen")
  \/ MoveFrozen \/ MoveWork \/ Manifest \/ FreshPlan \/ Reset
  \/ \E force \in BOOLEAN : Clean(force)
  \/ Kill

Spec == Init /\ [][Next]_vars

----------------------------------------------------------------------------
(* state.json names directories and branches that could be; the repository  *)
(* has its default branch, and a worktree has its branch.                   *)
TypeOK ==
  /\ disk.phase \in {"orient", "plan", "prototype", "frozen", "build", "done"}
  /\ Main \in DOMAIN git.tip /\ git.head \in DOMAIN git.tip
  /\ git.trees \subseteq DOMAIN git.tip \ {git.head}
  /\ \A b \in DOMAIN git.tip : git.tip[b] \subseteq 1..MaxCommits[strategy]
  /\ live \in [Docs -> 0..MaxTexts[strategy]] /\ frozen \in [Docs -> 0..MaxTexts[strategy]]
  /\ \A i \in DOMAIN cycles : DOMAIN cycles[i] = DOMAIN NewDir

(* The default branch moves by a commit of the user, and else only forward: *)
(* by `finish --merge --yes`, or by a pull to what its upstream has, where   *)
(* pullBeforeWork asks for it.  A build commits on its own branch or not at  *)
(* all (README.md, "Sparra never commits to your main branch"), a teardown  *)
(* and a prune leave the default branch alone.                              *)
MainOnlyByMerge ==
  [][git'.tip[Main] # git.tip[Main] =>
       \/ UserCommit(Root)
       \/ /\ git.tip[Main] \subseteq git'.tip[Main]
          /\ cmd' = "finish" \/ (PullBeforeWork /\ git'.tip[Main] = upstream)]_vars

(* No commit becomes unreachable, whatever is torn down, pruned or killed   *)
(* in the middle, unless the user asked for it with --force.                *)
WorkKept ==
  [][Reachable(git) \subseteq Reachable(git') \/ opts.force \/ Clean(TRUE)]_vars

(* The archive of a past cycle is a permanent record: what a command has    *)
(* put into a directory of .sparra/cycles is not replaced by a later one,   *)
(* whatever a kill has left half moved.                                     *)
ArchivesStand ==
  [][\A i \in DOMAIN cycles :
       \A piece \in {"plan", "holdout", "work"} :
         cycles[i][piece] # 0 => cycles'[i][piece] = cycles[i][piece]]_vars

(* A cycle begun by `new` starts clean: an item that counts as passed was   *)
(* decomposed from a plan of this cycle and judged by no older holdout.     *)
CycleStartsClean ==
  disk.item = "passed" => \A d \in Docs : built[d] = 0 \/ built[d] >= since

-----------------------------------------------------------------------------
(* What a comment or a document says and the code does not keep (README, section 4). *)

(* An item that is skipped as passed answers to the plan that is being      *)
(* built, or the build has warned that the plan has changed.                *)
SkipsAreWarned ==
  at = "done" /\ disk.item = "passed" => built["plan"] = PlanText \/ warned

=============================================================================
