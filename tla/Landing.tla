-------------------------------- MODULE Landing --------------------------------
(***************************************************************************)
(* The landing of a conduct run (src/conduct/merge.ts over util/git.ts and   *)
(* conduct/commit.ts): commit the accepted units one after the other, merge  *)
(* each into the run's target, move the default branch to it if the whole    *)
(* run is there, and push.  Every git command is an action, since the        *)
(* process may be killed and the user may work in the checkout between any   *)
(* two of them.                                                              *)
(*                                                                          *)
(* A commit is <<u, n>>: n = 0 is unit u's own, 1 what a rebase made of it, 2 *)
(* its merge commit; <<0, n>> is somebody else's.  A branch is the set of    *)
(* the commits reachable from its tip.                                       *)
(***************************************************************************)
EXTENDS Integers, FiniteSets, FiniteSetsExt

CONSTANTS
  NUnits,        \* the units, landed in the order 1..NUnits
  Flags,         \* the flags to start a process with, of --commit, --merge, --land and --push
  MaxLives,      \* bound on the processes of the run
  MaxForeign,    \* bound on the commits of others
  SwitchAnytime, \* the user switches the branch of the main checkout while a process runs
  CommitsHalf    \* a commit may fail for some of a unit's files

ASSUME LandingBounds == {NUnits, MaxLives} \subseteq Nat \ {0} /\ MaxForeign \in Nat
ASSUME LandingFlags  == /\ Flags \subseteq {"commit", "merge", "land", "push"}
                        /\ {SwitchAnytime, CommitsHalf} \subseteq BOOLEAN

Units    == 1 .. NUnits
Named    == {"main", "feature", "run"} \* the default branch, the user's, and sparra/<runId>
NoCommit == <<0, 0>>
Commits  == (Units \X (0 .. 2)) \cup ({0} \X (1 .. MaxForeign))

VARIABLES
  at,    \* where the landing is
  me,    \* its local variables
  run,   \* the run's state in memory
  disk,  \* run.json
  tip,   \* the named branches
  unit,  \* each unit's branch, and its worktree: none, clean or with uncommitted files
  co,    \* the main checkout: its branch and what is uncommitted in it; the run's worktree likewise
  remote, \* the default branch of the upstream
  lives  \* the processes so far
vars  == <<at, me, run, disk, tip, unit, co, remote, lives>>


\* parseConductFlags: --push asks for all that --land asks for, and so on down to --commit.
Asks(flag) == CASE flag = "push"   -> {"commit", "merge", "land", "push"}
                [] flag = "land"   -> {"commit", "merge", "land"}
                [] flag = "merge"  -> {"commit", "merge"}
                [] flag = "commit" -> {"commit"}

NewMe == [flag |-> "commit", mine |-> Units, todo |-> Units, target |-> "none", inRoot |-> FALSE, abort |-> FALSE,
          landed |-> FALSE, sha |-> FALSE]
Gone  == [commits |-> {}, tree |-> "none"]

Init ==
  /\ at = "resolve"
  /\ me \in {[NewMe EXCEPT !.flag = f] : f \in Flags}
  /\ run \in {[out |-> o, sha |-> [x \in Units |-> NoCommit], into |-> [x \in Units |-> "none"],
               asked |-> [x \in Units |-> "none"], land |-> "none", landed |-> FALSE, pushed |-> "none"] :
                 o \in [Units -> {"accepted", "exhausted", "error"}]}
  /\ disk \in {run, [run EXCEPT !.out = [x \in Units |-> "running"]]} \* without a brain, not yet written
  /\ tip = [b \in Named |-> {}]
  /\ unit = [x \in Units |-> [commits |-> {}, tree |-> "dirty"]]
  /\ co \in [root : {"main", "feature"}, rootTree : {"clean"}, runDir : {"none", "foreign"}, runTree : {"clean"}]
  /\ remote = {}
  /\ lives = 1

(* Faulty variants of the definitions below, substituted for them to see the properties fail. *)
NoRefresh(u)    == u \in Units /\ UNCHANGED <<run, disk>>
ReadyIfAccepted == \A u \in Units : run.out[u] = "accepted" => run.into[u] = me.target
PushAlways      == me.flag = "push"
OnceMore(m)     == IF me.sha THEN [m EXCEPT !.todo = @ \ {Min(@)}] ELSE m
Unchecked ==
  /\ at = "ff"
  /\ at' = "merged"
  /\ UNCHANGED <<me, run, disk, tip, unit, co, remote>>
-----------------------------------------------------------------------------
Write(r) == run' = r /\ disk' = r

\* The branch that is checked out where the target should be, and whether that checkout is clean.
Checked  == IF me.inRoot THEN co.root ELSE "run"
Tree     == IF me.inRoot THEN co.rootTree ELSE co.runTree
SetTree(t) == co' = IF me.inRoot THEN [co EXCEPT !.rootTree = t] ELSE [co EXCEPT !.runTree = t]

\* The next unit, or the landing once there is none.
GoOn(m) == /\ me' = m
           /\ at' = IF m.todo # {} THEN "commit" ELSE IF "land" \in Asks(m.flag) THEN "land" ELSE "end"
Done(m) == [m EXCEPT !.todo = @ \ {Min(@)}]
Now     == Min(me.todo)

\* resolveMergeTarget: the branch of the main checkout unless it is the default branch, and else the
\* run's branch in its own worktree; if that cannot be had, the units are committed only.
Resolve ==
  /\ at = "resolve"
  /\ LET todo == {u \in me.mine : run.out[u] = "accepted"}
     IN \/ /\ "merge" \notin Asks(me.flag)
           /\ GoOn([me EXCEPT !.todo = todo])
           /\ UNCHANGED <<co, tip>>
        \/ /\ "merge" \in Asks(me.flag) /\ co.root # "main"
           /\ GoOn([me EXCEPT !.todo = todo, !.target = co.root, !.inRoot = TRUE])
           /\ UNCHANGED <<co, tip>>
        \/ /\ "merge" \in Asks(me.flag) /\ co.root = "main" /\ co.runDir = "live"
           /\ GoOn([me EXCEPT !.todo = todo, !.target = "run"])
           /\ UNCHANGED <<co, tip>>
        \/ /\ "merge" \in Asks(me.flag) /\ co.root = "main" /\ co.runDir = "none"
           /\ GoOn([me EXCEPT !.todo = todo, !.target = "run"])
           /\ co' = [co EXCEPT !.runDir = "live"]
           /\ tip' = [tip EXCEPT !["run"] = tip["main"]]
        \/ /\ "merge" \in Asks(me.flag) /\ co.root = "main" /\ co.runDir = "foreign"
           /\ GoOn([me EXCEPT !.todo = todo])
           /\ UNCHANGED <<co, tip>>
  /\ UNCHANGED <<run, disk, unit, remote>>

-----------------------------------------------------------------------------
(* One unit. *)

\* commitUnit: nothing changed or no commit made, all committed, or some of it.
Commit ==
  /\ at = "commit"
  /\ \E made \in {"none", "all"} \cup (IF CommitsHalf THEN {"some"} ELSE {}) :
       /\ made # "none" => unit[Now].tree = "dirty"
       /\ IF made = "none" THEN UNCHANGED unit
          ELSE unit' = [unit EXCEPT ![Now] = [commits |-> @.commits \cup {<<Now, 0>>},
                                              tree |-> IF made = "all" THEN "clean" ELSE "dirty"]]
       /\ me' = [me EXCEPT !.sha = made # "none"]
  /\ at' = "committed"
  /\ UNCHANGED <<run, disk, tip, co, remote>>

\* An abort of the merging stays, for the units that follow.
Stopped == me.abort

\* Only a unit with a sha is merged, and only if there is a target.
MayMerge == me.sha /\ me.target # "none" /\ ~Stopped

Committed ==
  /\ at = "committed"
  /\ IF me.sha THEN Write([run EXCEPT !.sha[Now] = <<Now, 0>>]) ELSE UNCHANGED <<run, disk>>
  /\ IF MayMerge THEN at' = "dirty?" /\ UNCHANGED me ELSE GoOn(Done(me))
  /\ UNCHANGED <<tip, unit, co, remote>>

\* A dirty target asks before any git command.
Dirty ==
  /\ at = "dirty?"
  /\ at' = IF Tree = "clean" THEN "rebase" ELSE "park"
  /\ UNCHANGED <<me, run, disk, tip, unit, co, remote>>

\* git rebase onto the target: nothing to do if the branch has it already, and else the unit's
\* commit is made anew.  A tree with uncommitted files, or a conflict, fails and is aborted.
Rebase ==
  /\ at = "rebase"
  /\ \/ /\ unit[Now].tree = "clean"
        /\ unit' = IF tip[me.target] \subseteq unit[Now].commits THEN unit
                   ELSE [unit EXCEPT ![Now].commits = tip[me.target] \cup {<<Now, 1>>}]
        /\ at' = "refresh"
     \/ UNCHANGED unit /\ at' = "merge"
  /\ UNCHANGED <<me, run, disk, tip, co, remote>>

\* refreshCommittedShaAfterRebase: the sha in run.json is the one that survives.
RefreshSha(u) ==
  LET head == IF <<u, 1>> \in unit[u].commits THEN <<u, 1>> ELSE <<u, 0>>
  IN IF head # run.sha[u] THEN Write([run EXCEPT !.sha[u] = head]) ELSE UNCHANGED <<run, disk>>

Refresh ==
  /\ at = "refresh"
  /\ RefreshSha(Now)
  /\ at' = "ff"
  /\ UNCHANGED <<me, tip, unit, co, remote>>

\* git merge --ff-only in the directory of the target.
FastForward ==
  /\ at = "ff"
  /\ \/ /\ Tree # "merging" /\ tip[Checked] \subseteq unit[Now].commits
        /\ tip' = [tip EXCEPT ![Checked] = unit[Now].commits]
        /\ at' = "merged"
     \/ UNCHANGED tip /\ at' = "merge"
  /\ UNCHANGED <<me, run, disk, unit, co, remote>>

\* git merge --no-ff there; a conflict leaves a clean checkout in the middle of it, and a merge over
\* uncommitted files may be refused.
Merge ==
  /\ at = "merge"
  /\ \/ /\ Tree # "merging"
        /\ tip' = [tip EXCEPT ![Checked] = @ \cup unit[Now].commits \cup {<<Now, 2>>}]
        /\ at' = "merged"
        /\ UNCHANGED co
     \/ Tree = "clean" /\ SetTree("merging") /\ at' = "abort" /\ UNCHANGED tip
     \/ Tree # "clean" /\ at' = "abort" /\ UNCHANGED <<co, tip>>
  /\ UNCHANGED <<me, run, disk, unit, remote>>

AbortMerge ==
  /\ at = "abort"
  /\ SetTree(IF Tree = "merging" THEN "clean" ELSE Tree)
  /\ at' = "park"
  /\ UNCHANGED <<me, run, disk, tip, unit, remote>>

Merged ==
  /\ at = "merged"
  /\ Write([run EXCEPT !.into[Now] = me.target])
  /\ at' = "teardown"
  /\ UNCHANGED <<me, tip, unit, co, remote>>

\* removeUnitWorktree with force: the worktree with all that is in it, and the branch.
Teardown ==
  /\ at = "teardown"
  /\ unit' = [unit EXCEPT ![Now] = Gone]
  /\ GoOn(Done(me))
  /\ UNCHANGED <<run, disk, tip, co, remote>>

\* parkMergeDecision: the pending record, and then the answer.
Park ==
  /\ at = "park"
  /\ Write([run EXCEPT !.asked[Now] = "pending"])
  /\ at' = "answer"
  /\ UNCHANGED <<me, tip, unit, co, remote>>

Answered ==
  /\ at = "answer"
  /\ \E a \in {"skip-unit", "abort-merge"} :
       /\ Write([run EXCEPT !.asked[Now] = a])
       /\ GoOn([Done(me) EXCEPT !.abort = @ \/ a = "abort-merge"])
  /\ UNCHANGED <<tip, unit, co, remote>>

-----------------------------------------------------------------------------
(* The landing on the default branch, and the push. *)

After == IF "push" \in Asks(me.flag) THEN "push" ELSE "end"

\* computeLandReadiness, over every unit of the run.
Ready == /\ \A u \in Units : /\ run.out[u] = "accepted"
                             /\ run.asked[u] # "pending"
                             /\ run.into[u] = me.target
         /\ run.land # "pending"

\* The default branch, read again, must be an ancestor of the run's.
Ancestor(b) == tip["main"] \subseteq tip[b]

\* attemptLandToDefault: nothing to do for a run that merged in place; git itself refuses what does
\* not fast-forward, or fails; every miss asks.
Land ==
  /\ at = "land"
  /\ \/ me.inRoot /\ at' = After /\ UNCHANGED <<me, run, disk, tip>>
     \/ ~me.inRoot /\ at' = "landPark" /\ UNCHANGED <<me, run, disk, tip>>
     \/ /\ me.target = "run" /\ Ready /\ Ancestor("run")
        /\ tip' = [tip EXCEPT !["main"] = tip["run"]]
        /\ at' = "landed"
        /\ UNCHANGED <<me, run, disk>>
  /\ UNCHANGED <<unit, co, remote>>

Landed ==
  /\ at = "landed"
  /\ Write([run EXCEPT !.landed = TRUE])
  /\ me' = [me EXCEPT !.landed = TRUE]
  /\ at' = After
  /\ UNCHANGED <<tip, unit, co, remote>>

\* parkLandDecision.
LandPark ==
  /\ at = "landPark"
  /\ Write([run EXCEPT !.land = "pending"])
  /\ at' = "landAnswer"
  /\ UNCHANGED <<me, tip, unit, co, remote>>

LandAnswered ==
  /\ at = "landAnswer"
  /\ Write([run EXCEPT !.land = "skip-land"])
  /\ at' = After
  /\ UNCHANGED <<me, tip, unit, co, remote>>

\* A push follows only a landing of this process.
MayPush == me.landed

\* pushCurrentFfOnly and its record: git refuses what does not fast-forward.
Push ==
  /\ at = "push"
  /\ \/ /\ MayPush /\ remote \subseteq tip["main"]
        /\ remote' = tip["main"]
        /\ Write([run EXCEPT !.pushed = "ok"])
     \/ UNCHANGED remote /\ Write([run EXCEPT !.pushed = "failed"])
  /\ at' = "end"
  /\ UNCHANGED <<me, tip, unit, co>>

\* The last write of the run.
End ==
  /\ at = "end"
  /\ Write(run)
  /\ at' = "down"
  /\ UNCHANGED <<me, tip, unit, co, remote>>

-----------------------------------------------------------------------------
(* A kill, a resume, and the others who work in the repository. *)

Kill ==
  /\ at # "down" /\ lives < MaxLives
  /\ at' = "down"
  /\ run' = disk
  /\ me' = NewMe
  /\ UNCHANGED <<disk, tip, unit, co, remote, lives>>

\* resumeConduct: the pending decisions of the units are answered and the units without an end run
\* again, in the worktrees they have; only those are landed.
Resume ==
  /\ at = "down" /\ lives < MaxLives
  /\ LET mine == {u \in Units : disk.out[u] \in {"running", "error"}}
     IN /\ mine # {}
        /\ \E outs \in [mine -> {"accepted", "exhausted"}], a \in {"skip-unit", "abort-merge"} :
             Write([disk EXCEPT !.out = [u \in Units |-> IF u \in mine THEN outs[u] ELSE @[u]],
                                !.asked = [u \in Units |-> IF @[u] = "pending" THEN a ELSE @[u]]])
        /\ \E worked \in SUBSET mine :
             unit' = [u \in Units |-> IF u \in worked THEN [unit[u] EXCEPT !.tree = "dirty"] ELSE unit[u]]
        /\ me' \in {[NewMe EXCEPT !.mine = mine, !.flag = f] : f \in Flags}
  /\ at' = "resolve"
  /\ lives' = lives + 1
  /\ UNCHANGED <<tip, co, remote>>

Foreign == {k \in 1 .. MaxForeign : <<0, k>> \notin tip["main"] \cup tip["feature"] \cup remote}

\* The user commits on the branch of the main checkout, or somebody pushes to the upstream.
OthersCommit ==
  /\ Foreign # {}
  /\ \/ /\ co.rootTree # "merging"
        /\ tip' = [tip EXCEPT ![co.root] = @ \cup {<<0, Min(Foreign)>>}]
        /\ UNCHANGED remote
     \/ remote' = remote \cup {<<0, Min(Foreign)>>} /\ UNCHANGED tip
  /\ UNCHANGED <<at, me, run, disk, unit, co, lives>>

\* The user edits files of the main checkout or puts them away, and clears up after a killed merge.
UserEdits ==
  /\ \/ co.rootTree = "clean" /\ co' = [co EXCEPT !.rootTree = "dirty"]
     \/ co.rootTree = "dirty" /\ co' = [co EXCEPT !.rootTree = "clean"]
     \/ at = "down" /\ co.rootTree = "merging" /\ co' = [co EXCEPT !.rootTree = "clean"]
  /\ UNCHANGED <<at, me, run, disk, tip, unit, remote, lives>>

UserSwitches ==
  /\ at = "down" \/ SwitchAnytime
  /\ co.rootTree # "merging"
  /\ co' = [co EXCEPT !.root = IF @ = "main" THEN "feature" ELSE "main"]
  /\ UNCHANGED <<at, me, run, disk, tip, unit, remote, lives>>

Work == \/ Resolve \/ Commit \/ Committed \/ Dirty \/ Rebase \/ Refresh \/ FastForward \/ Merge
        \/ AbortMerge \/ Merged \/ Teardown \/ Park \/ Answered \/ Land \/ Landed \/ LandPark
        \/ LandAnswered \/ Push \/ End
Next == (Work /\ UNCHANGED lives) \/ Kill \/ Resume \/ OthersCommit \/ UserEdits \/ UserSwitches

Spec == Init /\ [][Next]_vars

\* Every git command returns, and a parked decision is answered or times out.
FairSpec == Spec /\ WF_vars(Work /\ UNCHANGED lives)

-----------------------------------------------------------------------------
(* Properties. *)

Places   == {"resolve", "commit", "committed", "dirty?", "rebase", "refresh", "ff", "merge", "abort",
             "merged", "teardown", "park", "answer", "land", "landed", "landPark", "landAnswer", "push",
             "end", "down"}
Branches == Named \cup {"none"}

\* The types of the state; a landing that is at a unit has one, and merges only what run.json says is
\* committed.
TypeOK ==
  /\ at \in Places
  /\ me.todo \subseteq Units /\ me.target \in Branches /\ me.mine \subseteq Units
  /\ \A r \in {run, disk} :
       /\ r.out \in [Units -> {"accepted", "exhausted", "error", "running"}]
       /\ r.sha \in [Units -> Commits \cup {NoCommit}] /\ r.into \in [Units -> Branches]
       /\ r.asked \in [Units -> {"none", "pending", "skip-unit", "abort-merge"}]
  /\ tip \in [Named -> SUBSET Commits] /\ remote \subseteq Commits
  /\ unit \in [Units -> [commits : SUBSET Commits, tree : {"none", "clean", "dirty"}]]
  /\ at \notin {"resolve", "land", "landed", "landPark", "landAnswer", "push", "end", "down"} => me.todo # {}
  /\ at \in {"dirty?", "rebase", "refresh", "ff", "merge"} => disk.sha[Now] # NoCommit /\ me.target # "none"

Holds(commits, u) == \E n \in 0 .. 2 : <<u, n>> \in commits

\* A unit that run.json says was merged was merged: the commit it names is reachable from the branch
\* it names, although a rebase changed the commit and the process may have died in between.
MergedIsThere ==
  \A u \in Units : disk.into[u] # "none" => disk.sha[u] \in tip[disk.into[u]]

\* A worktree and its branch are removed, with force, only once a surviving branch has the unit.
WorkNotLost ==
  \A u \in Units : unit[u].tree = "none" => \E b \in Named : Holds(tip[b], u)

\* What run.json calls pushed is the whole run, on the upstream.
PushedIsWhole == disk.pushed = "ok" => \A u \in Units : Holds(remote, u)

\* The default branch takes the run as a whole or not at all, and so does the upstream.
Promise == INSTANCE WholeOrNothing WITH
  inDefault <- {u \in Units : Holds(tip["main"], u)},
  inRemote  <- {u \in Units : Holds(remote, u)}
DefaultTakesWhole == Promise!Spec

\* A landing that is no longer killed ends.
LandingEnds == <>[](at = "down")

-----------------------------------------------------------------------------
(* What a comment or a document says and the code does not keep (README, section 4). *)

\* "NEVER the default branch" (merge.ts, resolveMergeTarget): no unit is merged into it one by one.
NeverMergedIntoDefault ==
  [][tip'["main"] # tip["main"] => at \notin {"ff", "merge"} \/ UNCHANGED at]_vars

\* "Sweep anything the plan missed or failed to commit into a final template commit (lose nothing)"
\* (commit.ts): uncommitted files of a unit are never removed.
NothingDiscarded == [][\A u \in Units : unit[u].tree = "dirty" => unit'[u].tree # "none"]_vars
=============================================================================
