---------------------------- MODULE Landing_proofs ----------------------------
(***************************************************************************)
(* Theorems about the landing (Landing): the work of a unit is never         *)
(* removed before a surviving branch has it, a push that is recorded took    *)
(* the whole run, what run.json calls merged is in the branch it names, and  *)
(* the default branch takes the run as a whole.  The last two need the user  *)
(* to leave the branch of the main checkout alone while a process runs       *)
(* (~SwitchAnytime); the first two do not.                                   *)
(***************************************************************************)
EXTENDS Landing, WellFoundedInduction, TLAPS

\* The places that are about the unit Now.
AtUnit == {"commit", "committed", "dirty?", "rebase", "refresh", "ff", "merge", "abort", "merged",
           "teardown", "park", "answer"}
\* Those of them where it is being merged.
Merging == {"dirty?", "rebase", "refresh", "ff", "merge", "merged", "teardown"}

Runs == [out : [Units -> {"accepted", "exhausted", "error", "running"}],
         sha : [Units -> Commits \cup {NoCommit}], into : [Units -> Branches],
         asked : [Units -> {"none", "pending", "skip-unit", "abort-merge"}],
         land : {"none", "pending", "skip-land"}, landed : BOOLEAN, pushed : {"none", "ok", "failed"}]
Mes  == [flag : Flags \cup {"commit"}, mine : SUBSET Units, todo : SUBSET Units, target : Branches,
         inRoot : BOOLEAN, abort : BOOLEAN, landed : BOOLEAN, sha : BOOLEAN]
Trees == {"clean", "dirty", "merging"}

Typed ==
  /\ at \in Places /\ me \in Mes /\ run \in Runs /\ disk \in Runs
  /\ tip \in [Named -> SUBSET Commits] /\ remote \subseteq Commits
  /\ unit \in [Units -> [commits : SUBSET Commits, tree : {"none", "clean", "dirty"}]]
  /\ co \in [root : {"main", "feature"}, rootTree : Trees, runDir : {"none", "live", "foreign"}, runTree : Trees]
  /\ at \in AtUnit => me.todo # {}

\* run.json has what the process has of the commits, and names only commits of the unit itself.
Written ==
  /\ run.sha = disk.sha /\ run.into = disk.into /\ run.pushed = disk.pushed
  /\ \A u \in Units : disk.sha[u] \in {NoCommit, <<u, 0>>, <<u, 1>>}

\* Only accepted units are merged, and none a second time.
Once ==
  /\ \A u \in Units : disk.into[u] # "none" => run.out[u] = "accepted" /\ disk.out[u] = "accepted"
  /\ at = "resolve" => \A u \in me.mine : disk.into[u] = "none"
  /\ at \in AtUnit => \A u \in me.todo : /\ run.out[u] = "accepted"
                                         /\ disk.into[u] = "none" \/ (at = "teardown" /\ u = Now)

\* The target: a branch of the user's in the main checkout, or the run's in its own worktree, which
\* is not made again over an old one.
Target ==
  /\ at = "resolve" => me.target = "none" /\ ~me.inRoot
  /\ at # "down" /\ me.inRoot => me.target = "feature" /\ (~SwitchAnytime => co.root = "feature")
  /\ ~me.inRoot /\ me.target # "none" => me.target = "run" /\ co.runDir = "live"
  /\ co.runDir # "live" => tip["run"] = {}
  /\ at \in Merging => me.target # "none"

\* The branches that can be relied on to be what was merged into.
Sure(b) == b = "run" \/ ~SwitchAnytime

\* The unit at hand: its commit is on its branch, and then on the one it was merged into.
Carried ==
  /\ at = "committed" /\ me.sha => <<Now, 0>> \in unit[Now].commits
  /\ at \in {"dirty?", "rebase"} => disk.sha[Now] = <<Now, 0>> /\ <<Now, 0>> \in unit[Now].commits
  /\ at = "refresh" => \E n \in {0, 1} : <<Now, n>> \in unit[Now].commits
  /\ at \in {"ff", "merge"} => disk.sha[Now] \in unit[Now].commits
  /\ at = "merged" => /\ disk.sha[Now] # NoCommit
                      /\ Sure(me.target) => disk.sha[Now] \in tip[me.target]
  /\ at \in {"merged", "teardown"} => \E b \in Named : Holds(tip[b], Now)

\* The units merged before.
Kept ==
  /\ \A u \in Units : disk.into[u] # "none" =>
       disk.sha[u] # NoCommit /\ (Sure(disk.into[u]) => disk.sha[u] \in tip[disk.into[u]])
  /\ WorkNotLost

All(commits) == \A u \in Units : Holds(commits, u)

\* The default branch and the upstream.
Whole ==
  /\ ~SwitchAnytime => All(tip["main"]) \/ (\A u \in Units : ~Holds(tip["main"], u))
  /\ me.landed => All(tip["main"])
  /\ at = "landed" => All(tip["main"])
  /\ at = "resolve" => ~me.landed
  /\ PushedIsWhole

Inv == Typed /\ Written /\ Once /\ Target /\ Carried /\ Kept /\ Whole

-----------------------------------------------------------------------------
(* The operators the steps are made of. *)

LEMMA MinIsIn == ASSUME NEW S, S \subseteq Nat, S # {} PROVE Min(S) \in S
  <1> DEFINE Less == {ss \in Nat \X Nat : ss[1] < ss[2]}
  <1>2. IsWellFoundedOn(Less, Nat)
    BY NatLessThanWellFounded DEF OpToRel
  <1> HIDE DEF Less
  <1>3. PICK x \in S : \A y \in S : ~(<<y, x>> \in Less)
    BY <1>2, WFMin
  <1>4. \A y \in S : x =< y
    <2> SUFFICES ASSUME NEW y \in S, y < x PROVE FALSE
      OBVIOUS
    <2>1. <<y, x>> \in Less
      BY DEF Less
    <2> QED BY <1>3, <2>1
  <1> QED BY <1>4 DEF Min

LEMMA NowIsUnit == ASSUME Typed, at \in AtUnit PROVE Now \in me.todo /\ Now \in Units
  <1>1. me.todo \subseteq Units /\ Units \subseteq Nat
    BY LandingBounds DEF Typed, Mes, Units
  <1> QED BY <1>1, MinIsIn DEF Typed, Now

LEMMA DoneFacts ==
  ASSUME Typed, at \in AtUnit
  PROVE  /\ Done(me) \in Mes /\ Done(me).todo = me.todo \ {Now}
         /\ \A f \in {"mine", "target", "inRoot", "abort", "landed", "sha"} : Done(me)[f] = me[f]
  BY NowIsUnit DEF Typed, Mes, Done, Now

LEMMA GoOnFacts ==
  ASSUME NEW m, GoOn(m)
  PROVE  me' = m /\ IF m.todo # {} THEN at' = "commit" ELSE at' \in {"land", "end"}
  BY DEF GoOn

LEMMA NotACommit == NoCommit \notin Commits
  BY DEF NoCommit, Commits, Units

\* What the writes of one field change.
LEMMA WriteSha ==
  ASSUME Typed, NEW u \in Units, NEW s \in Commits, Write([run EXCEPT !.sha[u] = s])
  PROVE  /\ run' \in Runs /\ disk' = run' /\ run'.sha = [run.sha EXCEPT ![u] = s]
         /\ run'.out = run.out /\ run'.into = run.into /\ run'.pushed = run.pushed
  BY DEF Typed, Runs, Write

LEMMA WriteInto ==
  ASSUME Typed, NEW u \in Units, NEW b \in Branches, Write([run EXCEPT !.into[u] = b])
  PROVE  /\ run' \in Runs /\ disk' = run' /\ run'.into = [run.into EXCEPT ![u] = b]
         /\ run'.out = run.out /\ run'.sha = run.sha /\ run'.pushed = run.pushed
  BY DEF Typed, Runs, Write

LEMMA WriteAsked ==
  ASSUME Typed, NEW u \in Units, NEW a \in {"pending", "skip-unit", "abort-merge"},
         Write([run EXCEPT !.asked[u] = a])
  PROVE  /\ run' \in Runs /\ disk' = run' /\ run'.into = run.into
         /\ run'.out = run.out /\ run'.sha = run.sha /\ run'.pushed = run.pushed
  BY DEF Typed, Runs, Write

LEMMA WriteLand ==
  ASSUME Typed, \/ Write([run EXCEPT !.landed = TRUE]) \/ Write(run)
                \/ \E l \in {"pending", "skip-land"} : Write([run EXCEPT !.land = l])
  PROVE  /\ run' \in Runs /\ disk' = run' /\ run'.into = run.into
         /\ run'.out = run.out /\ run'.sha = run.sha /\ run'.pushed = run.pushed
  <1>1. CASE Write([run EXCEPT !.landed = TRUE]) \/ Write(run)
    <2>1. CASE Write(run)
      BY <2>1 DEF Typed, Write
    <2>2. CASE Write([run EXCEPT !.landed = TRUE])
      <3> DEFINE r == [run EXCEPT !.landed = TRUE]
      <3>1. r \in Runs /\ r.into = run.into /\ r.out = run.out /\ r.sha = run.sha /\ r.pushed = run.pushed
        BY DEF Typed, Runs
      <3> HIDE DEF r
      <3> QED BY <2>2, <3>1 DEF Write, r
    <2> QED BY <1>1, <2>1, <2>2
  <1>2. ASSUME NEW l \in {"pending", "skip-land"}, Write([run EXCEPT !.land = l])
        PROVE  /\ run' \in Runs /\ disk' = run' /\ run'.into = run.into
               /\ run'.out = run.out /\ run'.sha = run.sha /\ run'.pushed = run.pushed
    BY <1>2 DEF Typed, Runs, Write
  <1> QED BY <1>1, <1>2

LEMMA WritePushed ==
  ASSUME Typed, NEW p \in {"ok", "failed"}, Write([run EXCEPT !.pushed = p])
  PROVE  /\ run' \in Runs /\ disk' = run' /\ run'.into = run.into
         /\ run'.out = run.out /\ run'.sha = run.sha /\ run'.pushed = p
  BY DEF Typed, Runs, Write

-----------------------------------------------------------------------------
(* The start. *)

LEMMA InitInv == Init => Inv
  <1> SUFFICES ASSUME Init PROVE Inv
    OBVIOUS
  <1>1. at = "resolve" /\ me \in Mes /\ me.mine = Units /\ me.todo = Units /\ me.target = "none" /\ ~me.inRoot /\ ~me.landed
    <2>1. PICK f \in Flags : me = [NewMe EXCEPT !.flag = f]
      BY DEF Init
    <2>2. me = [flag |-> f, mine |-> Units, todo |-> Units, target |-> "none", inRoot |-> FALSE,
                abort |-> FALSE, landed |-> FALSE, sha |-> FALSE]
      BY <2>1 DEF NewMe
    <2> QED BY <2>2 DEF Init, Mes, Branches, Named
  <1>2. run \in Runs /\ disk \in Runs /\ run.sha = disk.sha /\ run.into = disk.into /\ run.pushed = disk.pushed
    <2>1. PICK o \in [Units -> {"accepted", "exhausted", "error"}] :
            run = [out |-> o, sha |-> [x \in Units |-> NoCommit], into |-> [x \in Units |-> "none"],
                   asked |-> [x \in Units |-> "none"], land |-> "none", landed |-> FALSE, pushed |-> "none"]
      BY DEF Init
    <2>2. run \in Runs
      BY <2>1 DEF Runs, Branches, Named
    <2> DEFINE r == [run EXCEPT !.out = [x \in Units |-> "running"]]
    <2>3. r \in Runs /\ r.sha = run.sha /\ r.into = run.into /\ r.pushed = run.pushed
      BY <2>2 DEF Runs
    <2>4. disk \in {run, r}
      BY DEF Init
    <2> QED BY <2>2, <2>3, <2>4
  <1>3. disk.pushed = "none" /\ \A u \in Units : disk.into[u] = "none" /\ disk.sha[u] = NoCommit
    BY DEF Init
  <1>4. /\ tip = [b \in Named |-> {}] /\ remote = {}
        /\ unit = [x \in Units |-> [commits |-> {}, tree |-> "dirty"]]
        /\ co \in [root : {"main", "feature"}, rootTree : Trees, runDir : {"none", "live", "foreign"}, runTree : Trees]
    BY DEF Init, Trees
  <1> USE <1>1, <1>2, <1>3, <1>4
  <1>5. Typed
    BY DEF Typed, Places, AtUnit
  <1>6. Written /\ Once /\ Target
    BY DEF Written, Once, Target, AtUnit, Merging, Named
  <1>7. Carried
    BY DEF Carried
  <1>8. Kept /\ Whole
    BY DEF Kept, WorkNotLost, Whole, Holds, PushedIsWhole, Named
  <1> QED BY <1>5, <1>6, <1>7, <1>8 DEF Inv
-----------------------------------------------------------------------------
(* The steps that only go on: no branch, worktree or record of a commit changes. *)

SameRun ==
  /\ \A r \in {run', disk'} : /\ r \in Runs /\ r.into = run.into /\ r.sha = run.sha /\ r.pushed = run.pushed
                              /\ r.out \in {run.out, disk.out}
  /\ run'.out = run.out

SameGit ==
  /\ UNCHANGED <<tip, unit, remote>>
  /\ co' \in [root : {"main", "feature"}, rootTree : Trees, runDir : {"none", "live", "foreign"}, runTree : Trees]
  /\ co'.root = co.root /\ co'.runDir = co.runDir

LEMMA SameRunIf == ASSUME Inv, UNCHANGED <<run, disk>> PROVE SameRun
  BY DEF Inv, Typed, Written, SameRun

LEMMA SameRunWritten ==
  ASSUME Inv, run' \in Runs, disk' = run', run'.into = run.into, run'.out = run.out, run'.sha = run.sha,
         run'.pushed = run.pushed
  PROVE  SameRun
  BY DEF SameRun

LEMMA QuietInv ==
  ASSUME Inv, SameRun, SameGit,
         at \notin {"down", "resolve"},
         me' \in Mes, me'.mine = me.mine, me'.target = me.target, me'.inRoot = me.inRoot,
         me'.landed => All(tip["main"]),
         at' \in {"commit", "park", "answer", "abort", "land", "landPark", "landAnswer", "push", "end", "down"},
         at' \in AtUnit => /\ at \in AtUnit /\ me'.todo # {} /\ me'.todo \subseteq me.todo
                           /\ \A u \in me'.todo : disk.into[u] = "none"
  PROVE  Inv'
  <1> USE DEF Inv, AtUnit, Merging, SameRun, SameGit
  <1>1. Typed'
    BY DEF Typed, Places
  <1>2. Written'
    BY DEF Written
  <1>3. Once'
    BY DEF Once, Written
  <1>4. Target'
    BY DEF Target
  <1>5. Carried'
    BY DEF Carried
  <1>6. Kept'
    BY DEF Kept, WorkNotLost, Sure, Written
  <1>7. Whole'
    BY DEF Whole, All, PushedIsWhole, Written
  <1> QED BY <1>1, <1>2, <1>3, <1>4, <1>5, <1>6, <1>7

\* While a unit is merged, neither it nor the units after it were merged before.
LEMMA NotYet ==
  ASSUME Inv, at \in AtUnit
  PROVE  /\ at # "teardown" => \A u \in me.todo : disk.into[u] = "none"
         /\ \A u \in me.todo \ {Now} : disk.into[u] = "none"
  BY DEF Inv, Once

LEMMA DirtyInv == ASSUME Inv, Dirty PROVE Inv'
  <1>1. CASE at' = "park"
    <2>1. SameRun /\ SameGit
      BY SameRunIf DEF Dirty, SameGit, Inv, Typed
    <2> QED BY <1>1, <2>1, QuietInv, NotYet DEF Dirty, Inv, Typed, Whole, AtUnit
  <1>2. CASE at' = "rebase"
    BY <1>2 DEF Dirty, Inv, Typed, Written, Once, Target, Carried, Kept, Whole, WorkNotLost, PushedIsWhole,
                AtUnit, Merging, Places, Sure, All, Now
  <1> QED BY <1>1, <1>2 DEF Dirty

LEMMA AbortMergeInv == ASSUME Inv, AbortMerge PROVE Inv'
  <1>1. co' \in [root : {"main", "feature"}, rootTree : Trees, runDir : {"none", "live", "foreign"}, runTree : Trees]
        /\ co'.root = co.root /\ co'.runDir = co.runDir
    BY DEF AbortMerge, SetTree, Tree, Inv, Typed, Trees
  <1>2. SameRun /\ SameGit
    BY <1>1, SameRunIf DEF AbortMerge, SameGit
  <1> QED BY <1>2, QuietInv, NotYet DEF AbortMerge, Inv, Typed, Whole, AtUnit

LEMMA ParkInv == ASSUME Inv, Park PROVE Inv'
  <1>1. SameRun /\ SameGit
    BY WriteAsked, NowIsUnit, SameRunWritten DEF Park, SameGit, Inv, Typed, AtUnit
  <1> QED BY <1>1, QuietInv, NotYet DEF Park, Inv, Typed, Whole, AtUnit

\* What is left after a unit: the others, and whatever else of the process stays.
LEMMA DoneQuiet ==
  ASSUME Inv, at \in AtUnit \ {"teardown"}, SameRun, SameGit, NEW a \in BOOLEAN,
         GoOn([Done(me) EXCEPT !.abort = a])
  PROVE  Inv'
  <1>1. /\ me' \in Mes /\ me'.todo = me.todo \ {Now} /\ me'.mine = me.mine /\ me'.target = me.target
        /\ me'.inRoot = me.inRoot /\ me'.landed = me.landed
    BY DoneFacts, GoOnFacts DEF Inv, Mes
  <1>2. IF me'.todo # {} THEN at' = "commit" ELSE at' \in {"land", "end"}
    BY <1>1, GoOnFacts DEF GoOn
  <1> QED BY <1>1, <1>2, QuietInv, NotYet DEF Inv, Whole, AtUnit

LEMMA AnsweredInv == ASSUME Inv, Answered PROVE Inv'
  <1>1. PICK a \in {"skip-unit", "abort-merge"} :
          /\ Write([run EXCEPT !.asked[Now] = a])
          /\ GoOn([Done(me) EXCEPT !.abort = @ \/ a = "abort-merge"])
    BY DEF Answered
  <1>2. SameRun /\ SameGit
    BY <1>1, WriteAsked, NowIsUnit, SameRunWritten DEF Answered, SameGit, Inv, Typed, AtUnit
  <1>3. (Done(me).abort \/ a = "abort-merge") \in BOOLEAN
    OBVIOUS
  <1> QED BY <1>1, <1>2, <1>3, DoneQuiet DEF Answered, AtUnit

LEMMA LandedInv == ASSUME Inv, Landed PROVE Inv'
  <1>1. SameRun /\ SameGit
    BY WriteLand, SameRunWritten DEF Landed, SameGit, Inv, Typed
  <1>2. me' \in Mes /\ me'.mine = me.mine /\ me'.target = me.target /\ me'.inRoot = me.inRoot
    BY DEF Landed, Inv, Typed, Mes
  <1>3. All(tip["main"])
    BY DEF Landed, Inv, Whole
  <1> QED BY <1>1, <1>2, <1>3, QuietInv DEF Landed, After, AtUnit

LEMMA LandParkInv == ASSUME Inv, LandPark PROVE Inv'
  <1>1. SameRun /\ SameGit
    BY WriteLand, SameRunWritten DEF LandPark, SameGit, Inv, Typed
  <1> QED BY <1>1, QuietInv DEF LandPark, Inv, Typed, Whole, AtUnit

LEMMA LandAnsweredInv == ASSUME Inv, LandAnswered PROVE Inv'
  <1>1. SameRun /\ SameGit
    BY WriteLand, SameRunWritten DEF LandAnswered, SameGit, Inv, Typed
  <1> QED BY <1>1, QuietInv DEF LandAnswered, After, Inv, Typed, Whole, AtUnit

LEMMA EndInv == ASSUME Inv, End PROVE Inv'
  <1>1. SameRun /\ SameGit
    BY WriteLand, SameRunWritten DEF End, SameGit, Inv, Typed
  <1> QED BY <1>1, QuietInv DEF End, Inv, Typed, Whole, AtUnit

-----------------------------------------------------------------------------
(* The steps of a unit. *)

LEMMA CommitInv == ASSUME Inv, Commit PROVE Inv'
  <1>1. Now \in Units /\ <<Now, 0>> \in Commits
    BY NowIsUnit DEF Commit, Inv, AtUnit, Commits
  <1>2. PICK made \in {"none", "all", "some"} :
          /\ IF made = "none" THEN UNCHANGED unit
             ELSE unit' = [unit EXCEPT ![Now] = [commits |-> @.commits \cup {<<Now, 0>>},
                                                 tree |-> IF made = "all" THEN "clean" ELSE "dirty"]]
          /\ me' = [me EXCEPT !.sha = made # "none"]
    BY DEF Commit
  <1>3. /\ me' \in Mes /\ me'.sha = (made # "none")
        /\ \A f \in {"mine", "todo", "target", "inRoot", "landed"} : me'[f] = me[f]
    BY <1>2 DEF Inv, Typed, Mes
  <1>4. /\ unit' \in [Units -> [commits : SUBSET Commits, tree : {"none", "clean", "dirty"}]]
        /\ me'.sha => <<Now, 0>> \in unit'[Now].commits
        /\ \A u \in Units : unit'[u].tree = "none" => unit[u].tree = "none"
    <2>1. CASE made = "none"
      BY <1>2, <1>3, <2>1 DEF Inv, Typed
    <2>2. CASE made # "none"
      <3> DEFINE w == [commits |-> unit[Now].commits \cup {<<Now, 0>>},
                       tree |-> IF made = "all" THEN "clean" ELSE "dirty"]
      <3>1. /\ w \in [commits : SUBSET Commits, tree : {"none", "clean", "dirty"}]
            /\ w.tree # "none" /\ <<Now, 0>> \in w.commits
        BY <1>1 DEF Inv, Typed
      <3>2. unit' = [unit EXCEPT ![Now] = w]
        BY <1>2, <2>2
      <3> HIDE DEF w
      <3> QED BY <1>1, <3>1, <3>2 DEF Inv, Typed
    <2> QED BY <2>1, <2>2
  <1>7. at = "commit" /\ at' = "committed" /\ UNCHANGED <<run, disk, tip, co, remote>>
    BY DEF Commit
  <1> USE <1>3, <1>7 DEF Inv, AtUnit, Merging
  <1>8. Typed' /\ Written'
    BY <1>4 DEF Typed, Written, Places
  <1>9. Once' /\ Target'
    BY DEF Once, Target
  <1>10. Carried'
    BY <1>4 DEF Carried, Now
  <1>11. Kept'
    BY <1>4 DEF Kept, WorkNotLost, Sure
  <1>12. Whole'
    BY DEF Whole, All, PushedIsWhole
  <1> QED BY <1>8, <1>9, <1>10, <1>11, <1>12

LEMMA CommittedInv == ASSUME Inv, Committed PROVE Inv'
  <1> USE DEF Inv, AtUnit, Merging
  <1>1. Now \in Units /\ Now \in me.todo /\ <<Now, 0>> \in Commits /\ disk.into[Now] = "none"
    BY NowIsUnit, NotYet DEF Committed, Commits
  <1>2. CASE me.sha
    <2>1. /\ run' \in Runs /\ disk' = run' /\ run'.sha = [run.sha EXCEPT ![Now] = <<Now, 0>>]
          /\ run'.out = run.out /\ run'.into = run.into /\ run'.pushed = run.pushed
      BY <1>1, <1>2, WriteSha DEF Committed
    <2>2. run'.sha[Now] = <<Now, 0>> /\ \A u \in Units \ {Now} : run'.sha[u] = run.sha[u]
      BY <1>1, <2>1 DEF Typed, Runs
    <2>3. UNCHANGED <<tip, unit, co, remote>> /\ at = "committed"
      BY DEF Committed
    <2>4. me' \in Mes /\ me'.mine = me.mine /\ me'.target = me.target /\ me'.inRoot = me.inRoot
          /\ me'.landed = me.landed
      BY <2>3, DoneFacts, GoOnFacts DEF Committed, Typed
    <2>5. \/ at' = "dirty?" /\ me' = me /\ me.target # "none"
          \/ IF me'.todo # {} THEN at' = "commit" /\ me'.todo = me.todo \ {Now} ELSE at' \in {"land", "end"}
      BY <2>3, DoneFacts, GoOnFacts DEF Committed, MayMerge, GoOn
    <2> USE <1>2, <2>1, <2>3, <2>4, <2>5
    <2>6. Typed'
      BY DEF Typed, Places
    <2>7. Written'
      BY <2>2 DEF Written
    <2>8. Once' /\ Target'
      BY <1>1, NotYet DEF Once, Target, Written
    <2>9. Carried'
      BY <1>1, <2>2 DEF Carried, Now
    <2>10. Kept'
      BY <1>1, <2>2 DEF Kept, WorkNotLost, Sure, Written
    <2>11. Whole'
      BY DEF Whole, All, PushedIsWhole, Written
    <2> QED BY <2>6, <2>7, <2>8, <2>9, <2>10, <2>11
  <1>3. CASE ~me.sha
    <2>1. SameRun /\ SameGit
      BY <1>3, SameRunIf DEF Committed, SameGit, Typed
    <2>2. GoOn(Done(me))
      BY <1>3 DEF Committed, MayMerge
    <2>3. me' \in Mes /\ me'.mine = me.mine /\ me'.target = me.target /\ me'.inRoot = me.inRoot
          /\ me'.landed = me.landed /\ me'.todo = me.todo \ {Now}
      BY <2>2, DoneFacts, GoOnFacts DEF Committed, Typed
    <2>4. IF me'.todo # {} THEN at' = "commit" ELSE at' \in {"land", "end"}
      BY <2>2, <2>3, GoOnFacts DEF GoOn
    <2> QED BY <2>1, <2>3, <2>4, QuietInv, NotYet DEF Committed, Whole
  <1> QED BY <1>2, <1>3

LEMMA RebaseInv == ASSUME Inv, Rebase PROVE Inv'
  <1> USE DEF Inv, AtUnit, Merging
  <1>1. Now \in Units /\ me.target \in Named /\ <<Now, 1>> \in Commits
    BY NowIsUnit DEF Rebase, Commits, Typed, Mes, Branches, Target
  <1>2. /\ unit' \in [Units -> [commits : SUBSET Commits, tree : {"none", "clean", "dirty"}]]
        /\ \A u \in Units : unit'[u].tree = unit[u].tree
    BY <1>1 DEF Rebase, Typed
  <1>3. \/ at' = "refresh" /\ \E n \in {0, 1} : <<Now, n>> \in unit'[Now].commits
        \/ at' = "merge" /\ disk.sha[Now] \in unit'[Now].commits
    <2>1. CASE unit' = unit
      BY <2>1 DEF Rebase, Carried
    <2>2. CASE unit' = [unit EXCEPT ![Now].commits = tip[me.target] \cup {<<Now, 1>>}] /\ at' = "refresh"
      BY <1>1, <2>2 DEF Typed
    <2> QED BY <2>1, <2>2 DEF Rebase
  <1>4. at = "rebase" /\ UNCHANGED <<me, run, disk, tip, co, remote>>
    BY DEF Rebase
  <1> USE <1>2, <1>3, <1>4
  <1>5. Typed' /\ Written'
    BY DEF Typed, Written, Places
  <1>6. Once' /\ Target'
    BY DEF Once, Target
  <1>7. Carried'
    BY DEF Carried, Now
  <1>8. Kept' /\ Whole'
    BY DEF Kept, WorkNotLost, Sure, Whole, All, PushedIsWhole
  <1> QED BY <1>5, <1>6, <1>7, <1>8

LEMMA RefreshInv == ASSUME Inv, Refresh PROVE Inv'
  <1> USE DEF Inv, AtUnit, Merging
  <1>1. Now \in Units /\ Now \in me.todo /\ <<Now, 0>> \in Commits /\ <<Now, 1>> \in Commits
        /\ disk.into[Now] = "none"
    BY NowIsUnit, NotYet DEF Refresh, Commits
  <1> DEFINE head == IF <<Now, 1>> \in unit[Now].commits THEN <<Now, 1>> ELSE <<Now, 0>>
  <1>2. head \in unit[Now].commits /\ head \in Commits /\ head \in {<<Now, 0>>, <<Now, 1>>}
    BY <1>1 DEF Refresh, Carried
  <1>3. /\ run' \in Runs /\ disk'.sha = run'.sha /\ disk' \in Runs
        /\ run'.sha[Now] = head /\ \A u \in Units \ {Now} : run'.sha[u] = run.sha[u]
        /\ run'.out = run.out /\ run'.into = run.into /\ run'.pushed = run.pushed
        /\ disk'.into = run.into /\ disk'.pushed = run.pushed /\ disk'.out \in {run.out, disk.out}
    <2>1. CASE head # run.sha[Now]
      <3>1. Write([run EXCEPT !.sha[Now] = head])
        BY <2>1 DEF Refresh, RefreshSha
      <3>2. /\ run' \in Runs /\ disk' = run' /\ run'.sha = [run.sha EXCEPT ![Now] = head]
            /\ run'.out = run.out /\ run'.into = run.into /\ run'.pushed = run.pushed
        BY <1>1, <1>2, <3>1, WriteSha
      <3> QED BY <1>1, <3>2 DEF Typed, Runs
    <2>2. CASE head = run.sha[Now]
      BY <2>2 DEF Refresh, RefreshSha, Typed, Written
    <2> QED BY <2>1, <2>2
  <1>4. at = "refresh" /\ at' = "ff" /\ UNCHANGED <<me, tip, unit, co, remote>>
    BY DEF Refresh
  <1> HIDE DEF head
  <1> USE <1>3, <1>4
  <1>5. Typed'
    BY DEF Typed, Places
  <1>6. Written'
    BY <1>2 DEF Written
  <1>7. Once' /\ Target'
    BY DEF Once, Target, Written
  <1>8. Carried'
    BY <1>2 DEF Carried, Now
  <1>9. Kept'
    BY <1>1 DEF Kept, WorkNotLost, Sure, Written
  <1>10. Whole'
    BY DEF Whole, All, PushedIsWhole, Written
  <1> QED BY <1>5, <1>6, <1>7, <1>8, <1>9, <1>10

\* What the branches have only grows, so what was merged stays merged.
LEMMA GrowKept ==
  ASSUME Inv, \A b \in Named : tip[b] \subseteq tip'[b], disk'.into = disk.into, disk'.sha = disk.sha,
         \A u \in Units : unit'[u].tree = "none" => unit[u].tree = "none"
  PROVE  Kept'
  <1>1. \A u \in Units : disk.into[u] \in Branches
    BY DEF Inv, Typed, Runs
  <1> QED BY <1>1 DEF Inv, Kept, WorkNotLost, Sure, Holds, Branches

\* The branch a merge moves: the target, unless the user switched the checkout.
LEMMA CheckedFacts ==
  ASSUME Inv, at \in Merging \/ at = "land"
  PROVE  /\ Checked \in Named
         /\ me.target # "none" /\ Sure(me.target) => Checked = me.target
         /\ ~SwitchAnytime => Checked # "main"
         /\ me.target = "run" => ~me.inRoot
         /\ me.target # "none" /\ Checked = "run" => me.target = "run" /\ co.runDir = "live"
  BY DEF Inv, Target, Typed, Mes, Checked, Sure, Named, Merging

LEMMA ShaHolds ==
  ASSUME Inv, NEW u \in Units, NEW c, disk.sha[u] \in c, disk.sha[u] # NoCommit PROVE Holds(c, u)
  BY DEF Inv, Written, Holds

LEMMA UnitHolds ==
  ASSUME Inv, NEW u \in Units, disk.sha[u] \in unit[u].commits
  PROVE  disk.sha[u] # NoCommit /\ Holds(unit[u].commits, u)
  <1>1. disk.sha[u] # NoCommit
    BY NotACommit DEF Inv, Typed
  <1> QED BY <1>1, ShaHolds

\* A merge, in either form.
LEMMA TakenInv ==
  ASSUME Inv, at \in {"ff", "merge"}, at' = "merged", NEW c \in SUBSET Commits,
         tip' = [tip EXCEPT ![Checked] = c], tip[Checked] \subseteq c, unit[Now].commits \subseteq c,
         UNCHANGED <<me, run, disk, unit, co, remote>>
  PROVE  Inv'
  <1> USE DEF Inv, AtUnit, Merging
  <1>1. Now \in Units
    BY NowIsUnit
  <1>2. me.target # "none" /\ disk.sha[Now] \in unit[Now].commits
    BY DEF Target, Carried
  <1>3. tip'[Checked] = c /\ \A b \in Named \ {Checked} : tip'[b] = tip[b]
    BY CheckedFacts DEF Typed
  <1>4. \A b \in Named : tip[b] \subseteq tip'[b]
    BY <1>3
  <1>5. disk.sha[Now] \in c /\ disk.sha[Now] # NoCommit /\ Holds(c, Now)
    BY <1>1, <1>2, UnitHolds, ShaHolds
  <1>6. Typed' /\ Written'
    BY CheckedFacts DEF Typed, Written, Places
  <1>7. Once' /\ Target'
    BY <1>2, <1>3, CheckedFacts DEF Once, Target
  <1>8. Carried'
    <2>1. \E b \in Named : Holds(tip'[b], Now)
      BY <1>3, <1>5, CheckedFacts
    <2>2. Sure(me.target) => disk.sha[Now] \in tip'[me.target]
      BY <1>2, <1>3, <1>5, CheckedFacts
    <2> QED BY <1>5, <2>1, <2>2 DEF Carried, Now, Sure
  <1>9. Kept'
    BY <1>4, GrowKept
  <1>10. Whole'
    <2>1. "main" \in Named
      BY DEF Named
    <2>2. All(tip["main"]) => All(tip'["main"])
      BY <1>4, <2>1 DEF All, Holds
    <2>3. ~SwitchAnytime => tip'["main"] = tip["main"]
      BY <1>3, <2>1, CheckedFacts
    <2> QED BY <2>2, <2>3 DEF Whole, All, PushedIsWhole
  <1> QED BY <1>6, <1>7, <1>8, <1>9, <1>10

LEMMA FastForwardInv == ASSUME Inv, FastForward PROVE Inv'
  <1>1. Now \in Units
    BY NowIsUnit DEF FastForward, Inv, AtUnit
  <1>2. CASE at' = "merged"
    BY <1>1, <1>2, TakenInv DEF FastForward, Inv, Typed
  <1>3. CASE at' = "merge"
    BY <1>3 DEF FastForward, Inv, Typed, Written, Once, Target, Carried, Kept, Whole, WorkNotLost, PushedIsWhole,
                AtUnit, Merging, Places, Sure, All, Now
  <1> QED BY <1>2, <1>3 DEF FastForward

LEMMA MergeInv == ASSUME Inv, Merge PROVE Inv'
  <1>1. Now \in Units /\ <<Now, 2>> \in Commits
    BY NowIsUnit DEF Merge, Inv, AtUnit, Commits
  <1>2. CASE at' = "merged"
    <2> DEFINE c == tip[Checked] \cup unit[Now].commits \cup {<<Now, 2>>}
    <2>1. c \in SUBSET Commits /\ tip[Checked] \subseteq c /\ unit[Now].commits \subseteq c
      BY <1>1, CheckedFacts DEF Merge, Merging, Inv, Typed
    <2>2. tip' = [tip EXCEPT ![Checked] = c] /\ at = "merge" /\ UNCHANGED <<me, run, disk, unit, co, remote>>
      BY <1>2 DEF Merge
    <2> HIDE DEF c
    <2> QED BY <1>2, <2>1, <2>2, TakenInv
  <1>3. CASE at' = "abort"
    <2>1. co' \in [root : {"main", "feature"}, rootTree : Trees, runDir : {"none", "live", "foreign"}, runTree : Trees]
          /\ co'.root = co.root /\ co'.runDir = co.runDir
      BY <1>3 DEF Merge, SetTree, Inv, Typed, Trees
    <2>2. UNCHANGED tip
      BY <1>3 DEF Merge
    <2>3. SameRun /\ SameGit
      BY <2>1, <2>2, SameRunIf DEF Merge, SameGit
    <2> QED BY <1>3, <2>3, QuietInv, NotYet DEF Merge, Inv, Typed, Whole, AtUnit
  <1> QED BY <1>2, <1>3 DEF Merge

LEMMA MergedInv == ASSUME Inv, Merged PROVE Inv'
  <1> USE DEF Inv, AtUnit, Merging
  <1>1. Now \in Units /\ Now \in me.todo /\ disk.into[Now] = "none" /\ run.out[Now] = "accepted"
    BY NowIsUnit, NotYet DEF Merged, Once
  <1>2. me.target # "none" /\ me.target \in Branches
    BY DEF Merged, Target, Typed, Mes
  <1>3. /\ run' \in Runs /\ disk' = run' /\ run'.into = [run.into EXCEPT ![Now] = me.target]
        /\ run'.out = run.out /\ run'.sha = run.sha /\ run'.pushed = run.pushed
    BY <1>1, <1>2, WriteInto DEF Merged
  <1>4. run'.into[Now] = me.target /\ \A u \in Units \ {Now} : run'.into[u] = run.into[u]
    BY <1>1, <1>3 DEF Typed, Runs
  <1>5. at = "merged" /\ at' = "teardown" /\ UNCHANGED <<me, tip, unit, co, remote>>
    BY DEF Merged
  <1> USE <1>3, <1>5
  <1>6. Typed' /\ Written'
    BY DEF Typed, Written, Places
  <1>7. Once'
    BY <1>1, <1>4, NotYet DEF Once, Written, Now
  <1>8. Target' /\ Carried'
    BY DEF Target, Carried, Now
  <1>9. Kept'
    BY <1>4 DEF Kept, Carried, WorkNotLost, Sure, Written
  <1>10. Whole'
    BY DEF Whole, All, PushedIsWhole, Written
  <1> QED BY <1>6, <1>7, <1>8, <1>9, <1>10

LEMMA TeardownInv == ASSUME Inv, Teardown PROVE Inv'
  <1> USE DEF Inv, AtUnit, Merging
  <1>1. Now \in Units /\ Now \in me.todo
    BY NowIsUnit DEF Teardown
  <1>2. /\ unit' \in [Units -> [commits : SUBSET Commits, tree : {"none", "clean", "dirty"}]]
        /\ \A u \in Units \ {Now} : unit'[u] = unit[u]
    BY <1>1 DEF Teardown, Gone, Typed
  <1>3. at = "teardown" /\ GoOn(Done(me)) /\ UNCHANGED <<run, disk, tip, co, remote>>
    BY DEF Teardown
  <1>4. /\ me' \in Mes /\ me'.todo = me.todo \ {Now} /\ me'.mine = me.mine /\ me'.target = me.target
        /\ me'.inRoot = me.inRoot /\ me'.landed = me.landed
    BY <1>3, DoneFacts, GoOnFacts
  <1>5. IF me'.todo # {} THEN at' = "commit" ELSE at' \in {"land", "end"}
    BY <1>3, <1>4, GoOnFacts DEF GoOn
  <1> USE <1>4, <1>5
  <1>6. Typed' /\ Written'
    BY <1>2, <1>3 DEF Typed, Written, Places
  <1>7. Once' /\ Target'
    BY <1>3, NotYet DEF Once, Target
  <1>8. Carried'
    BY DEF Carried
  <1>9. Kept'
    BY <1>1, <1>2, <1>3 DEF Kept, Carried, WorkNotLost, Sure
  <1>10. Whole'
    BY <1>3 DEF Whole, All, PushedIsWhole
  <1> QED BY <1>6, <1>7, <1>8, <1>9, <1>10

-----------------------------------------------------------------------------
(* The steps of the run. *)

LEMMA ResolveInv == ASSUME Inv, Resolve PROVE Inv'
  <1> USE DEF Inv, AtUnit, Merging
  <1>1. at = "resolve" /\ UNCHANGED <<run, disk, unit, remote>>
    BY DEF Resolve
  <1>2. PICK b \in Branches, r \in BOOLEAN :
          /\ GoOn([me EXCEPT !.todo = {u \in me.mine : run.out[u] = "accepted"}, !.target = b, !.inRoot = r])
          /\ r => b = "feature" /\ co.root = "feature"
          /\ ~r /\ b # "none" => b = "run" /\ co'.runDir = "live"
    <2>1. {"none", "run", "feature"} \subseteq Branches /\ me.inRoot = FALSE /\ me.target = "none"
      BY DEF Branches, Named, Target, Resolve
    <2> DEFINE todo == {u \in me.mine : run.out[u] = "accepted"}
    <2>2. me \in Mes /\ co.root \in {"main", "feature"}
      BY DEF Typed
    <2>3. [me EXCEPT !.todo = todo] = [me EXCEPT !.todo = todo, !.target = "none", !.inRoot = FALSE]
      BY <2>1, <2>2 DEF Mes
    <2>4. \A b : [me EXCEPT !.todo = todo, !.target = b] = [me EXCEPT !.todo = todo, !.target = b, !.inRoot = FALSE]
      BY <2>1, <2>2 DEF Mes
    <2>5. \/ GoOn([me EXCEPT !.todo = todo])
          \/ co.root # "main" /\ GoOn([me EXCEPT !.todo = todo, !.target = co.root, !.inRoot = TRUE])
          \/ co'.runDir = "live" /\ GoOn([me EXCEPT !.todo = todo, !.target = "run"])
      BY DEF Resolve, Typed
    <2> QED BY <2>1, <2>2, <2>3, <2>4, <2>5
  <1>3. /\ me' \in Mes /\ me'.todo = {u \in me.mine : run.out[u] = "accepted"} /\ me'.target = b /\ me'.inRoot = r
        /\ me'.landed = me.landed /\ me'.mine = me.mine
    <2> DEFINE m == [me EXCEPT !.todo = {u \in me.mine : run.out[u] = "accepted"}, !.target = b, !.inRoot = r]
    <2>1. /\ m \in Mes /\ m.todo = {u \in me.mine : run.out[u] = "accepted"} /\ m.target = b /\ m.inRoot = r
          /\ m.landed = me.landed /\ m.mine = me.mine
      BY DEF Typed, Mes
    <2>2. me' = m
      BY <1>2, GoOnFacts
    <2> QED BY <2>1, <2>2
  <1>4. IF me'.todo # {} THEN at' = "commit" ELSE at' \in {"land", "end"}
    BY <1>2, <1>3, GoOnFacts DEF GoOn
  <1>5. co' \in [root : {"main", "feature"}, rootTree : Trees, runDir : {"none", "live", "foreign"}, runTree : Trees]
        /\ co'.root = co.root /\ (co'.runDir # "live" => co'.runDir = co.runDir /\ tip' = tip)
    BY DEF Resolve, Typed
  <1>6. /\ tip' \in [Named -> SUBSET Commits] /\ tip'["main"] = tip["main"]
        /\ \A n \in Named : tip[n] \subseteq tip'[n]
    BY DEF Resolve, Typed, Target, Named
  <1> HIDE DEF Inv
  <1> USE <1>1, <1>3, <1>4, <1>5, <1>6
  <1>7. Typed' /\ Written'
    BY DEF Typed, Written, Places, Inv
  <1>8. Once'
    BY DEF Once, Inv, Typed, Mes
  <1>9. Target'
    BY <1>2 DEF Target, Inv
  <1>10. Carried'
    BY DEF Carried
  <1>11. Kept'
    BY GrowKept
  <1>12. Whole'
    BY DEF Whole, All, PushedIsWhole, Inv
  <1> QED BY <1>7, <1>8, <1>9, <1>10, <1>11, <1>12 DEF Inv

\* A run that is ready is there as a whole, on its own branch.
LEMMA ReadyIsWhole == ASSUME Inv, Ready, me.target = "run" PROVE All(tip["run"])
  <1> SUFFICES ASSUME NEW u \in Units PROVE Holds(tip["run"], u)
    BY DEF All
  <1>1. run.into[u] = "run" /\ disk.into[u] = "run"
    BY DEF Ready, Inv, Written
  <1>2. disk.sha[u] \in tip["run"] /\ disk.sha[u] # NoCommit
    BY <1>1 DEF Inv, Kept, Sure
  <1> QED BY <1>2, ShaHolds

LEMMA LandInv == ASSUME Inv, Land PROVE Inv'
  <1>1. CASE tip' = tip
    <2>1. SameRun /\ SameGit
      BY <1>1, SameRunIf DEF Land, SameGit, Inv, Typed
    <2>2. at = "land"
      BY DEF Land
    <2>3. CASE at' # "landed"
      BY <1>1, <2>1, <2>2, <2>3, QuietInv DEF Land, After, Inv, Typed, Whole, AtUnit
    <2>4. CASE at' = "landed"
      <3>1. me.target = "run" /\ Ready /\ tip'["main"] = tip["run"] /\ UNCHANGED <<me, run, disk, unit, co, remote>>
        BY <2>4 DEF Land, After, Inv, Typed, Named
      <3>2. All(tip["main"])
        BY <1>1, <3>1, ReadyIsWhole
      <3> QED BY <1>1, <2>2, <2>4, <3>1, <3>2
            DEF Inv, Typed, Written, Once, Target, Carried, Kept, Whole, WorkNotLost, PushedIsWhole,
                AtUnit, Merging, Places, Sure, All
    <2> QED BY <2>3, <2>4
  <1>2. CASE tip' # tip
    <2>1. /\ me.target = "run" /\ Ready /\ tip["main"] \subseteq tip["run"]
          /\ tip' = [tip EXCEPT !["main"] = tip["run"]]
          /\ at = "land" /\ at' = "landed" /\ UNCHANGED <<me, run, disk, unit, co, remote>>
      BY <1>2 DEF Land, Ancestor
    <2>2. /\ \A b \in Named : tip[b] \subseteq tip'[b]
          /\ tip' \in [Named -> SUBSET Commits] /\ tip'["main"] = tip["run"] /\ tip'["run"] = tip["run"]
      BY <2>1 DEF Inv, Typed, Named
    <2>3. All(tip'["main"])
      BY <2>1, <2>2, ReadyIsWhole
    <2>4. Kept'
      BY <2>1, <2>2, GrowKept
    <2>5. Typed' /\ Written' /\ Once'
      BY <2>1, <2>2 DEF Inv, Typed, Written, Once, Places, AtUnit
    <2>6. Target' /\ Carried' /\ Whole'
      BY <2>1, <2>2, <2>3 DEF Inv, Target, Carried, Whole, All, PushedIsWhole, Merging
    <2> QED BY <2>4, <2>5, <2>6 DEF Inv
  <1> QED BY <1>1, <1>2

LEMMA PushInv == ASSUME Inv, Push PROVE Inv'
  <1> USE DEF Inv, AtUnit, Merging
  <1>1. PICK p \in {"ok", "failed"} :
          /\ Write([run EXCEPT !.pushed = p])
          /\ IF p = "ok" THEN me.landed /\ remote' = tip["main"] ELSE UNCHANGED remote
    BY DEF Push, MayPush
  <1>2. /\ run' \in Runs /\ disk' = run' /\ run'.into = run.into
        /\ run'.out = run.out /\ run'.sha = run.sha /\ run'.pushed = p
    BY <1>1, WritePushed
  <1>3. at = "push" /\ at' = "end" /\ UNCHANGED <<me, tip, unit, co>>
    BY DEF Push
  <1>4. remote' \subseteq Commits /\ (p = "ok" => All(remote'))
    BY <1>1, <1>3 DEF Typed, Named, Whole
  <1> USE <1>2, <1>3, <1>4
  <1>5. Typed' /\ Written'
    BY DEF Typed, Written, Places
  <1>6. Once' /\ Target' /\ Carried'
    BY DEF Once, Target, Carried, Written
  <1>7. Kept'
    BY DEF Kept, WorkNotLost, Sure, Written
  <1>8. Whole'
    BY DEF Whole, All, PushedIsWhole
  <1> QED BY <1>5, <1>6, <1>7, <1>8

-----------------------------------------------------------------------------
(* A kill, a resume, and the others. *)

LEMMA NewMeFacts ==
  /\ NewMe \in Mes /\ NewMe.target = "none" /\ NewMe.inRoot = FALSE /\ NewMe.landed = FALSE
  BY DEF NewMe, Mes, Branches

LEMMA KillInv == ASSUME Inv, Kill PROVE Inv'
  <1>1. /\ at' = "down" /\ run' = disk /\ me' = NewMe /\ UNCHANGED <<disk, tip, unit, co, remote>>
    BY DEF Kill
  <1> USE <1>1, NewMeFacts DEF Inv, AtUnit, Merging
  <1>2. Typed' /\ Written'
    BY DEF Typed, Written, Places
  <1>3. Once' /\ Target' /\ Carried'
    BY DEF Once, Target, Carried
  <1>4. Kept' /\ Whole'
    BY DEF Kept, WorkNotLost, Sure, Whole, All, PushedIsWhole
  <1> QED BY <1>2, <1>3, <1>4

LEMMA ResumeInv == ASSUME Inv, Resume PROVE Inv'
  <1> DEFINE mine == {u \in Units : disk.out[u] \in {"running", "error"}}
  <1>1. PICK outs \in [mine -> {"accepted", "exhausted"}], a \in {"skip-unit", "abort-merge"} :
          Write([disk EXCEPT !.out = [u \in Units |-> IF u \in mine THEN outs[u] ELSE @[u]],
                             !.asked = [u \in Units |-> IF @[u] = "pending" THEN a ELSE @[u]]])
    BY DEF Resume
  <1>2. PICK f \in Flags : me' = [NewMe EXCEPT !.mine = mine, !.flag = f]
    BY DEF Resume
  <1>3. me' \in Mes /\ me'.target = "none" /\ me'.inRoot = FALSE /\ me'.landed = FALSE /\ me'.mine = mine
    <2>1. mine \in SUBSET Units
      OBVIOUS
    <2> HIDE DEF mine
    <2> DEFINE m == [NewMe EXCEPT !.mine = mine, !.flag = f]
    <2>2. m \in Mes /\ m.target = "none" /\ m.inRoot = FALSE /\ m.landed = FALSE /\ m.mine = mine
      BY <2>1 DEF NewMe, Mes, Branches
    <2> HIDE DEF m
    <2> QED BY <1>2, <2>2 DEF m
  <1>4. PICK worked \in SUBSET mine :
          unit' = [u \in Units |-> IF u \in worked THEN [unit[u] EXCEPT !.tree = "dirty"] ELSE unit[u]]
    BY DEF Resume
  <1>5. /\ unit' \in [Units -> [commits : SUBSET Commits, tree : {"none", "clean", "dirty"}]]
        /\ \A u \in Units : unit'[u].tree = "none" => unit[u].tree = "none"
    BY <1>4 DEF Inv, Typed
  <1> DEFINE r == [disk EXCEPT !.out = [u \in Units |-> IF u \in mine THEN outs[u] ELSE @[u]],
                               !.asked = [u \in Units |-> IF @[u] = "pending" THEN a ELSE @[u]]]
  <1>6. /\ r \in Runs /\ r.sha = disk.sha /\ r.into = disk.into /\ r.pushed = disk.pushed
        /\ \A u \in Units \ mine : r.out[u] = disk.out[u]
    BY DEF Inv, Typed, Runs
  <1>7. run' = r /\ disk' = r
    BY <1>1 DEF Write
  <1>8. at = "down" /\ at' = "resolve" /\ UNCHANGED <<tip, co, remote>>
    BY DEF Resume
  <1>9. \A u \in Units : disk.into[u] # "none" => u \notin mine
    BY DEF Inv, Once
  <1>10. mine \subseteq Units
    OBVIOUS
  <1> HIDE DEF r, mine
  <1> USE <1>3, <1>5, <1>6, <1>7, <1>8, <1>9, <1>10 DEF Inv, AtUnit, Merging
  <1>11. Typed' /\ Written'
    BY DEF Typed, Written, Places
  <1>12. Once' /\ Target' /\ Carried'
    BY DEF Once, Target, Carried
  <1>13. Kept' /\ Whole'
    BY DEF Kept, WorkNotLost, Sure, Whole, All, PushedIsWhole
  <1> QED BY <1>11, <1>12, <1>13

\* The commit of somebody else is of no unit.
LEMMA ForeignFacts ==
  ASSUME Foreign # {}
  PROVE  /\ <<0, Min(Foreign)>> \in Commits
         /\ \A u \in Units : \A c : Holds(c \cup {<<0, Min(Foreign)>>}, u) <=> Holds(c, u)
  <1>1. Foreign \subseteq 1 .. MaxForeign
    BY DEF Foreign
  <1>2. Foreign \subseteq Nat
    BY <1>1, LandingBounds
  <1>3. Min(Foreign) \in 1 .. MaxForeign
    BY <1>1, <1>2, MinIsIn
  <1>4. \A u \in Units, n \in 0 .. 2 : <<u, n>> # <<0, Min(Foreign)>>
    BY LandingBounds DEF Units
  <1> QED BY <1>3, <1>4 DEF Commits, Holds

LEMMA OthersCommitInv == ASSUME Inv, OthersCommit PROVE Inv'
  <1>1. PICK x \in {<<0, Min(Foreign)>>} :
          \/ tip' = [tip EXCEPT ![co.root] = @ \cup {x}] /\ UNCHANGED remote
          \/ remote' = remote \cup {x} /\ UNCHANGED tip
    BY DEF OthersCommit
  <1>2. x \in Commits /\ \A u \in Units : \A c : Holds(c \cup {x}, u) <=> Holds(c, u)
    BY ForeignFacts DEF OthersCommit
  <1>3. UNCHANGED <<at, me, run, disk, unit, co>>
    BY DEF OthersCommit
  <1>4. /\ tip' \in [Named -> SUBSET Commits] /\ tip'["run"] = tip["run"]
        /\ \A b \in Named : tip[b] \subseteq tip'[b]
        /\ \A b \in Named, u \in Units : Holds(tip'[b], u) <=> Holds(tip[b], u)
    BY <1>1, <1>2 DEF Inv, Typed, Named
  <1>5. remote' \subseteq Commits /\ \A u \in Units : Holds(remote', u) <=> Holds(remote, u)
    BY <1>1, <1>2 DEF Inv, Typed
  <1> USE <1>3, <1>4, <1>5
  <1>6. Typed' /\ Written' /\ Once' /\ Target'
    BY DEF Inv, Typed, Written, Once, Target, Now
  <1>7. Carried'
    <2>1. me.target \in Branches /\ (at \in AtUnit => Now \in Units)
      BY NowIsUnit DEF Inv, Typed, Mes
    <2> QED BY <2>1 DEF Inv, Carried, Now, Sure, AtUnit, Merging, Branches, Target
  <1>8. Kept'
    BY GrowKept
  <1>9. Whole'
    BY DEF Inv, Whole, All, PushedIsWhole, Named
  <1> QED BY <1>6, <1>7, <1>8, <1>9 DEF Inv

LEMMA UserInv == ASSUME Inv, UserEdits \/ UserSwitches PROVE Inv'
  <1>1. co' \in [root : {"main", "feature"}, rootTree : Trees, runDir : {"none", "live", "foreign"}, runTree : Trees]
        /\ co'.runDir = co.runDir /\ (co'.root = co.root \/ at = "down" \/ SwitchAnytime)
    <2>1. CASE UserEdits
      BY <2>1 DEF UserEdits, Inv, Typed, Trees
    <2>2. CASE UserSwitches
      BY <2>2 DEF UserSwitches, Inv, Typed
    <2> QED BY <2>1, <2>2
  <1>2. UNCHANGED <<at, me, run, disk, tip, unit, remote>>
    BY DEF UserEdits, UserSwitches
  <1> USE <1>1, <1>2 DEF Inv
  <1>3. Typed' /\ Written' /\ Once'
    BY DEF Typed, Written, Once, Now
  <1>4. Target'
    BY DEF Target
  <1>5. Carried' /\ Kept' /\ Whole'
    BY DEF Carried, Now, Kept, WorkNotLost, Sure, Whole, All, PushedIsWhole
  <1> QED BY <1>3, <1>4, <1>5

LEMMA NextInv == Inv /\ [Next]_vars => Inv'
  <1> SUFFICES ASSUME Inv, [Next]_vars PROVE Inv'
    OBVIOUS
  <1>1. CASE UNCHANGED vars
    BY <1>1 DEF vars, Inv, Typed, Written, Once, Target, Carried, Now, Kept, WorkNotLost, Sure, Whole, All, PushedIsWhole
  <1>2. CASE Work
    BY <1>2, ResolveInv, CommitInv, CommittedInv, DirtyInv, RebaseInv, RefreshInv, FastForwardInv, MergeInv,
       AbortMergeInv, MergedInv, TeardownInv, ParkInv, AnsweredInv, LandInv, LandedInv, LandParkInv,
       LandAnsweredInv, PushInv, EndInv DEF Work
  <1> QED BY <1>1, <1>2, KillInv, ResumeInv, OthersCommitInv, UserInv DEF Next

LEMMA Invariance == Spec => []Inv
  BY InitInv, NextInv, PTL DEF Spec

\* The default branch only grows, and the upstream gets all of it or nothing of the run.
LEMMA MainGrows ==
  ASSUME Inv, [Next]_vars
  PROVE  /\ tip["main"] \subseteq tip'["main"]
         /\ \/ \A u \in Units : Holds(remote', u) <=> Holds(remote, u)
            \/ remote' = tip["main"] /\ UNCHANGED tip
  <1> USE DEF Inv, Typed, Named
  <1>1. CASE Resolve
    BY <1>1 DEF Resolve
  <1>2. CASE FastForward
    BY <1>2, CheckedFacts DEF FastForward, Merging
  <1>3. CASE Merge
    BY <1>3, CheckedFacts DEF Merge, Merging
  <1>4. CASE Land
    BY <1>4 DEF Land, Ancestor
  <1>5. CASE Push
    BY <1>5 DEF Push
  <1>6. CASE OthersCommit
    BY <1>6, ForeignFacts DEF OthersCommit
  <1>7. CASE Kill \/ Resume \/ UserEdits \/ UserSwitches \/ UNCHANGED vars
    BY <1>7 DEF Kill, Resume, UserEdits, UserSwitches, vars
  <1>8. CASE \/ Commit \/ Committed \/ Dirty \/ Rebase \/ Refresh \/ AbortMerge \/ Merged \/ Teardown \/ Park
             \/ Answered \/ Landed \/ LandPark \/ LandAnswered \/ End
    BY <1>8 DEF Commit, Committed, Dirty, Rebase, Refresh, AbortMerge, Merged, Teardown, Park, Answered, Landed,
                LandPark, LandAnswered, End
  <1> QED BY <1>1, <1>2, <1>3, <1>4, <1>5, <1>6, <1>7, <1>8 DEF Next, Work

-----------------------------------------------------------------------------
(* The theorems. *)

\* A worktree and its branch are removed only once a surviving branch has the unit, wherever the
\* process was killed and whatever the user does with the checkout.  (teardown after attemptMerge.)
THEOREM NoUnitLost == Spec => []WorkNotLost
  <1>1. Inv => WorkNotLost
    BY DEF Inv, Kept
  <1> QED BY <1>1, Invariance, PTL

\* A push that is recorded took the whole run to the upstream.  (attemptLandToDefault, pushCurrentFfOnly.)
THEOREM OnlyWholeIsPushed == Spec => []PushedIsWhole
  <1>1. Inv => PushedIsWhole
    BY DEF Inv, Whole
  <1> QED BY <1>1, Invariance, PTL

\* What run.json calls merged is in the branch it names, by the sha it names, if the user leaves the
\* branch of the main checkout alone while a process runs.  (refreshCommittedShaAfterRebase, the merge record.)
THEOREM RecordIsTrue == ASSUME ~SwitchAnytime PROVE Spec => []MergedIsThere
  <1>1. Inv => MergedIsThere
    BY DEF Inv, Kept, MergedIsThere, Sure
  <1> QED BY <1>1, Invariance, PTL

\* Under the same condition the landing implements its abstract specification, WholeOrNothing: the default
\* branch gets all units in one step, and the upstream what the default branch has.
THEOREM LandsAsAWhole == ASSUME ~SwitchAnytime PROVE Spec => DefaultTakesWhole
  <1> DEFINE D == {u \in Units : Holds(tip["main"], u)}
  <1> DEFINE R == {u \in Units : Holds(remote, u)}
  <1>1. Init => Promise!Init
    BY DEF Promise!Init, Init, Holds, Named
  <1>2. Inv /\ [Next]_vars => [Promise!Next]_<<D, R>>
    <2> SUFFICES ASSUME Inv, [Next]_vars PROVE (D' = D /\ R' = R) \/ Promise!Next
      OBVIOUS
    <2>1. D \in {{}, Units} /\ D' \in {{}, Units}
      BY NextInv DEF Inv, Whole, All
    <2>2. D \subseteq D'
      BY MainGrows DEF Holds
    <2>3. R' = R \/ (R' = D /\ D' = D)
      BY MainGrows
    <2>4. R' = R \/ (R # D /\ R' = D /\ D' = D)
      BY <2>3
    <2>5. D' = D \/ (D = {} /\ D' = Units)
      BY <2>1, <2>2
    <2> HIDE DEF D, R
    <2> QED BY <2>4, <2>5 DEF Promise!Next, Promise!LandAll, Promise!PushAll, D, R
  <1> QED BY <1>1, <1>2, Invariance, PTL DEF Spec, DefaultTakesWhole, Promise!Spec
=============================================================================
