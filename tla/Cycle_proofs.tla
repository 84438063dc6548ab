----------------------------- MODULE Cycle_proofs -----------------------------
(***************************************************************************)
(* Theorems about the life cycle of a project (Cycle), for any number of     *)
(* runs, texts, archives and kills: no command but the merge of `finish`     *)
(* moves the default branch, other than forward to its upstream, no commit   *)
(* gets lost that nobody forced away,                                        *)
(* the archive is a permanent record, and a new cycle starts clean.          *)
(***************************************************************************)
EXTENDS Cycle, TLAPS

USE DEF outside

States == [phase : {"orient", "plan", "prototype", "frozen", "build", "done"}, run : Nat, ws : Nat, branch : Nat,
           item : {"none", "building", "passed", "failed", "abandoned"}, hash : Nat]
Dirs   == [plan : Nat, holdout : Nat, work : Nat, whole : BOOLEAN]
Opts   == [fresh : BOOLEAN, apart : BOOLEAN, target : Nat, force : BOOLEAN]

Typed ==
  /\ strategy \in Strategies
  /\ disk \in States /\ mem \in States /\ opts \in Opts
  /\ live \in [Docs -> Nat] /\ frozen \in [Docs -> Nat] /\ built \in [Docs -> Nat]
  /\ work \in Nat /\ texts \in Nat /\ since \in Nat /\ runs \in Nat
  /\ cycles \in Seq(Dirs)
  /\ cmd = "none" => at = "none"

(* The pieces are moved into the directory that was made for them, once. *)
Archive ==
  /\ at \in {"plan", "holdout", "frozen", "work", "manifest"} => cycles # <<>>
  /\ at = "plan" => cycles[Len(cycles)].plan = 0
  /\ at \in {"plan", "holdout"} => cycles[Len(cycles)].holdout = 0
  /\ at \in {"plan", "holdout", "frozen", "work"} => cycles[Len(cycles)].work = 0

(* What has been moved is not there any more. *)
Emptied ==
  /\ at \in {"frozen", "work", "manifest", "fresh plan", "reset"} => live["holdout"] = 0
  /\ at \in {"work", "manifest", "fresh plan", "reset"} => frozen = Empty
  /\ at \in {"manifest", "fresh plan", "reset"} => work = 0
  /\ at = "reset" => live["plan"] = texts

(* Nothing is older than the cycle. *)
Recent(x) == x = 0 \/ x >= since
Current ==
  /\ since <= texts
  /\ \A d \in Docs : Recent(live[d]) /\ Recent(frozen[d])
  /\ Recent(work)
  /\ cmd # "none" => mem.item = disk.item

(* The repository has its default branch and its HEAD, and nothing takes the default branch for one of ours. *)
Shape(g) == g = [tip |-> g.tip, head |-> g.head, trees |-> g.trees, dirty |-> g.dirty, made |-> g.made]
Repo ==
  /\ Shape(git)
  /\ DOMAIN git.tip \subseteq Nat /\ Main \in DOMAIN git.tip /\ git.head \in DOMAIN git.tip
  /\ disk.branch # Main /\ mem.branch # Main
  /\ cmd = "build" => mem.run # 0
  /\ cmd = "finish" /\ at \in {"tree", "branch"} => opts.target # Main

(* A build that has a branch has a directory of its own, unless it checks the branch out in the project. *)
Elsewhere(s) == s.branch # None => s.ws # Root
Apartness == "branch" \notin Strategies => Elsewhere(disk) /\ Elsewhere(mem)

Inv == Typed /\ Archive /\ Emptied /\ Current /\ Repo /\ Apartness /\ CycleStartsClean

-----------------------------------------------------------------------------
(* The operators on state.json. *)

LEMMA Numbers == None \in Nat /\ Apart \in Nat /\ None # Root /\ Apart # Root /\ Main = Root /\ Root \in Nat
  BY BoundsAssumption DEF None, Apart, Root, Main

LEMMA FreshFacts ==
  ASSUME NEW p \in {"orient", "plan"}
  PROVE  Fresh(p) \in States /\ Fresh(p).item = "none" /\ Fresh(p).branch = None /\ Fresh(p).ws = None
  BY Numbers DEF Fresh, States

LEMMA MovedFacts ==
  ASSUME NEW s \in States, NEW to \in {"plan", "prototype"}
  PROVE  /\ Moved(s, to) \in States
         /\ Moved(s, to).item = s.item /\ Moved(s, to).branch = s.branch /\ Moved(s, to).ws = s.ws
  <1>1. Moved(s, to) \in {s, [s EXCEPT !.phase = to]}
    BY DEF Moved
  <1>2. [s EXCEPT !.phase = to] \in States
    BY DEF States
  <1> QED BY <1>1, <1>2 DEF States

LEMMA PhaseFacts ==
  ASSUME NEW s \in States, NEW p \in {"build", "done", "frozen"}
  PROVE  LET t == [s EXCEPT !.phase = p]
         IN t \in States /\ t.run = s.run /\ t.item = s.item /\ t.branch = s.branch /\ t.ws = s.ws /\ t.hash = s.hash
  BY DEF States

LEMMA ItemFacts ==
  ASSUME NEW s \in States, NEW x \in {"building", "passed", "failed", "abandoned"}
  PROVE  LET t == [s EXCEPT !.item = x]
         IN t \in States /\ t.run = s.run /\ t.item = x /\ t.branch = s.branch /\ t.ws = s.ws
  BY DEF States

LEMMA PlacedFacts ==
  ASSUME NEW s \in States, NEW b \in Nat, NEW w \in Nat
  PROVE  LET t == [s EXCEPT !.branch = b, !.ws = w]
         IN t \in States /\ t.run = s.run /\ t.item = s.item /\ t.branch = b /\ t.ws = w
  BY DEF States

LEMMA HashFacts ==
  ASSUME NEW s \in States, NEW h \in Nat
  PROVE  LET t == [s EXCEPT !.hash = h]
         IN t \in States /\ t.run = s.run /\ t.item = s.item /\ t.branch = s.branch /\ t.ws = s.ws
  BY DEF States

LEMMA StartedFacts ==
  ASSUME NEW s \in States, runs \in Nat, NEW fresh \in BOOLEAN
  PROVE  LET t == Started(s, fresh)
         IN /\ t \in States /\ t.run # 0 /\ t.branch = s.branch
            /\ t.item \in {s.item, "none"} /\ t.ws \in {s.ws, None}
  <1> DEFINE n == runs + 1
             p == [s EXCEPT !.phase = "build"]
  <1>1. n \in Nat /\ n # 0
    OBVIOUS
  <1>2. p \in States /\ p.run = s.run /\ p.item = s.item /\ p.branch = s.branch /\ p.ws = s.ws
    BY PhaseFacts
  <1> HIDE DEF n
  <1> DEFINE q == [s EXCEPT !.phase = "build", !.run = n, !.item = "none", !.ws = None]
  <1>3. q \in States /\ q.run = n /\ q.item = "none" /\ q.branch = s.branch /\ q.ws = None
    BY <1>1, Numbers DEF States
  <1>4. Started(s, fresh) = (IF fresh \/ s.run = 0 THEN q ELSE p)
    BY DEF Started, n
  <1> HIDE DEF p, q
  <1> QED BY <1>1, <1>2, <1>3, <1>4

-----------------------------------------------------------------------------
(* The operators on the repository: each leaves a repository, keeps what was reachable, and leaves the tip *)
(* of the default branch unless it says otherwise. *)

Good(g) == Shape(g) /\ DOMAIN g.tip \subseteq Nat /\ Main \in DOMAIN g.tip /\ g.head \in DOMAIN g.tip
Kept(g, h) == Reachable(g) \subseteq Reachable(h)
SameMain(g, h) == h.tip[Main] = g.tip[Main]

LEMMA GrowsKept ==
  ASSUME NEW g, NEW h, \A b \in DOMAIN g.tip : b \in DOMAIN h.tip /\ g.tip[b] \subseteq h.tip[b]
  PROVE  Kept(g, h)
  BY DEF Kept, Reachable

LEMMA CommittedFacts ==
  ASSUME NEW g, NEW dir, Good(g), g.head = git.head
  PROVE  LET h == Committed(g, dir)
         IN Good(h) /\ Kept(g, h) /\ (HeadOf(dir) # Main => SameMain(g, h))
  <1> DEFINE h == Committed(g, dir)
             b == HeadOf(dir)
             c == {g.made + 1}
             tip == [g.tip EXCEPT ![b] = @ \cup c]
  <1>1. h = [g EXCEPT !.tip[b] = @ \cup c, !.made = @ + 1, !.dirty = @ \ {dir}]
    BY DEF Committed
  <1>2. g = [tip |-> g.tip, head |-> g.head, trees |-> g.trees, dirty |-> g.dirty, made |-> g.made]
    BY DEF Good, Shape
  <1>3. h = [tip |-> tip, head |-> g.head, trees |-> g.trees, dirty |-> g.dirty \ {dir}, made |-> g.made + 1]
    BY <1>1, <1>2
  <1> HIDE DEF h, b, c
  <1>4. DOMAIN tip = DOMAIN g.tip /\ \A x \in DOMAIN g.tip : g.tip[x] \subseteq tip[x] /\ (x # b => tip[x] = g.tip[x])
    OBVIOUS
  <1> HIDE DEF tip
  <1>5. h.tip = tip /\ h.head = g.head /\ Shape(h)
    BY <1>3 DEF Shape
  <1>6. Good(h)
    BY <1>4, <1>5 DEF Good
  <1>7. Kept(g, h)
    BY <1>4, <1>5, GrowsKept
  <1>8. b # Main => SameMain(g, h)
    BY <1>4, <1>5 DEF SameMain, Good
  <1> QED BY <1>6, <1>7, <1>8 DEF h, b

LEMMA CheckedOutFacts ==
  ASSUME NEW g, NEW b, Good(g), b \in DOMAIN g.tip
  PROVE  LET h == CheckedOut(g, b) IN Good(h) /\ Kept(g, h) /\ SameMain(g, h) /\ h.tip = g.tip /\ h.head = b
  <1> DEFINE h == CheckedOut(g, b)
  <1>1. g = [tip |-> g.tip, head |-> g.head, trees |-> g.trees, dirty |-> g.dirty, made |-> g.made]
    BY DEF Good, Shape
  <1>2. h = [tip |-> g.tip, head |-> b, trees |-> g.trees, dirty |-> g.dirty, made |-> g.made]
    BY <1>1 DEF CheckedOut
  <1> HIDE DEF h
  <1>3. Good(h) /\ SameMain(g, h) /\ h.tip = g.tip /\ h.head = b
    BY <1>2 DEF Good, Shape, SameMain
  <1>4. Kept(g, h)
    BY <1>3 DEF Kept, Reachable
  <1> QED BY <1>3, <1>4 DEF h

LEMMA BranchedFacts ==
  ASSUME NEW g, NEW b \in Nat, Good(g), b \notin DOMAIN g.tip
  PROVE  LET h == Branched(g, b) IN Good(h) /\ Kept(g, h) /\ SameMain(g, h) /\ b \in DOMAIN h.tip
  <1> DEFINE h == Branched(g, b)
             tip == [x \in DOMAIN g.tip \cup {b} |-> IF x = b THEN g.tip[g.head] ELSE g.tip[x]]
  <1>1. g = [tip |-> g.tip, head |-> g.head, trees |-> g.trees, dirty |-> g.dirty, made |-> g.made]
    BY DEF Good, Shape
  <1>2. h = [tip |-> tip, head |-> g.head, trees |-> g.trees, dirty |-> g.dirty, made |-> g.made]
    BY <1>1 DEF Branched
  <1> HIDE DEF h
  <1>3. DOMAIN tip = DOMAIN g.tip \cup {b} /\ \A x \in DOMAIN g.tip : tip[x] = g.tip[x]
    OBVIOUS
  <1> HIDE DEF tip
  <1>4. Good(h) /\ SameMain(g, h) /\ b \in DOMAIN h.tip
    BY <1>2, <1>3 DEF Good, Shape, SameMain
  <1>5. Kept(g, h)
    BY <1>2, <1>3, GrowsKept
  <1> QED BY <1>4, <1>5 DEF h

\* A change of the worktrees, or of what is dirty.
LEMMA TreesFacts ==
  ASSUME NEW g, NEW t, Good(g)
  PROVE  /\ LET h == [g EXCEPT !.trees = t] IN Good(h) /\ h.tip = g.tip /\ h.head = g.head
         /\ LET h == [g EXCEPT !.dirty = t] IN Good(h) /\ h.tip = g.tip /\ h.head = g.head
  <1>1. g = [tip |-> g.tip, head |-> g.head, trees |-> g.trees, dirty |-> g.dirty, made |-> g.made]
    BY DEF Good, Shape
  <1> QED BY <1>1 DEF Good, Shape

LEMMA SameTipFacts == ASSUME NEW g, NEW h, h.tip = g.tip PROVE Kept(g, h) /\ SameMain(g, h)
  BY DEF Kept, Reachable, SameMain

\* Branches are deleted whose commits another one has that stays.
LEMMA PrunedFacts ==
  ASSUME NEW g, Good(g), NEW old, Main \notin old, g.head \notin old
  PROVE  LET h == [g EXCEPT !.tip = [b \in DOMAIN @ \ old |-> @[b]]]
         IN /\ Good(h) /\ SameMain(g, h)
            /\ \A k \in DOMAIN g.tip \ old : (\A b \in old : b \in DOMAIN g.tip => g.tip[b] \subseteq g.tip[k]) => Kept(g, h)
  <1> DEFINE h == [g EXCEPT !.tip = [b \in DOMAIN @ \ old |-> @[b]]]
             tip == [b \in DOMAIN g.tip \ old |-> g.tip[b]]
  <1>1. g = [tip |-> g.tip, head |-> g.head, trees |-> g.trees, dirty |-> g.dirty, made |-> g.made]
    BY DEF Good, Shape
  <1>2. h = [tip |-> tip, head |-> g.head, trees |-> g.trees, dirty |-> g.dirty, made |-> g.made]
    BY <1>1
  <1> HIDE DEF h
  <1>3. DOMAIN tip = DOMAIN g.tip \ old /\ \A x \in DOMAIN tip : tip[x] = g.tip[x]
    OBVIOUS
  <1> HIDE DEF tip
  <1>4. Good(h) /\ SameMain(g, h) /\ h.tip = tip
    BY <1>2, <1>3 DEF Good, Shape, SameMain
  <1>5. ASSUME NEW k \in DOMAIN g.tip \ old, \A b \in old : b \in DOMAIN g.tip => g.tip[b] \subseteq g.tip[k]
        PROVE  Kept(g, h)
    <2> SUFFICES ASSUME NEW b \in DOMAIN g.tip, NEW c \in g.tip[b] PROVE \E x \in DOMAIN h.tip : c \in h.tip[x]
      BY DEF Kept, Reachable
    <2>1. CASE b \in old
      BY <1>3, <1>4, <1>5, <2>1
    <2>2. CASE b \notin old
      BY <1>3, <1>4, <2>2
    <2> QED BY <2>1, <2>2
  <1> QED BY <1>4, <1>5 DEF h

LEMMA MergedFacts ==
  ASSUME NEW g, NEW b, Good(g), b \in DOMAIN g.tip, g.tip[Main] \subseteq g.tip[b]
  PROVE  LET h == MergedInto(g, b) IN Good(h) /\ Kept(g, h) /\ g.tip[Main] \subseteq h.tip[Main]
  <1> DEFINE h == MergedInto(g, b)
             tip == [g.tip EXCEPT ![Main] = g.tip[b]]
  <1>1. g = [tip |-> g.tip, head |-> g.head, trees |-> g.trees, dirty |-> g.dirty, made |-> g.made]
    BY DEF Good, Shape
  <1>2. h = [tip |-> tip, head |-> Main, trees |-> g.trees, dirty |-> g.dirty, made |-> g.made]
    <2> DEFINE c == CheckedOut(g, Main)
    <2>1. c = [tip |-> g.tip, head |-> Main, trees |-> g.trees, dirty |-> g.dirty, made |-> g.made]
      BY <1>1 DEF CheckedOut
    <2>2. h = [c EXCEPT !.tip[Main] = g.tip[b]]
      BY DEF MergedInto
    <2> HIDE DEF c, h
    <2> QED BY <2>1, <2>2
  <1> HIDE DEF h
  <1>3. DOMAIN tip = DOMAIN g.tip /\ tip[Main] = g.tip[b] /\ \A x \in DOMAIN g.tip : x # Main => tip[x] = g.tip[x]
    BY DEF Good
  <1> HIDE DEF tip
  <1>4. Good(h) /\ h.tip = tip
    BY <1>2, <1>3 DEF Good, Shape
  <1>5. Kept(g, h)
    BY <1>3, <1>4, GrowsKept
  <1> QED BY <1>3, <1>4, <1>5 DEF h

LEMMA PulledFacts ==
  ASSUME NEW g, Good(g)
  PROVE  LET h == Pulled(g)
         IN /\ Good(h) /\ Kept(g, h) /\ g.tip[Main] \subseteq h.tip[Main]
            /\ SameMain(g, h) \/ h.tip[Main] = upstream
  <1> DEFINE h == Pulled(g)
             tip == [g.tip EXCEPT ![Main] = upstream]
  <1>1. CASE h = g
    BY <1>1 DEF Kept, SameMain
  <1>2. CASE h # g
    <2>1. g = [tip |-> g.tip, head |-> g.head, trees |-> g.trees, dirty |-> g.dirty, made |-> g.made]
      BY DEF Good, Shape
    <2>2. h = [g EXCEPT !.tip[Main] = upstream] /\ g.tip[Main] \subseteq upstream
      BY <1>2 DEF Pulled
    <2>3. h = [tip |-> tip, head |-> g.head, trees |-> g.trees, dirty |-> g.dirty, made |-> g.made]
      BY <2>1, <2>2
    <2> HIDE DEF h
    <2>4. DOMAIN tip = DOMAIN g.tip /\ tip[Main] = upstream /\ \A x \in DOMAIN g.tip : x # Main => tip[x] = g.tip[x]
      BY DEF Good
    <2> HIDE DEF tip
    <2>5. h.tip = tip /\ Good(h)
      BY <2>3, <2>4 DEF Good, Shape
    <2>6. \A b \in DOMAIN g.tip : b \in DOMAIN h.tip /\ g.tip[b] \subseteq h.tip[b]
      BY <2>2, <2>4, <2>5
    <2>7. Kept(g, h)
      BY <2>6 DEF Kept, Reachable
    <2> QED BY <2>2, <2>4, <2>5, <2>7 DEF h
  <1> QED BY <1>1, <1>2

LEMMA DeletedFacts ==
  ASSUME NEW g, NEW b, NEW force \in BOOLEAN, Good(g), b # Main
  PROVE  LET h == Deleted(g, b, force) IN Good(h) /\ SameMain(g, h) /\ (~force => Kept(g, h))
  <1> DEFINE h == Deleted(g, b, force)
             p == [g EXCEPT !.tip = [x \in DOMAIN @ \ {b} |-> @[x]]]
  <1>1. CASE ~MayDelete(g, b, force)
    <2>1. h = g
      BY <1>1 DEF Deleted
    <2> QED BY <2>1 DEF Kept, SameMain
  <1>2. CASE MayDelete(g, b, force)
    <2>1. h = p
      BY <1>2 DEF Deleted
    <2>2. b # g.head /\ (~force => g.tip[b] \subseteq g.tip[g.head])
      BY <1>2 DEF MayDelete
    <2>3. /\ Good(p) /\ SameMain(g, p)
          /\ \A k \in DOMAIN g.tip \ {b} : (\A x \in {b} : x \in DOMAIN g.tip => g.tip[x] \subseteq g.tip[k]) => Kept(g, p)
      BY <2>2, PrunedFacts
    <2> HIDE DEF h, p
    <2>4. ~force => Kept(g, p)
      BY <2>2, <2>3 DEF Good
    <2> QED BY <2>1, <2>3, <2>4 DEF h
  <1> QED BY <1>1, <1>2

-----------------------------------------------------------------------------
(* The steps that leave the documents and the archive alone. *)

Moving == {"plan", "holdout", "frozen", "work", "manifest", "fresh plan", "reset"}

LEMMA QuietInv ==
  ASSUME Inv, UNCHANGED files, at' = at \/ at' \notin Moving, cmd' = "none" => at' = "none",
         disk' \in States, mem' \in States, opts' \in Opts, runs' \in Nat, built' \in [Docs -> Nat],
         cmd' # "none" => mem'.item = disk'.item,
         disk'.item = "passed" => \A d \in Docs : Recent(built'[d]),
         Good(git'), disk'.branch # Main, mem'.branch # Main, cmd' = "build" => mem'.run # 0,
         cmd' = "finish" /\ at' \in {"tree", "branch"} => opts'.target # Main,
         "branch" \notin Strategies => Elsewhere(disk') /\ Elsewhere(mem')
  PROVE  Inv'
  <1>1. Typed'
    BY DEF Inv, Typed, files
  <1>2. Archive' /\ Emptied'
    BY DEF Inv, Archive, Emptied, files, Moving
  <1>3. Current'
    BY DEF Inv, Current, Recent, files
  <1>4. CycleStartsClean'
    BY DEF CycleStartsClean, Recent, files
  <1>5. Repo' /\ Apartness'
    BY DEF Repo, Apartness, Good, Elsewhere, Shape
  <1> QED BY <1>1, <1>2, <1>3, <1>4, <1>5 DEF Inv

\* What holds before the step, in the form QuietInv asks for.
LEMMA NowFacts ==
  ASSUME Inv
  PROVE  /\ disk \in States /\ mem \in States /\ opts \in Opts /\ runs \in Nat /\ built \in [Docs -> Nat]
         /\ disk.item = "passed" => \A d \in Docs : Recent(built[d])
         /\ Good(git) /\ disk.branch # Main /\ mem.branch # Main
         /\ "branch" \notin Strategies => Elsewhere(disk) /\ Elsewhere(mem)
         /\ cmd # "none" => mem.item = disk.item
         /\ cmd = "none" => at = "none"
         /\ cmd = "build" => mem.run # 0
  BY DEF Inv, Typed, Repo, Apartness, CycleStartsClean, Current, Recent, Good

LEMMA OptsFacts ==
  /\ NoCmd \in Opts
  /\ \A f, a \in BOOLEAN : [NoCmd EXCEPT !.fresh = f, !.apart = a] \in Opts
  /\ \A f \in BOOLEAN, t \in Nat : [NoCmd EXCEPT !.target = t, !.force = f] \in Opts
                                   /\ [NoCmd EXCEPT !.target = t, !.force = f].target = t
  <1>1. NoCmd \in Opts
    BY Numbers DEF NoCmd, Opts
  <1>2. ASSUME NEW o \in Opts, NEW f \in BOOLEAN, NEW a \in BOOLEAN, NEW t \in Nat
        PROVE  /\ [o EXCEPT !.fresh = f, !.apart = a] \in Opts
               /\ [o EXCEPT !.target = t, !.force = f] \in Opts /\ [o EXCEPT !.target = t, !.force = f].target = t
    BY DEF Opts
  <1> QED BY <1>1, <1>2

LEMMA EndFacts ==
  ASSUME End
  PROVE  /\ cmd' = "none" /\ at' = "none" /\ mem' \in States /\ opts' \in Opts /\ at' \notin Moving
         /\ mem'.branch # Main /\ Elsewhere(mem')
  BY FreshFacts, OptsFacts, Numbers DEF End, Moving, Elsewhere

\* A step of the user or of `clean` on the repository alone.
LEMMA GitInv ==
  ASSUME Inv, UNCHANGED <<files, runs, disk, cmd, at, mem, opts, built>>, Good(git')
  PROVE  Inv'
  <1>1. UNCHANGED files /\ UNCHANGED <<runs, disk, cmd, at, mem, opts, built>>
    OBVIOUS
  <1>2. cmd = "finish" /\ at \in {"tree", "branch"} => opts.target # Main
    BY DEF Inv, Repo
  <1> QED BY <1>1, <1>2, NowFacts, QuietInv

\* The end of a command that has saved nothing since.
LEMMA EndsInv ==
  ASSUME Inv, End, UNCHANGED files, UNCHANGED <<runs, git, built>>, disk' \in States, disk'.item \in {disk.item, "none"},
         disk'.branch # Main, "branch" \notin Strategies => Elsewhere(disk')
  PROVE  Inv'
  BY NowFacts, EndFacts, QuietInv

LEMMA IdleFacts == ASSUME Inv, Idle PROVE cmd = "none" /\ at = "none" /\ UNCHANGED <<cmd, at, mem, opts, warned>>
  BY DEF Idle, Inv, Typed

LEMMA UserGitInv ==
  ASSUME Inv, (\E dir \in 0..MaxRuns : UserCommit(dir)) \/ UserStash \/ (\E b \in 0..MaxRuns : UserCheckout(b)) PROVE Inv'
  <1>1. Good(git)
    BY NowFacts
  <1>2. Good(git')
    <2>1. CASE \E dir \in 0..MaxRuns : UserCommit(dir)
      BY <1>1, <2>1, CommittedFacts DEF UserCommit
    <2>2. CASE UserStash
      BY <1>1, <2>2, TreesFacts DEF UserStash
    <2>3. CASE \E b \in 0..MaxRuns : UserCheckout(b)
      BY <1>1, <2>3, CheckedOutFacts DEF UserCheckout
    <2> QED BY <2>1, <2>2, <2>3
  <1>3. UNCHANGED <<files, runs, disk, cmd, at, mem, opts, built>>
    BY IdleFacts DEF UserCommit, UserStash, UserCheckout
  <1> QED BY <1>2, <1>3, GitInv

\* Others push: the branches here stay what they are.
LEMMA PushFacts == ASSUME Inv, Push PROVE Good(git') /\ git'.tip = git.tip
  <1>1. Good(git) /\ git = [tip |-> git.tip, head |-> git.head, trees |-> git.trees, dirty |-> git.dirty, made |-> git.made]
    BY NowFacts DEF Good, Shape
  <1>2. CASE git' = [git EXCEPT !.made = @ + 1]
    <2>1. git' = [tip |-> git.tip, head |-> git.head, trees |-> git.trees, dirty |-> git.dirty, made |-> git.made + 1]
      BY <1>1, <1>2
    <2> QED BY <1>1, <2>1 DEF Good, Shape
  <1>3. CASE git' = git
    BY <1>1, <1>3
  <1> QED BY <1>2, <1>3 DEF Push

LEMMA PushInv == ASSUME Inv, Push PROVE Inv'
  <1>1. UNCHANGED <<strategy, live, frozen, work, cycles, texts, since, runs, disk, cmd, at, mem, opts, built>> /\ Good(git')
    BY PushFacts DEF Push
  <1>2. Typed' /\ Archive' /\ Emptied' /\ Current' /\ CycleStartsClean'
    BY <1>1 DEF Inv, Typed, Archive, Emptied, Current, Recent, CycleStartsClean
  <1>3. Repo' /\ Apartness'
    BY <1>1 DEF Inv, Repo, Apartness, Good, Elsewhere, Shape
  <1> QED BY <1>2, <1>3 DEF Inv

LEMMA CleanFacts ==
  ASSUME Inv, NEW force \in BOOLEAN, Clean(force)
  PROVE  Good(git') /\ SameMain(git, git') /\ (~force => Kept(git, git'))
  <1> DEFINE g == CleanTrees(git)
             old == {b \in DOMAIN g.tip \ {Main} :
                       /\ force \/ g.tip[b] \subseteq g.tip[Main]
                       /\ MayDelete(g, b, force /\ ~(g.tip[b] \subseteq g.tip[Main]))}
             h == [g EXCEPT !.tip = [b \in DOMAIN @ \ old |-> @[b]]]
  <1>1. git' = h
    BY DEF Clean
  <1>2. Good(git)
    BY NowFacts
  <1>3. Good(g) /\ g.tip = git.tip
    BY <1>2, TreesFacts DEF CleanTrees
  <1>4. Main \notin old /\ g.head \notin old
    BY DEF MayDelete
  <1>5. ~force => \A b \in old : g.tip[b] \subseteq g.tip[Main]
    OBVIOUS
  <1> HIDE DEF old, g
  <1>6. /\ Good(h) /\ SameMain(g, h)
        /\ \A k \in DOMAIN g.tip \ old : (\A b \in old : b \in DOMAIN g.tip => g.tip[b] \subseteq g.tip[k]) => Kept(g, h)
    BY <1>3, <1>4, PrunedFacts
  <1> HIDE DEF h
  <1>7. ~force => Kept(g, h)
    BY <1>3, <1>4, <1>5, <1>6 DEF Good
  <1> QED BY <1>1, <1>3, <1>6, <1>7 DEF Kept, SameMain, Reachable

LEMMA CleanInv == ASSUME Inv, \E force \in BOOLEAN : Clean(force) PROVE Inv'
  <1>1. UNCHANGED <<files, runs, disk, cmd, at, mem, opts, built>>
    BY DEF Clean
  <1> QED BY <1>1, CleanFacts, GitInv

LEMMA KillInv == ASSUME Inv, Kill PROVE Inv'
  <1>1. End /\ UNCHANGED files /\ UNCHANGED <<runs, git, built>> /\ disk' = disk
    BY DEF Kill
  <1> QED BY <1>1, NowFacts, EndsInv

LEMMA PhaseInv == ASSUME Inv, Orient \/ Prototype PROVE Inv'
  <1>1. /\ UNCHANGED files /\ UNCHANGED <<runs, built>> /\ UNCHANGED <<cmd, at, mem, opts>> /\ cmd = "none" /\ at = "none"
        /\ disk' = Moved(disk, "plan") \/ disk' = Moved(disk, "prototype")
        /\ git' \in {git, Pulled(git)}
    BY IdleFacts DEF Orient, Prototype
  <1>3. Good(git')
    BY <1>1, NowFacts, PulledFacts
  <1>2. disk' \in States /\ disk'.item = disk.item /\ disk'.branch = disk.branch /\ disk'.ws = disk.ws
    BY <1>1, NowFacts, MovedFacts
  <1> QED BY <1>1, <1>2, <1>3, NowFacts, QuietInv DEF Elsewhere

\* A step that leaves the archive alone and is not in it, and leaves documents of this cycle.
LEMMA OpenInv ==
  ASSUME Inv, UNCHANGED <<strategy, cycles, since, runs, git, built>>, at' \notin Moving, cmd' = "none" => at' = "none",
         live' \in [Docs -> Nat], frozen' \in [Docs -> Nat], work' \in Nat, texts' \in Nat, texts <= texts',
         \A d \in Docs : Recent(live'[d]) /\ Recent(frozen'[d]), Recent(work'),
         disk' \in States, mem' \in States, opts' \in Opts,
         cmd' # "none" => mem'.item = disk'.item, disk'.item \in {disk.item, "none"},
         disk'.branch # Main, mem'.branch # Main, cmd' = "build" => mem'.run # 0,
         cmd' # "finish" \/ at' \notin {"tree", "branch"},
         "branch" \notin Strategies => Elsewhere(disk') /\ Elsewhere(mem')
  PROVE  Inv'
  <1>1. Typed'
    BY DEF Inv, Typed
  <1>2. Archive' /\ Emptied'
    BY DEF Archive, Emptied, Moving
  <1>3. Current'
    <2>1. since \in Nat /\ texts \in Nat /\ since <= texts
      BY DEF Inv, Typed, Current
    <2>2. since' <= texts'
      BY <2>1
    <2> QED BY <2>2 DEF Current, Recent
  <1>4. CycleStartsClean'
    BY DEF Inv, CycleStartsClean
  <1>5. Repo' /\ Apartness'
    BY DEF Inv, Repo, Apartness, Elsewhere, Shape
  <1> QED BY <1>1, <1>2, <1>3, <1>4, <1>5 DEF Inv

LEMMA DocFacts ==
  ASSUME Inv
  PROVE  /\ live \in [Docs -> Nat] /\ frozen \in [Docs -> Nat] /\ work \in Nat /\ texts \in Nat /\ since \in Nat /\ since <= texts
         /\ \A d \in Docs : Recent(live[d]) /\ Recent(frozen[d])
         /\ Recent(work) /\ Recent(0)
  BY DEF Inv, Typed, Current, Recent

LEMMA WriteFacts ==
  ASSUME Inv, NEW d \in Docs, Write(d)
  PROVE  /\ texts' = texts + 1 /\ texts' \in Nat /\ texts <= texts'
         /\ live' \in [Docs -> Nat] /\ \A x \in Docs : Recent(live'[x])
         /\ live'[d] = texts' /\ \A x \in Docs \ {d} : live'[x] = live[x]
  <1> DEFINE t == texts + 1
  <1>1. live' = [live EXCEPT ![d] = t] /\ texts' = t
    BY DEF Write
  <1>2. t \in Nat /\ texts <= t /\ Recent(t)
    BY DocFacts DEF Recent
  <1> HIDE DEF t
  <1>3. live' \in [Docs -> Nat] /\ live'[d] = t /\ \A x \in Docs \ {d} : live'[x] = live[x]
    BY <1>1, <1>2, DocFacts
  <1>4. \A x \in Docs : Recent(live'[x])
    BY <1>2, <1>3, DocFacts
  <1>5. t = texts + 1
    BY DEF t
  <1> QED BY <1>1, <1>2, <1>3, <1>4, <1>5

LEMMA ClearFacts ==
  ASSUME Inv, NEW d \in Docs, live' = [live EXCEPT ![d] = 0]
  PROVE  live' \in [Docs -> Nat] /\ live'[d] = 0 /\ \A x \in Docs : Recent(live'[x]) /\ (x # d => live'[x] = live[x])
  <1>1. live' \in [Docs -> Nat] /\ live'[d] = 0 /\ \A x \in Docs \ {d} : live'[x] = live[x]
    BY DocFacts
  <1> QED BY <1>1, DocFacts

LEMMA UserDocsInv == ASSUME Inv, Plan \/ LogFinding \/ Hold PROVE Inv'
  <1>1. /\ cmd = "none" /\ at = "none" /\ UNCHANGED <<cmd, at, mem, opts>>
        /\ UNCHANGED <<strategy, cycles, since, runs, git, built, frozen, work>>
    BY IdleFacts DEF Plan, LogFinding, Hold
  <1>2. disk' \in {disk, Moved(disk, "plan")}
    BY DEF Plan, LogFinding, Hold
  <1>3. disk' \in States /\ disk'.item = disk.item /\ disk'.branch = disk.branch /\ disk'.ws = disk.ws
    BY <1>2, NowFacts, MovedFacts
  <1>4. \/ \E d \in Docs : Write(d)
        \/ UNCHANGED <<live, texts>>
        \/ live' = [live EXCEPT !["holdout"] = 0] /\ UNCHANGED texts
    BY DEF Plan, LogFinding, Hold, Docs
  <1>5. "holdout" \in Docs
    BY DEF Docs
  <1>6. texts' \in Nat /\ texts <= texts' /\ live' \in [Docs -> Nat] /\ \A d \in Docs : Recent(live'[d])
    BY <1>4, <1>5, DocFacts, WriteFacts, ClearFacts
  <1>7. \A d \in Docs : Recent(live'[d]) /\ Recent(frozen'[d])
    BY <1>1, <1>6, DocFacts
  <1> QED BY <1>1, <1>3, <1>6, <1>7, DocFacts, NowFacts, OpenInv DEF Elsewhere, Moving

LEMMA CopiedFacts ==
  ASSUME Inv, NEW d \in Docs
  PROVE  Copied(d) \in [Docs -> Nat] /\ \A x \in Docs : Recent(Copied(d)[x])
  <1> DEFINE n == live[d]
             f == [frozen EXCEPT ![d] = n]
  <1>1. n \in Nat /\ Recent(n)
    BY DocFacts
  <1>2. Copied(d) \in {frozen, f}
    BY DEF Copied
  <1> HIDE DEF n
  <1>3. f \in [Docs -> Nat] /\ \A x \in Docs : f[x] \in {n, frozen[x]}
    BY <1>1, DocFacts
  <1> HIDE DEF f
  <1> QED BY <1>1, <1>2, <1>3, DocFacts

LEMMA FreezeInv == ASSUME Inv, Freeze \/ FreezeHoldout \/ FreezeEnter PROVE Inv'
  <1>1. CASE Freeze \/ FreezeHoldout
    <2>1. \/ cmd' = "freeze" /\ at' = "holdout copy" /\ mem' = disk /\ opts' = NoCmd
          \/ at = "holdout copy" /\ at' = "enter" /\ UNCHANGED <<cmd, mem, opts>>
      BY <1>1 DEF Freeze, FreezeHoldout, Begin, Step
    <2>2. /\ UNCHANGED <<strategy, cycles, since, runs, git, built, live, work, texts, disk>>
          /\ frozen' = Copied("plan") \/ frozen' = Copied("holdout")
      BY <1>1 DEF Freeze, FreezeHoldout
    <2>3. frozen' \in [Docs -> Nat] /\ \A d \in Docs : Recent(live'[d]) /\ Recent(frozen'[d])
      BY <2>2, CopiedFacts, DocFacts DEF Docs
    <2>4. at' \notin Moving /\ at' \notin {"tree", "branch", "none"} /\ cmd' # "none"
      BY <2>1, NowFacts DEF Moving
    <2>5. mem' \in States /\ opts' \in Opts /\ mem'.item = disk.item /\ mem'.branch # Main
          /\ (cmd' = "build" => mem'.run # 0) /\ ("branch" \notin Strategies => Elsewhere(mem'))
      BY <2>1, NowFacts, OptsFacts
    <2> QED BY <2>2, <2>3, <2>4, <2>5, DocFacts, NowFacts, OpenInv
  <1>2. CASE FreezeEnter
    <2>1. /\ End /\ UNCHANGED files /\ UNCHANGED <<runs, git, built>> /\ cmd # "none"
          /\ disk' = [mem EXCEPT !.phase = "frozen"]
      BY <1>2 DEF FreezeEnter
    <2>2. disk' \in States /\ disk'.item = mem.item /\ disk'.branch = mem.branch /\ disk'.ws = mem.ws
      BY <2>1, NowFacts, PhaseFacts
    <2> QED BY <2>1, <2>2, NowFacts, EndsInv DEF Elsewhere
  <1> QED BY <1>1, <1>2

-----------------------------------------------------------------------------
(* A build. *)

LEMMA BuildInv == ASSUME Inv, (\E fresh \in BOOLEAN : Build(fresh, FALSE)) \/ Batch PROVE Inv'
  <1>1. PICK fresh \in BOOLEAN, apart \in BOOLEAN : Build(fresh, apart)
    BY DEF Batch
  <1> DEFINE t == Started(disk, fresh)
             o == [NoCmd EXCEPT !.fresh = fresh, !.apart = apart]
  <1>2. t \in States /\ t.run # 0 /\ t.branch = disk.branch /\ t.item \in {disk.item, "none"} /\ t.ws \in {disk.ws, None}
    BY NowFacts, StartedFacts
  <1>3. o \in Opts
    BY OptsFacts
  <1>4. /\ cmd' = "build" /\ at' = "pull" /\ opts' = o /\ mem' = t /\ disk' = t
        /\ runs' \in {runs, runs + 1} /\ built' = (IF disk'.item = "passed" THEN built ELSE Empty)
        /\ UNCHANGED files /\ git' = git
    BY <1>1 DEF Build, Begin, Save
  <1> HIDE DEF t, o
  <1>5. runs' \in Nat /\ Empty \in [Docs -> Nat]
    BY <1>4, NowFacts DEF Empty
  <1>6. built' \in [Docs -> Nat] /\ (disk'.item = "passed" => \A d \in Docs : Recent(built'[d]))
    BY <1>2, <1>4, <1>5, NowFacts
  <1>7. "branch" \notin Strategies => Elsewhere(t)
    BY <1>2, NowFacts, Numbers DEF Elsewhere
  <1> QED BY <1>2, <1>3, <1>4, <1>5, <1>6, <1>7, NowFacts, QuietInv DEF Moving

LEMMA PullInv == ASSUME Inv, BuildPull PROVE Inv'
  <1>1. /\ cmd = "build" /\ cmd' = "build" /\ at' = "workspace" /\ UNCHANGED files /\ UNCHANGED <<opts, runs, disk, mem, built>>
        /\ git' \in {git, Pulled(git)}
    BY DEF BuildPull, Step
  <1>2. Good(git')
    BY <1>1, NowFacts, PulledFacts
  <1> QED BY <1>1, <1>2, NowFacts, QuietInv DEF Moving

\* Where a build works, and on which branch.
LEMMA WorkspaceFacts ==
  ASSUME Good(git), strategy \in Strategies, NEW made \in BOOLEAN, mem.run \in Nat, mem.run # 0, made => mem.run \notin DOMAIN git.tip
  PROVE  LET w == Workspace(made)
         IN /\ Good(w.git) /\ Kept(git, w.git) /\ SameMain(git, w.git)
            /\ w.ws \in Nat /\ w.branch \in Nat /\ w.branch # Main
            /\ "branch" \notin Strategies => w.branch = None \/ w.ws # Root
  <1> DEFINE b == Branched(git, mem.run)
             c == CheckedOut(b, mem.run)
             e == [b EXCEPT !.trees = @ \cup {mem.run}]
             w == Workspace(made)
  <1>1. Kept(git, git) /\ SameMain(git, git) /\ None # Main /\ mem.run # Main /\ strategy \in {"worktree", "branch", "inplace"}
    BY Numbers, StrategyAssumption DEF Kept, SameMain, Main
  <1>2. made => Good(b) /\ Kept(git, b) /\ SameMain(git, b) /\ mem.run \in DOMAIN b.tip
    BY BranchedFacts
  <1>3. made => Good(c) /\ Kept(git, c) /\ SameMain(git, c)
    BY <1>2, CheckedOutFacts DEF Kept, SameMain
  <1>4. made => Good(e) /\ Kept(git, e) /\ SameMain(git, e)
    <2> DEFINE t == b.trees \cup {mem.run}
               ee == [b EXCEPT !.trees = t]
    <2>1. e = ee
      OBVIOUS
    <2> HIDE DEF b, e, t
    <2>2. made => Good(ee) /\ ee.tip = b.tip
      BY <1>2, TreesFacts
    <2> HIDE DEF ee
    <2> QED BY <1>2, <2>1, <2>2 DEF Kept, SameMain, Reachable
  <1>5. w = IF strategy = "branch" THEN [git |-> IF made THEN c ELSE git, ws |-> Root, branch |-> mem.run]
            ELSE IF strategy = "worktree" /\ made THEN [git |-> e, ws |-> mem.run, branch |-> mem.run]
            ELSE [git |-> git, ws |-> Root, branch |-> None]
    <2>1. CASE strategy = "inplace"
      BY <2>1 DEF Workspace
    <2>2. CASE strategy = "branch"
      BY <2>2 DEF Workspace
    <2>3. CASE strategy = "worktree" /\ made
      BY <2>3 DEF Workspace
    <2>4. CASE strategy = "worktree" /\ ~made
      BY <2>4 DEF Workspace
    <2> QED BY <1>1, <2>1, <2>2, <2>3, <2>4
  <1> HIDE DEF b, c, e, w
  <1>6. CASE strategy = "branch"
    <2>1. w.git = (IF made THEN c ELSE git) /\ w.ws = Root /\ w.branch = mem.run
      BY <1>5, <1>6
    <2> QED BY <1>1, <1>3, <1>6, <2>1, Numbers DEF w
  <1>7. CASE strategy = "worktree" /\ made
    <2>1. w.git = e /\ w.ws = mem.run /\ w.branch = mem.run
      BY <1>5, <1>7
    <2> QED BY <1>1, <1>4, <1>7, <2>1, Numbers DEF w
  <1>8. CASE strategy # "branch" /\ ~(strategy = "worktree" /\ made)
    <2>1. w.git = git /\ w.ws = Root /\ w.branch = None
      BY <1>5, <1>8
    <2> QED BY <1>1, <2>1, Numbers DEF w
  <1> QED BY <1>6, <1>7, <1>8

LEMMA WorkspaceStep ==
  ASSUME Inv, BuildWorkspace
  PROVE  /\ Good(git') /\ Kept(git, git') /\ SameMain(git, git')
         /\ mem' \in States /\ mem'.run = mem.run /\ mem'.item = mem.item /\ mem'.branch # Main
         /\ "branch" \notin Strategies => Elsewhere(mem')
  <1>1. Kept(git, git) /\ SameMain(git, git) /\ mem \in States /\ mem.run \in Nat /\ mem.run # 0 /\ strategy \in Strategies
    BY NowFacts DEF Kept, SameMain, BuildWorkspace, Inv, Typed, States
  <1>2. CASE UNCHANGED <<git, mem>>
    BY <1>1, <1>2, NowFacts
  <1>3. CASE mem' = [mem EXCEPT !.ws = Apart] /\ UNCHANGED git
    <2>1. mem' \in States /\ mem'.run = mem.run /\ mem'.item = mem.item /\ mem'.branch = mem.branch /\ mem'.ws = Apart
      BY <1>1, <1>3, Numbers DEF States
    <2> QED BY <1>1, <1>3, <2>1, NowFacts, Numbers DEF Elsewhere
  <1>4. CASE \E made \in BOOLEAN :
               /\ made => mem.run \notin DOMAIN git.tip
               /\ git' = Workspace(made).git
               /\ mem' = [mem EXCEPT !.ws = Workspace(made).ws, !.branch = Workspace(made).branch]
    <2>1. PICK made \in BOOLEAN :
               /\ made => mem.run \notin DOMAIN git.tip
               /\ git' = Workspace(made).git
               /\ mem' = [mem EXCEPT !.ws = Workspace(made).ws, !.branch = Workspace(made).branch]
      BY <1>4
    <2> DEFINE w == Workspace(made)
               x == w.ws
               b == w.branch
    <2>2. /\ Good(w.git) /\ Kept(git, w.git) /\ SameMain(git, w.git)
          /\ x \in Nat /\ b \in Nat /\ b # Main
          /\ "branch" \notin Strategies => b = None \/ x # Root
      BY <1>1, <2>1, NowFacts, WorkspaceFacts
    <2>3. git' = w.git /\ mem' = [mem EXCEPT !.ws = x, !.branch = b]
      BY <2>1
    <2> HIDE DEF w, x, b
    <2>4. mem' \in States /\ mem'.run = mem.run /\ mem'.item = mem.item /\ mem'.branch = b /\ mem'.ws = x
      BY <1>1, <2>2, <2>3 DEF States
    <2> QED BY <2>2, <2>3, <2>4 DEF Elsewhere
  <1> QED BY <1>2, <1>3, <1>4 DEF BuildWorkspace

LEMMA WorkspaceInv == ASSUME Inv, BuildWorkspace PROVE Inv'
  <1>1. /\ cmd = "build" /\ cmd' = "build" /\ at' = "provision" /\ UNCHANGED files /\ UNCHANGED <<opts, runs, disk, built>>
    BY DEF BuildWorkspace, Step
  <1> QED BY <1>1, WorkspaceStep, NowFacts, QuietInv DEF Moving

LEMMA ProvisionInv == ASSUME Inv, BuildProvision PROVE Inv'
  <1>1. /\ cmd = "build" /\ cmd' = "build" /\ at' = "decompose" /\ UNCHANGED files /\ UNCHANGED <<opts, runs, git, built>>
        /\ mem' = mem /\ disk' = mem
    BY DEF BuildProvision, Step, Save
  <1> QED BY <1>1, NowFacts, QuietInv DEF Moving

LEMMA TextsFacts == ASSUME Inv PROVE PlanText \in Nat /\ HoldoutText \in Nat /\ Recent(PlanText) /\ Recent(HoldoutText)
  BY DocFacts DEF PlanText, HoldoutText, Docs

LEMMA DecomposeInv == ASSUME Inv, BuildDecompose PROVE Inv'
  <1> DEFINE h == [mem EXCEPT !.hash = PlanText]
             e == [mem EXCEPT !.hash = PlanText, !.phase = "done"]
  <1>1. PICK w \in Decomposed :
          IF w # 0
          THEN work' = w /\ Step("decompose", "item") /\ Save(h)
          ELSE End /\ disk' = e /\ UNCHANGED work
    BY DEF BuildDecompose
  <1>2. w \in Nat /\ Recent(w)
    BY TextsFacts, DocFacts DEF Decomposed
  <1>3. cmd = "build" /\ at = "decompose" /\ UNCHANGED <<strategy, upstream, live, frozen, cycles, texts, since, runs, git, built>>
    BY DEF BuildDecompose
  <1>4. /\ h \in States /\ h.run = mem.run /\ h.item = mem.item /\ h.branch = mem.branch /\ h.ws = mem.ws
        /\ e \in States /\ e.item = mem.item /\ e.branch = mem.branch /\ e.ws = mem.ws
    <2>1. h \in States /\ h.run = mem.run /\ h.item = mem.item /\ h.branch = mem.branch /\ h.ws = mem.ws
      BY NowFacts, TextsFacts, HashFacts
    <2>2. e = [h EXCEPT !.phase = "done"]
      BY NowFacts DEF States
    <2> HIDE DEF h, e
    <2>3. e \in States /\ e.item = h.item /\ e.branch = h.branch /\ e.ws = h.ws
      BY <2>1, <2>2, PhaseFacts
    <2> QED BY <2>1, <2>3
  <1> HIDE DEF h, e
  <1>5. CASE w # 0
    <2>1. work' = w /\ at' = "item" /\ UNCHANGED <<cmd, opts>> /\ mem' = h /\ disk' = h
      BY <1>1, <1>5 DEF Step, Save
    <2> QED BY <1>2, <1>3, <1>4, <2>1, NowFacts, DocFacts, OpenInv DEF Moving, Elsewhere
  <1>6. CASE w = 0
    <2>1. End /\ disk' = e /\ UNCHANGED work
      BY <1>1, <1>6
    <2> QED BY <1>3, <1>4, <2>1, NowFacts, EndsInv DEF Elsewhere, files
  <1> QED BY <1>2, <1>5, <1>6

LEMMA ItemInv == ASSUME Inv, BuildItem PROVE Inv'
  <1>1. /\ cmd = "build" /\ cmd' = "build" /\ at' \in {"done", "judge"} /\ UNCHANGED files /\ UNCHANGED <<opts, runs, built>>
    BY DEF BuildItem, Step
  <1>2. CASE UNCHANGED <<strategy, disk, mem, git>>
    BY <1>1, <1>2, NowFacts, QuietInv DEF Moving
  <1>3. CASE Save([mem EXCEPT !.item = "building"]) /\ git' = [git EXCEPT !.dirty = @ \cup ({mem.ws} \ {Apart})]
    <2> DEFINE t == [mem EXCEPT !.item = "building"]
    <2>1. t \in States /\ t.run = mem.run /\ t.item = "building" /\ t.branch = mem.branch /\ t.ws = mem.ws
      BY NowFacts, ItemFacts
    <2>2. mem' = t /\ disk' = t
      BY <1>3 DEF Save
    <2> HIDE DEF t
    <2>3. Good(git')
      BY <1>3, NowFacts, TreesFacts
    <2> QED BY <1>1, <2>1, <2>2, <2>3, NowFacts, QuietInv DEF Moving, Elsewhere
  <1> QED BY <1>2, <1>3 DEF BuildItem

LEMMA JudgeInv == ASSUME Inv, BuildFails PROVE Inv'
  <1>1. /\ cmd = "build" /\ cmd' = "build" /\ at' = "done" /\ UNCHANGED files /\ UNCHANGED <<opts, runs, git, built>>
    BY DEF BuildFails, Step
  <1>2. PICK x \in {"failed", "abandoned"} : mem' = [mem EXCEPT !.item = x] /\ disk' = [mem EXCEPT !.item = x]
    BY DEF BuildFails, Save
  <1>3. disk' \in States /\ disk'.run = mem.run /\ disk'.item = x /\ disk'.branch = mem.branch /\ disk'.ws = mem.ws
    <2> DEFINE t == [mem EXCEPT !.item = x]
    <2>1. t \in States /\ t.run = mem.run /\ t.item = x /\ t.branch = mem.branch /\ t.ws = mem.ws
      <3>1. mem \in States /\ x \in {"building", "passed", "failed", "abandoned"}
        BY <1>2, NowFacts
      <3> QED BY <3>1 DEF States
    <2>2. disk' = t
      BY <1>2
    <2> HIDE DEF t
    <2> QED BY <2>1, <2>2
  <1> QED BY <1>1, <1>2, <1>3, NowFacts, QuietInv DEF Moving, Elsewhere

LEMMA PassesStep == 
  ASSUME Inv, BuildPasses
  PROVE  Good(git') /\ Kept(git, git') /\ ("branch" \notin Strategies => SameMain(git, git'))
  <1>1. CASE git' = git
    BY <1>1, NowFacts DEF Kept, SameMain
  <1>2. CASE Commits /\ git' = Committed(git, mem.ws)
    <2>1. /\ Good(git') /\ Kept(git, git') /\ (HeadOf(mem.ws) # Main => SameMain(git, git'))
      BY <1>2, NowFacts, CommittedFacts
    <2>2. "branch" \notin Strategies => HeadOf(mem.ws) # Main
      BY <1>2, NowFacts, Numbers DEF Commits, Elsewhere, HeadOf
    <2> QED BY <2>1, <2>2
  <1> QED BY <1>1, <1>2 DEF BuildPasses

LEMMA PassesInv == ASSUME Inv, BuildPasses PROVE Inv'
  <1>1. /\ cmd = "build" /\ cmd' = "build" /\ at' = "done" /\ UNCHANGED files /\ UNCHANGED <<opts, runs>>
        /\ mem' = [mem EXCEPT !.item = "passed"] /\ disk' = [mem EXCEPT !.item = "passed"]
        /\ built' = [d \in Docs |-> IF d = "plan" THEN work ELSE HoldoutText]
    BY DEF BuildPasses, Step, Save
  <1>2. disk' \in States /\ disk'.run = mem.run /\ disk'.item = "passed" /\ disk'.branch = mem.branch /\ disk'.ws = mem.ws
    BY <1>1, NowFacts, ItemFacts
  <1>3. built' \in [Docs -> Nat] /\ \A d \in Docs : Recent(built'[d])
    BY <1>1, DocFacts, TextsFacts
  <1> QED BY <1>1, <1>2, <1>3, PassesStep, NowFacts, QuietInv DEF Moving, Elsewhere

LEMMA StopInv == ASSUME Inv, BuildThrows \/ BuildStops \/ BuildDone PROVE Inv'
  <1>1. /\ cmd = "build" /\ End /\ UNCHANGED files /\ UNCHANGED <<runs, git, built>>
        /\ disk' = disk \/ disk' = [mem EXCEPT !.phase = "done"]
    BY DEF BuildThrows, BuildStops, BuildDone
  <1>2. disk' \in States /\ disk'.item = disk.item /\ disk'.branch # Main /\ ("branch" \notin Strategies => Elsewhere(disk'))
    BY <1>1, NowFacts, PhaseFacts DEF Elsewhere
  <1> QED BY <1>1, <1>2, EndsInv

-----------------------------------------------------------------------------
(* finish. *)

LEMMA TargetFacts ==
  ASSUME Inv, NEW named \in {None} \cup (1..MaxRuns) PROVE Target(named) \in Nat /\ Target(named) # Main
  <1>1. /\ disk.branch \in Nat /\ disk.branch # Main /\ git.head \in Nat /\ named \in Nat /\ named # Main
    BY NowFacts, Numbers, BoundsAssumption DEF States, Good, Main
  <1> QED BY <1>1, Numbers DEF Target

LEMMA ClosingFacts ==
  ASSUME Inv, NEW named \in {None} \cup (1..MaxRuns), NEW to \in {"tree", "mkdir"}, NEW force \in BOOLEAN, Closing(named, to, force)
  PROVE  /\ cmd' = "finish" /\ at' = to /\ mem' = disk /\ UNCHANGED files /\ UNCHANGED <<runs, disk, built>>
         /\ opts' \in Opts /\ opts'.target # Main
  <1> DEFINE t == Target(named)
  <1>1. t \in Nat /\ t # Main
    BY TargetFacts
  <1>2. /\ cmd' = "finish" /\ at' = to /\ mem' = disk /\ UNCHANGED files /\ UNCHANGED <<runs, disk, built>>
        /\ opts' = [NoCmd EXCEPT !.target = t, !.force = force]
    BY DEF Closing, Begin
  <1> HIDE DEF t
  <1>3. opts' \in Opts /\ opts'.target = t
    BY <1>1, <1>2, OptsFacts
  <1> QED BY <1>1, <1>2, <1>3

LEMMA MergeStep ==
  ASSUME Inv, NEW named \in {None} \cup (1..MaxRuns), NEW force \in BOOLEAN, FinishMerge(named, force)
  PROVE  Good(git') /\ Kept(git, git') /\ git.tip[Main] \subseteq git'.tip[Main] /\ cmd' = "finish"
  <1> DEFINE b == Target(named)
  <1>1. b \in DOMAIN git.tip /\ git.tip[Main] \subseteq git.tip[b] /\ git' = MergedInto(git, b) /\ cmd' = "finish"
    BY DEF FinishMerge, MayMerge, Within, Closing, Begin
  <1> HIDE DEF b
  <1> QED BY <1>1, NowFacts, MergedFacts

LEMMA ClosingInv ==
  ASSUME Inv,
         \/ \E named \in {None} \cup (1..MaxRuns), force \in BOOLEAN : FinishMerge(named, force) \/ FinishTeardown(named, force)
         \/ FinishArchive
  PROVE  Inv'
  <1>1. CASE \E named \in {None} \cup (1..MaxRuns), force \in BOOLEAN : FinishMerge(named, force) \/ FinishTeardown(named, force)
    <2>1. PICK named \in {None} \cup (1..MaxRuns), force \in BOOLEAN : FinishMerge(named, force) \/ FinishTeardown(named, force)
      BY <1>1
    <2>2. Closing(named, "tree", force)
      BY <2>1 DEF FinishMerge, FinishTeardown
    <2>3. Good(git')
      BY <2>1, MergeStep, NowFacts DEF FinishTeardown
    <2>4. /\ cmd' = "finish" /\ at' = "tree" /\ mem' = disk /\ UNCHANGED files /\ UNCHANGED <<runs, disk, built>>
          /\ opts' \in Opts /\ opts'.target # Main
      BY <2>1, <2>2, ClosingFacts
    <2> QED BY <2>3, <2>4, NowFacts, QuietInv DEF Moving
  <1>2. CASE FinishArchive
    <2>1. Closing(None, "mkdir", FALSE) /\ git' = git
      BY <1>2 DEF FinishArchive
    <2>2. /\ cmd' = "finish" /\ at' = "mkdir" /\ mem' = disk /\ UNCHANGED files /\ UNCHANGED <<runs, disk, built>>
          /\ opts' \in Opts /\ opts'.target # Main
      BY <2>1, ClosingFacts
    <2> QED BY <2>1, <2>2, NowFacts, QuietInv DEF Moving
  <1> QED BY <1>1, <1>2

LEMMA TreeStep == ASSUME Inv, FinishTree PROVE Good(git') /\ Kept(git, git') /\ SameMain(git, git')
  <1> DEFINE dir == Separate(opts.target)
  <1>1. \/ git' = git \/ git' = CheckedOut(git, Main) \/ git' = [git EXCEPT !.trees = @ \ {dir}]
    BY DEF FinishTree
  <1> HIDE DEF dir
  <1>2. CASE git' = git
    BY <1>2, NowFacts, SameTipFacts
  <1>3. CASE git' = CheckedOut(git, Main)
    BY <1>3, NowFacts, CheckedOutFacts DEF Good
  <1>4. CASE git' = [git EXCEPT !.trees = @ \ {dir}]
    BY <1>4, NowFacts, TreesFacts, SameTipFacts
  <1> QED BY <1>1, <1>2, <1>3, <1>4

LEMMA BranchStep ==
  ASSUME Inv, FinishBranch PROVE Good(git') /\ SameMain(git, git') /\ (~opts.force => Kept(git, git'))
  <1>1. git' = Deleted(git, opts.target, opts.force) /\ opts.target # Main /\ opts.force \in BOOLEAN
    BY NowFacts DEF FinishBranch, ToArchive, Inv, Repo, Opts
  <1> QED BY <1>1, NowFacts, DeletedFacts

LEMMA TeardownInv == ASSUME Inv, FinishTree \/ FinishBranch \/ FinishClear PROVE Inv'
  <1>1. /\ cmd = "finish" /\ cmd' = "finish" /\ at \in {"tree", "branch", "clear"} /\ at' \in {"branch", "clear", "mkdir"}
        /\ (at' = "branch" => at = "tree" /\ opts' = opts) /\ opts' \in {opts, NoCmd}
        /\ UNCHANGED files /\ UNCHANGED <<runs, built>>
    BY DEF FinishTree, FinishBranch, FinishClear, Step, ToArchive
  <1>2. opts' \in Opts /\ (at' = "branch" => opts'.target # Main)
    BY <1>1, NowFacts, OptsFacts DEF Inv, Repo
  <1>3. CASE FinishTree \/ FinishBranch
    <2>1. UNCHANGED <<disk, mem>> /\ Good(git')
      BY <1>3, TreeStep, BranchStep DEF FinishTree, FinishBranch
    <2> QED BY <1>1, <1>2, <2>1, NowFacts, QuietInv DEF Moving
  <1>4. CASE FinishClear
    <2>1. /\ git' = git /\ mem' = [mem EXCEPT !.branch = None, !.ws = None] /\ disk' = mem'
      BY <1>4 DEF FinishClear, Save
    <2>2. mem' \in States /\ mem'.item = mem.item /\ mem'.branch = None
      BY <2>1, NowFacts, Numbers DEF States
    <2> QED BY <1>1, <1>2, <2>1, <2>2, NowFacts, Numbers, QuietInv DEF Moving, Elsewhere
  <1> QED BY <1>3, <1>4

-----------------------------------------------------------------------------
(* The archive. *)

Pieces == {"plan", "holdout", "work"}

LEMMA PutFacts ==
  ASSUME cycles \in Seq(Dirs), cycles # <<>>, NEW piece \in Pieces, NEW text \in Nat, Put(piece, text)
  PROVE  /\ cycles' \in Seq(Dirs) /\ Len(cycles') = Len(cycles) /\ cycles' # <<>>
         /\ \A j \in DOMAIN cycles, p \in Pieces :
              j # Len(cycles) \/ p # piece => cycles'[j][p] = cycles[j][p]
  <1> DEFINE n == Len(cycles)
             d == [cycles[n] EXCEPT ![piece] = text]
  <1>1. n \in DOMAIN cycles /\ n \in Nat /\ cycles[n] \in Dirs
    OBVIOUS
  <1>2. d \in Dirs /\ \A p \in Pieces : p # piece => d[p] = cycles[n][p]
    BY <1>1 DEF Dirs, Pieces
  <1>3. cycles' = [cycles EXCEPT ![n] = d]
    BY DEF Put
  <1> HIDE DEF d, n
  <1>4. /\ cycles' \in Seq(Dirs) /\ Len(cycles') = Len(cycles) /\ cycles' # <<>>
        /\ \A j \in DOMAIN cycles : cycles'[j] = (IF j = n THEN d ELSE cycles[j])
    BY <1>1, <1>2, <1>3
  <1> QED BY <1>2, <1>4 DEF n

\* A step within the archive.
LEMMA SortInv ==
  ASSUME Inv, UNCHANGED <<strategy, disk, git, built, runs, since, opts, mem, cmd>>, at # "none", at' \in Moving,
         cycles' \in Seq(Dirs), live' \in [Docs -> Nat], frozen' \in [Docs -> Nat], work' \in Nat,
         texts' \in Nat, texts <= texts',
         \A d \in Docs : Recent(live'[d]) /\ Recent(frozen'[d]), Recent(work'), Archive', Emptied'
  PROVE  Inv'
  <1>1. cmd # "none"
    BY DEF Inv, Typed
  <1>2. Typed'
    BY <1>1 DEF Inv, Typed
  <1>3. Current'
    <2>1. since' <= texts'
      BY DocFacts
    <2> QED BY <2>1 DEF Inv, Current, Recent
  <1>4. CycleStartsClean'
    BY DEF Inv, CycleStartsClean
  <1>5. Repo' /\ Apartness'
    BY DEF Inv, Repo, Apartness, Elsewhere, Shape, Moving
  <1> QED BY <1>2, <1>3, <1>4, <1>5 DEF Inv

LEMMA DirFacts ==
  ASSUME cycles \in Seq(Dirs), Dir
  PROVE  /\ cycles' \in Seq(Dirs) /\ cycles' # <<>>
         /\ \A p \in Pieces : cycles'[Len(cycles')][p] = 0
         /\ \A j \in DOMAIN cycles : cycles'[j] = cycles[j]
  <1>1. NewDir \in Dirs /\ \A p \in Pieces : NewDir[p] = 0
    BY DEF NewDir, Dirs, Pieces
  <1>2. cycles' = Append(cycles, NewDir)
    BY DEF Dir, NextNumber
  <1> HIDE DEF NewDir
  <1> QED BY <1>1, <1>2

LEMMA NewInv == ASSUME Inv, New PROVE Inv'
  <1>1. /\ cmd' = "new" /\ at' = "plan" /\ opts' = NoCmd /\ mem' = disk /\ Dir
        /\ UNCHANGED <<strategy, disk, live, frozen, work, git, texts, runs, built, since>>
    BY DEF New, Begin
  <1>2. cycles' \in Seq(Dirs) /\ cycles' # <<>> /\ \A p \in Pieces : cycles'[Len(cycles')][p] = 0
    BY <1>1, DirFacts DEF Inv, Typed
  <1>3. Typed'
    BY <1>1, <1>2, OptsFacts DEF Inv, Typed
  <1>4. Archive' /\ Emptied'
    BY <1>1, <1>2 DEF Archive, Emptied, Pieces
  <1>5. Current' /\ CycleStartsClean'
    BY <1>1 DEF Inv, Current, Recent, CycleStartsClean
  <1>6. Repo' /\ Apartness'
    BY <1>1 DEF Inv, Repo, Apartness, Elsewhere, Shape
  <1> QED BY <1>3, <1>4, <1>5, <1>6 DEF Inv

LEMMA MkdirInv == ASSUME Inv, Mkdir PROVE Inv'
  <1>1. /\ at = "mkdir" /\ at' = "plan" /\ Dir
        /\ UNCHANGED <<strategy, disk, git, built, runs, since, opts, mem, cmd, live, frozen, work, texts>>
    BY DEF Mkdir, Step
  <1>2. cycles' \in Seq(Dirs) /\ cycles' # <<>> /\ \A p \in Pieces : cycles'[Len(cycles')][p] = 0
    BY <1>1, DirFacts DEF Inv, Typed
  <1>3. Archive' /\ Emptied'
    BY <1>1, <1>2 DEF Archive, Emptied, Pieces
  <1> QED BY <1>1, <1>2, <1>3, DocFacts, SortInv DEF Moving

LEMMA MoveDocInv == ASSUME Inv, MoveDoc("plan", "holdout") \/ MoveDoc("holdout", "frozen") PROVE Inv'
  <1>1. PICK d \in Docs, to \in {"holdout", "frozen"} : MoveDoc(d, to) /\ (d = "plan" <=> to = "holdout")
    BY DEF Docs
  <1>2. /\ at = d /\ at' = to
        /\ UNCHANGED <<strategy, disk, git, built, runs, since, opts, mem, cmd, frozen, work, texts>>
        /\ IF live[d] = 0 THEN UNCHANGED <<cycles, live>>
           ELSE Put(d, live[d]) /\ live' = [live EXCEPT ![d] = 0]
    BY <1>1 DEF MoveDoc, Step
  <1>3. /\ live' \in [Docs -> Nat] /\ live'[d] = 0 /\ \A x \in Docs : Recent(live'[x])
    BY <1>2, DocFacts, ClearFacts
  <1>4. cycles \in Seq(Dirs) /\ cycles # <<>> /\ d \in Pieces /\ live[d] \in Nat /\ Len(cycles) \in DOMAIN cycles
    BY <1>1, <1>2, DocFacts DEF Inv, Typed, Archive, Docs, Pieces
  <1>5. /\ cycles' \in Seq(Dirs) /\ cycles' # <<>> /\ Len(cycles') = Len(cycles)
        /\ \A p \in Pieces : p # d => cycles'[Len(cycles)][p] = cycles[Len(cycles)][p]
    BY <1>2, <1>4, PutFacts
  <1>6. Archive'
    BY <1>1, <1>2, <1>5 DEF Inv, Archive, Docs, Pieces
  <1>7. Emptied'
    BY <1>1, <1>2, <1>3 DEF Emptied, Docs
  <1>8. \A x \in Docs : Recent(live'[x]) /\ Recent(frozen'[x])
    BY <1>2, <1>3, DocFacts
  <1>9. at # "none" /\ at' \in Moving /\ UNCHANGED <<strategy, disk, git, built, runs, since, opts, mem, cmd>>
    BY <1>1, <1>2 DEF Moving, Docs
  <1>10. frozen' \in [Docs -> Nat] /\ work' \in Nat /\ Recent(work') /\ texts' \in Nat /\ texts <= texts'
    BY <1>2, DocFacts
  <1> QED BY <1>3, <1>5, <1>6, <1>7, <1>8, <1>9, <1>10, SortInv

LEMMA MoveFrozenInv == ASSUME Inv, MoveFrozen PROVE Inv'
  <1>1. /\ at = "frozen" /\ at' = "work" /\ frozen' = Empty
        /\ UNCHANGED <<strategy, disk, git, built, runs, since, opts, mem, cmd, live, work, texts, cycles>>
    BY DEF MoveFrozen, Step
  <1>2. frozen' \in [Docs -> Nat] /\ \A d \in Docs : frozen'[d] = 0
    BY <1>1 DEF Empty
  <1>3. Archive' /\ Emptied'
    BY <1>1 DEF Inv, Archive, Emptied
  <1>4. cycles' \in Seq(Dirs)
    BY <1>1 DEF Inv, Typed
  <1> QED BY <1>1, <1>2, <1>3, <1>4, DocFacts, SortInv DEF Moving

LEMMA MoveWorkInv == ASSUME Inv, MoveWork PROVE Inv'
  <1>1. /\ at = "work" /\ at' = "manifest" /\ work' = 0 /\ Put("work", work)
        /\ UNCHANGED <<strategy, disk, git, built, runs, since, opts, mem, cmd, live, frozen, texts>>
    BY DEF MoveWork, Step, WorkLeft
  <1>2. cycles \in Seq(Dirs) /\ cycles # <<>> /\ "work" \in Pieces /\ work \in Nat
    BY <1>1, DocFacts DEF Inv, Typed, Archive, Pieces
  <1>3. cycles' \in Seq(Dirs) /\ cycles' # <<>>
    BY <1>1, <1>2, PutFacts
  <1>4. Archive' /\ Emptied'
    BY <1>1, <1>3 DEF Inv, Archive, Emptied
  <1> QED BY <1>1, <1>3, <1>4, DocFacts, SortInv DEF Moving

LEMMA SetFacts ==
  ASSUME NEW c \in Seq(Dirs), NEW n \in DOMAIN c, NEW d \in Dirs
  PROVE  /\ [c EXCEPT ![n] = d] \in Seq(Dirs) /\ [c EXCEPT ![n] = d] # <<>>
         /\ \A j \in DOMAIN c : [c EXCEPT ![n] = d][j] = (IF j = n THEN d ELSE c[j])
  OBVIOUS

LEMMA WholeFacts ==
  ASSUME cycles \in Seq(Dirs), cycles # <<>>, cycles' = [cycles EXCEPT ![Len(cycles)].whole = TRUE]
  PROVE  cycles' \in Seq(Dirs) /\ cycles' # <<>> /\ \A j \in DOMAIN cycles, p \in Pieces : cycles'[j][p] = cycles[j][p]
  <1> DEFINE n == Len(cycles)
             d == [cycles[n] EXCEPT !.whole = TRUE]
  <1>1. n \in DOMAIN cycles /\ n \in Nat /\ cycles[n] \in Dirs
    OBVIOUS
  <1>2. d \in Dirs /\ \A p \in Pieces : d[p] = cycles[n][p]
    BY <1>1 DEF Dirs, Pieces
  <1> DEFINE e == [cycles EXCEPT ![n] = d]
  <1>3. cycles' = e
    OBVIOUS
  <1> HIDE DEF d, n
  <1>4. e \in Seq(Dirs) /\ e # <<>> /\ \A j \in DOMAIN cycles : e[j] = (IF j = n THEN d ELSE cycles[j])
    BY <1>1, <1>2, SetFacts
  <1> HIDE DEF e
  <1> QED BY <1>2, <1>3, <1>4

LEMMA ManifestInv == ASSUME Inv, Manifest PROVE Inv'
  <1>1. /\ at = "manifest" /\ cycles' = [cycles EXCEPT ![Len(cycles)].whole = TRUE]
        /\ UNCHANGED <<strategy, disk, live, frozen, work, git, texts, runs, built, since>>
        /\ \/ at' = "fresh plan" /\ UNCHANGED <<cmd, opts, mem>>
           \/ End
    BY DEF Manifest, Step
  <1>2. cycles' \in Seq(Dirs)
    BY <1>1, WholeFacts DEF Inv, Typed, Archive
  <1>3. CASE at' = "fresh plan" /\ UNCHANGED <<cmd, opts, mem>>
    <2>1. Archive' /\ Emptied'
      BY <1>1, <1>3 DEF Inv, Archive, Emptied
    <2>2. at # "none" /\ at' \in Moving
      BY <1>1, <1>3 DEF Moving
    <2>3. UNCHANGED <<strategy, disk, git, built, runs, since, opts, mem, cmd>> /\ UNCHANGED <<live, frozen, work, texts>>
      BY <1>1, <1>3
    <2> QED BY <1>2, <2>1, <2>2, <2>3, DocFacts, SortInv
  <1>4. CASE End
    <2>1. cmd' = "none" /\ at' = "none" /\ mem' \in States /\ opts' \in Opts /\ mem'.branch # Main /\ Elsewhere(mem')
      BY <1>4, EndFacts
    <2>2. Typed'
      BY <1>1, <1>2, <2>1 DEF Inv, Typed
    <2>3. Archive' /\ Emptied'
      BY <2>1 DEF Archive, Emptied
    <2>4. Current' /\ CycleStartsClean'
      BY <1>1, <2>1 DEF Inv, Current, Recent, CycleStartsClean
    <2>5. Repo' /\ Apartness'
      BY <1>1, <2>1 DEF Inv, Repo, Apartness, Elsewhere, Shape
    <2> QED BY <2>2, <2>3, <2>4, <2>5 DEF Inv
  <1> QED BY <1>1, <1>3, <1>4

LEMMA FreshPlanInv == ASSUME Inv, FreshPlan PROVE Inv'
  <1>1. /\ at = "fresh plan" /\ at' = "reset" /\ Write("plan")
        /\ UNCHANGED <<strategy, disk, git, built, runs, since, opts, mem, cmd, frozen, work, cycles>>
    BY DEF FreshPlan, Step
  <1>2. /\ texts' \in Nat /\ texts <= texts' /\ live' \in [Docs -> Nat] /\ (\A x \in Docs : Recent(live'[x]))
        /\ live'["plan"] = texts' /\ live'["holdout"] = live["holdout"]
    BY <1>1, WriteFacts DEF Docs
  <1>3. Archive' /\ Emptied'
    BY <1>1, <1>2 DEF Inv, Archive, Emptied
  <1>4. cycles' \in Seq(Dirs) /\ \A d \in Docs : Recent(live'[d]) /\ Recent(frozen'[d])
    BY <1>1, <1>2, DocFacts DEF Inv, Typed
  <1> QED BY <1>1, <1>2, <1>3, <1>4, DocFacts, SortInv DEF Moving

LEMMA ResetInv == ASSUME Inv, Reset PROVE Inv'
  <1>1. /\ at = "reset" /\ End /\ disk' = Fresh("plan") /\ since' = live["plan"] /\ built' = Empty
        /\ UNCHANGED <<strategy, live, frozen, work, cycles, git, texts, runs>>
    BY DEF Reset
  <1>2. cmd' = "none" /\ at' = "none" /\ mem' \in States /\ opts' \in Opts /\ mem'.branch # Main /\ Elsewhere(mem')
    BY <1>1, EndFacts
  <1>3. live["holdout"] = 0 /\ frozen = Empty /\ work = 0 /\ live["plan"] = texts
    BY <1>1 DEF Inv, Emptied
  <1>4. disk' \in States /\ disk'.item = "none" /\ disk'.branch # Main /\ Elsewhere(disk')
    BY <1>1, FreshFacts, Numbers DEF Elsewhere
  <1>5. Empty \in [Docs -> Nat] /\ \A d \in Docs : Empty[d] = 0
    BY DEF Empty
  <1>6. Typed'
    BY <1>1, <1>2, <1>3, <1>4, <1>5 DEF Inv, Typed
  <1>7. Archive' /\ Emptied'
    BY <1>2 DEF Archive, Emptied
  <1>8. Current'
    <2>1. since' = texts' /\ texts' \in Nat
      BY <1>1, <1>3, DocFacts
    <2>2. \A d \in Docs : (live'[d] = 0 \/ live'[d] >= since') /\ frozen'[d] = 0
      BY <1>1, <1>3, <1>5, <2>1 DEF Docs
    <2> QED BY <1>1, <1>2, <1>3, <2>1, <2>2 DEF Current, Recent
  <1>9. CycleStartsClean'
    BY <1>4 DEF CycleStartsClean
  <1>10. Repo' /\ Apartness'
    BY <1>1, <1>2, <1>4 DEF Inv, Repo, Apartness, Elsewhere, Shape
  <1> QED BY <1>6, <1>7, <1>8, <1>9, <1>10 DEF Inv

-----------------------------------------------------------------------------
(* The whole. *)

LEMMA InitInv == Init => Inv
  <1> SUFFICES ASSUME Init PROVE Inv
    OBVIOUS
  <1>1. disk = Fresh("orient") \/ disk = Fresh("plan")
    BY DEF Init
  <1>2. disk \in States /\ disk.item = "none" /\ disk.branch = None /\ disk.ws = None
    BY <1>1, FreshFacts
  <1>3. mem \in States /\ mem.branch = None /\ mem.ws = None /\ opts \in Opts
    BY FreshFacts, OptsFacts DEF Init
  <1>4. Empty \in [Docs -> Nat] /\ \A d \in Docs : Empty[d] = 0
    BY DEF Empty
  <1>5. live \in [Docs -> Nat] /\ \A d \in Docs : live[d] \in {0, 1}
    BY <1>4 DEF Init, Docs, Empty
  <1>6. Typed
    BY <1>2, <1>3, <1>4, <1>5 DEF Init, Typed
  <1>7. Archive /\ Emptied
    BY DEF Init, Archive, Emptied
  <1>8. Current /\ CycleStartsClean
    BY <1>2, <1>4, <1>5 DEF Init, Current, Recent, CycleStartsClean
  <1>9. Repo
    <2>1. git = [tip |-> [b \in {Main} |-> {}], head |-> Main, trees |-> {}, dirty |-> {}, made |-> 0] /\ cmd = "none"
      BY DEF Init
    <2>2. Shape(git) /\ DOMAIN git.tip = {Main} /\ git.head = Main
      BY <2>1 DEF Shape
    <2> QED BY <1>2, <1>3, <2>1, <2>2, Numbers DEF Repo
  <1>10. Apartness
    BY <1>2, <1>3 DEF Apartness, Elsewhere
  <1> QED BY <1>6, <1>7, <1>8, <1>9, <1>10 DEF Inv

LEMMA NextInv == Inv /\ [Next]_vars => Inv'
  <1> SUFFICES ASSUME Inv, [Next]_vars PROVE Inv'
    OBVIOUS
  <1>1. CASE Plan \/ LogFinding \/ Orient \/ Prototype \/ Hold
    BY <1>1, UserDocsInv, PhaseInv
  <1>2. CASE (\E dir \in 0..MaxRuns : UserCommit(dir)) \/ UserStash \/ (\E b \in 0..MaxRuns : UserCheckout(b))
            \/ Push
    BY <1>2, UserGitInv, PushInv
  <1>3. CASE Freeze \/ FreezeHoldout \/ FreezeEnter
    BY <1>3, FreezeInv
  <1>4. CASE (\E fresh \in BOOLEAN : Build(fresh, FALSE)) \/ Batch \/ BuildPull \/ BuildWorkspace \/ BuildProvision \/ BuildDecompose
    BY <1>4, BuildInv, PullInv, WorkspaceInv, ProvisionInv, DecomposeInv
  <1>5. CASE BuildItem \/ BuildThrows \/ BuildPasses \/ BuildFails \/ BuildStops \/ BuildDone
    BY <1>5, ItemInv, StopInv, PassesInv, JudgeInv
  <1>6. CASE \/ \E named \in {None} \cup (1..MaxRuns), force \in BOOLEAN : FinishMerge(named, force) \/ FinishTeardown(named, force)
             \/ FinishArchive
    BY <1>6, ClosingInv
  <1>7. CASE FinishTree \/ FinishBranch \/ FinishClear
    BY <1>7, TeardownInv
  <1>8. CASE New \/ Mkdir \/ MoveDoc("plan", "holdout") \/ MoveDoc("holdout", "frozen")
    BY <1>8, NewInv, MkdirInv, MoveDocInv
  <1>9. CASE MoveFrozen \/ MoveWork \/ Manifest \/ FreshPlan \/ Reset
    BY <1>9, MoveFrozenInv, MoveWorkInv, ManifestInv, FreshPlanInv, ResetInv
  <1>10. CASE (\E force \in BOOLEAN : Clean(force)) \/ Kill
    BY <1>10, CleanInv, KillInv
  <1>11. CASE UNCHANGED vars
    <2>1. UNCHANGED files /\ UNCHANGED <<disk, git, cmd, at, mem, opts, runs, built>>
      BY <1>11 DEF vars, files
    <2> QED BY <2>1, GitInv, NowFacts
  <1> QED BY <1>1, <1>2, <1>3, <1>4, <1>5, <1>6, <1>7, <1>8, <1>9, <1>10, <1>11 DEF Next

\* So it holds always.
LEMMA Invariance == Spec => []Inv
  <1> QED BY InitInv, NextInv, PTL DEF Spec

\* The steps that change the repository, and those that change the archive.
LEMMA GitSteps ==
  ASSUME Next
  PROVE  \/ git' = git \/ Idle \/ Push \/ BuildPull \/ BuildWorkspace \/ BuildPasses \/ BuildItem
         \/ \E named \in {None} \cup (1..MaxRuns), force \in BOOLEAN : FinishMerge(named, force)
         \/ FinishTree \/ FinishBranch \/ \E force \in BOOLEAN : Clean(force)
  BY DEF Next, Plan, LogFinding, Orient, Prototype, Hold, UserCommit, UserStash, UserCheckout, Freeze, FreezeHoldout,
         FreezeEnter, Build, Batch, BuildProvision, BuildDecompose, BuildThrows, BuildFails, BuildStops, BuildDone,
         FinishTeardown, FinishArchive, FinishClear, New, Mkdir, MoveDoc, MoveFrozen, MoveWork, Manifest, FreshPlan,
         Reset, Kill

LEMMA UserSteps ==
  ASSUME Inv, Next, Idle
  PROVE  git' = git \/ Prototype \/ Push \/ (\E dir \in 0..MaxRuns : UserCommit(dir)) \/ UserStash \/ (\E b \in 0..MaxRuns : UserCheckout(b))
         \/ \E force \in BOOLEAN : Clean(force)
  <1>1. cmd = "none" /\ at = "none" /\ cmd' = "none"
    BY IdleFacts
  <1>2. ~BuildPull /\ ~BuildWorkspace /\ ~BuildPasses /\ ~BuildItem /\ ~FinishTree /\ ~FinishBranch
        /\ \A named, force : ~FinishMerge(named, force)
    BY <1>1 DEF BuildPull, BuildWorkspace, BuildPasses, BuildItem, FinishTree, FinishBranch, FinishMerge, Closing, Begin
  <1> QED BY <1>1, <1>2
          DEF Next, Plan, LogFinding, Orient, Hold, Freeze, FreezeHoldout,
              FreezeEnter, Build, Batch, BuildProvision, BuildDecompose, BuildThrows, BuildFails, BuildStops, BuildDone,
              FinishTeardown, FinishArchive, FinishClear, New, Mkdir, MoveDoc, MoveFrozen, MoveWork, Manifest, FreshPlan,
              Reset, Kill

LEMMA ArchiveSteps ==
  ASSUME Next
  PROVE  \/ cycles' = cycles \/ Dir \/ MoveWork \/ Manifest
         \/ \E d \in Docs, to \in {"holdout", "frozen"} : MoveDoc(d, to)
  BY DEF Next, Plan, LogFinding, Orient, Prototype, Hold, UserCommit, UserStash, UserCheckout, Freeze, FreezeHoldout,
         FreezeEnter, Build, Batch, Push, BuildPull, BuildWorkspace, BuildProvision, BuildDecompose, BuildItem, BuildThrows, BuildPasses,
         BuildFails, BuildStops, BuildDone, FinishMerge, FinishTeardown, FinishArchive, Closing, FinishTree, FinishBranch,
         FinishClear, New, Mkdir, MoveFrozen, FreshPlan, Reset, Clean, Kill, files, Docs

(* A cycle begun by `new` starts clean: an item that counts as passed was decomposed from a plan of this    *)
(* cycle and judged by no older holdout (archiveCycle, newCycle and the reuse of the items).                *)
THEOREM CyclesStartClean == Spec => []CycleStartsClean
  <1>1. Inv => CycleStartsClean
    BY DEF Inv
  <1> QED BY <1>1, Invariance, PTL

(* The default branch moves by a commit of the user, and else only forward: by `finish --merge --yes`, or by *)
(* the pull to what its upstream has, where it is asked for; in a project that does not build on a branch in *)
(* its own directory: the workspace with a branch is a worktree, whose commits are its branch's              *)
(* (prepareWorkspace, pullUpstream, commitWork, mergeFfOnly).                                                *)
THEOREM OnlyMergesMoveMain == ASSUME "branch" \notin Strategies PROVE Spec => MainOnlyByMerge
  <1> DEFINE A == git'.tip[Main] # git.tip[Main] =>
                    \/ UserCommit(Root)
                    \/ /\ git.tip[Main] \subseteq git'.tip[Main]
                       /\ cmd' = "finish" \/ (PullBeforeWork /\ git'.tip[Main] = upstream)
  <1>1. Inv /\ [Next]_vars => [A]_vars
    <2> SUFFICES ASSUME Inv, Next PROVE A
      OBVIOUS
    <2>1. CASE git'.tip[Main] = git.tip[Main]
      BY <2>1
    <2>2. CASE Idle /\ ~Prototype
      <3>1. git' = git \/ Push \/ (\E dir \in 0..MaxRuns : UserCommit(dir)) \/ UserStash
            \/ (\E b \in 0..MaxRuns : UserCheckout(b)) \/ \E force \in BOOLEAN : Clean(force)
        BY <2>2, UserSteps
      <3>2. CASE \E dir \in 0..MaxRuns : UserCommit(dir)
        <4>1. PICK dir \in 0..MaxRuns : UserCommit(dir)
          BY <3>2
        <4>2. git' = Committed(git, dir) /\ (dir # Root => HeadOf(dir) # Main)
          BY <4>1, Numbers DEF UserCommit, HeadOf
        <4> QED BY <4>1, <4>2, NowFacts, CommittedFacts DEF SameMain
      <3>3. CASE UserStash
        BY <3>3, NowFacts, TreesFacts DEF UserStash
      <3>4. CASE \E b \in 0..MaxRuns : UserCheckout(b)
        <4>1. PICK b \in DOMAIN git.tip : git' = CheckedOut(git, b)
          BY <3>4 DEF UserCheckout
        <4> QED BY <4>1, NowFacts, CheckedOutFacts DEF SameMain
      <3>5. CASE Push
        BY <3>5, PushFacts
      <3>6. CASE \E force \in BOOLEAN : Clean(force)
        BY <3>6, CleanFacts DEF SameMain
      <3> QED BY <2>1, <3>1, <3>2, <3>3, <3>4, <3>5, <3>6
    <2>3. CASE Prototype \/ BuildPull
      <3>1. git' = git \/ (PullBeforeWork /\ git' = Pulled(git))
        BY <2>3 DEF Prototype, BuildPull
      <3> QED BY <2>1, <3>1, NowFacts, PulledFacts DEF SameMain
    <2>4. CASE BuildWorkspace
      BY <2>4, WorkspaceStep DEF SameMain
    <2>5. CASE BuildPasses
      BY <2>5, PassesStep DEF SameMain
    <2>6. CASE BuildItem
      <3>1. git' = git \/ git' = [git EXCEPT !.dirty = @ \cup ({mem.ws} \ {Apart})]
        BY <2>6 DEF BuildItem
      <3>2. git'.tip = git.tip
        BY <3>1, NowFacts, TreesFacts
      <3> QED BY <3>2
    <2>7. CASE \E named \in {None} \cup (1..MaxRuns), force \in BOOLEAN : FinishMerge(named, force)
      BY <2>7, MergeStep
    <2>8. CASE FinishTree \/ FinishBranch
      BY <2>8, TreeStep, BranchStep DEF SameMain
    <2>9. CASE \E force \in BOOLEAN : Clean(force)
      BY <2>9, CleanFacts DEF SameMain
    <2>10. CASE Push
      BY <2>10, PushFacts
    <2> QED BY <2>1, <2>2, <2>3, <2>4, <2>5, <2>6, <2>7, <2>8, <2>9, <2>10, GitSteps
  <1> QED BY <1>1, Invariance, PTL DEF Spec, MainOnlyByMerge

(* No commit becomes unreachable, whatever is torn down, pruned or killed in the middle, unless the user    *)
(* asked for it with --force (deleteBranch, removeWorktree, clean).                                         *)
THEOREM NoCommitLost == Spec => WorkKept
  <1> DEFINE A == Reachable(git) \subseteq Reachable(git') \/ opts.force \/ Clean(TRUE)
  <1>1. Inv /\ [Next]_vars => [A]_vars
    <2> SUFFICES ASSUME Inv, Next PROVE A
      OBVIOUS
    <2>1. CASE BuildWorkspace \/ BuildPasses
      BY <2>1, WorkspaceStep, PassesStep DEF Kept
    <2>2. CASE git' = [git EXCEPT !.dirty = @ \cup ({mem.ws} \ {Apart})]
      <3>1. git'.tip = git.tip
        BY <2>2, NowFacts, TreesFacts
      <3> QED BY <3>1 DEF Reachable
    <2>3. CASE \E named \in {None} \cup (1..MaxRuns), force \in BOOLEAN : FinishMerge(named, force)
      BY <2>3, MergeStep DEF Kept
    <2>4. CASE FinishTree \/ FinishBranch
      BY <2>4, TreeStep, BranchStep DEF Kept
    <2>5. CASE \E force \in BOOLEAN : Clean(force)
      BY <2>5, CleanFacts DEF Kept
    <2>6. CASE git' = git
      BY <2>6
    <2>7. CASE \E dir \in 0..MaxRuns : UserCommit(dir)
      <3>1. PICK dir \in 0..MaxRuns : git' = Committed(git, dir)
        BY <2>7 DEF UserCommit
      <3> QED BY <3>1, NowFacts, CommittedFacts DEF Kept
    <2>8. CASE UserStash
      <3>1. git'.tip = git.tip
        BY <2>8, NowFacts, TreesFacts DEF UserStash
      <3> QED BY <3>1 DEF Reachable
    <2>9. CASE \E b \in 0..MaxRuns : UserCheckout(b)
      <3>1. PICK b \in DOMAIN git.tip : git' = CheckedOut(git, b)
        BY <2>9 DEF UserCheckout
      <3> QED BY <3>1, NowFacts, CheckedOutFacts DEF Kept
    <2>10. CASE BuildItem
      BY <2>2, <2>6, <2>10 DEF BuildItem
    <2>11. CASE Push
      BY <2>11, PushFacts DEF Reachable
    <2>12. CASE Prototype \/ BuildPull
      <3>1. git' = git \/ git' = Pulled(git)
        BY <2>12 DEF Prototype, BuildPull
      <3> QED BY <2>6, <3>1, NowFacts, PulledFacts DEF Kept
    <2>13. CASE Idle
      BY <2>5, <2>6, <2>7, <2>8, <2>9, <2>11, <2>12, <2>13, UserSteps
    <2> QED BY <2>1, <2>3, <2>4, <2>5, <2>6, <2>10, <2>11, <2>12, <2>13, GitSteps
  <1> QED BY <1>1, Invariance, PTL DEF Spec, WorkKept

(* What a command has put into a directory of .sparra/cycles is not replaced by a later one, whatever a     *)
(* kill has left half moved (archiveCycle, nextCycleNumber).                                                *)
THEOREM ArchivesArePermanent == Spec => ArchivesStand
  <1> DEFINE A == \A i \in DOMAIN cycles :
                    \A piece \in {"plan", "holdout", "work"} :
                      cycles[i][piece] # 0 => cycles'[i][piece] = cycles[i][piece]
  <1>1. Inv /\ [Next]_vars => [A]_vars
    <2> SUFFICES ASSUME Inv, Next PROVE A
      OBVIOUS
    <2>1. cycles \in Seq(Dirs) /\ (at \in {"plan", "holdout", "work", "manifest"} => cycles # <<>>)
      BY DEF Inv, Typed, Archive
    <2>2. CASE cycles' = cycles
      BY <2>2
    <2>3. CASE Dir
      BY <2>1, <2>3, DirFacts
    <2>4. CASE \E d \in Docs, to \in {"holdout", "frozen"} : MoveDoc(d, to)
      <3>1. PICK d \in Docs, to \in {"holdout", "frozen"} : MoveDoc(d, to)
        BY <2>4
      <3>2. at = d /\ d \in Pieces /\ live[d] \in Nat /\ (UNCHANGED cycles \/ Put(d, live[d]))
        BY <3>1, DocFacts DEF MoveDoc, Step, Docs, Pieces
      <3>3. cycles # <<>> /\ cycles[Len(cycles)][d] = 0
        BY <3>1, <3>2 DEF Inv, Archive, Docs
      <3> QED BY <2>1, <2>2, <3>2, <3>3, PutFacts DEF Pieces
    <2>5. CASE MoveWork
      <3>1. at = "work" /\ "work" \in Pieces /\ work \in Nat /\ Put("work", work)
        BY <2>5, DocFacts DEF MoveWork, Step, Pieces
      <3>2. cycles # <<>> /\ cycles[Len(cycles)].work = 0
        BY <3>1 DEF Inv, Archive
      <3> QED BY <2>1, <3>1, <3>2, PutFacts DEF Pieces
    <2>6. CASE Manifest
      BY <2>1, <2>6, WholeFacts DEF Manifest, Pieces
    <2> QED BY <2>2, <2>3, <2>4, <2>5, <2>6, ArchiveSteps
  <1> QED BY <1>1, Invariance, PTL DEF Spec, ArchivesStand
=============================================================================
