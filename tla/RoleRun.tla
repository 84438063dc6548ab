-------------------------------- MODULE RoleRun --------------------------------
(***************************************************************************)
(* One role run after the other in one workspace: the interactive role       *)
(* runner (src/build/roleRun.ts, behind `sparra role` and the MCP tool        *)
(* run_role) and the two roles of the build loop (build/generate.ts,          *)
(* build/evaluate.ts), with the source-integrity guard (build/integrity.ts),  *)
(* the throwaway worktrees (util/git.ts) and what a backend's session can     *)
(* come back with (sdk/backends).                                             *)
(*                                                                          *)
(* A directory is the set of the edits in it; an edit is <<n, w, i>>, made in *)
(* the n-th run by its writer or judge in the i-th session; i = 0 marks an    *)
(* edit that somebody else made meanwhile.                                    *)
(***************************************************************************)
EXTENDS Integers, FiniteSets, Sequences, FiniteSetsExt

CONSTANTS
  Chains,    \* the chains of backends to run with, the first requested and the others its fallbacks
  MaxRuns,   \* bound on the role runs
  MaxEdits,  \* bound on the edits of others
  MaxKills,  \* bound on the kills of the process
  JsonReask  \* build.jsonReask

Backends == {"claude", "codex"}

ASSUME RoleBounds == MaxRuns \in Nat \ {0} /\ {MaxEdits, MaxKills} \subseteq Nat /\ JsonReask \in BOOLEAN
ASSUME RoleChains == \A c \in Chains : c \in Seq(Backends) /\ c # <<>>

VARIABLES
  at,     \* where the run is
  req,    \* its request
  i,      \* the session of the chain
  limited, \* the backends that came back with a limit
  res,    \* what the last session of the chain came back with
  out,    \* what the run comes back with
  src,    \* the workspace
  tmp,    \* the snapshot of it in a throwaway worktree
  trees,  \* the throwaway worktrees on disk
  before, \* the directory at the start: the writer's change probe and the judge's snapshot
  touched, \* whether the judge edited the directory it judges (to state the properties)
  count   \* the runs, the edits and the kills so far
vars == <<at, req, i, limited, res, out, src, tmp, trees, before, touched, count>>

Kinds == {"generator", "evaluator", "contract-evaluator"}
Edits == (1 .. MaxRuns) \X {"writer", "judge", "other"} \X (0 .. 4)

NoReq == [kind |-> "none", build |-> FALSE, chain |-> <<"claude">>, wt |-> FALSE, base |-> FALSE, scratch |-> FALSE]
NoRes == [by |-> "none", ended |-> "ok", text |-> "none", seen |-> "none", wrote |-> FALSE]
NoOut == [given |-> "none", verdict |-> "none", text |-> "none", limit |-> FALSE, turns |-> FALSE, budget |-> FALSE,
          empty |-> FALSE, idle |-> FALSE]

Init ==
  /\ at = "idle" /\ req = NoReq /\ i = 0 /\ limited = {} /\ res = NoRes /\ out = NoOut
  /\ src = {} /\ tmp = {} /\ trees = {} /\ before = {} /\ touched = FALSE
  /\ count = [runs |-> 0, edits |-> 0, kills |-> 0]

Place   == IF req.wt THEN tmp ELSE src
SetPlace(d) == IF req.wt THEN tmp' = d /\ UNCHANGED src ELSE src' = d /\ UNCHANGED tmp
Mine(who) == <<count.runs, who, i>>
Writer  == req.kind = "generator"
Judge   == req.kind \in {"evaluator", "contract-evaluator"}

\* The workspace is edited by somebody else, whatever the run is at.
Edit ==
  /\ count.edits < MaxEdits /\ at # "idle"
  /\ src' = src \cup {<<count.runs, "other", 0>>}
  /\ count' = [count EXCEPT !.edits = @ + 1]
  /\ UNCHANGED <<at, req, i, limited, res, out, tmp, trees, before, touched>>

-----------------------------------------------------------------------------
(* Sessions. *)

\* The ends a backend's session has, and the texts each can have: Claude's text is that of a success
\* alone, Codex has no caps of ours and keeps the text of a failed turn.  An empty completion is a
\* limit of its own kind; a session that broke off, or never started, counts no turn.
ClaudeEnds == {"ok", "turns", "budget", "limit", "empty", "failed", "throws"}
CodexEnds  == {"ok", "limit", "empty", "failed", "broken", "enoent"}
Ends(b)    == IF b = "claude" THEN ClaudeEnds ELSE CodexEnds
Texts(b, e) ==
  IF e = "ok" THEN {"none", "prose", "pass", "fail"}
  ELSE IF b = "codex" /\ e \in {"limit", "failed", "broken"} THEN {"none", "prose", "pass"} ELSE {"none"}
IsLimit(r) == r.ended \in {"limit", "empty"}
Shaped(t)  == t \in {"pass", "fail"} \* for an evaluator a verdict, for a generator a report

\* Claude's empty completion had no turn, and what did not start edited nothing.
MayEdit(b, e) == e \notin {"throws", "enoent"} /\ ~(b = "claude" /\ e = "empty")

\* A judge is told not to.  Codex is held to it by its sandbox, unless the exercise needs scratch; Claude is
\* refused the edit tools but not a command of run_command or Bash that writes, isolated or in place.
JudgeMayEdit(b) == b = "claude" \/ req.scratch

(* Faulty variants of the definitions below, substituted for them to see the properties fail. *)
AlwaysFalls == IsLimit(res) /\ ~req.build
NoBlock(t)  == IF t = "pass" THEN "pass" ELSE "fail"
OnlyWithText ==
  /\ at = "enforce"
  /\ SetPlace(IF req.scratch /\ Shaped(out.text) THEN before ELSE Place)
  /\ touched' = (req.scratch /\ Place # before)
  /\ at' = "verdict"
  /\ UNCHANGED <<req, i, limited, res, out, trees, before, count>>

Landed == Place # before

\* A writer's empty completion that changed files ends the chain, since another writer would clobber them.
WorkStands == Writer /\ res.ended = "empty" /\ Landed
Falls      == IsLimit(res) /\ ~WorkStands /\ ~req.build

-----------------------------------------------------------------------------
(* The start of a run. *)

\* What the runner refuses before it has done anything is not listed.
Begin(r) ==
  /\ at = "idle" /\ count.runs < MaxRuns
  /\ req' = r
  /\ at' = CASE r.base -> "baseline"
             [] r.build \/ r.kind = "generator" -> "launch"
             [] OTHER -> "provenance"
  /\ i' = 1 /\ limited' = {} /\ res' = NoRes /\ out' = NoOut /\ touched' = FALSE
  /\ count' = [count EXCEPT !.runs = @ + 1]
  /\ UNCHANGED <<src, tmp, trees, before>>

\* Only judges have a throwaway worktree, only the evaluator a baseline.
MayHaveTree(k)     == k # "generator"
MayHaveBaseline(k) == k = "evaluator"

\* A judge has scratch, and the guard's snapshot with it, on an isolated checkout if exercise.sandbox does
\* not forbid it; in place it has neither.
AskRole ==
  \E k \in Kinds, c \in Chains, wt, base, scratch \in BOOLEAN :
    /\ wt => MayHaveTree(k)
    /\ base => MayHaveBaseline(k)
    /\ scratch => k # "generator"
    /\ Begin([kind |-> k, build |-> FALSE, chain |-> c, wt |-> wt, base |-> base, scratch |-> scratch])

\* The two roles of the build loop run in its workspace, and the round loop has the fallback.
AskItem(k, scratch) ==
  \E c \in Chains :
    Begin([kind |-> k, build |-> TRUE, chain |-> c, wt |-> FALSE, base |-> FALSE, scratch |-> scratch])
AskGenerator == AskItem("generator", FALSE)
AskEvaluator == \E scratch \in BOOLEAN : AskItem("evaluator", scratch)

\* computeVerifiedBaseline: a detached worktree at the base, removed whatever comes of it.
Baseline ==
  /\ at = "baseline"
  /\ \/ at' = "baseline-run" /\ trees' = trees \cup {<<count.runs, "base">>}
     \/ at' = "provenance" /\ UNCHANGED trees \* could not be created: unavailable
  /\ UNCHANGED <<req, i, limited, res, out, src, tmp, before, touched, count>>
BaselineRun ==
  /\ at = "baseline-run"
  /\ trees' = trees \ {<<count.runs, "base">>}
  /\ at' = "provenance"
  /\ UNCHANGED <<req, i, limited, res, out, src, tmp, before, touched, count>>

\* resolveEvalProvenance: a judge whose brief names another HEAD, or a base that cannot be resolved,
\* is not launched.
Provenance ==
  /\ at = "provenance"
  /\ \/ at' = (IF req.wt THEN "snapshot" ELSE "launch") /\ UNCHANGED out
     \/ at' = "idle" /\ out' = [NoOut EXCEPT !.given = "thrown"]
  /\ UNCHANGED <<req, i, limited, res, src, tmp, trees, before, touched, count>>

\* addWipWorktree: the workspace as it is, uncommitted edits too; if git cannot, the run throws.
Snapshot ==
  /\ at = "snapshot"
  /\ \/ at' = "launch" /\ tmp' = src /\ trees' = trees \cup {<<count.runs, "snapshot">>} /\ UNCHANGED out
     \/ at' = "idle" /\ out' = [NoOut EXCEPT !.given = "thrown"] /\ UNCHANGED <<tmp, trees>>
  /\ UNCHANGED <<req, i, limited, res, src, before, touched, count>>

\* The run is over, with its worktree removed.
Leave(o) == /\ out' = o
            /\ at' = IF req.wt THEN "teardown" ELSE "idle"

Launch ==
  /\ at = "launch"
  /\ before' = Place
  /\ at' = "session"
  /\ UNCHANGED <<req, i, limited, res, out, src, tmp, trees, touched, count>>

\* The task's parts are read by the runner, and one that cannot be read throws: prior critiques,
\* accepted blockings, the generator's report.
TaskFails ==
  /\ at = "launch" /\ ~req.build
  /\ Leave([NoOut EXCEPT !.given = "thrown"])
  /\ UNCHANGED <<req, i, limited, res, src, tmp, trees, before, touched, count>>

-----------------------------------------------------------------------------
(* The chain of sessions. *)

Session ==
  /\ at = "session"
  /\ \E e \in Ends(req.chain[i]) : \E t \in Texts(req.chain[i], e), edits \in BOOLEAN, seen \in {"none", "ran", "blocked"} :
       /\ seen # "none" => req.kind = "evaluator" /\ MayEdit(req.chain[i], e)
       /\ edits => MayEdit(req.chain[i], e) /\ (Writer \/ JudgeMayEdit(req.chain[i]))
       /\ seen # "none" => req.chain[i] = "claude"
       /\ res' = [by |-> req.chain[i], ended |-> e, text |-> t, seen |-> IF res.seen # "none" THEN res.seen ELSE seen,
                  wrote |-> res.wrote \/ (edits /\ Judge)]
       /\ IF edits THEN SetPlace(Place \cup {Mine(IF Writer THEN "writer" ELSE "judge")}) ELSE UNCHANGED <<src, tmp>>
       /\ IF e = "throws" THEN Leave([NoOut EXCEPT !.given = "thrown"]) ELSE at' = "ended" /\ UNCHANGED out
  /\ UNCHANGED <<req, i, limited, trees, before, touched, count>>

\* The next backend that has no limit, or the end of the chain.
FallBack ==
  /\ at = "ended" /\ Falls
  /\ limited' = limited \cup {res.by}
  /\ LET rest == {j \in i + 1 .. Len(req.chain) : req.chain[j] \notin limited'}
     IN IF rest = {} THEN at' = "classify" /\ UNCHANGED i ELSE at' = "session" /\ i' = Min(rest)
  /\ UNCHANGED <<req, res, out, src, tmp, trees, before, touched, count>>
Ended ==
  /\ at = "ended" /\ ~Falls
  /\ at' = "classify"
  /\ UNCHANGED <<req, i, limited, res, out, src, tmp, trees, before, touched, count>>

-----------------------------------------------------------------------------
(* What the end of the chain means. *)

\* A genuine limit, then a cap on turns, then an empty report over landed work, then an empty
\* completion, then a cap on the budget, then a writer that changed nothing.
Classified ==
  [NoOut EXCEPT
     !.text = res.text,
     !.budget = (res.ended = "budget"),
     !.limit = IsLimit(res) /\ (req.build \/ ~WorkStands),
     !.turns = (res.ended = "turns"),
     !.empty = (~req.build /\ Writer /\ Landed /\ res.text = "none" /\ res.ended \in {"empty", "budget"}),
     !.idle  = (~req.build /\ Writer /\ ~Landed /\ res.ended \in {"ok", "failed", "broken"})]

\* A report, or a verdict, that one of our own caps forfeited is asked for again, once and only as text;
\* the build loop also asks a session that ended in order and said nothing it could use.
ReportAgain  == Writer /\ Landed /\ res.ended \in {"turns", "budget"}
VerdictAgain == req.kind = "evaluator" /\ res.ended \in {"turns", "budget"}
ItemReportAgain  == Writer /\ res.ended # "budget" /\ (res.ended = "turns" => Place # {})
ItemVerdictAgain == Judge /\ res.ended # "budget"
AsksAgain ==
  /\ JsonReask /\ ~IsLimit(res) /\ ~Shaped(res.text)
  /\ IF req.build THEN ItemReportAgain \/ ItemVerdictAgain ELSE ReportAgain \/ VerdictAgain

\* A launch that found no directory or no program is no verdict: the run returns as it is.
IsLaunchEnoent == res.ended = "enoent" /\ ~req.build

Classify ==
  /\ at = "classify"
  /\ IF IsLaunchEnoent THEN Leave([Classified EXCEPT !.given = "infra"])
     ELSE out' = Classified /\ at' = IF AsksAgain THEN "again" ELSE "asked"
  /\ UNCHANGED <<req, i, limited, res, src, tmp, trees, before, touched, count>>

\* The session is resumed, with no tools unless a generator of the build loop ended in order; Codex
\* heeds only the sandbox, which stays writable for a judge.  What it says is taken if it is usable.
MayEditAgain == req.build /\ IF Writer THEN res.ended # "turns" ELSE req.scratch /\ res.by = "codex"
Usable(e, t) == IF req.build THEN Shaped(t)
                ELSE e \notin {"limit", "empty"} /\ IF Writer THEN t # "none" ELSE Shaped(t)
Again ==
  /\ at = "again"
  /\ \E e \in Ends(res.by), edits \in BOOLEAN : \E t \in Texts(res.by, e) :
       /\ edits => MayEditAgain /\ MayEdit(res.by, e)
       /\ IF edits THEN SetPlace(Place \cup {Mine(IF Writer THEN "writer" ELSE "judge")}) ELSE UNCHANGED <<src, tmp>>
       /\ res' = [res EXCEPT !.wrote = @ \/ (edits /\ Judge)]
       /\ IF e = "throws" THEN Leave([NoOut EXCEPT !.given = "thrown"])
          ELSE /\ at' = "asked"
               /\ out' = IF Usable(e, t) THEN [out EXCEPT !.text = t, !.empty = FALSE] ELSE out
  /\ UNCHANGED <<req, i, limited, trees, before, touched, count>>

\* evaluateItem leaves the round to the build loop if there is neither a verdict nor a real end.
Infra == req.build /\ Judge /\ ~Shaped(out.text) /\ (IsLimit(res) \/ res.ended \in {"broken", "enoent"})

Asked ==
  /\ at = "asked"
  /\ IF Infra THEN Leave([out EXCEPT !.given = "infra"])
     ELSE IF Judge THEN at' = "enforce" /\ UNCHANGED out ELSE Leave([out EXCEPT !.given = "result"])
  /\ UNCHANGED <<req, i, limited, res, src, tmp, trees, before, touched, count>>

-----------------------------------------------------------------------------
(* The judge's verdict. *)

\* enforceArtifactIntegrity: what differs from the snapshot is put back.
Enforce ==
  /\ at = "enforce"
  /\ SetPlace(IF req.scratch THEN before ELSE Place)
  /\ touched' = (req.scratch /\ Place # before)
  /\ at' = "verdict"
  /\ UNCHANGED <<req, i, limited, res, out, trees, before, count>>

\* An exercise the harness saw blocked is no pass.
Parsed(t) == IF t = "pass" /\ res.seen # "blocked" THEN "pass" ELSE "fail"

\* evaluateItem grades the same way (a text is "pass" if its word, or what its retired holdouts leave, its
\* scores and its assertions make a pass), and a pass without an observed exercise is none if the backend
\* can host the exercise tools (exercise.requireObservedRun, by the command line or the web).
Unobserved == res.by = "claude" /\ res.seen = "none"
Graded(t)  == IF Unobserved THEN "fail" ELSE Parsed(t)

\* Only the evaluator has a verdict, and one that edited what it judged fails.
Verdict == IF req.kind # "evaluator" THEN "none"
           ELSE IF touched THEN "fail"
           ELSE IF req.build THEN Graded(out.text) ELSE Parsed(out.text)

Conclude ==
  /\ at = "verdict"
  /\ Leave([out EXCEPT !.given = "result", !.verdict = Verdict])
  /\ UNCHANGED <<req, i, limited, res, src, tmp, trees, before, touched, count>>

\* removeWipWorktree, in the finally of the run: by git, or else by the file system.
Removed == trees \ {<<count.runs, "snapshot">>}
Teardown ==
  /\ at = "teardown"
  /\ trees' = Removed
  /\ tmp' = {}
  /\ at' = "idle"
  /\ UNCHANGED <<req, i, limited, res, out, src, before, touched, count>>

Kill ==
  /\ at # "idle" /\ count.kills < MaxKills
  /\ at' = "idle"
  /\ out' = [NoOut EXCEPT !.given = "killed"]
  /\ count' = [count EXCEPT !.kills = @ + 1]
  /\ tmp' = {} /\ before' = {} /\ res' = NoRes /\ limited' = {}
  /\ UNCHANGED <<req, i, src, trees, touched>>

Step == \/ Baseline \/ BaselineRun \/ Provenance \/ Snapshot \/ Launch \/ TaskFails \/ Session \/ FallBack \/ Ended
        \/ Classify \/ Again \/ Asked \/ Enforce \/ Conclude \/ Teardown
Next == AskRole \/ AskGenerator \/ AskEvaluator \/ Step \/ Edit \/ Kill

Spec == Init /\ [][Next]_vars
-----------------------------------------------------------------------------
TypeOK ==
  /\ at \in {"idle", "baseline", "baseline-run", "provenance", "snapshot", "launch", "session", "ended", "classify", "again", "asked",
             "enforce", "verdict", "teardown"}
  /\ req.kind \in Kinds \cup {"none"} /\ req.chain \in Chains \cup {<<"claude">>}
  /\ i \in 0 .. Len(req.chain) /\ limited \subseteq Backends
  /\ res.by \in Backends \cup {"none"}
  /\ src \subseteq Edits /\ tmp \subseteq Edits /\ before \subseteq Edits
  /\ trees \subseteq (1 .. MaxRuns) \X {"base", "snapshot"}

\* A generator whose session came back empty but whose files changed is the last of its run: no fallback
\* writes over the work.  (runRoleInPlace: the chain stops on landed work.)
NoSecondWriter ==
  [][Writer /\ at = "ended" /\ at' = "session" /\ res.ended = "empty"
       => \A e \in src : e[2] = "writer" => e[1] # count.runs]_vars

\* On an isolated checkout with scratch, once a judge's run came back with its verdict or critique, nothing a
\* judge edited in that run is in the workspace, whatever it ended with, was asked again, or which of the
\* chain's sessions edited it; in a throwaway worktree not even if the run threw, was infra or was killed.
\* (snapshotArtifact before the chain, enforceArtifactIntegrity after the last session, addWipWorktree.)
JudgeLeavesNothing ==
  at = "idle" /\ (req.wt \/ (req.scratch /\ out.given = "result"))
    => \A e \in src : e[2] = "judge" => e[1] # count.runs

\* A pass rests on a verdict in the text, an exercise that was in no session of the chain seen blocked, and,
\* where the guard took its snapshot, a judge that edited nothing of what it judged in any of its sessions.
\* (parseVerdict, evaluateItem and the integrity guard.)
PassIsEarned ==
  out.verdict = "pass" => out.text = "pass" /\ res.seen # "blocked" /\ (req.scratch => ~res.wrote)

-----------------------------------------------------------------------------
(* What a comment or a document says and the code does not keep (README, section 4). *)

\* The guard's own words: it reverts any artifact mutation the evaluator makes.  Nothing of a judge is in
\* the workspace once its run came back, with a verdict or without.
NothingOfAJudge ==
  at = "idle" /\ req.scratch /\ out.given \in {"result", "infra"} => \A e \in src : e[2] # "judge" \/ e[1] # count.runs

\* The evaluator's guard: no source writes, but it may exercise.  In place, with no snapshot taken, a judge
\* that wrote is neither undone nor found out, and its pass stands.
NoSourceWrites ==
  at = "idle" /\ out.given = "result" => (\A e \in src : e[2] # "judge" \/ e[1] # count.runs) /\ (out.verdict = "pass" => ~res.wrote)
=============================================================================
