----------------------------- MODULE ConductUnit -----------------------------
(***************************************************************************)
(* One unit of `sparra conduct` (src/conduct/unitRunner.ts over the          *)
(* conductor core): negotiate the contract, then generate, evaluate and      *)
(* decide, with a judgment point wherever the code asks the decision engine. *)
(* The mode is "none" (the core's runUnit), "hybrid" (the same rounds with   *)
(* judgments and recovery) or "llm" (a brain picks every turn).              *)
(*                                                                          *)
(* u is what the unit's runner holds in memory; entry, asked, contract and   *)
(* ledger are on disk (run.json, contract.md, attempts.jsonl).  A kill loses *)
(* u, and may leave the decision it waited for pending in run.json (asked).  *)
(* `conduct --resume` has that decision answered first; an accept or abandon *)
(* ends the unit, and otherwise it is entered again with a new u.  An action *)
(* ends where the code awaits a role or a judgment.                          *)
(***************************************************************************)
EXTENDS AttemptLedger, FiniteSets

CONSTANTS
  Assertions,  \* the ids of the contract's assertions
  ContractMax, \* contract.maxNegotiationRounds
  MaxRounds,   \* build.maxRoundsPerItem
  PivotNs,     \* the values of pivot.N to try
  Modes,       \* the modes a run is started in
  MaxLives     \* bound on the processes that work on the unit

ASSUME UnitBounds == /\ {ContractMax, MaxRounds, MaxLives} \subseteq Nat \ {0}
                     /\ PivotNs \subseteq Nat \ {0}
                     /\ Modes \subseteq {"none", "hybrid", "llm"}

VARIABLES pc, u, entry, asked, contract, ledger, hist
vars == <<pc, u, entry, asked, contract, ledger, hist>>

\* A summary of an evaluator: the verdict, whether its model is the generator's, the assertions that
\* failed, those of them it could not run, and whether a pass is within the margin of the threshold.
Grades ==
  {g \in [verdict : {"pass", "fail", "null"}, same : BOOLEAN, failed : SUBSET Assertions,
          blocked : SUBSET Assertions, close : BOOLEAN] :
     /\ g.blocked \in {{}, g.failed}
     /\ g.verdict # "fail" => g.failed = {}
     /\ g.same => g.blocked = {}
     /\ g.verdict # "pass" => ~g.close
     /\ g.verdict = "null" => ~g.same}
Ungraded == [verdict |-> "null", same |-> FALSE, failed |-> {}, blocked |-> {}, close |-> FALSE]
Ends     == {"ok", "limit", "cap"} \* how a role run ends: well, at a provider limit, at its own cap

\* The runner of a unit: its configuration, the contract it negotiated, the counters of its rounds,
\* what each round failed, the last round it executed, and the decision it has yet to record.
NewUnit(mode, pivotN, fallback, escalation) ==
  [mode |-> mode, pivotN |-> pivotN, fallback |-> fallback, escalation |-> escalation,
   ladder |-> escalation, cr |-> 0, agreed |-> FALSE, forced |-> FALSE,
   round |-> 1, fails |-> 0, pivoting |-> FALSE, pivots |-> 0,
   failed |-> <<>>, last |-> Ungraded, executed |-> 0, execPivot |-> FALSE, deferred |-> "none"]

\* What the properties remember: of the artifact, whether it is newer than its grade and whether that
\* grade is an independent pass; of one life, whether a collapsed grade was taken anyway, the rounds
\* that were generated, and what preceded a strike.
NewHist == [lives |-> 1, fresh |-> FALSE, earned |-> FALSE, anyway |-> FALSE, generated |-> {},
            struck |-> {}, struckFrom |-> <<>>]

Init ==
  /\ pc = "contract"
  /\ u \in {NewUnit(m, n, f, e) : m \in Modes, n \in PivotNs, f \in BOOLEAN, e \in BOOLEAN}
  /\ u.mode # "hybrid" => ~u.fallback /\ ~u.escalation \* only the hybrid rounds look at them
  /\ entry = [outcome |-> "pending", agreed |-> FALSE, forced |-> FALSE]
  /\ asked = "none"
  /\ contract = [settled |-> FALSE, struck |-> {}]
  /\ ledger = <<>>
  /\ hist = NewHist

(* Faulty variants of the definitions below, substituted for them to see the properties fail. *)
PassBeforeGate(g, v) ==
  CASE g.verdict = "pass"                        -> "accept"
    [] g.verdict # "pass" /\ g.same              -> "grade-not-independent"
    [] g.verdict = "fail" /\ ~g.same             -> "revise"
    [] g.verdict = "null" /\ ~g.same             -> "inconclusive"
DefectOfLastRound(v)  == IF v.failed = <<>> THEN {} ELSE v.failed[Len(v.failed)]
ExhaustedToo          == {"pending", "running", "error", "exhausted"}
AskedAgain == /\ pc = "regen"
              /\ pc' \in {"eval", "genAsk"}
              /\ entry' = [entry EXCEPT !.outcome = "running"]
              /\ hist' = [hist EXCEPT !.fresh = TRUE]
              /\ UNCHANGED <<u, contract, ledger>>

-----------------------------------------------------------------------------
(* The decision functions. *)

\* decideFromEvaluation with requireCrossModel on, as every conduct run sets it.
Decide(g, v) ==
  CASE g.same                                                    -> "grade-not-independent"
    [] ~g.same /\ g.verdict = "pass"                             -> "accept"
    [] ~g.same /\ g.verdict = "fail" /\ v.fails + 1 >= v.pivotN  -> "pivot"
    [] ~g.same /\ g.verdict = "fail" /\ v.fails + 1 < v.pivotN   -> "revise"
    [] ~g.same /\ g.verdict = "null"                             -> "inconclusive"

\* classifyRecovery: a limit needs a fallback identity or a judgment, a cap is resumed with more.
Recovery(end) == CASE end = "ok"    -> "none"
                   [] end = "cap"   -> "again"
                   [] end = "limit" -> IF u.fallback THEN "again" ELSE "ask"

\* detectContractDefect: the one assertion the last round failed, if every round failed it and the
\* last round could run it.
Defects(v) ==
  {a \in Assertions : /\ v.failed # <<>>
                      /\ v.failed[Len(v.failed)] = {a}
                      /\ a \notin v.last.blocked
                      /\ \A i \in DOMAIN v.failed : a \in v.failed[i]}

Spent(v) == v.round > MaxRounds

\* roundAttempt and its append: the kind is what the round generated, the decision what came of it.
Record(l, r, pivoting, decision, g) ==
  AppendAttempt(l, [round |-> r, decision |-> decision, verdict |-> g.verdict,
                    kind |-> IF r = 1 THEN "initial" ELSE IF pivoting THEN "pivot" ELSE "patch"])

\* A record against the last round that was generated and evaluated, if there is one.
RecordExecuted(l, v, decision) ==
  IF v.executed = 0 THEN l ELSE Record(l, v.executed, v.execPivot, decision, v.last)

\* The decision to go on is recorded only when the round after it starts.
Flush(l, v) == IF v.deferred = "none" THEN l ELSE RecordExecuted(l, v, v.deferred)

-----------------------------------------------------------------------------
(* The end of a unit, its roles and its contract. *)

\* finalizeUnit: the only place that writes the contract's standing to run.json.
Finish(outcome, v) ==
  /\ entry' = [outcome |-> outcome, agreed |-> v.agreed, forced |-> v.forced]
  /\ u' = v
  /\ pc' = "down"

\* makeTrackedRunRole: the first role run that returns turns the entry to running.
RoleReturned == entry' = [entry EXCEPT !.outcome = "running"]

\* A role that cannot be spawned or exits badly rejects, and the unit ends in error.
RoleRejects ==
  /\ pc \in {"contract", "gen", "regen", "eval", "reeval", "strikeEval", "strikeReeval"}
  /\ entry' = [entry EXCEPT !.outcome = "error"]
  /\ pc' = "down"
  /\ UNCHANGED <<u, contract, ledger, hist>>

StartRounds(v) == pc' = IF v.mode = "llm" THEN "drive" ELSE "gen"

\* negotiateContract, one round: the generator drafts, the evaluator agrees or criticises.
\* A strike in the text it redrafts may be kept or lost.
ContractRound ==
  /\ pc = "contract"
  /\ \E agreed \in BOOLEAN, kept \in {{}, contract.struck} :
       LET last == u.cr + 1 = ContractMax
           judged == u.mode = "hybrid"
       IN /\ u' = [u EXCEPT !.cr = @ + 1, !.agreed = agreed, !.forced = ~agreed /\ last /\ ~judged]
          /\ contract' = [settled |-> agreed \/ (last /\ ~judged), struck |-> kept]
          /\ \/ (agreed \/ (last /\ ~judged)) /\ StartRounds(u)
             \/ ~agreed /\ ~last /\ UNCHANGED pc
             \/ ~agreed /\ last /\ judged /\ pc' = "nonconvergence"
  /\ RoleReturned
  /\ UNCHANGED <<ledger, hist>>

\* The contract-nonconvergence judgment: abandon, or build with what there is (as it stands, or
\* from a widened brief).
JudgeContract ==
  /\ pc = "nonconvergence"
  /\ \/ Finish("abandoned", u) /\ UNCHANGED contract
     \/ /\ u' = [u EXCEPT !.forced = TRUE]
        /\ contract' = [contract EXCEPT !.settled = TRUE]
        /\ pc' = "gen"
        /\ UNCHANGED entry
  /\ UNCHANGED <<ledger, hist>>

-----------------------------------------------------------------------------
(* Generation, and the recovery of a role run that hit a limit. *)

Generated == hist' = [hist EXCEPT !.fresh = TRUE, !.generated = @ \cup {u.round}]

Generate ==
  /\ pc = "gen"
  /\ \E end \in Ends :
       pc' = IF u.mode # "hybrid" THEN "eval"
             ELSE CASE Recovery(end) = "none"  -> "eval"
                    [] Recovery(end) = "again" -> "regen"
                    [] Recovery(end) = "ask"   -> "genAsk"
  /\ ledger' = Flush(ledger, u)
  /\ u' = [u EXCEPT !.deferred = "none"]
  /\ RoleReturned /\ Generated
  /\ UNCHANGED contract

\* The recovered run: its own summary is not looked at again.
Regenerate ==
  /\ pc = "regen"
  /\ pc' = "eval"
  /\ RoleReturned /\ Generated
  /\ UNCHANGED <<u, contract, ledger>>

\* The recovery judgment on the generator: wait and fallback run it again, abandon ends the unit.
JudgeGenerator ==
  /\ pc = "genAsk"
  /\ \/ pc' = "regen" /\ UNCHANGED <<u, entry, ledger>>
     \/ /\ ledger' = Record(ledger, u.round, u.pivoting, "abandon", Ungraded)
        /\ Finish("abandoned", u)
  /\ UNCHANGED <<contract, hist>>

-----------------------------------------------------------------------------
(* Evaluation, and the decision that follows it in the same step. *)

\* What the loop does after it chose to go on: the next round, or the end of the rounds.
GoOn(v) == /\ u' = v
           /\ pc' = CASE ~Spent(v) -> "gen"
                      [] Spent(v) /\ Defects(v) # {} -> "defect"
                      [] Spent(v) /\ Defects(v) = {} -> "exhausted"
           /\ UNCHANGED <<entry, contract, ledger>>

\* The unit ends with a decision recorded against the given round.
EndRound(outcome, decision, v) ==
  /\ ledger' = RecordExecuted(ledger, v, decision)
  /\ Finish(outcome, v)
  /\ UNCHANGED contract

\* A retry of a grade that was not independent keeps the failures and the pivot.
Retry(v)  == [v EXCEPT !.deferred = "continue-patch", !.round = @ + 1]
Revise(v) == [Retry(v) EXCEPT !.fails = @ + 1, !.pivoting = FALSE]
Pivot(v)  == [Retry(v) EXCEPT !.deferred = "pivot", !.pivots = @ + 1, !.fails = 0, !.pivoting = TRUE]

\* A pivot.  From the second on, escalate the generator if it can be, strike the assertion that is
\* the contract's defect, or widen the brief.
GoPivot(v) ==
  LET p == Pivot(v)
  IN \/ p.pivots < 2 /\ GoOn(p)
     \/ p.pivots >= 2 /\ p.ladder /\ GoOn([p EXCEPT !.ladder = FALSE])
     \/ p.pivots >= 2 /\ ~p.ladder /\ Defects(v) = {} /\ GoOn(p)
     \/ /\ p.pivots >= 2 /\ ~p.ladder /\ Defects(v) # {}
        /\ u' = p
        /\ pc' = "strike"
        /\ UNCHANGED <<entry, contract, ledger>>

\* The hybrid rounds after a grade.
Judged(v, g) ==
  LET d == Decide(g, v)
  IN \/ d = "accept" /\ ~g.close /\ EndRound("accepted", "accept", v)
     \/ /\ d = "accept" /\ g.close
        /\ u' = v /\ pc' = "borderline" /\ UNCHANGED <<entry, contract, ledger>>
     \/ /\ d = "grade-not-independent"
        /\ u' = v /\ pc' = "collapse" /\ UNCHANGED <<entry, contract, ledger>>
     \/ d = "inconclusive" /\ EndRound("inconclusive", "terminal-inconclusive", v)
     \/ d = "revise" /\ GoOn(Revise(v))
     \/ d = "pivot" /\ GoPivot(v)

\* runBuildCycle, the rounds of a run without a brain: no judgment and no ledger.
Cycled(v, g) ==
  LET d == Decide(g, v)
      on == CASE d = "pivot" -> [Pivot(v) EXCEPT !.pivots = 0, !.deferred = "none"]
              [] d # "pivot" -> [Revise(v) EXCEPT !.deferred = "none"]
  IN /\ \/ d \in {"revise", "pivot"} /\ ~Spent(on) /\ u' = on /\ pc' = "gen" /\ UNCHANGED entry
        \/ d \in {"revise", "pivot"} /\ Spent(on) /\ Finish("exhausted", on)
        \/ d = "accept" /\ Finish("accepted", v)
        \/ d \in {"grade-not-independent", "inconclusive"} /\ Finish(d, v)
     /\ UNCHANGED <<contract, ledger>>

\* The brain's rounds: the grade is on the brain's table at its next turn.
Driven(v) == /\ u' = Retry(v)
             /\ pc' = "drive"
             /\ UNCHANGED <<entry, contract, ledger>>

GradedHist(g) == [hist EXCEPT !.fresh = FALSE, !.earned = g.verdict = "pass" /\ ~g.same]

Graded(g) ==
  LET v == [u EXCEPT !.failed = Append(@, g.failed), !.last = g,
                     !.executed = u.round, !.execPivot = u.pivoting]
  IN /\ hist' = GradedHist(g)
     /\ CASE u.mode = "hybrid" -> Judged(v, g)
          [] u.mode = "none"   -> Cycled(v, g)
          [] u.mode = "llm"    -> Driven(v)

Recovering(pcAgain, pcAsk) ==
  /\ u.mode = "hybrid"
  /\ \E end \in Ends \ {"ok"} : pc' = IF Recovery(end) = "again" THEN pcAgain ELSE pcAsk
  /\ RoleReturned
  /\ UNCHANGED <<u, contract, ledger, hist>>

Evaluate ==
  /\ pc = "eval"
  /\ \/ Recovering("reeval", "evalAsk")
     \/ \E g \in Grades : Graded(g)

Reevaluate == pc = "reeval" /\ \E g \in Grades : Graded(g)

\* The recovery judgment on the evaluator; abandoned, the round is recorded with no verdict.
JudgeEvaluator ==
  /\ pc = "evalAsk"
  /\ \/ pc' = "reeval" /\ UNCHANGED <<u, entry, ledger>>
     \/ /\ ledger' = Record(ledger, u.round, u.pivoting, "abandon", Ungraded)
        /\ Finish("abandoned", u)
  /\ UNCHANGED <<contract, hist>>

-----------------------------------------------------------------------------
(* The judgments on a grade and on a unit whose rounds are spent. *)

JudgeBorderline ==
  /\ pc = "borderline"
  /\ \/ EndRound("accepted", "accept", u)
     \/ EndRound("abandoned", "abandon", u)
     \/ GoOn(Revise(u))
  /\ UNCHANGED hist

JudgeCollapse ==
  /\ pc = "collapse"
  /\ \/ EndRound("accepted", "accept", u) /\ hist' = [hist EXCEPT !.anyway = TRUE]
     \/ EndRound("grade-not-independent", "terminal-inconclusive", u) /\ UNCHANGED hist
     \/ GoOn(Retry(u)) /\ UNCHANGED hist

\* Both answers other than strike and abandon end as exhausted: a pivot there is not run.
JudgeDefect ==
  /\ pc = "defect"
  /\ \/ pc' = "strike" /\ UNCHANGED <<u, entry, contract, ledger>>
     \/ EndRound("abandoned", "abandon", u)
     \/ EndRound("exhausted", "terminal-fail", u)
  /\ UNCHANGED hist

JudgeExhausted ==
  /\ pc = "exhausted"
  /\ \/ EndRound("abandoned", "abandon", u)
     \/ EndRound("exhausted", "terminal-fail", u)
  /\ UNCHANGED hist

-----------------------------------------------------------------------------
(* The strike of the assertion every round failed, and the grade that follows it. *)

\* strikeContractAssertion finds the assertion's line or throws, and then the unit ends in error.
Strike ==
  /\ pc = "strike"
  /\ \E a \in Defects(u) :
       \/ /\ contract' = [contract EXCEPT !.struck = @ \cup {a}]
          /\ pc' = "strikeEval"
          /\ hist' = [hist EXCEPT !.struckFrom = u.failed, !.struck = {a}]
          /\ UNCHANGED entry
       \/ /\ entry' = [entry EXCEPT !.outcome = "error"]
          /\ pc' = "down"
          /\ UNCHANGED <<contract, hist>>
  /\ UNCHANGED <<u, ledger>>

\* The grade after a strike is recorded under u.round, a round that was never generated.
EndStrike(outcome, decision, v, g) ==
  /\ ledger' = Record(ledger, v.round, FALSE, decision, g)
  /\ Finish(outcome, v)
  /\ UNCHANGED contract

StrikeGraded(g) ==
  LET v == [u EXCEPT !.failed = Append(@, g.failed), !.last = g]
      d == Decide(g, [v EXCEPT !.fails = 0])
  IN /\ \/ d = "accept" /\ EndStrike("accepted", "accept", v, g)
        \/ /\ d \in {"grade-not-independent", "inconclusive"}
           /\ EndStrike(d, "terminal-inconclusive", v, g)
        \/ d \in {"revise", "pivot"} /\ EndStrike("exhausted", "terminal-fail", v, g)
     /\ hist' = GradedHist(g)

StrikeEvaluate ==
  /\ pc = "strikeEval"
  /\ \/ Recovering("strikeReeval", "strikeAsk")
     \/ \E g \in Grades : StrikeGraded(g)

StrikeReevaluate == pc = "strikeReeval" /\ \E g \in Grades : StrikeGraded(g)

JudgeStrike ==
  /\ pc = "strikeAsk"
  /\ \/ pc' = "strikeReeval" /\ UNCHANGED <<u, entry, contract, ledger>>
     \/ EndStrike("abandoned", "abandon", u, Ungraded)
  /\ UNCHANGED hist

-----------------------------------------------------------------------------
(* One turn of the brain that drives the llm mode. *)

\* run, revise, pivot, escalate and finalize all run one round.
RunTurn(v, pivots) == /\ u' = [v EXCEPT !.pivoting = pivots]
                      /\ pc' = "gen"
                      /\ UNCHANGED <<entry, contract, ledger, hist>>

Drive ==
  /\ pc = "drive"
  /\ \/ \E pivots \in BOOLEAN : ~Spent(u) /\ RunTurn(u, pivots)
     \/ ~Spent(u) /\ EndRound("accepted", "accept", u) /\ UNCHANGED hist
     \/ ~Spent(u) /\ EndRound("abandoned", "abandon", u) /\ UNCHANGED hist
     \/ ~Spent(u) /\ pc' = "surface" /\ UNCHANGED <<u, entry, contract, ledger, hist>>
     \/ Spent(u) /\ EndRound("exhausted", "terminal-fail", u) /\ UNCHANGED hist

\* The brain surfaced: anything but abandon runs a round.
JudgeSurfaced ==
  /\ pc = "surface"
  /\ \/ EndRound("abandoned", "abandon", u) /\ UNCHANGED hist
     \/ RunTurn(u, FALSE)

-----------------------------------------------------------------------------
(* A kill loses the runner; a resume answers what was asked and enters the unit again. *)

Resumable == {"pending", "running", "error"}

\* The places of a judgment: its decision is in run.json as pending from before it is answered until
\* after.
Judging == {"nonconvergence", "genAsk", "evalAsk", "borderline", "collapse", "defect", "exhausted",
            "strikeAsk", "surface"}

\* What outlives a runner is what there is of the artifact.
NextLife(n) == [NewHist EXCEPT !.lives = n, !.fresh = hist.fresh, !.earned = hist.earned]

Kill == /\ pc # "down" /\ hist.lives < MaxLives
        /\ pc' = "down"
        /\ u' = NewUnit(u.mode, u.pivotN, u.fallback, u.escalation)
        /\ asked' \in {"none"} \cup ({pc} \cap Judging)
        /\ hist' = NextLife(hist.lives)
        /\ UNCHANGED <<entry, contract, ledger>>

\* resumeConduct, recoverParkedDecisions: the decision that was left pending is asked again, and an
\* accept (one of the options of a borderline and of a collapsed grade) or an abandon (an option of
\* each) ends the unit as it stands.
RecoverDecision ==
  /\ pc = "down" /\ entry.outcome \in Resumable /\ hist.lives < MaxLives
  /\ \/ /\ asked \in Judging
        /\ entry' = [entry EXCEPT !.outcome = "abandoned"]
        /\ hist' = NextLife(hist.lives + 1)
     \/ /\ asked \in {"borderline", "collapse"}
        /\ entry' = [entry EXCEPT !.outcome = "accepted"]
        /\ hist' = [NextLife(hist.lives + 1) EXCEPT !.anyway = asked = "collapse"]
  /\ asked' = "none"
  /\ UNCHANGED <<pc, u, contract, ledger>>

\* resumeConduct, the unit entered again: any other answer is dropped, the contract is skipped only if
\* the entry says it was agreed or forced, and a run without a brain is resumed as hybrid.
Resume ==
  /\ pc = "down" /\ entry.outcome \in Resumable /\ hist.lives < MaxLives
  /\ LET v == NewUnit(IF u.mode = "none" THEN "hybrid" ELSE u.mode, u.pivotN, u.fallback, u.escalation)
         ready == contract.settled /\ (entry.agreed \/ entry.forced)
     IN IF ready
        THEN u' = [v EXCEPT !.agreed = entry.agreed, !.forced = entry.forced] /\ StartRounds(v)
        ELSE u' = v /\ pc' = "contract"
  /\ entry' = [entry EXCEPT !.outcome = "pending"]
  /\ asked' = "none"
  /\ hist' = NextLife(hist.lives + 1)
  /\ UNCHANGED <<contract, ledger>>

Work == \/ ContractRound \/ JudgeContract \/ Generate \/ Regenerate \/ JudgeGenerator
        \/ Evaluate \/ Reevaluate \/ JudgeEvaluator \/ JudgeBorderline \/ JudgeCollapse
        \/ JudgeDefect \/ JudgeExhausted \/ Strike \/ StrikeEvaluate \/ StrikeReevaluate
        \/ JudgeStrike \/ Drive \/ JudgeSurfaced

Alive == (Work \/ RoleRejects) /\ UNCHANGED asked

Next == Alive \/ Kill \/ RecoverDecision \/ Resume

Spec == Init /\ [][Next]_vars

\* Roles end (the role client waits for the process, whose turns and budget are capped) and
\* judgments are answered: by policy, by the brain, by a timeout, or by the person a parked decision
\* waits for.
FairSpec == Spec /\ WF_vars(Work /\ UNCHANGED asked)

-----------------------------------------------------------------------------
(* Properties. *)

Outcomes == {"pending", "running", "accepted", "exhausted", "inconclusive", "grade-not-independent",
             "abandoned", "error"}
PCs == {"contract", "nonconvergence", "gen", "regen", "genAsk", "eval", "reeval", "evalAsk",
        "borderline", "collapse", "defect", "exhausted", "strike", "strikeEval", "strikeReeval",
        "strikeAsk", "drive", "surface", "down"}

\* The types of the state.
TypeOK ==
  /\ pc \in PCs
  /\ u.round \in 1 .. MaxRounds + 1 /\ u.executed \in 0 .. MaxRounds /\ u.cr \in 0 .. ContractMax
  /\ u.last \in Grades /\ u.failed \in Seq(SUBSET Assertions)
  /\ u.deferred \in {"none", "continue-patch", "pivot"}
  /\ entry \in [outcome : Outcomes, agreed : BOOLEAN, forced : BOOLEAN]
  /\ asked \in {"none"} \cup Judging
  /\ contract \in [settled : BOOLEAN, struck : SUBSET Assertions]
  /\ ledger \in Seq(Records)
  /\ hist.generated \subseteq 1 .. MaxRounds

Ended == pc = "down" /\ entry.outcome \notin Resumable

\* A unit that was accepted, by its rounds or by a recovered decision of a runner that died, stands on
\* a grade of the artifact as it is: no generator ran after the grade, recovered or not, and the grade
\* is an independent pass unless the gate-collapse judgment took it anyway.  The brain of the llm mode
\* may accept with no grade at all and is outside (unitRunner.ts, loop.ts, run.ts: resumeConduct).
AcceptWarranted ==
  Ended /\ entry.outcome = "accepted" /\ u.mode # "llm" =>
    /\ ~hist.fresh
    /\ hist.anyway \/ hist.earned

\* An assertion is struck only after every round of this life failed it and the last failed nothing
\* else, and from then on nothing is generated: what is graded again is what was graded before
\* (strikeAndReEvaluate: "NEVER a generate round").
StrikeSound ==
  \A a \in hist.struck :
    /\ \A i \in DOMAIN hist.struckFrom : a \in hist.struckFrom[i]
    /\ hist.struckFrom # <<>> /\ hist.struckFrom[Len(hist.struckFrom)] = {a}
    /\ ~hist.fresh

\* The life of the unit as the rest of conduct sees it.
Life == INSTANCE UnitLife WITH outcome <- entry.outcome, alive <- pc # "down"

\* The unit's entry in run.json follows the life the run and its resume rely on.
FollowsLife == Life!Spec

\* Once nothing kills it any more, a unit's runner ends: no judgment, recovery or retry makes the
\* rounds go on for ever.
UnitEnds == <>[](pc = "down")

-----------------------------------------------------------------------------
(* What a comment or a document says and the code does not keep (README, section 4). *)

\* "records EVERY decided round" (attemptLedger.ts:9), for a unit that ends in its first life.
EveryRoundRecorded ==
  Ended /\ hist.lives = 1 /\ u.mode = "hybrid" => \A r \in hist.generated : Recorded(ledger, r)
=============================================================================
