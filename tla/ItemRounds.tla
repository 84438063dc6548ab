------------------------------ MODULE ItemRounds ------------------------------
(***************************************************************************)
(* The rounds of one work item of `sparra build` (src/phases/build.ts):      *)
(* contract, then generate, check, evaluate and decide, until the item is    *)
(* accepted, abandoned, over budget or out of rounds.  The items before and  *)
(* after it, and the effects of an acceptance, are in BuildAcceptance.       *)
(*                                                                          *)
(* `s` is the item's state in memory and `saved` what state.json holds: the  *)
(* code changes s freely and saves it at given points, so a kill takes s     *)
(* back to the last save.  The attempt ledger is a file of its own, appended *)
(* between the saves.  Sessions cost one unit; a session cut short by a      *)
(* provider limit may cost nothing.                                          *)
(***************************************************************************)
EXTENDS AttemptLedger, FiniteSets

CONSTANTS
  MaxRounds,     \* build.maxRoundsPerItem
  Cap,           \* build.maxBudgetUsdPerItem in sessions, 0 for no cap
  PivotN,        \* pivot.N
  EscalateAfter, \* build.escalateAfterRounds, 0 for off
  MaxRestarts,   \* build.autoRestart.maxRestarts
  HasFallback,   \* the roles have a fallback model on another backend
  Preflight,     \* build.preflightVerify
  Gates,         \* which of "rerun", "second", "review" are configured
  ContractStep,  \* --step=contract
  ResetMayFail,  \* the git commands of the pivot's workspace reset may fail
  MaxCrashes     \* bound on process kills

ASSUME BoundsAssumption == /\ {MaxRounds, PivotN} \subseteq Nat \ {0}
                           /\ {Cap, EscalateAfter, MaxRestarts, MaxCrashes} \subseteq Nat
ASSUME ConfigAssumption == /\ {HasFallback, Preflight, ContractStep, ResetMayFail} \subseteq BOOLEAN
                           /\ Gates \subseteq {"rerun", "second", "review"}

Roles    == {"generator", "evaluator"}
Findings == {"pass", "fail", "weak", "envBlocked", "blocked"} \* weak: a criterion under pivot.threshold

VARIABLES
  s, saved, \* the item's state in memory and in state.json
  ledger,   \* attempts.jsonl
  limited,  \* the roles whose primary backend is in a limit window
  pc,       \* the running process, "down" when there is none
  v,        \* what only the process holds: fresh, roundKind, roundEval, ...
  seen,     \* history: rounds -> what the evaluator found, "none" before it graded
  hist      \* history: sessions billed, human pivots, kills, failed resets, human accept

vars == <<s, saved, ledger, limited, pc, v, seen, hist>>

NewItem == [status |-> "pending", round |-> 0, spent |-> 0, failed |-> 0, escalated |-> FALSE,
            streak |-> 0, pivots |-> 0, bounced |-> FALSE, high |-> FALSE, acked |-> FALSE,
            paused |-> "none", stepping |-> FALSE, restarts |-> 0]

NewProcess == [fresh |-> FALSE, kind |-> "initial", found |-> "none", inconclusive |-> FALSE,
               fallback |-> FALSE]

NoHistory == [billed |-> 0, human |-> 0, crashes |-> 0, resets |-> 0, accepted |-> "no"]

Init ==
  /\ s = NewItem /\ saved = NewItem
  /\ ledger = <<>> /\ limited = {}
  /\ pc = "down" /\ v = NewProcess
  /\ seen = [r \in 0 .. MaxRounds |-> "none"] /\ hist = NoHistory

(* Faulty variants of the definitions below, substituted for them to see the properties fail. *)
BudgetOffByOne        == Cap > 0 /\ s.spent > Cap
StreakOnAnyFail(found) == IF found = "envBlocked" THEN s.streak ELSE s.streak + 1
RoundConsumed         == s
GradeByScore(found)   == IF s'.high THEN "rerun" ELSE IF found = "blocked" THEN "inconclusive" ELSE "failing"

OverBudget == Cap > 0 /\ s.spent >= Cap
LastRound  == s.round >= MaxRounds

\* roundEval.verdict: an exercise that could not run is graded "fail" as well.
Graded(found) == CASE found = "none" -> "null" [] found = "pass" -> "pass"
                   [] found \in Findings \ {"pass"} -> "fail"

\* The verdict a resumed process assigns to the round it was paused after.
ResumedVerdict == IF s.high THEN "pass" ELSE "fail"
ResumedKind    == IF s.round <= 1 THEN "initial" ELSE "patch"

Attempt(kind, decision, verdict) ==
  [round |-> s.round, kind |-> kind, decision |-> decision, verdict |-> verdict]
Record(decision, verdict) == ledger' = AppendAttempt(ledger, Attempt(v.kind, decision, verdict))

\* noteFailedRound: a round generated on a limit-triggered fallback does not count.
NoteFailed(x) == IF v.fallback THEN x ELSE [x EXCEPT !.failed = @ + 1]

\* updateStreaksAndDecide for one criterion.
StreakAfter(found) == CASE found = "weak" -> s.streak + 1 [] found = "envBlocked" -> s.streak
                        [] found = "fail" -> 0

GiveBack(n) == IF n > 0 THEN n - 1 ELSE 0

\* A session that is billed c units.
Bill(c) == /\ s' = [s EXCEPT !.spent = @ + c]
           /\ hist' = [hist EXCEPT !.billed = @ + c]

Down == pc' = "down" /\ v' = NewProcess

-----------------------------------------------------------------------------
(* Starting the process, the contract, and the decision a human left.        *)

\* `sparra build [--step=round]`: the step is remembered; time may have closed limit windows.
Start(step, open) ==
  /\ pc = "down" /\ open \subseteq limited
  /\ step => ~s.stepping
  /\ s' = [s EXCEPT !.stepping = @ \/ step] /\ saved' = s'
  /\ limited' = open
  /\ pc' = "item"
  /\ UNCHANGED <<ledger, v, seen, hist>>

SkipTerminal ==
  /\ pc = "item" /\ s.status \in {"passed", "abandoned", "budget_exceeded"}
  /\ Down
  /\ UNCHANGED <<s, saved, ledger, limited, seen, hist>>

NegotiateContract ==
  /\ pc = "item" /\ s.status \notin {"passed", "abandoned", "budget_exceeded"}
  /\ s' = [s EXCEPT !.status = "contracting"] /\ saved' = s'
  /\ pc' = "contract"
  /\ UNCHANGED <<ledger, limited, v, seen, hist>>

PauseContract ==
  /\ pc = "contract" /\ s.paused # "contract" /\ ContractStep /\ ~s.acked
  /\ s' = [s EXCEPT !.paused = "contract"] /\ saved' = s'
  /\ Down
  /\ UNCHANGED <<ledger, limited, seen, hist>>

EnterRounds ==
  /\ pc = "contract" /\ (s.paused = "contract" \/ ~ContractStep \/ s.acked)
  /\ IF s.paused = "contract"
     THEN saved' = [s EXCEPT !.acked = TRUE, !.paused = "none"]
     ELSE UNCHANGED saved
  /\ s' = [saved' EXCEPT !.status = "building"]
  /\ pc' = (IF s.paused = "round" THEN "decision" ELSE "loop")
  /\ UNCHANGED <<ledger, limited, v, seen, hist>>

\* The reason is asked for when the score is below the threshold.
RefuseAccept ==
  /\ pc = "decision" /\ ~s.high
  /\ pc' = "stopping"
  /\ UNCHANGED <<s, saved, ledger, limited, v, seen, hist>>

Unpaused == [s EXCEPT !.paused = "none"]
RecordHuman(decision) ==
  ledger' = AppendAttempt(ledger, Attempt(ResumedKind, decision, ResumedVerdict))

HumanAccept(reasoned) ==
  /\ pc = "decision" /\ (reasoned \/ s.high)
  /\ s' = Unpaused
  /\ RecordHuman("human-accept")
  /\ hist' = [hist EXCEPT !.accepted = IF reasoned THEN "reasoned" ELSE "bare"]
  /\ pc' = "humanAccepting"
  /\ UNCHANGED <<saved, limited, v, seen>>

HumanAbandon ==
  /\ pc = "decision"
  /\ s' = [Unpaused EXCEPT !.status = "abandoned"]
  /\ RecordHuman("human-abandon")
  /\ pc' = "stopping"
  /\ UNCHANGED <<saved, limited, v, seen, hist>>

HumanPivot ==
  /\ pc = "decision"
  /\ s' = [Unpaused EXCEPT !.pivots = @ + 1, !.streak = 0]
  /\ v' = [v EXCEPT !.fresh = TRUE]
  /\ RecordHuman("pivot")
  /\ hist' = [hist EXCEPT !.human = @ + 1]
  /\ pc' = "loop"
  /\ UNCHANGED <<saved, limited, seen>>

HumanContinue ==
  /\ pc = "decision"
  /\ s' = Unpaused
  /\ RecordHuman("continue-patch")
  /\ pc' = "loop"
  /\ UNCHANGED <<saved, limited, v, seen, hist>>

-----------------------------------------------------------------------------
(* One round: generation and the checks before the evaluator.                *)

NextRound ==
  /\ pc = "loop" /\ ~LastRound /\ ~OverBudget
  /\ LET escalates == ~s.escalated /\ EscalateAfter > 0 /\ s.failed >= EscalateAfter
     IN /\ s' = [s EXCEPT !.round = @ + 1, !.escalated = @ \/ escalates]
        /\ saved' = (IF escalates THEN s' ELSE saved)
  /\ v' = [v EXCEPT !.kind = IF s'.round = 1 THEN "initial" ELSE IF v.fresh THEN "pivot" ELSE "patch",
                    !.found = "none", !.inconclusive = FALSE,
                    !.fallback = HasFallback /\ "generator" \in limited]
  /\ pc' = (IF v.fresh THEN "reset" ELSE "generate")
  /\ UNCHANGED <<ledger, limited, seen, hist>>

\* maybeResetWorkspace, whether it resets or declines to.
ResetWorkspace ==
  /\ pc = "reset"
  /\ pc' = "generate"
  /\ UNCHANGED <<s, saved, ledger, limited, v, seen, hist>>

ResetFails ==
  /\ pc = "reset" /\ ResetMayFail
  /\ s' = [s EXCEPT !.status = "failed"] /\ saved' = s'
  /\ hist' = [hist EXCEPT !.resets = @ + 1]
  /\ Down
  /\ UNCHANGED <<ledger, limited, seen>>

\* The session ends well, at a provider limit, or at its own budget cap.
Generate(end, c) ==
  /\ pc = "generate" /\ (end # "limit" => c = 1)
  /\ Bill(c)
  /\ pc' = (CASE end = "ok" -> "generated" [] end = "limit" -> "limitedOut" [] end = "budget" -> "died")
  /\ UNCHANGED <<saved, ledger, limited, v, seen>>

AfterGeneration(p) ==
  CASE p = "generated" -> "check" [] p = "limitedOut" -> "generatorLimit" [] p = "died" -> "deathCheck"

SaveGeneration ==
  /\ pc \in {"generated", "limitedOut", "died"}
  /\ saved' = s
  /\ pc' = AfterGeneration(pc)
  /\ UNCHANGED <<s, ledger, limited, v, seen, hist>>

RoundGivenBack == [s EXCEPT !.round = GiveBack(@)]
RestartsAfter  == s.restarts + 1

AtLimit(role) == pc = (IF role = "generator" THEN "generatorLimit" ELSE "evaluatorLimit")

\* onLimit: another model, or a wait, or the end of the run; the round is given back.
LimitRetry(role) ==
  /\ AtLimit(role)
  /\ IF HasFallback /\ role \notin limited
     THEN limited' = limited \cup {role} /\ s' = RoundGivenBack
     ELSE /\ s.restarts < MaxRestarts /\ UNCHANGED limited
          /\ s' = [RoundGivenBack EXCEPT !.restarts = RestartsAfter]
  /\ saved' = s'
  /\ pc' = "loop"
  /\ UNCHANGED <<ledger, v, seen, hist>>

LimitHalt(role) ==
  /\ AtLimit(role) /\ ~(HasFallback /\ role \notin limited) /\ s.restarts >= MaxRestarts
  /\ s' = RoundGivenBack
  /\ pc' = "stopping"
  /\ UNCHANGED <<saved, ledger, limited, v, seen, hist>>

\* A session that died on its own cap, with budget left on the item: the same round again.
RetryAfterDeath ==
  /\ pc = "deathCheck" /\ ~OverBudget
  /\ s' = RoundGivenBack /\ saved' = s'
  /\ v' = [v EXCEPT !.fresh = FALSE]
  /\ pc' = "loop"
  /\ UNCHANGED <<ledger, limited, seen, hist>>

\* The contract's own commands fail: back to the generator, at most once per evaluation.
PreflightBounce ==
  /\ pc = "check" /\ ~OverBudget /\ Preflight /\ ~s.bounced
  /\ s' = [NoteFailed(s) EXCEPT !.bounced = TRUE] /\ saved' = s'
  /\ pc' = "bounced"
  /\ UNCHANGED <<ledger, limited, v, seen, hist>>

RecordBounce ==
  /\ pc = "bounced"
  /\ Record("continue-patch", "null")
  /\ v' = [v EXCEPT !.fresh = LastRound /\ @]
  /\ pc' = "loop"
  /\ UNCHANGED <<s, saved, limited, seen, hist>>

PreflightClean ==
  /\ pc = "check" /\ ~OverBudget
  /\ pc' = "evaluate"
  /\ UNCHANGED <<s, saved, ledger, limited, v, seen, hist>>

-----------------------------------------------------------------------------
(* Grading, and what is decided on the grade.                                *)

EvaluatorLimited(c) ==
  /\ pc = "evaluate"
  /\ Bill(c)
  /\ pc' = "evaluatorLimit"
  /\ UNCHANGED <<saved, ledger, limited, v, seen>>

AfterGrade(found) == CASE found = "pass" -> "rerun" [] found = "blocked" -> "inconclusive"
                       [] found \in {"fail", "weak", "envBlocked"} -> "failing"

\* A pass is above the threshold; anything else may be too.  Nothing is saved here.
Evaluate(found, high) ==
  /\ pc = "evaluate" /\ (found = "pass" => high)
  /\ s' = [s EXCEPT !.spent = @ + 1, !.bounced = FALSE, !.high = high]
  /\ v' = [v EXCEPT !.found = found]
  /\ seen' = [seen EXCEPT ![s.round] = found]
  /\ hist' = [hist EXCEPT !.billed = @ + 1]
  /\ pc' = (IF s.stepping THEN "roundPause" ELSE AfterGrade(found))
  /\ UNCHANGED <<saved, ledger, limited>>

\* pause.md and decision.json are written before the pause is saved.
PauseRound ==
  /\ pc = "roundPause"
  /\ s' = [s EXCEPT !.paused = "round"] /\ saved' = s'
  /\ Down
  /\ UNCHANGED <<ledger, limited, seen, hist>>

GateAfter(g) == CASE g = "rerun" -> "second" [] g = "second" -> "review" [] g = "review" -> "accepting"

\* The second opinion and the review are sessions, saved once billed; the reruns are not.
PassGate ==
  /\ pc \in {"rerun", "second", "review"}
  /\ IF pc \in Gates \ {"rerun"} THEN Bill(1) /\ saved' = s' ELSE UNCHANGED <<s, saved, hist>>
  /\ pc' = GateAfter(pc)
  /\ UNCHANGED <<ledger, limited, v, seen>>

\* A gate that objects demotes the pass to a failed round.
Demote ==
  /\ pc \in Gates
  /\ LET c == IF pc = "rerun" THEN 0 ELSE 1
         billed == [s EXCEPT !.spent = @ + c]
     IN /\ s' = NoteFailed(billed)
        /\ saved' = (IF c = 0 THEN saved ELSE billed)
        /\ hist' = [hist EXCEPT !.billed = @ + c]
  /\ pc' = "patch"
  /\ UNCHANGED <<ledger, limited, v, seen>>

Inconclusive ==
  /\ pc = "inconclusive"
  /\ v' = [v EXCEPT !.inconclusive = TRUE]
  /\ saved' = s
  /\ pc' = "patch"
  /\ UNCHANGED <<s, ledger, limited, seen, hist>>

Fail ==
  /\ pc = "failing"
  /\ s' = [NoteFailed(s) EXCEPT !.streak = StreakAfter(v.found)] /\ saved' = s'
  /\ pc' = (IF v.found = "weak" /\ s'.streak >= PivotN THEN "pivot" ELSE "patch")
  /\ UNCHANGED <<ledger, limited, v, seen, hist>>

Patch ==
  /\ pc = "patch" /\ ~OverBudget /\ ~LastRound
  /\ Record("continue-patch", IF v.inconclusive THEN "null" ELSE Graded(v.found))
  /\ v' = [v EXCEPT !.fresh = FALSE]
  /\ pc' = "loop"
  /\ UNCHANGED <<s, saved, limited, seen, hist>>

Pivot ==
  /\ pc = "pivot" /\ ~OverBudget /\ ~LastRound
  /\ s' = [s EXCEPT !.pivots = @ + 1, !.streak = 0] /\ saved' = s'
  /\ pc' = "pivoted"
  /\ UNCHANGED <<ledger, limited, v, seen, hist>>

RecordPivot ==
  /\ pc = "pivoted"
  /\ Record("pivot", Graded(v.found))
  /\ v' = [v EXCEPT !.fresh = TRUE]
  /\ pc' = "loop"
  /\ UNCHANGED <<s, saved, limited, seen, hist>>

-----------------------------------------------------------------------------
(* How an item ends.                                                         *)

\* finishAcceptance saves "passed" first; its effects are in BuildAcceptance.
Accept ==
  /\ pc \in {"accepting", "humanAccepting"}
  /\ s' = [s EXCEPT !.status = "passed"] /\ saved' = s'
  /\ pc' = (IF pc = "accepting" THEN "accepted" ELSE "stopping")
  /\ UNCHANGED <<ledger, limited, v, seen, hist>>

RecordAccept ==
  /\ pc = "accepted"
  /\ Record("accept", Graded(v.found))
  /\ pc' = "stopping"
  /\ UNCHANGED <<s, saved, limited, v, seen, hist>>

\* Where the budget is looked at: before a round, after a session, before a decision.
BudgetChecks == {"loop", "deathCheck", "check", "patch", "pivot"}

HaltOnBudget ==
  /\ pc \in BudgetChecks /\ OverBudget /\ (pc = "loop" => ~LastRound)
  /\ s' = [s EXCEPT !.status = "budget_exceeded"] /\ saved' = s'
  /\ pc' = "halted"
  /\ UNCHANGED <<ledger, limited, v, seen, hist>>

RecordHalt ==
  /\ pc = "halted"
  /\ Record("budget-halt", Graded(v.found))
  /\ pc' = "stopping"
  /\ UNCHANGED <<s, saved, limited, v, seen, hist>>

\* Out of rounds: at the loop's condition, or right after the last round's grade.
RunOut ==
  /\ LastRound /\ (pc = "loop" \/ (pc \in {"patch", "pivot"} /\ ~OverBudget))
  /\ s' = [s EXCEPT !.status = "failed"]
  /\ Record(IF v.inconclusive THEN "terminal-inconclusive" ELSE "terminal-fail",
            IF v.inconclusive THEN "null" ELSE IF v.found = "none" THEN "fail" ELSE Graded(v.found))
  /\ pc' = "stopping"
  /\ UNCHANGED <<saved, limited, v, seen, hist>>

\* The save every way out of the round loop comes to.
Stop ==
  /\ pc = "stopping"
  /\ saved' = s
  /\ Down
  /\ UNCHANGED <<s, ledger, limited, seen, hist>>

Crash ==
  /\ pc # "down" /\ hist.crashes < MaxCrashes
  /\ s' = saved
  /\ hist' = [hist EXCEPT !.crashes = @ + 1]
  /\ Down
  /\ UNCHANGED <<saved, ledger, limited, seen>>

-----------------------------------------------------------------------------
Enter == SkipTerminal \/ NegotiateContract \/ PauseContract \/ EnterRounds

Human == RefuseAccept \/ (\E r \in BOOLEAN : HumanAccept(r)) \/ HumanAbandon \/ HumanPivot \/ HumanContinue

Generation ==
  \/ NextRound \/ ResetWorkspace \/ ResetFails
  \/ \E end \in {"ok", "limit", "budget"}, c \in 0 .. 1 : Generate(end, c)
  \/ SaveGeneration
  \/ \E role \in Roles : LimitRetry(role) \/ LimitHalt(role)
  \/ RetryAfterDeath
  \/ PreflightBounce \/ RecordBounce \/ PreflightClean

Grading ==
  \/ \E c \in 0 .. 1 : EvaluatorLimited(c)
  \/ \E found \in Findings, high \in BOOLEAN : Evaluate(found, high)
  \/ PauseRound \/ PassGate \/ Demote \/ Inconclusive \/ Fail
  \/ Patch \/ Pivot \/ RecordPivot

Ending == Accept \/ RecordAccept \/ HaltOnBudget \/ RecordHalt \/ RunOut \/ Stop

Run == Enter \/ Human \/ Generation \/ Grading \/ Ending

Next ==
  \/ \E step \in BOOLEAN, open \in SUBSET limited : Start(step, open)
  \/ Run
  \/ Crash

Spec == Init /\ [][Next]_vars

-----------------------------------------------------------------------------
(* Properties.                                                               *)

TypeOK ==
  /\ s.status \in {"pending", "contracting", "building", "passed", "abandoned", "budget_exceeded", "failed"}
  /\ saved.status \in {"pending", "contracting", "building", "passed", "abandoned", "budget_exceeded", "failed"}
  /\ {s.round, saved.round} \subseteq 0 .. MaxRounds
  /\ {s.restarts, saved.restarts} \subseteq 0 .. MaxRestarts
  /\ {s.paused, saved.paused} \subseteq {"none", "contract", "round"}
  /\ {s.spent, saved.spent, s.failed, s.streak, s.pivots} \subseteq Nat
  /\ \A i \in DOMAIN ledger : ledger[i] \in Records
  /\ limited \subseteq Roles
  /\ v.kind \in Kinds /\ v.found \in Findings \cup {"none"}
  /\ seen \in [0 .. MaxRounds -> Findings \cup {"none"}]

\* The budget stops an item.  A kill hides at most two sessions from its recorded spend (the
\* evaluation that is billed but not saved, and the generation or gate session after it), and
\* what is really billed stays within the cap, the grading sessions of the round that crosses
\* it, and what kills have hidden.
SpendBounded ==
  /\ hist.billed - s.spent <= 2 * hist.crashes
  /\ Cap > 0 => hist.billed <= Cap + 2 + 2 * hist.crashes

RoundsSeen(fs) == Cardinality({r \in 1 .. s.round : seen[r] \in fs})

\* Changes of strategy are earned, kills included: every automatic pivot by PivotN gradings
\* with the criterion below its threshold, the escalation by failed rounds; a round whose
\* exercise was blocked counts for neither, and no round counts twice.
StrategyEarned ==
  /\ PivotN * (s.pivots - hist.human) + s.streak <= RoundsSeen({"weak"})
  /\ s.failed <= s.round - RoundsSeen({"blocked"})

\* The ledger is the history of the item's rounds: in order, each once, none of them ahead of
\* the round the item has reached, although rounds are given back and kills take s back.  And
\* no round goes by without a record of what was decided on it: only a kill or a failed
\* workspace reset can use one up.
EveryRoundDecided ==
  /\ \A i, j \in DOMAIN ledger : i < j => ledger[i].round < ledger[j].round
  /\ \A i \in DOMAIN ledger : ledger[i].round <= saved.round
  /\ LET passed == IF s.status = "failed" /\ pc = "down" THEN s.round ELSE s.round - 1
     IN Cardinality({r \in 1 .. passed : ~Recorded(ledger, r)}) <= hist.crashes + hist.resets

\* An item passes on a round the evaluator passed, or on a human's accept of a paused
\* round; a budget halt, a kill or a retry never turns a failing round into a passed item.
PassWarranted ==
  s.status = "passed" =>
    seen[s.round] = "pass" \/ hist.accepted # "no"

-----------------------------------------------------------------------------
(* What a comment or a document says and the code does not keep (README, section 4). *)

\* build-loop.md 236-238: the verdict is "null when no evaluation happened this round (a
\* pre-evaluation budget halt, a preflight bounce, or a blocked / all-un-run inconclusive
\* round) - never fabricated".
VerdictNotFabricated ==
  \A i \in DOMAIN ledger :
    seen[ledger[i].round] \in {"none", "blocked"} => ledger[i].verdict = "null"

\* build-loop.md 169: "Overriding a failed verdict requires a reason".
AcceptOverFailHasReason == hist.accepted = "bare" => seen[s.round] = "pass"
=============================================================================
