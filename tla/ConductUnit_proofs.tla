-------------------------- MODULE ConductUnit_proofs --------------------------
(***************************************************************************)
(* Theorems about one unit of `sparra conduct` (ConductUnit), for any        *)
(* contract, number of rounds, pivot.N, mode and number of lives: what an    *)
(* accepted unit stands on unless a brain drives it, what a strike rests on,  *)
(* and that the entry                                                          *)
(* in run.json follows the life (UnitLife) the run and its resume rely on;     *)
(* and below, about the decisions that a run parks (ParkedDecisions).          *)
(***************************************************************************)
EXTENDS ConductUnit, ParkedDecisions, WellFoundedInduction, TLAPS

Runners ==
  [mode : Modes \cup {"hybrid"}, pivotN : Nat, fallback : BOOLEAN, escalation : BOOLEAN, ladder : BOOLEAN,
   cr : Nat, agreed : BOOLEAN, forced : BOOLEAN, round : Nat, fails : Nat, pivoting : BOOLEAN, pivots : Nat,
   failed : Seq(SUBSET Assertions), last : Grades, executed : Nat, execPivot : BOOLEAN,
   deferred : {"none", "continue-patch", "pivot"}]

Hists == [lives : Nat, fresh : BOOLEAN, earned : BOOLEAN, anyway : BOOLEAN, generated : SUBSET Nat,
          struck : SUBSET Assertions, struckFrom : Seq(SUBSET Assertions)]

Typed ==
  /\ pc \in PCs /\ u \in Runners /\ hist \in Hists
  /\ entry \in [outcome : Outcomes, agreed : BOOLEAN, forced : BOOLEAN]
  /\ asked \in {"none"} \cup Judging
  /\ contract \in [settled : BOOLEAN, struck : SUBSET Assertions]

\* The places only the hybrid rounds come to, and those only the brain's do.
OfHybrid == {"nonconvergence", "regen", "genAsk", "reeval", "evalAsk", "borderline", "collapse", "defect",
             "exhausted", "strike", "strikeEval", "strikeReeval", "strikeAsk"}
OfBrain  == {"drive", "surface"}
Struck   == {"strikeEval", "strikeReeval", "strikeAsk", "down"}

\* While a unit is run its entry has no end, and its mode is one that comes to this place.
Running ==
  /\ pc # "down" => entry.outcome \in {"pending", "running"}
  /\ pc \in OfHybrid => u.mode = "hybrid"
  /\ pc \in OfBrain => u.mode = "llm"

\* From the grade to the judgments on it, no generator runs; a borderline grade is a pass, and nothing
\* but a grade follows a strike.
GradeStands ==
  /\ pc \in {"borderline", "collapse", "defect", "exhausted", "strike"} => ~hist.fresh
  /\ pc = "borderline" => hist.earned
  /\ hist.struck # {} => pc \in Struck

\* A decision is left by a runner that died, and one on a grade finds the artifact as it was graded.
Left ==
  /\ asked # "none" => pc = "down"
  /\ asked \in {"borderline", "collapse"} => ~hist.fresh
  /\ asked = "borderline" => hist.earned

Inv == Typed /\ Running /\ GradeStands /\ Left /\ AcceptWarranted /\ StrikeSound

-----------------------------------------------------------------------------
(* The operators the steps are made of. *)

LEMMA UngradedFacts == Ungraded \in Grades
  BY DEF Ungraded, Grades

LEMMA NewUnitFacts ==
  ASSUME NEW m \in Modes \cup {"hybrid"}, NEW n \in Nat, NEW f \in BOOLEAN, NEW e \in BOOLEAN
  PROVE  NewUnit(m, n, f, e) \in Runners /\ NewUnit(m, n, f, e).mode = m
  BY UngradedFacts DEF NewUnit, Runners

LEMMA NextLifeFacts ==
  ASSUME NEW n \in Nat, hist \in Hists
  PROVE  /\ NextLife(n) \in Hists /\ NextLife(n).struck = {} /\ NextLife(n).anyway = FALSE
         /\ NextLife(n).fresh = hist.fresh /\ NextLife(n).earned = hist.earned
  <1>1. NewHist \in Hists /\ NewHist.struck = {} /\ NewHist.anyway = FALSE
    BY DEF NewHist, Hists
  <1>2. hist.fresh \in BOOLEAN /\ hist.earned \in BOOLEAN
    BY DEF Hists
  <1> HIDE DEF NewHist
  <1> QED BY <1>1, <1>2 DEF NextLife, Hists

\* The end of a round keeps the mode and the grade.
LEMMA RetryFacts ==
  ASSUME NEW v \in Runners
  PROVE  /\ Retry(v) \in Runners /\ Revise(v) \in Runners /\ Pivot(v) \in Runners
         /\ Retry(v).mode = v.mode /\ Revise(v).mode = v.mode /\ Pivot(v).mode = v.mode
  <1>1. \A w \in Runners, n \in Nat :
          LET r == [w EXCEPT !.deferred = "continue-patch", !.round = n]
          IN r \in Runners /\ r.mode = w.mode
    BY DEF Runners
  <1>2. \A w \in Runners, n \in Nat :
          LET r == [w EXCEPT !.fails = n, !.pivoting = FALSE]
          IN r \in Runners /\ r.mode = w.mode
    BY DEF Runners
  <1>3. \A w \in Runners, n \in Nat :
          LET p == [w EXCEPT !.deferred = "pivot", !.pivots = n, !.fails = 0, !.pivoting = TRUE]
          IN p \in Runners /\ p.mode = w.mode
    BY DEF Runners
  <1>4. v.round + 1 \in Nat
    BY DEF Runners
  <1>5. Retry(v) \in Runners /\ Retry(v).mode = v.mode
    BY <1>1, <1>4 DEF Retry
  <1>6. Retry(v).fails + 1 \in Nat /\ Retry(v).pivots + 1 \in Nat
    BY <1>5 DEF Runners
  <1> QED BY <1>2, <1>3, <1>5, <1>6 DEF Revise, Pivot

LEMMA DecideFacts ==
  ASSUME NEW g \in Grades, NEW v \in Runners, Decide(g, v) = "accept"
  PROVE  g.verdict = "pass" /\ ~g.same
  <1> DEFINE many == v.fails + 1 >= v.pivotN
  <1> DEFINE few  == v.fails + 1 < v.pivotN
  <1>1. many \/ few
    BY DEF Runners
  <1>2. g.verdict \in {"pass", "fail", "null"} /\ g.same \in BOOLEAN
    BY DEF Grades
  <1>3. "accept" = CASE g.same                             -> "grade-not-independent"
                     [] ~g.same /\ g.verdict = "pass"         -> "accept"
                     [] ~g.same /\ g.verdict = "fail" /\ many -> "pivot"
                     [] ~g.same /\ g.verdict = "fail" /\ few  -> "revise"
                     [] ~g.same /\ g.verdict = "null"         -> "inconclusive"
    BY DEF Decide
  <1> HIDE DEF many, few
  <1> QED BY <1>1, <1>2, <1>3

LEMMA GradedFacts ==
  ASSUME Typed, NEW g \in Grades
  PROVE  LET v == [u EXCEPT !.failed = Append(@, g.failed), !.last = g, !.executed = u.round, !.execPivot = u.pivoting]
         IN v \in Runners /\ v.mode = u.mode /\ v.last = g
  <1>1. g.failed \in SUBSET Assertions
    BY DEF Grades
  <1>2. Append(u.failed, g.failed) \in Seq(SUBSET Assertions)
    BY <1>1 DEF Typed, Runners
  <1> QED BY <1>2 DEF Typed, Runners

LEMMA GradedHistFacts ==
  ASSUME NEW g \in Grades, hist \in Hists, hist' = GradedHist(g)
  PROVE  /\ hist' \in Hists /\ hist'.struck = hist.struck /\ hist'.struckFrom = hist.struckFrom /\ ~hist'.fresh
         /\ g.verdict = "pass" /\ ~g.same => hist'.earned
  <1>1. (g.verdict = "pass" /\ ~g.same) \in BOOLEAN
    OBVIOUS
  <1> QED BY <1>1 DEF GradedHist, Hists

LEMMA GoOnFacts ==
  ASSUME NEW v, GoOn(v)
  PROVE  u' = v /\ pc' \in {"gen", "defect", "exhausted"} /\ UNCHANGED <<entry, contract>>
  BY DEF GoOn

LEMMA EndRoundFacts ==
  ASSUME NEW o, NEW d, NEW v, EndRound(o, d, v)
  PROVE  Finish(o, v) /\ UNCHANGED contract
  BY DEF EndRound

-----------------------------------------------------------------------------
(* The two shapes of a step: the unit ends, or it goes on. *)

LEMMA EndInv ==
  ASSUME Inv, pc # "down",
         NEW o \in Outcomes \ {"pending", "running"}, NEW v \in Runners, Finish(o, v), UNCHANGED <<asked, contract>>,
         hist' \in Hists, hist'.struck = hist.struck, hist'.struckFrom = hist.struckFrom,
         hist.struck # {} => ~hist'.fresh,
         o = "accepted" /\ v.mode # "llm" =>
           ~hist'.fresh /\ (hist'.anyway \/ hist'.earned)
  PROVE  Inv'
  <1> USE DEF Inv
  <1>1. Typed'
    BY DEF Typed, Finish, PCs, Runners
  <1>2. Running' /\ GradeStands'
    BY DEF Running, GradeStands, Finish, OfHybrid, OfBrain, Struck
  <1>3. Left' /\ AcceptWarranted' /\ StrikeSound'
    BY DEF Left, AcceptWarranted, StrikeSound, Ended, Finish
  <1> QED BY <1>1, <1>2, <1>3

LEMMA OnInv ==
  ASSUME Inv, pc # "down", UNCHANGED asked, pc' \in PCs \ {"down"},
         u' \in Runners, entry' \in [outcome : Outcomes, agreed : BOOLEAN, forced : BOOLEAN],
         entry'.outcome \in {"pending", "running"},
         contract' \in [settled : BOOLEAN, struck : SUBSET Assertions],
         pc' \in OfHybrid => u'.mode = "hybrid",
         pc' \in OfBrain => u'.mode = "llm",
         hist' \in Hists, hist'.struck = hist.struck, hist'.struckFrom = hist.struckFrom,
         hist.struck # {} => pc' \in Struck /\ ~hist'.fresh,
         pc' \in {"borderline", "collapse", "defect", "exhausted", "strike"} => ~hist'.fresh,
         pc' = "borderline" => hist'.earned
  PROVE  Inv'
  <1> USE DEF Inv
  <1>1. Typed' /\ Running' /\ GradeStands'
    BY DEF Typed, Running, GradeStands
  <1>2. Left' /\ AcceptWarranted' /\ StrikeSound'
    BY DEF Left, AcceptWarranted, StrikeSound, Ended
  <1> QED BY <1>1, <1>2

\* A role that returned leaves the entry at running.
LEMMA ReturnedFacts ==
  ASSUME Typed, RoleReturned
  PROVE  entry' \in [outcome : Outcomes, agreed : BOOLEAN, forced : BOOLEAN] /\ entry'.outcome = "running"
  BY DEF Typed, RoleReturned, Outcomes

LEMMA InitInv == Init => Inv
  <1> SUFFICES ASSUME Init PROVE Inv
    OBVIOUS
  <1>1. u \in Runners
    BY NewUnitFacts, UnitBounds DEF Init
  <1>2. hist \in Hists /\ hist.struck = {} /\ hist.fresh = FALSE
    BY DEF Init, NewHist, Hists
  <1>3. pc = "contract" /\ entry = [outcome |-> "pending", agreed |-> FALSE, forced |-> FALSE]
        /\ contract = [settled |-> FALSE, struck |-> {}] /\ asked = "none"
    BY DEF Init
  <1> QED BY <1>1, <1>2, <1>3 DEF Inv, Typed, Running, GradeStands, Left, AcceptWarranted, StrikeSound, Ended,
             PCs, Outcomes, OfHybrid, OfBrain

-----------------------------------------------------------------------------
(* The contract and the generator. *)

LEMMA ContractRoundInv == ASSUME Inv, UNCHANGED asked, ContractRound PROVE Inv'
  <1>1. PICK agreed \in BOOLEAN, kept \in {{}, contract.struck} :
          LET last == u.cr + 1 = ContractMax
              judged == u.mode = "hybrid"
          IN /\ u' = [u EXCEPT !.cr = @ + 1, !.agreed = agreed, !.forced = ~agreed /\ last /\ ~judged]
             /\ contract' = [settled |-> agreed \/ (last /\ ~judged), struck |-> kept]
             /\ \/ (agreed \/ (last /\ ~judged)) /\ StartRounds(u)
                \/ ~agreed /\ ~last /\ UNCHANGED pc
                \/ ~agreed /\ last /\ judged /\ pc' = "nonconvergence"
    BY DEF ContractRound
  <1>2. pc = "contract" /\ RoleReturned /\ UNCHANGED hist
    BY DEF ContractRound
  <1>3. u' \in Runners /\ u'.mode = u.mode
    <2>1. u.cr + 1 \in Nat /\ u \in Runners
      BY DEF Inv, Typed, Runners
    <2> DEFINE v == [u EXCEPT !.cr = @ + 1]
    <2>2. v \in Runners /\ v.mode = u.mode
      BY <2>1 DEF Runners
    <2> HIDE DEF v
    <2> DEFINE w == [v EXCEPT !.agreed = agreed]
    <2>3. w \in Runners /\ w.mode = u.mode
      BY <2>2 DEF Runners
    <2> HIDE DEF w
    <2> DEFINE forced == ~agreed /\ u.cr + 1 = ContractMax /\ ~(u.mode = "hybrid")
    <2>4. u' = [w EXCEPT !.forced = forced]
      BY <1>1 DEF v, w
    <2>5. forced \in BOOLEAN
      OBVIOUS
    <2> HIDE DEF forced
    <2> QED BY <2>3, <2>4, <2>5 DEF Runners
  <1>4. contract' \in [settled : BOOLEAN, struck : SUBSET Assertions]
    BY <1>1 DEF Inv, Typed
  <1>5. /\ pc' \in {"gen", "drive", "contract", "nonconvergence"} /\ (pc' = "drive" => u.mode = "llm")
        /\ (pc' = "nonconvergence" => u.mode = "hybrid")
    BY <1>1, <1>2 DEF StartRounds
  <1>6. entry' \in [outcome : Outcomes, agreed : BOOLEAN, forced : BOOLEAN] /\ entry'.outcome = "running"
    BY <1>2, ReturnedFacts DEF Inv
  <1> QED BY <1>2, <1>3, <1>4, <1>5, <1>6, OnInv DEF Inv, Typed, GradeStands, PCs, OfHybrid, OfBrain, Struck

LEMMA JudgeContractInv == ASSUME Inv, UNCHANGED asked, JudgeContract PROVE Inv'
  <1>1. pc = "nonconvergence" /\ UNCHANGED hist /\ hist.struck = {}
    BY DEF JudgeContract, Inv, GradeStands, Struck
  <1>2. CASE Finish("abandoned", u) /\ UNCHANGED contract
    BY <1>1, <1>2, EndInv DEF Inv, Typed, Outcomes
  <1>3. CASE ~(Finish("abandoned", u) /\ UNCHANGED contract)
    <2>1. /\ u' = [u EXCEPT !.forced = TRUE] /\ contract' = [contract EXCEPT !.settled = TRUE]
          /\ pc' = "gen" /\ UNCHANGED entry
      BY <1>3 DEF JudgeContract
    <2>2. u' \in Runners /\ contract' \in [settled : BOOLEAN, struck : SUBSET Assertions]
      BY <2>1 DEF Inv, Typed, Runners
    <2> QED BY <1>1, <2>1, <2>2, OnInv DEF Inv, Typed, Running, PCs, OfHybrid, OfBrain
  <1> QED BY <1>2, <1>3

LEMMA GeneratedFacts ==
  ASSUME Typed, Generated
  PROVE  hist' \in Hists /\ hist'.struck = hist.struck /\ hist'.struckFrom = hist.struckFrom
  <1>1. u.round \in Nat
    BY DEF Typed, Runners
  <1> QED BY <1>1 DEF Typed, Generated, Hists

LEMMA GenerateInv == ASSUME Inv, UNCHANGED asked, Generate PROVE Inv'
  <1>1. pc = "gen" /\ RoleReturned /\ Generated /\ UNCHANGED contract /\ hist.struck = {}
    BY DEF Generate, Inv, GradeStands, Struck
  <1>2. u' \in Runners /\ u'.mode = u.mode
    BY DEF Generate, Inv, Typed, Runners
  <1>3. pc' = "eval" \/ (u.mode = "hybrid" /\ pc' \in {"eval", "regen", "genAsk"})
    BY DEF Generate, Ends, Recovery
  <1>4. entry' \in [outcome : Outcomes, agreed : BOOLEAN, forced : BOOLEAN] /\ entry'.outcome = "running"
    BY <1>1, ReturnedFacts DEF Inv
  <1>5. hist' \in Hists /\ hist'.struck = hist.struck /\ hist'.struckFrom = hist.struckFrom
    BY <1>1, GeneratedFacts DEF Inv
  <1> QED BY <1>1, <1>2, <1>3, <1>4, <1>5, OnInv DEF Inv, Typed, PCs, OfHybrid, OfBrain

LEMMA RegenerateInv == ASSUME Inv, UNCHANGED asked, Regenerate PROVE Inv'
  <1>1. pc = "regen" /\ pc' = "eval" /\ RoleReturned /\ Generated /\ UNCHANGED <<u, contract>> /\ hist.struck = {}
    BY DEF Regenerate, Inv, GradeStands, Struck
  <1>2. entry' \in [outcome : Outcomes, agreed : BOOLEAN, forced : BOOLEAN] /\ entry'.outcome = "running"
    BY <1>1, ReturnedFacts DEF Inv
  <1>3. hist' \in Hists /\ hist'.struck = hist.struck /\ hist'.struckFrom = hist.struckFrom
    BY <1>1, GeneratedFacts DEF Inv
  <1> QED BY <1>1, <1>2, <1>3, OnInv DEF Inv, Typed, PCs, OfHybrid, OfBrain

\* A judgment on a role that hit its limit: run it again, or abandon the unit.
LEMMA JudgeRecoveryInv ==
  ASSUME Inv, pc # "down", UNCHANGED <<asked, contract, hist>>,
         \/ /\ pc' \in {"regen", "reeval", "strikeReeval"} /\ u.mode = "hybrid" /\ UNCHANGED <<u, entry>>
            /\ hist.struck # {} => pc' \in Struck
         \/ \E v \in Runners : Finish("abandoned", v)
  PROVE  Inv'
  <1>1. hist.struck # {} => ~hist.fresh
    BY DEF Inv, StrikeSound
  <1>2. CASE \E v \in Runners : Finish("abandoned", v)
    BY <1>1, <1>2, EndInv DEF Inv, Typed, Outcomes
  <1>3. CASE pc' \in {"regen", "reeval", "strikeReeval"} /\ u.mode = "hybrid" /\ UNCHANGED <<u, entry>>
             /\ (hist.struck # {} => pc' \in Struck)
    BY <1>1, <1>3, OnInv DEF Inv, Typed, Running, PCs, OfHybrid, OfBrain
  <1> QED BY <1>2, <1>3

LEMMA JudgeGeneratorInv == ASSUME Inv, UNCHANGED asked, JudgeGenerator PROVE Inv'
  <1>1. u \in Runners /\ u.mode = "hybrid" /\ hist.struck = {} /\ pc = "genAsk"
    BY DEF JudgeGenerator, Inv, Typed, Running, GradeStands, OfHybrid, Struck
  <1> QED BY <1>1, JudgeRecoveryInv DEF JudgeGenerator

LEMMA JudgeEvaluatorInv == ASSUME Inv, UNCHANGED asked, JudgeEvaluator PROVE Inv'
  <1>1. u \in Runners /\ u.mode = "hybrid" /\ hist.struck = {} /\ pc = "evalAsk"
    BY DEF JudgeEvaluator, Inv, Typed, Running, GradeStands, OfHybrid, Struck
  <1> QED BY <1>1, JudgeRecoveryInv DEF JudgeEvaluator

LEMMA JudgeStrikeInv == ASSUME Inv, UNCHANGED asked, JudgeStrike PROVE Inv'
  <1>1. u \in Runners /\ u.mode = "hybrid" /\ pc = "strikeAsk"
    BY DEF JudgeStrike, Inv, Typed, Running, OfHybrid
  <1> QED BY <1>1, JudgeRecoveryInv DEF JudgeStrike, EndStrike, Struck

-----------------------------------------------------------------------------
(* The grades of a round and what is decided on them. *)

\* A round that goes on after a grade.
LEMMA GoOnInv ==
  ASSUME Inv, UNCHANGED asked, pc # "down", hist.struck = {}, NEW v \in Runners, v.mode = "hybrid", GoOn(v),
         hist' \in Hists, hist'.struck = hist.struck, hist'.struckFrom = hist.struckFrom, ~hist'.fresh
  PROVE  Inv'
  <1>1. u' = v /\ pc' \in {"gen", "defect", "exhausted"} /\ UNCHANGED <<entry, contract>>
    BY GoOnFacts
  <1> QED BY <1>1, OnInv DEF Inv, Typed, Running, PCs, OfHybrid, OfBrain

\* A unit that stays at a judgment on its grade.
LEMMA AsksInv ==
  ASSUME Inv, UNCHANGED asked, pc # "down", hist.struck = {}, NEW v \in Runners, v.mode = "hybrid", u' = v,
         pc' \in {"borderline", "collapse", "strike"}, UNCHANGED <<entry, contract>>,
         pc' = "borderline" => hist'.earned,
         hist' \in Hists, hist'.struck = hist.struck, hist'.struckFrom = hist.struckFrom, ~hist'.fresh
  PROVE  Inv'
  BY OnInv DEF Inv, Typed, Running, PCs, OfHybrid, OfBrain

LEMMA RecoveringInv ==
  ASSUME Inv, UNCHANGED asked, pc # "down", NEW a \in {"reeval", "strikeReeval"}, NEW b \in {"evalAsk", "strikeAsk"},
         hist.struck # {} => {a, b} \subseteq Struck,
         Recovering(a, b)
  PROVE  Inv'
  <1>1. pc' \in {a, b} /\ u.mode = "hybrid" /\ RoleReturned /\ UNCHANGED <<u, contract, hist>>
    BY DEF Recovering
  <1>2. entry' \in [outcome : Outcomes, agreed : BOOLEAN, forced : BOOLEAN] /\ entry'.outcome = "running"
    BY <1>1, ReturnedFacts DEF Inv
  <1>3. hist.struck # {} => ~hist.fresh
    BY DEF Inv, StrikeSound
  <1> QED BY <1>1, <1>2, <1>3, OnInv DEF Inv, Typed, PCs, OfHybrid, OfBrain

LEMMA GradedInv ==
  ASSUME Inv, UNCHANGED asked, pc \in {"eval", "reeval"}, NEW g \in Grades, Graded(g)
  PROVE  Inv'
  <1> DEFINE v == [u EXCEPT !.failed = Append(@, g.failed), !.last = g, !.executed = u.round, !.execPivot = u.pivoting]
  <1>1. v \in Runners /\ v.mode = u.mode /\ v.last = g
    BY GradedFacts DEF Inv
  <1>2. /\ hist' = GradedHist(g)
        /\ CASE u.mode = "hybrid" -> Judged(v, g)
             [] u.mode = "none"   -> Cycled(v, g)
             [] u.mode = "llm"    -> Driven(v)
    BY DEF Graded
  <1>3. /\ hist' \in Hists /\ hist'.struck = hist.struck /\ hist'.struckFrom = hist.struckFrom /\ ~hist'.fresh
        /\ g.verdict = "pass" /\ ~g.same => hist'.earned
    BY <1>2, GradedHistFacts DEF Inv, Typed
  <1>4. hist.struck = {} /\ pc # "down"
    BY DEF Inv, GradeStands, Struck
  <1>5. /\ Retry(v) \in Runners /\ Revise(v) \in Runners /\ Pivot(v) \in Runners
        /\ Retry(v).mode = u.mode /\ Revise(v).mode = u.mode /\ Pivot(v).mode = u.mode
    BY <1>1, RetryFacts
  <1>6. Decide(g, v) = "accept" => g.verdict = "pass" /\ ~g.same
    BY <1>1, DecideFacts
  <1> HIDE DEF v
  <1>7. CASE u.mode = "hybrid"
    <2>1. Judged(v, g)
      BY <1>2, <1>7
    <2>2. CASE GoPivot(v)
      <3> DEFINE p == Pivot(v)
      <3>1. [p EXCEPT !.ladder = FALSE] \in Runners /\ [p EXCEPT !.ladder = FALSE].mode = u.mode
        BY <1>5 DEF Runners
      <3>2. \/ GoOn(p) \/ GoOn([p EXCEPT !.ladder = FALSE])
            \/ u' = p /\ pc' = "strike" /\ UNCHANGED <<entry, contract, ledger>>
        BY <2>2 DEF GoPivot
      <3> HIDE DEF p
      <3>3. CASE GoOn(p)
        BY <1>3, <1>4, <1>5, <1>7, <3>3, GoOnInv DEF p
      <3>4. CASE GoOn([p EXCEPT !.ladder = FALSE])
        BY <1>3, <1>4, <1>7, <3>1, <3>4, GoOnInv
      <3>5. CASE u' = p /\ pc' = "strike" /\ UNCHANGED <<entry, contract, ledger>>
        BY <1>3, <1>4, <1>5, <1>7, <3>5, AsksInv DEF p
      <3> QED BY <3>2, <3>3, <3>4, <3>5
    <2>3. CASE GoOn(Revise(v))
      BY <1>3, <1>4, <1>5, <1>7, <2>3, GoOnInv
    <2>4. CASE /\ u' = v /\ pc' \in {"borderline", "collapse"} /\ UNCHANGED <<entry, contract, ledger>>
               /\ (pc' = "borderline" => Decide(g, v) = "accept")
      BY <1>1, <1>3, <1>4, <1>6, <1>7, <2>4, AsksInv
    <2>5. CASE \/ EndRound("accepted", "accept", v) /\ Decide(g, v) = "accept"
               \/ EndRound("inconclusive", "terminal-inconclusive", v)
      BY <1>1, <1>3, <1>4, <1>6, <1>7, <2>5, EndInv, EndRoundFacts DEF Outcomes
    <2> QED BY <2>1, <2>2, <2>3, <2>4, <2>5 DEF Judged
  <1>8. CASE u.mode = "none"
    <2> DEFINE on == CASE Decide(g, v) = "pivot" -> [Pivot(v) EXCEPT !.pivots = 0, !.deferred = "none"]
                       [] Decide(g, v) # "pivot" -> [Revise(v) EXCEPT !.deferred = "none"]
    <2>1. on \in Runners /\ on.mode = u.mode
      <3>1. \A w \in Runners : [w EXCEPT !.pivots = 0] \in Runners /\ [w EXCEPT !.pivots = 0].mode = w.mode
        BY DEF Runners
      <3>2. \A w \in Runners : [w EXCEPT !.deferred = "none"] \in Runners /\ [w EXCEPT !.deferred = "none"].mode = w.mode
        BY DEF Runners
      <3>3. [Pivot(v) EXCEPT !.pivots = 0, !.deferred = "none"] \in Runners
            /\ [Pivot(v) EXCEPT !.pivots = 0, !.deferred = "none"].mode = u.mode
        BY <1>5, <3>1, <3>2
      <3>4. [Revise(v) EXCEPT !.deferred = "none"] \in Runners
            /\ [Revise(v) EXCEPT !.deferred = "none"].mode = u.mode
        BY <1>5, <3>2
      <3>5. CASE Decide(g, v) = "pivot"
        BY <3>3, <3>5
      <3>6. CASE Decide(g, v) # "pivot"
        BY <3>4, <3>6
      <3> QED BY <3>5, <3>6
    <2>2. \/ u' = on /\ pc' = "gen" /\ UNCHANGED entry
          \/ Finish("exhausted", on)
          \/ Decide(g, v) = "accept" /\ Finish("accepted", v)
          \/ \E d \in {"grade-not-independent", "inconclusive"} : Finish(d, v)
      BY <1>2, <1>8 DEF Cycled
    <2>3. UNCHANGED contract
      BY <1>2, <1>8 DEF Cycled
    <2> HIDE DEF on
    <2>4. CASE u' = on /\ pc' = "gen" /\ UNCHANGED entry
      BY <1>3, <1>4, <2>1, <2>3, <2>4, OnInv DEF Inv, Typed, Running, PCs, OfHybrid, OfBrain
    <2>5. CASE Finish("exhausted", on) \/ \E d \in {"grade-not-independent", "inconclusive"} : Finish(d, v)
      BY <1>1, <1>3, <1>4, <2>1, <2>3, <2>5, EndInv DEF Outcomes
    <2>6. CASE Decide(g, v) = "accept" /\ Finish("accepted", v)
      BY <1>1, <1>3, <1>4, <1>6, <2>3, <2>6, EndInv DEF Outcomes
    <2> QED BY <2>2, <2>4, <2>5, <2>6
  <1>9. CASE u.mode = "llm"
    <2>1. u' = Retry(v) /\ pc' = "drive" /\ UNCHANGED <<entry, contract>>
      BY <1>2, <1>9 DEF Driven
    <2> QED BY <1>3, <1>4, <1>5, <1>9, <2>1, OnInv DEF Inv, Typed, Running, PCs, OfHybrid, OfBrain
  <1>10. u.mode \in {"hybrid", "none", "llm"}
    BY UnitBounds DEF Inv, Typed, Runners
  <1> QED BY <1>7, <1>8, <1>9, <1>10

LEMMA EvaluateInv == ASSUME Inv, UNCHANGED asked, Evaluate \/ Reevaluate PROVE Inv'
  <1>1. pc \in {"eval", "reeval"} /\ hist.struck = {}
    BY DEF Evaluate, Reevaluate, Inv, GradeStands, Struck
  <1>2. CASE Recovering("reeval", "evalAsk")
    BY <1>1, <1>2, RecoveringInv
  <1>3. CASE \E g \in Grades : Graded(g)
    BY <1>1, <1>3, GradedInv
  <1> QED BY <1>2, <1>3 DEF Evaluate, Reevaluate

LEMMA JudgeBorderlineInv == ASSUME Inv, UNCHANGED asked, JudgeBorderline PROVE Inv'
  <1>1. /\ pc = "borderline" /\ UNCHANGED hist /\ hist.struck = {} /\ ~hist.fresh /\ u \in Runners /\ u.mode = "hybrid"
        /\ hist.earned /\ hist \in Hists
    BY DEF JudgeBorderline, Inv, GradeStands, Running, Typed, OfHybrid, Struck
  <1>2. CASE EndRound("accepted", "accept", u) \/ EndRound("abandoned", "abandon", u)
    BY <1>1, <1>2, EndInv, EndRoundFacts DEF Outcomes
  <1>3. CASE GoOn(Revise(u))
    BY <1>1, <1>3, GoOnInv, RetryFacts
  <1> QED BY <1>2, <1>3 DEF JudgeBorderline

LEMMA JudgeCollapseInv == ASSUME Inv, UNCHANGED asked, JudgeCollapse PROVE Inv'
  <1>1. /\ pc = "collapse" /\ hist.struck = {} /\ ~hist.fresh /\ u \in Runners /\ u.mode = "hybrid" /\ hist \in Hists
    BY DEF JudgeCollapse, Inv, GradeStands, Running, Typed, OfHybrid, Struck
  <1>2. CASE EndRound("accepted", "accept", u) /\ hist' = [hist EXCEPT !.anyway = TRUE]
    <2>1. hist' \in Hists /\ hist'.struck = hist.struck /\ hist'.struckFrom = hist.struckFrom /\ ~hist'.fresh /\ hist'.anyway
      BY <1>1, <1>2 DEF Hists
    <2> QED BY <1>1, <1>2, <2>1, EndInv, EndRoundFacts DEF Outcomes
  <1>3. CASE EndRound("grade-not-independent", "terminal-inconclusive", u) /\ UNCHANGED hist
    BY <1>1, <1>3, EndInv, EndRoundFacts DEF Outcomes
  <1>4. CASE GoOn(Retry(u)) /\ UNCHANGED hist
    BY <1>1, <1>4, GoOnInv, RetryFacts
  <1> QED BY <1>2, <1>3, <1>4 DEF JudgeCollapse

LEMMA JudgeSpentInv == ASSUME Inv, UNCHANGED asked, JudgeDefect \/ JudgeExhausted PROVE Inv'
  <1>1. /\ pc \in {"defect", "exhausted"} /\ UNCHANGED hist /\ hist.struck = {} /\ ~hist.fresh /\ u \in Runners
        /\ u.mode = "hybrid" /\ hist \in Hists
    BY DEF JudgeDefect, JudgeExhausted, Inv, GradeStands, Running, Typed, OfHybrid, Struck
  <1>2. CASE pc' = "strike" /\ UNCHANGED <<u, entry, contract, ledger>>
    BY <1>1, <1>2, AsksInv
  <1>3. CASE EndRound("abandoned", "abandon", u) \/ EndRound("exhausted", "terminal-fail", u)
    BY <1>1, <1>3, EndInv, EndRoundFacts DEF Outcomes
  <1> QED BY <1>2, <1>3 DEF JudgeDefect, JudgeExhausted

-----------------------------------------------------------------------------
(* The strike. *)

LEMMA StrikeInv == ASSUME Inv, UNCHANGED asked, Strike PROVE Inv'
  <1>1. pc = "strike" /\ UNCHANGED <<u, ledger>> /\ ~hist.fresh /\ hist.struck = {} /\ u \in Runners /\ u.mode = "hybrid"
    BY DEF Strike, Inv, GradeStands, Running, Typed, OfHybrid, Struck
  <1>2. PICK a \in Defects(u) :
          \/ /\ contract' = [contract EXCEPT !.struck = @ \cup {a}]
             /\ pc' = "strikeEval"
             /\ hist' = [hist EXCEPT !.struckFrom = u.failed, !.struck = {a}]
             /\ UNCHANGED entry
          \/ /\ entry' = [entry EXCEPT !.outcome = "error"]
             /\ pc' = "down"
             /\ UNCHANGED <<contract, hist>>
    BY DEF Strike
  <1>3. /\ a \in Assertions /\ u.failed # <<>> /\ u.failed[Len(u.failed)] = {a}
        /\ \A i \in DOMAIN u.failed : a \in u.failed[i]
    BY <1>2 DEF Defects
  <1>4. CASE pc' = "strikeEval"
    <2>1. /\ contract' = [contract EXCEPT !.struck = @ \cup {a}] /\ UNCHANGED entry
          /\ hist' = [hist EXCEPT !.struckFrom = u.failed, !.struck = {a}]
      BY <1>2, <1>4
    <2>2. contract' \in [settled : BOOLEAN, struck : SUBSET Assertions]
      BY <1>3, <2>1 DEF Inv, Typed
    <2>3. hist' \in Hists /\ hist'.struck = {a} /\ hist'.struckFrom = u.failed /\ hist'.fresh = hist.fresh
      BY <1>1, <1>3, <2>1 DEF Inv, Typed, Hists, Runners
    <2>4. Typed' /\ Running' /\ GradeStands' /\ Left'
      BY <1>1, <1>4, <2>1, <2>2, <2>3 DEF Inv, Typed, Running, GradeStands, Left, PCs, OfHybrid, OfBrain, Struck
    <2>5. AcceptWarranted' /\ StrikeSound'
      BY <1>1, <1>3, <1>4, <2>3 DEF AcceptWarranted, StrikeSound, Ended
    <2> QED BY <2>4, <2>5 DEF Inv
  <1>5. CASE pc' = "down"
    <2>1. entry' = [entry EXCEPT !.outcome = "error"] /\ UNCHANGED <<contract, hist>>
      BY <1>2, <1>5
    <2> QED BY <1>1, <1>5, <2>1 DEF Inv, Typed, Running, GradeStands, Left, AcceptWarranted, StrikeSound, Ended, Resumable,
               PCs, Outcomes, OfHybrid, OfBrain, Struck
  <1> QED BY <1>2, <1>4, <1>5

LEMMA EndStrikeFacts ==
  ASSUME NEW o, NEW d, NEW v, NEW g, EndStrike(o, d, v, g)
  PROVE  Finish(o, v) /\ UNCHANGED contract
  BY DEF EndStrike

LEMMA StrikeGradedInv ==
  ASSUME Inv, UNCHANGED asked, pc \in {"strikeEval", "strikeReeval"}, NEW g \in Grades, StrikeGraded(g)
  PROVE  Inv'
  <1> DEFINE v == [u EXCEPT !.failed = Append(@, g.failed), !.last = g]
  <1>1. v \in Runners /\ v.last = g
    <2>1. Append(u.failed, g.failed) \in Seq(SUBSET Assertions)
      BY DEF Inv, Typed, Runners, Grades
    <2> QED BY <2>1 DEF Inv, Typed, Runners
  <1> DEFINE d == Decide(g, [v EXCEPT !.fails = 0])
  <1>2. d = "accept" => g.verdict = "pass" /\ ~g.same
    <2>1. [v EXCEPT !.fails = 0] \in Runners
      BY <1>1 DEF Runners
    <2> QED BY <2>1, DecideFacts
  <1>3. /\ \/ d = "accept" /\ EndStrike("accepted", "accept", v, g)
           \/ /\ d \in {"grade-not-independent", "inconclusive"}
              /\ EndStrike(d, "terminal-inconclusive", v, g)
           \/ EndStrike("exhausted", "terminal-fail", v, g)
        /\ hist' = GradedHist(g)
    BY DEF StrikeGraded
  <1>4. /\ hist' \in Hists /\ hist'.struck = hist.struck /\ hist'.struckFrom = hist.struckFrom /\ ~hist'.fresh
        /\ g.verdict = "pass" /\ ~g.same => hist'.earned
    BY <1>3, GradedHistFacts DEF Inv, Typed
  <1> HIDE DEF v, d
  <1>5. \/ d = "accept" /\ Finish("accepted", v)
        \/ \E o \in {"grade-not-independent", "inconclusive", "exhausted"} : Finish(o, v)
    BY <1>3, EndStrikeFacts
  <1>6. UNCHANGED contract
    BY <1>3, EndStrikeFacts
  <1> QED BY <1>1, <1>2, <1>4, <1>5, <1>6, EndInv DEF Outcomes

LEMMA StrikeEvaluateInv == ASSUME Inv, UNCHANGED asked, StrikeEvaluate \/ StrikeReevaluate PROVE Inv'
  <1>1. pc \in {"strikeEval", "strikeReeval"}
    BY DEF StrikeEvaluate, StrikeReevaluate
  <1>2. CASE Recovering("strikeReeval", "strikeAsk")
    BY <1>1, <1>2, RecoveringInv DEF Struck
  <1>3. CASE \E g \in Grades : StrikeGraded(g)
    BY <1>1, <1>3, StrikeGradedInv
  <1> QED BY <1>2, <1>3 DEF StrikeEvaluate, StrikeReevaluate

-----------------------------------------------------------------------------
(* The brain's turns, and the ends from outside. *)

LEMMA BrainInv == ASSUME Inv, UNCHANGED asked, Drive \/ JudgeSurfaced PROVE Inv'
  <1>1. /\ pc \in OfBrain /\ UNCHANGED hist /\ hist.struck = {} /\ u \in Runners /\ u.mode = "llm" /\ hist \in Hists
    BY DEF Drive, JudgeSurfaced, RunTurn, Inv, GradeStands, Running, Typed, OfBrain, Struck
  <1>2. CASE \E pivots \in BOOLEAN : RunTurn(u, pivots)
    <2>1. u' \in Runners /\ u'.mode = u.mode /\ pc' = "gen" /\ UNCHANGED <<entry, contract>>
      BY <1>1, <1>2 DEF RunTurn, Runners
    <2> QED BY <1>1, <2>1, OnInv DEF Inv, Typed, Running, PCs, OfHybrid, OfBrain
  <1>3. CASE pc' = "surface" /\ UNCHANGED <<u, entry, contract, ledger, hist>>
    BY <1>1, <1>3, OnInv DEF Inv, Typed, Running, PCs, OfHybrid, OfBrain
  <1>4. CASE \/ EndRound("accepted", "accept", u) \/ EndRound("abandoned", "abandon", u)
             \/ EndRound("exhausted", "terminal-fail", u)
    BY <1>1, <1>4, EndInv, EndRoundFacts DEF Outcomes, OfBrain
  <1> QED BY <1>2, <1>3, <1>4 DEF Drive, JudgeSurfaced

LEMMA RejectInv == ASSUME Inv, UNCHANGED asked, RoleRejects PROVE Inv'
  <1>1. /\ pc # "down" /\ pc' = "down" /\ UNCHANGED <<u, contract, ledger, hist>>
        /\ entry' = [entry EXCEPT !.outcome = "error"]
    BY DEF RoleRejects
  <1> QED BY <1>1 DEF Inv, Typed, Running, GradeStands, Left, AcceptWarranted, StrikeSound, Ended, Resumable,
             PCs, Outcomes, OfHybrid, OfBrain, Struck

LEMMA KillInv == ASSUME Inv, Kill PROVE Inv'
  <1>1. /\ pc # "down" /\ pc' = "down" /\ UNCHANGED <<entry, contract>>
        /\ u' = NewUnit(u.mode, u.pivotN, u.fallback, u.escalation) /\ hist' = NextLife(hist.lives)
        /\ asked' \in {"none"} \cup ({pc} \cap Judging)
    BY DEF Kill
  <1>2. hist' \in Hists /\ hist'.struck = {} /\ hist'.fresh = hist.fresh /\ hist'.earned = hist.earned
    <2>1. hist \in Hists /\ hist.lives \in Nat
      BY DEF Inv, Typed, Hists
    <2> QED BY <1>1, <2>1, NextLifeFacts
  <1>3. u' \in Runners
    <2>1. u.mode \in Modes \cup {"hybrid"} /\ u.pivotN \in Nat /\ u.fallback \in BOOLEAN /\ u.escalation \in BOOLEAN
      BY DEF Inv, Typed, Runners
    <2> QED BY <1>1, <2>1, NewUnitFacts
  <1>4. Left'
    BY <1>1, <1>2 DEF Inv, GradeStands, Left
  <1> QED BY <1>1, <1>2, <1>3, <1>4 DEF Inv, Typed, Running, GradeStands, AcceptWarranted, StrikeSound, Ended, Resumable,
             PCs, OfHybrid, OfBrain, Struck

LEMMA RecoverInv == ASSUME Inv, RecoverDecision PROVE Inv'
  <1>1. pc = "down" /\ asked' = "none" /\ UNCHANGED <<pc, u, contract>>
    BY DEF RecoverDecision
  <1> DEFINE h == NextLife(hist.lives + 1)
  <1>2. h \in Hists /\ h.struck = {} /\ h.fresh = hist.fresh /\ h.earned = hist.earned
    <2>1. hist \in Hists /\ hist.lives + 1 \in Nat
      BY DEF Inv, Typed, Hists
    <2> QED BY <2>1, NextLifeFacts
  <1>3. \/ entry' = [entry EXCEPT !.outcome = "abandoned"] /\ hist' = h
        \/ /\ asked \in {"borderline", "collapse"}
           /\ entry' = [entry EXCEPT !.outcome = "accepted"]
           /\ hist' = [h EXCEPT !.anyway = asked = "collapse"]
    BY DEF RecoverDecision
  <1> HIDE DEF h
  <1>4. CASE entry' = [entry EXCEPT !.outcome = "abandoned"] /\ hist' = h
    BY <1>1, <1>2, <1>4 DEF Inv, Typed, Running, GradeStands, Left, AcceptWarranted, StrikeSound, Ended,
       Outcomes, OfHybrid, OfBrain
  <1>5. CASE /\ asked \in {"borderline", "collapse"}
             /\ entry' = [entry EXCEPT !.outcome = "accepted"]
             /\ hist' = [h EXCEPT !.anyway = asked = "collapse"]
    <2>1. (asked = "collapse") \in BOOLEAN
      OBVIOUS
    <2>2. /\ hist' \in Hists /\ hist'.struck = {} /\ hist'.fresh = hist.fresh /\ hist'.earned = hist.earned
          /\ asked = "collapse" => hist'.anyway
      BY <1>2, <1>5, <2>1 DEF Hists
    <2>3. ~hist'.fresh /\ (hist'.anyway \/ hist'.earned)
      BY <1>5, <2>2 DEF Inv, Left
    <2> QED BY <1>1, <1>5, <2>2, <2>3 DEF Inv, Typed, Running, GradeStands, Left, AcceptWarranted, StrikeSound, Ended,
               Outcomes, OfHybrid, OfBrain
  <1> QED BY <1>3, <1>4, <1>5

LEMMA ResumeInv == ASSUME Inv, Resume PROVE Inv'
  <1> DEFINE m == IF u.mode = "none" THEN "hybrid" ELSE u.mode
  <1> DEFINE v == NewUnit(m, u.pivotN, u.fallback, u.escalation)
  <1>1. v \in Runners /\ v.mode = m
    <2>1. m \in Modes \cup {"hybrid"} /\ u.pivotN \in Nat /\ u.fallback \in BOOLEAN /\ u.escalation \in BOOLEAN
      BY DEF Inv, Typed, Runners
    <2> HIDE DEF m
    <2> QED BY <2>1, NewUnitFacts
  <1> HIDE DEF v
  <1>2. /\ \/ u' = [v EXCEPT !.agreed = entry.agreed, !.forced = entry.forced] /\ StartRounds(v)
           \/ u' = v /\ pc' = "contract"
        /\ entry' = [entry EXCEPT !.outcome = "pending"]
        /\ hist' = NextLife(hist.lives + 1) /\ asked' = "none"
        /\ UNCHANGED contract
    BY DEF Resume, v
  <1>3. entry.agreed \in BOOLEAN /\ entry.forced \in BOOLEAN
    BY DEF Inv, Typed
  <1>4. [v EXCEPT !.agreed = entry.agreed, !.forced = entry.forced] \in Runners
        /\ [v EXCEPT !.agreed = entry.agreed, !.forced = entry.forced].mode = m
    BY <1>1, <1>3 DEF Runners
  <1>5. u' \in Runners /\ u'.mode = v.mode
    BY <1>1, <1>2, <1>4
  <1>6. pc' \in {"gen", "contract"} \/ (pc' = "drive" /\ u'.mode = "llm")
    BY <1>2, <1>5 DEF StartRounds
  <1>7. entry' \in [outcome : Outcomes, agreed : BOOLEAN, forced : BOOLEAN] /\ entry'.outcome = "pending"
    BY <1>2 DEF Inv, Typed, Outcomes
  <1>8. hist' \in Hists /\ hist'.struck = {}
    <2>1. hist \in Hists /\ hist.lives + 1 \in Nat
      BY DEF Inv, Typed, Hists
    <2> QED BY <1>2, <2>1, NextLifeFacts
  <1> QED BY <1>2, <1>5, <1>6, <1>7, <1>8
        DEF Inv, Typed, Running, GradeStands, Left, AcceptWarranted, StrikeSound, Ended, PCs, OfHybrid, OfBrain

LEMMA NextInv == Inv /\ [Next]_vars => Inv'
  <1> SUFFICES ASSUME Inv, [Next]_vars PROVE Inv'
    OBVIOUS
  <1>1. CASE UNCHANGED vars
    BY <1>1 DEF vars, Inv, Typed, Running, GradeStands, Left, AcceptWarranted, StrikeSound, Ended
  <1>2. CASE Work /\ UNCHANGED asked
    BY <1>2, ContractRoundInv, JudgeContractInv, GenerateInv, RegenerateInv, JudgeGeneratorInv, EvaluateInv,
       JudgeEvaluatorInv, JudgeBorderlineInv, JudgeCollapseInv, JudgeSpentInv, StrikeInv, StrikeEvaluateInv,
       JudgeStrikeInv, BrainInv DEF Work
  <1>3. CASE RoleRejects /\ UNCHANGED asked
    BY <1>3, RejectInv
  <1> QED BY <1>1, <1>2, <1>3, KillInv, RecoverInv, ResumeInv DEF Next, Alive

LEMMA Invariance == Spec => []Inv
  BY InitInv, NextInv, PTL DEF Spec

-----------------------------------------------------------------------------
(* The life of the unit. *)

Goes == pc' # "down" /\ entry'.outcome \in {entry.outcome, "running"}
Stops == pc' = "down" /\ entry'.outcome \in Life!Terminal \cup {"error"}

LEMMA FinishStops ==
  ASSUME NEW o \in Life!Terminal, NEW v, Finish(o, v)
  PROVE  Stops
  BY DEF Finish, Stops

LEMMA GradedShape ==
  ASSUME Inv, pc # "down", NEW g \in Grades, Graded(g)
  PROVE  Goes \/ Stops
  <1> DEFINE v == [u EXCEPT !.failed = Append(@, g.failed), !.last = g, !.executed = u.round, !.execPivot = u.pivoting]
  <1>1. (CASE u.mode = "hybrid" -> Judged(v, g)
           [] u.mode = "none"   -> Cycled(v, g)
           [] u.mode = "llm"    -> Driven(v))
    BY DEF Graded
  <1>2. u.mode \in {"hybrid", "none", "llm"}
    BY UnitBounds DEF Inv, Typed, Runners
  <1> HIDE DEF v
  <1>3. CASE u.mode = "hybrid"
    <2>1. Judged(v, g)
      BY <1>1, <1>3
    <2>2. \/ \E o \in {"accepted", "inconclusive"}, d \in Decisions : EndRound(o, d, v)
          \/ pc' \in {"borderline", "collapse", "strike"} /\ UNCHANGED entry
          \/ \E w : GoOn(w)
      BY <2>1 DEF Judged, GoPivot, Decisions
    <2> QED BY <2>2, GoOnFacts, EndRoundFacts, FinishStops DEF Goes, Life!Terminal
  <1>4. CASE u.mode = "none"
    <2>1. Cycled(v, g)
      BY <1>1, <1>4
    <2>2. \/ \E o \in {"accepted", "exhausted", "inconclusive", "grade-not-independent"} : \E w : Finish(o, w)
          \/ pc' = "gen" /\ UNCHANGED entry
      BY <2>1 DEF Cycled
    <2> QED BY <2>2, FinishStops DEF Goes, Life!Terminal
  <1>5. CASE u.mode = "llm"
    <2>1. Driven(v)
      BY <1>1, <1>5
    <2> QED BY <2>1 DEF Driven, Goes
  <1> QED BY <1>2, <1>3, <1>4, <1>5

LEMMA StrikeShape ==
  ASSUME Inv, NEW g \in Grades, StrikeGraded(g)
  PROVE  Stops
  <1>1. \E o \in {"accepted", "exhausted", "inconclusive", "grade-not-independent"}, d \in Decisions : \E v :
          EndStrike(o, d, v, g)
    BY DEF StrikeGraded, Decisions
  <1> QED BY <1>1, EndStrikeFacts, FinishStops DEF Life!Terminal

\* While it is alive a unit goes on with its outcome or at running, or it stops with an end.
LEMMA WorkShape ==
  ASSUME Inv, Work \/ RoleRejects
  PROVE  pc # "down" /\ (Goes \/ Stops)
  <1> USE DEF Inv
  <1>1. entry \in [outcome : Outcomes, agreed : BOOLEAN, forced : BOOLEAN]
    BY DEF Typed
  <1>2. RoleReturned => entry'.outcome = "running"
    BY ReturnedFacts
  <1>3. CASE ContractRound \/ Generate \/ Regenerate
    <2>1. pc # "down" /\ RoleReturned
      BY <1>3 DEF ContractRound, Generate, Regenerate
    <2>2. pc' # "down"
      <3>1. CASE ContractRound
        BY <3>1 DEF ContractRound, StartRounds
      <3>2. CASE Generate
        BY <3>2 DEF Generate, Recovery, Ends
      <3>3. CASE Regenerate
        BY <3>3 DEF Regenerate
      <3> QED BY <1>3, <3>1, <3>2, <3>3
    <2> QED BY <1>2, <2>1, <2>2 DEF Goes
  <1>4. CASE JudgeContract \/ JudgeGenerator \/ JudgeEvaluator
    BY <1>4, FinishStops DEF JudgeContract, JudgeGenerator, JudgeEvaluator, Goes, Life!Terminal
  <1>5. CASE Evaluate \/ Reevaluate \/ StrikeEvaluate \/ StrikeReevaluate
    <2>1. pc # "down"
      BY <1>5 DEF Evaluate, Reevaluate, StrikeEvaluate, StrikeReevaluate
    <2>2. CASE Recovering("reeval", "evalAsk") \/ Recovering("strikeReeval", "strikeAsk")
      <3>1. pc' \in {"reeval", "evalAsk", "strikeReeval", "strikeAsk"} /\ RoleReturned
        BY <2>2 DEF Recovering
      <3> QED BY <1>2, <2>1, <3>1 DEF Goes
    <2>3. CASE \E g \in Grades : Graded(g) \/ StrikeGraded(g)
      BY <2>1, <2>3, GradedShape, StrikeShape
    <2> QED BY <1>5, <2>1, <2>2, <2>3 DEF Evaluate, Reevaluate, StrikeEvaluate, StrikeReevaluate
  <1>6. CASE JudgeBorderline \/ JudgeCollapse
    <2>1. pc # "down" /\ ((\E o \in {"accepted", "abandoned", "grade-not-independent"}, d \in Decisions : EndRound(o, d, u))
                          \/ \E w : GoOn(w))
      BY <1>6 DEF JudgeBorderline, JudgeCollapse, Decisions
    <2> QED BY <2>1, GoOnFacts, EndRoundFacts, FinishStops DEF Goes, Life!Terminal
  <1>7. CASE JudgeDefect \/ JudgeExhausted \/ Drive \/ JudgeSurfaced
    <2>1. /\ pc # "down"
          /\ \/ \E o \in {"accepted", "abandoned", "exhausted"}, d \in Decisions : EndRound(o, d, u)
             \/ pc' \in {"strike", "surface", "gen"} /\ UNCHANGED entry
      BY <1>7 DEF JudgeDefect, JudgeExhausted, Drive, JudgeSurfaced, RunTurn, Decisions
    <2> QED BY <2>1, EndRoundFacts, FinishStops DEF Goes, Life!Terminal
  <1>8. CASE Strike
    BY <1>1, <1>8 DEF Strike, Goes, Stops
  <1>9. CASE JudgeStrike
    BY <1>9, EndStrikeFacts, FinishStops DEF JudgeStrike, Goes, Life!Terminal
  <1>10. CASE RoleRejects
    BY <1>1, <1>10 DEF RoleRejects, Stops
  <1> QED BY <1>3, <1>4, <1>5, <1>6, <1>7, <1>8, <1>9, <1>10 DEF Work

-----------------------------------------------------------------------------
(* The theorems. *)

\* What an accepted unit stands on, unless a brain drives it (the llm mode): a grade of the artifact as it
\* is, and an independent pass unless the gate-collapse judgment took it anyway; so too when a decision
\* that a dead runner left pending is recovered.  (The decisions of unitRunner.ts, loop.ts and resumeConduct.)
THEOREM AcceptancesAreWarranted == Spec => []AcceptWarranted
  <1>1. Inv => AcceptWarranted
    BY DEF Inv
  <1> QED BY <1>1, Invariance, PTL

\* A strike rests on what every round failed, and nothing is generated after it.
\* (detectContractDefect, strikeAndReEvaluate.)
THEOREM StrikesAreSound == Spec => []StrikeSound
  <1>1. Inv => StrikeSound
    BY DEF Inv
  <1> QED BY <1>1, Invariance, PTL

\* The entry of the unit in run.json implements UnitLife: its outcome moves from pending to running to an
\* end, only one that is not terminal is entered again, and a terminal one stays.
THEOREM EntryFollowsLife == Spec => FollowsLife
  <1>1. Init => Life!Init
    BY DEF Init, Life!Init
  <1>2. Inv /\ [Next]_vars => [Life!Next]_<<entry.outcome, pc # "down">>
    <2> SUFFICES ASSUME Inv, [Next]_vars
                 PROVE  Life!Next \/ (entry'.outcome = entry.outcome /\ (pc' # "down") = (pc # "down"))
      OBVIOUS
    <2>1. CASE Alive
      <3>1. pc # "down" /\ entry.outcome \in {"pending", "running"} /\ (Goes \/ Stops)
        BY <2>1, WorkShape DEF Alive, Inv, Running
      <3>2. CASE Goes
        BY <3>1, <3>2 DEF Goes, Life!Next, Life!Run
      <3>3. CASE Stops
        BY <3>1, <3>3 DEF Stops, Life!Next, Life!End
      <3> QED BY <3>1, <3>2, <3>3
    <2>2. CASE Kill
      BY <2>2 DEF Kill, Life!Next, Life!Die
    <2>3. CASE Resume
      <3>1. pc' # "down"
        BY <2>3 DEF Resume, StartRounds
      <3>2. entry'.outcome = "pending" /\ pc = "down" /\ entry.outcome \notin Life!Terminal
        BY <2>3 DEF Resume, Inv, Typed, Resumable, Life!Terminal
      <3> QED BY <3>1, <3>2 DEF Life!Next, Life!Reenter
    <2>4. CASE RecoverDecision
      BY <2>4 DEF RecoverDecision, Inv, Typed, Resumable, Life!Terminal, Life!Next, Life!Recover
    <2>5. CASE UNCHANGED vars
      BY <2>5 DEF vars
    <2> QED BY <2>1, <2>2, <2>3, <2>4, <2>5 DEF Next
  <1> QED BY <1>1, <1>2, Invariance, PTL DEF Spec, FollowsLife, Life!Spec

-----------------------------------------------------------------------------
(***************************************************************************)
(* The decisions that a run parks, and the people who answer them by the      *)
(* command line or through the bridge: ParkedDecisions, for any number of      *)
(* units, answerers, decisions and processes.                                  *)
(***************************************************************************)
DecisionRecords == [seq : Nat, unit : Units, answer : Words \cup {"none"}]
LandRecords     == [seq : Nat, life : Nat, answer : Words \cup {"none"}]

\* Records of which no two have one number; the numbers have a bound, from which a resume goes on.
Tables == {recs \in SUBSET DecisionRecords :
             /\ \A r, s \in recs : r.seq = s.seq => r = s
             /\ \E b \in Nat : \A r \in recs : r.seq <= b}
Docs   == [status : {"none", "running", "completed"}, recs : Tables, land : SUBSET LandRecords]

RunningRuns == [up : BOOLEAN, life : Nat, seq : Nat, base : Nat, recs : Tables, land : SUBSET LandRecords,
                landing : BOOLEAN, place : {"none", "terminal", "bridge"}, surface : {"park", "park-timeout"}]
Asked   == [st : {"none", "saving", "asking", "opened", "parked", "looked", "judging", "resolving"},
            seq : Nat, stale : Nat, tty : {"off", "open", "bad"} \cup Words]
People  == [pc : {"idle", "found", "valid", "created", "read"}, via : {"cli", "bridge"}, seq : Nat,
            answer : Words \cup {"none"}, unit : Askers \cup {"none"}, doc : Docs, again : BOOLEAN]

\* Every copy of the records, on disk, in memory, in the queue of the writer or in an answerer's
\* hands, has one record of a number, and the run has given out the numbers that its own copy has.
Numbered ==
  /\ run \in RunningRuns /\ \A r \in run.recs : r.seq <= run.seq
  /\ disk \in Docs
  /\ chain \in Seq([doc : Docs, by : Askers \cup {"none"}])
  /\ ask \in [Askers -> Asked]
  /\ req \subseteq [seq : Nat, unit : Askers, life : Nat, whole : BOOLEAN]
  /\ client \in [Clients -> People]
  /\ \A c \in Clients : client[c].pc \in {"valid", "created", "read"} => client[c].unit \in Askers

\* A number is answered once.
Once == ans \subseteq [seq : Nat, answer : Words \cup {"none"}] /\ \A a, b \in ans : a.seq = b.seq => a = b

\* The greatest number of a bounded set.
LEMMA MaxIsTop ==
  ASSUME NEW S, S \subseteq Nat, S # {}, NEW b \in Nat, \A x \in S : x <= b
  PROVE  Max(S) \in S /\ \A x \in S : x <= Max(S)
  <1> DEFINE Less == {ss \in Nat \X Nat : ss[1] < ss[2]}
             Over == {n \in Nat : \A x \in S : x <= n}
  <1>1. IsWellFoundedOn(Less, Nat) BY NatLessThanWellFounded DEF OpToRel
  <1>2. Over # {} /\ Over \subseteq Nat OBVIOUS
  <1> HIDE DEF Less
  <1>3. PICK m \in Over : \A n \in Over : ~(<<n, m>> \in Less) BY <1>1, <1>2, WFMin
  <1>4. m \in S
    <2> SUFFICES ASSUME m \notin S PROVE FALSE OBVIOUS
    <2>1. m \in Nat /\ \A x \in S : x \in Nat /\ x <= m /\ x # m BY <1>3
    <2>2. m > 0 /\ \A x \in S : x <= m - 1
      <3>1. \A x \in S : x <= m - 1 /\ 0 < m BY <2>1
      <3> QED BY <3>1
    <2>3. m - 1 \in Over BY <2>1, <2>2
    <2>4. <<m - 1, m>> \in Less BY <2>1, <2>2 DEF Less
    <2> QED BY <1>3, <2>3, <2>4
  <1>5. \A x \in S : m >= x BY <1>3, <1>4
  <1> HIDE DEF Over
  <1>6. \E x \in S : \A y \in S : x >= y BY <1>4, <1>5
  <1>7. Max(S) \in S /\ \A y \in S : Max(S) >= y BY <1>6 DEF Max
  <1> QED BY <1>7

LEMMA EmptyTable == {} \in Tables /\ 0 \in Nat
  <1>1. {} \in SUBSET DecisionRecords /\ \A r \in {} : r.seq <= 0 OBVIOUS
  <1> QED BY <1>1 DEF Tables

\* Answers are put into records, not numbers.
LEMMA AnswersKeepTable ==
  ASSUME NEW recs \in Tables, NEW new \in SUBSET DecisionRecords, \A n \in new : \E r \in recs : n.seq = r.seq,
         \A m, n \in new : m.seq = n.seq => m = n
  PROVE  new \in Tables
  BY DEF Tables

\* A record of a new number.
LEMMA RecordAdds ==
  ASSUME NEW recs \in Tables, NEW new \in DecisionRecords, \A r \in recs : r.seq # new.seq
  PROVE  recs \cup {new} \in Tables
  <1>1. recs \subseteq DecisionRecords /\ recs \cup {new} \subseteq DecisionRecords BY DEF Tables
  <1>2. \A r, s \in recs \cup {new} : r.seq = s.seq => r = s BY DEF Tables
  <1>3. PICK b \in Nat : \A r \in recs : r.seq <= b BY DEF Tables
  <1>4. new.seq \in Nat /\ \A r \in recs : r.seq \in Nat BY <1>1 DEF DecisionRecords
  <1>5. \E c \in Nat : c >= b /\ c >= new.seq
    <2>1. CASE b >= new.seq BY <2>1, <1>3, <1>4
    <2>2. CASE ~(b >= new.seq) BY <2>2, <1>3, <1>4
    <2> QED BY <2>1, <2>2
  <1>6. \E c \in Nat : \A r \in recs \cup {new} : r.seq <= c BY <1>3, <1>4, <1>5
  <1> QED BY <1>1, <1>2, <1>6 DEF Tables

LEMMA NoRecords == /\ NoRun \in RunningRuns /\ NoAsk \in Asked /\ NoClient \in People /\ NoDoc \in Docs
                   /\ 0 \in Nat
  BY EmptyTable DEF NoRun, NoAsk, NoClient, NoDoc, RunningRuns, Asked, People, Docs

LEMMA NumberedInit == ParkedInit => Numbered /\ OneRecord /\ Once
  <1> SUFFICES ASSUME ParkedInit PROVE Numbered /\ Once /\ OneRecord OBVIOUS
  <1>1. disk \in Docs /\ disk.recs = {} BY NoRecords DEF ParkedInit, NoDoc
  <1>2. Numbered BY <1>1, NoRecords DEF ParkedInit, Numbered, NoRun, NoClient
  <1> QED BY <1>1, <1>2 DEF ParkedInit, Once, OneRecord

\* A unit's question moves on and nothing else does.
LEMMA AskOnly ==
  ASSUME Numbered, UNCHANGED <<run, chain, disk, req, client>>, ask' \in [Askers -> Asked]
  PROVE  Numbered'
  BY DEF Numbered

\* The snapshot of a table, as it is queued.
LEMMA DocFacts == ASSUME NEW recs \in Tables, NEW land \in SUBSET LandRecords PROVE Doc(recs, land) \in Docs
  BY DEF Doc, Docs

LEMMA OptionWords == ASSUME NEW w \in Askers PROVE OptionsOf(w) \subseteq Words /\ Given(w) \subseteq Words
  BY DEF OptionsOf, Given, Words

LEMMA LaunchKeeps == ASSUME Numbered, Launch PROVE Numbered'
  <1> DEFINE S == {0} \cup {r.seq : r \in disk.recs}
             base == Max(S)
  <1>1. disk.recs \in Tables BY DEF Numbered, Docs
  <1>2. PICK b \in Nat : \A r \in disk.recs : r.seq <= b BY <1>1 DEF Tables
  <1>3. S \subseteq Nat /\ S # {} /\ \A x \in S : x <= b BY <1>1, <1>2 DEF Tables, DecisionRecords
  <1>4. base \in Nat /\ \A r \in disk.recs : r.seq <= base
    <2>1. Max(S) \in S /\ \A x \in S : x <= Max(S) BY <1>3, MaxIsTop
    <2> QED BY <1>3, <2>1
  <1> HIDE DEF base
  <1>5. PICK s \in Starts[run.life + 1] :
          /\ run' = [NoRun EXCEPT !.up = TRUE, !.life = run.life + 1, !.place = s[1], !.surface = s[2],
                                  !.seq = base, !.base = base, !.recs = disk.recs, !.land = disk.land]
          /\ chain' = <<[doc |-> Doc(disk.recs, disk.land), by |-> "none"]>>
    BY DEF Launch, base
  <1>6. /\ run.life + 1 \in Nat /\ disk.land \in SUBSET LandRecords
        /\ s[1] \in {"none", "terminal", "bridge"} /\ s[2] \in {"park", "park-timeout"}
    <2>1. run.life \in Nat /\ run.life < MaxProcesses /\ MaxProcesses \in Nat
      BY DecisionBounds DEF Launch, Numbered, RunningRuns
    <2>2. s \in {"terminal", "bridge"} \X {"park", "park-timeout"} BY <1>5, <2>1, DecisionStarts
    <2> QED BY <2>1, <2>2 DEF Numbered, Docs
  <1>7. run' \in RunningRuns /\ \A r \in run'.recs : r.seq <= run'.seq
    BY <1>1, <1>4, <1>5, <1>6 DEF NoRun, RunningRuns
  <1>8. chain' \in Seq([doc : Docs, by : Askers \cup {"none"}])
    <2>1. [doc |-> Doc(disk.recs, disk.land), by |-> "none"] \in [doc : Docs, by : Askers \cup {"none"}]
      BY <1>1, <1>6, DocFacts
    <2> QED BY <1>5, <2>1
  <1> QED BY <1>7, <1>8 DEF Launch, Numbered

LEMMA PersistKeeps == ASSUME Numbered, Persist PROVE Numbered'
  <1> DEFINE Q == [doc : Docs, by : Askers \cup {"none"}]
  <1>0. chain \in Seq(Q) /\ chain # <<>> BY DEF Numbered, Persist
  <1>1. Head(chain).doc \in Docs /\ Tail(chain) \in Seq(Q)
    <2>1. Head(chain) \in Q /\ Tail(chain) \in Seq(Q)
      <3> HIDE DEF Q
      <3> QED BY <1>0
    <2> QED BY <2>1
  <1>2. ask' \in [Askers -> Asked]
    <2> SUFFICES ASSUME NEW w \in Askers
                 PROVE  (IF w # Head(chain).by THEN ask[w]
                         ELSE IF ask[w].st = "saving" THEN [ask[w] EXCEPT !.st = "asking"] ELSE NoAsk) \in Asked
      BY DEF Persist
    <2>1. ask[w] \in Asked BY DEF Numbered
    <2> QED BY <2>1, NoRecords DEF Asked
  <1> QED BY <1>1, <1>2 DEF Persist, Numbered

LEMMA EndKeeps == ASSUME Numbered, Complete \/ KillRun PROVE Numbered'
  <1>1. run.life \in Nat /\ run.recs \in Tables /\ run.land \in SUBSET LandRecords /\ run' = [NoRun EXCEPT !.life = run.life]
    BY DEF Complete, KillRun, Numbered, RunningRuns
  <1>2. run' \in RunningRuns /\ run'.recs = {} BY <1>1, NoRecords DEF NoRun, RunningRuns
  <1>3. CASE Complete BY <1>1, <1>2, <1>3 DEF Complete, Numbered, Docs
  <1>4. CASE KillRun
    <2>1. ask' \in [Askers -> Asked] /\ chain' \in Seq([doc : Docs, by : Askers \cup {"none"}])
      BY <1>4, NoRecords DEF KillRun
    <2> QED BY <1>2, <1>4, <2>1 DEF KillRun, Numbered
  <1> QED BY <1>3, <1>4

\* A question gets the next number.
LEMMA RecordKeeps ==
  ASSUME Numbered, NEW w \in Units, NEW stale \in Nat, RecordDecision(w, stale)
  PROVE  Numbered'
  <1> DEFINE new == [seq |-> run.seq + 1, unit |-> w, answer |-> "none"]
             recs == run.recs \cup {new}
  <1>1. run.seq + 1 \in Nat /\ run.recs \in Tables /\ \A r \in run.recs : r.seq <= run.seq
    BY DEF Numbered, RunningRuns
  <1>2. \A r \in run.recs : r.seq \in Nat BY <1>1 DEF Tables, DecisionRecords
  <1>3. recs \in Tables
    <2>1. new \in DecisionRecords /\ \A r \in run.recs : r.seq # new.seq BY <1>1, <1>2 DEF DecisionRecords, Numbered, RunningRuns
    <2> QED BY <1>1, <2>1, RecordAdds
  <1>4. \A r \in recs : r.seq <= run.seq + 1 BY <1>1, <1>2 DEF Numbered, RunningRuns
  <1> HIDE DEF recs
  <1>5. /\ run' = [run EXCEPT !.seq = @ + 1, !.recs = recs]
        /\ ask' = [ask EXCEPT ![w] = [NoAsk EXCEPT !.st = "saving", !.seq = run.seq + 1, !.stale = stale]]
        /\ chain' = Append(chain, [doc |-> Doc(recs, run.land), by |-> w])
        /\ UNCHANGED <<disk, req, client>>
    BY DEF RecordDecision, recs
  <1>6. run' \in RunningRuns /\ \A r \in run'.recs : r.seq <= run'.seq
    BY <1>1, <1>3, <1>4, <1>5 DEF Numbered, RunningRuns
  <1>7. ask' \in [Askers -> Asked] BY <1>1, <1>5 DEF Numbered, NoAsk, Asked
  <1>8. chain' \in Seq([doc : Docs, by : Askers \cup {"none"}])
    <2>1. run.land \in SUBSET LandRecords /\ w \in Askers BY DEF Numbered, RunningRuns, Askers
    <2>2. [doc |-> Doc(recs, run.land), by |-> w] \in [doc : Docs, by : Askers \cup {"none"}]
      BY <1>3, <2>1, DocFacts
    <2> QED BY <1>5, <2>2 DEF Numbered
  <1> QED BY <1>5, <1>6, <1>7, <1>8 DEF Numbered

\* A landing's question gets it too, and leaves the records of the units alone.
LEMMA ParkLandKeeps == ASSUME Numbered, ParkLand PROVE Numbered'
  <1> DEFINE new == [seq |-> run.seq + 1, life |-> run.life, answer |-> "none"]
             land == run.land \cup {new}
  <1>1. /\ run.seq + 1 \in Nat /\ run.recs \in Tables /\ run.land \in SUBSET LandRecords
        /\ \A r \in run.recs : r.seq \in Nat /\ r.seq <= run.seq
    BY DEF Numbered, RunningRuns, Tables, DecisionRecords
  <1>2. land \in SUBSET LandRecords
    <2>1. new \in LandRecords BY <1>1 DEF LandRecords, Numbered, RunningRuns
    <2> HIDE DEF new
    <2> QED BY <1>1, <2>1
  <1> HIDE DEF land
  <1>3. /\ run' = [run EXCEPT !.seq = @ + 1, !.land = land, !.landing = TRUE]
        /\ ask' = [ask EXCEPT ![Landing] = [NoAsk EXCEPT !.st = "saving", !.seq = run.seq + 1]]
        /\ chain' = Append(chain, [doc |-> Doc(run.recs, land), by |-> Landing])
        /\ UNCHANGED <<disk, req, client>>
    BY DEF ParkLand, land
  <1>4. run' \in RunningRuns /\ \A r \in run'.recs : r.seq <= run'.seq
    <2>1. run' \in RunningRuns /\ run'.recs = run.recs /\ run'.seq = run.seq + 1
      BY <1>1, <1>2, <1>3 DEF Numbered, RunningRuns
    <2>2. run.seq \in Nat BY DEF Numbered, RunningRuns
    <2> QED BY <1>1, <2>1, <2>2
  <1>5. ask' \in [Askers -> Asked] BY <1>1, <1>3 DEF Numbered, NoAsk, Asked
  <1>6. chain' \in Seq([doc : Docs, by : Askers \cup {"none"}])
    <2>1. [doc |-> Doc(run.recs, land), by |-> Landing] \in [doc : Docs, by : Askers \cup {"none"}]
      BY <1>1, <1>2, DocFacts DEF Askers
    <2> QED BY <1>3, <2>1 DEF Numbered
  <1> QED BY <1>3, <1>4, <1>5, <1>6 DEF Numbered

\* An answer goes into the records of its number.
LEMMA ResolveKeeps ==
  ASSUME Numbered, NEW w \in Askers, NEW answer \in Words, Resolve(w, answer),
         UNCHANGED <<disk, req, client>>
  PROVE  Numbered'
  <1> DEFINE recs == {IF r.unit = w /\ r.seq \in {ask[w].seq, ask[w].stale} THEN [r EXCEPT !.answer = answer] ELSE r :
                        r \in run.recs}
             land == {IF w = Landing /\ r.life = run.life THEN [r EXCEPT !.answer = answer] ELSE r : r \in run.land}
  <1>1. /\ run.recs \in Tables /\ run.recs \subseteq DecisionRecords /\ run.land \subseteq LandRecords
    BY DEF Numbered, RunningRuns, Tables
  <1>2. \A n \in recs : n \in DecisionRecords /\ \E r \in run.recs : n.seq = r.seq
    BY <1>1 DEF DecisionRecords
  <1>3. \A m, n \in recs : m.seq = n.seq => m = n
    BY <1>1 DEF DecisionRecords, Tables
  <1>4. recs \in Tables BY <1>1, <1>2, <1>3, AnswersKeepTable
  <1>5. \A n \in recs : n.seq <= run.seq BY <1>2 DEF Numbered
  <1>a. land \in SUBSET LandRecords
    <2>1. \A r \in run.land : [r EXCEPT !.answer = answer] \in LandRecords BY <1>1 DEF LandRecords
    <2> QED BY <1>1, <2>1
  <1> HIDE DEF recs, land
  <1>6. /\ run' = [run EXCEPT !.recs = recs, !.land = land] /\ ask' = [ask EXCEPT ![w].st = "resolving"]
        /\ chain' = Append(chain, [doc |-> Doc(recs, land), by |-> w])
    BY DEF Resolve, recs, land
  <1>7. run' \in RunningRuns /\ \A r \in run'.recs : r.seq <= run'.seq
    BY <1>4, <1>5, <1>6, <1>a DEF Numbered, RunningRuns
  <1>8. ask' \in [Askers -> Asked] BY <1>6 DEF Numbered, Asked
  <1>9. chain' \in Seq([doc : Docs, by : Askers \cup {"none"}])
    <2>1. [doc |-> Doc(recs, land), by |-> w] \in [doc : Docs, by : Askers \cup {"none"}]
      BY <1>4, <1>a, DocFacts
    <2> QED BY <1>6, <2>1 DEF Numbered
  <1> QED BY <1>7, <1>8, <1>9 DEF Numbered

\* An answerer goes on to its next step.
LEMMA ClientOnly ==
  ASSUME Numbered, UNCHANGED <<run, chain, disk, req, ask>>, client' \in [Clients -> People],
         \A c \in Clients : client'[c].pc \in {"valid", "created", "read"} => client'[c].unit \in Askers
  PROVE  Numbered'
  BY DEF Numbered

\* What an answerer writes back.
LEMMA AppliedFacts ==
  ASSUME NEW recs \in Tables, NEW c \in Clients, client[c] \in People, client[c].unit \in Askers
  PROVE  Applied(recs, c) \in Tables
  <1> DEFINE new == [seq |-> client[c].seq, unit |-> client[c].unit, answer |-> client[c].answer]
             put == {IF r.seq = client[c].seq /\ r.answer = "none" THEN [r EXCEPT !.answer = client[c].answer] ELSE r :
                       r \in recs}
  <1>1. recs \subseteq DecisionRecords BY DEF Tables
  <1>2. put \in Tables
    <2>1. \A n \in put : n \in DecisionRecords /\ \E r \in recs : n.seq = r.seq
      BY <1>1 DEF DecisionRecords, People
    <2>2. \A m, n \in put : m.seq = n.seq => m = n BY <1>1 DEF DecisionRecords, Tables
    <2> QED BY <2>1, <2>2, AnswersKeepTable
  <1>3. CASE \E r \in recs : r.seq = client[c].seq BY <1>2, <1>3 DEF Applied
  <1>4. CASE \A r \in recs : r.seq # client[c].seq
    <2>1. Applied(recs, c) = recs \cup {r \in {new} : r.unit # Landing} BY <1>4 DEF Applied
    <2>2. CASE client[c].unit = Landing
      <3>1. Applied(recs, c) = recs BY <2>1, <2>2
      <3> QED BY <3>1
    <2>3. CASE client[c].unit # Landing
      <3>1. new \in DecisionRecords BY <2>3 DEF People, DecisionRecords, Askers
      <3>2. recs \cup {new} \in Tables BY <1>4, <3>1, RecordAdds
      <3>3. Applied(recs, c) = recs \cup {new} BY <2>1, <2>3
      <3> QED BY <3>2, <3>3
    <2> QED BY <2>2, <2>3
  <1> QED BY <1>3, <1>4

\* One answerer takes a new state.
LEMMA ClientMoves ==
  ASSUME Numbered, NEW c \in Clients, NEW to \in People, client' = [client EXCEPT ![c] = to],
         to.pc \in {"valid", "created", "read"} => to.unit \in Askers
  PROVE  /\ client' \in [Clients -> People]
         /\ \A d \in Clients : client'[d].pc \in {"valid", "created", "read"} => client'[d].unit \in Askers
  BY DEF Numbered

LEMMA AnswersKeep == ASSUME Numbered, NEW c \in Clients, Answers(c) PROVE Numbered'
  <1>1. client[c] \in People /\ NoClient \in People /\ NoClient.pc = "idle"
    BY NoRecords DEF Numbered, NoClient
  <1>2. CASE Find(c)
    <2>1. PICK via \in {"cli", "bridge"}, q \in req : \E answer \in Given(q.unit) :
            client' = [client EXCEPT ![c] = [NoClient EXCEPT !.pc = "found", !.via = via, !.seq = q.seq,
                                                             !.answer = answer]]
      BY <1>2 DEF Find
    <2>a. PICK answer \in Given(q.unit) :
            client' = [client EXCEPT ![c] = [NoClient EXCEPT !.pc = "found", !.via = via, !.seq = q.seq,
                                                             !.answer = answer]]
      BY <2>1
    <2>b. answer \in Words
      <3>1. q.unit \in Askers BY <2>1 DEF Numbered
      <3> QED BY <2>a, <3>1, OptionWords
    <2> DEFINE to == [NoClient EXCEPT !.pc = "found", !.via = via, !.seq = q.seq, !.answer = answer]
    <2>2. to \in People /\ to.pc = "found" BY <1>1, <2>b DEF Numbered, NoClient, People
    <2> HIDE DEF to
    <2>3. client' = [client EXCEPT ![c] = to] BY <2>a DEF to
    <2> QED BY <1>2, <2>2, <2>3, ClientMoves, ClientOnly DEF Find
  <1>3. CASE Validate(c)
    <2>1. PICK q \in req :
            client' = [client EXCEPT ![c] = IF q.whole /\ client[c].answer \notin OptionsOf(q.unit) THEN NoClient
                                            ELSE [@ EXCEPT !.pc = "valid", !.unit = q.unit]]
      BY <1>3 DEF Validate
    <2> DEFINE to == IF q.whole /\ client[c].answer \notin OptionsOf(q.unit) THEN NoClient
                     ELSE [client[c] EXCEPT !.pc = "valid", !.unit = q.unit]
    <2>2. to \in People /\ (to.pc = "valid" => to.unit \in Askers) /\ to.pc \in {"idle", "valid"}
      BY <1>1 DEF Numbered, People
    <2> HIDE DEF to
    <2>3. client' = [client EXCEPT ![c] = to] BY <2>1 DEF to, Numbered
    <2> QED BY <1>3, <2>2, <2>3, ClientMoves, ClientOnly DEF Validate
  <1>4. CASE Create(c)
    <2> DEFINE to == [client[c] EXCEPT !.pc = "created"]
    <2>1. to \in People /\ to.unit \in Askers BY <1>1, <1>4 DEF Create, Numbered, People
    <2> HIDE DEF to
    <2>2. client' = [client EXCEPT ![c] = to] \/ client' = [client EXCEPT ![c] = NoClient]
      BY <1>4 DEF Create, Numbered, to
    <2> QED BY <1>1, <1>4, <2>1, <2>2, ClientMoves, ClientOnly DEF Create
  <1>5. CASE Read(c)
    <2> DEFINE to == [client[c] EXCEPT !.pc = "read", !.doc = disk]
    <2>1. to \in People /\ to.unit \in Askers BY <1>1, <1>5 DEF Read, Numbered, People
    <2> HIDE DEF to
    <2>2. client' = [client EXCEPT ![c] = to] BY <1>5 DEF Read, Numbered, to
    <2> QED BY <1>5, <2>1, <2>2, ClientMoves, ClientOnly DEF Read
  <1>6. CASE Apply(c)
    <2> DEFINE to == IF client[c].via = "bridge" /\ ~client[c].again
                     THEN [client[c] EXCEPT !.pc = "created", !.again = TRUE, !.doc = NoDoc] ELSE NoClient
    <2>1. client[c].doc \in Docs /\ client[c].unit \in Askers BY <1>1, <1>6 DEF Apply, Numbered, People
    <2>2. Applied(client[c].doc.recs, c) \in Tables BY <1>1, <2>1, AppliedFacts DEF Docs
    <2>3. disk' \in Docs BY <1>6, <2>1, <2>2 DEF Apply, Docs
    <2>4. to \in People /\ (to.pc = "created" => to.unit \in Askers) /\ to.pc \in {"idle", "created"}
      BY <1>1, <2>1, EmptyTable DEF People, NoDoc, Docs
    <2> HIDE DEF to
    <2>5. client' = [client EXCEPT ![c] = to] BY <1>6 DEF Apply, Numbered, to
    <2>6. /\ client' \in [Clients -> People]
          /\ \A d \in Clients : client'[d].pc \in {"valid", "created", "read"} => client'[d].unit \in Askers
      BY <2>4, <2>5, ClientMoves
    <2> QED BY <1>6, <2>3, <2>6 DEF Apply, Numbered
  <1> QED BY <1>2, <1>3, <1>4, <1>5, <1>6 DEF Answers

LEMMA AskingKeeps == ASSUME Numbered, Once, NEW w \in Askers, Asking(w) \/ Type(w) PROVE Numbered'
  <1>1. ask[w] \in Asked /\ run.life \in Nat BY DEF Numbered, RunningRuns
  <1>a. OptionsOf(w) \subseteq Words /\ Given(w) \subseteq Words BY OptionWords
  <1>2. CASE Open(w)
    <2>1. ask' \in [Askers -> Asked] BY <1>1, <1>2 DEF Open, Numbered, Asked
    <2>2. [seq |-> ask[w].seq, unit |-> w, life |-> run.life, whole |-> FALSE]
             \in [seq : Nat, unit : Askers, life : Nat, whole : BOOLEAN]
      BY <1>1 DEF Asked
    <2>3. req' \subseteq [seq : Nat, unit : Askers, life : Nat, whole : BOOLEAN]
      BY <1>2, <2>2 DEF Open, Numbered
    <2> QED BY <1>2, <2>1, <2>3 DEF Open, Numbered
  <1>3. CASE Fill(w)
    <2>1. ask' \in [Askers -> Asked] BY <1>1, <1>3 DEF Fill, Numbered, Asked
    <2>2. \A q \in req : [q EXCEPT !.whole = TRUE] \in [seq : Nat, unit : Askers, life : Nat, whole : BOOLEAN]
      BY DEF Numbered
    <2>3. req' \subseteq [seq : Nat, unit : Askers, life : Nat, whole : BOOLEAN]
      BY <1>3, <2>2 DEF Fill, Numbered
    <2> QED BY <1>3, <2>1, <2>3 DEF Fill, Numbered
  <1>4. ASSUME NEW answer \in Words, Resolve(w, answer), UNCHANGED <<disk, req, client>> PROVE Numbered'
    BY <1>4, ResolveKeeps
  <1>5. CASE Look(w)
    <2>1. CASE \E a \in ans : a.seq = ask[w].seq /\ a.answer \in OptionsOf(w)
      <3>1. PICK a \in ans : a.seq = ask[w].seq /\ Resolve(w, a.answer) BY <1>5, <2>1 DEF Look
      <3>2. a.answer \in Words BY <1>a, <2>1, <3>1 DEF Once
      <3> QED BY <1>4, <1>5, <3>1, <3>2 DEF Look
    <2>2. CASE ask' = [ask EXCEPT ![w].st = "looked"] /\ UNCHANGED <<run, chain>>
      <3>1. ask' \in [Askers -> Asked] BY <1>1, <2>2 DEF Numbered, Asked
      <3> QED BY <1>5, <2>2, <3>1, AskOnly DEF Look
    <2> QED BY <1>5, <2>1, <2>2 DEF Look
  <1>6. CASE AfterLook(w)
    <2>1. CASE ask[w].tty \in OptionsOf(w) /\ Resolve(w, ask[w].tty) BY <1>4, <1>6, <1>a, <2>1 DEF AfterLook
    <2>2. CASE ask' = [ask EXCEPT ![w].st = "judging"] /\ UNCHANGED <<run, chain>>
      <3>1. ask' \in [Askers -> Asked] BY <1>1, <2>2 DEF Numbered, Asked
      <3> QED BY <1>6, <2>2, <3>1, AskOnly DEF AfterLook
    <2>3. CASE Sleep(w)
      <3>1. ask' \in [Askers -> Asked] BY <1>1, <2>3 DEF Sleep, Numbered, Asked
      <3> QED BY <1>6, <2>3, <3>1, AskOnly DEF AfterLook, Sleep
    <2> QED BY <1>6, <2>1, <2>2, <2>3 DEF AfterLook
  <1>7. CASE BrainAnswers(w) BY <1>4, <1>7, <1>a DEF BrainAnswers
  <1>8. CASE Type(w)
    <2>1. PICK typed \in Given(w) :
            ask' = [ask EXCEPT ![w].tty = IF typed \in OptionsOf(w) THEN typed ELSE "bad"]
      BY <1>8 DEF Type
    <2>2. ask' \in [Askers -> Asked] BY <1>1, <1>a, <2>1 DEF Numbered, Asked
    <2> QED BY <1>8, <2>2, AskOnly DEF Type
  <1> QED BY <1>2, <1>3, <1>5, <1>6, <1>7, <1>8 DEF Asking

LEMMA NumberedNext == ASSUME Numbered, Once, [ParkedNext]_parkedVars PROVE Numbered'
  <1>1. CASE Launch BY <1>1, LaunchKeeps
  <1>2. CASE Persist BY <1>2, PersistKeeps
  <1>3. CASE Complete \/ KillRun BY <1>3, EndKeeps
  <1>4. CASE Recover
    <2>1. PICK r \in Owed : RecordDecision(r.unit, r.seq) BY <1>4 DEF Recover
    <2>2. r \in DecisionRecords BY <2>1 DEF Owed, Numbered, RunningRuns, Tables
    <2> QED BY <2>1, <2>2, RecordKeeps DEF DecisionRecords
  <1>5. ASSUME NEW w \in Units, Judge(w) PROVE Numbered' BY <1>5, RecordKeeps DEF Judge
  <1>6. ASSUME NEW w \in Askers, Asking(w) \/ Type(w) PROVE Numbered' BY <1>6, AskingKeeps
  <1>7. ASSUME NEW c \in Clients, Answers(c) PROVE Numbered' BY <1>7, AnswersKeep
  <1>8. CASE UNCHANGED parkedVars \/ \E l \in Lives : Parse(l) BY <1>8 DEF parkedVars, Parse, Numbered
  <1>9. CASE ParkLand BY <1>9, ParkLandKeeps
  <1> QED BY <1>1, <1>2, <1>3, <1>4, <1>5, <1>6, <1>7, <1>8, <1>9 DEF ParkedNext, Process

\* Only the one who creates the decision file changes the answers.
LEMMA AnswersStand ==
  ASSUME Once, [ParkedNext]_parkedVars
  PROVE  /\ ans' = ans \/ \E c \in Clients : Create(c)
  BY DEF ParkedNext, Process, Launch, Persist, Complete, KillRun, Recover, Judge, RecordDecision, ParkLand, Asking, Open, Fill, Look,
         AfterLook, BrainAnswers, Type, Answers, Find, Validate, Read, Apply, Parse, parkedVars

LEMMA OnceKept ==
  ASSUME Numbered, Once, [ParkedNext]_parkedVars
  PROVE  Once' /\ \A a \in ans : {b \in ans' : b.seq = a.seq} = {a}
  <1> DEFINE A == \A a \in ans : {b \in ans' : b.seq = a.seq} = {a}
  <1>1. CASE ans' = ans BY <1>1 DEF Once
  <1>2. ASSUME NEW c \in Clients, Create(c) PROVE Once' /\ A
    <2>1. client[c] \in People BY DEF Numbered
    <2>2. CASE Free(client[c].seq)
      <3>1. \A a \in ans : a.seq # client[c].seq BY <2>2 DEF Free, Answered
      <3>2. ans' = ans \cup {[seq |-> client[c].seq, answer |-> client[c].answer]}
        BY <1>2, <2>2, <3>1 DEF Create
      <3> QED BY <2>1, <3>1, <3>2 DEF Once, People
    <2>3. CASE ans' = ans BY <2>3 DEF Once
    <2> QED BY <1>2, <2>2, <2>3 DEF Create
  <1> QED BY <1>1, <1>2, AnswersStand

\* The units in run.json have one record of a number between them, whatever a kill loses and whoever
\* writes it back.
THEOREM NumbersAreUnique == ParkedSpec => []OneRecord
  <1>1. Numbered => OneRecord BY DEF Numbered, Docs, Tables, OneRecord
  <1>2. Numbered /\ Once /\ [ParkedNext]_parkedVars => Numbered' /\ Once' BY NumberedNext, OnceKept
  <1> QED BY NumberedInit, <1>1, <1>2, PTL DEF ParkedSpec

\* The first answer to a number stands.
THEOREM AnswersAreFinal == ParkedSpec => FirstAnswerStands
  <1> DEFINE A == \A a \in ans : {b \in ans' : b.seq = a.seq} = {a}
  <1>1. Numbered /\ Once /\ [ParkedNext]_parkedVars => Numbered' /\ Once' /\ [A]_parkedVars BY NumberedNext, OnceKept
  <1> QED BY NumberedInit, <1>1, PTL DEF ParkedSpec, FirstAnswerStands
=============================================================================
