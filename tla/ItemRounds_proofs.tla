-------------------------- MODULE ItemRounds_proofs --------------------------
(***************************************************************************)
(* Proofs about ItemRounds, for every configuration: the budget, the        *)
(* strategy changes, the ledger and the verdict of one item, whatever is    *)
(* retried, given back, or lost in a kill.                                  *)
(*                                                                          *)
(* Nothing here holds on what is in memory alone.  A kill takes the item    *)
(* back to its last save, so each part of the inductive invariant speaks of *)
(* s and of saved, and Place says how far apart the two may be: by one      *)
(* round while a generation runs, by the sessions billed since the last     *)
(* save (Money), and, while the process stops at a limit, by a round given  *)
(* back that the disk does not know of yet.  The counts of rounds           *)
(* (Undecided, Seen) move by at most one with the round they end at.        *)
(*                                                                          *)
(* A step that changes several fields is first reduced to what it does to   *)
(* them (RoundsEntered, RoundBegun, ...); after that, one lemma for each    *)
(* part of the invariant, and in it one step for each action.               *)
(***************************************************************************)
EXTENDS ItemRounds, SequenceTheorems, FiniteSetTheorems, TLAPS

-----------------------------------------------------------------------------
(* The inductive invariant.                                                  *)

\* The fields of the records, in the form the provers need to follow an EXCEPT.
IsState(x) ==
  x = [status |-> x.status, round |-> x.round, spent |-> x.spent, failed |-> x.failed,
       escalated |-> x.escalated, streak |-> x.streak, pivots |-> x.pivots,
       bounced |-> x.bounced, high |-> x.high, acked |-> x.acked, paused |-> x.paused,
       stepping |-> x.stepping, restarts |-> x.restarts]
IsHistory(h) ==
  h = [billed |-> h.billed, human |-> h.human, crashes |-> h.crashes, resets |-> h.resets,
       accepted |-> h.accepted]
IsProcess(p) ==
  p = [fresh |-> p.fresh, kind |-> p.kind, found |-> p.found, inconclusive |-> p.inconclusive,
       fallback |-> p.fallback]
Shapes == IsState(s) /\ IsState(saved) /\ IsHistory(hist) /\ IsProcess(v)

Numbers ==
  /\ s.round \in Nat /\ s.round <= MaxRounds /\ saved.round \in Nat /\ saved.round <= MaxRounds
  /\ s.spent \in Nat /\ s.failed \in Nat /\ s.streak \in Nat /\ s.pivots \in Nat
  /\ saved.spent \in Nat /\ saved.failed \in Nat /\ saved.streak \in Nat /\ saved.pivots \in Nat
  /\ hist.billed \in Nat /\ hist.human \in Nat /\ hist.crashes \in Nat /\ hist.resets \in Nat

Sight == seen \in [0 .. MaxRounds -> Findings \cup {"none"}]

\* Where a round that was begun is not on disk yet, and where it is not graded yet.
Going    == {"reset", "generate", "generated", "limitedOut", "died"}
Ungraded == Going \cup {"generatorLimit", "evaluatorLimit", "deathCheck", "check", "evaluate"}
\* Where memory and disk agree.
Synced   == {"down", "item", "contract", "generatorLimit", "deathCheck", "check", "evaluate",
             "bounced", "pivoted", "accepted", "halted"}

\* How far memory and disk are apart, and what is not graded.
Place ==
  /\ pc \in Synced => saved = s
  /\ pc \in Going => s.round - saved.round \in {0, 1}
  /\ pc = "stopping" => saved.round - s.round \in {0, 1}
  /\ pc \notin Going \cup {"stopping"} => saved.round = s.round
  /\ pc \in Ungraded => s.round >= 1 /\ seen[s.round] = "none"
  /\ pc = "failing" => v.found \in {"weak", "fail", "envBlocked"}
  /\ \A r \in 0 .. MaxRounds : r > s.round \/ r > saved.round => seen[r] = "none"

\* SpendBounded, with what each step has left under the cap.
Money ==
  /\ hist.billed - s.spent <= 2 * hist.crashes
  /\ saved.spent <= s.spent
  /\ s.spent - saved.spent <= IF pc \in {"generated", "limitedOut", "died"} THEN 2 ELSE 1
  /\ Cap > 0 =>
       /\ s.spent <= Cap + 2
       /\ pc \in {"reset", "generate", "evaluate"} => s.spent < Cap
       /\ pc \in {"generated", "limitedOut", "died", "roundPause", "rerun", "second"} => s.spent <= Cap
       /\ pc = "review" => s.spent <= Cap + 1

\* PassWarranted, with the steps that lead to an acceptance.
Passing ==
  /\ pc \in {"rerun", "second", "review", "accepting"} => seen[s.round] = "pass"
  /\ pc = "humanAccepting" => hist.accepted # "no"
  /\ s.status = "passed" =>
       /\ pc \in {"accepted", "stopping", "down", "item"}
       /\ seen[s.round] = "pass" \/ hist.accepted # "no"
  /\ saved.status = "passed" => s.status = "passed" /\ saved.round = s.round

\* Where a run stopped after a round stands, and that its pause does not outlive the decision.
Steps ==
  /\ s.acked \/ pc \in {"down", "item", "contract"} \/ ~ContractStep
  /\ s.acked => saved.acked
  /\ \A x \in {s, saved} : x.paused = "round" => x.status # "failed" /\ (x.acked \/ ~ContractStep)
  /\ s.status = "failed" => pc \in {"down", "item", "stopping"}
  /\ pc = "decision" => s.paused = "round"
  /\ s.paused = "round" => pc \in {"down", "item", "contract", "decision", "stopping"}

\* The order of the ledger, and that a round without a grade has no record.
Ordered ==
  /\ \E S : ledger \in Seq(S)
  /\ \A i, j \in DOMAIN ledger : i < j => ledger[i].round < ledger[j].round
  /\ \A i \in DOMAIN ledger :
       ledger[i].round \in Nat /\ ledger[i].round <= s.round /\ ledger[i].round <= saved.round
  /\ pc \in Ungraded => \A i \in DOMAIN ledger : ledger[i].round < s.round

\* The rounds without a record: where the process could go on to the next round, none but those
\* a kill or a failed reset explains; on disk, one more, which the kill to come would explain.
Excused         == hist.crashes + hist.resets
Undecided(l, n) == Cardinality({r \in 1 .. n : ~Recorded(l, r)})
Rest            == {"down", "item", "contract", "stopping"}
Decided ==
  /\ Undecided(ledger, s.round - 1) <= Excused
  /\ Undecided(ledger, saved.round) <= Excused + 1
  /\ pc \in {"loop", "humanAccepting"} => Undecided(ledger, s.round) <= Excused
  /\ pc \in Rest /\ s.paused # "round" => Undecided(ledger, s.round) <= Excused

\* The weak grades that pivots and streak lay claim to, in memory and on disk.
Seen(f, fs, n) == Cardinality({r \in 1 .. n : f[r] \in fs})
Claimed(x)     == PivotN * (x.pivots - hist.human) + x.streak
Earned ==
  /\ Claimed(s) <= Seen(seen, {"weak"}, s.round)
  /\ Claimed(saved) <= Seen(seen, {"weak"}, saved.round)
  /\ pc = "failing" /\ v.found = "weak" => Claimed(s) + 1 <= Seen(seen, {"weak"}, s.round)
  /\ pc = "pivot" => s.streak >= PivotN

\* The failed rounds; where the round may still be counted as one, it is not yet.
Open == Ungraded \cup {"rerun", "second", "review", "failing"}
Counted ==
  /\ s.failed <= s.round - Seen(seen, {"blocked"}, s.round)
  /\ saved.failed <= saved.round - Seen(seen, {"blocked"}, saved.round)
  /\ pc \in Open => s.failed + 1 <= s.round - Seen(seen, {"blocked"}, s.round)

Inv == /\ Shapes /\ Numbers /\ Sight /\ Place /\ Money /\ Passing
       /\ Steps /\ Ordered /\ Decided /\ Earned /\ Counted

-----------------------------------------------------------------------------
(* What the steps that change several fields at once do.                     *)

SameNumbers(x, y) == /\ y.round = x.round /\ y.spent = x.spent /\ y.failed = x.failed
                     /\ y.streak = x.streak /\ y.pivots = x.pivots
SameMarks(x, y)   == y.status = x.status /\ y.paused = x.paused /\ y.acked = x.acked
SameRecord(g, h)  == /\ h.human = g.human /\ h.crashes = g.crashes /\ h.resets = g.resets
                     /\ h.accepted = g.accepted

\* The contract is settled.
RoundsEntered ==
  /\ pc = "contract" /\ saved = s /\ IsState(s') /\ IsState(saved')
  /\ s'.status = "building" /\ saved'.status = s.status
  /\ SameNumbers(s, s') /\ SameNumbers(s, saved')
  /\ s'.paused = saved'.paused /\ s'.acked = saved'.acked
  /\ s.paused = "contract" => s'.acked /\ s'.paused = "none"
  /\ s.paused # "contract" => s'.acked = s.acked /\ s'.paused = s.paused
  /\ ContractStep => s'.acked
  /\ pc' = IF s.paused = "round" THEN "decision" ELSE "loop"
  /\ UNCHANGED <<ledger, v, seen, hist>>

\* A round begins; whether it is saved depends on the escalation.
RoundBegun ==
  /\ pc = "loop" /\ saved.round = s.round /\ s.round + 1 <= MaxRounds
  /\ Cap > 0 => s.spent < Cap
  /\ s'.round = s.round + 1 /\ IsState(s') /\ SameMarks(s, s')
  /\ s'.spent = s.spent /\ s'.failed = s.failed /\ s'.streak = s.streak /\ s'.pivots = s.pivots
  /\ saved' \in {s', saved} /\ pc' \in {"reset", "generate"}
  /\ IsProcess(v') /\ v'.found = "none"
  /\ UNCHANGED <<ledger, seen, hist>>

\* A gate lets a pass through, for a session or for nothing.
GatePassed ==
  \E c \in {0, 1} :
    /\ pc \in {"rerun", "second", "review"} /\ (pc = "rerun" => c = 0)
    /\ pc' = GateAfter(pc)
    /\ s'.spent = s.spent + c /\ hist'.billed = hist.billed + c
    /\ IsState(s') /\ IsHistory(hist') /\ SameMarks(s, s') /\ SameRecord(hist, hist')
    /\ s'.round = s.round /\ s'.failed = s.failed /\ s'.streak = s.streak /\ s'.pivots = s.pivots
    /\ saved' = s' \/ (saved' = saved /\ c = 0)
    /\ UNCHANGED <<ledger, v, seen>>

\* A gate objects: saved once billed, and before the failure is counted.
Demoted ==
  \E c \in {0, 1} :
    /\ pc \in {"rerun", "second", "review"} /\ (pc = "rerun" => c = 0) /\ pc' = "patch"
    /\ s'.spent = s.spent + c /\ hist'.billed = hist.billed + c
    /\ s'.failed \in {s.failed, s.failed + 1} /\ s'.streak = s.streak /\ s'.pivots = s.pivots
    /\ IsState(s') /\ IsHistory(hist') /\ SameMarks(s, s') /\ SameRecord(hist, hist')
    /\ s'.round = s.round
    /\ \/ saved' = saved /\ c = 0
       \/ /\ saved'.spent = s.spent + c /\ saved'.failed = s.failed /\ saved'.streak = s.streak
          /\ saved'.pivots = s.pivots /\ saved'.round = s.round
          /\ IsState(saved') /\ SameMarks(s, saved')
    /\ UNCHANGED <<ledger, v, seen>>

\* A round given back: at a provider's limit, or after a session's death with budget left.
BacksOff == RetryAfterDeath \/ \E role \in Roles : LimitRetry(role) \/ LimitHalt(role)
RoundBack ==
  /\ pc \in {"generatorLimit", "evaluatorLimit", "deathCheck"}
  /\ s.round >= 1 /\ s'.round = s.round - 1 /\ IsState(s') /\ SameMarks(s, s')
  /\ s'.spent = s.spent /\ s'.failed = s.failed /\ s'.streak = s.streak /\ s'.pivots = s.pivots
  /\ (pc' = "loop" /\ saved' = s') \/ (pc' = "stopping" /\ saved' = saved)
  /\ IsProcess(v') /\ v'.found = v.found
  /\ UNCHANGED <<ledger, seen, hist>>

\* The steps that append to the ledger.
Recording ==
  \/ \E reasoned \in BOOLEAN : HumanAccept(reasoned)
  \/ HumanAbandon \/ HumanPivot \/ HumanContinue
  \/ RecordBounce \/ Patch \/ RecordPivot \/ RecordAccept \/ RecordHalt \/ RunOut
RoundRecorded ==
  /\ \E a : a.round = s.round /\ ledger' = AppendAttempt(ledger, a)
  /\ pc \in {"decision", "bounced", "patch", "pivoted", "accepted", "halted", "loop", "pivot"}
  /\ pc' \in {"humanAccepting", "stopping", "loop"}
  /\ s'.round = s.round /\ saved' = saved
  /\ hist'.crashes = hist.crashes /\ hist'.resets = hist.resets

\* Into the rounds, or to the decision a pause is waiting for.
LEMMA EntersRounds ==
  ASSUME Shapes, Place, EnterRounds
  PROVE  RoundsEntered
<1>1. saved = s /\ pc = "contract"
  BY DEF EnterRounds, Place, Synced
<1>2. CASE s.paused = "contract"
  <2>1. saved' = [s EXCEPT !.acked = TRUE, !.paused = "none"] /\ s' = [saved' EXCEPT !.status = "building"]
    BY <1>2 DEF EnterRounds
  <2>2. IsState(saved') /\ saved'.acked /\ saved'.paused = "none" /\ saved'.status = s.status
        /\ SameNumbers(s, saved')
    BY <2>1 DEF Shapes, IsState, SameNumbers
  <2>3. IsState(s') /\ s'.acked /\ s'.paused = "none" /\ s'.status = "building" /\ SameNumbers(s, s')
    BY <2>1, <2>2 DEF Shapes, IsState, SameNumbers
  <2> QED
    BY <1>1, <1>2, <2>2, <2>3 DEF EnterRounds, RoundsEntered
<1>3. CASE s.paused # "contract"
  <2>1. saved' = s /\ s' = [s EXCEPT !.status = "building"] /\ (ContractStep => s.acked)
    BY <1>1, <1>3 DEF EnterRounds
  <2>2. IsState(s') /\ s'.acked = s.acked /\ s'.paused = s.paused /\ s'.status = "building"
        /\ SameNumbers(s, s')
    BY <2>1 DEF Shapes, IsState, SameNumbers
  <2> QED
    BY <1>1, <1>3, <2>1, <2>2 DEF EnterRounds, SameNumbers, Shapes, RoundsEntered
<1> QED
  BY <1>2, <1>3 DEF RoundsEntered

\* The loop's next round.
LEMMA BeginsRound ==
  ASSUME Shapes, Numbers, Place, NextRound
  PROVE  RoundBegun
<1>1. /\ pc = "loop" /\ saved.round = s.round
      /\ Cap > 0 => s.spent < Cap
      /\ saved' \in {s', saved} /\ pc' \in {"reset", "generate"}
      /\ UNCHANGED <<ledger, seen, hist>>
  BY BoundsAssumption DEF NextRound, OverBudget, Place, Going, Numbers
<1>2. s.round + 1 <= MaxRounds
  BY BoundsAssumption DEF NextRound, LastRound, Numbers
<1>3. PICK e : s' = [s EXCEPT !.round = s.round + 1, !.escalated = e]
  BY DEF NextRound
<1>4. /\ s'.round = s.round + 1 /\ IsState(s') /\ SameMarks(s, s')
      /\ s'.spent = s.spent /\ s'.failed = s.failed /\ s'.streak = s.streak /\ s'.pivots = s.pivots
  BY <1>3 DEF Shapes, IsState, SameMarks
<1>5. PICK k, f : v' = [v EXCEPT !.kind = k, !.found = "none", !.inconclusive = FALSE, !.fallback = f]
  BY DEF NextRound
<1>6. IsProcess(v') /\ v'.found = "none"
  BY <1>5 DEF Shapes, IsProcess
<1> QED
  BY <1>1, <1>2, <1>4, <1>6 DEF RoundBegun

\* A gate that is passed.
LEMMA PassesGate ==
  ASSUME Shapes, Numbers, Place, PassGate
  PROVE  GatePassed
<1>1. /\ pc \in {"rerun", "second", "review"} /\ pc' = GateAfter(pc)
      /\ UNCHANGED <<ledger, v, seen>>
  BY DEF PassGate
<1>2. CASE pc \in Gates \ {"rerun"}
  <2>1. /\ s' = [s EXCEPT !.spent = s.spent + 1] /\ saved' = s'
        /\ hist' = [hist EXCEPT !.billed = hist.billed + 1]
    BY <1>2 DEF PassGate, Bill
  <2>2. /\ s'.spent = s.spent + 1 /\ IsState(s') /\ SameMarks(s, s')
        /\ s'.round = s.round /\ s'.failed = s.failed /\ s'.streak = s.streak /\ s'.pivots = s.pivots
    BY <2>1 DEF Shapes, IsState, SameMarks
  <2>3. hist'.billed = hist.billed + 1 /\ IsHistory(hist') /\ SameRecord(hist, hist')
    BY <2>1 DEF Shapes, IsHistory, SameRecord
  <2> QED
    BY <1>1, <1>2, <2>1, <2>2, <2>3 DEF GatePassed
<1>3. CASE pc \notin Gates \ {"rerun"}
  <2>1. s' = s /\ saved' = saved /\ hist' = hist
    BY <1>3 DEF PassGate
  <2>2. s'.spent = s.spent + 0 /\ hist'.billed = hist.billed + 0
    BY <2>1 DEF Numbers
  <2> QED
    BY <1>1, <2>1, <2>2 DEF Shapes, SameMarks, SameRecord, GatePassed
<1> QED
  BY <1>2, <1>3 DEF GatePassed

\* A gate that is not.
LEMMA Demotes ==
  ASSUME Shapes, Numbers, Place, Demote
  PROVE  Demoted
<1> DEFINE c == IF pc = "rerun" THEN 0 ELSE 1
           billed == [s EXCEPT !.spent = s.spent + c]
<1>1. /\ pc \in {"rerun", "second", "review"} /\ pc' = "patch"
      /\ s' = NoteFailed(billed) /\ saved' = (IF c = 0 THEN saved ELSE billed)
      /\ hist' = [hist EXCEPT !.billed = hist.billed + c]
      /\ UNCHANGED <<ledger, v, seen>>
  BY ConfigAssumption DEF Demote
<1>2. c \in {0, 1} /\ (pc = "rerun" => c = 0)
  OBVIOUS
<1> HIDE DEF c
<1>3. /\ billed.spent = s.spent + c /\ billed.failed = s.failed /\ billed.streak = s.streak
      /\ billed.pivots = s.pivots /\ billed.round = s.round
      /\ IsState(billed) /\ SameMarks(s, billed)
  BY DEF Shapes, IsState, SameMarks
<1> HIDE DEF billed
<1>4. s' = billed \/ s' = [billed EXCEPT !.failed = billed.failed + 1]
  BY <1>1 DEF NoteFailed
<1>5. /\ s'.spent = s.spent + c /\ s'.failed \in {s.failed, s.failed + 1} /\ s'.streak = s.streak
      /\ s'.pivots = s.pivots /\ s'.round = s.round
      /\ IsState(s') /\ SameMarks(s, s')
  BY <1>3, <1>4 DEF IsState, SameMarks
<1>6. hist'.billed = hist.billed + c /\ IsHistory(hist') /\ SameRecord(hist, hist')
  BY <1>1 DEF Shapes, IsHistory, SameRecord
<1>7. \/ saved' = saved /\ c = 0
      \/ /\ saved'.spent = s.spent + c /\ saved'.failed = s.failed /\ saved'.streak = s.streak
         /\ saved'.pivots = s.pivots /\ saved'.round = s.round
         /\ IsState(saved') /\ SameMarks(s, saved')
  BY <1>1, <1>2, <1>3
<1> QED
  BY <1>1, <1>2, <1>5, <1>6, <1>7 DEF Demoted

\* The three ways a round is given back.
LEMMA GivesBack ==
  ASSUME Shapes, Numbers, Place, BacksOff
  PROVE  RoundBack
<1>1. /\ pc \in {"generatorLimit", "evaluatorLimit", "deathCheck"}
      /\ (pc' = "loop" /\ saved' = s') \/ (pc' = "stopping" /\ saved' = saved)
      /\ UNCHANGED <<ledger, seen, hist>>
  BY DEF BacksOff, RetryAfterDeath, LimitRetry, LimitHalt, AtLimit, Roles
<1>2. s.round >= 1 /\ s.round \in Nat
  BY <1>1 DEF Place, Ungraded, Numbers
<1>3. RoundGivenBack = [s EXCEPT !.round = s.round - 1]
  BY <1>2 DEF RoundGivenBack, GiveBack
<1>4. PICK e : s' = [s EXCEPT !.round = s.round - 1, !.restarts = e]
  <2>1. s' = RoundGivenBack \/ s' = [RoundGivenBack EXCEPT !.restarts = RestartsAfter]
    BY DEF BacksOff, RetryAfterDeath, LimitRetry, LimitHalt
  <2>2. RoundGivenBack = [s EXCEPT !.round = s.round - 1, !.restarts = s.restarts]
    BY <1>3 DEF Shapes, IsState
  <2>3. [RoundGivenBack EXCEPT !.restarts = RestartsAfter]
          = [s EXCEPT !.round = s.round - 1, !.restarts = RestartsAfter]
    BY <1>3 DEF Shapes, IsState
  <2> QED
    BY <2>1, <2>2, <2>3
<1>5. /\ s'.round = s.round - 1 /\ IsState(s') /\ SameMarks(s, s')
      /\ s'.spent = s.spent /\ s'.failed = s.failed /\ s'.streak = s.streak /\ s'.pivots = s.pivots
  BY <1>4 DEF Shapes, IsState, SameMarks
<1>6. IsProcess(v') /\ v'.found = v.found
  BY DEF BacksOff, RetryAfterDeath, LimitRetry, LimitHalt, Shapes, IsProcess
<1> QED
  BY <1>1, <1>2, <1>5, <1>6 DEF RoundBack

\* Every record is one of the round reached, and moves no round.
LEMMA RecordsRound ==
  ASSUME Shapes, Recording
  PROVE  RoundRecorded
<1>1. \E a : a.round = s.round /\ ledger' = AppendAttempt(ledger, a)
  <2>1. \A k, d, w : Attempt(k, d, w).round = s.round
    BY DEF Attempt
  <2> QED
    BY <2>1 DEF Recording, HumanAccept, HumanAbandon, HumanPivot, HumanContinue, RecordHuman,
            RecordBounce, Patch, RecordPivot, RecordAccept, RecordHalt, RunOut, Record
<1>2. CASE (\E reasoned \in BOOLEAN : HumanAccept(reasoned)) \/ HumanAbandon \/ HumanPivot \/ HumanContinue
  BY <1>1, <1>2 DEF HumanAccept, HumanAbandon, HumanPivot, HumanContinue, Unpaused, Shapes, IsState,
            IsHistory, RoundRecorded
<1>3. CASE RecordBounce \/ Patch \/ RecordPivot \/ RecordAccept \/ RecordHalt \/ RunOut
  BY <1>1, <1>3 DEF RecordBounce, Patch, RecordPivot, RecordAccept, RecordHalt, RunOut, Shapes,
            IsState, RoundRecorded
<1> QED
  BY <1>2, <1>3 DEF Recording

-----------------------------------------------------------------------------
(* The ledger and the counts.                                                *)

\* A record of the round that s has reached: it goes to the end, unless there is one.
LEMMA RecordAdds ==
  ASSUME Ordered, s.round \in Nat, NEW a, a.round = s.round, ledger' = AppendAttempt(ledger, a)
  PROVE  /\ \E S : ledger' \in Seq(S)
         /\ \A i, j \in DOMAIN ledger' : i < j => ledger'[i].round < ledger'[j].round
         /\ \A i \in DOMAIN ledger' : ledger'[i].round \in Nat /\ ledger'[i].round <= s.round
         /\ \A r : Recorded(ledger', r) <=> Recorded(ledger, r) \/ r = s.round
<1> USE DEF Ordered
<1>1. CASE Recorded(ledger, s.round)
  BY <1>1 DEF AppendAttempt
<1>2. CASE ~Recorded(ledger, s.round)
  <2> DEFINE e == RecordOf(ledger, a)
  <2>1. PICK S : ledger \in Seq(S)
    OBVIOUS
  <2>2. e.round = s.round
    BY DEF RecordOf
  <2>3. ledger' = Append(ledger, e)
    BY <1>2 DEF AppendAttempt
  <2> HIDE DEF e
  <2>4. DOMAIN ledger = 1 .. Len(ledger) /\ Len(ledger) \in Nat /\ ledger \in Seq(S \cup {e})
    BY <2>1, LenProperties, SeqMonotonic
  <2>5. /\ ledger' \in Seq(S \cup {e}) /\ Len(ledger') = Len(ledger) + 1
        /\ \A i \in 1 .. Len(ledger) : ledger'[i] = ledger[i]
        /\ ledger'[Len(ledger) + 1] = e
    BY <2>3, <2>4, AppendProperties
  <2>6. DOMAIN ledger' = 1 .. Len(ledger) + 1
    BY <2>5, LenProperties
  <2>7. \A i \in DOMAIN ledger : ledger[i].round < s.round
    BY <1>2 DEF Recorded
  <2>8. \A i \in DOMAIN ledger' :
          (i \in DOMAIN ledger /\ ledger'[i] = ledger[i]) \/ (i = Len(ledger) + 1 /\ ledger'[i] = e)
    BY <2>4, <2>5, <2>6
  <2>9. \A r : Recorded(ledger', r) <=> Recorded(ledger, r) \/ r = s.round
    <3>1. Len(ledger) + 1 \in DOMAIN ledger' /\ DOMAIN ledger \subseteq DOMAIN ledger'
      BY <2>4, <2>6
    <3> QED
      BY <2>2, <2>4, <2>5, <2>8, <3>1 DEF Recorded
  <2>10. \A i, j \in DOMAIN ledger' : i < j => ledger'[i].round < ledger'[j].round
    BY <2>2, <2>4, <2>6, <2>7, <2>8
  <2> QED
    BY <2>2, <2>5, <2>7, <2>8, <2>9, <2>10
<1> QED
  BY <1>1, <1>2

\* Counting the rounds up to n that have no record.
LEMMA UndecidedGrows ==
  ASSUME NEW l, NEW n \in Nat
  PROVE  /\ Undecided(l, n) \in Nat /\ Undecided(l, n - 1) \in Nat
         /\ Undecided(l, n - 1) <= Undecided(l, n)
         /\ Undecided(l, n) <= Undecided(l, n - 1) + 1
         /\ Recorded(l, n) => Undecided(l, n) = Undecided(l, n - 1)
<1> DEFINE A == {r \in 1 .. n - 1 : ~Recorded(l, r)}
           B == {r \in 1 .. n : ~Recorded(l, r)}
<1>1. IsFiniteSet(A) /\ IsFiniteSet(B)
  <2>1. IsFiniteSet(1 .. n - 1) /\ IsFiniteSet(1 .. n)
    BY FS_Interval
  <2> QED
    BY <2>1, FS_Subset
<1>2. B = A \/ (n \notin A /\ B = A \cup {n} /\ ~Recorded(l, n))
  OBVIOUS
<1>3. Cardinality(A) \in Nat /\ Cardinality(A \cup {n}) \in Nat
  BY <1>1, FS_CardinalityType, FS_AddElement
<1>4. n \notin A => Cardinality(A \cup {n}) = Cardinality(A) + 1
  BY <1>1, FS_AddElement
<1> QED
  BY <1>2, <1>3, <1>4 DEF Undecided

\* More records leave fewer rounds without one.
LEMMA UndecidedShrinks ==
  ASSUME NEW l, NEW k, NEW n \in Nat, \A r : Recorded(l, r) => Recorded(k, r)
  PROVE  Undecided(k, n) <= Undecided(l, n) /\ Undecided(k, n) \in Nat
<1> DEFINE A == {r \in 1 .. n : ~Recorded(k, r)}
           B == {r \in 1 .. n : ~Recorded(l, r)}
<1>1. IsFiniteSet(B) /\ A \subseteq B
  <2>1. IsFiniteSet(1 .. n)
    BY FS_Interval
  <2> QED
    BY <2>1, FS_Subset
<1>2. Cardinality(A) <= Cardinality(B) /\ IsFiniteSet(A)
  BY <1>1, FS_Subset
<1> QED
  BY <1>2, FS_CardinalityType DEF Undecided

\* Counting the rounds up to n whose finding is one of fs.
LEMMA SeenGrows ==
  ASSUME NEW f, NEW fs, NEW n \in Nat
  PROVE  /\ Seen(f, fs, n) \in Nat /\ Seen(f, fs, n - 1) \in Nat
         /\ Seen(f, fs, n - 1) <= Seen(f, fs, n)
         /\ f[n] \notin fs => Seen(f, fs, n) = Seen(f, fs, n - 1)
<1> DEFINE A == {r \in 1 .. n - 1 : f[r] \in fs}
           B == {r \in 1 .. n : f[r] \in fs}
<1>1. IsFiniteSet(A) /\ IsFiniteSet(B)
  <2>1. IsFiniteSet(1 .. n - 1) /\ IsFiniteSet(1 .. n)
    BY FS_Interval
  <2> QED
    BY <2>1, FS_Subset
<1>2. A \subseteq B /\ (f[n] \notin fs => A = B)
  OBVIOUS
<1> QED
  BY <1>1, <1>2, FS_Subset, FS_CardinalityType DEF Seen

\* One more round is graded.
LEMMA SeenGraded ==
  ASSUME Sight, NEW fs, NEW m \in 1 .. MaxRounds, NEW x \in Findings,
         seen' = [seen EXCEPT ![m] = x], seen[m] \notin fs
  PROVE  Seen(seen', fs, m) = IF x \in fs THEN Seen(seen, fs, m) + 1 ELSE Seen(seen, fs, m)
<1> USE BoundsAssumption
<1> DEFINE A == {r \in 1 .. m : seen[r] \in fs}
           B == {r \in 1 .. m : seen'[r] \in fs}
<1>1. IsFiniteSet(A)
  <2>1. IsFiniteSet(1 .. m)
    BY FS_Interval
  <2> QED
    BY <2>1, FS_Subset
<1>2. m \notin A /\ \A r \in 1 .. m : seen'[r] = IF r = m THEN x ELSE seen[r]
  BY DEF Sight
<1>3. CASE x \in fs
  <2>1. B = A \cup {m}
    BY <1>2, <1>3
  <2>2. Cardinality(A \cup {m}) = Cardinality(A) + 1
    BY <1>1, <1>2, FS_AddElement
  <2> QED
    BY <1>3, <2>1, <2>2 DEF Seen
<1>4. CASE x \notin fs
  <2>1. B = A
    BY <1>2, <1>4
  <2> QED
    BY <1>4, <2>1 DEF Seen
<1> QED
  BY <1>3, <1>4

\* A record is of the round reached in memory, and so of one that is on disk.
LEMMA RecordOrders ==
  ASSUME Numbers, Place, Ordered, RoundRecorded
  PROVE  Ordered'
<1>1. /\ s'.round = s.round /\ saved' = saved /\ pc' \notin Ungraded
      /\ s.round \in Nat /\ saved.round \in Nat /\ s.round <= saved.round
  BY DEF RoundRecorded, Numbers, Place, Going, Ungraded
<1>2. PICK a : a.round = s.round /\ ledger' = AppendAttempt(ledger, a)
  BY DEF RoundRecorded
<1>3. /\ \E S : ledger' \in Seq(S)
      /\ \A i, j \in DOMAIN ledger' : i < j => ledger'[i].round < ledger'[j].round
      /\ \A i \in DOMAIN ledger' : ledger'[i].round \in Nat /\ ledger'[i].round <= s.round
  BY <1>1, <1>2, RecordAdds
<1> QED
  BY <1>1, <1>3 DEF Ordered

\* A step that decides nothing: the counts stay.
LEMMA QuietDecided ==
  ASSUME Numbers, Decided, ledger' = ledger, s'.round = s.round, saved'.round \in {s.round, saved.round},
         hist'.crashes = hist.crashes, hist'.resets = hist.resets,
         pc' \in {"loop", "humanAccepting"} \/ (pc' \in Rest /\ s'.paused # "round") =>
           pc \in {"loop", "humanAccepting"} \/ (pc \in Rest /\ s.paused # "round")
  PROVE  Decided'
<1>1. /\ Undecided(ledger, s.round) <= Undecided(ledger, s.round - 1) + 1
      /\ Undecided(ledger, s.round) \in Nat /\ Undecided(ledger, s.round - 1) \in Nat
  BY UndecidedGrows DEF Numbers
<1>2. Excused' = Excused /\ Excused \in Nat
  BY DEF Excused, Numbers
<1>3. Undecided(ledger, saved'.round) <= Excused + 1
  BY <1>1, <1>2 DEF Decided
<1> QED
  BY <1>2, <1>3 DEF Decided

\* A round that is given back had nothing to decide.
LEMMA BackDecided ==
  ASSUME Shapes, Numbers, Place, Decided, BacksOff
  PROVE  Decided'
<1>1. /\ s.round >= 1 /\ s'.round = s.round - 1 /\ saved'.round \in {saved.round, s'.round}
      /\ UNCHANGED <<ledger, hist>>
  <2>1. RoundBack
    BY GivesBack
  <2> QED
    BY <2>1 DEF RoundBack
<1>2. PICK n \in Nat : n = s.round - 1
  BY <1>1 DEF Numbers
<1>3. /\ Undecided(ledger, n - 1) <= Undecided(ledger, n)
      /\ Undecided(ledger, n - 1) \in Nat /\ Undecided(ledger, n) \in Nat
  BY UndecidedGrows
<1>4. Excused' = Excused /\ Excused \in Nat
  BY <1>1 DEF Excused, Numbers
<1>5. Undecided(ledger, n) <= Excused
  BY <1>2 DEF Decided
<1>6. Undecided(ledger, saved'.round) <= Excused + 1
  BY <1>1, <1>2, <1>3, <1>4, <1>5 DEF Decided
<1> QED
  BY <1>1, <1>2, <1>3, <1>4, <1>5, <1>6 DEF Decided

\* A record decides the round it is for.
LEMMA RecordDecides ==
  ASSUME Numbers, Ordered, Decided, NEW a, a.round = s.round, ledger' = AppendAttempt(ledger, a),
         s'.round = s.round, saved'.round = saved.round,
         hist'.crashes = hist.crashes, hist'.resets = hist.resets
  PROVE  Decided'
<1>1. \A r : Recorded(ledger', r) <=> Recorded(ledger, r) \/ r = s.round
  BY RecordAdds DEF Numbers
<1>2. /\ Undecided(ledger', s.round) = Undecided(ledger', s.round - 1)
      /\ Undecided(ledger', s.round) \in Nat
  BY <1>1, UndecidedGrows DEF Numbers
<1>3. Undecided(ledger', s.round - 1) <= Undecided(ledger, s.round - 1)
  <2>1. CASE s.round = 0
    <3>1. \A l : {r \in 1 .. s.round - 1 : ~Recorded(l, r)} = {}
      BY <2>1
    <3> QED
      BY <3>1, FS_EmptySet DEF Undecided
  <2>2. CASE s.round # 0
    <3>1. s.round - 1 \in Nat
      BY <2>2 DEF Numbers
    <3> QED
      BY <1>1, <3>1, UndecidedShrinks
  <2> QED
    BY <2>1, <2>2
<1>4. Undecided(ledger', saved.round) <= Undecided(ledger, saved.round)
  BY <1>1, UndecidedShrinks DEF Numbers
<1>5. Excused' = Excused /\ Excused \in Nat
  BY DEF Excused, Numbers
<1>6. /\ Undecided(ledger, s.round - 1) \in Nat /\ Undecided(ledger, saved.round) \in Nat
      /\ Undecided(ledger', saved.round) \in Nat
  BY UndecidedGrows DEF Numbers
<1>7. Undecided(ledger', s.round - 1) <= Excused /\ Undecided(ledger', saved.round) <= Excused + 1
  BY <1>2, <1>3, <1>4, <1>5, <1>6 DEF Decided
<1> QED
  BY <1>2, <1>5, <1>7 DEF Decided

\* A step that grades nothing and counts nothing.
LEMMA QuietEarned ==
  ASSUME Earned, seen' = seen, s'.round = s.round, s'.streak = s.streak, s'.pivots = s.pivots,
         pc' = "failing" => pc = "failing" /\ v'.found = v.found, pc' = "pivot" => pc = "pivot",
         hist'.human = hist.human,
         \/ saved'.round = saved.round /\ saved'.streak = saved.streak /\ saved'.pivots = saved.pivots
         \/ saved'.round = s.round /\ saved'.streak = s.streak /\ saved'.pivots = s.pivots
  PROVE  Earned'
<1>1. Claimed(s)' = Claimed(s)
  BY DEF Claimed
<1>2. \/ saved'.round = saved.round /\ Claimed(saved)' = Claimed(saved)
      \/ saved'.round = s.round /\ Claimed(saved)' = Claimed(s)
  BY DEF Claimed
<1> QED
  BY <1>1, <1>2 DEF Earned

\* The same for the failed rounds.
LEMMA QuietCounted ==
  ASSUME Counted, seen' = seen, s'.round = s.round, s'.failed = s.failed,
         pc' \in Open => pc \in Open,
         \/ saved'.round = saved.round /\ saved'.failed = saved.failed
         \/ saved'.round = s.round /\ saved'.failed = s.failed
  PROVE  Counted'
  BY DEF Counted

-----------------------------------------------------------------------------
(* One lemma for each part of the invariant.                                 *)

\* The records keep their fields.
LEMMA ShapesKept ==
  ASSUME Shapes, Numbers, Place, [Next]_vars
  PROVE  Shapes'
<1> USE BoundsAssumption
<1>1. ASSUME NEW step \in BOOLEAN, NEW open \in SUBSET limited, Start(step, open) PROVE Shapes'
  BY <1>1 DEF Shapes, IsState, Start
<1>2. CASE SkipTerminal \/ NegotiateContract \/ PauseContract
  BY <1>2
  DEF Shapes, IsState, IsProcess, Down, NewProcess, SkipTerminal, NegotiateContract,
      PauseContract
<1>3. CASE EnterRounds
  <2>1. RoundsEntered
    BY <1>3, EntersRounds
  <2> QED
    BY <2>1 DEF Shapes, RoundsEntered
<1>4. CASE RefuseAccept \/ HumanAbandon \/ HumanContinue
  BY <1>4 DEF Shapes, IsState, RefuseAccept, HumanAbandon, Unpaused, HumanContinue
<1>5. ASSUME NEW reasoned \in BOOLEAN, HumanAccept(reasoned) PROVE Shapes'
  BY <1>5 DEF Shapes, IsState, IsHistory, HumanAccept, Unpaused
<1>6. CASE HumanPivot
  BY <1>6 DEF Shapes, IsState, IsHistory, IsProcess, HumanPivot, Unpaused
<1>7. CASE NextRound
  <2>1. RoundBegun
    BY <1>7, BeginsRound
  <2> QED
    BY <2>1 DEF Shapes, RoundBegun
<1>8. CASE ResetWorkspace \/ ResetFails \/ SaveGeneration
  BY <1>8
  DEF Shapes, IsState, IsHistory, IsProcess, Down, NewProcess, ResetWorkspace, ResetFails,
      SaveGeneration
<1>9. ASSUME NEW end \in {"ok", "limit", "budget"}, NEW c \in 0 .. 1, Generate(end, c)
      PROVE  Shapes'
  BY <1>9 DEF Shapes, IsState, IsHistory, Generate, Bill
<1>10. CASE BacksOff
  <2>1. RoundBack
    BY <1>10, GivesBack
  <2> QED
    BY <2>1 DEF Shapes, RoundBack
<1>11. CASE PreflightBounce
  BY <1>11 DEF Shapes, IsState, PreflightBounce, NoteFailed
<1>12. CASE RecordBounce \/ PreflightClean \/ PauseRound
  BY <1>12
  DEF Shapes, IsState, IsProcess, Down, NewProcess, RecordBounce, PreflightClean, PauseRound
<1>13. ASSUME NEW c \in 0 .. 1, EvaluatorLimited(c) PROVE Shapes'
  BY <1>13 DEF Shapes, IsState, IsHistory, EvaluatorLimited, Bill
<1>14. ASSUME NEW found \in Findings, NEW high \in BOOLEAN, Evaluate(found, high) PROVE Shapes'
  BY <1>14 DEF Shapes, IsState, IsHistory, IsProcess, Evaluate
<1>15. CASE PassGate
  <2>1. GatePassed
    BY <1>15, PassesGate
  <2> QED
    BY <2>1 DEF Shapes, GatePassed, GateAfter
<1>16. CASE Demote
  <2>1. Demoted
    BY <1>16, Demotes
  <2> QED
    BY <2>1 DEF Shapes, Demoted
<1>17. CASE Inconclusive
  BY <1>17 DEF Shapes, IsProcess, Inconclusive
<1>18. CASE Fail
  BY <1>18 DEF Shapes, IsState, Fail, NoteFailed
<1>19. CASE Patch \/ RecordPivot \/ RecordAccept \/ RecordHalt
  BY <1>19 DEF Shapes, IsProcess, Patch, RecordPivot, RecordAccept, RecordHalt
<1>20. CASE Pivot
  BY <1>20 DEF Shapes, IsState, Pivot
<1>21. CASE Accept \/ HaltOnBudget
  BY <1>21 DEF Shapes, IsState, Accept, HaltOnBudget
<1>22. CASE RunOut
  BY <1>22 DEF Shapes, IsState, RunOut
<1>23. CASE Stop \/ Crash
  BY <1>23 DEF Shapes, IsHistory, IsProcess, Down, NewProcess, Stop, Crash
<1>24. CASE UNCHANGED vars
  BY <1>24 DEF Shapes, vars
<1> QED
  BY <1>1, <1>2, <1>3, <1>4, <1>5, <1>6, <1>7, <1>8, <1>9, <1>10, <1>11, <1>12, <1>13, <1>14,
     <1>15, <1>16, <1>17, <1>18, <1>19, <1>20, <1>21, <1>22, <1>23, <1>24
  DEF Next, Run, Enter, Human, Generation, Grading, Ending, BacksOff

\* The counts are natural numbers, the rounds bounded.
LEMMA NumbersKept ==
  ASSUME Shapes, Numbers, Place, [Next]_vars
  PROVE  Numbers'
<1> USE BoundsAssumption
<1>1. ASSUME NEW step \in BOOLEAN, NEW open \in SUBSET limited, Start(step, open) PROVE Numbers'
  BY <1>1 DEF Numbers, Start
<1>2. CASE SkipTerminal \/ NegotiateContract \/ PauseContract
  BY <1>2 DEF Shapes, IsState, Numbers, SkipTerminal, NegotiateContract, PauseContract
<1>3. CASE EnterRounds
  <2>1. RoundsEntered
    BY <1>3, EntersRounds
  <2> QED
    BY <2>1 DEF Numbers, RoundsEntered, SameNumbers
<1>4. CASE RefuseAccept \/ HumanAbandon \/ HumanContinue
  BY <1>4 DEF Shapes, IsState, Numbers, RefuseAccept, HumanAbandon, Unpaused, HumanContinue
<1>5. ASSUME NEW reasoned \in BOOLEAN, HumanAccept(reasoned) PROVE Numbers'
  BY <1>5 DEF Numbers, HumanAccept, Unpaused
<1>6. CASE HumanPivot
  BY <1>6 DEF Numbers, HumanPivot, Unpaused
<1>7. CASE NextRound
  <2>1. RoundBegun
    BY <1>7, BeginsRound
  <2> QED
    BY <2>1 DEF Numbers, RoundBegun
<1>8. CASE ResetWorkspace \/ ResetFails \/ SaveGeneration
  BY <1>8 DEF Shapes, IsState, IsHistory, Numbers, ResetWorkspace, ResetFails, SaveGeneration
<1>9. ASSUME NEW end \in {"ok", "limit", "budget"}, NEW c \in 0 .. 1, Generate(end, c)
      PROVE  Numbers'
  BY <1>9 DEF Numbers, Generate, Bill
<1>10. CASE BacksOff
  <2>1. RoundBack
    BY <1>10, GivesBack
  <2> QED
    BY <2>1 DEF Numbers, RoundBack
<1>11. CASE PreflightBounce
  BY <1>11 DEF Numbers, PreflightBounce, NoteFailed
<1>12. CASE RecordBounce \/ PreflightClean \/ PauseRound
  BY <1>12 DEF Shapes, IsState, Numbers, RecordBounce, PreflightClean, PauseRound
<1>13. ASSUME NEW c \in 0 .. 1, EvaluatorLimited(c) PROVE Numbers'
  BY <1>13 DEF Numbers, EvaluatorLimited, Bill
<1>14. ASSUME NEW found \in Findings, NEW high \in BOOLEAN, Evaluate(found, high) PROVE Numbers'
  BY <1>14 DEF Numbers, Evaluate
<1>15. CASE PassGate
  <2>1. GatePassed
    BY <1>15, PassesGate
  <2> QED
    BY <2>1 DEF Numbers, GatePassed, SameRecord, GateAfter
<1>16. CASE Demote
  <2>1. Demoted
    BY <1>16, Demotes
  <2> QED
    BY <2>1 DEF Numbers, Demoted, SameRecord
<1>17. CASE Inconclusive
  BY <1>17 DEF Numbers, Inconclusive
<1>18. CASE Fail
  <2>1. s' = [NoteFailed(s) EXCEPT !.streak = StreakAfter(v.found)] /\ saved' = s' /\ hist' = hist
    BY <1>18 DEF Fail
  <2>2. StreakAfter(v.found) \in Nat
    BY <1>18 DEF Fail, StreakAfter, Place, Numbers
  <2>3. s'.round = s.round /\ s'.spent = s.spent /\ s'.pivots = s.pivots
    BY <2>1 DEF NoteFailed
  <2>4. s'.failed \in {s.failed, s.failed + 1} /\ s'.streak = StreakAfter(v.found)
    BY <2>1 DEF NoteFailed
  <2> QED
    BY <2>1, <2>2, <2>3, <2>4 DEF Numbers
<1>19. CASE Patch \/ RecordPivot \/ RecordAccept \/ RecordHalt
  BY <1>19 DEF Numbers, Patch, RecordPivot, RecordAccept, RecordHalt
<1>20. CASE Pivot
  BY <1>20 DEF Numbers, Pivot
<1>21. CASE Accept \/ HaltOnBudget
  BY <1>21 DEF Shapes, IsState, Numbers, Accept, HaltOnBudget
<1>22. CASE RunOut
  BY <1>22 DEF Numbers, RunOut
<1>23. CASE Stop \/ Crash
  BY <1>23 DEF Shapes, IsHistory, Numbers, Stop, Crash
<1>24. CASE UNCHANGED vars
  BY <1>24 DEF Numbers, vars
<1> QED
  BY <1>1, <1>2, <1>3, <1>4, <1>5, <1>6, <1>7, <1>8, <1>9, <1>10, <1>11, <1>12, <1>13, <1>14,
     <1>15, <1>16, <1>17, <1>18, <1>19, <1>20, <1>21, <1>22, <1>23, <1>24
  DEF Next, Run, Enter, Human, Generation, Grading, Ending, BacksOff

\* What the evaluator found stays in its set.
LEMMA SightKept ==
  ASSUME Shapes, Numbers, Sight, Place, [Next]_vars
  PROVE  Sight'
<1> USE BoundsAssumption
<1>1. ASSUME NEW step \in BOOLEAN, NEW open \in SUBSET limited, Start(step, open) PROVE Sight'
  BY <1>1 DEF Sight, Start
<1>2. CASE SkipTerminal
  BY <1>2 DEF Sight, SkipTerminal
<1>3. CASE NegotiateContract
  BY <1>3 DEF Sight, NegotiateContract
<1>4. CASE PauseContract
  BY <1>4 DEF Sight, PauseContract
<1>5. CASE EnterRounds
  <2>1. RoundsEntered
    BY <1>5, EntersRounds
  <2> QED
    BY <2>1 DEF Sight, RoundsEntered
<1>6. CASE RefuseAccept
  BY <1>6 DEF Sight, RefuseAccept
<1>7. ASSUME NEW reasoned \in BOOLEAN, HumanAccept(reasoned) PROVE Sight'
  BY <1>7 DEF Sight, HumanAccept
<1>8. CASE HumanAbandon
  BY <1>8 DEF Sight, HumanAbandon
<1>9. CASE HumanPivot
  BY <1>9 DEF Sight, HumanPivot
<1>10. CASE HumanContinue
  BY <1>10 DEF Sight, HumanContinue
<1>11. CASE NextRound
  <2>1. RoundBegun
    BY <1>11, BeginsRound
  <2> QED
    BY <2>1 DEF Sight, RoundBegun
<1>12. CASE ResetWorkspace
  BY <1>12 DEF Sight, ResetWorkspace
<1>13. CASE ResetFails
  BY <1>13 DEF Sight, ResetFails
<1>14. ASSUME NEW end \in {"ok", "limit", "budget"}, NEW c \in 0 .. 1, Generate(end, c)
      PROVE  Sight'
  BY <1>14 DEF Sight, Generate
<1>15. CASE SaveGeneration
  BY <1>15 DEF Sight, SaveGeneration
<1>16. CASE BacksOff
  <2>1. RoundBack
    BY <1>16, GivesBack
  <2> QED
    BY <2>1 DEF Sight, RoundBack
<1>17. CASE PreflightBounce
  BY <1>17 DEF Sight, PreflightBounce
<1>18. CASE RecordBounce
  BY <1>18 DEF Sight, RecordBounce
<1>19. CASE PreflightClean
  BY <1>19 DEF Sight, PreflightClean
<1>20. ASSUME NEW c \in 0 .. 1, EvaluatorLimited(c) PROVE Sight'
  BY <1>20 DEF Sight, EvaluatorLimited
<1>21. ASSUME NEW found \in Findings, NEW high \in BOOLEAN, Evaluate(found, high) PROVE Sight'
  BY <1>21 DEF Sight, Evaluate
<1>22. CASE PauseRound
  BY <1>22 DEF Sight, PauseRound
<1>23. CASE PassGate
  <2>1. GatePassed
    BY <1>23, PassesGate
  <2> QED
    BY <2>1 DEF Sight, GatePassed, GateAfter
<1>24. CASE Demote
  <2>1. Demoted
    BY <1>24, Demotes
  <2> QED
    BY <2>1 DEF Sight, Demoted
<1>25. CASE Inconclusive
  BY <1>25 DEF Sight, Inconclusive
<1>26. CASE Fail
  BY <1>26 DEF Sight, Fail
<1>27. CASE Patch
  BY <1>27 DEF Sight, Patch
<1>28. CASE Pivot
  BY <1>28 DEF Sight, Pivot
<1>29. CASE RecordPivot
  BY <1>29 DEF Sight, RecordPivot
<1>30. CASE Accept
  BY <1>30 DEF Sight, Accept
<1>31. CASE RecordAccept
  BY <1>31 DEF Sight, RecordAccept
<1>32. CASE HaltOnBudget
  BY <1>32 DEF Sight, HaltOnBudget
<1>33. CASE RecordHalt
  BY <1>33 DEF Sight, RecordHalt
<1>34. CASE RunOut
  BY <1>34 DEF Sight, RunOut
<1>35. CASE Stop
  BY <1>35 DEF Sight, Stop
<1>36. CASE Crash
  BY <1>36 DEF Sight, Crash
<1>37. CASE UNCHANGED vars
  BY <1>37 DEF Sight, vars
<1> QED
  BY <1>1, <1>2, <1>3, <1>4, <1>5, <1>6, <1>7, <1>8, <1>9, <1>10, <1>11, <1>12, <1>13, <1>14,
     <1>15, <1>16, <1>17, <1>18, <1>19, <1>20, <1>21, <1>22, <1>23, <1>24, <1>25, <1>26, <1>27,
     <1>28, <1>29, <1>30, <1>31, <1>32, <1>33, <1>34, <1>35, <1>36, <1>37
  DEF Next, Run, Enter, Human, Generation, Grading, Ending, BacksOff

\* Where the process is tells how far memory and disk are apart.
LEMMA PlaceKept ==
  ASSUME Shapes, Numbers, Sight, Place, [Next]_vars
  PROVE  Place'
<1> USE BoundsAssumption
<1>1. ASSUME NEW step \in BOOLEAN, NEW open \in SUBSET limited, Start(step, open) PROVE Place'
  BY <1>1 DEF Place, Going, Ungraded, Start
<1>2. CASE SkipTerminal
  BY <1>2 DEF Down, NewProcess, Place, Going, Ungraded, Synced, SkipTerminal
<1>3. CASE NegotiateContract
  BY <1>3 DEF Place, Going, Ungraded, NegotiateContract
<1>4. CASE PauseContract
  BY <1>4 DEF Down, NewProcess, Place, Going, Ungraded, PauseContract
<1>5. CASE EnterRounds
  <2>1. RoundsEntered
    BY <1>5, EntersRounds
  <2> QED
    BY <2>1 DEF Place, Going, Ungraded, Synced, RoundsEntered, SameNumbers
<1>6. CASE RefuseAccept
  BY <1>6 DEF Shapes, IsState, Numbers, Place, Going, Ungraded, Synced, RefuseAccept
<1>7. ASSUME NEW reasoned \in BOOLEAN, HumanAccept(reasoned) PROVE Place'
  BY <1>7 DEF Place, Going, Ungraded, Synced, HumanAccept, Unpaused
<1>8. CASE HumanAbandon
  BY <1>8 DEF Shapes, IsState, Numbers, Place, Going, Ungraded, Synced, HumanAbandon, Unpaused
<1>9. CASE HumanPivot
  BY <1>9 DEF Place, Going, Ungraded, Synced, HumanPivot, Unpaused
<1>10. CASE HumanContinue
  BY <1>10 DEF Place, Going, Ungraded, Synced, HumanContinue, Unpaused
<1>11. CASE NextRound
  <2>1. RoundBegun
    BY <1>11, BeginsRound
  <2>2. /\ s.round \in Nat /\ s'.round = s.round + 1 /\ saved.round = s.round
        /\ saved'.round \in {s.round, s.round + 1} /\ s'.round \in 0 .. MaxRounds
        /\ pc' \in {"reset", "generate"} /\ seen' = seen
    BY <2>1 DEF RoundBegun, Numbers
  <2>3. seen'[s'.round] = "none"
    BY <2>2 DEF Place
  <2>4. \A r \in 0 .. MaxRounds : r > s'.round \/ r > saved'.round => seen'[r] = "none"
    BY <2>2 DEF Place
  <2> QED
    BY <2>2, <2>3, <2>4 DEF Place, Going, Synced
<1>12. CASE ResetWorkspace
  BY <1>12 DEF Place, Going, Ungraded, Synced, ResetWorkspace
<1>13. CASE ResetFails
  BY <1>13 DEF Down, NewProcess, Place, Going, Ungraded, ResetFails
<1>14. ASSUME NEW end \in {"ok", "limit", "budget"}, NEW c \in 0 .. 1, Generate(end, c)
      PROVE  Place'
  BY <1>14 DEF Place, Going, Ungraded, Synced, Generate, Bill
<1>15. CASE SaveGeneration
  BY <1>15 DEF Place, Going, Ungraded, SaveGeneration, AfterGeneration
<1>16. CASE BacksOff
  <2>1. RoundBack
    BY <1>16, GivesBack
  <2>2. /\ s.round \in Nat /\ s.round >= 1 /\ s'.round = s.round - 1 /\ saved.round = s.round
        /\ seen[s.round] = "none" /\ seen' = seen
        /\ \/ pc' = "loop" /\ saved' = s'
           \/ pc' = "stopping" /\ saved' = saved
    BY <2>1 DEF RoundBack, Numbers, Place, Going, Ungraded
  <2>3. \A r \in 0 .. MaxRounds : r > s'.round \/ r > saved'.round => seen'[r] = "none"
    BY <2>2 DEF Place
  <2> QED
    BY <2>2, <2>3 DEF Place, Going, Ungraded, Synced
<1>17. CASE PreflightBounce
  BY <1>17 DEF Place, Going, Ungraded, PreflightBounce, NoteFailed
<1>18. CASE RecordBounce
  BY <1>18 DEF Place, Going, Ungraded, Synced, RecordBounce
<1>19. CASE PreflightClean
  BY <1>19 DEF Numbers, Place, Ungraded, Synced, PreflightClean
<1>20. ASSUME NEW c \in 0 .. 1, EvaluatorLimited(c) PROVE Place'
  BY <1>20 DEF Numbers, Place, Ungraded, Synced, EvaluatorLimited, Bill
<1>21. ASSUME NEW found \in Findings, NEW high \in BOOLEAN, Evaluate(found, high) PROVE Place'
  BY <1>21 DEF Place, Going, Ungraded, Synced, Evaluate, Findings, AfterGrade
<1>22. CASE PauseRound
  BY <1>22 DEF Down, NewProcess, Place, Going, Ungraded, PauseRound
<1>23. CASE PassGate
  <2>1. GatePassed
    BY <1>23, PassesGate
  <2> QED
    BY <2>1 DEF Place, Going, Ungraded, Synced, GatePassed, GateAfter
<1>24. CASE Demote
  <2>1. Demoted
    BY <1>24, Demotes
  <2> QED
    BY <2>1 DEF Place, Going, Ungraded, Synced, Demoted
<1>25. CASE Inconclusive
  BY <1>25 DEF Place, Going, Ungraded, Inconclusive
<1>26. CASE Fail
  BY <1>26 DEF Place, Going, Ungraded, Fail, NoteFailed
<1>27. CASE Patch
  BY <1>27 DEF Place, Going, Ungraded, Synced, Patch
<1>28. CASE Pivot
  BY <1>28 DEF Place, Going, Ungraded, Pivot
<1>29. CASE RecordPivot
  BY <1>29 DEF Place, Going, Ungraded, Synced, RecordPivot
<1>30. CASE Accept
  <2>1. s'.round = s.round /\ saved' = s' /\ pc' \in {"accepted", "stopping"} /\ seen' = seen
    BY <1>30 DEF Accept
  <2> QED
    BY <1>30, <2>1 DEF Accept, Numbers, Place, Going, Ungraded
<1>31. CASE RecordAccept
  BY <1>31 DEF Numbers, Place, Going, Ungraded, Synced, RecordAccept
<1>32. CASE HaltOnBudget
  BY <1>32 DEF Place, Going, Ungraded, HaltOnBudget
<1>33. CASE RecordHalt
  BY <1>33 DEF Numbers, Place, Going, Ungraded, Synced, RecordHalt
<1>34. CASE RunOut
  <2>1. /\ s'.round = s.round /\ saved' = saved /\ pc' = "stopping" /\ seen' = seen
        /\ pc \in {"loop", "patch", "pivot"}
    BY <1>34 DEF RunOut
  <2> QED
    BY <2>1 DEF Numbers, Place, Going, Ungraded, Synced
<1>35. CASE Stop
  BY <1>35 DEF Down, NewProcess, Place, Going, Ungraded, Stop
<1>36. CASE Crash
  BY <1>36 DEF Down, NewProcess, Place, Going, Ungraded, Crash
<1>37. CASE UNCHANGED vars
  BY <1>37 DEF Place, vars
<1> QED
  BY <1>1, <1>2, <1>3, <1>4, <1>5, <1>6, <1>7, <1>8, <1>9, <1>10, <1>11, <1>12, <1>13, <1>14,
     <1>15, <1>16, <1>17, <1>18, <1>19, <1>20, <1>21, <1>22, <1>23, <1>24, <1>25, <1>26, <1>27,
     <1>28, <1>29, <1>30, <1>31, <1>32, <1>33, <1>34, <1>35, <1>36, <1>37
  DEF Next, Run, Enter, Human, Generation, Grading, Ending, BacksOff

\* Sessions are saved, and the budget looked at, before too many go by.
LEMMA MoneyKept ==
  ASSUME Shapes, Numbers, Place, Money, [Next]_vars
  PROVE  Money'
<1> USE BoundsAssumption
<1>1. ASSUME NEW step \in BOOLEAN, NEW open \in SUBSET limited, Start(step, open) PROVE Money'
  BY <1>1 DEF Numbers, Money, Start
<1>2. CASE SkipTerminal \/ NegotiateContract \/ PauseContract
  BY <1>2
  DEF Shapes, IsState, Down, NewProcess, Numbers, Money, SkipTerminal, NegotiateContract,
      PauseContract
<1>3. CASE EnterRounds
  <2>1. RoundsEntered
    BY <1>3, EntersRounds
  <2> QED
    BY <2>1 DEF Money, RoundsEntered, SameNumbers
<1>4. CASE RefuseAccept \/ HumanAbandon \/ HumanContinue
  BY <1>4 DEF Shapes, IsState, Money, RefuseAccept, HumanAbandon, Unpaused, HumanContinue
<1>5. ASSUME NEW reasoned \in BOOLEAN, HumanAccept(reasoned) PROVE Money'
  BY <1>5 DEF Money, HumanAccept, Unpaused
<1>6. CASE HumanPivot
  BY <1>6 DEF Money, HumanPivot, Unpaused
<1>7. CASE NextRound
  <2>1. RoundBegun
    BY <1>7, BeginsRound
  <2> QED
    BY <2>1 DEF Numbers, Money, RoundBegun
<1>8. CASE ResetWorkspace \/ ResetFails \/ SaveGeneration
  BY <1>8
  DEF Shapes, IsState, IsHistory, Numbers, Money, ResetWorkspace, ResetFails, SaveGeneration,
      AfterGeneration
<1>9. ASSUME NEW end \in {"ok", "limit", "budget"}, NEW c \in 0 .. 1, Generate(end, c)
      PROVE  Money'
  BY <1>9 DEF Numbers, Money, Generate, Bill
<1>10. CASE BacksOff
  <2>1. RoundBack
    BY <1>10, GivesBack
  <2> QED
    BY <2>1 DEF Numbers, Money, RoundBack
<1>11. CASE PreflightBounce
  BY <1>11 DEF Numbers, Money, PreflightBounce, NoteFailed
<1>12. CASE RecordBounce \/ PreflightClean \/ PauseRound
  BY <1>12
  DEF Shapes, IsState, Down, NewProcess, Numbers, Money, RecordBounce, PreflightClean,
      OverBudget, PauseRound
<1>13. ASSUME NEW c \in 0 .. 1, EvaluatorLimited(c) PROVE Money'
  BY <1>13 DEF Numbers, Place, Synced, Money, EvaluatorLimited, Bill
<1>14. ASSUME NEW found \in Findings, NEW high \in BOOLEAN, Evaluate(found, high) PROVE Money'
  BY <1>14 DEF Numbers, Place, Synced, Money, Evaluate, Findings, AfterGrade
<1>15. CASE PassGate
  <2>1. GatePassed
    BY <1>15, PassesGate
  <2> QED
    BY <2>1 DEF Numbers, Money, GatePassed, SameRecord, GateAfter
<1>16. CASE Demote
  <2>1. Demoted
    BY <1>16, Demotes
  <2> QED
    BY <2>1 DEF Numbers, Money, Demoted, SameRecord
<1>17. CASE Inconclusive
  BY <1>17 DEF Numbers, Money, Inconclusive
<1>18. CASE Fail
  BY <1>18 DEF Numbers, Money, Fail, NoteFailed
<1>19. CASE Patch \/ RecordPivot \/ RecordAccept \/ RecordHalt
  BY <1>19 DEF Money, Patch, RecordPivot, RecordAccept, RecordHalt
<1>20. CASE Pivot
  BY <1>20 DEF Numbers, Money, Pivot
<1>21. CASE Accept \/ HaltOnBudget
  BY <1>21 DEF Shapes, IsState, Numbers, Money, Accept, HaltOnBudget
<1>22. CASE RunOut
  BY <1>22 DEF Money, RunOut
<1>23. CASE Stop \/ Crash
  BY <1>23 DEF Shapes, IsHistory, Down, NewProcess, Numbers, Money, Stop, Crash
<1>24. CASE UNCHANGED vars
  BY <1>24 DEF Money, vars
<1> QED
  BY <1>1, <1>2, <1>3, <1>4, <1>5, <1>6, <1>7, <1>8, <1>9, <1>10, <1>11, <1>12, <1>13, <1>14,
     <1>15, <1>16, <1>17, <1>18, <1>19, <1>20, <1>21, <1>22, <1>23, <1>24
  DEF Next, Run, Enter, Human, Generation, Grading, Ending, BacksOff

\* Only a passed round, or a human, leads to an accepted item.
LEMMA PassingKept ==
  ASSUME Shapes, Numbers, Sight, Place, Passing, [Next]_vars
  PROVE  Passing'
<1> USE BoundsAssumption
<1>1. ASSUME NEW step \in BOOLEAN, NEW open \in SUBSET limited, Start(step, open) PROVE Passing'
  BY <1>1 DEF Passing, Start
<1>2. CASE SkipTerminal \/ NegotiateContract \/ PauseContract
  BY <1>2
  DEF Shapes, IsState, Down, NewProcess, Passing, SkipTerminal, NegotiateContract, PauseContract
<1>3. CASE EnterRounds
  <2>1. RoundsEntered
    BY <1>3, EntersRounds
  <2> QED
    BY <2>1 DEF Passing, RoundsEntered
<1>4. CASE RefuseAccept \/ HumanAbandon \/ HumanContinue
  BY <1>4 DEF Shapes, IsState, Passing, RefuseAccept, HumanAbandon, Unpaused, HumanContinue
<1>5. ASSUME NEW reasoned \in BOOLEAN, HumanAccept(reasoned) PROVE Passing'
  BY <1>5 DEF Passing, HumanAccept, Unpaused
<1>6. CASE HumanPivot
  BY <1>6 DEF Passing, HumanPivot, Unpaused
<1>7. CASE NextRound
  <2>1. RoundBegun
    BY <1>7, BeginsRound
  <2> QED
    BY <2>1 DEF Passing, RoundBegun, SameMarks
<1>8. CASE ResetWorkspace \/ ResetFails \/ SaveGeneration
  BY <1>8
  DEF Shapes, IsState, Down, NewProcess, Passing, ResetWorkspace, ResetFails, SaveGeneration,
      AfterGeneration
<1>9. ASSUME NEW end \in {"ok", "limit", "budget"}, NEW c \in 0 .. 1, Generate(end, c)
      PROVE  Passing'
  BY <1>9 DEF Passing, Generate, Bill
<1>10. CASE BacksOff
  <2>1. RoundBack
    BY <1>10, GivesBack
  <2> QED
    BY <2>1 DEF Passing, RoundBack, SameMarks
<1>11. CASE PreflightBounce
  BY <1>11 DEF Passing, PreflightBounce, NoteFailed
<1>12. CASE RecordBounce \/ PreflightClean \/ PauseRound
  BY <1>12
  DEF Shapes, IsState, Down, NewProcess, Passing, RecordBounce, PreflightClean, PauseRound
<1>13. ASSUME NEW c \in 0 .. 1, EvaluatorLimited(c) PROVE Passing'
  BY <1>13 DEF Passing, EvaluatorLimited, Bill
<1>14. ASSUME NEW found \in Findings, NEW high \in BOOLEAN, Evaluate(found, high) PROVE Passing'
  BY <1>14 DEF Numbers, Sight, Passing, Evaluate, Findings, AfterGrade
<1>15. CASE PassGate
  <2>1. GatePassed
    BY <1>15, PassesGate
  <2> QED
    BY <2>1 DEF Passing, GatePassed, SameMarks, GateAfter
<1>16. CASE Demote
  <2>1. Demoted
    BY <1>16, Demotes
  <2> QED
    BY <2>1 DEF Passing, Demoted, SameMarks
<1>17. CASE Inconclusive
  BY <1>17 DEF Passing, Inconclusive
<1>18. CASE Fail
  BY <1>18 DEF Passing, Fail, NoteFailed
<1>19. CASE Patch \/ RecordPivot \/ RecordAccept \/ RecordHalt
  BY <1>19 DEF Passing, Patch, RecordPivot, RecordAccept, RecordHalt
<1>20. CASE Pivot
  BY <1>20 DEF Passing, Pivot
<1>21. CASE Accept \/ HaltOnBudget
  BY <1>21 DEF Shapes, IsState, Passing, Accept, HaltOnBudget
<1>22. CASE RunOut
  BY <1>22 DEF Passing, RunOut
<1>23. CASE Stop \/ Crash
  BY <1>23 DEF Shapes, IsHistory, Down, NewProcess, Passing, Stop, Crash
<1>24. CASE UNCHANGED vars
  BY <1>24 DEF Passing, vars
<1> QED
  BY <1>1, <1>2, <1>3, <1>4, <1>5, <1>6, <1>7, <1>8, <1>9, <1>10, <1>11, <1>12, <1>13, <1>14,
     <1>15, <1>16, <1>17, <1>18, <1>19, <1>20, <1>21, <1>22, <1>23, <1>24
  DEF Next, Run, Enter, Human, Generation, Grading, Ending, BacksOff

\* A round pause stands on a contract that was acknowledged, and ends with the decision.
LEMMA StepsKept ==
  ASSUME Shapes, Numbers, Place, Steps, [Next]_vars
  PROVE  Steps'
<1> USE BoundsAssumption
<1>1. ASSUME NEW step \in BOOLEAN, NEW open \in SUBSET limited, Start(step, open) PROVE Steps'
  BY <1>1 DEF Steps, Start
<1>2. CASE SkipTerminal \/ NegotiateContract \/ PauseContract
  BY <1>2
  DEF Shapes, IsState, Down, NewProcess, Steps, SkipTerminal, NegotiateContract, PauseContract
<1>3. CASE EnterRounds
  <2>1. RoundsEntered
    BY <1>3, EntersRounds
  <2> QED
    BY <2>1 DEF Steps, RoundsEntered
<1>4. CASE RefuseAccept
  BY <1>4 DEF Steps, RefuseAccept
<1>5. ASSUME NEW reasoned \in BOOLEAN, HumanAccept(reasoned) PROVE Steps'
  BY <1>5 DEF Steps, HumanAccept, Unpaused
<1>6. CASE HumanAbandon
  BY <1>6 DEF Steps, HumanAbandon, Unpaused
<1>7. CASE HumanPivot
  BY <1>7 DEF Steps, HumanPivot, Unpaused
<1>8. CASE HumanContinue
  BY <1>8 DEF Steps, HumanContinue, Unpaused
<1>9. CASE NextRound
  <2>1. RoundBegun
    BY <1>9, BeginsRound
  <2> QED
    BY <2>1 DEF Steps, RoundBegun, SameMarks
<1>10. CASE ResetWorkspace \/ ResetFails \/ SaveGeneration
  BY <1>10
  DEF Shapes, IsState, Down, NewProcess, Steps, ResetWorkspace, ResetFails, SaveGeneration,
      AfterGeneration
<1>11. ASSUME NEW end \in {"ok", "limit", "budget"}, NEW c \in 0 .. 1, Generate(end, c)
      PROVE  Steps'
  BY <1>11 DEF Steps, Generate, Bill
<1>12. CASE BacksOff
  <2>1. RoundBack
    BY <1>12, GivesBack
  <2> QED
    BY <2>1 DEF Steps, RoundBack, SameMarks
<1>13. CASE PreflightBounce
  BY <1>13 DEF Steps, PreflightBounce, NoteFailed
<1>14. CASE RecordBounce
  BY <1>14 DEF Steps, RecordBounce
<1>15. CASE PreflightClean
  BY <1>15 DEF Steps, PreflightClean
<1>16. ASSUME NEW c \in 0 .. 1, EvaluatorLimited(c) PROVE Steps'
  BY <1>16 DEF Steps, EvaluatorLimited, Bill
<1>17. ASSUME NEW found \in Findings, NEW high \in BOOLEAN, Evaluate(found, high) PROVE Steps'
  BY <1>17 DEF Steps, Evaluate, Findings, AfterGrade
<1>18. CASE PauseRound
  BY <1>18 DEF Down, NewProcess, Steps, PauseRound
<1>19. CASE PassGate
  <2>1. GatePassed
    BY <1>19, PassesGate
  <2> QED
    BY <2>1 DEF Steps, GatePassed, SameMarks, GateAfter
<1>20. CASE Demote
  <2>1. Demoted
    BY <1>20, Demotes
  <2> QED
    BY <2>1 DEF Steps, Demoted, SameMarks
<1>21. CASE Inconclusive
  BY <1>21 DEF Steps, Inconclusive
<1>22. CASE Fail
  BY <1>22 DEF Steps, Fail, NoteFailed
<1>23. CASE Patch \/ RecordPivot \/ RecordAccept \/ RecordHalt
  BY <1>23 DEF Steps, Patch, RecordPivot, RecordAccept, RecordHalt
<1>24. CASE Pivot
  BY <1>24 DEF Steps, Pivot
<1>25. CASE Accept \/ HaltOnBudget
  BY <1>25 DEF Shapes, IsState, Steps, Accept, HaltOnBudget, BudgetChecks
<1>26. CASE RunOut
  BY <1>26 DEF Steps, RunOut
<1>27. CASE Stop \/ Crash
  BY <1>27 DEF Down, NewProcess, Steps, Stop, Crash
<1>28. CASE UNCHANGED vars
  BY <1>28 DEF Steps, vars
<1> QED
  BY <1>1, <1>2, <1>3, <1>4, <1>5, <1>6, <1>7, <1>8, <1>9, <1>10, <1>11, <1>12, <1>13, <1>14,
     <1>15, <1>16, <1>17, <1>18, <1>19, <1>20, <1>21, <1>22, <1>23, <1>24, <1>25, <1>26, <1>27,
     <1>28
  DEF Next, Run, Enter, Human, Generation, Grading, Ending, BacksOff

\* The records are of the item's rounds, in order.
LEMMA OrderedKept ==
  ASSUME Shapes, Numbers, Place, Ordered, [Next]_vars
  PROVE  Ordered'
<1> USE BoundsAssumption
<1>1. ASSUME NEW step \in BOOLEAN, NEW open \in SUBSET limited, Start(step, open) PROVE Ordered'
  BY <1>1 DEF Going, Ungraded, Synced, Ordered, Start
<1>2. CASE SkipTerminal
  BY <1>2 DEF Down, NewProcess, Going, Ungraded, Ordered, SkipTerminal
<1>3. CASE NegotiateContract
  BY <1>3 DEF Going, Ungraded, Synced, Ordered, NegotiateContract
<1>4. CASE PauseContract
  BY <1>4 DEF Down, NewProcess, Going, Ungraded, Synced, Ordered, PauseContract
<1>5. CASE EnterRounds
  <2>1. RoundsEntered
    BY <1>5, EntersRounds
  <2> QED
    BY <2>1 DEF Going, Ungraded, Ordered, RoundsEntered, SameNumbers
<1>6. CASE RefuseAccept
  BY <1>6 DEF Going, Ungraded, Ordered, RefuseAccept
<1>7. CASE Recording
  BY <1>7, RecordsRound, RecordOrders
<1>8. CASE NextRound
  <2>1. RoundBegun
    BY <1>8, BeginsRound
  <2>2. /\ s'.round = s.round + 1 /\ saved.round = s.round /\ saved' \in {s', saved}
        /\ s.round \in Nat /\ ledger' = ledger
    BY <2>1 DEF RoundBegun, Numbers
  <2>3. \A i \in DOMAIN ledger' :
          /\ ledger'[i].round \in Nat /\ ledger'[i].round <= saved'.round
          /\ ledger'[i].round < s'.round
    BY <2>2 DEF Ordered
  <2> QED
    BY <2>2, <2>3 DEF Ordered
<1>9. CASE ResetWorkspace
  BY <1>9 DEF Going, Ungraded, Ordered, ResetWorkspace
<1>10. CASE ResetFails
  BY <1>10 DEF Shapes, IsState, Going, Ungraded, Ordered, ResetFails
<1>11. ASSUME NEW end \in {"ok", "limit", "budget"}, NEW c \in 0 .. 1, Generate(end, c)
      PROVE  Ordered'
  BY <1>11 DEF Going, Ungraded, Ordered, Generate, Bill
<1>12. CASE SaveGeneration
  BY <1>12 DEF Going, Ungraded, Ordered, SaveGeneration
<1>13. CASE BacksOff
  <2>1. RoundBack
    BY <1>13, GivesBack
  <2>2. /\ s'.round = s.round - 1 /\ saved.round = s.round /\ saved' \in {s', saved}
        /\ s.round \in Nat /\ ledger' = ledger /\ pc \in Ungraded /\ pc' \notin Ungraded
    BY <2>1 DEF RoundBack, Numbers, Place, Going, Ungraded
  <2>3. \A i \in DOMAIN ledger' :
          /\ ledger'[i].round \in Nat /\ ledger'[i].round <= saved'.round
          /\ ledger'[i].round <= s'.round
    BY <2>2 DEF Ordered
  <2> QED
    BY <2>2, <2>3 DEF Ordered
<1>14. CASE PreflightBounce
  BY <1>14 DEF Ungraded, Synced, Ordered, PreflightBounce, NoteFailed
<1>15. CASE PreflightClean
  BY <1>15 DEF Ungraded, Ordered, PreflightClean
<1>16. ASSUME NEW c \in 0 .. 1, EvaluatorLimited(c) PROVE Ordered'
  BY <1>16 DEF Ungraded, Ordered, EvaluatorLimited, Bill
<1>17. ASSUME NEW found \in Findings, NEW high \in BOOLEAN, Evaluate(found, high) PROVE Ordered'
  BY <1>17 DEF Ungraded, Ordered, Evaluate
<1>18. CASE PauseRound
  BY <1>18 DEF Shapes, IsState, Down, NewProcess, Going, Ungraded, Ordered, PauseRound
<1>19. CASE PassGate
  <2>1. GatePassed
    BY <1>19, PassesGate
  <2> QED
    BY <2>1 DEF Going, Ungraded, Ordered, GatePassed, GateAfter
<1>20. CASE Demote
  <2>1. Demoted
    BY <1>20, Demotes
  <2> QED
    BY <2>1 DEF Going, Ungraded, Ordered, Demoted
<1>21. CASE Inconclusive
  BY <1>21 DEF Going, Ungraded, Ordered, Inconclusive
<1>22. CASE Fail
  BY <1>22 DEF Shapes, IsState, Going, Ungraded, Ordered, Fail, NoteFailed
<1>23. CASE Pivot
  BY <1>23 DEF Shapes, IsState, Going, Ungraded, Ordered, Pivot
<1>24. CASE Accept
  BY <1>24 DEF Shapes, IsState, Going, Ungraded, Ordered, Accept
<1>25. CASE HaltOnBudget
  BY <1>25 DEF Going, Ungraded, Synced, Ordered, HaltOnBudget
<1>26. CASE Stop
  BY <1>26 DEF Down, NewProcess, Going, Ungraded, Ordered, Stop
<1>27. CASE Crash
  BY <1>27 DEF Down, NewProcess, Going, Ungraded, Ordered, Crash
<1>28. CASE UNCHANGED vars
  BY <1>28 DEF Ordered, vars
<1> QED
  BY <1>1, <1>2, <1>3, <1>4, <1>5, <1>6, <1>7, <1>8, <1>9, <1>10, <1>11, <1>12, <1>13, <1>14,
     <1>15, <1>16, <1>17, <1>18, <1>19, <1>20, <1>21, <1>22, <1>23, <1>24, <1>25, <1>26, <1>27,
     <1>28
  DEF Next, Run, Enter, Human, Generation, Grading, Ending, BacksOff, Recording

\* What no record decides, a kill or a failed reset explains.
LEMMA DecidedKept ==
  ASSUME Shapes, Numbers, Place, Steps, Ordered, Decided, [Next]_vars
  PROVE  Decided'
<1>1. ASSUME NEW step \in BOOLEAN, NEW open \in SUBSET limited, Start(step, open) PROVE Decided'
  BY <1>1, QuietDecided DEF Rest, Start
<1>2. CASE SkipTerminal
  BY <1>2, QuietDecided DEF Down, NewProcess, Rest, SkipTerminal
<1>3. CASE NegotiateContract
  BY <1>3, QuietDecided DEF Rest, NegotiateContract
<1>4. CASE PauseContract
  <2>1. s.paused # "round"
    BY <1>4 DEF PauseContract, Steps
  <2> QED
    BY <1>4, <2>1, QuietDecided DEF PauseContract, Rest
<1>5. CASE EnterRounds
  <2>1. RoundsEntered
    BY <1>5, EntersRounds
  <2> QED
    BY <2>1, QuietDecided DEF RoundsEntered, SameNumbers, Rest
<1>6. CASE RefuseAccept
  BY <1>6, QuietDecided DEF RefuseAccept, Steps
<1>7. CASE Recording
  <2>1. RoundRecorded
    BY <1>7, RecordsRound
  <2>2. /\ s'.round = s.round /\ saved'.round = saved.round
        /\ hist'.crashes = hist.crashes /\ hist'.resets = hist.resets
    BY <2>1 DEF RoundRecorded
  <2>3. PICK a : a.round = s.round /\ ledger' = AppendAttempt(ledger, a)
    BY <2>1 DEF RoundRecorded
  <2> QED
    BY <2>2, <2>3, RecordDecides
<1>8. CASE NextRound
  <2>1. RoundBegun
    BY <1>8, BeginsRound
  <2>2. PICK n \in Nat : n = s.round + 1
    BY DEF Numbers
  <2>3. /\ s'.round = n /\ saved'.round \in {n, n - 1} /\ ledger' = ledger /\ Excused' = Excused
        /\ pc' \in {"reset", "generate"}
    BY <2>1, <2>2 DEF RoundBegun, Excused, Numbers
  <2>4. Undecided(ledger, n - 1) <= Excused /\ Excused \in Nat
    BY <2>1, <2>2 DEF RoundBegun, Decided, Excused, Numbers
  <2>5. /\ Undecided(ledger, n) <= Undecided(ledger, n - 1) + 1
        /\ Undecided(ledger, n) \in Nat /\ Undecided(ledger, n - 1) \in Nat
    BY UndecidedGrows
  <2>6. Undecided(ledger, saved'.round) <= Excused + 1
    BY <2>3, <2>4, <2>5
  <2> QED
    BY <2>3, <2>4, <2>6 DEF Decided, Rest
<1>9. CASE ResetWorkspace
  BY <1>9, QuietDecided DEF Rest, ResetWorkspace
<1>10. CASE ResetFails
  <2>1. /\ s'.round = s.round /\ saved' = s' /\ ledger' = ledger /\ pc' = "down"
        /\ hist'.crashes = hist.crashes /\ hist'.resets = hist.resets + 1
    BY <1>10 DEF ResetFails, Down
  <2>2. Excused' = Excused + 1 /\ Excused \in Nat
    BY <2>1 DEF Excused, Numbers
  <2>3. /\ Undecided(ledger, s.round) <= Undecided(ledger, s.round - 1) + 1
        /\ Undecided(ledger, s.round) \in Nat /\ Undecided(ledger, s.round - 1) \in Nat
    BY UndecidedGrows DEF Numbers
  <2>4. Undecided(ledger, s.round - 1) <= Excused /\ Undecided(ledger, s.round) <= Excused + 1
    BY <2>2, <2>3 DEF Decided
  <2> QED
    BY <2>1, <2>2, <2>3, <2>4 DEF Decided
<1>11. ASSUME NEW end \in {"ok", "limit", "budget"}, NEW c \in 0 .. 1, Generate(end, c)
      PROVE  Decided'
  BY <1>11, QuietDecided DEF Rest, Generate, Bill
<1>12. CASE SaveGeneration
  BY <1>12, QuietDecided DEF Rest, SaveGeneration, AfterGeneration
<1>13. CASE BacksOff
  BY <1>13, BackDecided
<1>14. CASE PreflightBounce
  BY <1>14, QuietDecided DEF Rest, PreflightBounce, NoteFailed
<1>15. CASE PreflightClean
  BY <1>15, QuietDecided DEF Rest, PreflightClean
<1>16. ASSUME NEW c \in 0 .. 1, EvaluatorLimited(c) PROVE Decided'
  BY <1>16, QuietDecided DEF Rest, EvaluatorLimited, Bill
<1>17. ASSUME NEW found \in Findings, NEW high \in BOOLEAN, Evaluate(found, high) PROVE Decided'
  BY <1>17, QuietDecided DEF Rest, Evaluate, Findings, AfterGrade
<1>18. CASE PauseRound
  BY <1>18, QuietDecided DEF Down, NewProcess, PauseRound
<1>19. CASE PassGate
  <2>1. GatePassed
    BY <1>19, PassesGate
  <2>2. pc \in {"rerun", "second", "review"} /\ pc' \in {"second", "review", "accepting"}
    BY <2>1 DEF GatePassed, GateAfter
  <2>3. /\ s'.round = s.round /\ saved'.round \in {s.round, saved.round} /\ ledger' = ledger
        /\ hist'.crashes = hist.crashes /\ hist'.resets = hist.resets
    BY <2>1 DEF GatePassed, SameRecord
  <2> QED
    BY <2>2, <2>3, QuietDecided DEF Rest
<1>20. CASE Demote
  <2>1. Demoted
    BY <1>20, Demotes
  <2>2. /\ s'.round = s.round /\ saved'.round \in {s.round, saved.round} /\ ledger' = ledger
        /\ hist'.crashes = hist.crashes /\ hist'.resets = hist.resets /\ pc' = "patch"
    BY <2>1 DEF Demoted, SameRecord
  <2> QED
    BY <2>2, QuietDecided DEF Rest
<1>21. CASE Inconclusive
  BY <1>21, QuietDecided DEF Rest, Inconclusive
<1>22. CASE Fail
  BY <1>22, QuietDecided DEF Rest, Fail, NoteFailed
<1>23. CASE Pivot
  BY <1>23, QuietDecided DEF Rest, Pivot
<1>24. CASE Accept
  BY <1>24, QuietDecided DEF Rest, Accept
<1>25. CASE HaltOnBudget
  BY <1>25, QuietDecided DEF Rest, HaltOnBudget
<1>26. CASE Stop
  BY <1>26, QuietDecided DEF Stop, Down, Rest
<1>27. CASE Crash
  <2>1. /\ s' = saved /\ saved' = saved /\ ledger' = ledger
        /\ hist'.crashes = hist.crashes + 1 /\ hist'.resets = hist.resets
    BY <1>27 DEF Crash
  <2>2. Excused' = Excused + 1 /\ Excused \in Nat
    BY <2>1 DEF Excused, Numbers
  <2>3. /\ Undecided(ledger, saved.round - 1) <= Undecided(ledger, saved.round)
        /\ Undecided(ledger, saved.round) \in Nat /\ Undecided(ledger, saved.round - 1) \in Nat
    BY UndecidedGrows DEF Numbers
  <2>4. Undecided(ledger, saved.round) <= Excused + 1
    BY DEF Decided
  <2> QED
    BY <2>1, <2>2, <2>3, <2>4 DEF Decided
<1>28. CASE UNCHANGED vars
  BY <1>28, QuietDecided DEF vars
<1> QED
  BY <1>1, <1>2, <1>3, <1>4, <1>5, <1>6, <1>7, <1>8, <1>9, <1>10, <1>11, <1>12, <1>13, <1>14,
     <1>15, <1>16, <1>17, <1>18, <1>19, <1>20, <1>21, <1>22, <1>23, <1>24, <1>25, <1>26, <1>27,
     <1>28
  DEF Next, Run, Enter, Human, Generation, Grading, Ending, BacksOff, Recording

\* A pivot takes PivotN weak grades, and each grade counts once.
LEMMA EarnedKept ==
  ASSUME Shapes, Numbers, Sight, Place, Earned, [Next]_vars
  PROVE  Earned'
<1> USE BoundsAssumption
<1>1. ASSUME NEW step \in BOOLEAN, NEW open \in SUBSET limited, Start(step, open) PROVE Earned'
  BY <1>1, QuietEarned DEF Start
<1>2. CASE SkipTerminal
  BY <1>2, QuietEarned DEF Down, NewProcess, SkipTerminal
<1>3. CASE NegotiateContract
  BY <1>3, QuietEarned DEF NegotiateContract
<1>4. CASE PauseContract
  BY <1>4, QuietEarned DEF Down, NewProcess, PauseContract
<1>5. CASE EnterRounds
  <2>1. RoundsEntered
    BY <1>5, EntersRounds
  <2> QED
    BY <2>1, QuietEarned DEF RoundsEntered, SameNumbers
<1>6. CASE RefuseAccept
  BY <1>6, QuietEarned DEF RefuseAccept
<1>7. ASSUME NEW reasoned \in BOOLEAN, HumanAccept(reasoned) PROVE Earned'
  BY <1>7, QuietEarned DEF HumanAccept, Unpaused
<1>8. CASE HumanAbandon
  BY <1>8, QuietEarned DEF HumanAbandon, Unpaused
<1>9. CASE HumanPivot
  <2>1. /\ s'.round = s.round /\ s'.pivots = s.pivots + 1 /\ s'.streak = 0 /\ saved' = saved
        /\ seen' = seen /\ hist'.human = hist.human + 1 /\ pc' = "loop"
    BY <1>9 DEF HumanPivot, Unpaused
  <2>2. Claimed(s)' <= Claimed(s) /\ Claimed(s)' \in Int /\ Claimed(s) \in Int
    BY <2>1 DEF Claimed, Numbers
  <2>3. Claimed(saved)' <= Claimed(saved) /\ Claimed(saved)' \in Int /\ Claimed(saved) \in Int
    BY <2>1 DEF Claimed, Numbers
  <2>4. Seen(seen, {"weak"}, s.round) \in Nat /\ Seen(seen, {"weak"}, saved.round) \in Nat
    BY SeenGrows DEF Numbers
  <2> QED
    BY <2>1, <2>2, <2>3, <2>4 DEF Earned
<1>10. CASE HumanContinue
  BY <1>10, QuietEarned DEF HumanContinue, Unpaused
<1>11. CASE NextRound
  <2>1. RoundBegun
    BY <1>11, BeginsRound
  <2>2. PICK n \in Nat : n = s.round + 1
    BY DEF Numbers
  <2>3. /\ s'.round = n /\ saved.round = n - 1 /\ saved' \in {s', saved} /\ seen' = seen
        /\ s'.streak = s.streak /\ s'.pivots = s.pivots /\ hist' = hist
        /\ pc' \in {"reset", "generate"}
    BY <2>1, <2>2 DEF RoundBegun, Numbers
  <2>4. /\ Seen(seen, {"weak"}, n - 1) <= Seen(seen, {"weak"}, n)
        /\ Seen(seen, {"weak"}, n) \in Nat /\ Seen(seen, {"weak"}, n - 1) \in Nat
    BY SeenGrows
  <2>5. Claimed(s)' = Claimed(s) /\ Claimed(s) \in Int
    BY <2>3 DEF Claimed, Numbers
  <2>6. Claimed(s) <= Seen(seen, {"weak"}, n - 1)
    BY <2>2, <2>3 DEF Earned, Numbers
  <2>7. Claimed(s)' <= Seen(seen, {"weak"}, n)
    BY <2>4, <2>5, <2>6
  <2>8. CASE saved' = s'
    <3>1. Claimed(saved)' = Claimed(s)'
      BY <2>8 DEF Claimed
    <3> QED
      BY <2>3, <2>7, <2>8, <3>1 DEF Earned
  <2>9. CASE saved' = saved
    <3>1. Claimed(saved)' = Claimed(saved)
      BY <2>3, <2>9 DEF Claimed
    <3> QED
      BY <2>3, <2>7, <2>9, <3>1 DEF Earned
  <2> QED
    BY <2>3, <2>8, <2>9
<1>12. CASE ResetWorkspace
  BY <1>12, QuietEarned DEF ResetWorkspace
<1>13. CASE ResetFails
  BY <1>13, QuietEarned DEF Down, NewProcess, ResetFails
<1>14. ASSUME NEW end \in {"ok", "limit", "budget"}, NEW c \in 0 .. 1, Generate(end, c)
      PROVE  Earned'
  BY <1>14, QuietEarned DEF Generate, Bill
<1>15. CASE SaveGeneration
  BY <1>15, QuietEarned DEF SaveGeneration, AfterGeneration
<1>16. CASE BacksOff
  <2>1. RoundBack
    BY <1>16, GivesBack
  <2>2. PICK n \in Nat : n = s.round
    BY DEF Numbers
  <2>3. /\ s'.round = n - 1 /\ saved' \in {s', saved} /\ seen' = seen
        /\ s'.streak = s.streak /\ s'.pivots = s.pivots /\ hist' = hist
        /\ pc' \in {"loop", "stopping"} /\ seen[n] = "none"
    BY <2>1, <2>2 DEF RoundBack, Place, Ungraded
  <2>4. Seen(seen, {"weak"}, n) = Seen(seen, {"weak"}, n - 1)
    BY <2>3, SeenGrows
  <2>5. Claimed(s)' = Claimed(s)
    BY <2>3 DEF Claimed
  <2>6. Claimed(s)' <= Seen(seen, {"weak"}, n - 1)
    BY <2>2, <2>4, <2>5 DEF Earned
  <2>7. CASE saved' = s'
    <3>1. Claimed(saved)' = Claimed(s)'
      BY <2>7 DEF Claimed
    <3> QED
      BY <2>3, <2>6, <2>7, <3>1 DEF Earned
  <2>8. CASE saved' = saved
    <3>1. Claimed(saved)' = Claimed(saved)
      BY <2>3, <2>8 DEF Claimed
    <3> QED
      BY <2>3, <2>6, <2>8, <3>1 DEF Earned
  <2> QED
    BY <2>3, <2>7, <2>8
<1>17. CASE PreflightBounce
  BY <1>17, QuietEarned DEF PreflightBounce, NoteFailed
<1>18. CASE RecordBounce
  BY <1>18, QuietEarned DEF RecordBounce
<1>19. CASE PreflightClean
  BY <1>19, QuietEarned DEF PreflightClean
<1>20. ASSUME NEW c \in 0 .. 1, EvaluatorLimited(c) PROVE Earned'
  BY <1>20, QuietEarned DEF EvaluatorLimited, Bill
<1>21. ASSUME NEW found \in Findings, NEW high \in BOOLEAN, Evaluate(found, high) PROVE Earned'
  <2>1. /\ s'.round = s.round /\ s'.streak = s.streak /\ s'.pivots = s.pivots /\ saved' = saved
        /\ v'.found = found /\ hist'.human = hist.human /\ pc = "evaluate"
        /\ pc' = "failing" => found # "blocked" /\ found # "pass"
        /\ pc' # "pivot"
    BY <1>21 DEF Evaluate, AfterGrade, Findings
  <2>2. PICK n \in 1 .. MaxRounds : n = s.round
    BY <2>1 DEF Numbers, Place, Ungraded
  <2>3. seen[n] = "none" /\ saved = s
    BY <2>1, <2>2 DEF Place, Ungraded, Synced
  <2>4. seen' = [seen EXCEPT ![n] = found]
    BY <1>21, <2>2 DEF Evaluate
  <2>5. Seen(seen', {"weak"}, n) =
          IF found \in {"weak"} THEN Seen(seen, {"weak"}, n) + 1 ELSE Seen(seen, {"weak"}, n)
    <3>1. PICK fs : fs = {"weak"}
      OBVIOUS
    <3>2. seen[n] \notin fs
      BY <2>3, <3>1
    <3>3. Seen(seen', fs, n) = IF found \in fs THEN Seen(seen, fs, n) + 1 ELSE Seen(seen, fs, n)
      BY <2>4, <3>2, SeenGraded
    <3> QED
      BY <3>1, <3>3
  <2>6. Seen(seen, {"weak"}, n) \in Nat
    BY SeenGrows
  <2>7. Claimed(s)' = Claimed(s) /\ Claimed(saved)' = Claimed(s) /\ Claimed(s) \in Int
    BY <2>1, <2>3 DEF Claimed, Numbers
  <2>8. Claimed(s) <= Seen(seen, {"weak"}, n)
    BY <2>2 DEF Earned
  <2>9. saved'.round = n /\ s'.round = n
    BY <2>1, <2>2, <2>3
  <2> QED
    BY <2>1, <2>5, <2>6, <2>7, <2>8, <2>9 DEF Earned
<1>22. CASE PauseRound
  BY <1>22, QuietEarned DEF Down, NewProcess, PauseRound
<1>23. CASE PassGate
  <2>1. GatePassed
    BY <1>23, PassesGate
  <2>2. pc' \in {"second", "review", "accepting"}
    BY <2>1 DEF GatePassed, GateAfter
  <2> QED
    BY <2>1, <2>2, QuietEarned DEF GatePassed, SameRecord
<1>24. CASE Demote
  <2>1. Demoted
    BY <1>24, Demotes
  <2> QED
    BY <2>1, QuietEarned DEF Demoted, SameRecord
<1>25. CASE Inconclusive
  BY <1>25, QuietEarned DEF Inconclusive
<1>26. CASE Fail
  <2>1. /\ s' = [NoteFailed(s) EXCEPT !.streak = StreakAfter(v.found)] /\ saved' = s'
        /\ v' = v /\ seen' = seen /\ hist' = hist /\ pc = "failing" /\ pc' \in {"pivot", "patch"}
        /\ pc' = "pivot" => s'.streak >= PivotN
    BY <1>26 DEF Fail
  <2>2. /\ s'.round = s.round /\ s'.pivots = s.pivots /\ s'.streak = StreakAfter(v.found)
    BY <2>1 DEF NoteFailed
  <2>3. \/ v.found = "weak" /\ s'.streak = s.streak + 1
        \/ s'.streak \in {s.streak, 0}
    BY <2>1, <2>2 DEF StreakAfter, Place
  <2>4. /\ Claimed(s)' <= IF v.found = "weak" THEN Claimed(s) + 1 ELSE Claimed(s)
        /\ Claimed(s) \in Int /\ Claimed(s)' \in Int
    BY <2>1, <2>2, <2>3 DEF Claimed, Numbers
  <2>5. Claimed(saved)' = Claimed(s)' /\ saved'.round = s.round
    BY <2>1, <2>2 DEF Claimed
  <2>6. Seen(seen, {"weak"}, s.round) \in Nat
    BY SeenGrows DEF Numbers
  <2>7. Claimed(s)' <= Seen(seen, {"weak"}, s.round)
    BY <2>1, <2>4, <2>6 DEF Earned
  <2> QED
    BY <2>1, <2>2, <2>5, <2>7 DEF Earned
<1>27. CASE Patch
  BY <1>27, QuietEarned DEF Patch
<1>28. CASE Pivot
  <2>1. /\ s'.round = s.round /\ s'.pivots = s.pivots + 1 /\ s'.streak = 0 /\ saved' = s'
        /\ seen' = seen /\ hist' = hist /\ pc = "pivot" /\ pc' = "pivoted"
    BY <1>28 DEF Pivot
  <2>2. s.streak >= PivotN
    BY <2>1 DEF Earned
  <2>3. Claimed(s)' <= Claimed(s) /\ Claimed(s)' \in Int /\ Claimed(s) \in Int
    BY <2>1, <2>2 DEF Claimed, Numbers
  <2>4. Claimed(saved)' = Claimed(s)'
    BY <2>1 DEF Claimed
  <2>5. Seen(seen, {"weak"}, s.round) \in Nat
    BY SeenGrows DEF Numbers
  <2>6. Claimed(s)' <= Seen(seen, {"weak"}, s.round)
    BY <2>3, <2>5 DEF Earned
  <2> QED
    BY <2>1, <2>4, <2>6 DEF Earned
<1>29. CASE RecordPivot
  BY <1>29, QuietEarned DEF RecordPivot
<1>30. CASE Accept
  BY <1>30, QuietEarned DEF Accept
<1>31. CASE RecordAccept
  BY <1>31, QuietEarned DEF RecordAccept
<1>32. CASE HaltOnBudget
  BY <1>32, QuietEarned DEF HaltOnBudget
<1>33. CASE RecordHalt
  BY <1>33, QuietEarned DEF RecordHalt
<1>34. CASE RunOut
  BY <1>34, QuietEarned DEF RunOut
<1>35. CASE Stop
  BY <1>35, QuietEarned DEF Down, NewProcess, Stop
<1>36. CASE Crash
  <2>1. s' = saved /\ saved' = saved /\ hist'.human = hist.human /\ seen' = seen /\ pc' = "down"
    BY <1>36 DEF Crash, Down
  <2>2. Claimed(s)' = Claimed(saved) /\ Claimed(saved)' = Claimed(saved)
    BY <2>1 DEF Claimed
  <2> QED
    BY <2>1, <2>2 DEF Earned
<1>37. CASE UNCHANGED vars
  BY <1>37, QuietEarned DEF vars
<1> QED
  BY <1>1, <1>2, <1>3, <1>4, <1>5, <1>6, <1>7, <1>8, <1>9, <1>10, <1>11, <1>12, <1>13, <1>14,
     <1>15, <1>16, <1>17, <1>18, <1>19, <1>20, <1>21, <1>22, <1>23, <1>24, <1>25, <1>26, <1>27,
     <1>28, <1>29, <1>30, <1>31, <1>32, <1>33, <1>34, <1>35, <1>36, <1>37
  DEF Next, Run, Enter, Human, Generation, Grading, Ending, BacksOff

\* A failed round is counted once, and never for a blocked exercise.
LEMMA CountedKept ==
  ASSUME Shapes, Numbers, Sight, Place, Counted, [Next]_vars
  PROVE  Counted'
<1> USE BoundsAssumption
<1>1. ASSUME NEW step \in BOOLEAN, NEW open \in SUBSET limited, Start(step, open) PROVE Counted'
  BY <1>1, QuietCounted DEF Open, Ungraded, Going, Start
<1>2. CASE SkipTerminal
  BY <1>2, QuietCounted DEF Down, NewProcess, Open, Ungraded, Going, SkipTerminal
<1>3. CASE NegotiateContract
  BY <1>3, QuietCounted DEF Open, Ungraded, Going, NegotiateContract
<1>4. CASE PauseContract
  BY <1>4, QuietCounted DEF Down, NewProcess, Open, Ungraded, Going, PauseContract
<1>5. CASE EnterRounds
  <2>1. RoundsEntered
    BY <1>5, EntersRounds
  <2>2. pc' \notin Open
    BY <2>1 DEF RoundsEntered, Open, Ungraded, Going
  <2> QED
    BY <2>1, <2>2, QuietCounted DEF RoundsEntered, SameNumbers
<1>6. CASE RefuseAccept
  BY <1>6, QuietCounted DEF Open, Ungraded, Going, RefuseAccept
<1>7. ASSUME NEW reasoned \in BOOLEAN, HumanAccept(reasoned) PROVE Counted'
  BY <1>7, QuietCounted DEF Open, Ungraded, Going, HumanAccept, Unpaused
<1>8. CASE HumanAbandon
  BY <1>8, QuietCounted DEF Open, Ungraded, Going, HumanAbandon, Unpaused
<1>9. CASE HumanPivot
  BY <1>9, QuietCounted DEF Open, Ungraded, Going, HumanPivot, Unpaused
<1>10. CASE HumanContinue
  BY <1>10, QuietCounted DEF Open, Ungraded, Going, HumanContinue, Unpaused
<1>11. CASE NextRound
  <2>1. RoundBegun
    BY <1>11, BeginsRound
  <2>2. PICK n \in Nat : n = s.round + 1
    BY DEF Numbers
  <2>3. /\ s'.round = n /\ saved.round = n - 1 /\ saved' \in {s', saved} /\ seen' = seen
        /\ s'.failed = s.failed /\ pc' \in {"reset", "generate"} /\ n <= MaxRounds
    BY <2>1, <2>2 DEF RoundBegun, Numbers
  <2>4. seen[n] = "none"
    BY <2>2, <2>3 DEF Place
  <2>5. Seen(seen, {"blocked"}, n) = Seen(seen, {"blocked"}, n - 1) /\ Seen(seen, {"blocked"}, n) \in Nat
    BY <2>4, SeenGrows
  <2>6. s.failed <= n - 1 - Seen(seen, {"blocked"}, n - 1) /\ s.failed \in Nat
    BY <2>2 DEF Counted, Numbers
  <2>7. s'.failed + 1 <= n - Seen(seen, {"blocked"}, n) /\ s'.failed <= n - Seen(seen, {"blocked"}, n)
    BY <2>3, <2>5, <2>6
  <2>8. saved'.failed <= saved'.round - Seen(seen, {"blocked"}, saved'.round)
    BY <2>3, <2>7 DEF Counted
  <2> QED
    BY <2>3, <2>7, <2>8 DEF Counted
<1>12. CASE ResetWorkspace
  BY <1>12, QuietCounted DEF Open, Ungraded, Going, ResetWorkspace
<1>13. CASE ResetFails
  BY <1>13, QuietCounted DEF Open, Ungraded, Going, ResetFails
<1>14. ASSUME NEW end \in {"ok", "limit", "budget"}, NEW c \in 0 .. 1, Generate(end, c)
      PROVE  Counted'
  BY <1>14, QuietCounted DEF Open, Ungraded, Going, Generate, Bill
<1>15. CASE SaveGeneration
  BY <1>15, QuietCounted DEF Open, Ungraded, Going, SaveGeneration
<1>16. CASE BacksOff
  <2>1. RoundBack
    BY <1>16, GivesBack
  <2>2. PICK n \in Nat : n = s.round
    BY DEF Numbers
  <2>3. /\ s'.round = n - 1 /\ saved' \in {s', saved} /\ seen' = seen /\ s'.failed = s.failed
        /\ pc \in Ungraded /\ pc' \in {"loop", "stopping"} /\ seen[n] = "none"
    BY <2>1, <2>2 DEF RoundBack, Place, Ungraded
  <2>4. Seen(seen, {"blocked"}, n) = Seen(seen, {"blocked"}, n - 1) /\ Seen(seen, {"blocked"}, n) \in Nat
    BY <2>3, SeenGrows
  <2>5. s.failed + 1 <= n - Seen(seen, {"blocked"}, n) /\ s.failed \in Nat
    BY <2>2, <2>3 DEF Counted, Numbers, Open
  <2>6. s'.failed <= n - 1 - Seen(seen, {"blocked"}, n - 1)
    BY <2>3, <2>4, <2>5
  <2>7. pc' \notin Open
    BY <2>3 DEF Open, Ungraded, Going
  <2>8. saved'.failed <= saved'.round - Seen(seen, {"blocked"}, saved'.round)
    BY <2>3, <2>6 DEF Counted
  <2> QED
    BY <2>3, <2>6, <2>7, <2>8 DEF Counted
<1>17. CASE PreflightBounce
  <2>1. /\ s' = [NoteFailed(s) EXCEPT !.bounced = TRUE] /\ saved' = s' /\ seen' = seen
        /\ pc = "check" /\ pc' = "bounced"
    BY <1>17 DEF PreflightBounce
  <2>2. s'.round = s.round /\ s'.failed \in {s.failed, s.failed + 1}
    BY <2>1 DEF NoteFailed
  <2>3. s.failed + 1 <= s.round - Seen(seen, {"blocked"}, s.round)
    BY <2>1 DEF Counted, Open, Ungraded
  <2>4. Seen(seen, {"blocked"}, s.round) \in Nat
    BY SeenGrows DEF Numbers
  <2>5. s'.failed <= s.round - Seen(seen, {"blocked"}, s.round)
    BY <2>2, <2>3, <2>4 DEF Numbers
  <2> QED
    BY <2>1, <2>2, <2>5 DEF Counted, Open, Ungraded, Going
<1>18. CASE RecordBounce
  BY <1>18, QuietCounted DEF Open, Ungraded, Going, RecordBounce
<1>19. CASE PreflightClean
  BY <1>19, QuietCounted DEF Open, Ungraded, PreflightClean
<1>20. ASSUME NEW c \in 0 .. 1, EvaluatorLimited(c) PROVE Counted'
  BY <1>20, QuietCounted DEF Open, Ungraded, EvaluatorLimited, Bill
<1>21. ASSUME NEW found \in Findings, NEW high \in BOOLEAN, Evaluate(found, high) PROVE Counted'
  <2>1. /\ s'.round = s.round /\ s'.failed = s.failed /\ saved' = saved /\ pc = "evaluate"
        /\ pc' \in Open => found # "blocked"
    BY <1>21 DEF Evaluate, AfterGrade, Open, Ungraded, Going
  <2>2. PICK n \in 1 .. MaxRounds : n = s.round
    BY <2>1 DEF Numbers, Place, Ungraded
  <2>3. seen[n] = "none" /\ saved = s
    BY <2>1, <2>2 DEF Place, Ungraded, Synced
  <2>4. seen' = [seen EXCEPT ![n] = found]
    BY <1>21, <2>2 DEF Evaluate
  <2>5. Seen(seen', {"blocked"}, n) =
          IF found \in {"blocked"} THEN Seen(seen, {"blocked"}, n) + 1 ELSE Seen(seen, {"blocked"}, n)
    <3>1. PICK fs : fs = {"blocked"}
      OBVIOUS
    <3>2. seen[n] \notin fs
      BY <2>3, <3>1
    <3>3. Seen(seen', fs, n) = IF found \in fs THEN Seen(seen, fs, n) + 1 ELSE Seen(seen, fs, n)
      BY <2>4, <3>2, SeenGraded
    <3> QED
      BY <3>1, <3>3
  <2>6. Seen(seen, {"blocked"}, n) \in Nat
    BY SeenGrows
  <2>7. s.failed + 1 <= n - Seen(seen, {"blocked"}, n) /\ s.failed \in Nat
    BY <2>1, <2>2 DEF Counted, Open, Ungraded, Numbers
  <2>8. saved'.round = n /\ s'.round = n /\ saved'.failed = s.failed /\ s'.failed = s.failed
    BY <2>1, <2>2, <2>3
  <2> QED
    BY <2>1, <2>5, <2>6, <2>7, <2>8 DEF Counted
<1>22. CASE PauseRound
  BY <1>22, QuietCounted DEF Down, NewProcess, Open, Ungraded, Going, PauseRound
<1>23. CASE PassGate
  <2>1. GatePassed
    BY <1>23, PassesGate
  <2>2. pc \in Open
    BY <2>1 DEF GatePassed, Open
  <2> QED
    BY <2>1, <2>2, QuietCounted DEF GatePassed
<1>24. CASE Demote
  <2>1. Demoted
    BY <1>24, Demotes
  <2>2. /\ s'.round = s.round /\ s'.failed \in {s.failed, s.failed + 1} /\ seen' = seen
        /\ pc \in {"rerun", "second", "review"} /\ pc' = "patch"
        /\ \/ saved' = saved
           \/ saved'.failed = s.failed /\ saved'.round = s.round
    BY <2>1 DEF Demoted
  <2>3. s.failed + 1 <= s.round - Seen(seen, {"blocked"}, s.round)
    BY <2>2 DEF Counted, Open
  <2>4. Seen(seen, {"blocked"}, s.round) \in Nat
    BY SeenGrows DEF Numbers
  <2>5. s'.failed <= s.round - Seen(seen, {"blocked"}, s.round)
    BY <2>2, <2>3, <2>4 DEF Numbers
  <2>6. saved'.failed <= saved'.round - Seen(seen, {"blocked"}, saved'.round)
    BY <2>2 DEF Counted
  <2> QED
    BY <2>2, <2>5, <2>6 DEF Counted, Open, Ungraded, Going
<1>25. CASE Inconclusive
  BY <1>25, QuietCounted DEF Open, Ungraded, Going, Inconclusive
<1>26. CASE Fail
  <2>1. /\ s' = [NoteFailed(s) EXCEPT !.streak = StreakAfter(v.found)] /\ saved' = s' /\ seen' = seen
        /\ pc = "failing" /\ pc' \in {"pivot", "patch"}
    BY <1>26 DEF Fail
  <2>2. s'.round = s.round /\ s'.failed \in {s.failed, s.failed + 1}
    BY <2>1 DEF NoteFailed
  <2>3. s.failed + 1 <= s.round - Seen(seen, {"blocked"}, s.round)
    BY <2>1 DEF Counted, Open
  <2>4. Seen(seen, {"blocked"}, s.round) \in Nat
    BY SeenGrows DEF Numbers
  <2>5. s'.failed <= s.round - Seen(seen, {"blocked"}, s.round)
    BY <2>2, <2>3, <2>4 DEF Numbers
  <2> QED
    BY <2>1, <2>2, <2>5 DEF Counted, Open, Ungraded, Going
<1>27. CASE Patch
  BY <1>27, QuietCounted DEF Open, Ungraded, Going, Patch
<1>28. CASE Pivot
  BY <1>28, QuietCounted DEF Open, Ungraded, Going, Pivot
<1>29. CASE RecordPivot
  BY <1>29, QuietCounted DEF Open, Ungraded, Going, RecordPivot
<1>30. CASE Accept
  BY <1>30, QuietCounted DEF Open, Ungraded, Going, Accept
<1>31. CASE RecordAccept
  BY <1>31, QuietCounted DEF Open, Ungraded, Going, RecordAccept
<1>32. CASE HaltOnBudget
  BY <1>32, QuietCounted DEF Open, Ungraded, Going, HaltOnBudget
<1>33. CASE RecordHalt
  BY <1>33, QuietCounted DEF Open, Ungraded, Going, RecordHalt
<1>34. CASE RunOut
  BY <1>34, QuietCounted DEF Open, Ungraded, Going, RunOut
<1>35. CASE Stop
  BY <1>35, QuietCounted DEF Down, NewProcess, Open, Ungraded, Going, Stop
<1>36. CASE Crash
  <2>1. s' = saved /\ saved' = saved /\ seen' = seen /\ pc' = "down"
    BY <1>36 DEF Crash, Down
  <2> QED
    BY <2>1 DEF Counted, Open, Ungraded, Going
<1>37. CASE UNCHANGED vars
  BY <1>37, QuietCounted DEF vars
<1> QED
  BY <1>1, <1>2, <1>3, <1>4, <1>5, <1>6, <1>7, <1>8, <1>9, <1>10, <1>11, <1>12, <1>13, <1>14,
     <1>15, <1>16, <1>17, <1>18, <1>19, <1>20, <1>21, <1>22, <1>23, <1>24, <1>25, <1>26, <1>27,
     <1>28, <1>29, <1>30, <1>31, <1>32, <1>33, <1>34, <1>35, <1>36, <1>37
  DEF Next, Run, Enter, Human, Generation, Grading, Ending, BacksOff

-----------------------------------------------------------------------------
(* The theorems.                                                             *)

\* The invariant holds of an item nobody worked on.
LEMMA InitInv == Init => Inv
<1> SUFFICES ASSUME Init PROVE Inv
  OBVIOUS
<1> USE BoundsAssumption
<1>1. Shapes /\ Numbers
  BY DEF Init, Shapes, Numbers, IsState, IsHistory, IsProcess, NewItem, NewProcess, NoHistory
<1>2. Sight /\ Place /\ Money /\ Passing /\ Steps
  BY DEF Init, Sight, Place, Money, Passing, Steps, NewItem, NewProcess, NoHistory, Synced, Going, Ungraded
<1>3. Ordered
  <2>1. ledger \in Seq({})
    BY DEF Init
  <2>2. DOMAIN ledger = {}
    BY DEF Init
  <2> QED
    BY <2>1, <2>2 DEF Ordered
<1>4. Decided
  <2>1. s.round = 0 /\ saved.round = 0 /\ Excused = 0
    BY DEF Init, NewItem, NoHistory, Excused
  <2>2. Undecided(ledger, s.round) = 0 /\ Undecided(ledger, s.round - 1) = 0
        /\ Undecided(ledger, saved.round) = 0
    BY <2>1, FS_EmptySet DEF Undecided
  <2> QED
    BY <2>1, <2>2 DEF Decided
<1>5. Earned /\ Counted
  <2>1. /\ s.round = 0 /\ saved.round = 0 /\ s.pivots = 0 /\ saved.pivots = 0 /\ s.streak = 0
        /\ saved.streak = 0 /\ hist.human = 0 /\ s.failed = 0 /\ saved.failed = 0 /\ pc = "down"
    BY DEF Init, NewItem, NoHistory
  <2>2. \A fs : Seen(seen, fs, s.round) = 0 /\ Seen(seen, fs, saved.round) = 0
    BY <2>1, FS_EmptySet DEF Seen
  <2>3. Claimed(s) = 0 /\ Claimed(saved) = 0
    BY <2>1 DEF Claimed
  <2> QED
    BY <2>1, <2>2, <2>3 DEF Earned, Counted, Open, Ungraded, Going
<1> QED
  BY <1>1, <1>2, <1>3, <1>4, <1>5 DEF Inv

\* Every step keeps the invariant.
LEMMA NextInv == Inv /\ [Next]_vars => Inv'
<1> SUFFICES ASSUME Inv, [Next]_vars PROVE Inv'
  OBVIOUS
<1>1. /\ Shapes /\ Numbers /\ Sight /\ Place /\ Money /\ Passing
      /\ Steps /\ Ordered /\ Decided /\ Earned /\ Counted
  BY DEF Inv
<1>2. Shapes' /\ Numbers' /\ Sight' /\ Place'
  BY <1>1, ShapesKept, NumbersKept, SightKept, PlaceKept
<1>3. Money' /\ Passing' /\ Steps'
  BY <1>1, MoneyKept, PassingKept, StepsKept
<1>4. Ordered' /\ Decided'
  BY <1>1, OrderedKept, DecidedKept
<1>5. Earned' /\ Counted'
  BY <1>1, EarnedKept, CountedKept
<1> QED
  BY <1>2, <1>3, <1>4, <1>5 DEF Inv

\* So it holds always.
LEMMA Invariance == Spec => []Inv
  BY InitInv, NextInv, PTL DEF Spec

\* What is billed stays within the cap, up to the sessions of one round and two more per kill.
THEOREM SpendStaysBounded == Spec => []SpendBounded
<1>1. Inv => SpendBounded
  BY BoundsAssumption DEF Inv, Numbers, Money, SpendBounded
<1> QED
  BY <1>1, Invariance, PTL

\* Whatever is retried, given back or lost in a kill, pivots and the escalation are earned by
\* rounds that were graded, each counted once.
THEOREM StrategyIsEarned == Spec => []StrategyEarned
<1>1. Inv => StrategyEarned
  <2>1. \A fs : RoundsSeen(fs) = Seen(seen, fs, s.round)
    BY DEF RoundsSeen, Seen
  <2> QED
    BY <2>1 DEF Inv, Earned, Counted, Claimed, StrategyEarned
<1> QED
  BY <1>1, Invariance, PTL

\* The ledger runs in the order of the rounds, and only kills and failed resets leave gaps.
THEOREM RoundsAreDecided == Spec => []EveryRoundDecided
<1>1. Inv => EveryRoundDecided
  <2> SUFFICES ASSUME Inv PROVE EveryRoundDecided
    OBVIOUS
  <2> DEFINE passed == IF s.status = "failed" /\ pc = "down" THEN s.round ELSE s.round - 1
  <2>1. Ordered /\ Decided /\ Steps
    BY DEF Inv
  <2>2. Undecided(ledger, passed) <= Excused
    BY <2>1 DEF Decided, Steps, Rest
  <2>3. Cardinality({r \in 1 .. passed : ~Recorded(ledger, r)}) <= hist.crashes + hist.resets
    BY <2>2 DEF Undecided, Excused
  <2> HIDE DEF passed
  <2>4. /\ \A i, j \in DOMAIN ledger : i < j => ledger[i].round < ledger[j].round
        /\ \A i \in DOMAIN ledger : ledger[i].round <= saved.round
    BY <2>1 DEF Ordered
  <2> QED
    BY <2>3, <2>4 DEF EveryRoundDecided, passed
<1> QED
  BY <1>1, Invariance, PTL

\* An item is passed by an evaluator's pass of its last round, or by a human.
THEOREM PassesAreWarranted == Spec => []PassWarranted
<1>1. Inv => PassWarranted
  BY DEF Inv, Passing, PassWarranted
<1> QED
  BY <1>1, Invariance, PTL
=============================================================================
