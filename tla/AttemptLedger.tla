----------------------------- MODULE AttemptLedger -----------------------------
(***************************************************************************)
(* The per-item attempt ledger, .sparra/runs/<run>/<item>/attempts.jsonl    *)
(* (src/build/attemptLedger.ts), as a sequence of records.  An append        *)
(* computes the lineage of the new record from the records before it and is *)
(* a no-op on a round that already has one.  The attemptId of a record is   *)
(* its position; parent 0 stands for null.  Score, path, reason, cost and   *)
(* time are left out: the verdict stands for the evaluation fields.         *)
(***************************************************************************)
EXTENDS Integers, Sequences

Kinds     == {"initial", "patch", "pivot"}
Verdicts  == {"null", "pass", "fail"}
Decisions == {"continue-patch", "pivot", "accept", "budget-halt", "terminal-inconclusive",
              "terminal-fail", "abandon", "human-accept", "human-abandon"}

Attempts == [round : Nat, kind : Kinds, decision : Decisions, verdict : Verdicts]
Records  == [round : Nat, kind : Kinds, decision : Decisions, verdict : Verdicts,
             parent : Nat, lineage : Nat]

Recorded(l, r) == \E i \in DOMAIN l : l[i].round = r

Lineages(l)   == {0} \cup {l[i].lineage : i \in DOMAIN l}
MaxLineage(l) == CHOOSE m \in Lineages(l) : \A n \in Lineages(l) : n <= m

\* computeLineage: a patch descends from the last record, a pivot opens a line of its own.
Parent(l, kind)  == IF kind = "patch" /\ l # <<>> THEN Len(l) ELSE 0
Lineage(l, kind) == CASE l = <<>> \/ kind = "initial" -> 0
                      [] l # <<>> /\ kind = "pivot"   -> MaxLineage(l) + 1
                      [] l # <<>> /\ kind = "patch"   -> l[Len(l)].lineage

RecordOf(l, a) ==
  [round |-> a.round, kind |-> a.kind, decision |-> a.decision, verdict |-> a.verdict,
   parent |-> Parent(l, a.kind), lineage |-> Lineage(l, a.kind)]

AppendAttempt(l, a) == IF Recorded(l, a.round) THEN l ELSE Append(l, RecordOf(l, a))
=============================================================================
