------------------------------ MODULE ConductRun ------------------------------
(***************************************************************************)
(* One run of `sparra conduct` and its resumes (src/conduct/run.ts over the  *)
(* core's bounded scheduler), with the decisions that people and policies    *)
(* answer (src/conduct/decisionEngine.ts).  The units run concurrently; what *)
(* one of them does between two questions is ConductUnit's.                  *)
(*                                                                          *)
(* run, pool and slot are the memory of the process; disk is run.json and    *)
(* files the request and decision files, which `--decide` and the bridge     *)
(* share.  A step that changes the memory and then writes run.json is one    *)
(* action: the writer snapshots at the call, in order, by rename.  An         *)
(* answerer reads it and writes it back, in two: what the run wrote between    *)
(* is lost from the file until it writes again.                               *)
(***************************************************************************)
EXTENDS Integers, FiniteSets, FiniteSetsExt

CONSTANTS
  NUnits,      \* the units of the run, started in the order 1..NUnits
  Settings,    \* for each process of the run, pairs of a conduct.decisions.surface and a
               \* conduct.maxConcurrency, with one of which it is started
  Given,       \* the answers that people give
  Landing,     \* the run lands: --land, which implies --merge and --commit
  MaxLives,    \* bound on the processes of the run
  MaxSeq,      \* bound on the decisions the units ask for
  MaxAnswers   \* bound on the answers people give

ASSUME RunBounds == {NUnits, MaxLives, MaxSeq, MaxAnswers} \subseteq Nat \ {0}
ASSUME RunConfig == /\ Landing \in BOOLEAN
                    /\ Settings \in [1 .. MaxLives -> SUBSET ({"auto", "park", "park-timeout"} \X (Nat \ {0}))]

Units  == 1 .. NUnits
Owners == 0 .. NUnits \* 0 asks for the run itself: its landing, or a decision it recovers

VARIABLES phase, run, pool, slot, disk, files, cli, hist
runVars == <<phase, run, pool, slot, disk, files, cli, hist>>

Ends          == {"accepted", "exhausted", "error"} \* the ways a unit's rounds end by themselves
Terminal      == {"accepted", "exhausted", "abandoned", "dry-run"}
UnitAnswers   == {"go", "accept", "abandon"} \* of a unit's judgment points, by what they do
Options(unit) == IF unit = 0 THEN {"skip-land"} ELSE UnitAnswers

NewRun == [status |-> "none", out |-> [x \in Units |-> "pending"], decs |-> {}, merged |-> {},
           seq |-> 0, brain |-> TRUE, surface |-> "auto", slots |-> 1, gated |-> FALSE, mine |-> Units,
           stale |-> {}, result |-> [x \in Units |-> "none"]]
NoAsk  == [st |-> "none", seq |-> 0, unit |-> 0, stale |-> 0, answer |-> "none"]
Idle   == [x \in Units |-> "out"]

Store(r) == [status |-> r.status, out |-> r.out, decs |-> r.decs, merged |-> r.merged]
NoDecide == [pc |-> "idle", seq |-> 0, unit |-> 0, doc |-> Store(NewRun)]
Write(r) == run' = r /\ disk' = Store(r) \* the memory and its write to run.json

\* cmdConduct: what a run is started with, by flags or by default.
Started == \E b \in BOOLEAN, s \in Settings[1] : run = [NewRun EXCEPT !.brain = b, !.surface = s[1], !.slots = s[2]]

RunInit ==
  /\ phase = "start"
  /\ Started
  /\ pool = [x \in Units |-> "queued"]
  /\ slot = [o \in Owners |-> NoAsk]
  /\ disk = Store(NewRun)
  /\ files = [req |-> {}, ans |-> {}]
  /\ cli = NoDecide
  /\ hist = [lives |-> 1, gated |-> FALSE, parked |-> {}, dropped |-> {}]

(* Faulty variants of the definitions below, substituted for them to see the properties fail. *)
SeqStartsAgain(decs)  == 0 * Cardinality(decs)
OnlyParked(decs)      == {d \in decs : d.answer = "none" /\ \E q \in files.req : q.seq = d.seq}
WaitsForAll           == \A u \in Units : pool[u] \in {"done", "held"}

-----------------------------------------------------------------------------
(* The start of a run, up to its units. *)

End(r) == Write(r) /\ phase' = "down" /\ pool' = Idle

\* runConduct: the onRunStart gate, the decomposition, a dry run, or the entries of the units.
Start ==
  /\ phase = "start"
  /\ \/ End([run EXCEPT !.status = "error"]) /\ hist' = [hist EXCEPT !.gated = TRUE]
     \/ /\ End([run EXCEPT !.status = "dry-run", !.out = [x \in Units |-> "dry-run"]])
        /\ UNCHANGED hist
     \/ /\ Write([run EXCEPT !.status = "running"])
        /\ phase' = IF run.brain THEN "units" ELSE "gates"
        /\ UNCHANGED <<pool, hist>>
  /\ UNCHANGED <<slot, files, cli>>

\* Without a brain every unit's onUnitStart gate runs before any unit, and one failure ends the run.
Gates ==
  /\ phase = "gates"
  /\ \/ phase' = "units" /\ UNCHANGED <<run, disk, hist, pool>>
     \/ \E u \in Units : /\ End([run EXCEPT !.status = "error", !.out[u] = "error"])
                         /\ hist' = [hist EXCEPT !.gated = TRUE]
  /\ UNCHANGED <<slot, files, cli>>

-----------------------------------------------------------------------------
(* The units: mapBounded starts them in order, each as another one ends. *)

HasSlot(u) ==
  /\ Cardinality({v \in Units : pool[v] \in {"work", "asking"}}) < run.slots
  /\ \A v \in Units : pool[v] = "queued" => u <= v

\* A failed onUnitStart gate aborts the run, when the units that run have ended.
Aborts(failed) == run.gated \/ failed

\* With a brain a unit's gate runs when the unit starts.
Begin(u) ==
  /\ phase = "units" /\ pool[u] = "queued" /\ HasSlot(u)
  /\ \/ pool' = [pool EXCEPT ![u] = "work"] /\ UNCHANGED <<run, disk, hist>>
     \/ /\ run.brain
        /\ pool' = [pool EXCEPT ![u] = "done"]
        /\ Write([run EXCEPT !.out[u] = "error", !.gated = Aborts(TRUE)])
        /\ hist' = [hist EXCEPT !.gated = TRUE]
  /\ UNCHANGED <<phase, slot, files, cli>>

\* makeTrackedRunRole: the first role of a unit that returns.
RoleReturns(u) ==
  /\ phase = "units" /\ pool[u] = "work" /\ run.out[u] = "pending"
  /\ Write([run EXCEPT !.out[u] = "running"])
  /\ UNCHANGED <<phase, pool, slot, files, cli, hist>>

\* With a brain a unit is finalized as it ends; without one its result waits for all the others.
UnitEnds(u, outcome) ==
  IF run.brain
  THEN /\ Write([run EXCEPT !.out[u] = outcome])
       /\ pool' = [pool EXCEPT ![u] = "done"]
  ELSE /\ run' = [run EXCEPT !.result[u] = outcome]
       /\ pool' = [pool EXCEPT ![u] = "held"]
       /\ UNCHANGED disk

Finish(u) ==
  /\ phase = "units" /\ pool[u] = "work"
  /\ \E outcome \in Ends : UnitEnds(u, outcome)
  /\ UNCHANGED <<phase, slot, files, cli, hist>>

-----------------------------------------------------------------------------
(* A decision: recorded as pending, then asked, then resolved where it stands. *)

\* The owner asks about a unit (0, the run), in the place of a stale record or of none (0): the
\* pending record is durable before its request is.
Ask(o, unit, stale) ==
  LET seq == run.seq + 1
  IN /\ Write([run EXCEPT !.seq = seq,
                           !.decs = @ \cup {[seq |-> seq, unit |-> unit, answer |-> "none"]}])
     /\ slot' = [slot EXCEPT ![o] = [NoAsk EXCEPT !.st = "asking", !.seq = seq, !.unit = unit,
                                                  !.stale = stale]]

Judge(u) ==
  /\ phase = "units" /\ run.brain /\ pool[u] = "work" /\ run.out[u] = "running"
  /\ run.seq < MaxSeq
  /\ Ask(u, u, 0)
  /\ pool' = [pool EXCEPT ![u] = "asking"]
  /\ UNCHANGED <<phase, files, cli, hist>>

\* park: the request file, in the place of any earlier one of the same number.
Park(o) ==
  /\ slot[o].st = "asking" /\ run.surface # "auto"
  /\ slot' = [slot EXCEPT ![o].st = "parked"]
  /\ files' = [files EXCEPT !.req = {q \in @ : q.seq # slot[o].seq}
                                    \cup {[seq |-> slot[o].seq, unit |-> slot[o].unit]}]
  /\ UNCHANGED <<phase, run, pool, disk, cli, hist>>

\* The record, and with a recovered one the stale record, are resolved in place; a recovered accept
\* or abandon is kept for the unit, abandon over accept.
Resolve(o, answer) ==
  LET s == slot[o]
      verdict == CASE answer = "abandon" -> "abandoned"
                   [] answer = "accept" /\ run.result[s.unit] = "none" -> "accepted"
                   [] OTHER -> IF s.unit = 0 THEN "none" ELSE run.result[s.unit]
      decs == {IF d.unit = s.unit /\ d.seq \in {s.seq, s.stale} THEN [d EXCEPT !.answer = "given"] ELSE d :
                 d \in run.decs}
  IN Write([run EXCEPT !.decs = decs,
                       !.stale = @ \ {d \in @ : d.seq = s.stale /\ d.unit = s.unit},
                       !.result = IF s.stale = 0 THEN @ ELSE [@ EXCEPT ![s.unit] = verdict]])

\* An answer from the decision file if it is one of the options; under auto, and under park-timeout
\* once it has expired, from the brain or the default.
Answer(o) ==
  /\ \E answer \in Options(slot[o].unit) :
       /\ \/ slot[o].st = "parked" /\ [seq |-> slot[o].seq, answer |-> answer] \in files.ans
          \/ slot[o].st = "parked" /\ run.surface = "park-timeout"
          \/ slot[o].st = "asking" /\ run.surface = "auto"
       /\ Resolve(o, answer)
       /\ slot' = [slot EXCEPT ![o] = [NoAsk EXCEPT !.st = IF o = 0 THEN "none" ELSE "answered",
                                                    !.answer = IF o = 0 THEN "none" ELSE answer]]
  /\ phase' = IF phase = "landing" THEN "complete" ELSE phase
  /\ UNCHANGED <<pool, files, cli, hist>>

\* The unit goes on with its answer, or ends with it.
Apply(u) ==
  /\ slot[u].st = "answered"
  /\ slot' = [slot EXCEPT ![u] = NoAsk]
  /\ \/ /\ slot[u].answer = "go"
        /\ pool' = [pool EXCEPT ![u] = "work"]
        /\ UNCHANGED <<run, disk>>
     \/ slot[u].answer = "accept" /\ UnitEnds(u, "accepted")
     \/ slot[u].answer = "abandon" /\ UnitEnds(u, "abandoned")
  /\ UNCHANGED <<phase, files, cli, hist>>

-----------------------------------------------------------------------------
(* The end of a run. *)

\* The units of this life have ended; the others were never entered.
Over == \A u \in Units : pool[u] \in {"out", "done", "held"}

Settle ==
  /\ phase = "units" /\ Over
  /\ \/ run.gated /\ End([run EXCEPT !.status = "error"])
     \/ /\ ~run.gated
        /\ phase' = IF Landing THEN "merge" ELSE "complete"
        /\ run' = [run EXCEPT !.out = [x \in Units |-> IF pool[x] = "held" THEN run.result[x] ELSE @[x]]]
        /\ UNCHANGED <<disk, pool>>
  /\ UNCHANGED <<slot, files, cli, hist>>

\* Only the accepted units of this life are committed and merged; each may be refused.
Merge ==
  /\ phase = "merge"
  /\ \E merged \in SUBSET {u \in run.mine : run.out[u] = "accepted"} :
       Write([run EXCEPT !.merged = @ \cup merged])
  /\ phase' = "land"
  /\ pool' = [x \in Units |-> IF pool[x] = "held" THEN "done" ELSE pool[x]]
  /\ UNCHANGED <<slot, files, cli, hist>>

\* computeLandReadiness over the whole run; a run that is not ready asks to skip the landing.
Ready == /\ \A u \in Units : run.out[u] = "accepted" /\ u \in run.merged
         /\ \A d \in run.decs : d.answer # "none"

Land ==
  /\ phase = "land"
  /\ \/ Ready /\ phase' = "complete" /\ UNCHANGED <<run, slot, disk>>
     \/ ~Ready /\ phase' = "landing" /\ Ask(0, 0, 0)
  /\ UNCHANGED <<pool, files, cli, hist>>

Complete ==
  /\ phase = "complete"
  /\ End([run EXCEPT !.status = "completed"])
  /\ UNCHANGED <<slot, files, cli, hist>>

-----------------------------------------------------------------------------
(* A kill and `conduct --resume`. *)

Kill ==
  /\ phase # "down" /\ hist.lives < MaxLives
  /\ phase' = "down"
  /\ run' = NewRun
  /\ pool' = Idle
  /\ slot' = [o \in Owners |-> NoAsk]
  /\ hist' = [hist EXCEPT !.parked = {slot[o].seq : o \in {x \in Owners : slot[x].st = "parked"}}]
  /\ UNCHANGED <<disk, files, cli>>

Resumable == {"pending", "running", "error"}

\* The sequence goes on from the decisions of the units; those of the landing are not looked at.
NumbersOf(decs) == {d.seq : d \in {e \in decs : e.unit # 0}}
MaxSeqOf(decs)  == Max({0} \cup NumbersOf(decs))

\* The decisions to recover: every pending one of a unit, whether the unit is entered again or not.
Stale(decs) == {d \in decs : d.answer = "none" /\ d.unit # 0}

\* cmdConductResume: only a run that is there is resumed, and only for a unit to enter again.
MayResume == /\ disk.status \notin {"none", "dry-run"}
             /\ \E u \in Units : disk.out[u] \in Resumable

\* A run without a brain is resumed as hybrid.
Resume ==
  /\ phase = "down" /\ hist.lives < MaxLives /\ MayResume
  /\ \E s \in Settings[hist.lives + 1] :
       Write([NewRun EXCEPT !.status = "running", !.out = disk.out, !.decs = disk.decs,
                            !.merged = disk.merged, !.seq = MaxSeqOf(disk.decs), !.surface = s[1], !.slots = s[2],
                            !.mine = {u \in Units : disk.out[u] \in Resumable},
                            !.stale = Stale(disk.decs)])
  /\ phase' = "recover"
  /\ slot' = [o \in Owners |-> NoAsk]
  /\ hist' = [hist EXCEPT !.lives = @ + 1, !.gated = FALSE, !.dropped = @ \ NumbersOf(disk.decs)]
  /\ UNCHANGED <<pool, files, cli>>

\* recoverParkedDecisions, one at a time.
Recover ==
  /\ phase = "recover" /\ slot[0].st = "none"
  /\ \E d \in run.stale : Ask(0, d.unit, d.seq)
  /\ UNCHANGED <<phase, pool, files, cli, hist>>

\* The recovered answers are applied and the other units are entered again.
Reenter ==
  /\ phase = "recover" /\ slot[0].st = "none" /\ run.stale = {}
  /\ LET stopped == {u \in run.mine : run.result[u] # "none"}
         active  == run.mine \ stopped
     IN /\ Write([run EXCEPT !.out = [x \in Units |-> CASE x \in stopped -> run.result[x]
                                                        [] x \in active  -> "pending"
                                                        [] OTHER         -> @[x]],
                             !.result = NewRun.result])
        /\ pool' = [x \in Units |-> IF x \in active THEN "queued" ELSE "out"]
  /\ phase' = "units"
  /\ UNCHANGED <<slot, files, cli, hist>>

-----------------------------------------------------------------------------
(* `conduct --decide` and the bridge, which run the same code in processes of their own. *)

\* cmdConductDecide: an answer to a request that is parked, of a run that is there.
Asked == IF disk.status = "none" THEN {} ELSE files.req

\* The decision file is created exclusively, with one of the options of the request.
Decide ==
  /\ cli.pc = "idle" /\ Cardinality(files.ans) < MaxAnswers
  /\ \E q \in Asked : \E answer \in Options(q.unit) \cap Given :
       /\ \A a \in files.ans : a.seq # q.seq
       /\ files' = [files EXCEPT !.ans = @ \cup {[seq |-> q.seq, answer |-> answer]}]
       /\ cli' = [NoDecide EXCEPT !.pc = "read", !.seq = q.seq, !.unit = q.unit]
  /\ UNCHANGED <<phase, run, pool, slot, disk, hist>>

\* applyFileDecisionToRunState: run.json is read ...
DecideReads ==
  /\ cli.pc = "read"
  /\ cli' = [cli EXCEPT !.pc = "write", !.doc = disk]
  /\ UNCHANGED <<phase, run, pool, slot, disk, files, hist>>

\* ... a unit's record of that number is resolved unless it is, and without one a resolved one is
\* appended to the unit of the request; a decision of the landing is not found.
Applied(decs) ==
  IF cli.seq \in NumbersOf(decs)
  THEN {IF d.seq = cli.seq /\ d.unit # 0 /\ d.answer = "none" THEN [d EXCEPT !.answer = "given"] ELSE d :
          d \in decs}
  ELSE decs \cup {d \in {[seq |-> cli.seq, unit |-> cli.unit, answer |-> "given"]} : d.unit # 0}

\* ... and the file is written back, whatever it has become meanwhile.
DecideWrites ==
  /\ cli.pc = "write"
  /\ disk' = [cli.doc EXCEPT !.decs = Applied(@)]
  /\ cli' = NoDecide
  /\ hist' = [hist EXCEPT !.dropped = @ \cup (NumbersOf(disk.decs) \ NumbersOf(disk'.decs))]
  /\ UNCHANGED <<phase, run, pool, slot, files>>

Unit(u) == Begin(u) \/ RoleReturns(u) \/ Finish(u) \/ Judge(u) \/ Apply(u)
Process == \/ Start \/ Gates \/ Settle \/ Merge \/ Land \/ Complete \/ Recover \/ Reenter
           \/ \E u \in Units : Unit(u)
           \/ \E o \in Owners : Park(o) \/ Answer(o)

RunNext == Process \/ Kill \/ Resume \/ Decide \/ DecideReads \/ DecideWrites

RunSpec == RunInit /\ [][RunNext]_runVars

\* The process runs, its roles end and its timeouts expire; nobody has to answer anything.
FairRunSpec == RunSpec /\ WF_runVars(Process)

-----------------------------------------------------------------------------
(* Properties. *)

Decs == [seq : Nat \ {0}, unit : Owners, answer : {"none", "given"}]

\* The types of the state.
RunTypeOK ==
  /\ phase \in {"start", "gates", "units", "merge", "land", "landing", "complete", "down", "recover"}
  /\ pool \in [Units -> {"queued", "work", "asking", "done", "held", "out"}]
  /\ \A r \in {Store(run), disk} :
       /\ r.status \in {"none", "running", "completed", "error", "dry-run"}
       /\ r.out \in [Units -> Resumable \cup Terminal]
       /\ r.decs \subseteq Decs /\ r.merged \subseteq Units
  /\ run.stale \subseteq run.decs
  /\ \A q \in files.req : q.seq \in Nat \ {0} /\ q.unit \in Owners

\* A run says it is completed only when no gate failed in the process that says so, and run.json only
\* when no unit in it is left pending or running and no decision of a unit unanswered, whatever crashes,
\* resumes and writes of an older copy came before.
CompletedMeansSettled ==
  /\ run.status = "completed" => ~hist.gated
  /\ disk.status = "completed" => /\ \A u \in Units : disk.out[u] \notin {"pending", "running"}
                                  /\ \A d \in disk.decs : d.unit # 0 => d.answer # "none"

\* The request of a unit's decision is never overwritten by another unit's or by a later life's, except
\* for a number that an answerer dropped from run.json, by writing back the copy it had read, and that
\* the run was killed before it wrote again.
UnitRequestsKept ==
  [][\A q \in files.req : q.unit # 0 /\ q.seq \notin hist.dropped => q \in files'.req]_runVars

\* With nobody to answer, under auto and park-timeout, a run that is no longer killed ends.
RunEnds == <>[](phase = "down")

-----------------------------------------------------------------------------
(* What a comment or a document says and the code does not keep (README, section 4). *)

\* "a resumed decision never re-uses a prior seq" (docs/conduct.md:284): of a landing's question, and
\* of a unit's, whose record was dropped.
SeqNeverReused  == [][\A q \in files.req : q \in files'.req]_runVars
UnitsNeverReuse == [][\A q \in files.req : q.unit # 0 => q \in files'.req]_runVars

\* "`accepted` | Skipped" (docs/conduct.md:306): a unit that run.json has as accepted is not entered again.
AcceptedStay == [][\A u \in Units : disk.out[u] = "accepted" => disk'.out[u] = "accepted"]_runVars

\* A decision that was still parked when the process died is applied once it is answered, "never
\* resolved-and-then-ignored" (docs/conduct.md:286): answered abandon, its unit is not run again.
ParkedNotIgnored ==
  \A d \in disk.decs : /\ d.seq \in hist.parked /\ d.unit # 0 /\ d.answer = "given"
                       /\ [seq |-> d.seq, answer |-> "abandon"] \in files.ans
                       => pool[d.unit] # "work"
=============================================================================
