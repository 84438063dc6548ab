--------------------------- MODULE ParkedDecisions ---------------------------
(***************************************************************************)
(* The channel between a run of `sparra conduct` that parks its decisions   *)
(* and the people who answer them (src/conduct/decisionEngine.ts, with       *)
(* conductors/http/handlers/conduct.ts): at a terminal, with `conduct        *)
(* --decide`, or through the HTTP bridge, which reads the run's lines.       *)
(*                                                                          *)
(* Here a write of the run is queued and follows later, and several           *)
(* answerers, with their reads and writes of run.json apart, come between;     *)
(* ConductRun has one answerer, and what a unit does with an answer.          *)
(* The landing asks as the unit "run"; its decisions draw from the same       *)
(* numbers, but run.json keeps them apart from those of the units.            *)
(***************************************************************************)
EXTENDS Integers, Sequences, FiniteSets, FiniteSetsExt

CONSTANTS
  Units,        \* the units that ask
  Clients,      \* the people who answer, one answer each at a time
  Starts,       \* for each process, pairs of the place and the surface it may be started with
  MaxSeq,       \* bound on the decisions of one process
  MaxProcesses, \* bound on the processes of the run
  MaxAnswers    \* bound on the answers that are recorded

ASSUME DecisionBounds == {MaxSeq, MaxProcesses, MaxAnswers} \subseteq Nat \ {0}
ASSUME DecisionUnits  == "run" \notin Units
ASSUME DecisionStarts ==
  Starts \in [1 .. MaxProcesses -> SUBSET ({"terminal", "bridge"} \X {"park", "park-timeout"})]

Options == {"accept", "abandon"}
Lives   == 1 .. MaxProcesses
Landing == "run"
Askers  == Units \cup {Landing}

\* A blocked landing can only be skipped.
OptionsOf(u) == IF u = Landing THEN {"skip-land"} ELSE Options

\* What people may give for an answer.
Given(u) == OptionsOf(u) \cup {"typo"}
Words    == Options \cup {"skip-land", "typo"}

\* The lines of a run on its standard output: its start, and the number of each decision it parks.
RunStart == 0

VARIABLES run, ask, chain, disk, req, ans, pipe, job, client
parkedVars == <<run, ask, chain, disk, req, ans, pipe, job, client>>

NoDoc    == [status |-> "none", recs |-> {}, land |-> {}]
NoRun    == [up |-> FALSE, life |-> 0, place |-> "none", surface |-> "park", seq |-> 0,
             base |-> 0, recs |-> {}, land |-> {}, landing |-> FALSE]
NoAsk    == [st |-> "none", seq |-> 0, stale |-> 0, tty |-> "off"]
NoClient == [pc |-> "idle", via |-> "cli", seq |-> 0, answer |-> "none", unit |-> "none",
             doc |-> NoDoc, again |-> FALSE]

ParkedInit ==
  /\ run = NoRun
  /\ ask = [u \in Askers |-> NoAsk]
  /\ chain = <<>>
  /\ disk = NoDoc
  /\ req = {} /\ ans = {}
  /\ pipe = [l \in Lives |-> <<>>]
  /\ job = [l \in Lives |-> [run |-> FALSE, emitted |-> {}]]
  /\ client = [c \in Clients |-> NoClient]

Doc(recs, land) == [status |-> "running", recs |-> recs, land |-> land]

(* Faulty variants of the definitions below, substituted for them to see the properties fail. *)
ReadsFirstLine(l)  == /\ pipe[l] # <<>>
                      /\ pipe' = [pipe EXCEPT ![l] = Tail(@)]
                      /\ job' = [job EXCEPT ![l].run = TRUE]
                      /\ UNCHANGED <<run, ask, chain, disk, req, ans, client>>
RetypesTypo(u)     == /\ ask' = IF ask[u].tty = "bad" THEN ask ELSE [ask EXCEPT ![u].st = "parked"]
                      /\ UNCHANGED <<run, chain>>
AppendsAlways(recs, c) ==
  recs \cup {r \in {[seq |-> client[c].seq, unit |-> client[c].unit, answer |-> client[c].answer]} : r.unit # Landing}

-----------------------------------------------------------------------------
(* The process: its start, the writer of run.json, its end. *)

\* A run's records that a resume finds unanswered, of any unit; the landing's it does not look at.
Owed == {r \in run.recs : r.answer = "none" /\ r.seq <= run.base}

\* runConduct and resumeConduct, from a terminal or as the child of POST /conduct: run.json is read,
\* the first write is queued and the run-START line goes to the standard output.  The numbers go on from
\* the greatest one of a unit.
Launch ==
  /\ ~run.up /\ run.life < MaxProcesses /\ disk.status # "completed"
  /\ \E s \in Starts[run.life + 1] :
       LET base == Max({0} \cup {r.seq : r \in disk.recs})
       IN /\ run' = [NoRun EXCEPT !.up = TRUE, !.life = run.life + 1, !.place = s[1], !.surface = s[2],
                                  !.seq = base, !.base = base, !.recs = disk.recs, !.land = disk.land]
          /\ pipe' = IF s[1] = "bridge" THEN [pipe EXCEPT ![run.life + 1] = <<RunStart>>] ELSE pipe
  /\ chain' = <<[doc |-> Doc(disk.recs, disk.land), by |-> "none"]>>
  /\ UNCHANGED <<ask, disk, req, ans, job, client>>

\* RunStateWriter.writeNow: the oldest snapshot replaces the file, and who waits for it goes on.
Persist ==
  /\ chain # <<>>
  /\ disk' = Head(chain).doc
  /\ chain' = Tail(chain)
  /\ ask' = [u \in Askers |->
               IF u # Head(chain).by THEN ask[u]
               ELSE IF ask[u].st = "saving" THEN [ask[u] EXCEPT !.st = "asking"] ELSE NoAsk]
  /\ UNCHANGED <<run, req, ans, pipe, job, client>>

Quiet == \A u \in Askers : ask[u].st = "none"

Complete ==
  /\ run.up /\ Quiet /\ chain = <<>> /\ Owed = {}
  /\ disk' = [status |-> "completed", recs |-> run.recs, land |-> run.land]
  /\ run' = [NoRun EXCEPT !.life = run.life]
  /\ UNCHANGED <<ask, chain, req, ans, pipe, job, client>>

\* What was queued and not written is lost; what was printed is not.
KillRun ==
  /\ run.up /\ run.life < MaxProcesses
  /\ run' = [NoRun EXCEPT !.life = run.life]
  /\ ask' = [u \in Askers |-> NoAsk]
  /\ chain' = <<>>
  /\ UNCHANGED <<disk, req, ans, pipe, job, client>>

-----------------------------------------------------------------------------
(* A decision of the process: recorded, parked, polled for, resolved. *)

\* The pending record is queued for run.json, and its write is waited for.
RecordDecision(u, stale) ==
  LET recs == run.recs \cup {[seq |-> run.seq + 1, unit |-> u, answer |-> "none"]}
  IN /\ run.up /\ run.seq < MaxSeq
     /\ run' = [run EXCEPT !.seq = @ + 1, !.recs = recs]
     /\ ask' = [ask EXCEPT ![u] = [NoAsk EXCEPT !.st = "saving", !.seq = run.seq + 1, !.stale = stale]]
     /\ chain' = Append(chain, [doc |-> Doc(recs, run.land), by |-> u])
     /\ UNCHANGED <<disk, req, ans, pipe, job, client>>

\* judge: a unit asks once everything that was owed has been recovered, and before the landing.
Judge(u) == Owed = {} /\ ~run.landing /\ ask[u].st = "none" /\ RecordDecision(u, 0)

\* recoverParkedDecisions: one at a time, each under a new number.
Recover == Quiet /\ \E r \in Owed : RecordDecision(r.unit, r.seq)

\* parkLandDecision: when the units are done the landing may be blocked, and asks.
ParkLand ==
  /\ run.up /\ Quiet /\ Owed = {} /\ ~run.landing /\ run.seq < MaxSeq
  /\ LET land == run.land \cup {[seq |-> run.seq + 1, life |-> run.life, answer |-> "none"]}
     IN /\ run' = [run EXCEPT !.seq = @ + 1, !.land = land, !.landing = TRUE]
        /\ ask' = [ask EXCEPT ![Landing] = [NoAsk EXCEPT !.st = "saving", !.seq = run.seq + 1]]
        /\ chain' = Append(chain, [doc |-> Doc(run.recs, land), by |-> Landing])
  /\ UNCHANGED <<disk, req, ans, pipe, job, client>>

\* park: the request file is created empty and then filled.
Open(u) ==
  /\ ask[u].st = "asking"
  /\ ask' = [ask EXCEPT ![u].st = "opened"]
  /\ req' = {q \in req : q.seq # ask[u].seq}
            \cup {[seq |-> ask[u].seq, unit |-> u, life |-> run.life, whole |-> FALSE]}
  /\ UNCHANGED <<run, chain, disk, ans, pipe, job, client>>

\* handleDecisionParked: once the request is written its line is printed, a number and no text.
Announced(seq) == IF run.place = "bridge" THEN [pipe EXCEPT ![run.life] = Append(@, seq)] ELSE pipe

\* The question is also put to the terminal, once.
Fill(u) ==
  /\ ask[u].st = "opened"
  /\ ask' = [ask EXCEPT ![u].st = "parked", ![u].tty = IF run.place = "terminal" THEN "open" ELSE "off"]
  /\ req' = {IF q.seq = ask[u].seq THEN [q EXCEPT !.whole = TRUE] ELSE q : q \in req}
  /\ pipe' = Announced(ask[u].seq)
  /\ UNCHANGED <<run, chain, disk, ans, job, client>>

\* Somebody at the terminal types an answer; an empty line is the default.
Type(u) ==
  /\ ask[u].tty = "open" /\ ask[u].st \in {"parked", "looked"}
  /\ \E typed \in Given(u) : ask' = [ask EXCEPT ![u].tty = IF typed \in OptionsOf(u) THEN typed ELSE "bad"]
  /\ UNCHANGED <<run, chain, disk, req, ans, pipe, job, client>>

\* The record, and with it the stale one that it recovers, takes the answer, and that is written.
Resolve(u, answer) ==
  LET recs == {IF r.unit = u /\ r.seq \in {ask[u].seq, ask[u].stale} THEN [r EXCEPT !.answer = answer] ELSE r :
                 r \in run.recs}
      land == {IF u = Landing /\ r.life = run.life THEN [r EXCEPT !.answer = answer] ELSE r : r \in run.land}
  IN /\ run' = [run EXCEPT !.recs = recs, !.land = land]
     /\ chain' = Append(chain, [doc |-> Doc(recs, land), by |-> u])
     /\ ask' = [ask EXCEPT ![u].st = "resolving"]

\* One turn of the poll first reads the decision file ...
Look(u) ==
  /\ ask[u].st = "parked"
  /\ IF \E a \in ans : a.seq = ask[u].seq /\ a.answer \in OptionsOf(u)
     THEN \E a \in ans : a.seq = ask[u].seq /\ Resolve(u, a.answer)
     ELSE ask' = [ask EXCEPT ![u].st = "looked"] /\ UNCHANGED <<run, chain>>
  /\ UNCHANGED <<disk, req, ans, pipe, job, client>>

Sleep(u) ==
  /\ ask' = [ask EXCEPT ![u].st = "parked", ![u].tty = IF @ = "bad" THEN "off" ELSE @]
  /\ UNCHANGED <<run, chain>>

\* ... then takes what was typed, if it is an option, or past its time is left to the brain.
AfterLook(u) ==
  /\ ask[u].st = "looked"
  /\ \/ ask[u].tty \in OptionsOf(u) /\ Resolve(u, ask[u].tty)
     \/ /\ ask[u].tty \notin OptionsOf(u) /\ run.surface = "park-timeout"
        /\ ask' = [ask EXCEPT ![u].st = "judging"]
        /\ UNCHANGED <<run, chain>>
     \/ ask[u].tty \notin OptionsOf(u) /\ Sleep(u)
  /\ UNCHANGED <<disk, req, ans, pipe, job, client>>

\* decideAuto: an option from the brain, or else the default, which is one; nobody looks at the file any more.
BrainAnswers(u) ==
  /\ ask[u].st = "judging"
  /\ \E answer \in OptionsOf(u) : Resolve(u, answer)
  /\ UNCHANGED <<disk, req, ans, pipe, job, client>>

-----------------------------------------------------------------------------
(* The answerers: `conduct --decide`, and POST /jobs/:id/decision for a job whose run is known. *)

Reachable(via) == IF via = "cli" THEN disk.status # "none" ELSE \E l \in Lives : job[l].run

\* requestExists; anything else is refused and changes nothing.
Find(c) ==
  /\ client[c].pc = "idle" /\ Cardinality(ans) < MaxAnswers
  /\ \E via \in {"cli", "bridge"}, q \in req : \E answer \in Given(q.unit) :
       /\ Reachable(via)
       /\ client' = [client EXCEPT ![c] = [NoClient EXCEPT !.pc = "found", !.via = via, !.seq = q.seq,
                                                           !.answer = answer]]
  /\ UNCHANGED <<run, ask, chain, disk, req, ans, pipe, job>>

\* readRequest: an answer that is not among the options is refused, if the options can be read.
Validate(c) ==
  /\ client[c].pc = "found"
  /\ \E q \in req :
       /\ q.seq = client[c].seq
       /\ client' = [client EXCEPT ![c] = IF q.whole /\ client[c].answer \notin OptionsOf(q.unit) THEN NoClient
                                          ELSE [@ EXCEPT !.pc = "valid", !.unit = q.unit]]
  /\ UNCHANGED <<run, ask, chain, disk, req, ans, pipe, job>>

Answered(seq) == \E a \in ans : a.seq = seq

Free(seq) == ~Answered(seq)

\* writeDecisionAnswer: the decision file is created exclusively, or the answer refused.
Create(c) ==
  /\ client[c].pc = "valid"
  /\ LET s == client[c].seq
     IN IF Free(s) THEN /\ ans' = {a \in ans : a.seq # s} \cup {[seq |-> s, answer |-> client[c].answer]}
                        /\ client' = [client EXCEPT ![c].pc = "created"]
        ELSE client' = [client EXCEPT ![c] = NoClient] /\ UNCHANGED ans
  /\ UNCHANGED <<run, ask, chain, disk, req, pipe, job>>

Read(c) ==
  /\ client[c].pc = "created"
  /\ client' = [client EXCEPT ![c].pc = "read", ![c].doc = disk]
  /\ UNCHANGED <<run, ask, chain, disk, req, ans, pipe, job>>

\* A unit's record of that number is resolved unless it is; without one, a resolved one is appended, if the
\* request names a unit.
Applied(recs, c) ==
  IF \E r \in recs : r.seq = client[c].seq
  THEN {IF r.seq = client[c].seq /\ r.answer = "none" THEN [r EXCEPT !.answer = client[c].answer] ELSE r :
          r \in recs}
  ELSE recs \cup {r \in {[seq |-> client[c].seq, unit |-> client[c].unit, answer |-> client[c].answer]} : r.unit # Landing}

\* applyFileDecisionToRunState: what was read is written back; the bridge does it all once more.
Apply(c) ==
  /\ client[c].pc = "read"
  /\ disk' = [client[c].doc EXCEPT !.recs = Applied(@, c)]
  /\ client' = [client EXCEPT ![c] = IF client[c].via = "bridge" /\ ~client[c].again
                                     THEN [@ EXCEPT !.pc = "created", !.again = TRUE, !.doc = NoDoc] ELSE NoClient]
  /\ UNCHANGED <<run, ask, chain, req, ans, pipe, job>>

-----------------------------------------------------------------------------
(* The bridge reads the lines of its child. *)

\* projectPendingDecisions: a request that can be read and has no decision file.
Pending(seq) == ~Answered(seq) /\ \E q \in req : q.seq = seq /\ q.whole

\* makeAnnouncementParser: the run is known from its first line on; a parked decision becomes an
\* event once, and only while it is pending.
Parse(l) ==
  /\ pipe[l] # <<>>
  /\ pipe' = [pipe EXCEPT ![l] = Tail(@)]
  /\ job' = [job EXCEPT ![l] = IF Head(pipe[l]) = RunStart THEN [@ EXCEPT !.run = TRUE]
                               ELSE IF @.run /\ Pending(Head(pipe[l]))
                               THEN [@ EXCEPT !.emitted = @ \cup {Head(pipe[l])}] ELSE @]
  /\ UNCHANGED <<run, ask, chain, disk, req, ans, client>>

-----------------------------------------------------------------------------
Asking(u)  == Open(u) \/ Fill(u) \/ Look(u) \/ AfterLook(u) \/ BrainAnswers(u)
Process    == \/ Launch \/ Persist \/ Complete \/ KillRun \/ Recover \/ ParkLand
              \/ \E u \in Units : Judge(u)
              \/ \E u \in Askers : Asking(u)
Answers(c) == Find(c) \/ Validate(c) \/ Create(c) \/ Read(c) \/ Apply(c)

ParkedNext ==
  \/ Process
  \/ \E u \in Askers : Type(u)
  \/ \E c \in Clients : Answers(c)
  \/ \E l \in Lives : Parse(l)

ParkedSpec == ParkedInit /\ [][ParkedNext]_parkedVars

\* The event loops of the process and of the bridge turn; nobody has to answer, and no unit to ask.
FairParkedSpec ==
  /\ ParkedSpec /\ WF_parkedVars(Persist)
  /\ \A u \in Askers : WF_parkedVars(Asking(u))
  /\ \A l \in Lives : WF_parkedVars(Parse(l))

-----------------------------------------------------------------------------
(* Properties. *)

Recs == [seq : Nat \ {0}, unit : Units, answer : Words \cup {"none"}]

\* The types of the state.
ParkedTypeOK ==
  /\ run.up \in BOOLEAN /\ run.life \in 0 .. MaxProcesses /\ run.seq \in 0 .. MaxSeq
  /\ \A recs \in {run.recs, disk.recs} : recs \subseteq Recs
  /\ \A land \in {run.land, disk.land} : land \subseteq [seq : Nat \ {0}, life : Lives, answer : {"skip-land", "none"}]
  /\ disk.status \in {"none", "running", "completed"}
  /\ \A u \in Askers : ask[u].st \in {"none", "saving", "asking", "opened", "parked", "looked", "judging", "resolving"}
  /\ req \subseteq [seq : Nat \ {0}, unit : Askers, life : Lives, whole : BOOLEAN]
  /\ ans \subseteq [seq : Nat \ {0}, answer : Words]

\* However two people answer at once, from the command line and through the bridge, the first answer
\* to a number stands: nothing replaces it and no other is recorded beside it.
FirstAnswerStands == [][\A a \in ans : {b \in ans' : b.seq = a.seq} = {a}]_parkedVars

\* Every decision that a child of the bridge parks is seen by the bridge: it becomes an event, also
\* when the child dies at once, unless it is answered, or the run resumed (SeqNeverReused), before
\* the line is read.
ParkedIsSeen ==
  \A l \in Lives, s \in 1 .. MaxSeq :
    (run.life = l /\ run.place = "bridge" /\ \E u \in Askers : ask[u].seq = s /\ ask[u].st = "parked")
      ~> (s \in job[l].emitted \/ Answered(s) \/ run.life > l)

\* A valid answer on file to a decision that is parked ends its wait, whatever was typed at the
\* terminal and whatever the clock says, unless the process ends first.
AnsweredIsActedOn ==
  \A l \in Lives, s \in 1 .. MaxSeq :
    (run.life = l /\ \E u \in Askers :
       /\ ask[u].seq = s /\ ask[u].st \in {"parked", "looked"}
       /\ \E a \in ans : a.seq = s /\ a.answer \in OptionsOf(u))
      ~> ~(run.life = l /\ \E u \in Askers : ask[u].seq = s)

\* The units in run.json never have two records of one number between them, whichever unit asked and
\* although two programs append to it, a copy at a time.  (A landing's record may share it: NumbersApart.)
OneRecord == \A r, s \in disk.recs : r.seq = s.seq => r = s

-----------------------------------------------------------------------------
(* What a comment or a document says and the code does not keep (README, section 4). *)

\* "the decision seq continues monotonically from the persisted maximum (a resumed decision never
\* re-uses a prior seq)" (docs/conduct.md:283-285): the question of a number is never replaced by a
\* later process.
SeqNeverReused == [][\A q \in req : \E p \in req' : p.seq = q.seq /\ p.life = q.life]_parkedVars

\* The same sentence of the two kinds of record: a landing's number is not that of a unit's decision.
NumbersApart == \A r \in disk.recs, s \in disk.land : r.seq # s.seq

\* "one sequence yields exactly one durable resolution whether the running poller or --decide resolves
\* it" (docs/conduct.md:138-139): the record in the memory of the run agrees with the decision file.
SameResolution ==
  \A r \in run.recs, a \in ans : r.seq = a.seq /\ r.answer # "none" /\ a.answer \in Options => r.answer = a.answer

\* "an already-resolved record is left untouched" (src/conduct/decisionEngine.ts:322): run.json never
\* takes back the answer of a record.
ResolvedStays == [][\A r \in disk.recs : r.answer # "none" => r \in disk'.recs]_parkedVars

\* "The answer is validated against the parked request's options" (docs/conduct.md:133): no other is
\* recorded, where it would shut out every valid one.
AnswersAreOptions == \A a \in ans : a.answer # "typo"
=============================================================================
