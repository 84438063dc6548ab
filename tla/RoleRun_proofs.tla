---------------------------- MODULE RoleRun_proofs ----------------------------
(***************************************************************************)
(* Theorems about role runs (RoleRun), for any chains of backends, number of *)
(* runs, edits of others and kills: where the integrity guard is armed, a    *)
(* judge that returned its result left nothing of its own in the workspace   *)
(* and a pass was earned without touching what was judged; and no fallback   *)
(* writes over landed work.                                                  *)
(*                                                                           *)
(* In the second half, theorems about the inbox of findings (Inbox), for any *)
(* reports, reflections, commands and kills: no finding is lost, and one     *)
(* command at a time the counters are exact.                                 *)
(***************************************************************************)
EXTENDS RoleRun, Inbox, FiniteSetTheorems, FunctionTheorems, SequenceTheorems, WellFoundedInduction, TLAPS

Reqs == [kind : Kinds \cup {"none"}, build : BOOLEAN, chain : Seq(Backends), wt : BOOLEAN, base : BOOLEAN, scratch : BOOLEAN]
Ress == [by : Backends \cup {"none"}, ended : ClaudeEnds \cup CodexEnds, text : {"none", "prose", "pass", "fail"},
         seen : {"none", "ran", "blocked"}, wrote : BOOLEAN]
Outs == [given : {"none", "thrown", "infra", "result", "killed"}, verdict : {"none", "pass", "fail"},
         text : {"none", "prose", "pass", "fail"}, limit : BOOLEAN, turns : BOOLEAN, budget : BOOLEAN,
         empty : BOOLEAN, idle : BOOLEAN]

\* The places before the first session, and those from it to the integrity guard.
Before  == {"baseline", "baseline-run", "provenance", "snapshot", "launch"}
InChain == {"session", "ended", "classify", "again", "asked", "enforce"}

Typed ==
  /\ at \in Before \cup InChain \cup {"idle", "verdict", "teardown"}
  /\ req \in Reqs /\ res \in Ress /\ out \in Outs
  /\ i \in Nat /\ (at \in Before \cup {"session"} => i \in DOMAIN req.chain)
  /\ touched \in BOOLEAN
  /\ count \in [runs : Nat, edits : Nat, kills : Nat]
  /\ at # "idle" => req.kind \in Kinds

\* Every edit is of a run so far, so a new run starts with none of its own.
Dated == \A e \in src \cup tmp \cup before : e[1] \in Nat /\ e[1] <= count.runs

\* Nothing in d was made in the present run by its writer or judge; nothing by a judge.
Fresh(d) == \A e \in d : e[1] = count.runs => e[2] = "other"
Clean(d) == \A e \in d : e[2] = "judge" => e[1] # count.runs

\* What was there when the chain of sessions began has nothing of this run; what is there now is the
\* work of its one role, in its one place.
Placed ==
  /\ at \in Before => Fresh(src) /\ Fresh(tmp)
  /\ at \in InChain => Fresh(before) /\ (req.wt => Fresh(src))
  /\ at \in {"verdict", "teardown"} => (req.wt \/ req.scratch => Clean(src))
  /\ req.wt \/ req.scratch => req.kind # "generator"
  /\ at = "teardown" => req.wt

\* A judge that edited is found out by the guard, if it took its snapshot: the edit is there until then.
Caught ==
  /\ at \in InChain /\ res.wrote => Judge /\ ~Clean(Place)
  /\ at = "verdict" /\ res.wrote /\ req.scratch => touched
  /\ at \in Before => ~res.wrote

\* The result is made at the end only.
Late ==
  /\ at \notin {"idle", "teardown"} => out.given = "none" /\ out.verdict = "none"
  /\ out.verdict = "pass" => out.given = "result"

Inv == Typed /\ Dated /\ Placed /\ Caught /\ Late /\ JudgeLeavesNothing /\ PassIsEarned

-----------------------------------------------------------------------------
(* The operators the steps are made of. *)

LEMMA MinIsIn == ASSUME NEW S, S \subseteq Nat, S # {} PROVE Min(S) \in S
  <1> DEFINE Less == {ss \in Nat \X Nat : ss[1] < ss[2]}
  <1>1. IsWellFoundedOn(Less, Nat)
    BY NatLessThanWellFounded DEF OpToRel
  <1> HIDE DEF Less
  <1>2. PICK x \in S : \A y \in S : ~(<<y, x>> \in Less)
    BY <1>1, WFMin
  <1>3. \A y \in S : x =< y
    <2> SUFFICES ASSUME NEW y \in S, y < x PROVE FALSE
      OBVIOUS
    <2>1. <<y, x>> \in Less
      BY DEF Less
    <2> QED BY <1>2, <2>1
  <1> QED BY <1>3 DEF Min

LEMMA Records ==
  /\ NoReq \in Reqs /\ ~NoReq.wt /\ NoReq.kind = "none"
  /\ NoRes \in Ress /\ ~NoRes.wrote
  /\ NoOut \in Outs /\ NoOut.given = "none" /\ NoOut.verdict = "none"
  <1>1. <<"claude">> \in Seq(Backends)
    BY DEF Backends
  <1> QED BY <1>1 DEF NoReq, Reqs, NoRes, Ress, NoOut, Outs, ClaudeEnds, CodexEnds

\* What a run comes back with, when it is changed in one field.
LEMMA GivenFacts ==
  ASSUME NEW o \in Outs, NEW g \in {"none", "thrown", "infra", "result", "killed"}
  PROVE  LET r == [o EXCEPT !.given = g]
         IN r \in Outs /\ r.given = g /\ r.verdict = o.verdict /\ r.text = o.text
  BY DEF Outs

Flagged(o, b, l, t, e, d) == [o EXCEPT !.budget = b, !.limit = l, !.turns = t, !.empty = e, !.idle = d]

LEMMA FlagFacts ==
  ASSUME NEW o \in Outs, NEW b \in BOOLEAN, NEW l \in BOOLEAN, NEW t \in BOOLEAN, NEW e \in BOOLEAN, NEW d \in BOOLEAN
  PROVE  /\ Flagged(o, b, l, t, e, d) \in Outs
         /\ Flagged(o, b, l, t, e, d).given = o.given
         /\ Flagged(o, b, l, t, e, d).verdict = o.verdict
         /\ Flagged(o, b, l, t, e, d).text = o.text
  <1> DEFINE Same(x) == x \in Outs /\ x.given = o.given /\ x.verdict = o.verdict /\ x.text = o.text
             p == [o EXCEPT !.budget = b]
             q == [p EXCEPT !.limit = l]
             r == [q EXCEPT !.turns = t]
             s == [r EXCEPT !.empty = e]
             z == [s EXCEPT !.idle = d]
  <1>1. Same(p)
    BY DEF Outs
  <1> HIDE DEF p
  <1>2. Same(q)
    BY <1>1 DEF Outs
  <1> HIDE DEF q
  <1>3. Same(r)
    BY <1>2 DEF Outs
  <1> HIDE DEF r
  <1>4. Same(s)
    BY <1>3 DEF Outs
  <1> HIDE DEF s
  <1>5. Same(z)
    BY <1>4 DEF Outs
  <1> QED BY <1>5 DEF p, q, r, s, Flagged

LEMMA ClassifiedFacts ==
  ASSUME Typed
  PROVE  Classified \in Outs /\ Classified.given = "none" /\ Classified.verdict = "none" /\ Classified.text = res.text
  <1> DEFINE o == [NoOut EXCEPT !.text = res.text]
  <1>1. o \in Outs /\ o.given = "none" /\ o.verdict = "none" /\ o.text = res.text
    BY Records DEF Typed, Ress, Outs
  <1> DEFINE b == res.ended = "budget"
             l == IsLimit(res) /\ (req.build \/ ~WorkStands)
             t == res.ended = "turns"
             e == ~req.build /\ Writer /\ Landed /\ res.text = "none" /\ res.ended \in {"empty", "budget"}
             d == ~req.build /\ Writer /\ ~Landed /\ res.ended \in {"ok", "failed", "broken"}
  <1>3. b \in BOOLEAN /\ l \in BOOLEAN /\ t \in BOOLEAN /\ e \in BOOLEAN /\ d \in BOOLEAN
    OBVIOUS
  <1>4. Classified = Flagged(o, b, l, t, e, d)
    BY DEF Classified, Flagged
  <1> HIDE DEF b, l, t, e, d
  <1>5. PICK bb, ll, tt, ee, dd \in BOOLEAN : Classified = Flagged(o, bb, ll, tt, ee, dd)
    BY <1>3, <1>4, Zenon
  <1> HIDE DEF o
  <1>6. bb \in BOOLEAN /\ ll \in BOOLEAN /\ tt \in BOOLEAN /\ ee \in BOOLEAN /\ dd \in BOOLEAN /\ o \in Outs
    BY <1>1, <1>5
  <1>7. /\ Flagged(o, bb, ll, tt, ee, dd) \in Outs
        /\ Flagged(o, bb, ll, tt, ee, dd).given = o.given
        /\ Flagged(o, bb, ll, tt, ee, dd).verdict = o.verdict
        /\ Flagged(o, bb, ll, tt, ee, dd).text = o.text
    BY <1>6, FlagFacts
  <1> QED BY <1>1, <1>5, <1>7

\* The end of a run.
LEMMA LeaveFacts ==
  ASSUME NEW o, Leave(o) PROVE out' = o /\ at' = (IF req.wt THEN "teardown" ELSE "idle")
  BY DEF Leave

LEMMA SetPlaceFacts ==
  ASSUME NEW d, SetPlace(d)
  PROVE  IF req.wt THEN tmp' = d /\ src' = src ELSE src' = d /\ tmp' = tmp
  BY DEF SetPlace

LEMMA TextFacts == \A b, e : Texts(b, e) \subseteq {"none", "prose", "pass", "fail"}
  BY DEF Texts

LEMMA EndsFacts == \A b : Ends(b) \subseteq ClaudeEnds \cup CodexEnds
  BY DEF Ends

LEMMA MineFacts == \A w : Mine(w)[1] = count.runs /\ Mine(w)[2] = w
  BY DEF Mine

-----------------------------------------------------------------------------
(* The start. *)

LEMMA InitInv == Init => Inv
  <1> SUFFICES ASSUME Init PROVE Inv
    OBVIOUS
  <1>1. /\ at = "idle" /\ req = NoReq /\ i = 0 /\ res = NoRes /\ out = NoOut /\ src = {} /\ tmp = {} /\ before = {}
        /\ touched = FALSE /\ count = [runs |-> 0, edits |-> 0, kills |-> 0]
    BY DEF Init
  <1>2. Typed /\ Dated
    BY <1>1, Records DEF Typed, Dated, Before
  <1> QED BY <1>1, <1>2, Records DEF Inv, Placed, Caught, Late, JudgeLeavesNothing, PassIsEarned, Before, InChain

LEMMA BeginInv == ASSUME Inv, NEW r \in Reqs, r.kind \in Kinds, r.chain # <<>>, r.wt \/ r.scratch => r.kind # "generator", Begin(r) PROVE Inv'
  <1>1. /\ req' = r /\ at' \in {"baseline", "launch", "provenance"} /\ i' = 1 /\ res' = NoRes /\ out' = NoOut
        /\ touched' = FALSE /\ count' = [count EXCEPT !.runs = @ + 1] /\ UNCHANGED <<src, tmp, trees, before>>
    BY DEF Begin
  <1>2. count' \in [runs : Nat, edits : Nat, kills : Nat] /\ count'.runs = count.runs + 1 /\ count.runs \in Nat
    <2>1. count \in [runs : Nat, edits : Nat, kills : Nat]
      BY DEF Inv, Typed
    <2> DEFINE n == count.runs + 1
    <2>2. n \in Nat /\ count' = [count EXCEPT !.runs = n]
      BY <1>1, <2>1
    <2> HIDE DEF n
    <2> QED BY <2>1, <2>2 DEF n
  <1>3. Typed'
    <2>1. 1 \in DOMAIN r.chain
      BY DEF Reqs
    <2> QED BY <1>1, <1>2, <2>1, Records DEF Inv, Typed, Before, InChain
  <1>5. Dated'
    BY <1>1, <1>2 DEF Inv, Dated
  <1>4. Fresh(src)' /\ Fresh(tmp)'
    BY <1>1, <1>2 DEF Inv, Dated, Fresh
  <1> QED BY <1>1, <1>3, <1>4, <1>5, Records
        DEF Inv, Placed, Caught, Late, JudgeLeavesNothing, PassIsEarned, Before, InChain

LEMMA AskInv == ASSUME Inv, AskRole \/ AskGenerator \/ AskEvaluator PROVE Inv'
  <1>1. \A c \in Chains : c \in Seq(Backends) /\ c # <<>>
    BY RoleChains
  <1>2. CASE AskRole
    <2>1. PICK kk \in Kinds, c \in Chains, wt \in BOOLEAN, base \in BOOLEAN, scratch \in BOOLEAN :
            /\ wt => MayHaveTree(kk)
            /\ scratch => kk # "generator"
            /\ Begin([kind |-> kk, build |-> FALSE, chain |-> c, wt |-> wt, base |-> base, scratch |-> scratch])
      BY <1>2 DEF AskRole
    <2> DEFINE r == [kind |-> kk, build |-> FALSE, chain |-> c, wt |-> wt, base |-> base, scratch |-> scratch]
    <2>2. r \in Reqs /\ r.kind \in Kinds /\ r.chain # <<>> /\ (r.wt \/ r.scratch => r.kind # "generator") /\ Begin(r)
      BY <1>1, <2>1 DEF Reqs, MayHaveTree
    <2> HIDE DEF r
    <2> QED BY <2>2, BeginInv
  <1>3. CASE AskGenerator \/ AskEvaluator
    <2>1. PICK kk \in Kinds, c \in Chains, scratch \in BOOLEAN :
            /\ scratch => kk # "generator"
            /\ Begin([kind |-> kk, build |-> TRUE, chain |-> c, wt |-> FALSE, base |-> FALSE, scratch |-> scratch])
      BY <1>3 DEF AskGenerator, AskEvaluator, AskItem, Kinds
    <2> DEFINE r == [kind |-> kk, build |-> TRUE, chain |-> c, wt |-> FALSE, base |-> FALSE, scratch |-> scratch]
    <2>2. r \in Reqs /\ r.kind \in Kinds /\ r.chain # <<>> /\ (r.wt \/ r.scratch => r.kind # "generator") /\ Begin(r)
      BY <1>1, <2>1 DEF Reqs
    <2> HIDE DEF r
    <2> QED BY <2>2, BeginInv
  <1> QED BY <1>2, <1>3

-----------------------------------------------------------------------------
(* Before the first session. *)

LEMMA BeforeInv == ASSUME Inv, Baseline \/ BaselineRun \/ Provenance \/ Snapshot \/ TaskFails PROVE Inv'
  <1>1. /\ at \in Before /\ UNCHANGED <<req, i, limited, res, src, before, touched, count>>
        /\ tmp' = tmp \/ tmp' = src
    BY DEF Baseline, BaselineRun, Provenance, Snapshot, TaskFails, Before
  <1>2. \/ at' \in Before /\ out' = out
        \/ at' \in {"idle", "teardown"} /\ (at' = "teardown" => req.wt) /\ out' = [NoOut EXCEPT !.given = "thrown"]
    BY LeaveFacts DEF Baseline, BaselineRun, Provenance, Snapshot, TaskFails, Before
  <1>3. out' \in Outs /\ out'.verdict = "none" /\ out'.given # "result" /\ (at' \in Before => out'.given = "none")
    <2> DEFINE o == [NoOut EXCEPT !.given = "thrown"]
    <2>1. o \in Outs /\ o.verdict = "none" /\ o.given = "thrown"
      BY Records, GivenFacts
    <2> HIDE DEF o
    <2>2. (at' \in Before /\ out' = out) \/ (at' \notin Before /\ out' = o)
      BY <1>2 DEF o, Before
    <2>3. out \in Outs /\ out.verdict = "none" /\ out.given = "none"
      BY <1>1 DEF Inv, Typed, Late, Before
    <2> QED BY <2>1, <2>2, <2>3
  <1>4. Fresh(src) /\ Fresh(tmp) /\ Clean(src)
    BY <1>1 DEF Inv, Placed, Fresh, Clean
  <1>5. Typed' /\ Dated'
    BY <1>1, <1>2, <1>3 DEF Inv, Typed, Dated, Before, InChain
  <1>6. Placed'
    BY <1>1, <1>2, <1>4 DEF Inv, Placed, Fresh, Clean, Before, InChain, Writer
  <1>7. Clean(src)'
    BY <1>1, <1>4 DEF Clean
  <1>8. JudgeLeavesNothing' /\ PassIsEarned'
    BY <1>3, <1>7 DEF JudgeLeavesNothing, PassIsEarned, Clean
  <1> QED BY <1>1, <1>2, <1>3, <1>5, <1>6, <1>8 DEF Inv, Caught, Late, Before, InChain

LEMMA LaunchInv == ASSUME Inv, Launch PROVE Inv'
  <1>1. at = "launch" /\ at' = "session" /\ before' = Place
        /\ UNCHANGED <<req, i, limited, res, out, src, tmp, trees, touched, count>>
    BY DEF Launch
  <1>2. Fresh(src) /\ Fresh(tmp) /\ Fresh(Place) /\ Clean(Place)
    BY <1>1 DEF Inv, Placed, Fresh, Clean, Before, Place
  <1>4. Typed' /\ Dated'
    BY <1>1 DEF Inv, Typed, Dated, Before, InChain, Place
  <1> QED BY <1>1, <1>2, <1>4
        DEF Inv, Placed, Fresh, Clean, Place, Writer, Caught, Late, JudgeLeavesNothing, PassIsEarned, Before, InChain

-----------------------------------------------------------------------------
(* The chain of sessions: what its one role edits stays in its one place. *)

LEMMA EditsFacts ==
  ASSUME Inv, at \in InChain, NEW edits \in BOOLEAN,
         IF edits THEN SetPlace(Place \cup {Mine(IF Writer THEN "writer" ELSE "judge")}) ELSE UNCHANGED <<src, tmp>>,
         UNCHANGED <<req, count, before>>
  PROVE  /\ Dated'
         /\ Fresh(before)' /\ (req.wt => Fresh(src)')
         /\ res.wrote \/ (edits /\ Judge) => Judge /\ ~(Clean(Place)')
  <1> DEFINE m == Mine(IF Writer THEN "writer" ELSE "judge")
  <1>1. m[1] = count.runs /\ m[2] = (IF Writer THEN "writer" ELSE "judge")
    BY MineFacts
  <1>2. count.runs \in Nat
    BY DEF Inv, Typed
  <1> HIDE DEF m
  <1>3. IF edits THEN SetPlace(Place \cup {m}) ELSE UNCHANGED <<src, tmp>>
    BY DEF m
  <1>4. /\ src' \subseteq src \cup {m} /\ tmp' \subseteq tmp \cup {m} /\ (req.wt => src' = src)
        /\ Place' = (IF edits THEN Place \cup {m} ELSE Place)
    BY <1>3 DEF SetPlace, Place
  <1>5. Fresh(before) /\ (req.wt => Fresh(src))
    BY DEF Inv, Placed
  <1>6. Dated'
    BY <1>1, <1>2, <1>4 DEF Inv, Dated
  <1>7. Fresh(before)' /\ (req.wt => Fresh(src)')
    BY <1>4, <1>5 DEF Fresh
  <1>8. res.wrote \/ (edits /\ Judge) => Judge /\ ~(Clean(Place)')
    BY <1>1, <1>4 DEF Inv, Caught, Clean, Judge, Writer
  <1> QED BY <1>6, <1>7, <1>8

\* A step of the chain that leaves it with no verdict, or goes on in it.
LEMMA ChainInv ==
  ASSUME Inv, at \in InChain, at' \in InChain \cup {"idle", "teardown"},
         Dated', Fresh(before)', req.wt => Fresh(src)',
         res' \in Ress, res'.wrote => Judge /\ ~(Clean(Place)'),
         out' \in Outs, out'.verdict = "none", at' \in InChain => out'.given = "none",
         at' = "teardown" => req.wt, at' = "idle" => ~req.wt /\ (out'.given # "result" \/ ~req.scratch),
         i' \in Nat, at' = "session" => i' \in DOMAIN req.chain,
         UNCHANGED <<req, touched, count>>
  PROVE  Inv'
  <1>1. Typed'
    BY DEF Inv, Typed, Before, InChain
  <1>2. Placed'
    BY DEF Inv, Placed, Fresh, Clean, Writer, Before, InChain
  <1>3. Caught' /\ Late'
    BY DEF Caught, Late, Judge, Before, InChain
  <1>4. JudgeLeavesNothing' /\ PassIsEarned'
    BY DEF JudgeLeavesNothing, PassIsEarned, Clean
  <1> QED BY <1>1, <1>2, <1>3, <1>4 DEF Inv

LEMMA StillFacts ==
  ASSUME Inv, at \in InChain, UNCHANGED <<req, res, src, tmp, before, count>>
  PROVE  /\ Dated' /\ Fresh(before)' /\ (req.wt => Fresh(src)')
         /\ res' \in Ress /\ (res'.wrote => Judge /\ ~(Clean(Place)'))
  BY DEF Inv, Typed, Dated, Placed, Caught, Fresh, Clean, Place, Writer, Judge

LEMMA ThrownFacts == LET o == [NoOut EXCEPT !.given = "thrown"] IN o \in Outs /\ o.verdict = "none" /\ o.given = "thrown"
  BY Records, GivenFacts

LEMMA SessionInv == ASSUME Inv, Session PROVE Inv'
  <1>1. /\ at = "session" /\ at \in InChain /\ UNCHANGED <<req, i, limited, trees, before, touched, count>>
        /\ i \in DOMAIN req.chain /\ req.chain[i] \in Backends /\ i \in Nat
    BY DEF Session, InChain, Inv, Typed, Reqs
  <1>2. PICK e \in Ends(req.chain[i]) : \E t \in Texts(req.chain[i], e), edits \in BOOLEAN, seen \in {"none", "ran", "blocked"} :
          /\ res' = [by |-> req.chain[i], ended |-> e, text |-> t, seen |-> IF res.seen # "none" THEN res.seen ELSE seen,
                     wrote |-> res.wrote \/ (edits /\ Judge)]
          /\ IF edits THEN SetPlace(Place \cup {Mine(IF Writer THEN "writer" ELSE "judge")}) ELSE UNCHANGED <<src, tmp>>
          /\ IF e = "throws" THEN Leave([NoOut EXCEPT !.given = "thrown"]) ELSE at' = "ended" /\ UNCHANGED out
    BY DEF Session
  <1>22. PICK t \in Texts(req.chain[i], e), edits \in BOOLEAN, seen \in {"none", "ran", "blocked"} :
          /\ res' = [by |-> req.chain[i], ended |-> e, text |-> t, seen |-> IF res.seen # "none" THEN res.seen ELSE seen,
                     wrote |-> res.wrote \/ (edits /\ Judge)]
          /\ IF edits THEN SetPlace(Place \cup {Mine(IF Writer THEN "writer" ELSE "judge")}) ELSE UNCHANGED <<src, tmp>>
          /\ IF e = "throws" THEN Leave([NoOut EXCEPT !.given = "thrown"]) ELSE at' = "ended" /\ UNCHANGED out
    BY <1>2
  <1> DEFINE wr == res.wrote \/ (edits /\ Judge)
             se == IF res.seen # "none" THEN res.seen ELSE seen
  <1>3. e \in ClaudeEnds \cup CodexEnds /\ t \in {"none", "prose", "pass", "fail"} /\ se \in {"none", "ran", "blocked"} /\ wr \in BOOLEAN
    BY <1>22, EndsFacts, TextFacts DEF Inv, Typed, Ress
  <1>4. res' = [by |-> req.chain[i], ended |-> e, text |-> t, seen |-> se, wrote |-> wr]
    BY <1>22
  <1>5. /\ Dated'
        /\ Fresh(before)' /\ (req.wt => Fresh(src)')
        /\ wr => Judge /\ ~(Clean(Place)')
    BY <1>1, <1>22, EditsFacts
  <1> HIDE DEF wr, se
  <1>6. res' \in Ress /\ res'.wrote = wr
    BY <1>1, <1>3, <1>4 DEF Ress
  <1>7. \/ at' = "ended" /\ out' = out
        \/ at' = (IF req.wt THEN "teardown" ELSE "idle") /\ out' = [NoOut EXCEPT !.given = "thrown"]
    BY <1>22, LeaveFacts
  <1>8. /\ out' \in Outs /\ out'.verdict = "none" /\ (at' \in InChain => out'.given = "none")
        /\ at' \in {"ended", "idle", "teardown"} /\ (at' = "teardown" => req.wt) /\ (at' = "idle" => ~req.wt /\ out'.given # "result")
    <2> DEFINE o == [NoOut EXCEPT !.given = "thrown"]
    <2>1. o \in Outs /\ o.verdict = "none" /\ o.given = "thrown"
      BY ThrownFacts
    <2> HIDE DEF o
    <2> QED BY <1>1, <1>7, <2>1 DEF o, Inv, Typed, Late, InChain
  <1>9. at' \in InChain \cup {"idle", "teardown"} /\ at' # "session"
    BY <1>8 DEF InChain
  <1> QED BY <1>1, <1>5, <1>6, <1>8, <1>9, ChainInv

LEMMA FallBackInv == ASSUME Inv, FallBack \/ Ended PROVE Inv'
  <1>1. /\ at = "ended" /\ at \in InChain /\ UNCHANGED <<req, res, out, src, tmp, trees, before, touched, count>>
        /\ i \in Nat /\ out \in Outs /\ out.given = "none" /\ out.verdict = "none"
    BY DEF FallBack, Ended, InChain, Inv, Typed, Late
  <1>2. at' \in {"session", "classify"} /\ i' \in Nat /\ (at' = "session" => i' \in DOMAIN req.chain)
    <2>1. CASE Ended
      BY <1>1, <2>1 DEF Ended
    <2>2. CASE FallBack
      <3> DEFINE rest == {j \in i + 1 .. Len(req.chain) : req.chain[j] \notin limited'}
      <3>1. IF rest = {} THEN at' = "classify" /\ UNCHANGED i ELSE at' = "session" /\ i' = Min(rest)
        BY <2>2 DEF FallBack
      <3>2. req.chain \in Seq(Backends) /\ Len(req.chain) \in Nat
        BY DEF Inv, Typed, Reqs
      <3>3. rest \subseteq Nat /\ rest \subseteq DOMAIN req.chain
        BY <1>1, <3>2
      <3> HIDE DEF rest
      <3> QED BY <1>1, <3>1, <3>3, MinIsIn
    <2> QED BY <2>1, <2>2
  <1>3. /\ Dated' /\ Fresh(before)' /\ (req.wt => Fresh(src)')
        /\ res' \in Ress /\ (res'.wrote => Judge /\ ~(Clean(Place)'))
    BY <1>1, StillFacts
  <1>4. at' \in InChain \cup {"idle", "teardown"} /\ at' \notin {"idle", "teardown"}
    BY <1>2 DEF InChain
  <1> QED BY <1>1, <1>2, <1>3, <1>4, ChainInv

LEMMA ClassifyInv == ASSUME Inv, Classify PROVE Inv'
  <1>1. /\ at = "classify" /\ at \in InChain /\ UNCHANGED <<req, i, limited, res, src, tmp, trees, before, touched, count>>
        /\ i \in Nat /\ Typed
    BY DEF Classify, InChain, Inv, Typed
  <1> DEFINE c == Classified
             f == [c EXCEPT !.given = "infra"]
  <1>2. c \in Outs /\ c.given = "none" /\ c.verdict = "none"
    BY <1>1, ClassifiedFacts
  <1>3. \/ at' \in {"again", "asked"} /\ out' = c
        \/ at' = (IF req.wt THEN "teardown" ELSE "idle") /\ out' = f
    BY LeaveFacts DEF Classify
  <1> HIDE DEF c
  <1>4. f \in Outs /\ f.given = "infra" /\ f.verdict = "none"
    BY <1>2, GivenFacts
  <1> HIDE DEF f
  <1>5. /\ out' \in Outs /\ out'.verdict = "none" /\ (at' \in InChain => out'.given = "none")
        /\ at' \in InChain \cup {"idle", "teardown"} /\ at' # "session"
        /\ (at' = "teardown" => req.wt) /\ (at' = "idle" => ~req.wt /\ out'.given # "result")
    BY <1>2, <1>3, <1>4 DEF InChain
  <1>6. /\ Dated' /\ Fresh(before)' /\ (req.wt => Fresh(src)')
        /\ res' \in Ress /\ (res'.wrote => Judge /\ ~(Clean(Place)'))
    BY <1>1, StillFacts
  <1> QED BY <1>1, <1>5, <1>6, ChainInv

LEMMA AgainInv == ASSUME Inv, Again PROVE Inv'
  <1>1. /\ at = "again" /\ at \in InChain /\ UNCHANGED <<req, i, limited, trees, before, touched, count>> /\ i \in Nat
        /\ out \in Outs /\ out.given = "none" /\ out.verdict = "none" /\ res \in Ress
    BY DEF Again, InChain, Inv, Typed, Late
  <1>2. PICK e \in Ends(res.by), edits \in BOOLEAN : \E t \in Texts(res.by, e) :
          /\ edits => MayEditAgain
          /\ IF edits THEN SetPlace(Place \cup {Mine(IF Writer THEN "writer" ELSE "judge")}) ELSE UNCHANGED <<src, tmp>>
          /\ res' = [res EXCEPT !.wrote = @ \/ (edits /\ Judge)]
          /\ IF e = "throws" THEN Leave([NoOut EXCEPT !.given = "thrown"])
             ELSE /\ at' = "asked"
                  /\ out' = IF Usable(e, t) THEN [out EXCEPT !.text = t, !.empty = FALSE] ELSE out
    BY DEF Again
  <1>3. PICK t \in Texts(res.by, e) :
          /\ edits => MayEditAgain
          /\ IF edits THEN SetPlace(Place \cup {Mine(IF Writer THEN "writer" ELSE "judge")}) ELSE UNCHANGED <<src, tmp>>
          /\ res' = [res EXCEPT !.wrote = @ \/ (edits /\ Judge)]
          /\ IF e = "throws" THEN Leave([NoOut EXCEPT !.given = "thrown"])
             ELSE /\ at' = "asked"
                  /\ out' = IF Usable(e, t) THEN [out EXCEPT !.text = t, !.empty = FALSE] ELSE out
    BY <1>2
  <1> DEFINE wr == res.wrote \/ (edits /\ Judge)
  <1>5. /\ Dated'
        /\ Fresh(before)' /\ (req.wt => Fresh(src)')
        /\ wr => Judge /\ ~(Clean(Place)')
    BY <1>1, <1>3, EditsFacts
  <1>6. wr \in BOOLEAN /\ res' = [res EXCEPT !.wrote = wr]
    BY <1>1, <1>3 DEF Ress
  <1> HIDE DEF wr
  <1>7. res' \in Ress /\ res'.wrote = wr
    BY <1>1, <1>6 DEF Ress
  <1> DEFINE o == [NoOut EXCEPT !.given = "thrown"]
             r == [out EXCEPT !.text = t, !.empty = FALSE]
  <1>8. o \in Outs /\ o.verdict = "none" /\ o.given = "thrown"
    BY ThrownFacts
  <1>9. r \in Outs /\ r.verdict = "none" /\ r.given = "none"
    <2>1. t \in {"none", "prose", "pass", "fail"}
      BY <1>3, TextFacts
    <2> QED BY <1>1, <2>1 DEF Outs
  <1>10. \/ at' = (IF req.wt THEN "teardown" ELSE "idle") /\ out' = o
         \/ at' = "asked" /\ out' \in {out, r}
    BY <1>3, LeaveFacts
  <1> HIDE DEF o, r
  <1>11. /\ out' \in Outs /\ out'.verdict = "none" /\ (at' \in InChain => out'.given = "none")
         /\ at' \in InChain \cup {"idle", "teardown"} /\ at' # "session"
         /\ (at' = "teardown" => req.wt) /\ (at' = "idle" => ~req.wt /\ out'.given # "result")
    BY <1>1, <1>8, <1>9, <1>10 DEF InChain
  <1> QED BY <1>1, <1>5, <1>7, <1>11, ChainInv

LEMMA AskedInv == ASSUME Inv, Asked PROVE Inv'
  <1>1. /\ at = "asked" /\ at \in InChain /\ UNCHANGED <<req, i, limited, res, src, tmp, trees, before, touched, count>>
        /\ i \in Nat /\ out \in Outs /\ out.given = "none" /\ out.verdict = "none"
        /\ req.kind \in Kinds /\ (req.wt \/ req.scratch => req.kind # "generator")
    BY DEF Asked, InChain, Inv, Typed, Late, Placed
  <1> DEFINE f == [out EXCEPT !.given = "infra"]
             g == [out EXCEPT !.given = "result"]
  <1>2. f \in Outs /\ f.verdict = "none" /\ f.given = "infra" /\ g \in Outs /\ g.verdict = "none" /\ g.given = "result"
    BY <1>1, GivenFacts
  <1>3. \/ at' = (IF req.wt THEN "teardown" ELSE "idle") /\ out' = f
        \/ at' = "enforce" /\ out' = out
        \/ ~Judge /\ at' = (IF req.wt THEN "teardown" ELSE "idle") /\ out' = g
    BY LeaveFacts DEF Asked
  <1> HIDE DEF f, g
  <1>4. /\ Dated' /\ Fresh(before)' /\ (req.wt => Fresh(src)')
        /\ res' \in Ress /\ (res'.wrote => Judge /\ ~(Clean(Place)'))
    BY <1>1, StillFacts
  <1>5. /\ out' \in Outs /\ out'.verdict = "none" /\ (at' \in InChain => out'.given = "none")
        /\ at' \in InChain \cup {"idle", "teardown"} /\ at' # "session" /\ (at' = "teardown" => req.wt)
    BY <1>1, <1>2, <1>3 DEF InChain
  <1>6. at' = "idle" => ~req.wt /\ (out'.given # "result" \/ ~req.scratch)
    <2>1. ~Judge => ~req.scratch
      BY <1>1 DEF Judge, Kinds
    <2> QED BY <1>1, <1>2, <1>3, <2>1
  <1> QED BY <1>1, <1>4, <1>5, <1>6, ChainInv

-----------------------------------------------------------------------------
(* The verdict, and the end. *)

LEMMA EnforceInv == ASSUME Inv, Enforce PROVE Inv'
  <1> DEFINE d == IF req.scratch THEN before ELSE Place
  <1>1. /\ at = "enforce" /\ at' = "verdict" /\ SetPlace(d) /\ touched' = (req.scratch /\ Place # before)
        /\ UNCHANGED <<req, i, limited, res, out, trees, before, count>>
    BY DEF Enforce
  <1>2. IF req.wt THEN src' = src ELSE src' = d
    BY <1>1, SetPlaceFacts
  <1>3. tmp' \in {tmp, d} /\ src' \in {src, d}
    BY <1>1, SetPlaceFacts
  <1>4. Fresh(before) /\ (req.wt => Fresh(src)) /\ (res.wrote => ~Clean(Place))
    BY <1>1 DEF Inv, Placed, Caught, InChain
  <1>5. req.wt \/ req.scratch => Clean(src)'
    <2>1. CASE req.wt
      BY <1>1, <1>2, <1>4, <2>1 DEF Fresh, Clean
    <2>2. CASE ~req.wt /\ req.scratch
      BY <1>1, <1>2, <1>4, <2>2 DEF Fresh, Clean
    <2> QED BY <2>1, <2>2
  <1>6. (res.wrote /\ req.scratch => touched)'
    BY <1>1, <1>4 DEF Fresh, Clean
  <1>7. Dated'
    BY <1>1, <1>3 DEF Inv, Dated, Place
  <1>8. Typed'
    BY <1>1 DEF Inv, Typed, Before, InChain
  <1>9. Placed' /\ Caught' /\ Late'
    BY <1>1, <1>5, <1>6 DEF Inv, Placed, Caught, Late, Before, InChain
  <1> QED BY <1>1, <1>7, <1>8, <1>9 DEF Inv, JudgeLeavesNothing, PassIsEarned

LEMMA VerdictFacts ==
  ASSUME Typed
  PROVE  /\ Verdict \in {"none", "pass", "fail"}
         /\ Verdict = "pass" => ~touched /\ out.text = "pass" /\ res.seen # "blocked"
  <1>1. \A t : Parsed(t) \in {"pass", "fail"} /\ (Parsed(t) = "pass" => t = "pass" /\ res.seen # "blocked")
    BY DEF Parsed
  <1>2. \A t : Graded(t) \in {"pass", "fail"} /\ (Graded(t) = "pass" => t = "pass" /\ res.seen # "blocked")
    BY <1>1 DEF Graded
  <1>3. touched \in BOOLEAN /\ req.build \in BOOLEAN
    BY DEF Typed, Reqs
  <1>4. CASE req.kind # "evaluator"
    <2>1. Verdict = "none"
      BY <1>4 DEF Verdict
    <2> QED BY <2>1
  <1>5. CASE req.kind = "evaluator" /\ touched
    <2>1. Verdict = "fail"
      BY <1>5 DEF Verdict
    <2> QED BY <2>1
  <1>6. CASE req.kind = "evaluator" /\ ~touched /\ req.build
    <2>1. Verdict = Graded(out.text)
      BY <1>6 DEF Verdict
    <2> QED BY <1>2, <1>6, <2>1
  <1>7. CASE req.kind = "evaluator" /\ ~touched /\ ~req.build
    <2>1. Verdict = Parsed(out.text)
      BY <1>7 DEF Verdict
    <2> QED BY <1>1, <1>7, <2>1
  <1> QED BY <1>3, <1>4, <1>5, <1>6, <1>7

LEMMA ConcludeInv == ASSUME Inv, Conclude PROVE Inv'
  <1> DEFINE v == Verdict
             g == [out EXCEPT !.given = "result"]
             o == [g EXCEPT !.verdict = v]
  <1>1. /\ at = "verdict" /\ out' = o /\ at' = (IF req.wt THEN "teardown" ELSE "idle")
        /\ UNCHANGED <<req, i, limited, res, src, tmp, trees, before, touched, count>>
        /\ out \in Outs /\ Typed
    BY LeaveFacts DEF Conclude, Inv, Typed, Outs
  <1>2. v \in {"none", "pass", "fail"} /\ (v = "pass" => ~touched /\ out.text = "pass" /\ res.seen # "blocked")
    BY <1>1, VerdictFacts
  <1> HIDE DEF v
  <1>3. g \in Outs /\ g.given = "result" /\ g.text = out.text
    BY <1>1, GivenFacts
  <1> HIDE DEF g
  <1>4. o \in Outs /\ o.given = "result" /\ o.text = out.text /\ o.verdict = v
    BY <1>2, <1>3 DEF Outs
  <1> HIDE DEF o
  <1>5. (req.wt \/ req.scratch => Clean(src)') /\ (res.wrote /\ req.scratch => touched)
    BY <1>1 DEF Inv, Placed, Caught, Clean
  <1>6. Typed' /\ Dated'
    BY <1>1, <1>4 DEF Inv, Typed, Dated, Before, InChain
  <1>7. Placed' /\ Caught' /\ Late'
    BY <1>1, <1>4, <1>5 DEF Inv, Placed, Caught, Late, Before, InChain
  <1>8. JudgeLeavesNothing' /\ PassIsEarned'
    BY <1>1, <1>2, <1>4, <1>5 DEF Inv, Typed, Ress, JudgeLeavesNothing, PassIsEarned, Clean
  <1> QED BY <1>6, <1>7, <1>8 DEF Inv

LEMMA TeardownInv == ASSUME Inv, Teardown PROVE Inv'
  <1>1. at = "teardown" /\ at' = "idle" /\ tmp' = {} /\ UNCHANGED <<req, i, limited, res, out, src, before, touched, count>>
    BY DEF Teardown
  <1>2. Clean(src)'
    BY <1>1 DEF Inv, Placed, Clean
  <1>3. Typed' /\ Dated'
    BY <1>1 DEF Inv, Typed, Dated, Before, InChain
  <1> QED BY <1>1, <1>2, <1>3
        DEF Inv, Placed, Caught, Late, JudgeLeavesNothing, PassIsEarned, Clean, Before, InChain

\* Counting what others did, which no part of the invariant reads.
LEMMA CountFacts ==
  ASSUME NEW c \in [runs : Nat, edits : Nat, kills : Nat], NEW f \in {"edits", "kills"}
  PROVE  LET d == [c EXCEPT ![f] = @ + 1] IN d \in [runs : Nat, edits : Nat, kills : Nat] /\ d.runs = c.runs
  <1> DEFINE n == c[f] + 1
  <1>1. n \in Nat
    OBVIOUS
  <1> HIDE DEF n
  <1>2. [c EXCEPT ![f] = n] \in [runs : Nat, edits : Nat, kills : Nat] /\ [c EXCEPT ![f] = n].runs = c.runs
    BY <1>1
  <1> QED BY <1>2 DEF n

LEMMA EditInv == ASSUME Inv, Edit PROVE Inv'
  <1> DEFINE m == <<count.runs, "other", 0>>
             n == count.edits + 1
  <1>1. /\ at # "idle" /\ src' = src \cup {m} /\ count' = [count EXCEPT !.edits = n]
        /\ UNCHANGED <<at, req, i, limited, res, out, tmp, trees, before, touched>>
        /\ count \in [runs : Nat, edits : Nat, kills : Nat] /\ n \in Nat
    BY DEF Edit, Inv, Typed
  <1>2. m[1] = count.runs /\ m[2] = "other"
    OBVIOUS
  <1> HIDE DEF m, n
  <1>3. count' \in [runs : Nat, edits : Nat, kills : Nat] /\ count'.runs = count.runs /\ count.runs \in Nat
    BY <1>1
  <1>4. Typed'
    BY <1>1, <1>3 DEF Inv, Typed
  <1>5. Dated'
    BY <1>1, <1>2, <1>3 DEF Inv, Dated
  <1>6. /\ Fresh(src) => Fresh(src)'
        /\ Fresh(tmp) => Fresh(tmp)'
        /\ Fresh(before) => Fresh(before)'
    BY <1>1, <1>2, <1>3 DEF Fresh
  <1>7. /\ Clean(src) => Clean(src)'
        /\ Clean(Place) <=> Clean(Place)'
    BY <1>1, <1>2, <1>3 DEF Clean, Place
  <1>8. Placed'
    BY <1>1, <1>6, <1>7 DEF Inv, Placed, Writer
  <1>9. Caught'
    BY <1>1, <1>7 DEF Inv, Caught, Judge
  <1> QED BY <1>1, <1>4, <1>5, <1>8, <1>9 DEF Inv, Late, JudgeLeavesNothing, PassIsEarned

LEMMA KillInv == ASSUME Inv, Kill PROVE Inv'
  <1> DEFINE n == count.kills + 1
             o == [NoOut EXCEPT !.given = "killed"]
  <1>1. /\ at' = "idle" /\ out' = o /\ count' = [count EXCEPT !.kills = n] /\ tmp' = {} /\ before' = {} /\ res' = NoRes
        /\ UNCHANGED <<req, i, src, trees, touched>>
        /\ count \in [runs : Nat, edits : Nat, kills : Nat] /\ n \in Nat
    BY DEF Kill, Inv, Typed
  <1>2. o \in Outs /\ o.given = "killed" /\ o.verdict = "none"
    BY Records, GivenFacts
  <1> HIDE DEF n, o
  <1>3. count' \in [runs : Nat, edits : Nat, kills : Nat] /\ count'.runs = count.runs /\ count.runs \in Nat
    BY <1>1
  <1>4. Typed' /\ Dated'
    BY <1>1, <1>2, <1>3, Records DEF Inv, Typed, Dated, Before, InChain
  <1>5. req.wt => Clean(src)'
    <2>1. at \in Before \cup InChain \cup {"verdict", "teardown"}
      BY DEF Kill, Inv, Typed
    <2>2. req.wt => Clean(src)
      BY <2>1 DEF Inv, Placed, Fresh, Clean
    <2> QED BY <1>1, <1>3, <2>2 DEF Clean
  <1>6. Placed' /\ Caught' /\ Late'
    BY <1>1, <1>2 DEF Inv, Placed, Caught, Late, Before, InChain
  <1>7. JudgeLeavesNothing' /\ PassIsEarned'
    BY <1>1, <1>2, <1>5 DEF JudgeLeavesNothing, PassIsEarned, Clean
  <1> QED BY <1>4, <1>6, <1>7 DEF Inv

LEMMA NextInv == Inv /\ [Next]_vars => Inv'
  <1> SUFFICES ASSUME Inv, [Next]_vars PROVE Inv'
    OBVIOUS
  <1>1. CASE AskRole \/ AskGenerator \/ AskEvaluator
    BY <1>1, AskInv
  <1>2. CASE Baseline \/ BaselineRun \/ Provenance \/ Snapshot \/ TaskFails
    BY <1>2, BeforeInv
  <1>3. CASE Launch \/ Session \/ FallBack \/ Ended
    BY <1>3, LaunchInv, SessionInv, FallBackInv
  <1>4. CASE Classify \/ Again \/ Asked
    BY <1>4, ClassifyInv, AgainInv, AskedInv
  <1>5. CASE Enforce \/ Conclude \/ Teardown
    BY <1>5, EnforceInv, ConcludeInv, TeardownInv
  <1>6. CASE Edit \/ Kill
    BY <1>6, EditInv, KillInv
  <1>7. CASE UNCHANGED vars
    <2>1. UNCHANGED <<at, req, i, limited, res, out, src, tmp, trees, before, touched, count>>
      BY <1>7 DEF vars
    <2> QED BY <2>1 DEF Inv, Typed, Dated, Fresh, Clean, Place, Placed, Caught, Late, Writer, Judge,
                        JudgeLeavesNothing, PassIsEarned
  <1> QED BY <1>1, <1>2, <1>3, <1>4, <1>5, <1>6, <1>7 DEF Next, Step

\* So it holds always.
LEMMA Invariance == Spec => []Inv
  <1> QED BY InitInv, NextInv, PTL DEF Spec

-----------------------------------------------------------------------------
(* What the invariant gives. *)

\* Where the guard took its snapshot, once a judge's run came back with its verdict or critique, nothing a judge
\* edited in that run is in the workspace, and in a throwaway worktree whatever became of the run, for any chain
\* of backends (snapshotArtifact, enforceArtifactIntegrity and addWipWorktree).
THEOREM JudgesLeaveNothing == Spec => []JudgeLeavesNothing
  <1>1. Inv => JudgeLeavesNothing
    BY DEF Inv
  <1> QED BY <1>1, Invariance, PTL

\* A pass rests on a verdict in the text, an exercise not seen blocked and, where the guard took its snapshot,
\* a judge that edited nothing in any session of its run (parseVerdict, evaluateItem and the integrity guard).
THEOREM PassesAreEarned == Spec => []PassIsEarned
  <1>1. Inv => PassIsEarned
    BY DEF Inv
  <1> QED BY <1>1, Invariance, PTL

\* No fallback writes over the work of a generator whose session came back empty (runRoleInPlace).
THEOREM WorkIsNotOverwritten == Spec => NoSecondWriter
  <1> DEFINE A == Writer /\ at = "ended" /\ at' = "session" /\ res.ended = "empty"
                    => \A e \in src : e[2] = "writer" => e[1] # count.runs
  <1>1. Inv /\ [Next]_vars => [A]_vars
    <2> SUFFICES ASSUME Inv, Next, Writer, at = "ended", at' = "session", res.ended = "empty"
                 PROVE \A e \in src : e[2] = "writer" => e[1] # count.runs
      OBVIOUS
    <2>1. FallBack
      BY DEF Next, Step, AskRole, AskGenerator, AskEvaluator, AskItem, Begin, Baseline, BaselineRun, Provenance, Snapshot,
             Launch, TaskFails, Session, Ended, Classify, Again, Asked, Enforce, Conclude, Teardown, Edit, Kill
    <2>2. src = before
      BY <2>1 DEF FallBack, Falls, WorkStands, Landed, Place, Inv, Placed, Writer
    <2>3. Fresh(before)
      BY DEF Inv, Placed, InChain
    <2> QED BY <2>2, <2>3 DEF Fresh
  <1> QED BY <1>1, Invariance, PTL DEF Spec, NoSecondWriter
-----------------------------------------------------------------------------

(***************************************************************************)
(* The inbox.                                                                *)
(***************************************************************************)

\* What need not be in the files any more. The findings of a file, or of a copy of one, that have to be in it:
\* a copy and the file it was read from agree on those.
Kept == ArchivedIds \cup swept
IdsOf(s) == {s[k].id : k \in DOMAIN s}
Left(s, kept) == IdsOf(s) \ (kept \cup {Gone})
Holds(f) == IF f \in DOMAIN inbox THEN Left(inbox[f], Kept) ELSE {}

\* A name no reflection takes for a new file.
Used(f) == f \in DOMAIN inbox \/ archive[f] # {}
Safe(x) == x \in LiveIds \cup Kept \cup {Gone}

\* What the processes hold: lines of the listing, targets, marks, files.
Lines == [file : Names, seg : Nat \ {0}, id : Ids, title : Titles]
Aims  == [file : Names, seg : Nat \ {0}, j : Sections, exact : BOOLEAN]
MarkOf == [at : Nat, file : Names, seg : Nat \ {0}, id : Ids, meant : Ids, how : {"done", "wontdo"}]
Files(c) == DOMAIN c \subseteq Names /\ c \in [DOMAIN c -> Seq(Found)]

RunRec == [at : Over \cup {"match", "count", "write"}, report : Reports \cup {<<>>}, live : Seq(Lines), to : Seq(Ids),
           bump : SUBSET Aims, buf : Seq(Found)]
CmdRec(files) == [at : {"idle", "file", "remove", "clear"}, seen : Seq(Ids), marks : SUBSET MarkOf,
                   plan : SUBSET (MarkOf \cup [at : Nat, file : Names]), appended : SUBSET Nat, before : {files},
                   count : 0 .. MaxCommands]

\* The type of everything; no file is without a finding.
Shapes ==
  /\ Files(inbox) /\ \A f \in DOMAIN inbox : inbox[f] # <<>>
  /\ archive \in [Names -> SUBSET [id : Ids, how : {"done", "wontdo", "cleared"}]]
  /\ run \in [Runs -> RunRec] /\ \A r \in Runs : DOMAIN run[r].to \subseteq Sections /\ IsFiniteSet(run[r].bump)
  /\ me \in CmdRec(me.before) /\ Files(me.before) /\ IsFiniteSet(me.plan)
  /\ alone \in BOOLEAN /\ swept \subseteq Ids

\* What a reflection holds is good for what it does with it: the findings it counts for are not lost, the
\* files it counts in are in use, and the copy it is about to write holds all that the file by then has to hold.
Routes(r) ==
  /\ run[r].at \in {"idle", "match"} => run[r].to = <<>> /\ run[r].bump = {}
  /\ run[r].at = "match" => \A k \in DOMAIN run[r].live : Safe(run[r].live[k].id) /\ Used(run[r].live[k].file)
  /\ run[r].at = "match" => run[r].report \in Reports
  /\ run[r].at \in {"count", "write"} => \A k \in DOMAIN run[r].to : run[r].to[k] = <<r, k>> \/ Safe(run[r].to[k])
  /\ run[r].at \in {"count", "write"} => run[r].report \in Reports /\ DOMAIN run[r].to = DOMAIN run[r].report
  /\ run[r].at \in {"count", "write"} => \A t \in run[r].bump : Used(t.file)
  /\ run[r].at = "write" => run[r].bump # {} /\ run[r].buf # <<>> /\ Left(run[r].buf, Kept) = Holds(Here(r))
  /\ run[r].at = "done" => \A k \in DOMAIN run[r].to : Safe(run[r].to[k])
Reflections == \A r \in Runs : Routes(r)

\* The same for the user's command: its copies hold what the files have to hold, its marks name findings of
\* them, and what is in the archive already is what it leaves out of a file.
Commands ==
  /\ me.at \in {"file", "remove"} =>
       /\ me.plan # {} /\ me.plan \subseteq MarkOf
       /\ \A f \in DOMAIN me.before : me.before[f] # <<>> /\ Used(f) /\ Left(me.before[f], Kept) = Holds(f)
       /\ \A m \in me.plan : /\ m.file \in DOMAIN me.before /\ m.seg \in DOMAIN me.before[m.file]
                             /\ m.id = me.before[m.file][m.seg].id
  /\ me.at = "file" => me.appended \subseteq Segs /\ \A m \in OfFile : m.seg \in me.appended => m.id \in Kept
  /\ me.at = "remove" => archive[File] # {} /\ Left(me.before[File], Kept) = {}
  /\ me.at = "clear" => me.plan # {} /\ me.plan \subseteq [at : Nat, file : Names]
  /\ me.at \in {"idle", "clear"} => me.appended = {}

\* The inductive invariant behind NothingLost. NothingLost is not one itself: a whole file is written back from
\* a copy, so whether a step loses a finding depends on what the copies of the other processes hold.
Preserved == Shapes /\ Reflections /\ Commands /\ \A x \in StartIds : Safe(x)
-----------------------------------------------------------------------------
\* One command at a time: at most one process is at work.
Solo ==
  /\ \A r, q \in Runs : r = q \/ run[r].at \in Over \/ run[q].at \in Over
  /\ me.at # "idle" => \A r \in Runs : run[r].at \in Over

\* A finding is in one place, and is one of the first or of a finished reflection.
FoundAt(p) == inbox[p[1]][p[2]]
Once == \A p, q \in Places : FoundAt(p).id = FoundAt(q).id => p = q
Known == StartIds \cup {<<q, j>> : q \in {r \in Runs : run[r].at = "done"}, j \in Sections}
Recorded == \A p \in Places : FoundAt(p).id \in Known

\* The lines and targets of a reflection point at the findings they name, and its copy is the file counted up.
Points(r) ==
  /\ \A k \in DOMAIN run[r].to : run[r].to[k] = <<r, k>> \/ run[r].to[k] \in Known
  /\ \A t \in run[r].bump : t.j \in DOMAIN run[r].to
  /\ \A t, u \in run[r].bump : t.j = u.j => t = u
  /\ run[r].at = "match" => \A k \in DOMAIN run[r].live :
       <<run[r].live[k].file, run[r].live[k].seg>> \in Places /\ inbox[run[r].live[k].file][run[r].live[k].seg].id = run[r].live[k].id
  /\ run[r].at \in {"count", "write"} => \A t \in run[r].bump :
       <<t.file, t.seg>> \in Places /\ inbox[t.file][t.seg].id = run[r].to[t.j]
  /\ run[r].at = "write" => run[r].buf = Counted(inbox[Here(r)], OfHere(r))
  /\ run[r].at = "done" => run[r].bump = {}
Pointers == \A r \in Runs : Points(r)

\* The files a command has yet to change are as it loaded them.
AsRead == me.at \in {"file", "remove"} => \A m \in me.plan : m.file \in DOMAIN inbox /\ inbox[m.file] = me.before[m.file]

\* The sections that counted for a finding by now, those whose target is still to be counted left out: the
\* counter is the first value and one for each.
Credits(x) == {c \in Runs \X Sections : /\ c[2] \in DOMAIN run[c[1]].to /\ x # c /\ run[c[1]].to[c[2]] = x
                                        /\ \A t \in run[c[1]].bump : t.j # c[2]}
Tallied == \A p \in Places : FoundAt(p).n = FirstCount(FoundAt(p).id) + Cardinality(Credits(FoundAt(p).id))

\* The inductive invariant behind CountsAreExact, next to Preserved: a counter is the tally of the credits only
\* while pointers into the files stay good, for which every finding has to be in one place.
Alone == alone => Solo /\ Once /\ Recorded /\ Pointers /\ AsRead /\ Tallied

\* A sequence of the elements of a set, each once.
Lists(l, S) ==
  /\ Cardinality(S) \in Nat /\ DOMAIN l = 1 .. Cardinality(S)
  /\ \A k \in DOMAIN l : l[k] \in S
  /\ \A x \in S : \E k \in DOMAIN l : l[k] = x
  /\ \A j, k \in DOMAIN l : l[j] = l[k] => j = k

\* A finite set under a strict total order, given by what is below each element: the sequence that
\* lists it by rank has every element, once.
LEMMA ListedByRank ==
  ASSUME NEW S, IsFiniteSet(S), NEW low,
         \A x \in S : low[x] \subseteq S /\ x \notin low[x],
         \A x, y \in S : x = y \/ x \in low[y] \/ y \in low[x],
         \A x, y \in S : x \in low[y] => low[x] \subseteq low[y],
         NEW rank, rank = [x \in S |-> Cardinality(low[x])],
         NEW l, l = InOrder(rank)
  PROVE  Lists(l, S)
  <1> DEFINE n == Cardinality(S)
             next == [x \in S |-> rank[x] + 1]
  <1>1. n \in Nat BY FS_CardinalityType
  <1>2. \A x \in S : IsFiniteSet(low[x]) /\ Cardinality(low[x]) \in Nat /\ rank[x] = Cardinality(low[x])
    BY FS_Subset, FS_CardinalityType
  <1>3. ASSUME NEW x \in S PROVE rank[x] < n
    <2>1. low[x] # S OBVIOUS
    <2>2. Cardinality(low[x]) <= n /\ Cardinality(low[x]) # n BY <2>1, FS_Subset
    <2> QED BY <1>1, <1>2, <2>2
  <1>4. ASSUME NEW x \in S, NEW y \in S, x \in low[y] PROVE rank[x] < rank[y]
    <2>1. low[x] \subseteq low[y] /\ low[x] # low[y] BY <1>4
    <2>2. Cardinality(low[x]) <= Cardinality(low[y]) /\ Cardinality(low[x]) # Cardinality(low[y])
      BY <1>2, <2>1, FS_Subset
    <2> QED BY <1>2, <2>2
  <1>5. \A x \in S : next[x] = rank[x] + 1 /\ rank[x] \in Nat BY <1>2
  <1>6. next \in [S -> 1 .. n]
    <2>1. \A x \in S : rank[x] + 1 \in 1 .. n BY <1>1, <1>3, <1>5
    <2> QED BY <2>1
  <1> HIDE DEF next
  <1>7. ASSUME NEW x \in S, NEW y \in S, next[x] = next[y] PROVE x = y
    <2>1. rank[x] = rank[y] BY <1>5, <1>7
    <2> QED BY <1>4, <1>5, <2>1
  <1>8. next \in Injection(S, 1 .. n) BY <1>6, <1>7 DEF Injection, IsInjective
  <1>9. IsFiniteSet(1 .. n) /\ Cardinality(1 .. n) = n BY <1>1, FS_Interval
  <1>10. next \in Surjection(S, 1 .. n) BY <1>8, <1>9, FS_Injection
  <1>11. ASSUME NEW k \in 1 .. n PROVE \E x \in S : rank[x] = k - 1
    <2>1. PICK x \in S : next[x] = k BY <1>10 DEF Surjection
    <2> QED BY <1>5, <2>1
  <1>12. l = [k \in 1 .. n |-> CHOOSE x \in S : rank[x] = k - 1] BY DEF InOrder
  <1>13. ASSUME NEW k \in 1 .. n PROVE l[k] \in S /\ rank[l[k]] = k - 1 BY <1>11, <1>12
  <1>14. l \in [1 .. n -> S] BY <1>12, <1>13
  <1>15. ASSUME NEW j \in 1 .. n, NEW k \in 1 .. n, l[j] = l[k] PROVE j = k
    <2>1. j - 1 = k - 1 BY <1>13, <1>15
    <2> QED BY <1>1, <2>1
  <1>16. \A j, k \in 1 .. n : l[j] = l[k] => j = k BY <1>15
  <1>17. DOMAIN l = 1 .. n BY <1>14
  <1>18. l \in Injection(1 .. n, S)
    <2>1. \A f : f \in Injection(1 .. n, S) <=> f \in [1 .. n -> S] /\ \A j, k \in 1 .. n : f[j] = f[k] => j = k
      BY DEF Injection, IsInjective
    <2> QED BY <1>14, <1>16, <2>1
  <1>19. l \in Surjection(1 .. n, S) BY <1>9, <1>18, FS_Injection
  <1>20. \A x \in S : \E k \in 1 .. n : l[k] = x BY <1>19 DEF Surjection
  <1>21. \A k \in 1 .. n : l[k] \in S BY <1>13
  <1>22. /\ \A k \in DOMAIN l : l[k] \in S
         /\ \A x \in S : \E k \in DOMAIN l : l[k] = x
         /\ \A j, k \in DOMAIN l : l[j] = l[k] => j = k
    <2> HIDE DEF n
    <2> QED BY ONLY <1>16, <1>17, <1>20, <1>21
  <1> QED BY ONLY <1>1, <1>17, <1>22 DEF Lists

\* Numbers in order.
LEMMA NumbersInOrder ==
  ASSUME NEW S, IsFiniteSet(S), S \subseteq Nat
  PROVE  Lists(Ascending(S), S)
  <1> DEFINE low  == [x \in S |-> {y \in S : y < x}]
             rank == [x \in S |-> Cardinality({y \in S : y < x})]
  <1>1. rank = [x \in S |-> Cardinality(low[x])] OBVIOUS
  <1>2. \A x \in S : low[x] \subseteq S /\ x \notin low[x] OBVIOUS
  <1>3. \A x, y \in S : x = y \/ x \in low[y] \/ y \in low[x] OBVIOUS
  <1>4. ASSUME NEW x \in S, NEW y \in S, x \in low[y] PROVE low[x] \subseteq low[y]
    <2>1. x < y BY <1>4
    <2>2. \A z \in S : z < x => z < y BY <2>1
    <2> QED BY <2>2
  <1>5. Ascending(S) = InOrder(rank) BY DEF Ascending
  <1> HIDE DEF low, rank
  <1> QED BY <1>1, <1>2, <1>3, <1>4, <1>5, ListedByRank

\* The listing shows every finding, once.
LEMMA ListingIsWhole ==
  ASSUME IsFiniteSet(Places), DOMAIN inbox \subseteq Nat, \A p \in Places : p[2] \in Nat /\ inbox[p[1]][p[2]].n \in Nat
  PROVE  Lists(Listing, Places)
  <1> DEFINE low  == [p \in Places |-> {q \in Places : Earlier(q, p)}]
             rank == [p \in Places |-> Cardinality({q \in Places : Earlier(q, p)})]
             n(p) == inbox[p[1]][p[2]].n
  <1>1. rank = [p \in Places |-> Cardinality(low[p])] OBVIOUS
  <1>2. \A p \in Places : p = <<p[1], p[2]>> /\ p[1] \in Nat /\ p[2] \in Nat /\ n(p) \in Nat BY DEF Places, PlacesOf
  <1>3. \A p, q : Earlier(p, q) <=> (n(p) > n(q) \/ (n(p) = n(q) /\ (p[1] < q[1] \/ (p[1] = q[1] /\ p[2] < q[2]))))
    BY DEF Earlier
  <1>4. Listing = InOrder(rank) BY DEF Listing
  <1>5. \A p, q \in Places : q \in low[p] <=> Earlier(q, p) OBVIOUS
  <1>6. \A p \in Places : low[p] \subseteq Places OBVIOUS
  <1> HIDE DEF low, rank, n
  <1>7. \A x \in Places : low[x] \subseteq Places /\ x \notin low[x] BY <1>2, <1>3, <1>5, <1>6
  <1>8. ASSUME NEW x \in Places, NEW y \in Places PROVE x = y \/ x \in low[y] \/ y \in low[x]
    <2>1. x[1] = y[1] /\ x[2] = y[2] => x = y BY <1>2
    <2> QED BY <1>2, <1>3, <1>5, <2>1
  <1>9. \A x, y \in Places : x \in low[y] => low[x] \subseteq low[y]
    <2>1. \A x, y, z \in Places : Earlier(x, y) /\ Earlier(y, z) => Earlier(x, z) BY <1>2, <1>3
    <2> QED BY <1>5, <1>6, <2>1
  <1> QED BY <1>1, <1>4, <1>7, <1>8, <1>9, ListedByRank

\* The sections of the reports: finitely many numbers.
LEMMA SectionsFinite == IsFiniteSet(Sections) /\ Sections \subseteq Nat \ {0} /\ \A rep \in Reports : DOMAIN rep \subseteq Sections
  <1> DEFINE dom == [rep \in Reports |-> DOMAIN rep]
             Doms == {DOMAIN rep : rep \in Reports}
  <1>1. \A rep \in Reports : rep \in Seq([title : Titles, tag : Titles]) BY InboxReports
  <1>2. \A rep \in Reports : DOMAIN rep = 1 .. Len(rep) /\ Len(rep) \in Nat BY <1>1
  <1>3. \A rep \in Reports : IsFiniteSet(DOMAIN rep) BY <1>2, FS_Interval
  <1>4. dom \in Surjection(Reports, Doms) BY DEF Surjection
  <1>5. IsFiniteSet(Doms) BY <1>4, InboxReports, FS_Surjection
  <1>6. \A D \in Doms : IsFiniteSet(D) BY <1>3
  <1>7. IsFiniteSet(UNION Doms)
    <2> HIDE DEF Doms
    <2> QED BY <1>5, <1>6, FS_UNION
  <1> QED BY <1>2, <1>7 DEF Sections

\* A new finding is named by its reflection and section, which no finding at first is.
LEMMA OwnIds == /\ \A r \in Runs, j \in Sections : <<r, j>> \in Ids /\ <<r, j>> # Gone /\ <<r, j>> \notin StartIds
                /\ Gone \in Ids /\ Gone \notin StartIds /\ StartIds \subseteq Ids
  <1>1. \A r \in Runs, j \in Sections : <<r, j>> \in Runs \X Sections /\ j # 0 BY SectionsFinite
  <1>2. \A r, j : j # 0 => <<r, j>> # Gone BY DEF Gone
  <1> QED BY <1>1, <1>2, InboxStart DEF Ids

\* The file names are finitely many numbers, in the order the directory is read.
LEMMA NamesAreNumbers == Names \subseteq Nat /\ IsFiniteSet(Names)
  BY InboxStart

\* What is in the files, file by file.
LEMMA LiveIdsAre == /\ \A x : x \in LiveIds <=> \E f \in DOMAIN inbox : x \in IdsOf(inbox[f])
                    /\ \A x : x \in LiveIds' <=> \E f \in DOMAIN inbox' : x \in IdsOf(inbox'[f])
  <1>1. \A x : x \in LiveIds <=> \E f \in DOMAIN inbox : \E y \in Range(inbox[f]) : y.id = x BY DEF LiveIds, Live
  <1>2. \A x : x \in LiveIds' <=> \E f \in DOMAIN inbox' : \E y \in Range(inbox'[f]) : y.id = x BY DEF LiveIds, Live
  <1>3. \A s : \A x : x \in IdsOf(s) <=> \E y \in Range(s) : y.id = x BY DEF IdsOf, Range
  <1> QED BY <1>1, <1>2, <1>3

\* What is in the archive, file by file.
LEMMA ArchivedIdsAre == /\ \A x : x \in ArchivedIds <=> \E f \in Names : \E e \in archive[f] : e.id = x
                        /\ \A x : x \in ArchivedIds' <=> \E f \in Names : \E e \in archive'[f] : e.id = x
  BY DEF ArchivedIds, Archived

\* What the files are made of.
LEMMA FileFacts ==
  ASSUME Shapes
  PROVE  \A f \in DOMAIN inbox :
           /\ f \in Names /\ f \in Nat /\ inbox[f] \in Seq(Found) /\ inbox[f] # <<>>
           /\ \A k \in DOMAIN inbox[f] : k \in Nat \ {0} /\ inbox[f][k] \in Found /\ <<f, k>> \in Places
  <1> SUFFICES ASSUME NEW f \in DOMAIN inbox
               PROVE  /\ f \in Names /\ f \in Nat /\ inbox[f] \in Seq(Found) /\ inbox[f] # <<>>
                      /\ \A k \in DOMAIN inbox[f] : k \in Nat \ {0} /\ inbox[f][k] \in Found /\ <<f, k>> \in Places
    OBVIOUS
  <1>1. f \in Names /\ inbox[f] \in Seq(Found) /\ inbox[f] # <<>> BY DEF Shapes, Files
  <1>2. \A k \in DOMAIN inbox[f] : k \in Nat \ {0} /\ inbox[f][k] \in Found BY <1>1
  <1>3. \A k \in DOMAIN inbox[f] : <<f, k>> \in Places BY DEF Places, PlacesOf
  <1> QED BY <1>1, <1>2, <1>3, NamesAreNumbers

\* The places are finitely many, and each holds a finding.
LEMMA PlaceFacts ==
  ASSUME Shapes
  PROVE  /\ IsFiniteSet(Places)
         /\ \A p \in Places : /\ p = <<p[1], p[2]>> /\ p[1] \in DOMAIN inbox /\ p[2] \in DOMAIN inbox[p[1]]
                              /\ inbox[p[1]][p[2]] \in Found /\ p[2] \in Nat \ {0}
  <1> DEFINE At(f) == {<<f, k>> : k \in DOMAIN inbox[f]}
             inFile == [f \in DOMAIN inbox |-> At(f)]
             All == {At(f) : f \in DOMAIN inbox}
  <1>1. \A p \in Places : p = <<p[1], p[2]>> /\ p[1] \in DOMAIN inbox /\ p[2] \in DOMAIN inbox[p[1]]
    BY DEF Places, PlacesOf
  <1>2. ASSUME NEW f \in DOMAIN inbox PROVE IsFiniteSet(At(f))
    <2> DEFINE pair == [k \in DOMAIN inbox[f] |-> <<f, k>>]
    <2>1. inbox[f] \in Seq(Found) BY FileFacts
    <2>2. DOMAIN inbox[f] = 1 .. Len(inbox[f]) /\ Len(inbox[f]) \in Nat BY <2>1
    <2>3. IsFiniteSet(DOMAIN inbox[f]) BY <2>2, FS_Interval
    <2>4. pair \in Surjection(DOMAIN inbox[f], At(f)) BY DEF Surjection
    <2> HIDE DEF pair
    <2> QED BY <2>3, <2>4, FS_Surjection
  <1>3. DOMAIN inbox \subseteq Names BY DEF Shapes, Files
  <1>4. IsFiniteSet(DOMAIN inbox) BY <1>3, NamesAreNumbers, FS_Subset
  <1>5. inFile \in Surjection(DOMAIN inbox, All) BY DEF Surjection
  <1>6. IsFiniteSet(All)
    <2> HIDE DEF inFile, All
    <2> QED BY <1>4, <1>5, FS_Surjection
  <1>7. \A T \in All : IsFiniteSet(T) BY <1>2
  <1>8. Places = UNION All BY DEF Places, PlacesOf
  <1>9. IsFiniteSet(Places)
    <2> HIDE DEF All
    <2> QED BY <1>6, <1>7, <1>8, FS_UNION
  <1> QED BY <1>1, <1>9, FileFacts

\* The listing, line by line.
LEMMA LoadedShows ==
  ASSUME Shapes
  PROVE  /\ Loaded \in Seq(Lines)
         /\ \A k \in DOMAIN Loaded : /\ k \in Nat
                                     /\ Loaded[k].file \in DOMAIN inbox /\ Loaded[k].seg \in DOMAIN inbox[Loaded[k].file]
                                     /\ Loaded[k].id = inbox[Loaded[k].file][Loaded[k].seg].id
                                     /\ <<Loaded[k].file, Loaded[k].seg>> \in Places
  <1> DEFINE l == Listing
             X(k) == inbox[l[k][1]][l[k][2]]
  <1>1. DOMAIN inbox \subseteq Nat BY FileFacts
  <1>2. \A p \in Places : p[2] \in Nat /\ inbox[p[1]][p[2]].n \in Nat BY PlaceFacts DEF Found
  <1>3. Lists(l, Places) BY <1>1, <1>2, PlaceFacts, ListingIsWhole
  <1>4. Loaded = [k \in DOMAIN l |-> [file |-> l[k][1], seg |-> l[k][2], id |-> X(k).id, title |-> X(k).title]]
    BY DEF Loaded
  <1> HIDE DEF l
  <1>5. ASSUME NEW k \in DOMAIN l
        PROVE  /\ l[k] \in Places /\ l[k][1] \in DOMAIN inbox /\ l[k][1] \in Names /\ l[k][2] \in DOMAIN inbox[l[k][1]] /\ l[k][2] \in Nat \ {0}
               /\ X(k) \in Found /\ l[k] = <<l[k][1], l[k][2]>>
    <2>1. l[k] \in Places BY <1>3 DEF Lists
    <2> QED BY <2>1, PlaceFacts, FileFacts
  <1>6. ASSUME NEW k \in DOMAIN l
        PROVE  /\ Loaded[k] = [file |-> l[k][1], seg |-> l[k][2], id |-> X(k).id, title |-> X(k).title]
               /\ Loaded[k] \in Lines
    <2>1. Loaded[k] = [file |-> l[k][1], seg |-> l[k][2], id |-> X(k).id, title |-> X(k).title] BY <1>4
    <2>2. X(k).id \in Ids /\ X(k).title \in Titles BY <1>5 DEF Found
    <2> HIDE DEF X
    <2> QED BY <1>5, <2>1, <2>2 DEF Lines
  <1>7. DOMAIN Loaded = DOMAIN l /\ DOMAIN l = 1 .. Cardinality(Places) /\ Cardinality(Places) \in Nat
    BY <1>3, <1>4 DEF Lists
  <1>8. Loaded \in Seq(Lines)
    <2>1. Loaded \in [1 .. Cardinality(Places) -> Lines]
      <3>1. \A k \in 1 .. Cardinality(Places) : Loaded[k] \in Lines BY <1>6, <1>7
      <3>2. Loaded = [k \in 1 .. Cardinality(Places) |-> Loaded[k]] BY <1>4, <1>7
      <3> QED BY <3>1, <3>2
    <2> QED BY <1>7, <2>1
  <1>9. ASSUME NEW k \in DOMAIN l
        PROVE  Loaded[k].file = l[k][1] /\ Loaded[k].seg = l[k][2] /\ Loaded[k].id = X(k).id
    <2>1. Loaded[k] = [file |-> l[k][1], seg |-> l[k][2], id |-> X(k).id, title |-> X(k).title] BY <1>6
    <2> HIDE DEF X
    <2> QED BY <2>1
  <1>10. \A k \in DOMAIN l : k \in Nat BY <1>7
  <1> QED BY <1>5, <1>7, <1>8, <1>9, <1>10

\* The first of a set of things with a number each.
LEMMA FirstIsThere ==
  ASSUME NEW S, S # {}, NEW key, \A x \in S : key[x] \in Nat
  PROVE  \E x \in S : \A y \in S : key[x] <= key[y]
  <1> DEFINE Keys == {key[x] : x \in S}
             Less == {ss \in Nat \X Nat : ss[1] < ss[2]}
  <1>1. Keys \subseteq Nat /\ Keys # {} OBVIOUS
  <1>2. IsWellFoundedOn(Less, Nat) BY NatLessThanWellFounded DEF OpToRel
  <1> HIDE DEF Less
  <1>3. PICK n \in Keys : \A m \in Keys : ~(<<m, n>> \in Less)
    <2> HIDE DEF Keys
    <2> QED BY <1>1, <1>2, WFMin
  <1>4. ASSUME NEW m \in Keys PROVE n <= m
    <2>1. n \in Nat /\ m \in Nat
      <3> HIDE DEF Keys
      <3> QED BY <1>1
    <2>2. ~(m < n) BY <1>3, <2>1 DEF Less
    <2> QED BY <2>1, <2>2
  <1>5. PICK x \in S : key[x] = n BY <1>3
  <1> QED BY <1>4, <1>5

\* The parts of a reflection.
LEMMA RunFacts ==
  ASSUME Shapes, NEW r \in Runs
  PROVE  /\ run[r] \in RunRec /\ run[r].report \in Reports \cup {<<>>} /\ run[r].live \in Seq(Lines) /\ run[r].to \in Seq(Ids)
         /\ run[r].bump \subseteq Aims /\ IsFiniteSet(run[r].bump) /\ run[r].buf \in Seq(Found)
         /\ run[r].at \in Over \cup {"match", "count", "write"}
         /\ DOMAIN run[r].to \subseteq Sections /\ DOMAIN run = Runs
  BY DEF Shapes, RunRec

\* The parts of the user's command.
LEMMA CmdFacts ==
  ASSUME Shapes
  PROVE  /\ me \in CmdRec(me.before) /\ me.at \in {"idle", "file", "remove", "clear"} /\ me.seen \in Seq(Ids)
         /\ me.marks \subseteq MarkOf /\ me.plan \subseteq MarkOf \cup [at : Nat, file : Names] /\ IsFiniteSet(me.plan)
         /\ me.appended \subseteq Nat /\ me.count \in 0 .. MaxCommands
         /\ DOMAIN me.before \subseteq Names /\ \A f \in DOMAIN me.before : me.before[f] \in Seq(Found)
  BY DEF Shapes, CmdRec, Files

\* The file a reflection counts in next is one it has targets in.
LEMMA HereIsAimed ==
  ASSUME Shapes, NEW r \in Runs, run[r].bump # {}
  PROVE  /\ \E t \in run[r].bump : t.file = Here(r)
         /\ Here(r) \in Names /\ OfHere(r) \subseteq run[r].bump /\ OfHere(r) # {}
  <1> DEFINE exact == {t \in run[r].bump : t.exact}
             ts == IF exact = {} THEN run[r].bump ELSE exact
             key == [t \in ts |-> t.j]
  <1>1. ts # {} /\ ts \subseteq run[r].bump OBVIOUS
  <1>2. \A t \in ts : t \in Aims /\ t.j \in Nat /\ key[t] = t.j BY <1>1, RunFacts, SectionsFinite DEF Aims
  <1>3. \E t \in ts : \A u \in ts : key[t] <= key[u]
    <2> HIDE DEF ts, key
    <2> QED BY <1>1, <1>2, FirstIsThere
  <1>4. \E t \in ts : \A u \in ts : t.j <= u.j BY <1>2, <1>3
  <1>5. Here(r) = (CHOOSE t \in ts : \A u \in ts : t.j <= u.j).file BY DEF Here
  <1> HIDE DEF ts
  <1>6. \E t \in ts : t.file = Here(r) BY <1>4, <1>5
  <1>7. \A t \in run[r].bump : t.file \in Names BY RunFacts DEF Aims
  <1> QED BY <1>1, <1>6, <1>7 DEF OfHere

\* The file a command works on is one of its plan.
LEMMA FileIsPlanned ==
  ASSUME Shapes, me.plan # {}
  PROVE  (\E m \in me.plan : m.file = File) /\ File \in Names /\ OfFile \subseteq me.plan /\ OfFile # {}
  <1> DEFINE key == [m \in me.plan |-> m.at]
  <1>1. \A m \in me.plan : m.at \in Nat /\ m.file \in Names BY CmdFacts DEF MarkOf
  <1>2. \E m \in me.plan : \A o \in me.plan : key[m] <= key[o]
    <2>1. \A m \in me.plan : key[m] \in Nat BY <1>1
    <2> HIDE DEF key
    <2> QED BY <2>1, FirstIsThere
  <1>3. \E m \in me.plan : \A o \in me.plan : m.at <= o.at BY <1>2
  <1>4. \E m \in me.plan : m.file = File BY <1>3 DEF File
  <1> QED BY <1>1, <1>4 DEF OfFile

\* A counted file has the findings of the file.
LEMMA CountedFacts ==
  ASSUME NEW s \in Seq(Found), NEW ts, IsFiniteSet(ts)
  PROVE  /\ Counted(s, ts) \in Seq(Found) /\ DOMAIN Counted(s, ts) = DOMAIN s
         /\ \A k \in DOMAIN s : /\ Counted(s, ts)[k].id = s[k].id
                                /\ Counted(s, ts)[k].n = s[k].n + Cardinality({t \in ts : t.seg = k})
         /\ IdsOf(Counted(s, ts)) = IdsOf(s)
  <1> DEFINE c == Counted(s, ts)
             N(k) == Cardinality({t \in ts : t.seg = k})
  <1>1. \A k : N(k) \in Nat BY FS_Subset, FS_CardinalityType
  <1>2. c = [k \in DOMAIN s |-> [s[k] EXCEPT !.n = @ + N(k)]] BY DEF Counted
  <1> HIDE DEF N, c
  <1>3. ASSUME NEW k \in DOMAIN s PROVE c[k] \in Found /\ c[k].id = s[k].id /\ c[k].n = s[k].n + N(k)
    <2>1. s[k] \in Found OBVIOUS
    <2>2. c[k] = [s[k] EXCEPT !.n = @ + N(k)] BY <1>2
    <2>3. s[k].n + N(k) \in Nat BY <1>1, <2>1 DEF Found
    <2> QED BY <2>1, <2>2, <2>3 DEF Found
  <1>4. DOMAIN c = DOMAIN s BY <1>2
  <1>5. c \in Seq(Found)
    <2>1. DOMAIN s = 1 .. Len(s) /\ Len(s) \in Nat OBVIOUS
    <2>2. c \in [1 .. Len(s) -> Found] BY <1>2, <1>3, <2>1
    <2> QED BY <2>1, <2>2
  <1>6. IdsOf(c) = IdsOf(s) BY <1>3, <1>4 DEF IdsOf
  <1> QED BY <1>3, <1>4, <1>5, <1>6 DEF c, N

\* A file that is read has what it holds, a missing one nothing.
LEMMA ReadFacts ==
  ASSUME Shapes, NEW f
  PROVE  Read(f) \in Seq(Found) /\ Read(f) # <<>> /\ Left(Read(f), Kept) = Holds(f)
  <1>1. CASE f \in DOMAIN inbox BY <1>1, FileFacts DEF Read, Holds
  <1>2. CASE f \notin DOMAIN inbox
    <2>1. Read(f) = <<Ghost>> BY <1>2 DEF Read
    <2>2. Ghost \in Found /\ Ghost.id = Gone
      <3>1. Gone \in Ids BY OwnIds
      <3>2. FileName \in Titles BY DEF Titles
      <3>3. Ghost = [id |-> Gone, title |-> FileName, n |-> 1] BY DEF Ghost
      <3>4. Ghost.id = Gone BY <3>3
      <3>5. \A a \in Ids, b \in Titles, c \in Nat : [id |-> a, title |-> b, n |-> c] \in Found BY DEF Found
      <3> QED BY <3>1, <3>2, <3>3, <3>4, <3>5
    <2>3. IdsOf(<<Ghost>>) = {Gone} BY <2>2 DEF IdsOf
    <2> QED BY <1>2, <2>1, <2>2, <2>3 DEF Left, Holds
  <1> QED BY <1>1, <1>2

\* What stays of a file when places are taken out, and what does not.
LEMMA RestFacts ==
  ASSUME Shapes, NEW segs, File \in DOMAIN me.before
  PROVE  /\ Rest(segs) \in Seq(Found)
         /\ Rest(segs) = <<>> <=> DOMAIN me.before[File] \subseteq segs
         /\ IdsOf(Rest(segs)) = {me.before[File][k].id : k \in DOMAIN me.before[File] \ segs}
         /\ \A k \in DOMAIN Rest(segs) : \E h \in DOMAIN me.before[File] : Rest(segs)[k] = me.before[File][h]
         /\ \A k, o \in DOMAIN Rest(segs) : k # o => \E h, g \in DOMAIN me.before[File] :
              h # g /\ Rest(segs)[k] = me.before[File][h] /\ Rest(segs)[o] = me.before[File][g]
  <1> DEFINE f == me.before[File]
             S == DOMAIN f \ segs
             ks == Ascending(S)
             R == Rest(segs)
  <1>1. f \in Seq(Found) BY CmdFacts
  <1>2. DOMAIN f = 1 .. Len(f) /\ Len(f) \in Nat BY <1>1
  <1> HIDE DEF f
  <1>3. IsFiniteSet(S) /\ S \subseteq Nat
    <2>1. IsFiniteSet(DOMAIN f) /\ S \in SUBSET DOMAIN f BY <1>2, FS_Interval
    <2> QED BY <1>2, <2>1, FS_Subset
  <1>4. Lists(ks, S) BY <1>3, NumbersInOrder
  <1>5. R = [k \in DOMAIN ks |-> f[ks[k]]] BY DEF Rest, f
  <1> HIDE DEF ks, R
  <1>6. ASSUME NEW k \in DOMAIN ks PROVE ks[k] \in S /\ ks[k] \in DOMAIN f /\ f[ks[k]] \in Found
    <2>1. ks[k] \in S BY <1>4 DEF Lists
    <2> QED BY <1>1, <2>1
  <1>7. S = {} <=> DOMAIN f \subseteq segs OBVIOUS
  <1>8. DOMAIN ks = 1 .. Cardinality(S) /\ Cardinality(S) \in Nat BY <1>4 DEF Lists
  <1>9. Cardinality(S) = 0 <=> S = {} BY <1>3, FS_EmptySet
  <1>10. \A k : k \in S <=> k \in DOMAIN f \ segs OBVIOUS
  <1> HIDE DEF S
  <1>11. R \in Seq(Found)
    <2>1. R \in [1 .. Cardinality(S) -> Found] BY <1>5, <1>6, <1>8
    <2> QED BY <1>8, <2>1
  <1>12. R = <<>> <=> S = {}
    <2>1. R = <<>> <=> DOMAIN R = {} BY <1>11
    <2>2. DOMAIN R = 1 .. Cardinality(S) BY <1>5, <1>8
    <2> QED BY <1>8, <1>9, <2>1, <2>2
  <1>13. IdsOf(R) = {f[k].id : k \in S} BY <1>4, <1>5 DEF IdsOf, Lists
  <1>14. \A k \in DOMAIN R : \E h \in DOMAIN f : R[k] = f[h] BY <1>5, <1>6
  <1>15. \A k, o \in DOMAIN R : k # o => \E h, g \in DOMAIN f : h # g /\ R[k] = f[h] /\ R[o] = f[g]
    <2> SUFFICES ASSUME NEW k \in DOMAIN R, NEW o \in DOMAIN R, k # o
                 PROVE  \E h, g \in DOMAIN f : h # g /\ R[k] = f[h] /\ R[o] = f[g]
      OBVIOUS
    <2>1. ks[k] # ks[o] BY <1>4, <1>5 DEF Lists
    <2> QED BY <1>5, <1>6, <2>1
  <1> QED BY <1>11, <1>12, <1>13, <1>14, <1>15, <1>7 DEF R, f, S

\* The new findings of a report: one for each section that counts for itself.
LEMMA NewFacts ==
  ASSUME Shapes, NEW r \in Runs, run[r].report \in Reports, DOMAIN run[r].to = DOMAIN run[r].report
  PROVE  /\ New(r) \in Seq(Found)
         /\ IdsOf(New(r)) = {<<r, j>> : j \in {h \in DOMAIN run[r].to : run[r].to[h] = <<r, h>>}}
         /\ \A k \in DOMAIN New(r) : New(r)[k].n = 1 /\ \E j \in Sections : New(r)[k].id = <<r, j>>
         /\ \A k, o \in DOMAIN New(r) : New(r)[k].id = New(r)[o].id => k = o
  <1> DEFINE S == {h \in DOMAIN run[r].to : run[r].to[h] = <<r, h>>}
             js == Ascending(S)
             N == New(r)
             rep == run[r].report
  <1>1. IsFiniteSet(S) /\ S \subseteq Nat /\ S \subseteq Sections /\ S \subseteq DOMAIN rep
    BY RunFacts, SectionsFinite, FS_Subset
  <1>2. Lists(js, S)
    <2> HIDE DEF S
    <2> QED BY <1>1, NumbersInOrder
  <1>3. N = [k \in DOMAIN js |-> [id |-> <<r, js[k]>>, title |-> rep[js[k]].title, n |-> 1]] BY DEF New
  <1>4. rep \in Seq([title : Titles, tag : Titles]) BY InboxReports
  <1>5. \A h : h \in S <=> h \in DOMAIN run[r].to /\ run[r].to[h] = <<r, h>> OBVIOUS
  <1> HIDE DEF js, N, rep, S
  <1>6. ASSUME NEW k \in DOMAIN js
        PROVE  /\ js[k] \in S /\ N[k] = [id |-> <<r, js[k]>>, title |-> rep[js[k]].title, n |-> 1] /\ N[k] \in Found
    <2>1. js[k] \in S BY <1>2 DEF Lists
    <2>2. N[k] = [id |-> <<r, js[k]>>, title |-> rep[js[k]].title, n |-> 1] BY <1>3
    <2>3. rep[js[k]] \in [title : Titles, tag : Titles]
      <3>1. \A T : rep \in Seq(T) => \A h \in DOMAIN rep : rep[h] \in T OBVIOUS
      <3>2. js[k] \in DOMAIN rep BY <1>1, <2>1
      <3> QED BY <1>4, <3>1, <3>2
    <2>4. <<r, js[k]>> \in Ids BY <1>1, <2>1, OwnIds
    <2> QED BY <2>1, <2>2, <2>3, <2>4 DEF Found
  <1>7. DOMAIN N = DOMAIN js /\ DOMAIN js = 1 .. Cardinality(S) /\ Cardinality(S) \in Nat BY <1>2, <1>3 DEF Lists
  <1>8. N \in Seq(Found)
    <2>1. N \in [1 .. Cardinality(S) -> Found] BY <1>3, <1>6, <1>7
    <2> QED BY <1>7, <2>1
  <1>9. \A k \in DOMAIN N : N[k].n = 1 /\ N[k].id = <<r, js[k]>> /\ js[k] \in S BY <1>6, <1>7
  <1>10. IdsOf(N) = {<<r, j>> : j \in S}
    <2>1. \A x : x \in IdsOf(N) <=> \E k \in DOMAIN N : x = <<r, js[k]>> BY <1>9 DEF IdsOf
    <2>2. \A j : j \in S <=> \E k \in DOMAIN N : js[k] = j BY <1>2, <1>7 DEF Lists
    <2>3. \A x : x \in IdsOf(N) <=> \E j \in S : x = <<r, j>> BY <2>1, <2>2
    <2> QED BY <2>3
  <1>11. \A k, o \in DOMAIN N : N[k].id = N[o].id => k = o BY <1>2, <1>7, <1>9 DEF Lists
  <1>12. \A k \in DOMAIN N : \E j \in Sections : N[k].id = <<r, j>> BY <1>1, <1>9
  <1> QED BY <1>8, <1>9, <1>10, <1>11, <1>12 DEF N, S

\* What a write of a file leaves.
LEMMA PutFacts ==
  ASSUME Shapes, NEW f \in Names, NEW s \in Seq(Found), s # <<>>, inbox' = Put(f, s)
  PROVE  /\ Files(inbox)' /\ \A g \in DOMAIN inbox' : inbox'[g] # <<>>
         /\ DOMAIN inbox' = DOMAIN inbox \cup {f} /\ inbox'[f] = s
         /\ \A g \in DOMAIN inbox : g # f => inbox'[g] = inbox[g]
  <1>1. inbox' = [g \in DOMAIN inbox \cup {f} |-> IF g = f THEN s ELSE inbox[g]] BY DEF Put
  <1>2. \A g \in DOMAIN inbox : g \in Names /\ inbox[g] \in Seq(Found) /\ inbox[g] # <<>> BY FileFacts
  <1>3. DOMAIN inbox' = DOMAIN inbox \cup {f} /\ DOMAIN inbox' \subseteq Names BY <1>1, <1>2
  <1>4. \A g \in DOMAIN inbox' : inbox'[g] \in Seq(Found) /\ inbox'[g] # <<>> /\ inbox'[g] = IF g = f THEN s ELSE inbox[g]
    BY <1>1, <1>2
  <1>5. inbox' \in [DOMAIN inbox' -> Seq(Found)] BY <1>1, <1>3, <1>4
  <1> QED BY <1>3, <1>4, <1>5 DEF Files

\* What a removal of a file leaves.
LEMMA WithoutFacts ==
  ASSUME Shapes, NEW f, inbox' = Without(f)
  PROVE  /\ Files(inbox)' /\ \A g \in DOMAIN inbox' : inbox'[g] # <<>>
         /\ DOMAIN inbox' = DOMAIN inbox \ {f}
         /\ \A g \in DOMAIN inbox : g # f => inbox'[g] = inbox[g]
  <1>1. inbox' = [g \in DOMAIN inbox \ {f} |-> inbox[g]] BY DEF Without
  <1>2. \A g \in DOMAIN inbox : g \in Names /\ inbox[g] \in Seq(Found) /\ inbox[g] # <<>> BY FileFacts
  <1>3. DOMAIN inbox' = DOMAIN inbox \ {f} /\ DOMAIN inbox' \subseteq Names BY <1>1, <1>2
  <1>4. \A g \in DOMAIN inbox' : inbox'[g] \in Seq(Found) /\ inbox'[g] # <<>> /\ inbox'[g] = inbox[g] BY <1>1, <1>2
  <1>5. inbox' \in [DOMAIN inbox' -> Seq(Found)] BY <1>1, <1>3, <1>4
  <1> QED BY <1>3, <1>4, <1>5 DEF Files

\* A step of a reflection keeps the shapes when it keeps its own and the files'.
LEMMA RunShapes ==
  ASSUME Shapes, NEW r \in Runs, NEW x \in RunRec, DOMAIN x.to \subseteq Sections, IsFiniteSet(x.bump),
         run' = [run EXCEPT ![r] = x], Files(inbox)', \A f \in DOMAIN inbox' : inbox'[f] # <<>>,
         UNCHANGED <<archive, me, alone, swept>>
  PROVE  Shapes'
  <1>1. DOMAIN run = Runs BY RunFacts
  <1>2. run' \in [Runs -> RunRec] BY <1>1 DEF Shapes
  <1>3. ASSUME NEW q \in Runs PROVE DOMAIN run'[q].to \subseteq Sections /\ IsFiniteSet(run'[q].bump)
    <2>1. run'[q] = IF q = r THEN x ELSE run[q] BY <1>1
    <2> QED BY <2>1, RunFacts
  <1>4. me' \in CmdRec(me'.before) /\ Files(me'.before) /\ IsFiniteSet(me'.plan) BY DEF Shapes, CmdRec
  <1> QED BY <1>2, <1>3, <1>4 DEF Shapes

\* A step of a command keeps the shapes when it keeps its own, the files' and the archive's.
LEMMA CmdShapes ==
  ASSUME Shapes, me' \in CmdRec(me'.before), Files(me'.before), IsFiniteSet(me'.plan), Files(inbox)', \A f \in DOMAIN inbox' : inbox'[f] # <<>>,
         archive' \in [Names -> SUBSET [id : Ids, how : {"done", "wontdo", "cleared"}]], swept' \subseteq Ids, UNCHANGED <<run, alone>>
  PROVE  Shapes'
  BY DEF Shapes

\* What MatchUp aims at.
LEMMA TargetFacts ==
  ASSUME Shapes, NEW r \in Runs, run[r].at = "match", run[r].report \in Reports, NEW m \in Judgments(r),
         NEW to, to = Matched(r, m)
  PROVE  /\ DOMAIN to = DOMAIN run[r].report
         /\ \A j \in DOMAIN to : to[j] \in {0} \cup DOMAIN run[r].live
         /\ Targets(r, to) \subseteq Aims /\ IsFiniteSet(Targets(r, to))
         /\ \A t \in Targets(r, to) : /\ t.j \in DOMAIN to /\ to[t.j] \in DOMAIN run[r].live
                                      /\ t.file = run[r].live[to[t.j]].file /\ t.seg = run[r].live[to[t.j]].seg
         /\ \A j \in DOMAIN to : to[j] \in DOMAIN run[r].live => \E t \in Targets(r, to) : t.j = j
         /\ \A t, u \in Targets(r, to) : t.j = u.j => t = u
  <1> DEFINE live == run[r].live
             Hits(j) == {k \in DOMAIN live : live[k].title = run[r].report[j].tag}
             S == {h \in DOMAIN to : to[h] \in DOMAIN live}
             T(j) == [file |-> live[to[j]].file, seg |-> live[to[j]].seg, j |-> j, exact |-> Match(r, j) # 0]
             aim == [j \in S |-> T(j)]
  <1>1. live \in Seq(Lines) /\ run[r].report \in Reports BY RunFacts
  <1>2. DOMAIN live \subseteq Nat \ {0} /\ \A k \in DOMAIN live : live[k] \in Lines BY <1>1
  <1>3. DOMAIN run[r].report \subseteq Sections BY <1>1, SectionsFinite
  <1>4. ASSUME NEW j PROVE Match(r, j) \in {0} \cup DOMAIN live
    <2>1. CASE Hits(j) = {} BY <2>1 DEF Match
    <2>2. CASE Hits(j) # {}
      <3> DEFINE key == [k \in Hits(j) |-> k]
      <3>1. \A k \in Hits(j) : key[k] \in Nat BY <1>2
      <3>2. \E x \in Hits(j) : \A y \in Hits(j) : key[x] <= key[y]
        <4> HIDE DEF key, Hits
        <4> QED BY <2>2, <3>1, FirstIsThere
      <3>3. \E x \in Hits(j) : \A y \in Hits(j) : x <= y BY <3>2
      <3>4. Match(r, j) = CHOOSE k \in Hits(j) : \A h \in Hits(j) : k <= h BY <2>2 DEF Match
      <3>5. Match(r, j) \in Hits(j)
        <4> HIDE DEF Hits
        <4> QED BY <3>3, <3>4
      <3> QED BY <3>5
    <2> QED BY <2>1, <2>2
  <1>5. m \in [DOMAIN run[r].report -> {0} \cup DOMAIN live] BY DEF Judgments, SameDefect
  <1>6. to = [j \in DOMAIN run[r].report |-> IF Match(r, j) # 0 THEN Match(r, j) ELSE m[j]] BY DEF Matched
  <1>7. DOMAIN to = DOMAIN run[r].report BY <1>6
  <1> HIDE DEF Hits
  <1>8. ASSUME NEW j \in DOMAIN to PROVE to[j] \in {0} \cup DOMAIN live
    <2> HIDE DEF live
    <2> QED BY <1>4, <1>5, <1>6, <1>7
  <1>9. Targets(r, to) = {T(j) : j \in S} BY DEF Targets
  <1>10. IsFiniteSet(S) /\ S \subseteq Sections BY <1>3, <1>7, SectionsFinite, FS_Subset
  <1>11. ASSUME NEW j \in S
         PROVE  /\ T(j) \in Aims /\ T(j).j = j /\ T(j).file = live[to[j]].file /\ T(j).seg = live[to[j]].seg
    <2>1. live[to[j]].file \in Names /\ live[to[j]].seg \in Nat \ {0}
      <3>1. live[to[j]] \in Lines BY <1>2
      <3> QED BY <3>1 DEF Lines
    <2>2. j \in Sections BY <1>10
    <2> HIDE DEF live, S
    <2> QED BY <2>1, <2>2 DEF Aims
  <1>12. aim \in Surjection(S, {T(j) : j \in S}) BY DEF Surjection
  <1>13. \A j : j \in S <=> j \in DOMAIN to /\ to[j] \in DOMAIN live OBVIOUS
  <1> HIDE DEF T, aim, S, live
  <1>14. IsFiniteSet(Targets(r, to)) BY <1>9, <1>10, <1>12, FS_Surjection
  <1>15. Targets(r, to) \subseteq Aims BY <1>9, <1>11
  <1>16. \A t \in Targets(r, to) : \E j \in S : t = T(j) BY <1>9
  <1>17. ASSUME NEW t \in Targets(r, to)
         PROVE  t.j \in S /\ t = T(t.j) /\ t.file = live[to[t.j]].file /\ t.seg = live[to[t.j]].seg
    BY <1>11, <1>16
  <1>18. \A j \in S : \E t \in Targets(r, to) : t.j = j BY <1>9, <1>11
  <1>19. \A t, u \in Targets(r, to) : t.j = u.j => t = u BY <1>17
  <1> QED BY <1>7, <1>8, <1>13, <1>14, <1>15, <1>17, <1>18, <1>19 DEF live

\* Files nobody touched are files.
LEMMA SameInbox == ASSUME Shapes, UNCHANGED inbox PROVE Files(inbox)' /\ \A f \in DOMAIN inbox' : inbox'[f] # <<>>
  BY DEF Shapes, Files

\* No files are files.
LEMMA EmptyFiles == Files(<<>>)
  <1>1. <<>> \in [{} -> Seq(Found)] /\ DOMAIN <<>> = {} OBVIOUS
  <1> QED BY <1>1 DEF Files

\* The shapes hold at first.
LEMMA ShapesInit == InboxInit => Shapes
  <1> SUFFICES ASSUME InboxInit PROVE Shapes OBVIOUS
  <1>1. Files(inbox) /\ \A f \in DOMAIN inbox : inbox[f] # <<>>
    <2>1. inbox = Start BY DEF InboxInit
    <2> QED BY <2>1, InboxStart DEF Files
  <1>2. archive \in [Names -> SUBSET [id : Ids, how : {"done", "wontdo", "cleared"}]] BY DEF InboxInit
  <1>3. NoRun \in RunRec /\ NoRun.to = <<>> /\ NoRun.bump = {} BY DEF NoRun, RunRec, Over
  <1>4. run \in [Runs -> RunRec] /\ \A r \in Runs : DOMAIN run[r].to \subseteq Sections /\ IsFiniteSet(run[r].bump)
    <2>1. run = [r \in Runs |-> NoRun] BY DEF InboxInit
    <2>2. IsFiniteSet({}) /\ DOMAIN <<>> = {} BY FS_EmptySet
    <2> QED BY <1>3, <2>1, <2>2
  <1>5. 0 \in 0 .. MaxCommands BY InboxBounds
  <1>6. NoCmd \in CmdRec(NoCmd.before) /\ NoCmd.before = <<>> /\ NoCmd.plan = {} BY <1>5 DEF NoCmd, CmdRec
  <1>7. me \in CmdRec(me.before) /\ Files(me.before) /\ IsFiniteSet(me.plan)
    BY <1>6, EmptyFiles, FS_EmptySet DEF InboxInit
  <1> QED BY <1>1, <1>2, <1>4, <1>7 DEF Shapes, InboxInit

\* Every step of a reflection keeps the shapes.
LEMMA ShapesOfReflection ==
  ASSUME Shapes, Reflections, NEW r \in Runs, Reflect(r) \/ MatchUp(r) \/ CountRead(r) \/ CountWrite(r) \/ AddNew(r) \/ KillReflect(r)
  PROVE  Shapes'
  <1> USE SameInbox
  <1>1. run[r] \in RunRec /\ DOMAIN run[r].to \subseteq Sections /\ IsFiniteSet(run[r].bump) BY RunFacts
  <1>2. CASE Reflect(r)
    <2>1. PICK rep \in Reports : run' = [run EXCEPT ![r] = [@ EXCEPT !.at = "match", !.report = rep, !.live = Loaded]]
      BY <1>2 DEF Reflect
    <2> DEFINE x == [run[r] EXCEPT !.at = "match", !.report = rep, !.live = Loaded]
    <2>2. x \in RunRec /\ x.to = run[r].to /\ x.bump = run[r].bump BY <1>1, LoadedShows DEF RunRec
    <2>3. run' = [run EXCEPT ![r] = x] BY <2>1
    <2>4. UNCHANGED <<inbox, archive, me, alone, swept>> BY <1>2 DEF Reflect
    <2> HIDE DEF x
    <2> QED BY <1>1, <2>2, <2>3, <2>4, RunShapes
  <1>3. CASE MatchUp(r)
    <2>1. PICK m \in Judgments(r) : run' = [run EXCEPT ![r] = [@ EXCEPT !.at = "count", !.to = [j \in DOMAIN Matched(r, m) |-> IdOf(r, Matched(r, m)[j], j)],
                                           !.bump = Targets(r, Matched(r, m)), !.live = <<>>]] BY <1>3 DEF MatchUp
    <2> DEFINE to == Matched(r, m)
               ids == [j \in DOMAIN to |-> IdOf(r, to[j], j)]
               x == [run[r] EXCEPT !.at = "count", !.to = ids, !.bump = Targets(r, to), !.live = <<>>]
    <2>2. run[r].at = "match" /\ run[r].report \in Reports BY <1>3 DEF MatchUp, Reflections, Routes
    <2>3. /\ DOMAIN to = DOMAIN run[r].report /\ \A j \in DOMAIN to : to[j] \in {0} \cup DOMAIN run[r].live
          /\ Targets(r, to) \subseteq Aims /\ IsFiniteSet(Targets(r, to))
      BY <2>2, TargetFacts
    <2>4. run' = [run EXCEPT ![r] = x] BY <2>1
    <2>5. DOMAIN to \subseteq Sections BY <2>2, <2>3, SectionsFinite
    <2> HIDE DEF to
    <2>6. ASSUME NEW j \in DOMAIN to PROVE IdOf(r, to[j], j) \in Ids
      <3>1. CASE to[j] = 0 BY <3>1, <2>5, OwnIds DEF IdOf
      <3>2. CASE to[j] \in DOMAIN run[r].live
        <4>1. run[r].live \in Seq(Lines) BY RunFacts
        <4>2. run[r].live[to[j]] \in Lines /\ to[j] # 0 BY <3>2, <4>1
        <4> QED BY <4>2 DEF IdOf, Lines
      <3> QED BY <2>3, <3>1, <3>2
    <2>7. ids \in Seq(Ids) /\ DOMAIN ids = DOMAIN to
      <3>1. run[r].report \in Seq([title : Titles, tag : Titles]) BY <2>2, InboxReports
      <3>2. DOMAIN to = 1 .. Len(run[r].report) /\ Len(run[r].report) \in Nat BY <2>3, <3>1
      <3>3. ids \in [1 .. Len(run[r].report) -> Ids] BY <2>6, <3>2
      <3> QED BY <3>2, <3>3
    <2> HIDE DEF ids
    <2>8. <<>> \in Seq(Lines) OBVIOUS
    <2>9. x \in RunRec /\ x.to = ids /\ x.bump = Targets(r, to) BY <1>1, <2>3, <2>7, <2>8 DEF RunRec
    <2>10. UNCHANGED <<inbox, archive, me, alone, swept>> BY <1>3 DEF MatchUp
    <2> HIDE DEF x
    <2> QED BY <2>3, <2>4, <2>5, <2>7, <2>9, <2>10, RunShapes
  <1>4. CASE CountRead(r)
    <2> DEFINE buf == Counted(Read(Here(r)), OfHere(r))
               x == [run[r] EXCEPT !.at = "write", !.buf = buf]
    <2>1. run[r].bump # {} /\ run' = [run EXCEPT ![r] = x] BY <1>4 DEF CountRead
    <2>2. IsFiniteSet(OfHere(r)) BY <1>1, <2>1, HereIsAimed, FS_Subset
    <2>3. buf \in Seq(Found) BY <2>2, ReadFacts, CountedFacts
    <2> HIDE DEF buf
    <2>4. x \in RunRec /\ x.to = run[r].to /\ x.bump = run[r].bump BY <1>1, <2>3 DEF RunRec
    <2>5. UNCHANGED <<inbox, archive, me, alone, swept>> BY <1>4 DEF CountRead
    <2> HIDE DEF x
    <2> QED BY <1>1, <2>1, <2>4, <2>5, RunShapes
  <1>5. CASE CountWrite(r)
    <2> DEFINE x == [run[r] EXCEPT !.at = "count", !.buf = <<>>, !.bump = run[r].bump \ OfHere(r)]
    <2>1. run' = [run EXCEPT ![r] = x] /\ inbox' = Put(Here(r), run[r].buf)
      <3>1. run' = [run EXCEPT ![r] = [run[r] EXCEPT !.at = "count", !.buf = <<>>, !.bump = run[r].bump \ OfHere(r)]]
        BY <1>1, <1>5 DEF CountWrite, RunRec
      <3> QED BY <1>5, <3>1 DEF CountWrite
    <2>2. run[r].bump # {} /\ run[r].buf # <<>> BY <1>5 DEF CountWrite, Reflections, Routes
    <2>3. run[r].buf \in Seq(Found) /\ Here(r) \in Names BY <2>2, RunFacts, HereIsAimed
    <2>4. Files(inbox)' /\ \A g \in DOMAIN inbox' : inbox'[g] # <<>> BY <2>1, <2>2, <2>3, PutFacts
    <2>5. <<>> \in Seq(Found) OBVIOUS
    <2>6. IsFiniteSet(run[r].bump \ OfHere(r)) BY <1>1, FS_Subset
    <2>7. run[r].bump \ OfHere(r) \subseteq Aims BY RunFacts
    <2>8. x \in RunRec /\ x.to = run[r].to /\ x.bump = run[r].bump \ OfHere(r) BY <1>1, <2>5, <2>7 DEF RunRec
    <2>9. UNCHANGED <<archive, me, alone, swept>> BY <1>1, <1>5 DEF CountWrite, RunRec
    <2> HIDE DEF x
    <2> QED BY <1>1, <2>1, <2>4, <2>6, <2>8, <2>9, RunShapes
  <1>6. CASE AddNew(r)
    <2> DEFINE x == [run[r] EXCEPT !.at = "done"]
    <2>1. run' = [run EXCEPT ![r] = x] BY <1>6 DEF AddNew
    <2>2. x \in RunRec /\ x.to = run[r].to /\ x.bump = run[r].bump BY <1>1 DEF RunRec, Over
    <2>3. Files(inbox)' /\ \A g \in DOMAIN inbox' : inbox'[g] # <<>>
      <3>1. CASE UNCHANGED inbox BY <3>1
      <3>2. CASE New(r) # <<>> /\ \E f \in Names \ DOMAIN inbox : archive[f] = {} /\ inbox' = Put(f, New(r))
        <4>1. New(r) \in Seq(Found) BY <1>6, NewFacts DEF AddNew, Reflections, Routes
        <4> QED BY <3>2, <4>1, PutFacts
      <3> QED BY <1>6, <3>1, <3>2 DEF AddNew
    <2>4. UNCHANGED <<archive, me, alone, swept>> BY <1>6 DEF AddNew
    <2> HIDE DEF x
    <2> QED BY <1>1, <2>1, <2>2, <2>3, <2>4, RunShapes
  <1>7. CASE KillReflect(r)
    <2> DEFINE x == [run[r] EXCEPT !.at = "killed"]
    <2>1. run' = [run EXCEPT ![r] = x] BY <1>7 DEF KillReflect
    <2>2. x \in RunRec /\ x.to = run[r].to /\ x.bump = run[r].bump BY <1>1 DEF RunRec, Over
    <2>3. UNCHANGED <<inbox, archive, me, alone, swept>> BY <1>7 DEF KillReflect
    <2> HIDE DEF x
    <2> QED BY <1>1, <2>1, <2>2, <2>3, RunShapes
  <1> QED BY <1>2, <1>3, <1>4, <1>5, <1>6, <1>7

\* An entry of the archive.
Entries == [id : Ids, how : {"done", "wontdo", "cleared"}]

\* What triage will do, and what it does it to.
LEMMA MarkedFacts ==
  ASSUME Shapes, NEW marks \in Marks, DOMAIN marks \subseteq DOMAIN Loaded
  PROVE  /\ Marked(marks, Loaded) \subseteq MarkOf /\ IsFiniteSet(Marked(marks, Loaded)) /\ Marked(marks, Loaded) # {}
         /\ \A m \in Marked(marks, Loaded) : /\ m.file \in DOMAIN inbox /\ m.seg \in DOMAIN inbox[m.file]
                                             /\ m.id = inbox[m.file][m.seg].id
  <1> DEFINE D == DOMAIN marks
             T(k) == [at |-> k, file |-> Loaded[k].file, seg |-> Loaded[k].seg, id |-> Loaded[k].id, meant |-> me.seen[k], how |-> marks[k]]
             mark == [k \in D |-> T(k)]
  <1>1. PICK s \in SUBSET DOMAIN me.seen : Cardinality(s) \in 1 .. MaxMarks /\ marks \in [s -> {"done", "wontdo"}]
    BY DEF Marks, Suggested
  <1>2. me.seen \in Seq(Ids) BY CmdFacts
  <1>3. DOMAIN me.seen = 1 .. Len(me.seen) /\ Len(me.seen) \in Nat /\ \A k \in DOMAIN me.seen : me.seen[k] \in Ids
    BY <1>2
  <1>4. D = s /\ IsFiniteSet(D) /\ D # {}
    <2>1. D = s BY <1>1
    <2>2. IsFiniteSet(DOMAIN me.seen) BY <1>3, FS_Interval
    <2>3. s # {} BY <1>1, FS_EmptySet, InboxBounds
    <2> QED BY <2>1, <2>2, <2>3, FS_Subset
  <1>5. \A k \in D : k \in DOMAIN me.seen /\ k \in DOMAIN Loaded /\ marks[k] \in {"done", "wontdo"} BY <1>1, <1>4
  <1>6. Marked(marks, Loaded) = {T(k) : k \in D} BY DEF Marked
  <1>7. mark \in Surjection(D, {T(k) : k \in D}) BY DEF Surjection
  <1>8. ASSUME NEW k \in D
        PROVE  /\ T(k) \in MarkOf /\ T(k).file = Loaded[k].file /\ T(k).seg = Loaded[k].seg /\ T(k).id = Loaded[k].id
    <2>1. Loaded[k] \in Lines /\ k \in Nat BY <1>5, LoadedShows
    <2>2. /\ Loaded[k].file \in Names /\ Loaded[k].seg \in Nat \ {0} /\ Loaded[k].id \in Ids /\ me.seen[k] \in Ids
          /\ marks[k] \in {"done", "wontdo"}
      BY <1>3, <1>5, <2>1 DEF Lines
    <2> QED BY <2>1, <2>2 DEF MarkOf
  <1>9. \A k \in D : /\ Loaded[k].file \in DOMAIN inbox /\ Loaded[k].seg \in DOMAIN inbox[Loaded[k].file]
                     /\ Loaded[k].id = inbox[Loaded[k].file][Loaded[k].seg].id
    BY <1>5, LoadedShows
  <1> HIDE DEF T, mark, D
  <1>10. IsFiniteSet(Marked(marks, Loaded)) BY <1>4, <1>6, <1>7, FS_Surjection
  <1>11. ASSUME NEW m \in Marked(marks, Loaded)
         PROVE  /\ m \in MarkOf /\ m.file \in DOMAIN inbox /\ m.seg \in DOMAIN inbox[m.file]
                /\ m.id = inbox[m.file][m.seg].id
    <2>1. PICK k \in D : m = T(k) BY <1>6
    <2> QED BY <1>8, <1>9, <2>1
  <1> QED BY <1>4, <1>6, <1>10, <1>11

\* What a command is after a file.
LEMMA NextFacts ==
  ASSUME Shapes
  PROVE  LET c == NextFile(me)
             plan == {m \in me.plan : m.file # File}
         IN /\ c \in CmdRec(c.before) /\ Files(c.before) /\ IsFiniteSet(c.plan)
            /\ c.plan = plan /\ c.appended = {} /\ c.at = (IF plan = {} THEN "idle" ELSE "file")
            /\ c.before = IF plan = {} THEN <<>> ELSE me.before
  <1> DEFINE plan == {m \in me.plan : m.file # File}
             b == IF plan = {} THEN <<>> ELSE me.before
             ms == IF plan = {} THEN {} ELSE me.marks
             c == [me EXCEPT !.at = IF plan = {} THEN "idle" ELSE "file", !.plan = plan, !.appended = {},
                             !.before = b, !.marks = ms, !.seen = <<>>]
  <1>1. NextFile(me) = c BY DEF NextFile
  <1>2. plan \subseteq me.plan OBVIOUS
  <1>3. IsFiniteSet(plan) /\ plan \subseteq MarkOf \cup [at : Nat, file : Names] BY <1>2, CmdFacts, FS_Subset
  <1>4. Files(b) BY EmptyFiles DEF Shapes
  <1>5. ms \subseteq MarkOf BY CmdFacts
  <1>6. me \in CmdRec(me.before) BY CmdFacts
  <1>7. <<>> \in Seq(Ids) OBVIOUS
  <1> HIDE DEF plan, b, ms
  <1>8. c \in CmdRec(b) /\ c.before = b /\ c.plan = plan /\ c.appended = {} /\ c.at = (IF plan = {} THEN "idle" ELSE "file")
    BY <1>3, <1>5, <1>6, <1>7 DEF CmdRec
  <1> HIDE DEF c
  <1>9. c \in CmdRec(c.before) /\ Files(c.before) /\ IsFiniteSet(c.plan) BY <1>3, <1>4, <1>8
  <1> QED BY <1>1, <1>8, <1>9 DEF plan, b

\* Every step of the user's command keeps the shapes.
LEMMA ShapesOfCommand ==
  ASSUME Shapes, Commands,
         List \/ Triage \/ Append1 \/ Splice \/ MoveWhole \/ RemoveFile \/ Clear \/ Rename \/ KillCommand
  PROVE  Shapes'
  <1> USE SameInbox
  <1>1. /\ me \in CmdRec(me.before) /\ Files(me.before) /\ IsFiniteSet(me.plan) /\ me.count \in 0 .. MaxCommands
        /\ archive \in [Names -> SUBSET Entries] /\ swept \subseteq Ids
    BY DEF Shapes, CmdRec, Entries
  <1>2. <<>> \in Seq(Ids) OBVIOUS
  <1>3. CASE List
    <2> DEFINE ids == [k \in DOMAIN Loaded |-> Loaded[k].id]
               x == [me EXCEPT !.seen = ids]
    <2>1. me' = x /\ UNCHANGED <<inbox, archive, run, alone, swept>> BY <1>3 DEF List
    <2>2. ids \in Seq(Ids)
      <3>1. Loaded \in Seq(Lines) BY LoadedShows
      <3>2. DOMAIN Loaded = 1 .. Len(Loaded) /\ Len(Loaded) \in Nat /\ \A k \in DOMAIN Loaded : Loaded[k] \in Lines
        BY <3>1
      <3>3. \A k \in DOMAIN Loaded : Loaded[k].id \in Ids BY <3>2 DEF Lines
      <3>4. ids \in [1 .. Len(Loaded) -> Ids] BY <3>2, <3>3
      <3> QED BY <3>2, <3>4
    <2> HIDE DEF ids
    <2>3. x \in CmdRec(me.before) /\ x.before = me.before /\ x.plan = me.plan BY <1>1, <2>2 DEF CmdRec
    <2> HIDE DEF x
    <2> QED BY <1>1, <2>1, <2>3, CmdShapes DEF Entries
  <1>4. CASE Triage
    <2>1. PICK marks \in Marks :
            me' = IF DOMAIN marks \subseteq DOMAIN Loaded
                  THEN [me EXCEPT !.at = "file", !.marks = Marked(marks, Loaded), !.plan = Marked(marks, Loaded), !.before = inbox, !.count = @ + 1]
                  ELSE [me EXCEPT !.count = @ + 1, !.seen = <<>>]
      BY <1>4 DEF Triage
    <2>2. me.count + 1 \in 0 .. MaxCommands
      <3>1. me.count < MaxCommands BY <1>4 DEF Triage
      <3> QED BY <1>1, <3>1, InboxBounds
    <2>3. UNCHANGED <<inbox, archive, run, alone, swept>> BY <1>4 DEF Triage
    <2>4. CASE DOMAIN marks \subseteq DOMAIN Loaded
      <3> DEFINE ms == Marked(marks, Loaded)
                 x == [me EXCEPT !.at = "file", !.marks = ms, !.plan = ms, !.before = inbox, !.count = me.count + 1]
      <3>1. ms \subseteq MarkOf /\ IsFiniteSet(ms) BY <2>4, MarkedFacts
      <3>2. me' = x BY <2>1, <2>4
      <3> HIDE DEF ms
      <3>3. x \in CmdRec(inbox) /\ x.before = inbox /\ x.plan = ms BY <1>1, <2>2, <3>1 DEF CmdRec
      <3>4. Files(inbox) BY DEF Shapes
      <3> HIDE DEF x
      <3> QED BY <1>1, <2>3, <3>1, <3>2, <3>3, <3>4, CmdShapes DEF Entries
    <2>5. CASE ~(DOMAIN marks \subseteq DOMAIN Loaded)
      <3> DEFINE x == [me EXCEPT !.count = me.count + 1, !.seen = <<>>]
      <3>1. me' = x BY <2>1, <2>5
      <3>2. x \in CmdRec(me.before) /\ x.before = me.before /\ x.plan = me.plan BY <1>1, <1>2, <2>2 DEF CmdRec
      <3> HIDE DEF x
      <3> QED BY <1>1, <2>3, <3>1, <3>2, CmdShapes DEF Entries
    <2> QED BY <2>4, <2>5
  <1>5. CASE Append1
    <2>1. PICK m \in OfFile : /\ archive' = [archive EXCEPT ![File] = @ \cup {Entry(m)}]
                              /\ me' = [me EXCEPT !.appended = @ \cup {m.seg}]
      BY <1>5 DEF Append1
    <2>2. m \in MarkOf /\ me.plan # {} BY <1>5, <2>1 DEF Append1, Commands, OfFile
    <2>3. Entry(m) \in Entries /\ m.seg \in Nat BY <2>2 DEF Entry, MarkOf, Entries
    <2>4. archive' \in [Names -> SUBSET Entries] BY <1>1, <2>1, <2>3
    <2> DEFINE x == [me EXCEPT !.appended = @ \cup {m.seg}]
    <2>5. me.appended \cup {m.seg} \subseteq Nat BY <2>3, CmdFacts
    <2>6. x \in CmdRec(me.before) /\ x.before = me.before /\ x.plan = me.plan BY <1>1, <2>5 DEF CmdRec
    <2>7. me' = x /\ UNCHANGED <<inbox, run, alone, swept>> BY <1>5, <2>1 DEF Append1
    <2> HIDE DEF x
    <2> QED BY <1>1, <2>4, <2>6, <2>7, CmdShapes DEF Entries
  <1>6. CASE Splice
    <2>1. me' = NextFile(me) /\ inbox' = Put(File, Rest(Segs)) /\ UNCHANGED <<archive, run, alone, swept>>
      BY <1>6 DEF Splice
    <2>2. me.plan # {} /\ File \in DOMAIN me.before /\ Rest(Segs) # <<>>
      <3>1. me.plan # {} /\ \A m \in me.plan : m.file \in DOMAIN me.before BY <1>6 DEF Splice, Commands
      <3> QED BY <1>6, <3>1, FileIsPlanned DEF Splice
    <2>3. Rest(Segs) \in Seq(Found) /\ File \in Names BY <2>2, RestFacts, FileIsPlanned
    <2>4. Files(inbox)' /\ \A g \in DOMAIN inbox' : inbox'[g] # <<>> BY <2>1, <2>2, <2>3, PutFacts
    <2>5. me' \in CmdRec(me'.before) /\ Files(me'.before) /\ IsFiniteSet(me'.plan) BY <2>1, NextFacts
    <2> QED BY <1>1, <2>1, <2>4, <2>5, CmdShapes DEF Entries
  <1>7. CASE MoveWhole
    <2>1. /\ archive' = [archive EXCEPT ![File] = @ \cup {Entry(m) : m \in OfFile}] /\ me' = [me EXCEPT !.at = "remove"]
          /\ UNCHANGED <<inbox, run, alone, swept>>
      BY <1>7 DEF MoveWhole
    <2>2. \A m \in OfFile : m \in MarkOf BY <1>7 DEF MoveWhole, Commands, OfFile
    <2>3. {Entry(m) : m \in OfFile} \subseteq Entries BY <2>2 DEF Entry, MarkOf, Entries
    <2>4. archive' \in [Names -> SUBSET Entries] BY <1>1, <2>1, <2>3
    <2> DEFINE x == [me EXCEPT !.at = "remove"]
    <2>5. x \in CmdRec(me.before) /\ x.before = me.before /\ x.plan = me.plan BY <1>1 DEF CmdRec
    <2>6. me' = x BY <2>1
    <2> HIDE DEF x
    <2> QED BY <1>1, <2>1, <2>4, <2>5, <2>6, CmdShapes DEF Entries
  <1>8. CASE RemoveFile
    <2>1. me' = NextFile(me) /\ inbox' = Without(File) /\ UNCHANGED <<archive, run, alone, swept>>
      BY <1>8 DEF RemoveFile
    <2>2. Files(inbox)' /\ \A g \in DOMAIN inbox' : inbox'[g] # <<>> BY <2>1, WithoutFacts
    <2>3. me' \in CmdRec(me'.before) /\ Files(me'.before) /\ IsFiniteSet(me'.plan) BY <2>1, NextFacts
    <2> QED BY <1>1, <2>1, <2>2, <2>3, CmdShapes DEF Entries
  <1>9. CASE Clear
    <2> DEFINE T(f) == [at |-> f, file |-> f]
               plan == {T(f) : f \in DOMAIN inbox}
               named == [f \in DOMAIN inbox |-> T(f)]
               x == [me EXCEPT !.at = "clear", !.plan = plan, !.count = me.count + 1]
    <2>1. me' = x /\ UNCHANGED <<inbox, archive, run, alone, swept>> BY <1>9 DEF Clear
    <2>2. me.count + 1 \in 0 .. MaxCommands BY <1>1, <1>9, InboxBounds DEF Clear
    <2>3. \A f \in DOMAIN inbox : f \in Names /\ f \in Nat BY FileFacts
    <2>4. IsFiniteSet(DOMAIN inbox)
      <3>1. DOMAIN inbox \subseteq Names BY <2>3
      <3> QED BY <3>1, NamesAreNumbers, FS_Subset
    <2>5. named \in Surjection(DOMAIN inbox, plan) BY DEF Surjection
    <2>6. IsFiniteSet(plan)
      <3> HIDE DEF named, plan
      <3> QED BY <2>4, <2>5, FS_Surjection
    <2>7. plan \subseteq [at : Nat, file : Names] BY <2>3
    <2> HIDE DEF plan
    <2>8. x \in CmdRec(me.before) /\ x.before = me.before /\ x.plan = plan BY <1>1, <2>2, <2>7 DEF CmdRec
    <2> HIDE DEF x
    <2> QED BY <1>1, <2>1, <2>6, <2>8, CmdShapes DEF Entries
  <1>10. CASE Rename
    <2>1. UNCHANGED <<run, alone>> BY <1>10 DEF Rename
    <2>2. CASE File \in DOMAIN inbox
      <3> DEFINE c == NextFile(me)
                 x == [c EXCEPT !.at = IF c.at = "idle" THEN "idle" ELSE "clear"]
      <3>1. /\ archive' = [archive EXCEPT ![File] = Moved(File)] /\ inbox' = Without(File)
            /\ swept' = swept \cup {e.id : e \in archive[File]} /\ me' = x
        BY <1>10, <2>2 DEF Rename
      <3>2. File \in Names /\ \A y \in Range(inbox[File]) : y \in Found
        <4>1. File \in Names /\ inbox[File] \in Seq(Found) BY <2>2, FileFacts
        <4> QED BY <4>1 DEF Range
      <3>3. Moved(File) \subseteq Entries BY <3>2 DEF Moved, Entries, Found
      <3>4. archive' \in [Names -> SUBSET Entries] BY <1>1, <3>1, <3>3
      <3>5. swept' \subseteq Ids BY <1>1, <3>1, <3>2 DEF Entries
      <3>6. Files(inbox)' /\ \A g \in DOMAIN inbox' : inbox'[g] # <<>> BY <3>1, WithoutFacts
      <3>7. c \in CmdRec(c.before) /\ Files(c.before) /\ IsFiniteSet(c.plan) BY NextFacts
      <3> HIDE DEF c
      <3>8. x \in CmdRec(c.before) /\ x.before = c.before /\ x.plan = c.plan BY <3>7 DEF CmdRec
      <3> HIDE DEF x
      <3>9. me' \in CmdRec(me'.before) /\ Files(me'.before) /\ IsFiniteSet(me'.plan) BY <3>1, <3>7, <3>8
      <3> QED BY <2>1, <3>4, <3>5, <3>6, <3>9, CmdShapes DEF Entries
    <2>3. CASE File \notin DOMAIN inbox
      <3> DEFINE x == [me EXCEPT !.at = "idle", !.plan = {}]
      <3>1. me' = x /\ UNCHANGED <<inbox, archive, swept>> BY <1>10, <2>3 DEF Rename
      <3>2. x \in CmdRec(me.before) /\ x.before = me.before /\ x.plan = {} BY <1>1 DEF CmdRec
      <3> HIDE DEF x
      <3> QED BY <1>1, <2>1, <3>1, <3>2, CmdShapes, FS_EmptySet DEF Entries
    <2> QED BY <2>2, <2>3
  <1>11. CASE KillCommand
    <2> DEFINE x == [me EXCEPT !.at = "idle", !.plan = {}, !.appended = {}, !.before = <<>>, !.marks = {}, !.seen = <<>>]
    <2>1. me' = x /\ UNCHANGED <<inbox, archive, run, alone, swept>> BY <1>11 DEF KillCommand
    <2>2. x \in CmdRec(<<>>) /\ x.before = <<>> /\ x.plan = {} BY <1>1, <1>2 DEF CmdRec
    <2> HIDE DEF x
    <2> QED BY <1>1, <2>1, <2>2, EmptyFiles, CmdShapes, FS_EmptySet DEF Entries
  <1> QED BY <1>3, <1>4, <1>5, <1>6, <1>7, <1>8, <1>9, <1>10, <1>11

\* A step carries on what is in the files: some findings become kept, and every file in use is in use
\* after it and holds what it held before, but for those.
Carries ==
  \E gone : /\ Kept' = Kept \cup gone
            /\ \A f \in Names : Used(f) => Used(f)' /\ Holds(f)' = Holds(f) \ gone

\* What a step that carries on carries on: what is safe, which files are in use, and that a copy of a file agrees with it.
LEMMA CarriedOn ==
  ASSUME Shapes, Carries
  PROVE  /\ \A x : Safe(x) => Safe(x)'
         /\ Kept \subseteq Kept'
         /\ \A f \in Names : Used(f) => Used(f)'
         /\ \A s, f : f \in Names /\ Used(f) /\ Left(s, Kept) = Holds(f) => Left(s, Kept') = Holds(f)'
         /\ \A s : Left(s, Kept) = {} => Left(s, Kept') = {}
  <1>1. PICK gone : /\ Kept' = Kept \cup gone
                    /\ \A f \in Names : Used(f) => Used(f)' /\ Holds(f)' = Holds(f) \ gone
    BY DEF Carries
  <1>2. ASSUME NEW x, Safe(x) PROVE Safe(x)'
    <2>1. CASE x \in Kept \cup {Gone} BY <1>1, <2>1 DEF Safe
    <2>2. CASE x \notin Kept \cup {Gone}
      <3>1. PICK f \in DOMAIN inbox : x \in IdsOf(inbox[f]) BY <1>2, <2>2, LiveIdsAre DEF Safe
      <3>2. x \in Holds(f) BY <2>2, <3>1 DEF Holds, Left
      <3>3. f \in Names /\ Used(f) BY FileFacts DEF Used
      <3>4. CASE x \in gone BY <1>1, <3>4 DEF Safe
      <3>5. CASE x \notin gone
        <4>1. x \in Holds(f)' BY <1>1, <3>2, <3>3, <3>5
        <4>2. f \in DOMAIN inbox' /\ x \in IdsOf(inbox'[f]) BY <4>1 DEF Holds, Left
        <4>3. x \in LiveIds' BY <4>2, LiveIdsAre
        <4> QED BY <4>3 DEF Safe
      <3> QED BY <3>4, <3>5
    <2> QED BY <2>1, <2>2
  <1>3. \A s : Left(s, Kept') = Left(s, Kept) \ gone BY <1>1 DEF Left
  <1>4. ASSUME NEW s, NEW f \in Names, Used(f), Left(s, Kept) = Holds(f) PROVE Left(s, Kept') = Holds(f)'
    BY <1>1, <1>3, <1>4
  <1> QED BY <1>1, <1>2, <1>3, <1>4

\* A step that touches no file carries on.
LEMMA NothingMoved ==
  ASSUME UNCHANGED <<inbox, archive, swept>> PROVE Carries
  <1>1. Kept' = Kept BY DEF Kept, ArchivedIds, Archived
  <1>2. \A f : Used(f)' = Used(f) BY DEF Used
  <1>3. \A f : Holds(f)' = Holds(f) BY <1>1 DEF Holds
  <1>4. Kept' = Kept \cup {} /\ \A f \in Names : Used(f) => Used(f)' /\ Holds(f)' = Holds(f) \ {} BY <1>1, <1>2, <1>3
  <1> QED BY <1>4 DEF Carries

\* What is kept changes only with the archive and what was swept out of it.
LEMMA KeptSame == ASSUME UNCHANGED <<archive, swept>> PROVE Kept' = Kept
  BY DEF Kept, ArchivedIds, Archived

\* A file that is written with what it holds, and one that takes what nobody held.
LEMMA RewriteCarries ==
  ASSUME Shapes, NEW f \in Names, NEW s \in Seq(Found), s # <<>>, inbox' = Put(f, s), UNCHANGED <<archive, swept>>,
         Left(s, Kept) = Holds(f) \/ ~Used(f)
  PROVE  Carries
  <1>1. Kept' = Kept BY KeptSame
  <1>2. /\ DOMAIN inbox' = DOMAIN inbox \cup {f} /\ inbox'[f] = s
        /\ \A g \in DOMAIN inbox : g # f => inbox'[g] = inbox[g]
    BY PutFacts
  <1>3. ASSUME NEW g \in Names, Used(g) PROVE Used(g)' /\ Holds(g)' = Holds(g)
    <2>1. Used(g)' BY <1>2, <1>3 DEF Used
    <2>2. CASE g = f
      <3>1. Left(s, Kept) = Holds(f) BY <1>3, <2>2
      <3>2. Holds(g)' = Left(inbox'[g], Kept') BY <1>2, <2>2 DEF Holds
      <3>3. inbox'[g] = s /\ Kept' = Kept BY <1>1, <1>2, <2>2
      <3>4. Holds(g)' = Left(s, Kept) BY <3>2, <3>3
      <3>5. Holds(g) = Holds(f) BY <2>2
      <3> QED BY <2>1, <3>1, <3>4, <3>5
    <2>3. CASE g # f
      <3>1. g \in DOMAIN inbox' <=> g \in DOMAIN inbox BY <1>2, <2>3
      <3>2. g \in DOMAIN inbox => inbox'[g] = inbox[g] BY <1>2, <2>3
      <3>3. Holds(g)' = IF g \in DOMAIN inbox' THEN Left(inbox'[g], Kept') ELSE {} BY DEF Holds
      <3>4. Holds(g) = IF g \in DOMAIN inbox THEN Left(inbox[g], Kept) ELSE {} BY DEF Holds
      <3>5. Holds(g)' = IF g \in DOMAIN inbox THEN Left(inbox'[g], Kept) ELSE {} BY <1>1, <3>1, <3>3
      <3> QED BY <2>1, <3>2, <3>4, <3>5
    <2> QED BY <2>1, <2>2, <2>3
  <1>4. Kept' = Kept \cup {} /\ \A g \in Names : Used(g) => Used(g)' /\ Holds(g)' = Holds(g) \ {} BY <1>1, <1>3
  <1> QED BY <1>4 DEF Carries

\* An entry more in the archive: what it names is kept.
LEMMA ArchiveCarries ==
  ASSUME Shapes, NEW f \in Names, NEW es, archive' = [archive EXCEPT ![f] = @ \cup es], UNCHANGED <<inbox, swept>>
  PROVE  Carries /\ \A e \in es : e.id \in Kept'
  <1> DEFINE gone == {e.id : e \in es}
  <1>1. \A g \in Names : archive'[g] = IF g = f THEN archive[f] \cup es ELSE archive[g] BY DEF Shapes
  <1>2. \A x : x \in ArchivedIds' <=> x \in ArchivedIds \/ x \in gone BY <1>1, ArchivedIdsAre
  <1>3. Kept' = Kept \cup gone BY <1>2 DEF Kept
  <1>4. \A g \in Names : Used(g) => Used(g)' BY <1>1 DEF Used
  <1>5. \A g : Holds(g)' = Holds(g) \ gone BY <1>3 DEF Holds, Left
  <1>6. Carries
    <2> HIDE DEF gone
    <2> QED BY <1>3, <1>4, <1>5 DEF Carries
  <1> QED BY <1>3, <1>6

\* A file goes of which nothing is left; the archive is that of a file that was there.
LEMMA RemovalCarries ==
  ASSUME Shapes, NEW f \in Names, Holds(f) = {}, archive[f] # {}, inbox' = Without(f), UNCHANGED <<archive, swept>>
  PROVE  Carries
  <1>1. Kept' = Kept BY KeptSame
  <1>2. DOMAIN inbox' = DOMAIN inbox \ {f} /\ \A g \in DOMAIN inbox : g # f => inbox'[g] = inbox[g] BY WithoutFacts
  <1>3. ASSUME NEW g \in Names, Used(g) PROVE Used(g)' /\ Holds(g)' = Holds(g)
    <2>1. CASE g = f
      <3>1. Holds(g)' = {} BY <1>2, <2>1 DEF Holds
      <3> QED BY <2>1, <3>1 DEF Used
    <2>2. CASE g # f
      <3>1. g \in DOMAIN inbox' <=> g \in DOMAIN inbox BY <1>2, <2>2
      <3> QED BY <1>1, <1>2, <1>3, <2>2, <3>1 DEF Holds, Used
    <2> QED BY <2>1, <2>2
  <1>4. Kept' = Kept \cup {} /\ \A g \in Names : Used(g) => Used(g)' /\ Holds(g)' = Holds(g) \ {} BY <1>1, <1>3
  <1> QED BY <1>4 DEF Carries

\* A file moved over its name in the archive: its findings are kept, and so is what it overwrote.
LEMMA SweepCarries ==
  ASSUME Shapes, NEW f \in DOMAIN inbox, archive' = [archive EXCEPT ![f] = Moved(f)], inbox' = Without(f),
         swept' = swept \cup {e.id : e \in archive[f]}
  PROVE  Carries
  <1> DEFINE gone == IdsOf(inbox[f])
  <1>1. f \in Names /\ inbox[f] \in Seq(Found) /\ inbox[f] # <<>> BY FileFacts
  <1>2. \A g \in Names : archive'[g] = IF g = f THEN Moved(f) ELSE archive[g] BY DEF Shapes
  <1>3. \A x : x \in gone <=> \E e \in Moved(f) : e.id = x
    <2>1. \A x : x \in gone <=> \E y \in Range(inbox[f]) : y.id = x BY DEF IdsOf, Range
    <2>2. \A y \in Range(inbox[f]) : [id |-> y.id, how |-> "cleared"] \in Moved(f) BY DEF Moved
    <2>3. \A e \in Moved(f) : \E y \in Range(inbox[f]) : e = [id |-> y.id, how |-> "cleared"] BY DEF Moved
    <2>4. \A id0 : [id |-> id0, how |-> "cleared"].id = id0 OBVIOUS
    <2> HIDE DEF gone
    <2>5. ASSUME NEW x, NEW e \in Moved(f), e.id = x PROVE x \in gone
      <3>1. PICK y \in Range(inbox[f]) : e = [id |-> y.id, how |-> "cleared"] BY <2>3
      <3>2. e.id = y.id BY <2>4, <3>1
      <3> QED BY <2>1, <2>5, <3>2
    <2>6. ASSUME NEW x \in gone PROVE \E e \in Moved(f) : e.id = x
      <3>1. PICK y \in Range(inbox[f]) : y.id = x BY <2>1
      <3> DEFINE e == [id |-> y.id, how |-> "cleared"]
      <3>2. e \in Moved(f) /\ e.id = x BY <2>2, <3>1
      <3> HIDE DEF e
      <3> QED BY <3>2
    <2> QED BY <2>5, <2>6
  <1>4. Moved(f) # {}
    <2>1. \A s : s \in Seq(Found) /\ s # <<>> => DOMAIN s # {} OBVIOUS
    <2>2. PICK k : k \in DOMAIN inbox[f] BY <1>1, <2>1
    <2>3. inbox[f][k].id \in gone BY <2>2 DEF IdsOf
    <2> HIDE DEF gone
    <2> QED BY <1>3, <2>3
  <1> HIDE DEF gone
  <1>5. \A x : x \in Kept' <=> x \in Kept \/ x \in gone
    <2>1. \A x : x \in ArchivedIds' \/ x \in swept' <=> x \in ArchivedIds \/ x \in swept \/ x \in gone
      BY <1>1, <1>2, <1>3, ArchivedIdsAre
    <2> QED BY <2>1 DEF Kept
  <1>6. Kept' = Kept \cup gone BY <1>5
  <1>7. DOMAIN inbox' = DOMAIN inbox \ {f} /\ \A g \in DOMAIN inbox : g # f => inbox'[g] = inbox[g] BY WithoutFacts
  <1>8. ASSUME NEW g \in Names, Used(g) PROVE Used(g)' /\ Holds(g)' = Holds(g) \ gone
    <2>1. CASE g = f
      <3>1. Holds(g)' = {} BY <1>7, <2>1 DEF Holds
      <3>2. Holds(g) \ gone = {} BY <2>1 DEF Holds, Left, gone
      <3>3. Used(g)' BY <1>1, <1>2, <1>4, <2>1 DEF Used
      <3> QED BY <3>1, <3>2, <3>3
    <2>2. CASE g # f
      <3>1. g \in DOMAIN inbox' <=> g \in DOMAIN inbox BY <1>7, <2>2
      <3>2. Used(g)' BY <1>2, <1>8, <2>2, <3>1 DEF Used
      <3>3. Holds(g)' = Holds(g) \ gone BY <1>6, <1>7, <2>2, <3>1 DEF Holds, Left
      <3> QED BY <3>2, <3>3
    <2> QED BY <2>1, <2>2
  <1> QED BY <1>6, <1>8 DEF Carries

-----------------------------------------------------------------------------
\* A reflection that stands still: its copy of a file and its targets are as good as before.
LEMMA OthersRoute ==
  ASSUME Shapes, Carries, NEW q \in Runs, Routes(q), run'[q] = run[q]
  PROVE  Routes(q)'
  <1>1. Here(q)' = Here(q) BY DEF Here
  <1>2. \A k \in DOMAIN run[q].live : run[q].live[k].file \in Names
    <2>1. run[q].live \in Seq(Lines) BY RunFacts
    <2>2. \A k \in DOMAIN run[q].live : run[q].live[k] \in Lines BY <2>1
    <2> QED BY <2>2 DEF Lines
  <1>3. \A t \in run[q].bump : t.file \in Names BY RunFacts DEF Aims
  <1>4. run[q].at = "write" => Left(run[q].buf, Kept') = Holds(Here(q))'
    <2> SUFFICES ASSUME run[q].at = "write" PROVE Left(run[q].buf, Kept') = Holds(Here(q))' OBVIOUS
    <2>1. PICK t \in run[q].bump : t.file = Here(q) BY HereIsAimed DEF Routes
    <2>2. Used(Here(q)) /\ Here(q) \in Names BY <1>3, <2>1 DEF Routes
    <2>3. \A s, f : f \in Names /\ Used(f) /\ Left(s, Kept) = Holds(f) => Left(s, Kept') = Holds(f)' BY CarriedOn
    <2>4. Left(run[q].buf, Kept) = Holds(Here(q)) BY DEF Routes
    <2>5. \A f : Here(q) = f => Holds(f)' = Holds(Here(q))' BY <1>1
    <2> QED BY <2>2, <2>3, <2>4, <2>5
  <1>5. Left(run'[q].buf, Kept') = Left(run[q].buf, Kept') OBVIOUS
  <1>6. run[q].at = "write" => (Left(run[q].buf, Kept) = Holds(Here(q)))'  BY <1>1, <1>4, <1>5
  <1>7. \A x : Safe(x) => Safe(x)' BY CarriedOn
  <1>8. \A f \in Names : Used(f) => Used(f)' BY CarriedOn
  <1> QED BY <1>2, <1>3, <1>6, <1>7, <1>8 DEF Routes

\* A command that stands still: the files it loaded agree with those there are.
LEMMA CommandWaits ==
  ASSUME Shapes, Carries, Commands, UNCHANGED <<me, archive>>
  PROVE  Commands'
  <1>1. File' = File /\ OfFile' = OfFile /\ Segs' = Segs BY DEF File, OfFile, Segs
  <1>2. \A f \in DOMAIN me.before : f \in Names BY CmdFacts
  <1>3. ASSUME me.at \in {"file", "remove"}, NEW f \in DOMAIN me.before
        PROVE  me'.before[f] # <<>> /\ Used(f)' /\ Left(me'.before[f], Kept') = Holds(f)'
    <2>1. me.before[f] # <<>> /\ Used(f) /\ Left(me.before[f], Kept) = Holds(f) BY <1>3 DEF Commands
    <2>2. \A s, g : g \in Names /\ Used(g) /\ Left(s, Kept) = Holds(g) => Left(s, Kept') = Holds(g)' BY CarriedOn
    <2>3. \A g \in Names : Used(g) => Used(g)' BY CarriedOn
    <2> QED BY <1>2, <2>1, <2>2, <2>3
  <1>4. me.at = "file" => \A m \in OfFile' : m.seg \in me'.appended => m.id \in Kept' BY <1>1, CarriedOn DEF Commands
  <1>5. me.at = "remove" => archive'[File'] # {} /\ Left(me'.before[File'], Kept') = {} BY <1>1, CarriedOn DEF Commands
  <1>6. me.at = "file" => me'.appended \subseteq Segs' BY <1>1 DEF Commands
  <1>7. /\ me' = me /\ (me.at = "clear" => me.plan # {} /\ me.plan \subseteq [at : Nat, file : Names])
        /\ me.at \in {"idle", "clear"} => me.appended = {}
    BY DEF Commands
  <1>8. me.at \in {"file", "remove"} =>
          /\ me.plan # {} /\ me.plan \subseteq MarkOf
          /\ \A m \in me.plan : /\ m.file \in DOMAIN me.before /\ m.seg \in DOMAIN me.before[m.file]
                                /\ m.id = me.before[m.file][m.seg].id
    BY DEF Commands
  <1>9. me.at \in {"file", "remove"} =>
          \A f \in DOMAIN me'.before : me'.before[f] # <<>> /\ Used(f)' /\ Left(me'.before[f], Kept') = Holds(f)'
    BY <1>3, <1>7
  <1> QED BY <1>4, <1>5, <1>6, <1>7, <1>8, <1>9 DEF Commands

\* A sequence that is not empty has a place.
LEMMA SomethingInIt == \A s : s \in Seq(Found) /\ s # <<>> => DOMAIN s # {}
  <1> SUFFICES ASSUME NEW s \in Seq(Found), s # <<>> PROVE DOMAIN s # {} OBVIOUS
  <1>1. DOMAIN s = 1 .. Len(s) /\ Len(s) \in Nat OBVIOUS
  <1>2. Len(s) # 0 BY EmptySeq
  <1> QED BY <1>1, <1>2

\* A step of a reflection that carries on keeps everything but its own part.
LEMMA ReflectionKeeps ==
  ASSUME Preserved, NEW r \in Runs, Carries, \A q \in Runs : q # r => run'[q] = run[q], Routes(r)', UNCHANGED <<me, archive>>
  PROVE  Reflections' /\ Commands' /\ \A x \in StartIds : Safe(x)'
  <1>1. ASSUME NEW q \in Runs PROVE Routes(q)'
    <2>1. CASE q = r BY <2>1
    <2>2. CASE q # r BY <2>2, OthersRoute DEF Preserved, Reflections
    <2> QED BY <2>1, <2>2
  <1>2. Commands' BY CommandWaits DEF Preserved
  <1>3. \A x \in StartIds : Safe(x)' BY CarriedOn DEF Preserved
  <1>4. Reflections' BY <1>1 DEF Reflections
  <1> QED BY <1>2, <1>3, <1>4

\* Reflect: the inbox as it is loaded.
LEMMA ReflectRoutes ==
  ASSUME Preserved, NEW r \in Runs, Reflect(r)
  PROVE  Carries /\ Routes(r)'
  <1>1. Shapes /\ Routes(r) BY DEF Preserved, Reflections
  <1>2. PICK rep \in Reports : run' = [run EXCEPT ![r] = [@ EXCEPT !.at = "match", !.report = rep, !.live = Loaded]]
    BY DEF Reflect
  <1>3. run[r] \in RunRec /\ DOMAIN run = Runs BY <1>1, RunFacts
  <1>4. run'[r].at = "match" /\ run'[r].report = rep /\ run'[r].live = Loaded /\ run'[r].to = <<>> /\ run'[r].bump = {}
    <2>1. run[r].to = <<>> /\ run[r].bump = {} BY <1>1 DEF Reflect, Routes
    <2> QED BY <1>2, <1>3, <2>1 DEF RunRec
  <1>5. Carries BY NothingMoved DEF Reflect
  <1>6. ASSUME NEW k \in DOMAIN Loaded PROVE Safe(Loaded[k].id)' /\ Used(Loaded[k].file)'
    <2> DEFINE x0 == Loaded[k].id
               f == Loaded[k].file
    <2>1. f \in DOMAIN inbox /\ \E h \in DOMAIN inbox[f] : x0 = inbox[f][h].id BY <1>1, LoadedShows
    <2>2. f \in Names BY <1>1, <2>1, FileFacts
    <2>3. UNCHANGED <<inbox, archive, swept>> BY DEF Reflect
    <2>4. x0 \in IdsOf(inbox[f]) BY <2>1 DEF IdsOf
    <2> HIDE DEF x0, f
    <2>5. x0 \in LiveIds' BY <2>1, <2>3, <2>4, LiveIdsAre
    <2>6. f \in DOMAIN inbox' BY <2>1, <2>3
    <2>7. f = Loaded[k].file /\ x0 = Loaded[k].id BY DEF f, x0
    <2>8. Loaded' = Loaded BY <2>3 DEF Loaded, Listing, Places, Earlier
    <2> QED BY <2>5, <2>6, <2>7, <2>8 DEF Safe, Used
  <1>7. \A k \in DOMAIN run'[r].live : Safe(run[r].live[k].id)' /\ Used(run[r].live[k].file)'
    <2>1. Loaded' = Loaded BY DEF Reflect, Loaded, Listing, Places, Earlier
    <2> QED BY <1>4, <1>6, <2>1 DEF Safe, Used
  <1>8. Routes(r)' BY <1>4, <1>7 DEF Routes
  <1> QED BY <1>5, <1>8

\* MatchUp: a section counts for its own finding or for one of the inbox.
LEMMA MatchUpRoutes ==
  ASSUME Preserved, NEW r \in Runs, MatchUp(r)
  PROVE  Carries /\ Routes(r)'
  <1>1. Shapes /\ Routes(r) /\ run[r].at = "match" /\ run[r].report \in Reports
    BY DEF Preserved, Reflections, MatchUp, Routes
  <1>2. PICK m \in Judgments(r) : run' = [run EXCEPT ![r] = [@ EXCEPT !.at = "count", !.to = [j \in DOMAIN Matched(r, m) |-> IdOf(r, Matched(r, m)[j], j)],
                                           !.bump = Targets(r, Matched(r, m)), !.live = <<>>]] BY DEF MatchUp
  <1> DEFINE to == Matched(r, m)
             ids == [j \in DOMAIN to |-> IdOf(r, to[j], j)]
  <1>3. run[r] \in RunRec /\ DOMAIN run = Runs BY <1>1, RunFacts
  <1>4. run'[r].at = "count" /\ run'[r].report = run[r].report /\ run'[r].to = ids /\ run'[r].bump = Targets(r, to)
    BY <1>2, <1>3 DEF RunRec
  <1>5. /\ DOMAIN to = DOMAIN run[r].report /\ \A j \in DOMAIN to : to[j] \in {0} \cup DOMAIN run[r].live
        /\ Targets(r, to) \subseteq Aims
        /\ \A t \in Targets(r, to) : /\ t.j \in DOMAIN to /\ to[t.j] \in DOMAIN run[r].live
                                     /\ t.file = run[r].live[to[t.j]].file /\ t.seg = run[r].live[to[t.j]].seg
    BY <1>1, TargetFacts
  <1>6. Carries BY NothingMoved DEF MatchUp
  <1>7. \A k \in DOMAIN run[r].live : Safe(run[r].live[k].id) /\ Used(run[r].live[k].file) BY <1>1 DEF Routes
  <1>8. DOMAIN run[r].live \subseteq Nat \ {0}
    <2>1. run[r].live \in Seq(Lines) BY <1>1, RunFacts
    <2> QED BY <2>1
  <1> HIDE DEF to
  <1>9. ASSUME NEW j \in DOMAIN ids PROVE ids[j] = <<r, j>> \/ ids[j] \in LiveIds' \cup Kept' \cup {Gone}
    <2>1. j \in DOMAIN to /\ ids[j] = IdOf(r, to[j], j) OBVIOUS
    <2>2. CASE to[j] = 0 BY <2>1, <2>2 DEF IdOf
    <2>3. CASE to[j] \in DOMAIN run[r].live
      <3>1. ids[j] = run[r].live[to[j]].id BY <1>8, <2>1, <2>3 DEF IdOf
      <3>2. Safe(ids[j]) BY <1>7, <2>3, <3>1
      <3> HIDE DEF ids
      <3>3. ids[j] \in LiveIds' \cup Kept' \cup {Gone}
        <4>1. LiveIds' = LiveIds /\ Kept' = Kept BY DEF MatchUp, LiveIds, Live, Kept, ArchivedIds, Archived
        <4> QED BY <3>2, <4>1 DEF Safe
      <3> QED BY <3>3
    <2> QED BY <1>5, <2>1, <2>2, <2>3
  <1> HIDE DEF ids
  <1>10. ASSUME NEW t \in Targets(r, to) PROVE t.file \in DOMAIN inbox' \/ archive'[t.file] # {}
    <2>1. Used(t.file) BY <1>5, <1>7
    <2> QED BY <2>1 DEF Used, MatchUp
  <1>11. DOMAIN ids = DOMAIN run[r].report BY <1>5 DEF ids
  <1>12. \A k \in DOMAIN run'[r].to : run'[r].to[k] = <<r, k>> \/ run'[r].to[k] \in LiveIds' \cup Kept' \cup {Gone}
    BY <1>4, <1>9
  <1>13. \A t \in run'[r].bump : t.file \in DOMAIN inbox' \/ archive'[t.file] # {} BY <1>4, <1>10
  <1>14. run'[r].report \in Reports /\ DOMAIN run'[r].to = DOMAIN run'[r].report BY <1>1, <1>4, <1>11
  <1>15. Routes(r)' BY <1>4, <1>12, <1>13, <1>14 DEF Routes, Used, Safe
  <1> QED BY <1>6, <1>15

\* CountRead: the file as it is read, counted up.
LEMMA CountReadRoutes ==
  ASSUME Preserved, NEW r \in Runs, CountRead(r)
  PROVE  Carries /\ Routes(r)'
  <1>1. Shapes /\ Routes(r) BY DEF Preserved, Reflections
  <1> DEFINE buf == Counted(Read(Here(r)), OfHere(r))
             h == Here(r)
  <1>2. run[r].at = "count" /\ run[r].bump # {} /\ run' = [run EXCEPT ![r] = [@ EXCEPT !.at = "write", !.buf = buf]]
    BY DEF CountRead
  <1>3. run[r] \in RunRec /\ DOMAIN run = Runs /\ IsFiniteSet(run[r].bump) BY <1>1, RunFacts
  <1>4. h \in Names /\ IsFiniteSet(OfHere(r)) BY <1>1, <1>2, <1>3, HereIsAimed, FS_Subset
  <1>5. Read(h) \in Seq(Found) /\ Read(h) # <<>> /\ Left(Read(h), Kept) = Holds(h) BY <1>1, ReadFacts
  <1>6. buf \in Seq(Found) /\ DOMAIN buf = DOMAIN Read(h) /\ IdsOf(buf) = IdsOf(Read(h)) BY <1>4, <1>5, CountedFacts
  <1> HIDE DEF buf
  <1>7. buf # <<>>
    <2>1. DOMAIN Read(h) # {} BY <1>5, SomethingInIt
    <2>2. DOMAIN <<>> = {} OBVIOUS
    <2> QED BY <1>6, <2>1, <2>2
  <1>8. Left(buf, Kept) = Holds(h) BY <1>5, <1>6 DEF Left
  <1>9. /\ run'[r].at = "write" /\ run'[r].report = run[r].report /\ run'[r].to = run[r].to /\ run'[r].bump = run[r].bump
        /\ run'[r].buf = buf
    BY <1>2, <1>3 DEF RunRec
  <1>10. UNCHANGED <<inbox, archive, swept>> BY DEF CountRead
  <1>11. Carries BY <1>10, NothingMoved
  <1>12. Here(r)' = h BY <1>9 DEF Here
  <1>13. Kept' = Kept /\ LiveIds' = LiveIds BY <1>10 DEF Kept, ArchivedIds, Archived, LiveIds, Live
  <1>14. (Left(run[r].buf, Kept) = Holds(Here(r)))'
    <2>1. Left(run'[r].buf, Kept') = Holds(h) BY <1>8, <1>9, <1>13
    <2>2. Holds(h) = IF h \in DOMAIN inbox THEN Left(inbox[h], Kept) ELSE {} BY DEF Holds
    <2> HIDE DEF h
    <2> QED BY <1>10, <1>12, <1>13, <2>1, <2>2 DEF Holds
  <1>15. \A k \in DOMAIN run'[r].to : run'[r].to[k] = <<r, k>> \/ run'[r].to[k] \in LiveIds' \cup Kept' \cup {Gone}
    BY <1>1, <1>2, <1>9, <1>13 DEF Routes, Safe
  <1>16. \A t \in run'[r].bump : t.file \in DOMAIN inbox' \/ archive'[t.file] # {}
    BY <1>1, <1>2, <1>9, <1>10 DEF Routes, Used
  <1>17. run'[r].report \in Reports /\ DOMAIN run'[r].to = DOMAIN run'[r].report BY <1>1, <1>2, <1>9 DEF Routes
  <1>18. run'[r].bump # {} /\ run'[r].buf # <<>> BY <1>2, <1>7, <1>9
  <1> HIDE DEF h
  <1>19. Routes(r)' BY <1>9, <1>14, <1>15, <1>16, <1>17, <1>18 DEF Routes, Used, Safe
  <1> QED BY <1>11, <1>19

\* CountWrite: the whole file is written back, with what it holds by then.
LEMMA CountWriteRoutes ==
  ASSUME Preserved, NEW r \in Runs, CountWrite(r)
  PROVE  Carries /\ Routes(r)'
  <1>1. Shapes /\ Routes(r) /\ run[r].at = "write" BY DEF Preserved, Reflections, CountWrite
  <1>2. run[r] \in RunRec /\ DOMAIN run = Runs BY <1>1, RunFacts
  <1>3. run' = [run EXCEPT ![r] = [run[r] EXCEPT !.at = "count", !.buf = <<>>, !.bump = run[r].bump \ OfHere(r)]]
    BY <1>2 DEF CountWrite, RunRec
  <1>4. run'[r].at = "count" /\ run'[r].report = run[r].report /\ run'[r].to = run[r].to /\ run'[r].bump \subseteq run[r].bump
    BY <1>2, <1>3 DEF RunRec
  <1>5. run[r].bump # {} /\ run[r].buf # <<>> /\ Left(run[r].buf, Kept) = Holds(Here(r)) BY <1>1 DEF Routes
  <1>6. Here(r) \in Names /\ run[r].buf \in Seq(Found) BY <1>1, <1>5, RunFacts, HereIsAimed
  <1>7. inbox' = Put(Here(r), run[r].buf) /\ UNCHANGED <<archive, swept>> BY <1>2 DEF CountWrite, RunRec
  <1>8. Carries BY <1>1, <1>5, <1>6, <1>7, RewriteCarries
  <1>9. \A k \in DOMAIN run[r].to : run[r].to[k] = <<r, k>> \/ run[r].to[k] \in LiveIds' \cup Kept' \cup {Gone}
    <2>1. \A x : Safe(x) => Safe(x)' BY <1>1, <1>8, CarriedOn
    <2>2. \A x : Safe(x) => x \in LiveIds' \cup Kept' \cup {Gone} BY <2>1 DEF Safe
    <2> QED BY <1>1, <2>2 DEF Routes
  <1>10. \A t \in run[r].bump : Used(t.file)'
    <2>1. \A f \in Names : Used(f) => Used(f)' BY <1>1, <1>8, CarriedOn
    <2>2. \A t \in run[r].bump : t.file \in Names BY <1>1, RunFacts DEF Aims
    <2> QED BY <1>1, <2>1, <2>2 DEF Routes
  <1>11. \A k \in DOMAIN run'[r].to : run'[r].to[k] = <<r, k>> \/ run'[r].to[k] \in LiveIds' \cup Kept' \cup {Gone}
    BY <1>4, <1>9
  <1>12. \A t \in run'[r].bump : t.file \in DOMAIN inbox' \/ archive'[t.file] # {} BY <1>4, <1>10 DEF Used
  <1>13. run'[r].report \in Reports /\ DOMAIN run'[r].to = DOMAIN run'[r].report BY <1>1, <1>4 DEF Routes
  <1>14. Routes(r)' BY <1>4, <1>11, <1>12, <1>13 DEF Routes, Used, Safe
  <1> QED BY <1>8, <1>14

\* AddNew: the new findings in a file nobody uses.
LEMMA AddNewRoutes ==
  ASSUME Preserved, NEW r \in Runs, AddNew(r)
  PROVE  Carries /\ Routes(r)'
  <1>1. Shapes /\ Routes(r) /\ run[r].at = "count" BY DEF Preserved, Reflections, AddNew
  <1>2. run[r] \in RunRec /\ DOMAIN run = Runs BY <1>1, RunFacts
  <1>3. run'[r].at = "done" /\ run'[r].to = run[r].to BY <1>2 DEF AddNew, RunRec
  <1>4. /\ New(r) \in Seq(Found) /\ IdsOf(New(r)) = {<<r, j>> : j \in {h \in DOMAIN run[r].to : run[r].to[h] = <<r, h>>}}
    BY <1>1, NewFacts DEF Routes
  <1>5. UNCHANGED <<archive, swept>> BY DEF AddNew
  <1>6. CASE New(r) = <<>>
    <2>1. Carries BY <1>5, <1>6, NothingMoved DEF AddNew
    <2>2. IdsOf(New(r)) = {} BY <1>6 DEF IdsOf
    <2>3. \A k \in DOMAIN run[r].to : run[r].to[k] # <<r, k>> BY <1>4, <2>2
    <2>4. \A k \in DOMAIN run[r].to : run[r].to[k] \in LiveIds' \cup Kept' \cup {Gone}
      <3>1. \A x : Safe(x) => Safe(x)' BY <1>1, <2>1, CarriedOn
      <3>2. \A x : Safe(x) => x \in LiveIds' \cup Kept' \cup {Gone} BY <3>1 DEF Safe
      <3> QED BY <1>1, <2>3, <3>2 DEF Routes
    <2>5. \A k \in DOMAIN run'[r].to : run'[r].to[k] \in LiveIds' \cup Kept' \cup {Gone} BY <1>3, <2>4
    <2>6. Routes(r)' BY <1>3, <2>5 DEF Routes, Safe
    <2> QED BY <2>1, <2>6
  <1>7. CASE New(r) # <<>>
    <2>1. PICK f \in Names \ DOMAIN inbox : archive[f] = {} /\ inbox' = Put(f, New(r)) BY <1>7 DEF AddNew
    <2>2. ~Used(f) BY <2>1 DEF Used
    <2>3. Carries BY <1>1, <1>4, <1>5, <1>7, <2>1, <2>2, RewriteCarries
    <2>4. f \in DOMAIN inbox' /\ inbox'[f] = New(r) BY <1>1, <1>4, <1>7, <2>1, PutFacts
    <2>5. \A x \in IdsOf(New(r)) : x \in LiveIds' BY <2>4, LiveIdsAre
    <2>6. ASSUME NEW k \in DOMAIN run[r].to PROVE run[r].to[k] \in LiveIds' \cup Kept' \cup {Gone}
      <3>1. CASE run[r].to[k] = <<r, k>> BY <1>4, <2>5, <3>1
      <3>2. CASE Safe(run[r].to[k])
        <4>1. \A x : Safe(x) => Safe(x)' BY <1>1, <2>3, CarriedOn
        <4>2. \A x : Safe(x) => x \in LiveIds' \cup Kept' \cup {Gone} BY <4>1 DEF Safe
        <4> QED BY <3>2, <4>2
      <3> QED BY <1>1, <3>1, <3>2 DEF Routes
    <2>7. \A k \in DOMAIN run'[r].to : run'[r].to[k] \in LiveIds' \cup Kept' \cup {Gone} BY <1>3, <2>6
    <2>8. Routes(r)' BY <1>3, <2>7 DEF Routes, Safe
    <2> QED BY <2>3, <2>8
  <1> QED BY <1>6, <1>7

\* KillReflect: nothing moves.
LEMMA KillRoutes ==
  ASSUME Preserved, NEW r \in Runs, KillReflect(r)
  PROVE  Carries /\ Routes(r)'
  <1>1. Shapes BY DEF Preserved
  <1>2. run[r] \in RunRec /\ DOMAIN run = Runs BY <1>1, RunFacts
  <1>3. run'[r].at = "killed" BY <1>2 DEF KillReflect, RunRec
  <1>4. Carries BY NothingMoved DEF KillReflect
  <1>5. Routes(r)' BY <1>3 DEF Routes
  <1> QED BY <1>4, <1>5

\* Every step of a reflection preserves the findings.
LEMMA ReflectionPreserves ==
  ASSUME Preserved, NEW r \in Runs, Reflect(r) \/ MatchUp(r) \/ CountRead(r) \/ CountWrite(r) \/ AddNew(r) \/ KillReflect(r)
  PROVE  Preserved'
  <1>1. Shapes' BY ShapesOfReflection DEF Preserved
  <1>2. Carries /\ Routes(r)'
    BY ReflectRoutes, MatchUpRoutes, CountReadRoutes, CountWriteRoutes, AddNewRoutes, KillRoutes
  <1>3. (\A q \in Runs : q # r => run'[q] = run[q]) /\ UNCHANGED <<me, archive>>
    <2>1. DOMAIN run = Runs BY RunFacts DEF Preserved
    <2>2. UNCHANGED <<me, archive>> BY DEF Reflect, MatchUp, CountRead, CountWrite, AddNew, KillReflect
    <2>3. \E x : run' = [run EXCEPT ![r] = x]
      <3>1. CASE Reflect(r) BY <3>1 DEF Reflect
      <3>2. CASE MatchUp(r) BY <3>2 DEF MatchUp
      <3>3. CASE CountRead(r) BY <3>3 DEF CountRead
      <3>4. CASE CountWrite(r)
        <4>1. run' = [run EXCEPT ![r] = [run[r] EXCEPT !.at = "count", !.buf = <<>>, !.bump = run[r].bump \ OfHere(r)]]
          BY <2>1, <3>4 DEF CountWrite
        <4> QED BY <4>1
      <3>5. CASE AddNew(r) BY <3>5 DEF AddNew
      <3>6. CASE KillReflect(r) BY <3>6 DEF KillReflect
      <3> QED BY <3>1, <3>2, <3>3, <3>4, <3>5, <3>6
    <2> QED BY <2>1, <2>2, <2>3
  <1>4. Reflections' /\ Commands' /\ \A x \in StartIds : Safe(x)' BY <1>2, <1>3, ReflectionKeeps
  <1>5. StartIds' = StartIds BY DEF StartIds
  <1> QED BY <1>1, <1>4, <1>5 DEF Preserved

\* A step of the command that carries on keeps the reflections.
LEMMA CommandKeeps ==
  ASSUME Preserved, Carries, UNCHANGED run
  PROVE  Reflections' /\ \A x \in StartIds : Safe(x)'
  <1>1. ASSUME NEW q \in Runs PROVE Routes(q)' BY OthersRoute DEF Preserved, Reflections
  <1>2. \A x \in StartIds : Safe(x)' BY CarriedOn DEF Preserved
  <1>3. Reflections' BY <1>1 DEF Reflections
  <1> QED BY <1>2, <1>3

\* The marked findings are where the files say.
LEMMA PlanFacts ==
  ASSUME Shapes, Commands, me.at \in {"file", "remove"}
  PROVE  /\ me.plan # {} /\ me.plan \subseteq MarkOf /\ OfFile # {} /\ OfFile \subseteq me.plan
         /\ File \in Names /\ File \in DOMAIN me.before /\ Used(File) /\ Left(me.before[File], Kept) = Holds(File)
         /\ \A m \in OfFile : /\ m.file = File /\ m.seg \in Segs /\ m.seg \in DOMAIN me.before[File]
                              /\ m.id = me.before[File][m.seg].id
         /\ \A k \in Segs : \E m \in OfFile : m.seg = k
  <1>1. me.plan # {} /\ me.plan \subseteq MarkOf BY DEF Commands
  <1>2. (\E m \in me.plan : m.file = File) /\ File \in Names /\ OfFile \subseteq me.plan /\ OfFile # {}
    BY <1>1, FileIsPlanned
  <1>3. \A m \in me.plan : /\ m.file \in DOMAIN me.before /\ m.seg \in DOMAIN me.before[m.file]
                           /\ m.id = me.before[m.file][m.seg].id
    BY DEF Commands
  <1>4. File \in DOMAIN me.before BY <1>2, <1>3
  <1>5. Used(File) /\ Left(me.before[File], Kept) = Holds(File) BY <1>4 DEF Commands
  <1>6. \A m \in OfFile : m.file = File /\ m.seg \in Segs BY DEF OfFile, Segs
  <1>7. \A k \in Segs : \E m \in OfFile : m.seg = k BY DEF Segs
  <1> QED BY <1>1, <1>2, <1>3, <1>4, <1>5, <1>6, <1>7

\* On to the next file.
LEMMA NextCommands ==
  ASSUME Shapes, Commands, Carries, me.at \in {"file", "remove"}, me' = NextFile(me)
  PROVE  Commands'
  <1> DEFINE plan == {m \in me.plan : m.file # File}
  <1>1. /\ me'.plan = plan /\ me'.appended = {} /\ me'.at = (IF plan = {} THEN "idle" ELSE "file")
        /\ me'.before = IF plan = {} THEN <<>> ELSE me.before
    BY NextFacts
  <1>2. plan \subseteq me.plan /\ me.plan \subseteq MarkOf BY DEF Commands
  <1> HIDE DEF plan
  <1>3. CASE plan = {} BY <1>1, <1>3 DEF Commands
  <1>4. CASE plan # {}
    <2>1. me'.at = "file" /\ me'.before = me.before /\ me'.plan = plan BY <1>1, <1>4
    <2>2. ASSUME NEW f \in DOMAIN me.before
          PROVE  me'.before[f] # <<>> /\ Used(f)' /\ Left(me'.before[f], Kept') = Holds(f)'
      <3>1. me.before[f] # <<>> /\ Used(f) /\ Left(me.before[f], Kept) = Holds(f) BY DEF Commands
      <3>2. \A s, g : g \in Names /\ Used(g) /\ Left(s, Kept) = Holds(g) => Left(s, Kept') = Holds(g)' BY CarriedOn
      <3>3. \A g \in Names : Used(g) => Used(g)' BY CarriedOn
      <3>4. f \in Names BY CmdFacts
      <3> QED BY <2>1, <3>1, <3>2, <3>3, <3>4
    <2>3. \A f \in DOMAIN me'.before : me'.before[f] # <<>> /\ Used(f)' /\ Left(me'.before[f], Kept') = Holds(f)'
      BY <2>1, <2>2
    <2>4. \A m \in plan : /\ m.file \in DOMAIN me.before /\ m.seg \in DOMAIN me.before[m.file]
                          /\ m.id = me.before[m.file][m.seg].id
      BY <1>2 DEF Commands
    <2>5. me'.appended \subseteq Segs' /\ \A m \in OfFile' : m.seg \in me'.appended => m.id \in Kept' BY <1>1
    <2> QED BY <1>2, <1>4, <2>1, <2>3, <2>4, <2>5 DEF Commands
  <1> QED BY <1>3, <1>4

\* A command that is over asks for nothing.
LEMMA IdleCommands ==
  ASSUME me'.at = "idle", me'.appended = {} PROVE Commands'
  BY DEF Commands

\* List: nothing moves.
LEMMA ListKeeps == ASSUME Preserved, List PROVE Carries /\ Commands'
  <1>1. me.at = "idle" /\ me.appended = {} BY DEF List, Begins, Preserved, Commands
  <1>2. me \in CmdRec(me.before) BY CmdFacts DEF Preserved
  <1>3. me'.at = "idle" /\ me'.appended = {} BY <1>1, <1>2 DEF List, CmdRec
  <1> QED BY <1>3, NothingMoved, IdleCommands DEF List

\* Triage: the files as they are loaded.
LEMMA TriageKeeps == ASSUME Preserved, Triage PROVE Carries /\ Commands'
  <1>1. me.at = "idle" /\ me.appended = {} BY DEF Triage, Begins, Preserved, Commands
  <1>2. me \in CmdRec(me.before) /\ Shapes BY CmdFacts DEF Preserved
  <1>3. UNCHANGED <<inbox, archive, swept>> BY DEF Triage
  <1>4. Carries BY <1>3, NothingMoved
  <1>5. PICK marks \in Marks :
          me' = IF DOMAIN marks \subseteq DOMAIN Loaded
                THEN [me EXCEPT !.at = "file", !.marks = Marked(marks, Loaded), !.plan = Marked(marks, Loaded), !.before = inbox, !.count = @ + 1]
                ELSE [me EXCEPT !.count = @ + 1, !.seen = <<>>]
    BY DEF Triage
  <1>6. CASE DOMAIN marks \subseteq DOMAIN Loaded
    <2> DEFINE ms == Marked(marks, Loaded)
    <2>1. /\ ms \subseteq MarkOf /\ ms # {}
          /\ \A m \in ms : /\ m.file \in DOMAIN inbox /\ m.seg \in DOMAIN inbox[m.file]
                           /\ m.id = inbox[m.file][m.seg].id
      BY <1>2, <1>6, MarkedFacts
    <2> HIDE DEF ms
    <2>2. me' = [me EXCEPT !.at = "file", !.marks = ms, !.plan = ms, !.before = inbox, !.count = @ + 1]
      BY <1>5, <1>6 DEF ms
    <2>3. me'.at = "file" /\ me'.plan = ms /\ me'.before = inbox /\ me'.appended = {} BY <1>1, <1>2, <2>2 DEF CmdRec
    <2>4. Kept' = Kept BY <1>3, KeptSame
    <2>5. ASSUME NEW f \in DOMAIN inbox PROVE me'.before[f] # <<>> /\ Used(f)' /\ Left(me'.before[f], Kept') = Holds(f)'
      <3>1. inbox[f] # <<>> BY <1>2, FileFacts
      <3> QED BY <1>3, <2>3, <2>4, <3>1 DEF Used, Holds
    <2>6. \A f \in DOMAIN me'.before : me'.before[f] # <<>> /\ Used(f)' /\ Left(me'.before[f], Kept') = Holds(f)'
      BY <2>3, <2>5
    <2>7. me'.appended \subseteq Segs' /\ \A m \in OfFile' : m.seg \in me'.appended => m.id \in Kept' BY <2>3
    <2>8. Commands' BY <2>1, <2>3, <2>6, <2>7 DEF Commands
    <2> QED BY <1>4, <2>8
  <1>7. CASE ~(DOMAIN marks \subseteq DOMAIN Loaded)
    <2>1. me'.at = "idle" /\ me'.appended = {} BY <1>1, <1>2, <1>5, <1>7 DEF CmdRec
    <2> QED BY <1>4, <2>1, IdleCommands
  <1> QED BY <1>6, <1>7

\* Append1: a marked finding into the archive.
LEMMA AppendKeeps == ASSUME Preserved, Append1 PROVE Carries /\ Commands'
  <1>1. Shapes /\ Commands /\ me.at = "file" BY DEF Append1, Preserved
  <1>2. PICK m \in OfFile : /\ archive' = [archive EXCEPT ![File] = @ \cup {Entry(m)}]
                            /\ me' = [me EXCEPT !.appended = @ \cup {m.seg}]
    BY DEF Append1
  <1>3. /\ File \in Names
        /\ \A o \in OfFile : o.seg \in Segs /\ o.id = me.before[File][o.seg].id
    BY <1>1, PlanFacts
  <1>4. UNCHANGED <<inbox, swept>> BY DEF Append1
  <1>5. Carries /\ \A e \in {Entry(m)} : e.id \in Kept' BY <1>1, <1>2, <1>3, <1>4, ArchiveCarries
  <1>6. m.id \in Kept' BY <1>5 DEF Entry
  <1>7. me \in CmdRec(me.before) BY <1>1, CmdFacts
  <1>8. me'.at = "file" /\ me'.plan = me.plan /\ me'.before = me.before /\ me'.appended = me.appended \cup {m.seg}
    BY <1>1, <1>2, <1>7 DEF CmdRec
  <1>9. File' = File /\ OfFile' = OfFile /\ Segs' = Segs BY <1>8 DEF File, OfFile, Segs
  <1>10. me'.appended \subseteq Segs' BY <1>1, <1>3, <1>8, <1>9 DEF Commands
  <1>11. ASSUME NEW o \in OfFile, o.seg \in me.appended \cup {m.seg} PROVE o.id \in Kept'
    <2>1. CASE o.seg \in me.appended
      <3>1. o.id \in Kept BY <1>1, <2>1 DEF Commands
      <3> QED BY <1>1, <1>5, <3>1, CarriedOn
    <2>2. CASE o.seg = m.seg BY <1>3, <1>6, <2>2
    <2> QED BY <1>11, <2>1, <2>2
  <1>12. \A o \in OfFile' : o.seg \in me'.appended => o.id \in Kept' BY <1>8, <1>9, <1>11
  <1>13. ASSUME NEW f \in DOMAIN me.before
         PROVE  me'.before[f] # <<>> /\ Used(f)' /\ Left(me'.before[f], Kept') = Holds(f)'
    <2>1. me.before[f] # <<>> /\ Used(f) /\ Left(me.before[f], Kept) = Holds(f) BY <1>1 DEF Commands
    <2>2. \A s, g : g \in Names /\ Used(g) /\ Left(s, Kept) = Holds(g) => Left(s, Kept') = Holds(g)'
      BY <1>1, <1>5, CarriedOn
    <2>3. \A g \in Names : Used(g) => Used(g)' BY <1>1, <1>5, CarriedOn
    <2>4. f \in Names BY <1>1, CmdFacts
    <2> QED BY <1>8, <2>1, <2>2, <2>3, <2>4
  <1>14. \A f \in DOMAIN me'.before : me'.before[f] # <<>> /\ Used(f)' /\ Left(me'.before[f], Kept') = Holds(f)'
    BY <1>8, <1>13
  <1>15. /\ me.plan # {} /\ me.plan \subseteq MarkOf
         /\ \A o \in me.plan : /\ o.file \in DOMAIN me.before /\ o.seg \in DOMAIN me.before[o.file]
                               /\ o.id = me.before[o.file][o.seg].id
    BY <1>1 DEF Commands
  <1>16. Commands' BY <1>8, <1>10, <1>12, <1>14, <1>15 DEF Commands
  <1> QED BY <1>5, <1>16

\* The findings that are taken out of a file are in the archive by then.
LEMMA SpliceLeaves ==
  ASSUME Preserved, Splice
  PROVE  Left(Rest(Segs), Kept) = Holds(File) /\ Rest(Segs) \in Seq(Found) /\ Rest(Segs) # <<>> /\ File \in Names
  <1>1. Shapes /\ Commands /\ me.at = "file" /\ me.appended = Segs /\ Rest(Segs) # <<>> BY DEF Splice, Preserved
  <1>2. /\ File \in Names /\ File \in DOMAIN me.before /\ Left(me.before[File], Kept) = Holds(File)
        /\ \A m \in OfFile : m.seg \in Segs /\ m.id = me.before[File][m.seg].id
        /\ \A k \in Segs : \E m \in OfFile : m.seg = k
    BY <1>1, PlanFacts
  <1>3. /\ Rest(Segs) \in Seq(Found)
        /\ IdsOf(Rest(Segs)) = {me.before[File][k].id : k \in DOMAIN me.before[File] \ Segs}
    BY <1>1, <1>2, RestFacts
  <1>4. \A k \in Segs : me.before[File][k].id \in Kept BY <1>1, <1>2 DEF Commands
  <1>5. Left(Rest(Segs), Kept) = Left(me.before[File], Kept) BY <1>3, <1>4 DEF Left, IdsOf
  <1> QED BY <1>1, <1>2, <1>3, <1>5

\* Splice: the file without the findings that are in the archive.
LEMMA SpliceKeeps == ASSUME Preserved, Splice PROVE Carries /\ Commands'
  <1>1. Shapes /\ Commands /\ me.at = "file" BY DEF Splice, Preserved
  <1>2. inbox' = Put(File, Rest(Segs)) /\ UNCHANGED <<archive, swept>> /\ me' = NextFile(me) BY DEF Splice
  <1>3. Carries BY <1>1, <1>2, SpliceLeaves, RewriteCarries
  <1> QED BY <1>1, <1>2, <1>3, NextCommands

\* MoveWhole: all of a file's findings into the archive.
LEMMA MoveKeeps == ASSUME Preserved, MoveWhole PROVE Carries /\ Commands'
  <1>1. Shapes /\ Commands /\ me.at = "file" /\ Rest(Segs) = <<>> BY DEF MoveWhole, Preserved
  <1> DEFINE es == {Entry(m) : m \in OfFile}
  <1>2. archive' = [archive EXCEPT ![File] = @ \cup es] /\ me' = [me EXCEPT !.at = "remove"] /\ UNCHANGED <<inbox, swept>>
    BY DEF MoveWhole
  <1>3. /\ File \in Names /\ File \in DOMAIN me.before /\ OfFile # {}
        /\ \A m \in OfFile : m.seg \in Segs /\ m.id = me.before[File][m.seg].id
        /\ \A k \in Segs : \E m \in OfFile : m.seg = k
    BY <1>1, PlanFacts
  <1>4. \A m \in OfFile : Entry(m) \in es /\ Entry(m).id = m.id BY DEF Entry
  <1>5. es # {} BY <1>3
  <1> HIDE DEF es
  <1>6. Carries /\ \A e \in es : e.id \in Kept' BY <1>1, <1>2, <1>3, ArchiveCarries
  <1>7. me \in CmdRec(me.before) BY <1>1, CmdFacts
  <1>8. me'.at = "remove" /\ me'.plan = me.plan /\ me'.before = me.before BY <1>2, <1>7 DEF CmdRec
  <1>9. File' = File BY <1>8 DEF File
  <1>10. archive'[File] # {} BY <1>1, <1>2, <1>3, <1>5 DEF Shapes
  <1>11. Left(me.before[File], Kept') = {}
    <2>1. DOMAIN me.before[File] \subseteq Segs BY <1>1, <1>3, RestFacts
    <2>2. \A k \in DOMAIN me.before[File] : me.before[File][k].id \in Kept' BY <1>3, <1>4, <1>6, <2>1
    <2> QED BY <2>2 DEF Left, IdsOf
  <1>12. archive'[File'] # {} /\ Left(me'.before[File'], Kept') = {} BY <1>8, <1>9, <1>10, <1>11
  <1>13. ASSUME NEW f \in DOMAIN me.before
         PROVE  me'.before[f] # <<>> /\ Used(f)' /\ Left(me'.before[f], Kept') = Holds(f)'
    <2>1. me.before[f] # <<>> /\ Used(f) /\ Left(me.before[f], Kept) = Holds(f) BY <1>1 DEF Commands
    <2>2. \A s, g : g \in Names /\ Used(g) /\ Left(s, Kept) = Holds(g) => Left(s, Kept') = Holds(g)'
      BY <1>1, <1>6, CarriedOn
    <2>3. \A g \in Names : Used(g) => Used(g)' BY <1>1, <1>6, CarriedOn
    <2>4. f \in Names BY <1>1, CmdFacts
    <2> QED BY <1>8, <2>1, <2>2, <2>3, <2>4
  <1>14. \A f \in DOMAIN me'.before : me'.before[f] # <<>> /\ Used(f)' /\ Left(me'.before[f], Kept') = Holds(f)'
    BY <1>8, <1>13
  <1>15. /\ me.plan # {} /\ me.plan \subseteq MarkOf
         /\ \A o \in me.plan : /\ o.file \in DOMAIN me.before /\ o.seg \in DOMAIN me.before[o.file]
                               /\ o.id = me.before[o.file][o.seg].id
    BY <1>1 DEF Commands
  <1>16. Commands' BY <1>8, <1>12, <1>14, <1>15 DEF Commands
  <1> QED BY <1>6, <1>16

\* RemoveFile: a file of which all is in the archive.
LEMMA RemoveKeeps == ASSUME Preserved, RemoveFile PROVE Carries /\ Commands'
  <1>1. Shapes /\ Commands /\ me.at = "remove" BY DEF RemoveFile, Preserved
  <1>2. inbox' = Without(File) /\ UNCHANGED <<archive, swept>> /\ me' = NextFile(me) BY DEF RemoveFile
  <1>3. File \in Names /\ Left(me.before[File], Kept) = Holds(File) BY <1>1, PlanFacts
  <1>4. archive[File] # {} /\ Left(me.before[File], Kept) = {} BY <1>1 DEF Commands
  <1>5. Carries BY <1>1, <1>2, <1>3, <1>4, RemovalCarries
  <1> QED BY <1>1, <1>2, <1>5, NextCommands

\* Clear: nothing moves yet.
LEMMA ClearKeeps == ASSUME Preserved, Clear PROVE Carries /\ Commands'
  <1>1. Shapes /\ me.at = "idle" /\ me.appended = {} BY DEF Clear, Begins, Preserved, Commands
  <1> DEFINE T(f) == [at |-> f, file |-> f]
             plan == {T(f) : f \in DOMAIN inbox}
  <1>2. me' = [me EXCEPT !.at = "clear", !.plan = plan, !.count = @ + 1] /\ UNCHANGED <<inbox, archive, swept>> /\ inbox # <<>>
    BY DEF Clear
  <1>3. \A f \in DOMAIN inbox : f \in Names /\ f \in Nat BY <1>1, FileFacts
  <1>4. plan \subseteq [at : Nat, file : Names] BY <1>3
  <1>5. plan # {}
    <2>1. DOMAIN inbox # {}
      <3>1. inbox = [f \in DOMAIN inbox |-> inbox[f]] BY <1>1 DEF Shapes, Files
      <3>2. DOMAIN inbox = {} => inbox = <<>> BY <3>1
      <3> QED BY <1>2, <3>2
    <2> QED BY <2>1
  <1> HIDE DEF plan
  <1>6. me \in CmdRec(me.before) BY <1>1, CmdFacts
  <1>7. me'.at = "clear" /\ me'.plan = plan /\ me'.appended = {} BY <1>1, <1>2, <1>6 DEF CmdRec
  <1>8. Commands' BY <1>4, <1>5, <1>7 DEF Commands
  <1>9. Carries BY <1>2, NothingMoved
  <1> QED BY <1>8, <1>9

\* Rename: a file over its name in the archive.
LEMMA RenameKeeps == ASSUME Preserved, Rename PROVE Carries /\ Commands'
  <1>1. Shapes /\ Commands /\ me.at = "clear" BY DEF Rename, Preserved
  <1>2. me.plan # {} /\ me.plan \subseteq [at : Nat, file : Names] /\ me.appended = {} BY <1>1 DEF Commands
  <1>3. me \in CmdRec(me.before) BY <1>1, CmdFacts
  <1>4. CASE File \in DOMAIN inbox
    <2> DEFINE c == NextFile(me)
               plan == {m \in me.plan : m.file # File}
    <2>1. /\ archive' = [archive EXCEPT ![File] = Moved(File)] /\ inbox' = Without(File)
          /\ swept' = swept \cup {e.id : e \in archive[File]} /\ me' = [c EXCEPT !.at = IF @ = "idle" THEN "idle" ELSE "clear"]
      BY <1>4 DEF Rename
    <2>2. Carries BY <1>1, <1>4, <2>1, SweepCarries
    <2>3. c \in CmdRec(c.before) /\ c.plan = plan /\ c.appended = {} /\ c.at = (IF plan = {} THEN "idle" ELSE "file")
      BY <1>1, NextFacts
    <2>4. plan \subseteq [at : Nat, file : Names] BY <1>2
    <2> HIDE DEF c, plan
    <2>5. me'.plan = plan /\ me'.appended = {} /\ me'.at = (IF plan = {} THEN "idle" ELSE "clear")
      BY <2>1, <2>3 DEF CmdRec
    <2>6. Commands' BY <2>4, <2>5 DEF Commands
    <2> QED BY <2>2, <2>6
  <1>5. CASE File \notin DOMAIN inbox
    <2>1. me' = [me EXCEPT !.at = "idle", !.plan = {}] /\ UNCHANGED <<inbox, archive, swept>> BY <1>5 DEF Rename
    <2>2. me'.at = "idle" /\ me'.appended = {} BY <1>2, <1>3, <2>1 DEF CmdRec
    <2> QED BY <2>1, <2>2, NothingMoved, IdleCommands
  <1> QED BY <1>4, <1>5

\* KillCommand: nothing moves.
LEMMA KillCommandKeeps == ASSUME Preserved, KillCommand PROVE Carries /\ Commands'
  <1>1. me \in CmdRec(me.before) BY CmdFacts DEF Preserved
  <1>2. me'.at = "idle" /\ me'.appended = {} BY <1>1 DEF KillCommand, CmdRec
  <1> QED BY <1>2, NothingMoved, IdleCommands DEF KillCommand

\* Every step of the user's command preserves the findings.
LEMMA CommandPreserves ==
  ASSUME Preserved, List \/ Triage \/ Append1 \/ Splice \/ MoveWhole \/ RemoveFile \/ Clear \/ Rename \/ KillCommand
  PROVE  Preserved'
  <1>1. Shapes' BY ShapesOfCommand DEF Preserved
  <1>2. Carries /\ Commands'
    BY ListKeeps, TriageKeeps, AppendKeeps, SpliceKeeps, MoveKeeps, RemoveKeeps, ClearKeeps, RenameKeeps, KillCommandKeeps
  <1>3. UNCHANGED run BY DEF List, Triage, Append1, Splice, MoveWhole, RemoveFile, Clear, Rename, KillCommand
  <1>4. Reflections' /\ \A x \in StartIds : Safe(x)' BY <1>2, <1>3, CommandKeeps
  <1>5. StartIds' = StartIds BY DEF StartIds
  <1> QED BY <1>1, <1>2, <1>4, <1>5 DEF Preserved

\* Preserved holds at first.
LEMMA PreservedInit == InboxInit => Preserved
  <1> SUFFICES ASSUME InboxInit PROVE Preserved OBVIOUS
  <1>1. Shapes BY ShapesInit
  <1>2. \A r \in Runs : run[r].at = "idle" /\ run[r].to = <<>> /\ run[r].bump = {} BY DEF InboxInit, NoRun
  <1>3. Reflections BY <1>2 DEF Reflections, Routes
  <1>4. Commands BY DEF InboxInit, NoCmd, Commands
  <1>5. ASSUME NEW x \in StartIds PROVE Safe(x)
    <2>1. \E f \in DOMAIN Start : \E y \in Range(Start[f]) : y.id = x BY DEF StartIds
    <2>2. inbox = Start BY DEF InboxInit
    <2>3. x \in LiveIds BY <2>1, <2>2 DEF LiveIds, Live
    <2> QED BY <2>3 DEF Safe
  <1> QED BY <1>1, <1>3, <1>4, <1>5 DEF Preserved

\* Preserved is inductive.
LEMMA PreservedStep == Preserved /\ [InboxNext]_inboxVars => Preserved'
  <1> SUFFICES ASSUME Preserved, [InboxNext]_inboxVars PROVE Preserved' OBVIOUS
  <1>1. ASSUME NEW r \in Runs, Reflect(r) \/ MatchUp(r) \/ CountRead(r) \/ CountWrite(r) \/ AddNew(r) \/ KillReflect(r)
        PROVE  Preserved'
    BY <1>1, ReflectionPreserves
  <1>2. CASE List \/ Triage \/ Append1 \/ Splice \/ MoveWhole \/ RemoveFile \/ Clear \/ Rename \/ KillCommand
    BY <1>2, CommandPreserves
  <1>3. CASE UNCHANGED inboxVars
    <2>1. UNCHANGED <<inbox, archive, run, me, alone, swept>> BY <1>3 DEF inboxVars
    <2>2. Shapes' BY <2>1, SameInbox DEF Preserved, Shapes
    <2>3. Carries BY <2>1, NothingMoved
    <2>4. Commands' BY <2>1, <2>3, CommandWaits DEF Preserved
    <2>5. Reflections' /\ \A x \in StartIds : Safe(x)' BY <2>1, <2>3, CommandKeeps
    <2>6. StartIds' = StartIds BY DEF StartIds
    <2> QED BY <2>2, <2>4, <2>5, <2>6 DEF Preserved
  <1> QED BY <1>1, <1>2, <1>3 DEF InboxNext

\* It says the type invariant and that nothing is lost.
LEMMA PreservedImplies == Preserved => InboxTypeOK /\ NothingLost
  <1> SUFFICES ASSUME Preserved PROVE InboxTypeOK /\ NothingLost OBVIOUS
  <1>1. Shapes BY DEF Preserved
  <1>2. \A f \in DOMAIN inbox : inbox[f] \in Seq(Found) /\ inbox[f] # <<>> BY <1>1, FileFacts
  <1>3. \A r \in Runs : run[r].at \in {"idle", "match", "count", "write", "done", "killed"} BY <1>1, RunFacts DEF Over
  <1>4. me.at \in {"idle", "file", "remove", "clear"} /\ me.count \in 0 .. MaxCommands BY <1>1, CmdFacts
  <1>5. InboxTypeOK BY <1>1, <1>2, <1>3, <1>4 DEF Shapes, Files, InboxTypeOK
  <1>6. ASSUME NEW x \in StartIds PROVE x \in LiveIds \cup ArchivedIds \cup swept
    BY OwnIds DEF Preserved, Safe, Kept
  <1>7. ASSUME NEW r \in Runs, run[r].at = "done", NEW j \in Sections, <<r, j>> \in Range(run[r].to)
        PROVE  <<r, j>> \in LiveIds \cup ArchivedIds \cup swept
    <2>1. Routes(r) BY DEF Preserved, Reflections
    <2>2. PICK k \in DOMAIN run[r].to : run[r].to[k] = <<r, j>> BY <1>7 DEF Range
    <2>3. Safe(<<r, j>>) BY <1>7, <2>1, <2>2 DEF Routes
    <2>4. <<r, j>> # Gone BY OwnIds
    <2> QED BY <2>3, <2>4 DEF Safe, Kept
  <1>8. NothingLost
    <2> SUFFICES ASSUME NEW x \in StartIds \cup {<<r, j>> : r \in {q \in Runs : run[q].at = "done"}, j \in Sections},
                        x \in StartIds \/ x \in Range(run[x[1]].to)
                 PROVE  x \in LiveIds \cup ArchivedIds \cup swept
      BY DEF NothingLost
    <2>1. CASE x \in StartIds BY <1>6, <2>1
    <2>2. CASE x \notin StartIds
      <3>1. PICK r \in {q \in Runs : run[q].at = "done"}, j \in Sections : x = <<r, j>> BY <2>2
      <3>2. x[1] = r BY <3>1
      <3> QED BY <1>7, <2>2, <3>1, <3>2
    <2> QED BY <2>1, <2>2
  <1> QED BY <1>5, <1>8

\* Whatever runs beside whatever and is killed wherever, a finding that was ever in the inbox is in it or in
\* the archive, but for what a --clear overwrote (routeUpstreamFinding, incrementFinding and upstreamTriage.ts).
THEOREM NothingIsLost == InboxSpec => []NothingLost
  <1>1. InboxSpec => []Preserved BY PreservedInit, PreservedStep, PTL DEF InboxSpec
  <1> QED BY <1>1, PreservedImplies, PTL

\* The known ids, one by one.
LEMMA KnownAre ==
  /\ \A x : x \in Known <=> x \in StartIds \/ \E q \in Runs, j \in Sections : run[q].at = "done" /\ x = <<q, j>>
  /\ \A x : x \in Known' <=> x \in StartIds \/ \E q \in Runs, j \in Sections : run'[q].at = "done" /\ x = <<q, j>>
  <1>1. \A x : x \in Known <=> x \in StartIds \/ \E q \in Runs, j \in Sections : run[q].at = "done" /\ x = <<q, j>>
    BY DEF Known
  <1>2. StartIds' = StartIds BY DEF StartIds
  <1>3. \A x : x \in Known' <=> x \in StartIds \/ \E q \in Runs, j \in Sections : run'[q].at = "done" /\ x = <<q, j>>
    BY <1>2 DEF Known
  <1> QED BY <1>1, <1>3

\* The credits of a finding can be counted.
LEMMA CreditsAreFinite == \A x : IsFiniteSet(Credits(x)) /\ Cardinality(Credits(x)) \in Nat
  <1>1. IsFiniteSet(Runs \X Sections) BY InboxReports, SectionsFinite, FS_Product
  <1>2. \A x : Credits(x) \subseteq Runs \X Sections BY DEF Credits
  <1> QED BY <1>1, <1>2, FS_Subset, FS_CardinalityType

\* The files have some of the findings they had, each of them once: they are as well counted.
LEMMA FewerFindings ==
  ASSUME Once, Recorded, Tallied, UNCHANGED run,
         \A p \in Places' : \E q \in Places : inbox'[p[1]][p[2]] = inbox[q[1]][q[2]],
         \A p, q \in Places' : p # q => \E a, b \in Places : /\ a # b /\ inbox'[p[1]][p[2]] = inbox[a[1]][a[2]]
                                                             /\ inbox'[q[1]][q[2]] = inbox[b[1]][b[2]]
  PROVE  Once' /\ Recorded' /\ Tallied'
  <1>1. ASSUME NEW p \in Places', NEW q \in Places', p # q PROVE inbox'[p[1]][p[2]].id # inbox'[q[1]][q[2]].id
    <2>1. PICK a \in Places, b \in Places : /\ a # b /\ inbox'[p[1]][p[2]] = inbox[a[1]][a[2]]
                                            /\ inbox'[q[1]][q[2]] = inbox[b[1]][b[2]]
      BY <1>1
    <2>2. inbox[a[1]][a[2]].id # inbox[b[1]][b[2]].id BY <2>1 DEF Once, FoundAt
    <2> QED BY <2>1, <2>2
  <1>2. Once' BY <1>1 DEF Once, FoundAt
  <1>3. Known' = Known BY DEF Known, StartIds
  <1>4. ASSUME NEW p \in Places'
        PROVE  /\ inbox'[p[1]][p[2]].id \in Known
               /\ inbox'[p[1]][p[2]].n = FirstCount(inbox'[p[1]][p[2]].id) + Cardinality(Credits(inbox'[p[1]][p[2]].id))
    <2>1. PICK q \in Places : inbox'[p[1]][p[2]] = inbox[q[1]][q[2]] OBVIOUS
    <2> DEFINE y == inbox[q[1]][q[2]]
    <2>2. y.id \in Known /\ y.n = FirstCount(y.id) + Cardinality(Credits(y.id)) BY DEF Recorded, Tallied, FoundAt
    <2> QED BY <2>1, <2>2
  <1>5. Recorded' BY <1>3, <1>4 DEF Recorded, FoundAt
  <1>6. ASSUME NEW p \in Places'
        PROVE  inbox'[p[1]][p[2]].n = FirstCount(inbox'[p[1]][p[2]].id) + Cardinality(Credits(inbox[p[1]][p[2]].id)')
    BY <1>4 DEF Credits
  <1>7. Tallied' BY <1>6 DEF Tallied, FoundAt, FirstCount, StartIds
  <1> QED BY <1>2, <1>5, <1>7

\* What a finding counted at first.
LEMMA FirstCountFacts ==
  /\ \A f \in DOMAIN Start : \A k \in DOMAIN Start[f] : FirstCount(Start[f][k].id) = Start[f][k].n
  /\ \A x : FirstCount(x) \in Nat
  <1> DEFINE First == UNION {Range(Start[f]) : f \in DOMAIN Start}
  <1>1. \A y : y \in First <=> \E f \in DOMAIN Start : \E k \in DOMAIN Start[f] : y = Start[f][k] BY DEF Range
  <1>2. \A x : x \in StartIds <=> \E y \in First : y.id = x BY DEF StartIds
  <1>3. \A x : FirstCount(x) = IF x \in StartIds THEN (CHOOSE y \in First : y.id = x).n ELSE 1 BY DEF FirstCount
  <1> HIDE DEF First
  <1>4. \A f \in DOMAIN Start : \A k \in DOMAIN Start[f] : Start[f][k] \in Found
    <2> SUFFICES ASSUME NEW f \in DOMAIN Start, NEW k \in DOMAIN Start[f] PROVE Start[f][k] \in Found OBVIOUS
    <2>1. Start[f] \in Seq(Found) BY InboxStart
    <2> QED BY <2>1
  <1>5. \A f, g \in DOMAIN Start : \A k \in DOMAIN Start[f], h \in DOMAIN Start[g] :
          Start[f][k].id = Start[g][h].id => Start[f][k] = Start[g][h]
    <2> SUFFICES ASSUME NEW f \in DOMAIN Start, NEW g \in DOMAIN Start, NEW k \in DOMAIN Start[f], NEW h \in DOMAIN Start[g],
                        Start[f][k].id = Start[g][h].id
                 PROVE  Start[f][k] = Start[g][h]
      OBVIOUS
    <2>1. <<f, k>> \in PlacesOf(Start) /\ <<g, h>> \in PlacesOf(Start) BY DEF PlacesOf
    <2>2. <<f, k>> = <<g, h>>
      <3>1. \A p, q \in PlacesOf(Start) : Start[p[1]][p[2]].id = Start[q[1]][q[2]].id => p = q BY InboxStart
      <3> QED BY <2>1, <3>1
    <2> QED BY <2>2
  <1>6. \A y, z \in First : y.id = z.id => y = z BY <1>1, <1>5
  <1>7. \A y \in First : FirstCount(y.id) = y.n BY <1>2, <1>3, <1>6
  <1>8. \A y \in First : y.n \in Nat BY <1>1, <1>4 DEF Found
  <1>9. ASSUME NEW x PROVE FirstCount(x) \in Nat
    <2>1. CASE x \in StartIds BY <1>2, <1>7, <1>8, <2>1
    <2>2. CASE x \notin StartIds BY <1>3, <2>2
    <2> QED BY <2>1, <2>2
  <1> QED BY <1>1, <1>7, <1>9

\* Alone holds at first.
LEMMA AloneInit == InboxInit => Alone
  <1> SUFFICES ASSUME InboxInit PROVE Solo /\ Once /\ Recorded /\ Pointers /\ AsRead /\ Tallied BY DEF Alone
  <1>1. inbox = Start BY DEF InboxInit
  <1>2. \A r \in Runs : run[r].at = "idle" /\ run[r].to = <<>> /\ run[r].bump = {} BY DEF InboxInit, NoRun
  <1>3. me.at = "idle" BY DEF InboxInit, NoCmd
  <1>4. Solo BY <1>2, <1>3 DEF Solo, Over
  <1>5. Once BY <1>1, InboxStart DEF Once, FoundAt, Places
  <1>6. ASSUME NEW p \in Places
        PROVE  /\ FoundAt(p).id \in StartIds /\ FoundAt(p).n = FirstCount(FoundAt(p).id) /\ FoundAt(p).n \in Nat
               /\ Credits(FoundAt(p).id) = {}
    <2>1. PICK f \in DOMAIN Start : \E k \in DOMAIN Start[f] : p = <<f, k>> BY <1>1 DEF Places, PlacesOf
    <2>2. PICK k \in DOMAIN Start[f] : p = <<f, k>> BY <2>1
    <2>3. FoundAt(p) = Start[f][k] BY <1>1, <2>2 DEF FoundAt
    <2>4. Start[f][k].id \in StartIds BY DEF StartIds, Range
    <2>5. Start[f] \in Seq(Found) BY InboxStart
    <2>6. Start[f][k].n \in Nat
      <3>1. Start[f][k] \in Found BY <2>5
      <3> QED BY <3>1 DEF Found
    <2>7. Credits(FoundAt(p).id) = {} BY <1>2 DEF Credits
    <2> QED BY <2>3, <2>4, <2>6, <2>7, FirstCountFacts
  <1>7. Recorded BY <1>6, KnownAre DEF Recorded
  <1>8. Pointers BY <1>2 DEF Pointers, Points
  <1>9. AsRead BY <1>3 DEF AsRead
  <1>10. Cardinality({}) = 0 BY FS_EmptySet
  <1>11. Tallied BY <1>6, <1>10 DEF Tallied
  <1> QED BY <1>4, <1>5, <1>7, <1>8, <1>9, <1>11

\* It says that the counts are exact.
LEMMA AloneImplies == Preserved /\ Alone => CountsAreExact
  <1> SUFFICES ASSUME Preserved, Alone, alone
               PROVE  /\ \A r \in Runs : run[r].at = "done" => Range(run[r].to) \subseteq LiveIds \cup ArchivedIds \cup swept
                      /\ \A x \in Live : LET n == x.n - FirstCount(x.id) IN
                           n \in CountFor(x.id, {r \in Runs : run[r].at = "done"}) .. CountFor(x.id, Runs)
    BY DEF CountsAreExact
  <1>1. Shapes /\ Recorded /\ Pointers /\ Tallied BY DEF Alone, Preserved
  <1>2. Gone \notin Known
    <2>1. \A r \in Runs, j \in Sections : <<r, j>> # Gone BY OwnIds
    <2> QED BY <2>1, KnownAre, OwnIds
  <1>3. ASSUME NEW r \in Runs, run[r].at = "done", NEW x \in Range(run[r].to) PROVE x \in LiveIds \cup ArchivedIds \cup swept
    <2>1. PICK k \in DOMAIN run[r].to : run[r].to[k] = x BY DEF Range
    <2>2. Safe(x) BY <1>3, <2>1 DEF Preserved, Reflections, Routes
    <2>3. x = <<r, k>> \/ x \in Known BY <1>1, <2>1 DEF Pointers, Points
    <2>4. k \in Sections BY <1>1, <2>1, RunFacts
    <2>5. x # Gone BY <1>2, <2>3, <2>4, OwnIds
    <2> QED BY <2>2, <2>5 DEF Safe, Kept
  <1>4. ASSUME NEW x \in Live
        PROVE  x.n - FirstCount(x.id) \in CountFor(x.id, {r \in Runs : run[r].at = "done"}) .. CountFor(x.id, Runs)
    <2>1. PICK f \in DOMAIN inbox : \E k \in DOMAIN inbox[f] : x = inbox[f][k] BY DEF Live, Range
    <2>2. PICK k \in DOMAIN inbox[f] : x = inbox[f][k] BY <2>1
    <2>3. <<f, k>> \in Places /\ FoundAt(<<f, k>>) = x BY <1>1, <2>2, FileFacts DEF FoundAt
    <2>4. x.n = FirstCount(x.id) + Cardinality(Credits(x.id)) BY <1>1, <2>3 DEF Tallied
    <2>5. FirstCount(x.id) \in Nat /\ Cardinality(Credits(x.id)) \in Nat BY FirstCountFacts, CreditsAreFinite
    <2> DEFINE x0 == x.id
               Done == {r \in Runs : run[r].at = "done"}
               For(rs) == {c \in rs \X Sections : c[2] \in DOMAIN run[c[1]].to /\ x0 # c /\ run[c[1]].to[c[2]] = x0}
    <2>6. CountFor(x0, Done) = Cardinality(For(Done)) /\ CountFor(x0, Runs) = Cardinality(For(Runs)) BY DEF CountFor
    <2>7. For(Done) \subseteq Credits(x0)
      <3>1. \A r \in Done : run[r].bump = {} BY <1>1 DEF Pointers, Points
      <3>2. \A c \in For(Done) : c \in Runs \X Sections /\ c[1] \in Done OBVIOUS
      <3> QED BY <3>1, <3>2 DEF Credits
    <2>8. Credits(x0) \subseteq For(Runs) BY DEF Credits
    <2>9. IsFiniteSet(For(Runs))
      <3>1. IsFiniteSet(Runs \X Sections) BY InboxReports, SectionsFinite, FS_Product
      <3> QED BY <3>1, FS_Subset
    <2> HIDE DEF For, x0
    <2>10. IsFiniteSet(For(Done)) /\ Cardinality(For(Done)) <= Cardinality(Credits(x0))
      BY <2>7, CreditsAreFinite, FS_Subset
    <2>11. Cardinality(Credits(x0)) <= Cardinality(For(Runs)) BY <2>8, <2>9, FS_Subset
    <2>12. Cardinality(For(Done)) \in Nat /\ Cardinality(For(Runs)) \in Nat BY <2>9, <2>10, FS_CardinalityType
    <2>13. x.n - FirstCount(x0) = Cardinality(Credits(x0)) BY <2>4, <2>5 DEF x0
    <2>14. Cardinality(Credits(x0)) \in Cardinality(For(Done)) .. Cardinality(For(Runs))
      BY <2>5, <2>10, <2>11, <2>12 DEF x0
    <2>15. x.n - FirstCount(x0) \in CountFor(x0, Done) .. CountFor(x0, Runs) BY <2>6, <2>13, <2>14
    <2> QED BY <2>15 DEF x0
  <1> QED BY <1>3, <1>4

-----------------------------------------------------------------------------
\* While a command runs no reflection does.
LEMMA CommandAlone ==
  ASSUME Alone, alone, List \/ Triage \/ Append1 \/ Splice \/ MoveWhole \/ RemoveFile \/ Clear \/ Rename \/ KillCommand
  PROVE  (\A r \in Runs : run[r].at \in Over) /\ Solo' /\ Pointers' /\ UNCHANGED <<run, alone>>
  <1>1. \A r \in Runs : run[r].at \in Over
    <2>1. me.at # "idle" => \A r \in Runs : run[r].at \in Over BY DEF Alone, Solo
    <2>2. Begins => \A r \in Runs : run[r].at \in Over BY DEF Begins, MayStart
    <2> QED BY <2>1, <2>2 DEF List, Triage, Append1, Splice, MoveWhole, RemoveFile, Clear, Rename, KillCommand
  <1>2. UNCHANGED <<run, alone>> BY DEF List, Triage, Append1, Splice, MoveWhole, RemoveFile, Clear, Rename, KillCommand
  <1>3. Solo' BY <1>1, <1>2 DEF Solo
  <1>4. Known' = Known BY <1>2 DEF Known, StartIds
  <1>5. \A r \in Runs : run[r].at \notin {"match", "count", "write"} BY <1>1 DEF Over
  <1>6. \A r \in Runs : /\ \A k \in DOMAIN run[r].to : run[r].to[k] = <<r, k>> \/ run[r].to[k] \in Known
                        /\ \A t \in run[r].bump : t.j \in DOMAIN run[r].to
                        /\ \A t, u \in run[r].bump : t.j = u.j => t = u
                        /\ run[r].at = "done" => run[r].bump = {}
    BY DEF Alone, Pointers, Points
  <1>7. Pointers' BY <1>2, <1>4, <1>5, <1>6 DEF Pointers, Points
  <1> QED BY <1>1, <1>2, <1>3, <1>7

\* Files nobody touched are as well counted.
LEMMA SameFiles ==
  ASSUME Once, Recorded, Tallied, UNCHANGED <<run, inbox>> PROVE Once' /\ Recorded' /\ Tallied'
  <1>1. Places' = Places BY DEF Places
  <1> QED BY <1>1, FewerFindings

\* Splice, RemoveFile and Rename take findings out, and add none.
LEMMA TakenOut ==
  ASSUME Shapes, Once, Recorded, Tallied, UNCHANGED run, NEW f, inbox' = Without(f)
  PROVE  Once' /\ Recorded' /\ Tallied'
  <1>1. DOMAIN inbox' = DOMAIN inbox \ {f} /\ \A g \in DOMAIN inbox : g # f => inbox'[g] = inbox[g] BY WithoutFacts
  <1>2. ASSUME NEW p \in Places' PROVE p \in Places /\ inbox'[p[1]][p[2]] = inbox[p[1]][p[2]]
    <2>1. PICK g \in DOMAIN inbox' : \E k \in DOMAIN inbox'[g] : p = <<g, k>> BY DEF Places, PlacesOf
    <2>2. PICK k \in DOMAIN inbox'[g] : p = <<g, k>> BY <2>1
    <2>3. g \in DOMAIN inbox /\ inbox'[g] = inbox[g] BY <1>1
    <2>4. p \in Places BY <2>2, <2>3 DEF Places, PlacesOf
    <2> QED BY <2>2, <2>3, <2>4
  <1> QED BY <1>2, FewerFindings

\* What a splice leaves is as well counted: the file is the one that was loaded.
LEMMA SplicedOut ==
  ASSUME Preserved, Once, Recorded, Tallied, AsRead, Splice
  PROVE  Once' /\ Recorded' /\ Tallied'
  <1>1. Shapes /\ Commands /\ me.at = "file" BY DEF Splice, Preserved
  <1> DEFINE R == Rest(Segs)
             f == File
  <1>2. f \in Names /\ f \in DOMAIN me.before /\ OfFile # {} /\ OfFile \subseteq me.plan /\ \A m \in OfFile : m.file = f
    BY <1>1, PlanFacts
  <1>3. f \in DOMAIN inbox /\ inbox[f] = me.before[f]
    <2>1. PICK m \in OfFile : m \in me.plan /\ m.file = f BY <1>2
    <2> QED BY <1>1, <2>1 DEF AsRead
  <1>4. /\ \A k \in DOMAIN R : \E h \in DOMAIN inbox[f] : R[k] = inbox[f][h]
        /\ \A k, o \in DOMAIN R : k # o => \E h, g \in DOMAIN inbox[f] : h # g /\ R[k] = inbox[f][h] /\ R[o] = inbox[f][g]
    BY <1>1, <1>2, <1>3, RestFacts
  <1>5. R \in Seq(Found) /\ R # <<>> BY SpliceLeaves
  <1>6. inbox' = Put(f, R) /\ UNCHANGED run BY DEF Splice
  <1> HIDE DEF R, f
  <1>7. /\ DOMAIN inbox' = DOMAIN inbox \cup {f} /\ inbox'[f] = R
        /\ \A g \in DOMAIN inbox : g # f => inbox'[g] = inbox[g]
    BY <1>1, <1>2, <1>5, <1>6, PutFacts
  <1>8. \A p \in Places' : p = <<p[1], p[2]>> /\ p[1] \in DOMAIN inbox' /\ p[2] \in DOMAIN inbox'[p[1]]
    BY DEF Places, PlacesOf
  <1>9. \A g \in DOMAIN inbox : \A k \in DOMAIN inbox[g] : <<g, k>> \in Places BY <1>1, FileFacts
  <1>10. ASSUME NEW p \in Places' PROVE \E q \in Places : q[1] = p[1] /\ inbox'[p[1]][p[2]] = inbox[q[1]][q[2]] /\ (p[1] # f => q = p)
    <2>1. CASE p[1] = f
      <3>1. PICK h \in DOMAIN inbox[f] : R[p[2]] = inbox[f][h] BY <1>4, <1>7, <1>8, <2>1
      <3>2. <<f, h>> \in Places BY <1>3, <1>9
      <3> QED BY <1>7, <2>1, <3>1, <3>2
    <2>2. CASE p[1] # f
      <3>1. p[1] \in DOMAIN inbox /\ inbox'[p[1]] = inbox[p[1]] BY <1>7, <1>8, <2>2
      <3>2. p \in Places BY <1>8, <1>9, <3>1
      <3> QED BY <3>1, <3>2
    <2> QED BY <2>1, <2>2
  <1>11. ASSUME NEW p \in Places', NEW q \in Places', p # q
         PROVE  \E a, b \in Places : a # b /\ inbox'[p[1]][p[2]] = inbox[a[1]][a[2]] /\ inbox'[q[1]][q[2]] = inbox[b[1]][b[2]]
    <2>1. CASE p[1] = f /\ q[1] = f
      <3>1. p[2] # q[2] /\ p[2] \in DOMAIN R /\ q[2] \in DOMAIN R BY <1>7, <1>8, <1>11, <2>1
      <3>2. PICK h \in DOMAIN inbox[f], g \in DOMAIN inbox[f] : h # g /\ R[p[2]] = inbox[f][h] /\ R[q[2]] = inbox[f][g]
        BY <1>4, <3>1
      <3>3. <<f, h>> \in Places /\ <<f, g>> \in Places /\ <<f, h>> # <<f, g>> BY <1>3, <1>9, <3>2
      <3> QED BY <1>7, <2>1, <3>2, <3>3
    <2>2. CASE ~(p[1] = f /\ q[1] = f)
      <3>1. PICK a \in Places : a[1] = p[1] /\ inbox'[p[1]][p[2]] = inbox[a[1]][a[2]] /\ (p[1] # f => a = p) BY <1>10
      <3>2. PICK b \in Places : b[1] = q[1] /\ inbox'[q[1]][q[2]] = inbox[b[1]][b[2]] /\ (q[1] # f => b = q) BY <1>10
      <3>3. a # b BY <1>11, <2>2, <3>1, <3>2
      <3> QED BY <3>1, <3>2, <3>3
    <2> QED BY <2>1, <2>2
  <1> QED BY <1>6, <1>10, <1>11, FewerFindings

\* The files a command has left are as it loaded them.
LEMMA NextAsRead ==
  ASSUME Shapes, AsRead, me.at \in {"file", "remove"}, me' = NextFile(me), \A g \in DOMAIN inbox : g # File => g \in DOMAIN inbox' /\ inbox'[g] = inbox[g]
  PROVE  AsRead'
  <1> DEFINE plan == {m \in me.plan : m.file # File}
  <1>1. me'.plan = plan /\ me'.before = IF plan = {} THEN <<>> ELSE me.before BY NextFacts
  <1>2. \A m \in plan : m.file \in DOMAIN inbox /\ inbox[m.file] = me.before[m.file] /\ m.file # File BY DEF AsRead
  <1> HIDE DEF plan
  <1>3. ASSUME NEW m \in plan PROVE m.file \in DOMAIN inbox' /\ inbox'[m.file] = me'.before[m.file] BY <1>1, <1>2
  <1> QED BY <1>1, <1>3 DEF AsRead

\* Every step of the user's command keeps Alone.
LEMMA CommandAlonePreserves ==
  ASSUME Preserved, Alone, List \/ Triage \/ Append1 \/ Splice \/ MoveWhole \/ RemoveFile \/ Clear \/ Rename \/ KillCommand
  PROVE  Alone'
  <1>1. UNCHANGED alone BY DEF List, Triage, Append1, Splice, MoveWhole, RemoveFile, Clear, Rename, KillCommand
  <1> SUFFICES ASSUME alone PROVE Solo' /\ Once' /\ Recorded' /\ Pointers' /\ AsRead' /\ Tallied' BY <1>1 DEF Alone
  <1>2. Solo' /\ Pointers' /\ UNCHANGED run BY CommandAlone
  <1>3. Shapes /\ Commands /\ Once /\ Recorded /\ Tallied /\ AsRead BY DEF Alone, Preserved
  <1>4. me \in CmdRec(me.before) BY <1>3, CmdFacts
  <1>5. CASE List
    <2>1. me'.at = "idle" BY <1>4, <1>5 DEF List, Begins, CmdRec
    <2>2. AsRead' BY <2>1 DEF AsRead
    <2>3. UNCHANGED inbox BY <1>5 DEF List
    <2> QED BY <1>2, <1>3, <2>2, <2>3, SameFiles
  <1>6. CASE Triage
    <2>1. UNCHANGED inbox BY <1>6 DEF Triage
    <2>2. PICK marks \in Marks :
            me' = IF DOMAIN marks \subseteq DOMAIN Loaded
                  THEN [me EXCEPT !.at = "file", !.marks = Marked(marks, Loaded), !.plan = Marked(marks, Loaded), !.before = inbox, !.count = @ + 1]
                  ELSE [me EXCEPT !.count = @ + 1, !.seen = <<>>]
      BY <1>6 DEF Triage
    <2>3. ASSUME DOMAIN marks \subseteq DOMAIN Loaded PROVE AsRead'
      <3> DEFINE ms == Marked(marks, Loaded)
      <3>1. \A m \in ms : m.file \in DOMAIN inbox BY <1>3, <2>3, MarkedFacts
      <3> HIDE DEF ms
      <3>2. me' = [me EXCEPT !.at = "file", !.marks = ms, !.plan = ms, !.before = inbox, !.count = @ + 1]
        BY <2>2, <2>3 DEF ms
      <3>3. me'.plan = ms /\ me'.before = inbox BY <1>4, <3>2 DEF CmdRec
      <3> QED BY <2>1, <3>1, <3>3 DEF AsRead
    <2>4. ASSUME ~(DOMAIN marks \subseteq DOMAIN Loaded) PROVE AsRead'
      <3>1. me'.at = "idle" BY <1>4, <1>6, <2>2, <2>4 DEF Triage, Begins, CmdRec
      <3> QED BY <3>1 DEF AsRead
    <2>5. AsRead' BY <2>3, <2>4
    <2> QED BY <1>2, <1>3, <2>1, <2>5, SameFiles
  <1>7. CASE Append1 \/ MoveWhole
    <2>1. UNCHANGED inbox BY <1>7 DEF Append1, MoveWhole
    <2>2. me.at = "file" /\ me'.plan = me.plan /\ me'.before = me.before BY <1>4, <1>7 DEF Append1, MoveWhole, CmdRec
    <2>3. AsRead' BY <1>3, <2>1, <2>2 DEF AsRead
    <2> QED BY <1>2, <1>3, <2>1, <2>3, SameFiles
  <1>8. CASE Splice
    <2>1. Once' /\ Recorded' /\ Tallied' BY <1>3, <1>8, SplicedOut
    <2>2. me.at = "file" /\ me' = NextFile(me) /\ inbox' = Put(File, Rest(Segs)) BY <1>8 DEF Splice
    <2>3. \A g \in DOMAIN inbox : g # File => g \in DOMAIN inbox' /\ inbox'[g] = inbox[g]
      BY <1>3, <1>8, <2>2, SpliceLeaves, PutFacts
    <2>4. AsRead' BY <1>3, <2>2, <2>3, NextAsRead
    <2> QED BY <1>2, <2>1, <2>4
  <1>9. CASE RemoveFile
    <2>1. me.at = "remove" /\ me' = NextFile(me) /\ inbox' = Without(File) BY <1>9 DEF RemoveFile
    <2>2. Once' /\ Recorded' /\ Tallied' BY <1>2, <1>3, <2>1, TakenOut
    <2>3. DOMAIN inbox' = DOMAIN inbox \ {File} /\ \A g \in DOMAIN inbox : g # File => inbox'[g] = inbox[g]
      BY <1>3, <2>1, WithoutFacts
    <2>4. \A g \in DOMAIN inbox : g # File => g \in DOMAIN inbox' /\ inbox'[g] = inbox[g] BY <2>3
    <2>5. AsRead' BY <1>3, <2>1, <2>4, NextAsRead
    <2> QED BY <1>2, <2>2, <2>5
  <1>10. CASE Clear
    <2>1. me'.at = "clear" /\ UNCHANGED inbox BY <1>4, <1>10 DEF Clear, CmdRec
    <2>2. AsRead' BY <2>1 DEF AsRead
    <2> QED BY <1>2, <1>3, <2>1, <2>2, SameFiles
  <1>11. CASE Rename
    <2>1. CASE File \in DOMAIN inbox
      <3>1. inbox' = Without(File) BY <1>11, <2>1 DEF Rename
      <3>2. Once' /\ Recorded' /\ Tallied' BY <1>2, <1>3, <3>1, TakenOut
      <3>3. me'.at \in {"idle", "clear"}
        <4> DEFINE c == NextFile(me)
        <4>1. me' = [c EXCEPT !.at = IF @ = "idle" THEN "idle" ELSE "clear"] BY <1>11, <2>1 DEF Rename
        <4>2. c \in CmdRec(c.before) BY <1>3, NextFacts
        <4> HIDE DEF c
        <4> QED BY <4>1, <4>2 DEF CmdRec
      <3> QED BY <1>2, <3>2, <3>3 DEF AsRead
    <2>2. CASE File \notin DOMAIN inbox
      <3>1. me'.at = "idle" /\ UNCHANGED inbox BY <1>4, <1>11, <2>2 DEF Rename, CmdRec
      <3>2. AsRead' BY <3>1 DEF AsRead
      <3> QED BY <1>2, <1>3, <3>1, <3>2, SameFiles
    <2> QED BY <2>1, <2>2
  <1>12. CASE KillCommand
    <2>1. me'.at = "idle" /\ UNCHANGED inbox BY <1>4, <1>12 DEF KillCommand, CmdRec
    <2>2. AsRead' BY <2>1 DEF AsRead
    <2> QED BY <1>2, <1>3, <2>1, <2>2, SameFiles
  <1> QED BY <1>5, <1>6, <1>7, <1>8, <1>9, <1>10, <1>11, <1>12

\* While a reflection runs nothing else does.
LEMMA ReflectionAlone ==
  ASSUME Shapes, Alone, alone, NEW r \in Runs,
         Reflect(r) \/ MatchUp(r) \/ CountRead(r) \/ CountWrite(r) \/ AddNew(r) \/ KillReflect(r)
  PROVE  /\ Solo' /\ AsRead' /\ run[r].at # "done"
         /\ \A q \in Runs : q # r => run[q].at \in Over /\ run'[q] = run[q]
         /\ UNCHANGED <<me, alone, archive>>
  <1>1. me.at = "idle" /\ run[r].at # "done" /\ \A q \in Runs : q # r => run[q].at \in Over
    <2>1. CASE Reflect(r) BY <2>1 DEF Reflect, MayStart
    <2>2. CASE ~Reflect(r)
      <3>1. run[r].at \notin Over BY <2>2 DEF MatchUp, CountRead, CountWrite, AddNew, KillReflect, Over
      <3> QED BY <3>1 DEF Alone, Solo, Over
    <2> QED BY <2>1, <2>2
  <1>2. UNCHANGED <<me, alone, archive>> BY DEF Reflect, MatchUp, CountRead, CountWrite, AddNew, KillReflect
  <1>3. \A q \in Runs : q # r => run'[q] = run[q]
    <2>1. DOMAIN run = Runs BY RunFacts
    <2>2. \E x : run' = [run EXCEPT ![r] = x]
      <3>1. CASE Reflect(r) BY <3>1 DEF Reflect
      <3>2. CASE MatchUp(r) BY <3>2 DEF MatchUp
      <3>3. CASE CountRead(r) BY <3>3 DEF CountRead
      <3>4. CASE CountWrite(r)
        <4>1. run' = [run EXCEPT ![r] = [run[r] EXCEPT !.at = "count", !.buf = <<>>, !.bump = run[r].bump \ OfHere(r)]]
          BY <2>1, <3>4 DEF CountWrite
        <4> QED BY <4>1
      <3>5. CASE AddNew(r) BY <3>5 DEF AddNew
      <3>6. CASE KillReflect(r) BY <3>6 DEF KillReflect
      <3> QED BY <3>1, <3>2, <3>3, <3>4, <3>5, <3>6
    <2> QED BY <2>1, <2>2
  <1>4. \A q \in Runs : q # r => run[q].at \in Over /\ run'[q] = run[q] BY <1>1, <1>3
  <1>5. Solo' BY <1>1, <1>2, <1>4 DEF Solo
  <1>6. AsRead' BY <1>1, <1>2 DEF AsRead
  <1> QED BY <1>1, <1>2, <1>4, <1>5, <1>6

\* What was known stays known.
LEMMA KnownStays ==
  ASSUME NEW r \in Runs, run[r].at # "done", \A q \in Runs : q # r => run'[q] = run[q]
  PROVE  Known \subseteq Known' /\ (run'[r].at # "done" => Known' = Known) /\ \A j : <<r, j>> \notin Known \/ <<r, j>> \in StartIds
  <1>1. \A q \in Runs : run[q].at = "done" => q # r /\ run'[q].at = "done" OBVIOUS
  <1>2. run'[r].at # "done" => \A q \in Runs : run'[q].at = "done" => run[q].at = "done" OBVIOUS
  <1>3. \A q, j, h : <<r, j>> = <<q, h>> => q = r OBVIOUS
  <1>4. Known \subseteq Known' BY <1>1, KnownAre
  <1>5. run'[r].at # "done" => Known' \subseteq Known BY <1>2, KnownAre
  <1>6. \A j : <<r, j>> \notin Known \/ <<r, j>> \in StartIds BY <1>1, <1>3, KnownAre
  <1> QED BY <1>4, <1>5, <1>6

\* The pointers of the reflections that do not run.
LEMMA OthersPoint ==
  ASSUME Pointers, Known \subseteq Known', NEW q \in Runs, run[q].at \in Over, run'[q] = run[q]
  PROVE  /\ \A k \in DOMAIN run'[q].to : run'[q].to[k] = <<q, k>> \/ run'[q].to[k] \in Known'
         /\ \A t \in run'[q].bump : t.j \in DOMAIN run'[q].to
         /\ \A t, u \in run'[q].bump : t.j = u.j => t = u
         /\ run'[q].at \notin {"match", "count", "write"}
         /\ run'[q].at = "done" => run'[q].bump = {}
  BY DEF Pointers, Points, Over

\* One reflection's pointers changed, the others stand still.
LEMMA AllPoint ==
  ASSUME Pointers, Known \subseteq Known', NEW r \in Runs, \A q \in Runs : q # r => run[q].at \in Over /\ run'[q] = run[q], Points(r)'
  PROVE  Pointers'
  <1>1. ASSUME NEW q \in Runs PROVE Points(q)'
    <2>1. CASE q = r BY <2>1
    <2>2. CASE q # r BY <2>2, OthersPoint DEF Points
    <2> QED BY <2>1, <2>2
  <1> QED BY <1>1 DEF Pointers

\* A step that changes no file and credits nobody.
LEMMA NothingCounted ==
  ASSUME Once, Recorded, Tallied, UNCHANGED inbox, Known \subseteq Known', \A x : Credits(x)' = Credits(x)
  PROVE  Once' /\ Recorded' /\ Tallied'
  <1>1. Places' = Places BY DEF Places
  <1>2. Once' /\ Recorded' BY <1>1 DEF Once, Recorded, FoundAt
  <1> DEFINE C(x) == {c \in Runs \X Sections : /\ c[2] \in DOMAIN run'[c[1]].to /\ x # c /\ run'[c[1]].to[c[2]] = x
                                              /\ \A t \in run'[c[1]].bump : t.j # c[2]}
  <1>3. \A x : C(x) = Credits(x) BY DEF Credits
  <1>4. ASSUME NEW p \in Places'
        PROVE  inbox'[p[1]][p[2]].n = FirstCount(inbox'[p[1]][p[2]].id) + Cardinality(C(inbox'[p[1]][p[2]].id))
    <2> HIDE DEF C
    <2> QED BY <1>1, <1>3 DEF Tallied, FoundAt
  <1>5. Tallied' BY <1>4 DEF Tallied, FoundAt, FirstCount, StartIds, Credits
  <1> QED BY <1>2, <1>5

\* Credits change only with what a reflection counts for and has yet to count.
LEMMA SameCounting ==
  ASSUME NEW r \in Runs, \A q \in Runs : q # r => run'[q] = run[q], run'[r].to = run[r].to, run'[r].bump = run[r].bump
  PROVE  \A x : Credits(x)' = Credits(x)
  <1>1. \A q \in Runs : run'[q].to = run[q].to /\ run'[q].bump = run[q].bump OBVIOUS
  <1> QED BY <1>1 DEF Credits

\* The counters of a file go up by what its targets count for: what was to be counted is credited.
LEMMA TargetsAreCredited ==
  ASSUME Shapes, Pointers, NEW r \in Runs, run[r].at = "write", NEW x \in Known,
         \A q \in Runs : q # r => run'[q] = run[q], run'[r].to = run[r].to, run'[r].bump = run[r].bump \ OfHere(r)
  PROVE  Cardinality({c \in Runs \X Sections : /\ c[2] \in DOMAIN run'[c[1]].to /\ x # c /\ run'[c[1]].to[c[2]] = x
                                               /\ \A t \in run'[c[1]].bump : t.j # c[2]})
         = Cardinality(Credits(x)) + Cardinality({t \in OfHere(r) : run[r].to[t.j] = x})
  <1> DEFINE C == {c \in Runs \X Sections : /\ c[2] \in DOMAIN run'[c[1]].to /\ x # c /\ run'[c[1]].to[c[2]] = x
                                            /\ \A t \in run'[c[1]].bump : t.j # c[2]}
             T == {t \in OfHere(r) : run[r].to[t.j] = x}
             Added == {<<r, t.j>> : t \in T}
             credit == [t \in T |-> <<r, t.j>>]
  <1>1. OfHere(r) \subseteq run[r].bump /\ IsFiniteSet(run[r].bump) BY RunFacts DEF OfHere
  <1>2. IsFiniteSet(T) BY <1>1, FS_Subset
  <1>3. /\ \A t \in run[r].bump : t.j \in DOMAIN run[r].to /\ t.j \in Sections
        /\ \A t, u \in run[r].bump : t.j = u.j => t = u
    BY RunFacts DEF Pointers, Points
  <1>4. \A t \in T : t \in run[r].bump /\ run[r].to[t.j] = x /\ t \in OfHere(r) BY <1>1
  <1>5. \A c : c \in Added <=> \E t \in T : c = <<r, t.j>> OBVIOUS
  <1>6. \A c : c \in Credits(x) <=> /\ c \in Runs \X Sections /\ c[2] \in DOMAIN run[c[1]].to /\ x # c /\ run[c[1]].to[c[2]] = x
                                    /\ \A t \in run[c[1]].bump : t.j # c[2]
    BY DEF Credits
  <1>7. \A c : c \in C <=> /\ c \in Runs \X Sections /\ c[2] \in DOMAIN run'[c[1]].to /\ x # c /\ run'[c[1]].to[c[2]] = x
                           /\ \A t \in run'[c[1]].bump : t.j # c[2]
    OBVIOUS
  <1>8. \A j \in Sections : x # <<r, j>> BY KnownAre, OwnIds
  <1>9. \A c \in Runs \X Sections : c = <<c[1], c[2]>> /\ c[1] \in Runs /\ c[2] \in Sections OBVIOUS
  <1>10. \A t : t \in run[r].bump /\ t \notin run'[r].bump <=> t \in OfHere(r) BY <1>1
  <1>11. \A t : t \in T <=> t \in OfHere(r) /\ run[r].to[t.j] = x OBVIOUS
  <1>12. Added = {credit[t] : t \in T} /\ credit \in [T -> Added] /\ \A t \in T : credit[t] = <<r, t.j>> OBVIOUS
  <1> HIDE DEF C, T, Added, credit
  <1>13. ASSUME NEW c \in C PROVE c \in Credits(x) \cup Added
    <2>1. /\ c \in Runs \X Sections /\ c[2] \in DOMAIN run'[c[1]].to /\ x # c /\ run'[c[1]].to[c[2]] = x
          /\ \A t \in run'[c[1]].bump : t.j # c[2]
      BY <1>7
    <2>2. CASE c[1] # r
      <3>1. run'[c[1]] = run[c[1]] BY <1>9, <2>1, <2>2
      <3> QED BY <1>6, <2>1, <3>1
    <2>3. CASE c[1] = r
      <3>1. c[2] \in DOMAIN run[r].to /\ run[r].to[c[2]] = x BY <2>1, <2>3
      <3>2. CASE \A t \in run[r].bump : t.j # c[2] BY <1>6, <2>1, <2>3, <3>1, <3>2
      <3>3. CASE \E t \in run[r].bump : t.j = c[2]
        <4>1. PICK t \in run[r].bump : t.j = c[2] BY <3>3
        <4>2. t \in OfHere(r) BY <1>10, <2>1, <2>3, <4>1
        <4>3. t \in T BY <1>11, <3>1, <4>1, <4>2
        <4> QED BY <1>5, <1>9, <2>1, <2>3, <4>1, <4>3
      <3> QED BY <3>2, <3>3
    <2> QED BY <2>2, <2>3
  <1>14. ASSUME NEW c \in Credits(x) PROVE c \in C
    <2>1. /\ c \in Runs \X Sections /\ c[2] \in DOMAIN run[c[1]].to /\ x # c /\ run[c[1]].to[c[2]] = x
          /\ \A t \in run[c[1]].bump : t.j # c[2]
      BY <1>6
    <2>2. run'[c[1]].to = run[c[1]].to /\ run'[c[1]].bump \subseteq run[c[1]].bump BY <1>9, <2>1
    <2> QED BY <1>7, <2>1, <2>2
  <1>15. ASSUME NEW c \in Added PROVE c \in C /\ c \notin Credits(x)
    <2>1. PICK t \in T : c = <<r, t.j>> BY <1>5
    <2>2. t \in run[r].bump /\ t \in OfHere(r) /\ run[r].to[t.j] = x /\ t.j \in DOMAIN run[r].to /\ t.j \in Sections
      BY <1>3, <1>4
    <2>3. \A u \in run'[r].bump : u.j # t.j BY <1>3, <1>10, <2>2
    <2>4. c \in Runs \X Sections /\ c[1] = r /\ c[2] = t.j /\ x # c BY <1>8, <2>1, <2>2
    <2>5. c \in C BY <1>7, <2>2, <2>3, <2>4
    <2>6. c \notin Credits(x) BY <1>6, <2>2, <2>4
    <2> QED BY <2>5, <2>6
  <1>16. C = Credits(x) \cup Added /\ Credits(x) \cap Added = {} BY <1>13, <1>14, <1>15
  <1>17. credit \in Bijection(T, Added)
    <2>1. \A t, u \in T : credit[t] = credit[u] => t = u BY <1>3, <1>4, <1>12
    <2>2. \A c \in Added : \E t \in T : credit[t] = c BY <1>5, <1>12
    <2> QED BY <1>12, <2>1, <2>2 DEF Bijection, Injection, IsInjective, Surjection
  <1>18. IsFiniteSet(Added) /\ Cardinality(Added) = Cardinality(T) BY <1>2, <1>17, FS_Bijection DEF ExistsBijection
  <1>19. Cardinality({}) = 0 BY FS_EmptySet
  <1>20. Cardinality(Credits(x) \cup Added) = Cardinality(Credits(x)) + Cardinality(Added) - Cardinality(Credits(x) \cap Added)
    BY <1>18, CreditsAreFinite, FS_Union
  <1>21. Cardinality(T) \in Nat /\ Cardinality(Credits(x)) \in Nat BY <1>2, CreditsAreFinite, FS_CardinalityType
  <1>22. Cardinality(Credits(x) \cap Added) = 0 BY <1>16, <1>19
  <1>23. Cardinality(C) = Cardinality(Credits(x) \cup Added) BY <1>16
  <1>24. Cardinality(C) = Cardinality(Credits(x)) + Cardinality(T) BY <1>18, <1>20, <1>21, <1>22, <1>23
  <1> QED BY <1>24 DEF C, T

\* CountWrite: the counters go up by what is credited.
LEMMA CountWriteTallies ==
  ASSUME Preserved, Alone, alone, NEW r \in Runs, CountWrite(r)
  PROVE  Once' /\ Recorded' /\ Pointers' /\ Tallied'
  <1> DEFINE h == Here(r)
             hs == OfHere(r)
             N(k) == Cardinality({t \in hs : t.seg = k})
  <1>1. Shapes /\ Once /\ Recorded /\ Pointers /\ Tallied /\ Routes(r) /\ run[r].at = "write"
    BY DEF Preserved, Alone, Reflections, CountWrite
  <1>2. run[r] \in RunRec /\ DOMAIN run = Runs /\ IsFiniteSet(run[r].bump) BY <1>1, RunFacts
  <1>3. run' = [run EXCEPT ![r] = [run[r] EXCEPT !.at = "count", !.buf = <<>>, !.bump = run[r].bump \ OfHere(r)]]
    BY <1>2 DEF CountWrite, RunRec
  <1>4. run'[r].at = "count" /\ run'[r].to = run[r].to /\ run'[r].bump = run[r].bump \ OfHere(r)
    BY <1>2, <1>3 DEF RunRec
  <1>5. run[r].bump # {} /\ run[r].buf = Counted(inbox[h], hs) BY <1>1 DEF Routes, Pointers, Points
  <1>6. (\E t \in run[r].bump : t.file = h) /\ h \in Names /\ hs \subseteq run[r].bump BY <1>1, <1>5, HereIsAimed
  <1>7. \A t \in run[r].bump : <<t.file, t.seg>> \in Places /\ inbox[t.file][t.seg].id = run[r].to[t.j]
    BY <1>1 DEF Pointers, Points
  <1>8. \A p \in Places : p = <<p[1], p[2]>> /\ p[1] \in DOMAIN inbox /\ p[2] \in DOMAIN inbox[p[1]] /\ inbox[p[1]][p[2]] \in Found
    BY <1>1, PlaceFacts
  <1>9. h \in DOMAIN inbox
    <2>1. PICK t \in run[r].bump : t.file = h BY <1>6
    <2>2. <<t.file, t.seg>> \in Places BY <1>7
    <2> QED BY <1>8, <2>1, <2>2
  <1>10. inbox[h] \in Seq(Found) BY <1>1, <1>9, FileFacts
  <1>11. IsFiniteSet(hs) BY <1>2, <1>6, FS_Subset
  <1>12. inbox' = Put(h, run[r].buf) BY <1>2 DEF CountWrite, RunRec
  <1>13. \A t : t \in hs <=> t \in run[r].bump /\ t.file = h BY DEF OfHere
  <1> HIDE DEF h, hs
  <1>14. /\ run[r].buf \in Seq(Found) /\ DOMAIN run[r].buf = DOMAIN inbox[h]
         /\ \A k \in DOMAIN inbox[h] : run[r].buf[k].id = inbox[h][k].id /\ run[r].buf[k].n = inbox[h][k].n + N(k)
    <2> DEFINE c == Counted(inbox[h], hs)
    <2>1. /\ c \in Seq(Found) /\ DOMAIN c = DOMAIN inbox[h]
          /\ \A k \in DOMAIN inbox[h] : c[k].id = inbox[h][k].id /\ c[k].n = inbox[h][k].n + Cardinality({t \in hs : t.seg = k})
      BY <1>10, <1>11, CountedFacts
    <2>2. run[r].buf = c BY <1>5
    <2> HIDE DEF c
    <2> QED BY <2>1, <2>2
  <1>15. run[r].buf # <<>> BY <1>1 DEF Routes
  <1>16. /\ DOMAIN inbox' = DOMAIN inbox \cup {h} /\ inbox'[h] = run[r].buf
         /\ \A g \in DOMAIN inbox : g # h => inbox'[g] = inbox[g]
    BY <1>1, <1>6, <1>12, <1>14, <1>15, PutFacts
  <1>17. DOMAIN inbox' = DOMAIN inbox /\ \A g \in DOMAIN inbox : DOMAIN inbox'[g] = DOMAIN inbox[g]
    BY <1>9, <1>14, <1>16
  <1>18. Places' = Places BY <1>17 DEF Places, PlacesOf
  <1>19. ASSUME NEW p \in Places
         PROVE  /\ inbox'[p[1]][p[2]].id = inbox[p[1]][p[2]].id
                /\ inbox'[p[1]][p[2]].n = inbox[p[1]][p[2]].n + IF p[1] = h THEN N(p[2]) ELSE 0
    <2>1. inbox[p[1]][p[2]].n \in Nat BY <1>8 DEF Found
    <2> HIDE DEF N
    <2> QED BY <1>8, <1>14, <1>16, <2>1
  <1>20. \A q \in Runs : q # r => run'[q] = run[q] BY <1>2, <1>3
  <1>21. Known' = Known BY <1>1, <1>4, <1>20, KnownStays
  <1>22. \A p \in Places : inbox'[p[1]][p[2]].id = inbox[p[1]][p[2]].id BY <1>19
  <1>23. Once' BY <1>1, <1>18, <1>22 DEF Once, FoundAt
  <1>24. Recorded' BY <1>1, <1>18, <1>19, <1>21 DEF Recorded, FoundAt
  <1> DEFINE C(x) == {c \in Runs \X Sections : /\ c[2] \in DOMAIN run'[c[1]].to /\ x # c /\ run'[c[1]].to[c[2]] = x
                                               /\ \A t \in run'[c[1]].bump : t.j # c[2]}
  <1>25. ASSUME NEW p \in Places'
         PROVE  inbox'[p[1]][p[2]].n = FirstCount(inbox'[p[1]][p[2]].id) + Cardinality(C(inbox'[p[1]][p[2]].id))
    <2> DEFINE x == inbox[p[1]][p[2]].id
    <2>1. p \in Places BY <1>18
    <2>2. x \in Known BY <1>1, <2>1 DEF Recorded, FoundAt
    <2>3. Cardinality(C(x)) = Cardinality(Credits(x)) + Cardinality({t \in OfHere(r) : run[r].to[t.j] = x})
      <3> HIDE DEF x
      <3> QED BY <1>1, <1>4, <1>20, <2>2, TargetsAreCredited
    <2>4. inbox[p[1]][p[2]].n = FirstCount(x) + Cardinality(Credits(x)) BY <1>1, <2>1 DEF Tallied, FoundAt
    <2>5. {t \in OfHere(r) : run[r].to[t.j] = x} = IF p[1] = h THEN {t \in hs : t.seg = p[2]} ELSE {}
      <3>1. ASSUME NEW t \in hs PROVE run[r].to[t.j] = x <=> p[1] = h /\ t.seg = p[2]
        <4>1. <<t.file, t.seg>> \in Places /\ inbox[t.file][t.seg].id = run[r].to[t.j] /\ t.file = h BY <1>7, <1>13
        <4>2. inbox[t.file][t.seg].id = x => <<t.file, t.seg>> = p BY <1>1, <2>1, <4>1 DEF Once, FoundAt
        <4>3. p = <<p[1], p[2]>> BY <1>8, <2>1
        <4> QED BY <4>1, <4>2, <4>3
      <3>2. OfHere(r) = hs BY DEF hs
      <3> HIDE DEF x
      <3> QED BY <3>1, <3>2
    <2>6. Cardinality({}) = 0 BY FS_EmptySet
    <2>7. Cardinality({t \in OfHere(r) : run[r].to[t.j] = x}) = IF p[1] = h THEN N(p[2]) ELSE 0 BY <2>5, <2>6
    <2>8. inbox'[p[1]][p[2]].id = x /\ inbox'[p[1]][p[2]].n = inbox[p[1]][p[2]].n + IF p[1] = h THEN N(p[2]) ELSE 0
      BY <1>19, <2>1
    <2>9. N(p[2]) \in Nat /\ FirstCount(x) \in Nat /\ Cardinality(Credits(x)) \in Nat
      BY <1>11, FS_Subset, FS_CardinalityType, FirstCountFacts, CreditsAreFinite
    <2> HIDE DEF x, N, C
    <2>10. inbox'[p[1]][p[2]].n = FirstCount(x) + Cardinality(C(x)) BY <2>3, <2>4, <2>7, <2>8, <2>9
    <2> QED BY <2>8, <2>10
  <1>26. Tallied' BY <1>25 DEF Tallied, FoundAt, FirstCount, StartIds, Credits
  <1>27. \A q \in Runs : q # r => run[q].at \in Over BY <1>1 DEF Alone, Solo, Over
  <1>28. ASSUME NEW t \in run'[r].bump PROVE t \in run[r].bump /\ <<t.file, t.seg>> \in Places' /\ inbox'[t.file][t.seg].id = run'[r].to[t.j]
    <2>1. t \in run[r].bump /\ <<t.file, t.seg>> \in Places /\ inbox[t.file][t.seg].id = run[r].to[t.j] BY <1>4, <1>7
    <2>2. \A p \in Places : inbox'[p[1]][p[2]].id = inbox[p[1]][p[2]].id BY <1>19
    <2>3. inbox'[t.file][t.seg].id = inbox[t.file][t.seg].id BY <2>1, <2>2
    <2> QED BY <1>4, <1>18, <2>1, <2>3
  <1>29. /\ \A k \in DOMAIN run'[r].to : run'[r].to[k] = <<r, k>> \/ run'[r].to[k] \in Known'
         /\ \A t \in run'[r].bump : t.j \in DOMAIN run'[r].to
         /\ \A t, u \in run'[r].bump : t.j = u.j => t = u
    BY <1>1, <1>4, <1>21, <1>28 DEF Pointers, Points
  <1>30. Points(r)' BY <1>4, <1>28, <1>29 DEF Points
  <1>31. Pointers' BY <1>1, <1>20, <1>21, <1>27, <1>30, AllPoint
  <1> QED BY <1>23, <1>24, <1>26, <1>31

\* Reflect: the lines of the listing point into the files.
LEMMA ReflectTallies ==
  ASSUME Preserved, Alone, alone, NEW r \in Runs, Reflect(r)
  PROVE  Once' /\ Recorded' /\ Pointers' /\ Tallied'
  <1>1. Shapes /\ Once /\ Recorded /\ Pointers /\ Tallied /\ Routes(r) /\ run[r].at = "idle"
    BY DEF Preserved, Alone, Reflections, Reflect
  <1>2. run[r].at # "done" /\ \A q \in Runs : q # r => run[q].at \in Over /\ run'[q] = run[q] BY <1>1, ReflectionAlone
  <1>3. PICK rep \in Reports : run' = [run EXCEPT ![r] = [@ EXCEPT !.at = "match", !.report = rep, !.live = Loaded]]
    BY DEF Reflect
  <1>4. run[r] \in RunRec /\ DOMAIN run = Runs BY <1>1, RunFacts
  <1>5. run'[r].at = "match" /\ run'[r].live = Loaded /\ run'[r].to = run[r].to /\ run'[r].bump = run[r].bump
    BY <1>3, <1>4 DEF RunRec
  <1>6. run[r].to = <<>> /\ run[r].bump = {} BY <1>1 DEF Routes
  <1>7. UNCHANGED inbox BY DEF Reflect
  <1>8. Known \subseteq Known' BY <1>2, KnownStays
  <1>9. \A x : Credits(x)' = Credits(x) BY <1>2, <1>5, SameCounting
  <1>10. Once' /\ Recorded' /\ Tallied' BY <1>1, <1>7, <1>8, <1>9, NothingCounted
  <1>11. \A k \in DOMAIN Loaded : /\ <<Loaded[k].file, Loaded[k].seg>> \in Places
                                  /\ inbox[Loaded[k].file][Loaded[k].seg].id = Loaded[k].id
    BY <1>1, LoadedShows
  <1>12. \A k \in DOMAIN run'[r].live : /\ <<run'[r].live[k].file, run'[r].live[k].seg>> \in Places'
                                        /\ inbox'[run'[r].live[k].file][run'[r].live[k].seg].id = run'[r].live[k].id
    <2>1. Places' = Places BY <1>7 DEF Places
    <2> QED BY <1>5, <1>7, <1>11, <2>1
  <1>13. Points(r)' BY <1>5, <1>6, <1>12 DEF Points
  <1>14. Pointers' BY <1>1, <1>2, <1>8, <1>13, AllPoint
  <1> QED BY <1>10, <1>14

\* A section that counts for a live finding has a target, so nothing is credited yet.
LEMMA MatchUpTallies ==
  ASSUME Preserved, Alone, alone, NEW r \in Runs, MatchUp(r)
  PROVE  Once' /\ Recorded' /\ Pointers' /\ Tallied'
  <1>1. /\ Shapes /\ Once /\ Recorded /\ Pointers /\ Tallied /\ Routes(r) /\ Points(r)
        /\ run[r].at = "match" /\ run[r].report \in Reports
    BY DEF Preserved, Alone, Reflections, MatchUp, Routes, Pointers
  <1>2. run[r].at # "done" /\ \A q \in Runs : q # r => run[q].at \in Over /\ run'[q] = run[q] BY <1>1, ReflectionAlone
  <1>3. PICK m \in Judgments(r) : run' = [run EXCEPT ![r] = [@ EXCEPT !.at = "count", !.to = [j \in DOMAIN Matched(r, m) |-> IdOf(r, Matched(r, m)[j], j)],
                                           !.bump = Targets(r, Matched(r, m)), !.live = <<>>]] BY DEF MatchUp
  <1> DEFINE to == Matched(r, m)
             ids == [j \in DOMAIN to |-> IdOf(r, to[j], j)]
             ts == Targets(r, to)
             live == run[r].live
  <1>4. run[r] \in RunRec /\ DOMAIN run = Runs BY <1>1, RunFacts
  <1>5. run'[r].at = "count" /\ run'[r].to = ids /\ run'[r].bump = ts BY <1>3, <1>4 DEF RunRec
  <1>6. run[r].to = <<>> /\ run[r].bump = {} BY <1>1 DEF Routes
  <1>7. /\ \A j \in DOMAIN to : to[j] \in {0} \cup DOMAIN live
        /\ \A t \in ts : /\ t.j \in DOMAIN to /\ to[t.j] \in DOMAIN live
                         /\ t.file = live[to[t.j]].file /\ t.seg = live[to[t.j]].seg
        /\ \A j \in DOMAIN to : to[j] \in DOMAIN live => \E t \in ts : t.j = j
        /\ \A t, u \in ts : t.j = u.j => t = u
    BY <1>1, TargetFacts
  <1>8. DOMAIN live \subseteq Nat \ {0}
    <2>1. live \in Seq(Lines) BY <1>1, RunFacts
    <2> QED BY <2>1
  <1>9. DOMAIN ids = DOMAIN to /\ \A j \in DOMAIN to : ids[j] = IF to[j] = 0 THEN <<r, j>> ELSE live[to[j]].id
    BY DEF IdOf
  <1>10. \A k \in DOMAIN live : <<live[k].file, live[k].seg>> \in Places /\ inbox[live[k].file][live[k].seg].id = live[k].id
    BY <1>1 DEF Points
  <1> HIDE DEF to, ids, ts, live
  <1>11. UNCHANGED inbox BY DEF MatchUp
  <1>12. Known \subseteq Known' BY <1>2, KnownStays
  <1>13. Places' = Places BY <1>11 DEF Places
  <1>14. ASSUME NEW j \in DOMAIN to, ids[j] # <<r, j>>
         PROVE  /\ to[j] \in DOMAIN live /\ ids[j] = live[to[j]].id /\ ids[j] \in Known
    <2>1. to[j] \in DOMAIN live /\ ids[j] = live[to[j]].id BY <1>7, <1>8, <1>9, <1>14
    <2>2. <<live[to[j]].file, live[to[j]].seg>> \in Places /\ inbox[live[to[j]].file][live[to[j]].seg].id = ids[j]
      BY <1>10, <2>1
    <2>3. ids[j] \in Known BY <1>1, <2>2 DEF Recorded, FoundAt
    <2> QED BY <2>1, <2>3
  <1>15. \A x : Credits(x)' = Credits(x)
    <2> SUFFICES ASSUME NEW x PROVE Credits(x)' = Credits(x) OBVIOUS
    <2>1. \A c : c \in Credits(x) <=> /\ c \in Runs \X Sections /\ c[2] \in DOMAIN run[c[1]].to /\ x # c /\ run[c[1]].to[c[2]] = x
                                      /\ \A t \in run[c[1]].bump : t.j # c[2]
      BY DEF Credits
    <2>2. \A c : c \in Credits(x)' <=> /\ c \in Runs \X Sections /\ c[2] \in DOMAIN run'[c[1]].to /\ x # c /\ run'[c[1]].to[c[2]] = x
                                       /\ \A t \in run'[c[1]].bump : t.j # c[2]
      BY DEF Credits
    <2>3. \A c \in Runs \X Sections : c = <<c[1], c[2]>> /\ c[1] \in Runs OBVIOUS
    <2>4. ASSUME NEW c \in Runs \X Sections, c[1] = r PROVE c \notin Credits(x) /\ c \notin Credits(x)'
      <3>1. c \notin Credits(x) BY <1>6, <2>1, <2>4
      <3>2. ASSUME c \in Credits(x)' PROVE FALSE
        <4>1. c[2] \in DOMAIN ids /\ x # c /\ ids[c[2]] = x /\ \A t \in ts : t.j # c[2] BY <1>5, <2>2, <2>4, <3>2
        <4>2. ids[c[2]] # <<r, c[2]>> BY <2>3, <2>4, <4>1
        <4> QED BY <1>7, <1>9, <1>14, <4>1, <4>2
      <3> QED BY <3>1, <3>2
    <2>5. ASSUME NEW c \in Runs \X Sections, c[1] # r PROVE c \in Credits(x) <=> c \in Credits(x)'
      <3>1. run'[c[1]] = run[c[1]] BY <1>2, <2>3, <2>5
      <3> QED BY <2>1, <2>2, <3>1
    <2>6. \A c : c \in Credits(x) => c \in Runs \X Sections BY <2>1
    <2>7. \A c : c \in Credits(x)' => c \in Runs \X Sections BY <2>2
    <2>8. \A c : c \in Credits(x) <=> c \in Credits(x)' BY <2>4, <2>5, <2>6, <2>7
    <2> QED BY <2>8
  <1>16. Once' /\ Recorded' /\ Tallied' BY <1>1, <1>11, <1>12, <1>15, NothingCounted
  <1>17. ASSUME NEW t \in ts PROVE /\ <<t.file, t.seg>> \in Places' /\ inbox'[t.file][t.seg].id = run'[r].to[t.j]
    <2>1. t.j \in DOMAIN to /\ to[t.j] \in DOMAIN live /\ t.file = live[to[t.j]].file /\ t.seg = live[to[t.j]].seg
      BY <1>7
    <2>2. <<t.file, t.seg>> \in Places /\ inbox[t.file][t.seg].id = live[to[t.j]].id BY <1>10, <2>1
    <2>3. ids[t.j] = live[to[t.j]].id BY <1>8, <1>9, <2>1
    <2> QED BY <1>5, <1>11, <1>13, <2>2, <2>3
  <1>18. \A k \in DOMAIN run'[r].to : run'[r].to[k] = <<r, k>> \/ run'[r].to[k] \in Known' BY <1>5, <1>9, <1>12, <1>14
  <1>19. /\ \A t \in run'[r].bump : t.j \in DOMAIN run'[r].to /\ <<t.file, t.seg>> \in Places' /\ inbox'[t.file][t.seg].id = run'[r].to[t.j]
         /\ \A t, u \in run'[r].bump : t.j = u.j => t = u
    BY <1>5, <1>7, <1>9, <1>17
  <1>20. Points(r)' BY <1>5, <1>18, <1>19 DEF Points
  <1>21. Pointers' BY <1>1, <1>2, <1>12, <1>20, AllPoint
  <1> QED BY <1>16, <1>21

\* CountRead: the copy is of the file.
LEMMA CountReadTallies ==
  ASSUME Preserved, Alone, alone, NEW r \in Runs, CountRead(r)
  PROVE  Once' /\ Recorded' /\ Pointers' /\ Tallied'
  <1>1. /\ Shapes /\ Once /\ Recorded /\ Pointers /\ Tallied /\ Points(r) /\ run[r].at = "count" /\ run[r].bump # {}
    BY DEF Preserved, Alone, Pointers, CountRead
  <1>2. run[r].at # "done" /\ \A q \in Runs : q # r => run[q].at \in Over /\ run'[q] = run[q] BY <1>1, ReflectionAlone
  <1> DEFINE buf == Counted(Read(Here(r)), OfHere(r))
  <1>3. run' = [run EXCEPT ![r] = [@ EXCEPT !.at = "write", !.buf = buf]] /\ UNCHANGED inbox BY DEF CountRead
  <1>4. run[r] \in RunRec /\ DOMAIN run = Runs BY <1>1, RunFacts
  <1>5. Here(r) \in DOMAIN inbox
    <2>1. PICK t \in run[r].bump : t.file = Here(r) BY <1>1, HereIsAimed
    <2>2. <<t.file, t.seg>> \in Places BY <1>1, <2>1 DEF Points
    <2>3. t.file \in DOMAIN inbox BY <2>2 DEF Places, PlacesOf
    <2> QED BY <2>1, <2>3
  <1>6. buf = Counted(inbox[Here(r)], OfHere(r)) BY <1>5 DEF Read
  <1> HIDE DEF buf
  <1>7. run'[r].at = "write" /\ run'[r].to = run[r].to /\ run'[r].bump = run[r].bump /\ run'[r].buf = buf
    BY <1>3, <1>4 DEF RunRec
  <1>8. Known \subseteq Known' BY <1>2, KnownStays
  <1>9. \A x : Credits(x)' = Credits(x) BY <1>2, <1>7, SameCounting
  <1>10. Once' /\ Recorded' /\ Tallied' BY <1>1, <1>3, <1>8, <1>9, NothingCounted
  <1>11. Here(r)' = Here(r) /\ OfHere(r)' = OfHere(r) BY <1>7 DEF OfHere, Here
  <1>12. (run[r].buf = Counted(inbox[Here(r)], OfHere(r)))'
    <2>1. run'[r].buf = Counted(inbox'[Here(r)'], OfHere(r)') BY <1>3, <1>6, <1>7, <1>11
    <2> QED BY <2>1 DEF Counted
  <1>13. Places' = Places BY <1>3 DEF Places
  <1>14. /\ \A k \in DOMAIN run'[r].to : run'[r].to[k] = <<r, k>> \/ run'[r].to[k] \in Known'
         /\ \A t \in run'[r].bump : t.j \in DOMAIN run'[r].to
         /\ \A t, u \in run'[r].bump : t.j = u.j => t = u
         /\ \A t \in run'[r].bump : <<t.file, t.seg>> \in Places' /\ inbox'[t.file][t.seg].id = run'[r].to[t.j]
    BY <1>1, <1>3, <1>7, <1>8, <1>13 DEF Points
  <1>15. Points(r)' BY <1>7, <1>12, <1>14 DEF Points
  <1>16. Pointers' BY <1>1, <1>2, <1>8, <1>15, AllPoint
  <1> QED BY <1>10, <1>16

\* KillReflect: what it had yet to count is not credited.
LEMMA KillTallies ==
  ASSUME Preserved, Alone, alone, NEW r \in Runs, KillReflect(r)
  PROVE  Once' /\ Recorded' /\ Pointers' /\ Tallied'
  <1>1. Shapes /\ Once /\ Recorded /\ Pointers /\ Tallied /\ Points(r) BY DEF Preserved, Alone, Pointers
  <1>2. run[r].at # "done" /\ \A q \in Runs : q # r => run[q].at \in Over /\ run'[q] = run[q] BY <1>1, ReflectionAlone
  <1>3. run[r] \in RunRec /\ DOMAIN run = Runs BY <1>1, RunFacts
  <1>4. run'[r].at = "killed" /\ run'[r].to = run[r].to /\ run'[r].bump = run[r].bump /\ UNCHANGED inbox
    BY <1>3 DEF KillReflect, RunRec
  <1>5. Known \subseteq Known' BY <1>2, KnownStays
  <1>6. \A x : Credits(x)' = Credits(x) BY <1>2, <1>4, SameCounting
  <1>7. Once' /\ Recorded' /\ Tallied' BY <1>1, <1>4, <1>5, <1>6, NothingCounted
  <1>8. /\ \A k \in DOMAIN run'[r].to : run'[r].to[k] = <<r, k>> \/ run'[r].to[k] \in Known'
        /\ \A t \in run'[r].bump : t.j \in DOMAIN run'[r].to
        /\ \A t, u \in run'[r].bump : t.j = u.j => t = u
    BY <1>1, <1>4, <1>5 DEF Points
  <1>9. Points(r)' BY <1>4, <1>8 DEF Points
  <1>10. Pointers' BY <1>1, <1>2, <1>5, <1>9, AllPoint
  <1> QED BY <1>7, <1>10

\* The new findings are nobody's yet, and each is in the new file once.
LEMMA AddNewTallies ==
  ASSUME Preserved, Alone, alone, NEW r \in Runs, AddNew(r)
  PROVE  Once' /\ Recorded' /\ Pointers' /\ Tallied'
  <1>1. /\ Shapes /\ Once /\ Recorded /\ Pointers /\ Tallied /\ Points(r) /\ Routes(r) /\ run[r].at = "count" /\ run[r].bump = {}
    BY DEF Preserved, Alone, Pointers, Reflections, AddNew
  <1>2. run[r].at # "done" /\ \A q \in Runs : q # r => run[q].at \in Over /\ run'[q] = run[q] BY <1>1, ReflectionAlone
  <1>3. run[r] \in RunRec /\ DOMAIN run = Runs BY <1>1, RunFacts
  <1>4. run'[r].at = "done" /\ run'[r].to = run[r].to /\ run'[r].bump = run[r].bump BY <1>3 DEF AddNew, RunRec
  <1>5. Known \subseteq Known' /\ \A j : <<r, j>> \notin Known \/ <<r, j>> \in StartIds BY <1>2, KnownStays
  <1>6. \A j \in Sections : <<r, j>> \notin Known /\ <<r, j>> \in Known' BY <1>4, <1>5, KnownAre, OwnIds
  <1>7. \A x : Credits(x)' = Credits(x) BY <1>2, <1>4, SameCounting
  <1>8. Pointers'
    <2>1. /\ \A k \in DOMAIN run'[r].to : run'[r].to[k] = <<r, k>> \/ run'[r].to[k] \in Known'
          /\ \A t \in run'[r].bump : t.j \in DOMAIN run'[r].to
          /\ \A t, u \in run'[r].bump : t.j = u.j => t = u
      BY <1>1, <1>4, <1>5 DEF Points
    <2>2. Points(r)' BY <1>1, <1>4, <2>1 DEF Points
    <2> QED BY <1>1, <1>2, <1>5, <2>2, AllPoint
  <1>9. CASE New(r) = <<>>
    <2>1. UNCHANGED inbox BY <1>9 DEF AddNew
    <2> QED BY <1>1, <1>5, <1>7, <1>8, <2>1, NothingCounted
  <1>10. CASE New(r) # <<>>
    <2> DEFINE N == New(r)
    <2>1. PICK f \in Names \ DOMAIN inbox : inbox' = Put(f, N) BY <1>10 DEF AddNew
    <2>2. /\ N \in Seq(Found)
          /\ \A k \in DOMAIN N : N[k].n = 1 /\ \E j \in Sections : N[k].id = <<r, j>>
          /\ \A k, o \in DOMAIN N : N[k].id = N[o].id => k = o
      BY <1>1, NewFacts DEF Routes
    <2>3. N # <<>> BY <1>10
    <2> HIDE DEF N
    <2>4. /\ DOMAIN inbox' = DOMAIN inbox \cup {f} /\ inbox'[f] = N
          /\ \A g \in DOMAIN inbox : g # f => inbox'[g] = inbox[g]
      BY <1>1, <2>1, <2>2, <2>3, PutFacts
    <2>5. \A p \in Places' : p = <<p[1], p[2]>> /\ p[1] \in DOMAIN inbox' /\ p[2] \in DOMAIN inbox'[p[1]]
      BY DEF Places, PlacesOf
    <2>6. \A g \in DOMAIN inbox : \A k \in DOMAIN inbox[g] : <<g, k>> \in Places BY <1>1, FileFacts
    <2>7. ASSUME NEW p \in Places', p[1] # f
          PROVE  p \in Places /\ inbox'[p[1]][p[2]] = inbox[p[1]][p[2]] /\ inbox[p[1]][p[2]].id \in Known
      <3>1. p[1] \in DOMAIN inbox /\ inbox'[p[1]] = inbox[p[1]] BY <2>4, <2>5, <2>7
      <3>2. p \in Places BY <2>5, <2>6, <3>1
      <3> QED BY <1>1, <3>1, <3>2 DEF Recorded, FoundAt
    <2>8. ASSUME NEW p \in Places', p[1] = f
          PROVE  /\ p[2] \in DOMAIN N /\ inbox'[p[1]][p[2]] = N[p[2]] /\ N[p[2]].n = 1
                 /\ N[p[2]].id \notin Known /\ N[p[2]].id \in Known' /\ \E j \in Sections : N[p[2]].id = <<r, j>>
      BY <1>6, <2>2, <2>4, <2>5, <2>8
    <2>9. ASSUME NEW p \in Places', NEW q \in Places', inbox'[p[1]][p[2]].id = inbox'[q[1]][q[2]].id PROVE p = q
      <3>1. CASE p[1] = f /\ q[1] = f
        <4>1. p[2] = q[2] BY <2>2, <2>8, <2>9, <3>1
        <4> QED BY <2>5, <3>1, <4>1
      <3>2. CASE p[1] # f /\ q[1] # f BY <1>1, <2>7, <2>9, <3>2 DEF Once, FoundAt
      <3>3. CASE p[1] = f /\ q[1] # f BY <2>7, <2>8, <2>9, <3>3
      <3>4. CASE p[1] # f /\ q[1] = f BY <2>7, <2>8, <2>9, <3>4
      <3> QED BY <3>1, <3>2, <3>3, <3>4
    <2>10. Once' BY <2>9 DEF Once, FoundAt
    <2>11. \A p \in Places' : inbox'[p[1]][p[2]].id \in Known' BY <1>5, <2>7, <2>8
    <2>12. Recorded' BY <2>11 DEF Recorded, FoundAt
    <2> DEFINE C(x) == {c \in Runs \X Sections : /\ c[2] \in DOMAIN run'[c[1]].to /\ x # c /\ run'[c[1]].to[c[2]] = x
                                                 /\ \A t \in run'[c[1]].bump : t.j # c[2]}
    <2>13. \A x : C(x) = Credits(x) BY <1>7 DEF Credits
    <2>14. ASSUME NEW j \in Sections PROVE Credits(<<r, j>>) = {} /\ FirstCount(<<r, j>>) = 1
      <3>1. <<r, j>> \notin Known BY <1>6
      <3>2. ASSUME NEW c \in Credits(<<r, j>>) PROVE FALSE
        <4>1. c \in Runs \X Sections /\ c[2] \in DOMAIN run[c[1]].to /\ <<r, j>> # c /\ run[c[1]].to[c[2]] = <<r, j>>
          BY DEF Credits
        <4>2. c = <<c[1], c[2]>> /\ c[1] \in Runs BY <4>1
        <4>3. run[c[1]].to[c[2]] = <<c[1], c[2]>> \/ run[c[1]].to[c[2]] \in Known
          BY <1>1, <4>1, <4>2 DEF Pointers, Points
        <4> QED BY <3>1, <4>1, <4>2, <4>3
      <3>3. FirstCount(<<r, j>>) = 1 BY OwnIds DEF FirstCount
      <3> QED BY <3>2, <3>3
    <2>15. Cardinality({}) = 0 BY FS_EmptySet
    <2>16. ASSUME NEW p \in Places'
           PROVE  inbox'[p[1]][p[2]].n = FirstCount(inbox'[p[1]][p[2]].id) + Cardinality(C(inbox'[p[1]][p[2]].id))
      <3> HIDE DEF C
      <3>1. CASE p[1] # f
        <4>1. FoundAt(p).n = FirstCount(FoundAt(p).id) + Cardinality(Credits(FoundAt(p).id))
          BY <1>1, <2>7, <3>1 DEF Tallied
        <4> QED BY <2>7, <2>13, <3>1, <4>1 DEF FoundAt
      <3>2. CASE p[1] = f
        <4>1. PICK j \in Sections : N[p[2]].id = <<r, j>> BY <2>8, <3>2
        <4>2. inbox'[p[1]][p[2]].id = <<r, j>> /\ inbox'[p[1]][p[2]].n = 1 BY <2>8, <3>2, <4>1
        <4>3. FirstCount(<<r, j>>) = 1 /\ Cardinality(C(<<r, j>>)) = 0 BY <2>13, <2>14, <2>15
        <4> QED BY <4>2, <4>3
      <3> QED BY <3>1, <3>2
    <2>17. Tallied' BY <2>16 DEF Tallied, FoundAt, FirstCount, StartIds, Credits
    <2> QED BY <1>8, <2>10, <2>12, <2>17
  <1> QED BY <1>9, <1>10

\* Every step of a reflection keeps Alone.
LEMMA ReflectionAlonePreserves ==
  ASSUME Preserved, Alone, NEW r \in Runs, Reflect(r) \/ MatchUp(r) \/ CountRead(r) \/ CountWrite(r) \/ AddNew(r) \/ KillReflect(r)
  PROVE  Alone'
  <1>1. UNCHANGED alone BY DEF Reflect, MatchUp, CountRead, CountWrite, AddNew, KillReflect
  <1> SUFFICES ASSUME alone PROVE Solo' /\ Once' /\ Recorded' /\ Pointers' /\ AsRead' /\ Tallied' BY <1>1 DEF Alone
  <1>2. Solo' /\ AsRead' BY ReflectionAlone DEF Preserved
  <1>3. Once' /\ Recorded' /\ Pointers' /\ Tallied'
    BY ReflectTallies, MatchUpTallies, CountReadTallies, CountWriteTallies, AddNewTallies, KillTallies
  <1> QED BY <1>2, <1>3

\* Alone is inductive, given what is preserved.
LEMMA AloneStep == Preserved /\ Alone /\ [InboxNext]_inboxVars => Alone'
  <1> SUFFICES ASSUME Preserved, Alone, [InboxNext]_inboxVars PROVE Alone' OBVIOUS
  <1>1. ASSUME NEW r \in Runs, Reflect(r) \/ MatchUp(r) \/ CountRead(r) \/ CountWrite(r) \/ AddNew(r) \/ KillReflect(r)
        PROVE  Alone'
    BY <1>1, ReflectionAlonePreserves
  <1>2. CASE List \/ Triage \/ Append1 \/ Splice \/ MoveWhole \/ RemoveFile \/ Clear \/ Rename \/ KillCommand
    BY <1>2, CommandAlonePreserves
  <1>3. CASE UNCHANGED inboxVars
    <2>1. UNCHANGED <<inbox, archive, run, me, alone, swept>> BY <1>3 DEF inboxVars
    <2> SUFFICES ASSUME alone PROVE Solo' /\ Once' /\ Recorded' /\ Pointers' /\ AsRead' /\ Tallied' BY <2>1 DEF Alone
    <2>2. Solo' /\ AsRead' BY <2>1 DEF Alone, Solo, AsRead
    <2>3. Once' /\ Recorded' /\ Tallied' BY <2>1, SameFiles DEF Alone
    <2>4. Known' = Known /\ Places' = Places BY <2>1 DEF Known, StartIds, Places
    <2>5. ASSUME NEW r \in Runs PROVE Points(r)'
      <3>1. Points(r) BY DEF Alone, Pointers
      <3>2. Here(r)' = Here(r) /\ OfHere(r)' = OfHere(r) BY <2>1 DEF Here, OfHere
      <3>3. run[r].at = "write" => (run[r].buf = Counted(inbox[Here(r)], OfHere(r)))'
        BY <2>1, <3>1, <3>2 DEF Points, Counted
      <3> QED BY <2>1, <2>4, <3>1, <3>3 DEF Points
    <2>6. Pointers' BY <2>5 DEF Pointers
    <2> QED BY <2>2, <2>3, <2>6
  <1> QED BY <1>1, <1>2, <1>3 DEF InboxNext

\* One command at a time, every section of a finished reflection counts for a finding or is a new one, and the
\* counter of a live finding is its first value and one for each section that counted for it (incrementFinding).
THEOREM CountsStayExact == InboxSpec => []CountsAreExact
  <1>1. InboxSpec => []Preserved BY PreservedInit, PreservedStep, PTL DEF InboxSpec
  <1>2. InboxSpec => []Alone BY <1>1, AloneInit, AloneStep, PTL DEF InboxSpec
  <1> QED BY <1>1, <1>2, AloneImplies, PTL
===============================================================================
