--------------------------------- MODULE Inbox ---------------------------------
(***************************************************************************)
(* The user-level inbox of findings about the harness: the reflections of      *)
(* several projects route their findings into it (phases/reflect.ts, with the  *)
(* optional semantic match of phases/reflectDedupe.ts) while the user lists,    *)
(* triages or clears it (phases/upstreamTriage.ts). Every one is a process of   *)
(* its own; they share a directory of files and no lock.                        *)
(*                                                                            *)
(* A file is the sequence of its findings (the text between findings travels    *)
(* with the file and decides nothing). A write of a file is one step.           *)
(***************************************************************************)
EXTENDS Integers, FiniteSets, Sequences, SequencesExt

CONSTANTS
  Runs,        \* the reflections
  Names,       \* the file names, in the order the directory is read
  Start,       \* the inbox at first
  Reports,     \* what a reflection can write: a sequence of sections [title, tag]
  Dedupe,      \* reflect.dedupe.enabled, and its key is set
  MaxMarks,    \* bound on the findings one triage marks
  MaxCommands  \* bound on the user's commands

Gone == <<"gone", 0>>
FileName == "file name" \* what a finding without a heading is called
Titles   == STRING \cup {FileName}

Sections == UNION {DOMAIN rep : rep \in Reports}

ASSUME InboxReports == /\ IsFiniteSet(Runs) /\ IsFiniteSet(Reports)
                       /\ Reports \subseteq Seq([title : Titles, tag : Titles])
ASSUME InboxBounds  == MaxCommands \in Nat /\ MaxMarks \in Nat /\ Dedupe \in BOOLEAN

VARIABLES
  inbox,   \* the files of the inbox: a partial function from names to sequences of findings
  archive, \* the files of archive/: what each holds of which finding
  run,     \* the reflections
  me,      \* the user's command
  alone,   \* whether one command at a time touches the inbox
  swept    \* what a --clear overwrote in the archive (to state the properties)

inboxVars == <<inbox, archive, run, me, alone, swept>>

StartIds == {x.id : x \in UNION {Range(Start[f]) : f \in DOMAIN Start}}
Ids == StartIds \cup (Runs \X Sections) \cup {Gone}
Found == [id : Ids, title : Titles, n : Nat]
PlacesOf(files) == UNION {{<<f, k>> : k \in DOMAIN files[f]} : f \in DOMAIN files}

(* A finding of the inbox at first is in it once, and is none that a reflection will write. *)
ASSUME InboxStart ==
  /\ Names \subseteq Nat /\ IsFiniteSet(Names) /\ DOMAIN Start \subseteq Names
  /\ Start \in [DOMAIN Start -> Seq(Found)] /\ \A f \in DOMAIN Start : Start[f] # <<>>
  /\ \A p, q \in PlacesOf(Start) : Start[p[1]][p[2]].id = Start[q[1]][q[2]].id => p = q
  /\ StartIds \cap ((Runs \X Sections) \cup {Gone}) = {}

FirstCount(x) == IF x \in StartIds THEN (CHOOSE y \in UNION {Range(Start[f]) : f \in DOMAIN Start} : y.id = x).n ELSE 1

(* An empty or missing file reads as one finding without a heading: its name. *)
Ghost == [id |-> Gone, title |-> FileName, n |-> 1]
Read(f) == IF f \in DOMAIN inbox THEN inbox[f] ELSE <<Ghost>>
Put(f, s) == [g \in DOMAIN inbox \cup {f} |-> IF g = f THEN s ELSE inbox[g]]
Without(f) == [g \in DOMAIN inbox \ {f} |-> inbox[g]]

(* The elements by the number of elements before each. *)
InOrder(rank) == [k \in 1 .. Cardinality(DOMAIN rank) |-> CHOOSE x \in DOMAIN rank : rank[x] = k - 1]
Ascending(S) == InOrder([x \in S |-> Cardinality({y \in S : y < x})])

(* The listing: by recurrence, then by file and by place in the file. *)
Places == PlacesOf(inbox)
Earlier(p, q) == LET m == inbox[p[1]][p[2]].n
                     n == inbox[q[1]][q[2]].n
                 IN m > n \/ (m = n /\ (p[1] < q[1] \/ (p[1] = q[1] /\ p[2] < q[2])))
Listing == InOrder([p \in Places |-> Cardinality({q \in Places : Earlier(q, p)})])
Loaded == LET l == Listing IN
  [k \in DOMAIN l |-> LET x == inbox[l[k][1]][l[k][2]] IN [file |-> l[k][1], seg |-> l[k][2], id |-> x.id, title |-> x.title]]

(* A mutant of Counted: the first count writes the counter as it is. *)
CountFrom(s, ts) == [k \in DOMAIN s |-> [s[k] EXCEPT !.n = IF @ = 1 THEN 1 ELSE @ + Cardinality({t \in ts : t.seg = k})]]

(* incrementFinding, once for each target: the counter of the finding at that place of the file, if it is there. *)
Counted(s, ts) == [k \in DOMAIN s |-> [s[k] EXCEPT !.n = @ + Cardinality({t \in ts : t.seg = k})]]

NoRun == [at |-> "idle", report |-> <<>>, live |-> <<>>, to |-> <<>>, bump |-> {}, buf |-> <<>>]
NoCmd == [at |-> "idle", seen |-> <<>>, marks |-> {}, plan |-> {}, appended |-> {}, before |-> <<>>, count |-> 0]

InboxInit ==
  /\ inbox = Start
  /\ archive = [f \in Names |-> {}]
  /\ run = [r \in Runs |-> NoRun]
  /\ me = NoCmd
  /\ alone \in BOOLEAN
  /\ swept = {}

Over == {"idle", "done", "killed"}
MayStart == alone => me.at = "idle" /\ \A r \in Runs : run[r].at \in Over

-----------------------------------------------------------------------------
(* A reflection: its session writes the report, then routeUpstreamFinding. *)

(* The report is in; the inbox is loaded once for all that follows. *)
Reflect(r) ==
  /\ run[r].at = "idle" /\ MayStart
  /\ \E rep \in Reports :
       run' = [run EXCEPT ![r] = [@ EXCEPT !.at = "match", !.report = rep, !.live = Loaded]]
  /\ UNCHANGED <<inbox, archive, me, alone, swept>>

(* The first live finding with the tagged title; 0 when none has it or nothing is tagged: then it is new. *)
Match(r, j) == LET hits == {k \in DOMAIN run[r].live : run[r].live[k].title = run[r].report[j].tag}
               IN IF hits = {} THEN 0 ELSE CHOOSE k \in hits : \A h \in hits : k <= h

(* The live finding each section counts for, or its own: the judge may find one for a section without an exact *)
(* match; a judge that fails, or that there is no key for, finds none.                                       *)
Matched(r, m) == [j \in DOMAIN run[r].report |-> IF Match(r, j) # 0 THEN Match(r, j) ELSE m[j]]
SameDefect(r) == IF Dedupe THEN DOMAIN run[r].live ELSE {}
Judgments(r)  == [DOMAIN run[r].report -> {0} \cup SameDefect(r)]
IdOf(r, k, j) == IF k = 0 THEN <<r, j>> ELSE run[r].live[k].id

(* What to count: the places as they were when the inbox was loaded. *)
Targets(r, to) == {[file |-> run[r].live[to[j]].file, seg |-> run[r].live[to[j]].seg, j |-> j, exact |-> Match(r, j) # 0] :
                     j \in {h \in DOMAIN to : to[h] \in DOMAIN run[r].live}}

MatchUp(r) ==
  /\ run[r].at = "match"
  /\ \E m \in Judgments(r) : LET to == Matched(r, m) IN
       run' = [run EXCEPT ![r] = [@ EXCEPT !.at = "count", !.to = [j \in DOMAIN to |-> IdOf(r, to[j], j)],
                                           !.bump = Targets(r, to), !.live = <<>>]]
  /\ UNCHANGED <<inbox, archive, me, alone, swept>>

(* File by file, the exact matches' first, then the judged ones', each in the order of the report. *)
Here(r)   == LET exact == {t \in run[r].bump : t.exact}
                 ts == IF exact = {} THEN run[r].bump ELSE exact
             IN (CHOOSE t \in ts : \A u \in ts : t.j <= u.j).file
OfHere(r) == {t \in run[r].bump : t.file = Here(r)}

(* One file is read, all its counters go up in memory, and the whole file is written back. *)
CountRead(r) ==
  /\ run[r].at = "count" /\ run[r].bump # {}
  /\ run' = [run EXCEPT ![r] = [@ EXCEPT !.at = "write",
               !.buf = Counted(Read(Here(r)), OfHere(r))]]
  /\ UNCHANGED <<inbox, archive, me, alone, swept>>
CountWrite(r) ==
  /\ run[r].at = "write"
  /\ inbox' = Put(Here(r), run[r].buf)
  /\ run' = [run EXCEPT ![r] = [@ EXCEPT !.at = "count", !.buf = <<>>,
               !.bump = run[r].bump \ OfHere(r)]]
  /\ UNCHANGED <<archive, me, alone, swept>>

(* The new findings, all in one file of their own; none, no file. *)
New(r) == LET js == Ascending({j \in DOMAIN run[r].to : run[r].to[j] = <<r, j>>})
          IN [k \in DOMAIN js |-> [id |-> <<r, js[k]>>, title |-> run[r].report[js[k]].title, n |-> 1]]
AddNew(r) ==
  /\ run[r].at = "count" /\ run[r].bump = {}
  /\ IF New(r) = <<>> THEN UNCHANGED inbox
     ELSE \E f \in Names \ DOMAIN inbox : archive[f] = {} /\ inbox' = Put(f, New(r))
  /\ run' = [run EXCEPT ![r].at = "done"]
  /\ UNCHANGED <<archive, me, alone, swept>>

(* When several run at once, one that is killed is one that takes no further step. *)
KillReflect(r) ==
  /\ run[r].at \notin Over /\ alone
  /\ run' = [run EXCEPT ![r].at = "killed"]
  /\ UNCHANGED <<inbox, archive, me, alone, swept>>

-----------------------------------------------------------------------------
(* The user's commands: the listing, --done and --wontdo with its indices, --clear. *)

Begins == me.at = "idle" /\ MayStart

List ==
  /\ Begins
  /\ LET l == Loaded IN me' = [me EXCEPT !.seen = [k \in DOMAIN l |-> l[k].id]]
  /\ UNCHANGED <<inbox, archive, run, alone, swept>>

(* --check-shipped prints the listed findings a judge takes for fixed by a commit; the user marks those, or others. *)
Suggested == SUBSET DOMAIN me.seen
Marks == UNION {[s -> {"done", "wontdo"}] : s \in {t \in Suggested : Cardinality(t) \in 1 .. MaxMarks}}

(* Every index is checked against the inbox as it is loaded now, before anything is written. *)
Marked(marks, l) == {[at |-> k, file |-> l[k].file, seg |-> l[k].seg, id |-> l[k].id, meant |-> me.seen[k], how |-> marks[k]] :
                       k \in DOMAIN marks}
Triage ==
  /\ Begins /\ me.count < MaxCommands
  /\ LET l == Loaded IN \E marks \in Marks :
       me' = IF DOMAIN marks \subseteq DOMAIN l
             THEN LET ms == Marked(marks, l) IN
                  [me EXCEPT !.at = "file", !.marks = ms, !.plan = ms, !.before = inbox, !.count = @ + 1]
             ELSE [me EXCEPT !.count = @ + 1, !.seen = <<>>]
  /\ UNCHANGED <<inbox, archive, run, alone, swept>>

(* File by file, in the order of the listing. *)
File == (CHOOSE m \in me.plan : \A o \in me.plan : m.at <= o.at).file
OfFile == {m \in me.plan : m.file = File}
Segs == {m.seg : m \in OfFile}

(* The file as loaded, without the marked findings. *)
Rest(segs) == LET f == me.before[File]
                  ks == Ascending(DOMAIN f \ segs)
              IN [k \in DOMAIN ks |-> f[ks[k]]]
Entry(m) == [id |-> m.id, how |-> m.how]
NextFile(c) == LET plan == {m \in c.plan : m.file # File} IN
  [c EXCEPT !.at = IF plan = {} THEN "idle" ELSE "file", !.plan = plan, !.appended = {},
            !.before = IF plan = {} THEN <<>> ELSE @, !.marks = IF plan = {} THEN {} ELSE @, !.seen = <<>>]

(* Some findings stay: each marked one is appended to the archive, then the file is rewritten without them. *)
Append1 ==
  /\ me.at = "file" /\ Rest(Segs) # <<>> /\ me.appended # Segs
  /\ \E m \in OfFile :
       /\ m.seg = Min(Segs \ me.appended)
       /\ archive' = [archive EXCEPT ![File] = @ \cup {Entry(m)}]
       /\ me' = [me EXCEPT !.appended = @ \cup {m.seg}]
  /\ UNCHANGED <<inbox, run, alone, swept>>
Splice ==
  /\ me.at = "file" /\ Rest(Segs) # <<>> /\ me.appended = Segs
  /\ inbox' = Put(File, Rest(Segs))
  /\ me' = NextFile(me)
  /\ UNCHANGED <<archive, run, alone, swept>>

(* A mutant of MoveWhole: an archive that is there is kept as it is. *)
MoveOntoNew ==
  /\ me.at = "file" /\ Rest(Segs) = <<>>
  /\ archive' = [archive EXCEPT ![File] = IF @ = {} THEN {Entry(m) : m \in OfFile} ELSE @]
  /\ me' = [me EXCEPT !.at = "remove"]
  /\ UNCHANGED <<inbox, run, alone, swept>>

(* None stays: the whole file goes to the archive, then out of the inbox. *)
MoveWhole ==
  /\ me.at = "file" /\ Rest(Segs) = <<>>
  /\ archive' = [archive EXCEPT ![File] = @ \cup {Entry(m) : m \in OfFile}]
  /\ me' = [me EXCEPT !.at = "remove"]
  /\ UNCHANGED <<inbox, run, alone, swept>>
RemoveFile ==
  /\ me.at = "remove"
  /\ inbox' = Without(File)
  /\ me' = NextFile(me)
  /\ UNCHANGED <<archive, run, alone, swept>>

(* --clear renames every listed file over its name in the archive; a file that is gone ends the command. *)
Clear ==
  /\ Begins /\ me.count < MaxCommands /\ inbox # <<>>
  /\ me' = [me EXCEPT !.at = "clear", !.plan = {[at |-> f, file |-> f] : f \in DOMAIN inbox}, !.count = @ + 1]
  /\ UNCHANGED <<inbox, archive, run, alone, swept>>
Moved(f) == {[id |-> x.id, how |-> "cleared"] : x \in Range(inbox[f])}
Rename ==
  /\ me.at = "clear"
  /\ IF File \in DOMAIN inbox
     THEN /\ archive' = [archive EXCEPT ![File] = Moved(File)]
          /\ inbox' = Without(File)
          /\ swept' = swept \cup {e.id : e \in archive[File]}
          /\ me' = [NextFile(me) EXCEPT !.at = IF @ = "idle" THEN "idle" ELSE "clear"]
     ELSE me' = [me EXCEPT !.at = "idle", !.plan = {}] /\ UNCHANGED <<inbox, archive, swept>>
  /\ UNCHANGED <<run, alone>>

KillCommand ==
  /\ me.at # "idle"
  /\ me' = [me EXCEPT !.at = "idle", !.plan = {}, !.appended = {}, !.before = <<>>, !.marks = {}, !.seen = <<>>]
  /\ UNCHANGED <<inbox, archive, run, alone, swept>>

InboxNext ==
  \/ \E r \in Runs : Reflect(r) \/ MatchUp(r) \/ CountRead(r) \/ CountWrite(r) \/ AddNew(r) \/ KillReflect(r)
  \/ List \/ Triage \/ Append1 \/ Splice \/ MoveWhole \/ RemoveFile \/ Clear \/ Rename \/ KillCommand

InboxSpec == InboxInit /\ [][InboxNext]_inboxVars
-----------------------------------------------------------------------------
Live == UNION {Range(inbox[f]) : f \in DOMAIN inbox}
LiveIds == {x.id : x \in Live}
Archived == UNION {archive[f] : f \in Names}
ArchivedIds == {e.id : e \in Archived}

InboxTypeOK ==
  /\ DOMAIN inbox \subseteq Names /\ \A f \in DOMAIN inbox : inbox[f] \in Seq(Found) /\ inbox[f] # <<>>
  /\ archive \in [Names -> SUBSET [id : Ids, how : {"done", "wontdo", "cleared"}]]
  /\ \A r \in Runs : run[r].at \in {"idle", "match", "count", "write", "done", "killed"}
  /\ me.at \in {"idle", "file", "remove", "clear"} /\ me.count \in 0 .. MaxCommands
  /\ alone \in BOOLEAN /\ swept \subseteq Ids

(* Whatever runs beside whatever and is killed wherever, a finding that was ever in the inbox is in it or in the *)
(* archive, but for what a --clear overwrote in the archive: routing writes back whole files, and triage takes   *)
(* findings out of files it read earlier.                                                                       *)
NothingLost ==
  \A x \in StartIds \cup {<<r, j>> : r \in {q \in Runs : run[q].at = "done"}, j \in Sections} :
    (x \in StartIds \/ x \in Range(run[x[1]].to)) => x \in LiveIds \cup ArchivedIds \cup swept

(* One command at a time: every section of a finished reflection counts for a finding or is a new one (a tag that *)
(* matches no title drops nothing), and the counter of a live finding is its first value and one for each section *)
(* that counted for it; a killed reflection may have counted less.                                               *)
CountFor(x, rs) == Cardinality({c \in rs \X Sections : c[2] \in DOMAIN run[c[1]].to /\ x # c /\ run[c[1]].to[c[2]] = x})
CountsAreExact ==
  alone =>
    /\ \A r \in Runs : run[r].at = "done" => Range(run[r].to) \subseteq LiveIds \cup ArchivedIds \cup swept
    /\ \A x \in Live : LET n == x.n - FirstCount(x.id) IN
         n \in CountFor(x.id, {r \in Runs : run[r].at = "done"}) .. CountFor(x.id, Runs)

-----------------------------------------------------------------------------
(* What a comment or a document says and the code does not keep (README, section 4). *)

(* Even one command at a time, what the user marks with "indices from the listing" (docs/configuration.md) is   *)
(* what the listing showed there.                                                                               *)
MarkedIsMeant == alone => \A m \in me.marks : m.id = m.meant

(* Even one command at a time, what triage put into the archive stays there. *)
ArchiveKeeps == [][alone => \A f \in Names : archive[f] \subseteq archive'[f]]_inboxVars
=============================================================================
