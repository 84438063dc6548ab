----------------------------- MODULE EventFeed -----------------------------
(***************************************************************************)
(* The lifecycle events feed of the HTTP bridge (conductors/http/events.ts): *)
(* a bounded ring of events with a monotonic id, written through to a JSONL  *)
(* file that seeds the ring when the bridge restarts, and a client that      *)
(* polls it with a cursor (GET /events?since=).                              *)
(***************************************************************************)
EXTENDS Integers, Sequences

CONSTANT RingSize  \* retained events (1000 by default)

ASSUME RingAssumption == RingSize \in Nat \ {0}

VARIABLES
  file,                 \* bridge-events.jsonl, as the ids of its lines
  ring, nextId, maxId,  \* EventLog, the ring as the ids of its events
  cursor, got           \* the polling client: its cursor and the ids it was sent

log  == <<file, ring, nextId, maxId>>
feed == <<log, cursor, got>>

LastOf(s) == SubSeq(s, IF Len(s) > RingSize THEN Len(s) - RingSize + 1 ELSE 1, Len(s))
Ids(s)    == {s[k] : k \in DOMAIN s}
Highest(S) == IF S = {} THEN 0 ELSE CHOOSE x \in S : \A y \in S : y <= x

(* Faulty variants of the definitions below, substituted for them to see the properties fail. *)
CursorAhead            == nextId

\* The highest id in the seed lines.
SeedId(lines) == Highest(Ids(lines))

\* What `since` answers: the retained events past the cursor, and the highest id ever used.
NewIds     == {i \in Ids(ring) : cursor <= 0 \/ i > cursor}
NextCursor == maxId

FeedInit ==
  /\ file = <<>> /\ ring = <<>>
  /\ nextId = 1 /\ maxId = 0
  /\ cursor = 0 /\ got = {}

\* emit, n times: each event gets the next id and reaches ring and file.
Emit(n) ==
  LET new == [k \in 1 .. n |-> nextId + k - 1]
  IN  /\ nextId' = nextId + n
      /\ maxId' = Highest({maxId} \cup Ids(new))
      /\ ring' = LastOf(ring \o new)
      /\ file' = file \o new

\* A new EventLog seeded from the file.
Reseed ==
  /\ maxId' = SeedId(file)
  /\ nextId' = SeedId(file) + 1
  /\ ring' = LastOf(file)
  /\ UNCHANGED file

\* GET /events?since=cursor: the client keeps the answer's cursor for its next poll.
Poll ==
  /\ got' = got \cup NewIds
  /\ cursor' = NextCursor
  /\ UNCHANGED log

FeedTypeOK ==
  /\ file \in Seq(Nat \ {0})
  /\ Len(ring) <= RingSize /\ Ids(ring) \subseteq Ids(file)
  /\ nextId \in Nat /\ maxId \in Nat /\ cursor \in Nat
  /\ got \subseteq Nat
=============================================================================
