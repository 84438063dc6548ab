------------------------------- MODULE Bridge -------------------------------
(***************************************************************************)
(* Jobs, cancellation and the per-target mutation lock of the HTTP bridge    *)
(* (conductors/http): the in-memory JobStore, the TargetLock, the spawned    *)
(* phase children and the in-process /role and /unit calls, which all settle *)
(* on their own time while clients start, cancel and poll.  Every handler    *)
(* runs without an await up to the start of its work, so a request is one    *)
(* atomic step; completions, cancels and restarts interleave freely.         *)
(***************************************************************************)
EXTENDS EventFeed, FiniteSets

CONSTANTS
  Targets,      \* resolved roots and workspaces
  MaxJobs,      \* bound on jobs ever created
  LastN,        \* lastNJobs: retained jobs (50 by default)
  CancelKinds,  \* kinds of job the clients cancel
  MaxCancels,   \* bound on cancel requests
  MaxRestarts   \* bound on bridge restarts

Kinds   == {"phase", "call", "read", "plan"}
Writers == {"phase", "call"}
JobIds  == 1 .. MaxJobs

ASSUME JobsAssumption == MaxJobs \in Nat /\ LastN \in Nat \ {0}
ASSUME KindsAssumption == CancelKinds \subseteq Kinds
ASSUME BoundsAssumption == MaxCancels \in Nat /\ MaxRestarts \in Nat

VARIABLES
  created,          \* number of jobs created so far; job ids are 1..created
  kind, target,     \* of each created job
  kept, status,     \* JobStore.jobs and each job's status
  cancels,          \* JobStore.cancels: jobs with a registered callback
  lock,             \* TargetLock.holders, 0 for a free target
  worker,           \* the job's child process or in-process run
  settled, released,\* the flags of spawnPhase's closures
  astray,           \* history: targets whose lock a call's cancel took while a writer works there
  ncancels, restarts

store == <<created, kind, target, kept, status, cancels>>
work  == <<lock, worker, settled, released, astray>>
vars  == <<store, work, ncancels, restarts, feed>>

Writes(j) == kind[j] \in Writers
Works(j)  == Writes(j) /\ worker[j] = "live"

\* The targets of S on which a writer still works after the step.
Busy(S) == {t \in S : \E j \in JobIds : Writes(j) /\ target[j] = t /\ worker'[j] = "live"}

\* TargetLock.release: it frees the target, whoever holds it.
Release(j) == [lock EXCEPT ![target[j]] = 0]

(* Faulty variants of the definitions below, substituted for them to see the properties fail. *)
ReleaseAgain(j)       == Release(j)

\* evictOverflow: at most LastN jobs stay, the oldest go, running or not.
Retained(S) == {j \in S : Cardinality({k \in S : k > j}) < LastN}

\* spawnPhase frees the lock once.
ReleaseOnce(j)    == IF j \in released THEN lock ELSE Release(j)
ReleaseOnClose(j) == ReleaseOnce(j)

\* Whether a close or an error of the child still finishes the job.
FinishesJob(j) == j \notin settled

Init ==
  /\ created = 0
  /\ kind = [j \in JobIds |-> "phase"]
  /\ \E t \in Targets : target = [j \in JobIds |-> t]
  /\ kept = {} /\ cancels = {}
  /\ status = [j \in JobIds |-> "none"]
  /\ lock = [t \in Targets |-> 0]
  /\ worker = [j \in JobIds |-> "none"]
  /\ settled = {} /\ released = {} /\ astray = {}
  /\ ncancels = 0 /\ restarts = 0
  /\ FeedInit

-----------------------------------------------------------------------------
(* Requests that create a job.                                               *)

Create(k, t, s) ==
  /\ created < MaxJobs
  /\ created' = created + 1
  /\ kind' = [kind EXCEPT ![created + 1] = k]
  /\ target' = [target EXCEPT ![created + 1] = t]
  /\ kept' = Retained(kept \cup {created + 1})
  /\ status' = [status EXCEPT ![created + 1] = s]
  /\ UNCHANGED <<settled, released, astray, ncancels, restarts, cursor, got>>

\* A phase or /conduct request, /role of a writing kind or /unit: a held target is a 409.
Launch(k, t) ==
  /\ k \in Writers /\ lock[t] = 0
  /\ Create(k, t, "running")
  /\ lock' = [lock EXCEPT ![t] = created + 1]
  /\ worker' = [worker EXCEPT ![created + 1] = "live"]
  /\ cancels' = (cancels \cap kept') \cup {created + 1}
  /\ Emit(1)

\* /role of a read-only kind: no lock, no cancel callback.
LaunchRead(t) ==
  /\ Create("read", t, "running")
  /\ worker' = [worker EXCEPT ![created + 1] = "live"]
  /\ cancels' = cancels \cap kept'
  /\ Emit(1)
  /\ UNCHANGED lock

\* /plan takes the lock, writes PLAN.md and releases it within one synchronous handler.
Plan(t) ==
  /\ lock[t] = 0
  /\ Create("plan", t, "finished")
  /\ cancels' = cancels \cap kept'
  /\ Emit(2)
  /\ UNCHANGED <<lock, worker>>

-----------------------------------------------------------------------------
(* Work that ends.                                                           *)

\* JobStore.finish, as succeeded or failed: an evicted job is forgotten, any other takes the
\* status, whatever it had.
FinishJob(j) ==
  IF j \in kept
  THEN status' = [status EXCEPT ![j] = "finished"] /\ Emit(1)
  ELSE UNCHANGED <<status, log>>

\* The child's close, or its error event; a close after an error finds both flags set.
ChildEnds(j) ==
  /\ kind[j] = "phase" /\ worker[j] \in {"live", "terminating"}
  /\ worker' = [worker EXCEPT ![j] = "gone"]
  /\ lock' = ReleaseOnClose(j)
  /\ released' = released \cup {j} /\ settled' = settled \cup {j}
  /\ astray' = Busy(astray)
  /\ IF FinishesJob(j) THEN FinishJob(j) ELSE UNCHANGED <<status, log>>
  /\ UNCHANGED <<created, kind, target, kept, cancels, ncancels, restarts, cursor, got>>

\* The awaited role or unit returns or throws: finish, then the finally releases, although a
\* cancel may have released before.
CallEnds(j) ==
  /\ kind[j] \in {"call", "read"} /\ worker[j] = "live"
  /\ worker' = [worker EXCEPT ![j] = "gone"]
  /\ lock' = (IF kind[j] = "call" THEN Release(j) ELSE lock)
  /\ astray' = Busy(astray)
  /\ FinishJob(j)
  /\ UNCHANGED <<created, kind, target, kept, cancels, settled, released, ncancels,
                 restarts, cursor, got>>

-----------------------------------------------------------------------------
(* Cancels, restarts and polls.                                              *)

\* POST /jobs/:id/cancel on a retained job, finished or not.  The callback of a phase marks
\* it settled, signals the child and releases; that of a call only releases, whether the call
\* still runs or is over and the lock is another job's.
Cancel(j) ==
  /\ j \in kept /\ kind[j] \in CancelKinds /\ ncancels < MaxCancels
  /\ ncancels' = ncancels + 1
  /\ status' = [status EXCEPT ![j] = "canceled"]
  /\ cancels' = cancels \ {j}
  /\ IF j \in cancels
     THEN /\ lock' = (IF kind[j] = "phase" THEN ReleaseOnce(j) ELSE Release(j))
          /\ IF kind[j] = "phase"
             THEN /\ settled' = settled \cup {j} /\ released' = released \cup {j}
                  /\ worker' = [worker EXCEPT ![j] = IF @ = "live" THEN "terminating" ELSE @]
             ELSE UNCHANGED <<settled, released, worker>>
          /\ astray' = Busy(astray \cup (IF kind[j] = "call" THEN {target[j]} ELSE {}))
     ELSE UNCHANGED work
  /\ Emit(1)
  /\ UNCHANGED <<created, kind, target, kept, restarts, cursor, got>>

\* The bridge process is replaced: jobs and locks are in memory only, children may outlive it.
Restart ==
  /\ restarts < MaxRestarts /\ restarts' = restarts + 1
  /\ kept' = {} /\ cancels' = {}
  /\ lock' = [t \in Targets |-> 0] /\ astray' = {}
  /\ \E alive \in SUBSET {j \in JobIds : worker[j] \in {"live", "terminating"}} :
       worker' = [j \in JobIds |-> IF j \in alive THEN "orphan"
                                   ELSE IF worker[j] = "none" THEN "none" ELSE "gone"]
  /\ Reseed
  /\ UNCHANGED <<created, kind, target, status, settled, released, ncancels, cursor, got>>

ClientPolls == Poll /\ UNCHANGED <<store, work, ncancels, restarts>>

Next ==
  \/ \E k \in Writers, t \in Targets : Launch(k, t)
  \/ \E t \in Targets : LaunchRead(t) \/ Plan(t)
  \/ \E j \in JobIds : ChildEnds(j) \/ CallEnds(j) \/ Cancel(j)
  \/ Restart
  \/ ClientPolls

Spec == Init /\ [][Next]_vars

-----------------------------------------------------------------------------
(* Properties.                                                               *)

TypeOK ==
  /\ created \in 0 .. MaxJobs
  /\ kind \in [JobIds -> Kinds] /\ target \in [JobIds -> Targets]
  /\ kept \subseteq 1 .. created /\ Cardinality(kept) <= LastN
  /\ status \in [JobIds -> {"none", "running", "finished", "canceled"}]
  /\ cancels \subseteq kept
  /\ lock \in [Targets -> 0 .. created]
  /\ worker \in [JobIds -> {"none", "live", "terminating", "gone", "orphan"}]
  /\ settled \subseteq JobIds /\ released \subseteq JobIds /\ astray \subseteq Targets
  /\ ncancels \in 0 .. MaxCancels /\ restarts \in 0 .. MaxRestarts
  /\ FeedTypeOK

\* A lock never leaks: whoever holds it works on its target, however jobs settle, are canceled
\* or are evicted.  And a writer at work holds the lock of its target, unless the cancel of a
\* /role or /unit took it since nobody worked there: its callback and its finally release a lock
\* they do not look at (spawnPhase's release, acquireOrConflict, conductor.ts).
LockIffWorking ==
  /\ \A t \in Targets, j \in JobIds : lock[t] = j => target[j] = t /\ Works(j)
  /\ \A j \in JobIds : Works(j) => lock[target[j]] = j \/ target[j] \in astray

\* Whose lock goes in a step that is not its own (TargetLock.release takes no holder).
FreedByOther(t) ==
  LET h == lock[t] IN
    h # 0 /\ lock'[t] # h /\ status'[h] = status[h] /\ worker'[h] = worker[h]

\* No lock is freed by another job's late close, its cancel or its finally, but where a call
\* was canceled beside a writer at work, until nobody works on that target any more.
FreedByHolder == [][\A t \in Targets : FreedByOther(t) => t \in astray']_vars

\* A canceled phase job stays canceled when its child closes later (the settled flag).
CanceledStays ==
  [][\A j \in JobIds :
       kind[j] = "phase" /\ status[j] = "canceled" => status'[j] = "canceled"]_vars

\* What a client's cursor has passed and the ring still holds was sent to the client.
NothingMissed == \A i \in Ids(ring) : i <= cursor => i \in got

-----------------------------------------------------------------------------
(* What a comment or a document says and the code does not keep (README, section 4). *)

\* spawn.ts 10 and docs/http-bridge.md 293: "at most ONE in-flight MUTATING job per resolved
\* target", a child that was told to stop and still runs included.
OneMutatingJob ==
  \A j, k \in JobIds :
    /\ Writes(j) /\ Writes(k) /\ target[j] = target[k]
    /\ worker[j] \in {"live", "terminating"} /\ worker[k] \in {"live", "terminating"}
    => j = k

\* docs/http-bridge.md 300-301: "The lock is released exactly once per job", so no job frees
\* the lock of another.
ReleasedOnce == [][\A t \in Targets : ~FreedByOther(t)]_vars
=============================================================================
