---------------------------- MODULE Bridge_proofs ----------------------------
(***************************************************************************)
(* The lock discipline of the bridge, for any number of jobs, targets,       *)
(* retained jobs, cancels and restarts: no lock leaks, and none is missing    *)
(* from a writer at work or freed by another job, but where a /role or /unit  *)
(* was canceled beside a writer at work.  A canceled phase stays canceled,    *)
(* and the feed of events loses nothing;                                      *)
(* and below, what a run of conduct says of itself and asks (ConductRun).       *)
(***************************************************************************)
EXTENDS Bridge, ConductRun, SequenceTheorems, WellFoundedInduction, TLAPS

\* What the lock invariant rests on: the typing it needs, which jobs exist, and that a phase
\* that stopped being live, or can no longer be canceled, has both its closure flags set.
Shape ==
  /\ created \in Nat /\ created <= MaxJobs
  /\ kind \in [JobIds -> Kinds] /\ target \in [JobIds -> Targets]
  /\ status \in [JobIds -> {"none", "running", "finished", "canceled"}]
  /\ worker \in [JobIds -> {"none", "live", "terminating", "gone", "orphan"}]
  /\ lock \in [Targets -> Nat]

Exists ==
  /\ \A t \in Targets : lock[t] <= created
  /\ \A j \in JobIds : j > created =>
       /\ worker[j] = "none" /\ status[j] = "none"
       /\ j \notin kept /\ j \notin cancels /\ j \notin settled /\ j \notin released

Closures == \A j \in JobIds : kind[j] = "phase" =>
  /\ worker[j] = "live" => j \notin released /\ j \notin settled
  /\ worker[j] = "terminating" => j \in released /\ j \in settled
  /\ j \in kept => j \in cancels \/ j \in settled
  /\ j \in kept /\ worker[j] # "live" => j \in released
  /\ status[j] = "canceled" => j \in settled \/ worker[j] \notin {"live", "terminating"}

Uncanceled == \A j \in JobIds : j \in cancels => Writes(j)

\* The flags of the closures do not depend on the lock.
Flagged == Shape /\ Exists /\ Closures

Inv == Flagged /\ Uncanceled /\ LockIffWorking

LEMMA InitInv == Init => Inv
  BY JobsAssumption DEF Init, Inv, Flagged, Shape, Exists, LockIffWorking, Closures, Uncanceled,
     Works, Writes, Writers, Kinds, JobIds

\* A created job: its id is fresh, so no other job and no lock mentions it.
LEMMA CreateFacts ==
  ASSUME Shape, NEW k \in Kinds, NEW t \in Targets, NEW s \in {"running", "finished"}, Create(k, t, s)
  PROVE  /\ created + 1 \in JobIds /\ created' = created + 1
         /\ kind' \in [JobIds -> Kinds] /\ target' \in [JobIds -> Targets]
         /\ status' \in [JobIds -> {"none", "running", "finished", "canceled"}]
         /\ kind'[created + 1] = k /\ target'[created + 1] = t /\ status'[created + 1] = s
         /\ \A j \in JobIds : j # created + 1 =>
              kind'[j] = kind[j] /\ target'[j] = target[j] /\ status'[j] = status[j]
         /\ kept' \subseteq kept \cup {created + 1}
         /\ settled' = settled /\ released' = released
  <1> USE JobsAssumption
  <1>1. created \in Nat /\ created + 1 \in JobIds BY DEF Shape, Create, JobIds
  <1>2. kept' \subseteq kept \cup {created + 1} BY DEF Create, Retained
  <1> QED BY <1>1, <1>2 DEF Shape, Create

\* The jobs other than the created one keep what they have, and it has nothing yet.
LEMMA CreateFlagged ==
  ASSUME Flagged, NEW n \in JobIds, n = created + 1, NEW k \in Kinds, NEW t \in Targets,
         NEW s \in {"running", "finished"}, Create(k, t, s),
         \A j \in JobIds : j # n => worker'[j] = worker[j],
         worker' \in [JobIds -> {"none", "live", "terminating", "gone", "orphan"}],
         lock' \in [Targets -> Nat], \A u \in Targets : lock'[u] \in {lock[u], n},
         k = "phase" => worker'[n] = "live" /\ n \in cancels',
         \A j \in JobIds : j # n => (j \in cancels' <=> j \in cancels /\ j \in kept')
  PROVE  Flagged'
  <1> USE JobsAssumption
  <1>1. /\ created' = n
        /\ kind' \in [JobIds -> Kinds] /\ target' \in [JobIds -> Targets]
        /\ status' \in [JobIds -> {"none", "running", "finished", "canceled"}]
        /\ kind'[n] = k /\ status'[n] = s
        /\ \A j \in JobIds : j # n => kind'[j] = kind[j] /\ status'[j] = status[j]
        /\ kept' \subseteq kept \cup {n}
        /\ settled' = settled /\ released' = released
    BY CreateFacts DEF Flagged
  <1>2. created \in Nat /\ n \in Nat /\ n > created /\ n <= MaxJobs BY DEF Flagged, Shape, JobIds
  <1>3. Shape' BY <1>1, <1>2 DEF Flagged, Shape
  <1>4. Exists'
    <2>1. \A u \in Targets : lock'[u] <= n BY <1>2 DEF Flagged, Shape, Exists
    <2>2. \A j \in JobIds : j > n => j > created /\ j # n BY <1>2 DEF JobIds
    <2>3. \A j \in JobIds : j # n /\ j \in cancels' => j \in cancels OBVIOUS
    <2> QED BY <2>1, <2>2, <2>3, <1>1 DEF Flagged, Exists
  <1>5. Closures'
    <2> SUFFICES ASSUME NEW j \in JobIds, kind'[j] = "phase"
                 PROVE  /\ worker'[j] = "live" => j \notin released' /\ j \notin settled'
                        /\ worker'[j] = "terminating" => j \in released' /\ j \in settled'
                        /\ j \in kept' => j \in cancels' \/ j \in settled'
                        /\ j \in kept' /\ worker'[j] # "live" => j \in released'
                        /\ status'[j] = "canceled" =>
                             j \in settled' \/ worker'[j] \notin {"live", "terminating"}
      BY DEF Closures
    <2>1. CASE j = n BY <2>1, <1>1, <1>2 DEF Flagged, Exists
    <2>2. CASE j # n BY <2>2, <1>1 DEF Flagged, Closures
    <2> QED BY <2>1, <2>2
  <1> QED BY <1>3, <1>4, <1>5 DEF Flagged

LEMMA FlaggedKept == ASSUME Flagged, [Next]_vars PROVE Flagged'
  <1> USE JobsAssumption
  <1>1. ASSUME NEW k \in Writers, NEW t \in Targets, Launch(k, t) PROVE Flagged'
    <2>1. PICK n \in JobIds : n = created + 1 BY <1>1 DEF Launch, Create, Flagged, Shape, JobIds
    <2>2. Create(k, t, "running") /\ k \in Kinds BY <1>1 DEF Launch, Writers, Kinds
    <2>3. /\ lock' = [lock EXCEPT ![t] = n] /\ worker' = [worker EXCEPT ![n] = "live"]
          /\ cancels' = (cancels \cap kept') \cup {n}
      BY <1>1, <2>1 DEF Launch
    <2>4. /\ worker' \in [JobIds -> {"none", "live", "terminating", "gone", "orphan"}]
          /\ worker'[n] = "live" /\ \A j \in JobIds : j # n => worker'[j] = worker[j]
          /\ lock' \in [Targets -> Nat] /\ \A u \in Targets : lock'[u] \in {lock[u], n}
      BY <2>1, <2>3 DEF Flagged, Shape, JobIds
    <2> QED BY <2>1, <2>2, <2>3, <2>4, CreateFlagged
  <1>2. ASSUME NEW t \in Targets, LaunchRead(t) \/ Plan(t) PROVE Flagged'
    <2>1. PICK n \in JobIds : n = created + 1
      BY <1>2 DEF LaunchRead, Plan, Create, Flagged, Shape, JobIds
    <2>2. /\ \A j \in JobIds : j # n => (j \in cancels' <=> j \in cancels /\ j \in kept')
          /\ lock' \in [Targets -> Nat] /\ \A u \in Targets : lock'[u] \in {lock[u], n}
      BY <1>2 DEF LaunchRead, Plan, Flagged, Shape
    <2>3. /\ worker' \in [JobIds -> {"none", "live", "terminating", "gone", "orphan"}]
          /\ \A j \in JobIds : j # n => worker'[j] = worker[j]
      <3>1. CASE LaunchRead(t) BY <3>1, <2>1 DEF LaunchRead, Flagged, Shape
      <3>2. CASE Plan(t) BY <3>2 DEF Plan, Flagged, Shape
      <3> QED BY <1>2, <3>1, <3>2
    <2>4. CASE Create("read", t, "running")
      <3>1. "read" \in Kinds /\ "read" # "phase" BY DEF Kinds
      <3> QED BY <2>1, <2>2, <2>3, <2>4, <3>1, CreateFlagged
    <2>5. CASE Create("plan", t, "finished")
      <3>1. "plan" \in Kinds /\ "plan" # "phase" BY DEF Kinds
      <3> QED BY <2>1, <2>2, <2>3, <2>5, <3>1, CreateFlagged
    <2> QED BY <1>2, <2>4, <2>5 DEF LaunchRead, Plan
  <1>3. ASSUME NEW j \in JobIds, ChildEnds(j) \/ CallEnds(j) PROVE Flagged'
    <2>1. /\ UNCHANGED <<created, kind, target, kept, cancels>>
          /\ worker[j] # "none" /\ worker' = [worker EXCEPT ![j] = "gone"]
          /\ settled' \in {settled, settled \cup {j}} /\ released' \in {released, released \cup {j}}
          /\ kind[j] = "phase" => j \in settled' /\ j \in released'
      BY <1>3 DEF ChildEnds, CallEnds
    <2>2. target[j] \in Targets /\ 0 \in Nat /\ \A u \in Targets : lock'[u] \in {lock[u], 0}
      BY <1>3 DEF ChildEnds, CallEnds, ReleaseOnClose, ReleaseOnce, Release, Flagged, Shape
    <2>3. lock' \in [Targets -> Nat]
      BY <1>3, <2>2 DEF ChildEnds, CallEnds, ReleaseOnClose, ReleaseOnce, Release, Flagged, Shape
    <2>4. /\ status' \in [JobIds -> {"none", "running", "finished", "canceled"}]
          /\ \A i \in JobIds : i # j => status'[i] = status[i]
      BY <1>3 DEF ChildEnds, CallEnds, FinishJob, Flagged, Shape
    <2>5. /\ worker' \in [JobIds -> {"none", "live", "terminating", "gone", "orphan"}]
          /\ worker'[j] = "gone" /\ \A i \in JobIds : i # j => worker'[i] = worker[i]
      BY <2>1 DEF Flagged, Shape
    <2>6. ~(j > created) BY <2>1 DEF Flagged, Exists
    <2>7. Shape' BY <2>1, <2>3, <2>4, <2>5 DEF Flagged, Shape
    <2>8. Exists' BY <2>1, <2>2, <2>4, <2>5, <2>6 DEF Flagged, Shape, Exists
    <2>9. Closures' BY <2>1, <2>4, <2>5 DEF Flagged, Closures
    <2> QED BY <2>7, <2>8, <2>9 DEF Flagged
  <1>4. ASSUME NEW j \in JobIds, Cancel(j) PROVE Flagged'
    <2>1. /\ UNCHANGED <<created, kind, target, kept>> /\ j \in kept
          /\ cancels' = cancels \ {j}
          /\ status' = [status EXCEPT ![j] = "canceled"]
      BY <1>4 DEF Cancel
    <2>2. /\ target[j] \in Targets /\ 0 \in Nat /\ lock' \in [Targets -> Nat]
          /\ \A u \in Targets : lock'[u] \in {lock[u], 0}
      <3>1. CASE j \in cancels BY <3>1, <1>4 DEF Cancel, ReleaseOnce, Release, Flagged, Shape
      <3>2. CASE j \notin cancels BY <3>2, <1>4 DEF Cancel, work, Flagged, Shape
      <3> QED BY <3>1, <3>2
    <2>3. /\ status' \in [JobIds -> {"none", "running", "finished", "canceled"}]
          /\ \A i \in JobIds : i # j => status'[i] = status[i]
      BY <2>1 DEF Flagged, Shape
    <2>4. ~(j > created) BY <2>1 DEF Flagged, Exists
    <2>5. CASE kind[j] = "phase" /\ j \in cancels
      <3>1. /\ settled' = settled \cup {j} /\ released' = released \cup {j}
            /\ worker' = [worker EXCEPT ![j] = IF @ = "live" THEN "terminating" ELSE @]
        BY <1>4, <2>5 DEF Cancel
      <3>2. /\ worker' \in [JobIds -> {"none", "live", "terminating", "gone", "orphan"}]
            /\ worker'[j] # "live" /\ \A i \in JobIds : i # j => worker'[i] = worker[i]
        BY <3>1 DEF Flagged, Shape
      <3>3. Shape' BY <2>1, <2>2, <2>3, <3>2 DEF Flagged, Shape
      <3>4. Exists' BY <2>1, <2>2, <2>3, <2>4, <3>1, <3>2 DEF Flagged, Shape, Exists
      <3>5. Closures' BY <2>1, <2>3, <3>1, <3>2 DEF Flagged, Closures
      <3> QED BY <3>3, <3>4, <3>5 DEF Flagged
    <2>6. CASE ~(kind[j] = "phase" /\ j \in cancels)
      <3>1. UNCHANGED <<worker, settled, released>> BY <1>4, <2>6 DEF Cancel, work
      <3>2. kind[j] = "phase" => j \in settled BY <2>1, <2>6 DEF Flagged, Closures
      <3>3. Shape' BY <2>1, <2>2, <2>3, <3>1 DEF Flagged, Shape
      <3>4. Exists' BY <2>1, <2>2, <2>3, <2>4, <3>1 DEF Flagged, Shape, Exists
      <3>5. Closures' BY <2>1, <2>3, <3>1, <3>2 DEF Flagged, Closures
      <3> QED BY <3>3, <3>4, <3>5 DEF Flagged
    <2> QED BY <2>5, <2>6
  <1>5. CASE Restart
    <2>1. /\ kept' = {} /\ cancels' = {} /\ lock' = [t \in Targets |-> 0]
          /\ UNCHANGED <<created, kind, target, status, settled, released>>
      BY <1>5 DEF Restart
    <2>2. /\ worker' \in [JobIds -> {"none", "live", "terminating", "gone", "orphan"}]
          /\ \A j \in JobIds : /\ worker'[j] \notin {"live", "terminating"}
                               /\ worker[j] = "none" => worker'[j] = "none"
      BY <1>5 DEF Restart
    <2> QED BY <2>1, <2>2 DEF Flagged, Shape, Exists, Closures
  <1>6. CASE ClientPolls \/ UNCHANGED vars
    <2>1. UNCHANGED <<store, work>> BY <1>6 DEF ClientPolls, vars
    <2> QED BY <2>1 DEF store, work, Flagged, Shape, Exists, Closures
  <1> QED BY <1>1, <1>2, <1>3, <1>4, <1>5, <1>6 DEF Next

\* A job never changes its kind or its target.
LEMMA KindsKept ==
  ASSUME Flagged, Next, NEW h \in JobIds, h <= created
  PROVE  kind'[h] = kind[h] /\ target'[h] = target[h]
  <1>1. h # created + 1 BY DEF Flagged, Shape, JobIds
  <1>2. CASE \E k \in Kinds, t \in Targets, s \in {"running", "finished"} : Create(k, t, s)
    BY <1>1, <1>2 DEF Create, Flagged, Shape
  <1>3. CASE UNCHANGED <<kind, target>> BY <1>3
  <1>4. ASSUME NEW k \in Writers, NEW t \in Targets, Launch(k, t)
        PROVE  kind'[h] = kind[h] /\ target'[h] = target[h]
    BY <1>2, <1>4 DEF Launch, Writers, Kinds
  <1>5. ASSUME NEW t \in Targets, LaunchRead(t) \/ Plan(t)
        PROVE  kind'[h] = kind[h] /\ target'[h] = target[h]
    BY <1>2, <1>5 DEF LaunchRead, Plan, Kinds
  <1>6. CASE \/ \E j \in JobIds : ChildEnds(j) \/ CallEnds(j) \/ Cancel(j)
             \/ Restart \/ ClientPolls
    BY <1>3, <1>6 DEF ChildEnds, CallEnds, Cancel, Restart, ClientPolls, store
  <1> QED BY <1>4, <1>5, <1>6 DEF Next

-----------------------------------------------------------------------------
(* The lock. *)

LEMMA LaunchLocks ==
  ASSUME Inv, NEW k \in Writers, NEW t \in Targets, Launch(k, t) PROVE Uncanceled' /\ LockIffWorking'
  <1> USE JobsAssumption
  <1>0. PICK n \in JobIds : n = created + 1 BY DEF Launch, Create, Inv, Flagged, Shape, JobIds
  <1>1. k \in Kinds BY DEF Writers, Kinds
  <1>2. Create(k, t, "running") BY DEF Launch
  <1>3. /\ kind'[n] = k /\ target'[n] = t
        /\ \A j \in JobIds : j # n => kind'[j] = kind[j] /\ target'[j] = target[j]
    BY <1>0, <1>1, <1>2, CreateFacts DEF Inv, Flagged
  <1>4. /\ lock' = [lock EXCEPT ![t] = n] /\ lock[t] = 0
        /\ worker' = [worker EXCEPT ![n] = "live"]
        /\ cancels' = (cancels \cap kept') \cup {n} /\ astray' = astray
    BY <1>0 DEF Launch, Create
  <1>5. created \in Nat /\ n \in Nat /\ n > created BY <1>0 DEF Inv, Flagged, Shape, JobIds
  <1>6. /\ worker'[n] = "live" /\ \A j \in JobIds : j # n => worker'[j] = worker[j]
        /\ lock'[t] = n /\ \A u \in Targets : u # t => lock'[u] = lock[u]
    BY <1>4 DEF Inv, Flagged, Shape
  <1>7. /\ Works(n)' /\ Writes(n)'
        /\ \A j \in JobIds : j # n => (Works(j)' <=> Works(j)) /\ (Writes(j)' <=> Writes(j))
    BY <1>3, <1>6 DEF Works, Writes
  <1>8. \A u \in Targets : u # t => lock'[u] # n BY <1>5, <1>6 DEF Inv, Flagged, Shape, Exists
  <1>9. ASSUME NEW u \in Targets, NEW j \in JobIds, lock'[u] = j PROVE target'[j] = u /\ Works(j)'
    <2>1. CASE u = t BY <2>1, <1>3, <1>6, <1>7, <1>9
    <2>2. CASE u # t BY <2>2, <1>3, <1>6, <1>7, <1>8, <1>9 DEF Inv, LockIffWorking
    <2> QED BY <2>1, <2>2
  <1>10. ASSUME NEW j \in JobIds, Works(j)' PROVE lock'[target'[j]] = j \/ target'[j] \in astray'
    <2>1. CASE j = n BY <2>1, <1>3, <1>6
    <2>2. CASE j # n
      <3>1. target[j] \in Targets /\ j # 0 BY DEF Inv, Flagged, Shape, JobIds
      <3>2. lock[target[j]] = j \/ target[j] \in astray BY <2>2, <1>7, <1>10 DEF Inv, LockIffWorking
      <3> QED BY <2>2, <3>1, <3>2, <1>3, <1>4, <1>6
    <2> QED BY <2>1, <2>2
  <1>11. LockIffWorking' BY <1>9, <1>10 DEF LockIffWorking
  <1>12. Uncanceled' BY <1>4, <1>7 DEF Inv, Uncanceled
  <1> QED BY <1>11, <1>12

\* A job that takes no lock and no callback: a read, or a plan done within its request.
LEMMA UnlockedLocks ==
  ASSUME Inv, NEW t \in Targets, LaunchRead(t) \/ Plan(t) PROVE Uncanceled' /\ LockIffWorking'
  <1> USE JobsAssumption
  <1>0. PICK n \in JobIds : n = created + 1
    BY DEF LaunchRead, Plan, Create, Inv, Flagged, Shape, JobIds
  <1>1. PICK k \in {"read", "plan"}, s \in {"running", "finished"} : Create(k, t, s)
    BY DEF LaunchRead, Plan
  <1>2. k \in Kinds /\ k \notin Writers BY DEF Kinds, Writers
  <1>3. /\ kind'[n] = k
        /\ \A j \in JobIds : j # n => kind'[j] = kind[j] /\ target'[j] = target[j]
    BY <1>0, <1>1, <1>2, CreateFacts DEF Inv, Flagged
  <1>4. lock' = lock /\ cancels' = cancels \cap kept' /\ astray' = astray BY DEF LaunchRead, Plan, Create
  <1>5. created \in Nat /\ n \in Nat /\ n > created BY <1>0 DEF Inv, Flagged, Shape, JobIds
  <1>6. \A j \in JobIds : j # n => worker'[j] = worker[j]
    <2>1. CASE LaunchRead(t) BY <2>1, <1>0 DEF LaunchRead, Inv, Flagged, Shape
    <2>2. CASE Plan(t) BY <2>2 DEF Plan
    <2> QED BY <2>1, <2>2
  <1>7. ~Writes(n)' /\ ~Works(n)'
    BY <1>2, <1>3 DEF Works, Writes
  <1>8. \A j \in JobIds : j # n => (Works(j)' <=> Works(j)) /\ (Writes(j)' <=> Writes(j))
    BY <1>3, <1>6 DEF Works, Writes
  <1>9. n \notin cancels /\ \A u \in Targets : lock[u] # n BY <1>5 DEF Inv, Flagged, Shape, Exists
  <1>10. ASSUME NEW u \in Targets, NEW j \in JobIds, lock'[u] = j PROVE target'[j] = u /\ Works(j)'
    BY <1>3, <1>4, <1>8, <1>9, <1>10 DEF Inv, LockIffWorking
  <1>11. ASSUME NEW j \in JobIds, Works(j)' PROVE lock'[target'[j]] = j \/ target'[j] \in astray'
    BY <1>3, <1>4, <1>7, <1>8, <1>11 DEF Inv, LockIffWorking
  <1>12. LockIffWorking' BY <1>10, <1>11 DEF LockIffWorking
  <1>13. Uncanceled' BY <1>4, <1>7, <1>8, <1>9 DEF Inv, Uncanceled
  <1> QED BY <1>12, <1>13

\* A step of job j that keeps the lock and j at work, or frees its target: then j stops working
\* there, or the target counts as astray from now on.
LEMMA SettleLocks ==
  ASSUME Inv, NEW j \in JobIds, NEW taken, UNCHANGED <<kind, target>>,
         \A i \in JobIds : i # j => worker'[i] = worker[i],
         worker'[j] = "live" => worker[j] = "live",
         \/ lock' = lock /\ (Works(j) => worker'[j] = "live")
         \/ lock' = Release(j) /\ (target[j] \in taken \/ (Works(j) /\ worker'[j] # "live")),
         astray' = Busy(astray \cup taken)
  PROVE  LockIffWorking'
  <1>1. Shape /\ LockIffWorking /\ target[j] \in Targets /\ j # 0 BY DEF Inv, Flagged, Shape, JobIds
  <1>2. \A i \in JobIds : Writes(i)' <=> Writes(i) BY DEF Writes
  <1>3. \A i \in JobIds : Works(i)' => Works(i) BY <1>2 DEF Works
  <1>4. \A i \in JobIds : i # j => (Works(i)' <=> Works(i)) BY <1>2 DEF Works
  <1>5. \A i \in JobIds : Works(i)' /\ target[i] \in astray \cup taken => target[i] \in astray'
    BY <1>2 DEF Works, Busy
  <1>6. CASE lock' = lock /\ (Works(j) => worker'[j] = "live")
    <2>1. \A i \in JobIds : Works(i)' <=> Works(i) BY <1>2, <1>3, <1>4, <1>6 DEF Works
    <2>2. ASSUME NEW t \in Targets, NEW i \in JobIds, lock'[t] = i PROVE target'[i] = t /\ Works(i)'
      BY <1>1, <1>6, <2>1, <2>2 DEF LockIffWorking
    <2>3. ASSUME NEW i \in JobIds, Works(i)' PROVE lock'[target'[i]] = i \/ target'[i] \in astray'
      <3>1. lock[target[i]] = i \/ target[i] \in astray BY <1>1, <1>3, <2>3 DEF LockIffWorking
      <3> QED BY <1>5, <1>6, <2>3, <3>1
    <2> QED BY <2>2, <2>3 DEF LockIffWorking
  <1>7. CASE lock' = Release(j) /\ (target[j] \in taken \/ (Works(j) /\ worker'[j] # "live"))
    <2>1. lock'[target[j]] = 0 /\ \A u \in Targets : u # target[j] => lock'[u] = lock[u]
      BY <1>1, <1>7 DEF Release, Shape
    <2>2. ASSUME NEW t \in Targets, NEW i \in JobIds, lock'[t] = i PROVE target'[i] = t /\ Works(i)'
      <3>1. i # 0 /\ t # target[j] BY <2>1, <2>2 DEF JobIds
      <3>2. target[i] = t /\ Works(i) BY <1>1, <2>1, <2>2, <3>1 DEF LockIffWorking
      <3> QED BY <1>4, <3>1, <3>2
    <2>3. ASSUME NEW i \in JobIds, Works(i)' PROVE lock'[target'[i]] = i \/ target'[i] \in astray'
      <3>1. target[i] \in Targets BY <1>1 DEF Shape
      <3>2. lock[target[i]] = i \/ target[i] \in astray BY <1>1, <1>3, <2>3 DEF LockIffWorking
      <3>3. CASE target[i] # target[j] BY <1>5, <2>1, <2>3, <3>1, <3>2, <3>3
      <3>4. CASE target[i] = target[j]
        <4>1. CASE target[j] \in taken BY <1>5, <2>3, <3>4, <4>1
        <4>2. CASE Works(j) /\ worker'[j] # "live"
          <5>1. i # j BY <2>3, <4>2 DEF Works
          <5>2. lock[target[j]] = j \/ target[j] \in astray BY <1>1, <4>2 DEF LockIffWorking
          <5> QED BY <1>5, <2>3, <3>2, <3>4, <5>1, <5>2
        <4> QED BY <1>7, <4>1, <4>2
      <3> QED BY <3>3, <3>4
    <2> QED BY <2>2, <2>3 DEF LockIffWorking
  <1> QED BY <1>6, <1>7

LEMMA EndLocks ==
  ASSUME Inv, NEW j \in JobIds, ChildEnds(j) \/ CallEnds(j) PROVE Uncanceled' /\ LockIffWorking'
  <1>1. /\ worker[j] \in {"live", "terminating"} /\ worker' = [worker EXCEPT ![j] = "gone"]
        /\ UNCHANGED <<kind, target, cancels>> /\ astray' = Busy(astray)
    BY DEF ChildEnds, CallEnds
  <1>2. worker'[j] = "gone" /\ \A i \in JobIds : i # j => worker'[i] = worker[i]
    BY <1>1 DEF Inv, Flagged, Shape
  <1>3. Works(j) <=> kind[j] \in Writers /\ worker[j] = "live" BY DEF Works, Writes
  <1>4. \/ lock' = lock /\ ~Works(j)
        \/ lock' = Release(j) /\ Works(j)
    <2>1. CASE ChildEnds(j) /\ worker[j] = "live"
      <3>1. kind[j] = "phase" /\ lock' = ReleaseOnce(j) BY <2>1 DEF ChildEnds, ReleaseOnClose
      <3>2. j \notin released BY <2>1, <3>1 DEF Inv, Flagged, Closures
      <3> QED BY <1>3, <2>1, <3>1, <3>2 DEF ReleaseOnce, Writers
    <2>2. CASE ChildEnds(j) /\ worker[j] # "live"
      <3>1. kind[j] = "phase" /\ lock' = ReleaseOnce(j) BY <2>2 DEF ChildEnds, ReleaseOnClose
      <3>2. j \in released BY <1>1, <2>2, <3>1 DEF Inv, Flagged, Closures
      <3> QED BY <1>3, <2>2, <3>1, <3>2 DEF ReleaseOnce
    <2>3. CASE CallEnds(j) BY <1>3, <2>3 DEF CallEnds, Release, Writers
    <2> QED BY <2>1, <2>2, <2>3
  <1>5. astray' = Busy(astray \cup {}) BY <1>1
  <1>6. LockIffWorking' BY <1>1, <1>2, <1>4, <1>5, SettleLocks
  <1>7. Uncanceled' BY <1>1 DEF Inv, Uncanceled, Writes
  <1> QED BY <1>6, <1>7

\* A cancel of a phase that is still live gives its lock back; of one that is not, nothing; that
\* of a call frees the target, whoever has it.
LEMMA CancelLocks ==
  ASSUME Inv, NEW j \in JobIds, Cancel(j) PROVE Uncanceled' /\ LockIffWorking'
  <1>1. /\ j \in kept /\ cancels' = cancels \ {j} /\ UNCHANGED <<kind, target>>
    BY DEF Cancel
  <1>2. Uncanceled' BY <1>1 DEF Inv, Uncanceled, Writes
  <1>3. CASE j \notin cancels
    <2>1. UNCHANGED <<lock, worker, astray>> BY <1>3 DEF Cancel, work
    <2> QED BY <1>1, <1>2, <2>1 DEF Inv, LockIffWorking, Works, Writes
  <1>4. CASE j \in cancels /\ kind[j] = "phase"
    <2>1. /\ lock' = ReleaseOnce(j) /\ astray' = Busy(astray \cup {})
          /\ worker' = [worker EXCEPT ![j] = IF @ = "live" THEN "terminating" ELSE @]
      BY <1>4 DEF Cancel
    <2>2. worker'[j] # "live" /\ \A i \in JobIds : i # j => worker'[i] = worker[i]
      BY <2>1 DEF Inv, Flagged, Shape
    <2>3. \/ lock' = lock /\ ~Works(j)
          \/ lock' = Release(j) /\ Works(j)
      <3>1. CASE worker[j] = "live"
        <4>1. j \notin released BY <1>4, <3>1 DEF Inv, Flagged, Closures
        <4> QED BY <1>4, <2>1, <3>1, <4>1 DEF ReleaseOnce, Works, Writes, Writers
      <3>2. CASE worker[j] # "live"
        <4>1. j \in released BY <1>1, <1>4, <3>2 DEF Inv, Flagged, Closures
        <4> QED BY <2>1, <3>2, <4>1 DEF ReleaseOnce, Works
      <3> QED BY <3>1, <3>2
    <2>4. LockIffWorking' BY <1>1, <2>1, <2>2, <2>3, SettleLocks
    <2> QED BY <1>2, <2>4
  <1>5. CASE j \in cancels /\ kind[j] # "phase"
    <2>1. kind[j] = "call" BY <1>5 DEF Inv, Uncanceled, Writes, Writers
    <2>2. lock' = Release(j) /\ worker' = worker /\ astray' = Busy(astray \cup {target[j]})
      BY <1>5, <2>1 DEF Cancel
    <2>3. LockIffWorking' BY <1>1, <2>2, SettleLocks
    <2> QED BY <1>2, <2>3
  <1> QED BY <1>3, <1>4, <1>5

LEMMA RestartLocks == ASSUME Inv, Restart PROVE Uncanceled' /\ LockIffWorking'
  <1>1. /\ cancels' = {} /\ lock' = [t \in Targets |-> 0]
        /\ \A j \in JobIds : worker'[j] # "live"
    BY DEF Restart
  <1> QED BY <1>1 DEF Uncanceled, LockIffWorking, Works, JobIds

LEMMA NextInv == ASSUME Inv, [Next]_vars PROVE Inv'
  <1>0. Flagged' BY FlaggedKept DEF Inv
  <1>1. CASE \E k \in Writers, t \in Targets : Launch(k, t) BY <1>0, <1>1, LaunchLocks DEF Inv
  <1>2. CASE \E t \in Targets : LaunchRead(t) \/ Plan(t) BY <1>0, <1>2, UnlockedLocks DEF Inv
  <1>3. CASE \E j \in JobIds : ChildEnds(j) \/ CallEnds(j) BY <1>0, <1>3, EndLocks DEF Inv
  <1>4. CASE \E j \in JobIds : Cancel(j) BY <1>0, <1>4, CancelLocks DEF Inv
  <1>5. CASE Restart BY <1>0, <1>5, RestartLocks DEF Inv
  <1>6. CASE ClientPolls \/ UNCHANGED vars
    <2>1. UNCHANGED <<store, work>> BY <1>6 DEF ClientPolls, vars
    <2>2. Uncanceled' /\ LockIffWorking'
      BY <2>1 DEF store, work, Inv, LockIffWorking, Uncanceled, Works, Writes
    <2> QED BY <1>0, <2>2 DEF Inv
  <1> QED BY <1>1, <1>2, <1>3, <1>4, <1>5, <1>6 DEF Next

\* A lock never leaks, however jobs settle, are canceled, evicted or forgotten by a restart; and
\* the writer at work on a target holds its lock, unless a call was canceled beside it.
THEOREM LockDiscipline == Spec => []LockIffWorking
  <1>1. Inv /\ [Next]_vars => Inv' BY NextInv
  <1>2. Inv => LockIffWorking BY DEF Inv
  <1> QED BY InitInv, <1>1, <1>2, PTL DEF Spec

\* A lock is freed only in a step of its holder, unless a call was canceled beside a writer.
THEOREM NoForeignRelease == Spec => FreedByHolder
  <1> DEFINE A == \A t \in Targets : FreedByOther(t) => t \in astray'
  <1>1. Inv /\ [Next]_vars => [A]_vars
    <2> SUFFICES ASSUME Inv, Next, NEW t \in Targets, FreedByOther(t) PROVE t \in astray'
      BY DEF vars
    <2>1. Inv' BY NextInv
    <2>2. lock[t] # 0 /\ lock'[t] # lock[t] /\ worker'[lock[t]] = worker[lock[t]] BY DEF FreedByOther
    <2>3. PICK h \in JobIds : h = lock[t]
      BY <2>2, JobsAssumption DEF Inv, Flagged, Exists, Shape, JobIds
    <2>4. target[h] = t /\ Works(h) BY <2>3 DEF Inv, LockIffWorking
    <2>5. h <= created BY <2>4 DEF Inv, Flagged, Exists, Shape, JobIds, Works
    <2>6. kind'[h] = kind[h] /\ target'[h] = target[h] BY <2>5, KindsKept DEF Inv
    <2>7. Works(h)' BY <2>2, <2>3, <2>4, <2>6 DEF Works, Writes
    <2>8. lock'[target'[h]] = h \/ target'[h] \in astray' BY <2>1, <2>7 DEF Inv, LockIffWorking
    <2> QED BY <2>2, <2>3, <2>4, <2>6, <2>8
  <1> QED BY InitInv, NextInv, <1>1, PTL DEF Spec, FreedByHolder

\* Canceling a phase is final: its child's later close does not turn it into a failure.
THEOREM CanceledIsFinal == Spec => CanceledStays
  <1> DEFINE A == \A j \in JobIds :
                    kind[j] = "phase" /\ status[j] = "canceled" => status'[j] = "canceled"
  <1>1. Init => Flagged BY InitInv DEF Inv
  <1>2. Flagged /\ [Next]_vars => Flagged' BY FlaggedKept
  <1>3. Flagged /\ [Next]_vars => [A]_vars
    <2> SUFFICES ASSUME Flagged, Next, NEW j \in JobIds, kind[j] = "phase", status[j] = "canceled"
                 PROVE  status'[j] = "canceled"
      BY DEF vars
    <2>1. j # created + 1 BY DEF Flagged, Exists, Shape
    <2>2. j \in settled \/ worker[j] \notin {"live", "terminating"} BY DEF Flagged, Closures
    <2>3. ASSUME NEW k \in Kinds, NEW t \in Targets, NEW s \in {"running", "finished"}, Create(k, t, s)
          PROVE  status'[j] = "canceled"
      BY <2>1, <2>3 DEF Create, Flagged, Shape
    <2>4. ASSUME NEW k \in Writers, NEW t \in Targets, Launch(k, t) PROVE status'[j] = "canceled"
      BY <2>3, <2>4 DEF Launch, Writers, Kinds
    <2>5. ASSUME NEW t \in Targets, LaunchRead(t) \/ Plan(t) PROVE status'[j] = "canceled"
      BY <2>3, <2>5 DEF LaunchRead, Plan, Kinds
    <2>6. ASSUME NEW i \in JobIds, ChildEnds(i) PROVE status'[j] = "canceled"
      <3>1. CASE i = j BY <2>2, <2>6, <3>1 DEF ChildEnds, FinishesJob
      <3>2. CASE i # j BY <2>6, <3>2 DEF ChildEnds, FinishJob, Flagged, Shape
      <3> QED BY <3>1, <3>2
    <2>7. ASSUME NEW i \in JobIds, CallEnds(i) PROVE status'[j] = "canceled"
      BY <2>7 DEF CallEnds, FinishJob, Flagged, Shape
    <2>8. ASSUME NEW i \in JobIds, Cancel(i) PROVE status'[j] = "canceled"
      BY <2>8 DEF Cancel, Flagged, Shape
    <2>9. CASE Restart \/ ClientPolls BY <2>9 DEF Restart, ClientPolls, store
    <2> QED BY <2>4, <2>5, <2>6, <2>7, <2>8, <2>9 DEF Next
  <1> QED BY <1>1, <1>2, <1>3, PTL DEF Spec, CanceledStays

-----------------------------------------------------------------------------
(* The events feed.  Event ids are given out in order and without gaps, so   *)
(* the file is the window 1..maxId and the ring the end of it that fits; a   *)
(* restart rebuilds exactly that ring.                                       *)

Window(lo, hi) == [k \in 1 .. hi - lo + 1 |-> lo + k - 1]

\* The first id the ring still holds when ids up to n have been given out.
Oldest(n) == IF n > RingSize THEN n - RingSize + 1 ELSE 1

FeedInv ==
  /\ maxId \in Nat /\ nextId = maxId + 1
  /\ file = Window(1, maxId) /\ ring = Window(Oldest(maxId), maxId)
  /\ cursor \in Nat /\ cursor <= maxId
  /\ NothingMissed

\* A window is a sequence of its ids.
LEMMA WindowIds ==
  ASSUME NEW lo \in Nat, NEW hi \in Nat, lo >= 1, lo <= hi + 1
  PROVE  /\ Window(lo, hi) \in Seq(Nat) /\ Len(Window(lo, hi)) = hi - lo + 1
         /\ DOMAIN Window(lo, hi) = 1 .. hi - lo + 1
         /\ Ids(Window(lo, hi)) = lo .. hi
  <1>1. \A k \in 1 .. hi - lo + 1 : lo + k - 1 \in Nat OBVIOUS
  <1>2. Window(lo, hi) \in Seq(Nat) /\ Len(Window(lo, hi)) = hi - lo + 1 BY <1>1 DEF Window
  <1>3. DOMAIN Window(lo, hi) = 1 .. hi - lo + 1 BY DEF Window
  <1>4. ASSUME NEW i \in lo .. hi PROVE i \in Ids(Window(lo, hi))
    <2>1. i - lo + 1 \in 1 .. hi - lo + 1 /\ Window(lo, hi)[i - lo + 1] = i BY DEF Window
    <2> QED BY <2>1, <1>3 DEF Ids
  <1>5. ASSUME NEW i \in Ids(Window(lo, hi)) PROVE i \in lo .. hi
    <2>1. PICK k \in 1 .. hi - lo + 1 : i = Window(lo, hi)[k] BY <1>3 DEF Ids
    <2> QED BY <2>1 DEF Window
  <1> QED BY <1>2, <1>3, <1>4, <1>5

\* Adjacent windows make one window.
LEMMA WindowsJoin ==
  ASSUME NEW lo \in Nat, NEW m \in Nat, NEW hi \in Nat, lo >= 1, lo <= m + 1, m <= hi
  PROVE  Window(lo, m) \o Window(m + 1, hi) = Window(lo, hi)
  <1> DEFINE a == Window(lo, m)
             b == Window(m + 1, hi)
  <1>1. a \in Seq(Nat) /\ Len(a) = m - lo + 1 BY WindowIds
  <1>2. b \in Seq(Nat) /\ Len(b) = hi - m
    <2>1. PICK n \in Nat : n = m + 1 OBVIOUS
    <2>2. n >= 1 /\ n <= hi + 1 BY <2>1
    <2>3. Window(n, hi) \in Seq(Nat) /\ Len(Window(n, hi)) = hi - n + 1 BY <2>2, WindowIds
    <2> QED BY <2>1, <2>3
  <1> HIDE DEF a, b
  <1>3. Len(a) + Len(b) = hi - lo + 1 BY <1>1, <1>2
  <1>4. /\ a \o b \in Seq(Nat) /\ Len(a \o b) = hi - lo + 1
        /\ \A k \in 1 .. hi - lo + 1 : (a \o b)[k] = IF k <= Len(a) THEN a[k] ELSE b[k - Len(a)]
    BY <1>1, <1>2, <1>3, ConcatProperties
  <1>5. ASSUME NEW k \in 1 .. hi - lo + 1 PROVE (a \o b)[k] = lo + k - 1
    <2>1. CASE k <= Len(a)
      <3>1. a[k] = lo + k - 1 BY <1>1, <2>1 DEF Window, a
      <3> QED BY <1>4, <2>1, <3>1
    <2>2. CASE ~(k <= Len(a))
      <3>1. k - Len(a) \in 1 .. hi - (m + 1) + 1 BY <1>1, <2>2
      <3>2. b[k - Len(a)] = (m + 1) + (k - Len(a)) - 1 BY <3>1 DEF Window, b
      <3>3. (a \o b)[k] = b[k - Len(a)] BY <1>4, <2>2
      <3> QED BY <1>1, <2>2, <3>2, <3>3
    <2> QED BY <2>1, <2>2
  <1>6. /\ Window(lo, hi) \in Seq(Nat) /\ Len(Window(lo, hi)) = hi - lo + 1
        /\ \A k \in 1 .. hi - lo + 1 : Window(lo, hi)[k] = lo + k - 1
    <2>1. lo <= hi + 1 OBVIOUS
    <2> QED BY <2>1, WindowIds DEF Window
  <1>7. a \o b = Window(lo, hi) BY <1>4, <1>5, <1>6, SeqEqual
  <1> QED BY <1>7 DEF a, b

\* The end of a window that fits into the ring.
LEMMA WindowEnd ==
  ASSUME NEW lo \in Nat, NEW hi \in Nat, lo >= 1, lo <= Oldest(hi)
  PROVE  LastOf(Window(lo, hi)) = Window(Oldest(hi), hi)
  <1> USE RingAssumption
  <1>0. lo <= hi + 1 /\ Oldest(hi) \in Nat /\ Oldest(hi) >= 1 /\ Oldest(hi) <= hi + 1 BY DEF Oldest
  <1> DEFINE w == Window(lo, hi)
             from == IF Len(w) > RingSize THEN Len(w) - RingSize + 1 ELSE 1
  <1>1. w \in Seq(Nat) /\ Len(w) = hi - lo + 1 BY <1>0, WindowIds
  <1>2. from \in Nat /\ from >= 1 /\ lo + from - 1 = Oldest(hi) BY <1>0, <1>1 DEF Oldest
  <1>3. LastOf(w) = SubSeq(w, from, Len(w)) BY DEF LastOf
  <1> HIDE DEF from
  <1>4. SubSeq(w, from, Len(w)) = [k \in 1 .. Len(w) - from + 1 |-> w[k + from - 1]]
    BY <1>1, <1>2
  <1>5. Len(w) - from + 1 = hi - Oldest(hi) + 1 BY <1>1, <1>2, <1>0
  <1>6. ASSUME NEW k \in 1 .. hi - Oldest(hi) + 1 PROVE w[k + from - 1] = Oldest(hi) + k - 1
    <2>1. k + from - 1 \in 1 .. hi - lo + 1 BY <1>0, <1>2
    <2>2. w[k + from - 1] = lo + (k + from - 1) - 1 BY <2>1 DEF Window
    <2> QED BY <2>2, <1>0, <1>2
  <1> QED BY <1>3, <1>4, <1>5, <1>6 DEF Window

\* The highest id of a window, and of an id and a window after it.
LEMMA HighestId ==
  ASSUME NEW S \in SUBSET Nat, NEW m \in S, \A y \in S : y <= m PROVE Highest(S) = m
  <1>1. \A x \in S : (\A y \in S : y <= x) => x = m OBVIOUS
  <1> QED BY <1>1 DEF Highest

LEMMA EmitKeeps ==
  ASSUME FeedInv, NEW n \in 1 .. 2, Emit(n), UNCHANGED <<cursor, got>> PROVE FeedInv'
  <1> USE RingAssumption DEF FeedInv
  <1> DEFINE new == [k \in 1 .. n |-> nextId + k - 1]
             top == maxId + n
  <1>1. top \in Nat /\ maxId <= top /\ new = Window(maxId + 1, top)
    <2>1. top - (maxId + 1) + 1 = n OBVIOUS
    <2> QED BY <2>1 DEF Window
  <1>2. Ids(new) = maxId + 1 .. top BY <1>1, WindowIds
  <1>3. maxId' = top
    <2>1. {maxId} \cup Ids(new) \in SUBSET Nat /\ top \in Ids(new) BY <1>2
    <2>2. \A y \in {maxId} \cup Ids(new) : y <= top BY <1>2
    <2>3. Highest({maxId} \cup Ids(new)) = top BY <2>1, <2>2, HighestId
    <2> QED BY <2>3 DEF Emit
  <1>4. nextId' = top + 1 BY DEF Emit
  <1>5. file' = Window(1, top)
    <2>1. Window(1, maxId) \o Window(maxId + 1, top) = Window(1, top)
      <3>1. ASSUME NEW lo \in Nat, lo = 1
            PROVE  Window(lo, maxId) \o Window(maxId + 1, top) = Window(lo, top)
        <4>1. lo >= 1 /\ lo <= maxId + 1 /\ maxId \in Nat /\ top \in Nat /\ maxId <= top
          BY <1>1, <3>1
        <4> HIDE DEF FeedInv, top
        <4> QED BY <4>1, WindowsJoin
      <3> QED BY <3>1
    <2>2. file' = file \o new BY DEF Emit
    <2> QED BY <1>1, <2>1, <2>2
  <1>6. /\ Oldest(maxId) \in Nat /\ Oldest(maxId) >= 1 /\ Oldest(maxId) <= maxId + 1
        /\ Oldest(maxId) <= Oldest(top)
    BY DEF Oldest
  <1>7. ring' = Window(Oldest(top), top)
    <2>1. ring' = LastOf(ring \o new) BY DEF Emit
    <2>2. Window(Oldest(maxId), maxId) \o Window(maxId + 1, top) = Window(Oldest(maxId), top)
      BY <1>1, <1>6, WindowsJoin
    <2>3. ring \o new = Window(Oldest(maxId), top) BY <1>1, <2>2
    <2> QED BY <2>1, <2>3, <1>1, <1>6, WindowEnd
  <1>8. Ids(ring) = Oldest(maxId) .. maxId BY <1>6, WindowIds
  <1>9. Ids(ring') = Oldest(top) .. top
    <2>1. Oldest(top) \in Nat /\ Oldest(top) >= 1 /\ Oldest(top) <= top + 1 BY <1>1 DEF Oldest
    <2> QED BY <1>1, <1>7, <2>1, WindowIds
  <1>10. NothingMissed'
    <2> SUFFICES ASSUME NEW i \in Ids(ring'), i <= cursor PROVE i \in got
      BY DEF NothingMissed, Ids
    <2>1. i \in Oldest(top) .. top BY <1>9
    <2>2. Oldest(top) \in Int /\ i >= Oldest(top) /\ i <= maxId BY <1>1, <2>1 DEF Oldest
    <2>3. i \in Oldest(maxId) .. maxId BY <1>6, <2>1, <2>2
    <2> QED BY <2>3, <1>8 DEF NothingMissed
  <1> QED BY <1>1, <1>3, <1>4, <1>5, <1>7, <1>10

LEMMA ReseedKeeps == ASSUME FeedInv, Reseed, UNCHANGED <<cursor, got>> PROVE FeedInv'
  <1> USE RingAssumption DEF FeedInv
  <1>1. Ids(file) = 1 .. maxId BY WindowIds
  <1>2. SeedId(file) = maxId
    <2>1. CASE maxId = 0 BY <1>1, <2>1 DEF SeedId, Highest
    <2>2. CASE maxId # 0
      <3>1. maxId \in Ids(file) /\ Ids(file) \in SUBSET Nat /\ \A y \in Ids(file) : y <= maxId
        BY <1>1, <2>2
      <3> QED BY <3>1, HighestId DEF SeedId
    <2> QED BY <2>1, <2>2
  <1>3. maxId' = maxId /\ nextId' = nextId /\ file' = file BY <1>2 DEF Reseed
  <1>4. ring' = ring
    <2>1. Oldest(maxId) >= 1 BY DEF Oldest
    <2>2. LastOf(Window(1, maxId)) = Window(Oldest(maxId), maxId) BY <2>1, WindowEnd
    <2> QED BY <2>2 DEF Reseed
  <1> QED BY <1>3, <1>4 DEF NothingMissed

\* The answer brings what the client has not seen, and its cursor passes nothing else.
LEMMA PollKeeps == ASSUME FeedInv, Poll PROVE FeedInv'
  <1> USE RingAssumption DEF FeedInv
  <1>1. /\ UNCHANGED <<file, ring, nextId, maxId>> /\ cursor' = maxId
        /\ got' = got \cup {i \in Ids(ring) : cursor <= 0 \/ i > cursor}
    BY DEF Poll, log, NextCursor, NewIds
  <1>2. Oldest(maxId) \in Nat /\ Oldest(maxId) >= 1 /\ Oldest(maxId) <= maxId + 1 BY DEF Oldest
  <1>3. Ids(ring) \subseteq Nat
    <2>1. Ids(ring) = Oldest(maxId) .. maxId BY <1>2, WindowIds
    <2> QED BY <1>2, <2>1
  <1>4. \A i \in Ids(ring) : i \in got' BY <1>1, <1>3 DEF NothingMissed
  <1> QED BY <1>1, <1>4 DEF NothingMissed

\* Whatever a client's cursor has passed and the ring still holds was sent to the client, for
\* any jobs, cancels, restarts and ring size: no kill of the bridge makes a poll skip an event.
THEOREM EventsReachTheClient == Spec => []NothingMissed
  <1>1. Init => FeedInv
    <2>1. ASSUME Init PROVE Window(1, 0) = <<>> /\ Oldest(0) = 1
      BY RingAssumption DEF Window, Oldest
    <2> QED BY <2>1 DEF Init, FeedInit, FeedInv, NothingMissed, Ids
  <1>2. FeedInv /\ [Next]_vars => FeedInv'
    <2> SUFFICES ASSUME FeedInv, [Next]_vars PROVE FeedInv' OBVIOUS
    <2>1. ASSUME UNCHANGED feed PROVE FeedInv'
      BY <2>1 DEF feed, log, FeedInv, NothingMissed
    <2>2. ASSUME NEW n \in 1 .. 2, Emit(n), UNCHANGED <<cursor, got>> PROVE FeedInv'
      BY <2>2, EmitKeeps
    <2>3. ASSUME NEW k \in Writers, NEW t \in Targets, Launch(k, t) PROVE FeedInv'
      BY <2>2, <2>3 DEF Launch, Create
    <2>4. ASSUME NEW t \in Targets, LaunchRead(t) \/ Plan(t) PROVE FeedInv'
      BY <2>2, <2>4 DEF LaunchRead, Plan, Create
    <2>5. ASSUME NEW j \in JobIds, ChildEnds(j) \/ CallEnds(j) PROVE FeedInv'
      BY <2>1, <2>2, <2>5 DEF ChildEnds, CallEnds, FinishJob, feed
    <2>6. ASSUME NEW j \in JobIds, Cancel(j) PROVE FeedInv'
      BY <2>2, <2>6 DEF Cancel
    <2>7. CASE Restart BY <2>7, ReseedKeeps DEF Restart
    <2>8. CASE ClientPolls BY <2>8, PollKeeps DEF ClientPolls
    <2>9. CASE UNCHANGED vars BY <2>1, <2>9 DEF vars
    <2> QED BY <2>3, <2>4, <2>5, <2>6, <2>7, <2>8, <2>9 DEF Next
  <1>3. FeedInv => NothingMissed BY DEF FeedInv
  <1> QED BY <1>1, <1>2, <1>3, PTL DEF Spec

-----------------------------------------------------------------------------
(***************************************************************************)
(* The run of conduct that a child of the bridge is (or a command at a          *)
(* terminal): ConductRun, for any number of units, processes, questions and     *)
(* answers and any settings. That it completes only when it is settled, and     *)
(* that a number asked for a unit stays that question's.                        *)
(***************************************************************************)
Outs     == Resumable \cup Terminal
Results  == {"none"} \cup Ends \cup {"abandoned"}
Tables   == {decs \in SUBSET Decs : \E b \in Nat : \A d \in decs : d.seq <= b} \* a bound, to go on from
UnitDecs == {d \in Decs : d.unit # 0}
Asks     == [st : {"none", "asking", "parked", "answered"}, seq : Nat, unit : Owners, stale : Nat,
             answer : UnitAnswers \cup {"none"}]
Statuses == {"none", "running", "completed", "error", "dry-run"}

RunRec  == [status : Statuses, out : [Units -> Outs], decs : Tables, merged : SUBSET Units, seq : Nat,
            brain : BOOLEAN, surface : {"auto", "park", "park-timeout"}, slots : Nat, gated : BOOLEAN,
            mine : SUBSET Units, stale : SUBSET UnitDecs, result : [Units -> Results]]
DiskRec == [status : Statuses, out : [Units -> Outs], decs : Tables, merged : SUBSET Units]

RestType ==
  /\ phase \in {"start", "gates", "units", "merge", "land", "landing", "complete", "down", "recover"}
  /\ pool \in [Units -> {"queued", "work", "asking", "done", "held", "out"}]
  /\ slot \in [Owners -> Asks]
  /\ files \in [req : SUBSET [seq : Nat \ {0}, unit : Owners],
                ans : SUBSET [seq : Nat \ {0}, answer : UnitAnswers \cup {"skip-land"}]]
  /\ cli \in [pc : {"idle", "read", "write"}, seq : Nat, unit : Owners, doc : DiskRec]
  /\ cli.pc # "idle" => cli.seq # 0
  /\ hist \in [lives : Nat, gated : BOOLEAN, parked : SUBSET Nat, dropped : SUBSET Nat]

\* The types of the state: of the process, of run.json, and of the rest.
Typed == run \in RunRec /\ disk \in DiskRec /\ RestType

Up      == phase # "down"
Open(o) == slot[o].st \in {"asking", "parked"} \* a question of the owner is not answered
Known(decs, seq) == seq \in NumbersOf(decs) \/ seq \in hist.dropped \* is in run.json, or was dropped from it

\* Who asks, and when: a unit while the units run, the run itself while it lands, and in its place
\* the recovery of a stale record of a unit.
Askers ==
  /\ \A u \in Units : (slot[u].st # "none" <=> pool[u] = "asking") /\ (pool[u] \in {"work", "asking"} => phase = "units")
  /\ \A u \in Units : Open(u) => slot[u].unit = u /\ slot[u].stale = 0
  /\ slot[0].st # "answered"
  /\ slot[0].st # "none" => \/ phase = "landing" /\ slot[0].unit = 0 /\ slot[0].stale = 0
                            \/ phase = "recover" /\ slot[0].unit # 0 /\ slot[0].stale # 0

\* The numbers: the run has counted past every record of a unit, and no two open questions share one.
Numbers ==
  /\ Up => \A d \in run.decs : d.unit # 0 => d.seq <= run.seq
  /\ \A o \in Owners : Open(o) => slot[o].seq \in 1 .. run.seq
  /\ \A o, p \in Owners : Open(o) /\ Open(p) /\ o # p => slot[o].seq # slot[p].seq

\* The records: of every open question and every request of a unit, in the memory and in run.json,
\* there or dropped; a question without a request has a number that no request of a unit has, but for
\* the dropped ones.
Records ==
  /\ \A o \in Owners : Open(o) /\ slot[o].unit # 0 =>
        slot[o].seq \in NumbersOf(run.decs) /\ Known(disk.decs, slot[o].seq)
  /\ \A q \in files.req : q.unit # 0 => Known(disk.decs, q.seq) /\ (Up => Known(run.decs, q.seq))
  /\ \A o \in Owners : slot[o].st = "asking" =>
        \A q \in files.req : q.unit # 0 => q.seq # slot[o].seq \/ q.seq \in hist.dropped

\* The outcomes: what has ended is final, and a failed gate keeps the run from its end.
Final(out) == out \notin {"pending", "running"}
Ending == {"merge", "land", "landing", "complete"}

Outcomes ==
  /\ Up => run.status # "completed"
  /\ hist.gated => phase = "down" \/ (phase = "units" /\ run.gated)
  /\ phase \in {"start", "gates"} => \A u \in Units : pool[u] = "queued"
  /\ phase = "units" => \A u \in Units : /\ pool[u] \in {"done", "out"} => Final(run.out[u])
                                         /\ pool[u] = "held" => run.result[u] # "none"
  /\ phase = "recover" => /\ run.mine = {u \in Units : run.out[u] \in Resumable}
                          /\ \A u \in Units : run.result[u] \in {"none", "accepted", "abandoned"}
  /\ phase \in Ending => \A u \in Units : Final(run.out[u])

\* A record of a unit without an answer is asked for now, or is to be recovered.
AnsweredFor(d) ==
  \/ Open(d.unit) /\ slot[d.unit].seq = d.seq
  \/ /\ phase = "recover"
     /\ \/ d \in run.stale
        \/ slot[0].st # "none" /\ slot[0].unit = d.unit /\ d.seq \in {slot[0].seq, slot[0].stale}

Pending == Up => \A d \in run.decs : d.unit # 0 /\ d.answer = "none" => AnsweredFor(d)

\* The greatest number of a bounded set.
LEMMA MaxIsTop ==
  ASSUME NEW S, S \subseteq Nat, S # {}, NEW b \in Nat, \A x \in S : x <= b
  PROVE  Max(S) \in S /\ \A x \in S : x <= Max(S)
  <1> DEFINE Less == {ss \in Nat \X Nat : ss[1] < ss[2]}
             Ove == {n \in Nat : \A x \in S : x <= n}
  <1>1. IsWellFoundedOn(Less, Nat) BY NatLessThanWellFounded DEF OpToRel
  <1>2. Ove # {} /\ Ove \subseteq Nat OBVIOUS
  <1> HIDE DEF Less
  <1>3. PICK m \in Ove : \A n \in Ove : ~(<<n, m>> \in Less) BY <1>1, <1>2, WFMin
  <1>4. m \in S
    <2> SUFFICES ASSUME m \notin S PROVE FALSE OBVIOUS
    <2>1. m \in Nat /\ \A x \in S : x \in Nat /\ x <= m /\ x # m BY <1>3
    <2>2. m > 0 /\ \A x \in S : x <= m - 1
      <3>1. \A x \in S : x <= m - 1 /\ 0 < m BY <2>1
      <3> QED BY <3>1
    <2>3. m - 1 \in Ove BY <2>1, <2>2
    <2>4. <<m - 1, m>> \in Less BY <2>1, <2>2 DEF Less
    <2> QED BY <1>3, <2>3, <2>4
  <1>5. \A x \in S : m >= x BY <1>3, <1>4
  <1> HIDE DEF Ove
  <1>6. \E x \in S : \A y \in S : x >= y BY <1>4, <1>5
  <1>7. Max(S) \in S /\ \A y \in S : Max(S) >= y BY <1>6 DEF Max
  <1> QED BY <1>7

LEMMA OwnersAndUnits == NUnits \in Nat \ {0} /\ Units \subseteq Owners /\ 0 \in Owners /\ 0 \notin Units /\ Owners \ {0} = Units
  BY RunBounds DEF Units, Owners

\* Answers are put into records, not numbers.
LEMMA TablesAnswered ==
  ASSUME NEW decs \in Tables, NEW new \in SUBSET Decs, \A n \in new : \E r \in decs : n.seq = r.seq
  PROVE  new \in Tables
  BY DEF Tables

\* A record more.
LEMMA TablesAdd ==
  ASSUME NEW decs \in Tables, NEW new \in Decs
  PROVE  decs \cup {new} \in Tables
  <1>1. decs \cup {new} \subseteq Decs BY DEF Tables
  <1>3. PICK b \in Nat : \A r \in decs : r.seq <= b BY DEF Tables
  <1>4. new.seq \in Nat /\ \A r \in decs : r.seq \in Nat BY <1>1 DEF Decs
  <1>5. \E c \in Nat : c >= b /\ c >= new.seq
    <2>1. CASE b >= new.seq BY <2>1, <1>3, <1>4
    <2>2. CASE ~(b >= new.seq) BY <2>2, <1>3, <1>4
    <2> QED BY <2>1, <2>2
  <1>6. \E c \in Nat : \A r \in decs \cup {new} : r.seq <= c BY <1>3, <1>4, <1>5
  <1> QED BY <1>1, <1>6 DEF Tables

LEMMA TablesEmpty == {} \in Tables /\ 0 \in Nat
  <1>1. {} \in SUBSET Decs /\ \A r \in {} : r.seq <= 0 OBVIOUS
  <1> QED BY <1>1 DEF Tables

\* The types of what is written, of a run at its start, of its question, its answer and its end.
LEMMA StoreType == ASSUME NEW r \in RunRec PROVE Store(r) \in DiskRec
  BY DEF RunRec, DiskRec, Store

LEMMA NewRunType ==
  /\ NewRun \in RunRec /\ NoAsk \in Asks
  /\ NoDecide \in [pc : {"idle"}, seq : Nat, unit : Owners, doc : DiskRec]
  <1>1. NewRun \in RunRec /\ NoAsk \in Asks
    BY TablesEmpty, OwnersAndUnits DEF NewRun, RunRec, Statuses, Outs, Resumable, Results, NoAsk, Asks
  <1>2. Store(NewRun) \in DiskRec BY <1>1, StoreType
  <1> HIDE DEF NewRun
  <1> QED BY <1>1, <1>2, OwnersAndUnits DEF NoDecide

LEMMA WriteTypes == ASSUME NEW r \in RunRec, Write(r) PROVE run' \in RunRec /\ disk' \in DiskRec
  BY StoreType DEF Write

LEMMA TypedInit == RunInit => Typed
  <1> SUFFICES ASSUME RunInit PROVE Typed OBVIOUS
  <1>1. run \in RunRec
    <2>1. PICK b \in BOOLEAN, s \in Settings[1] : run = [NewRun EXCEPT !.brain = b, !.surface = s[1], !.slots = s[2]]
      BY DEF RunInit, Started
    <2>2. s[1] \in {"auto", "park", "park-timeout"} /\ s[2] \in Nat
      <3>1. 1 \in 1 .. MaxLives BY RunBounds
      <3> QED BY <3>1, RunConfig
    <2> QED BY <2>1, <2>2, NewRunType DEF RunRec
  <1>2. disk \in DiskRec BY NewRunType, StoreType DEF RunInit
  <1>3. /\ phase = "start" /\ pool \in [Units -> {"queued", "work", "asking", "done", "held", "out"}]
        /\ files.req = {} /\ files.ans = {} /\ DOMAIN files = {"req", "ans"}
        /\ hist \in [lives : Nat, gated : BOOLEAN, parked : SUBSET Nat, dropped : SUBSET Nat]
    BY DEF RunInit
  <1>4. cli \in [pc : {"idle", "read", "write"}, seq : Nat, unit : Owners, doc : DiskRec] /\ cli.pc = "idle"
    BY NewRunType DEF RunInit
  <1>5. slot \in [Owners -> Asks] BY NewRunType DEF RunInit
  <1>6. files \in [req : SUBSET [seq : Nat \ {0}, unit : Owners],
                ans : SUBSET [seq : Nat \ {0}, answer : UnitAnswers \cup {"skip-land"}]] BY DEF RunInit
  <1> QED BY <1>1, <1>2, <1>3, <1>4, <1>5, <1>6 DEF Typed, RestType

LEMMA EndTypes == ASSUME NEW r \in RunRec, End(r) PROVE run' \in RunRec /\ disk' \in DiskRec /\ phase' = "down" /\ pool' = Idle
  BY WriteTypes DEF End

LEMMA AskTypes ==
  ASSUME Typed, NEW o \in Owners, NEW unit \in Owners, NEW stale \in Nat, Ask(o, unit, stale)
  PROVE  run' \in RunRec /\ disk' \in DiskRec /\ slot' \in [Owners -> Asks]
  <1> DEFINE new == [seq |-> run.seq + 1, unit |-> unit, answer |-> "none"]
  <1>1. new \in Decs BY DEF Typed, Decs, RunRec
  <1>2. run.decs \cup {new} \in Tables BY <1>1, TablesAdd DEF Typed, RunRec
  <1>3. [run EXCEPT !.seq = run.seq + 1, !.decs = run.decs \cup {new}] \in RunRec
    <2>1. run \in RunRec BY DEF Typed
    <2>2. run.seq + 1 \in Nat BY <2>1 DEF RunRec
    <2> HIDE DEF new
    <2> QED BY <1>2, <2>1, <2>2 DEF RunRec
  <1>4. Write([run EXCEPT !.seq = run.seq + 1, !.decs = run.decs \cup {new}]) BY DEF Ask
  <1>5. slot' \in [Owners -> Asks]
    <2>1. [NoAsk EXCEPT !.st = "asking", !.seq = run.seq + 1, !.unit = unit, !.stale = stale] \in Asks
      <3>1. run \in RunRec BY DEF Typed
      <3>2. run.seq + 1 \in Nat BY <3>1 DEF RunRec
      <3> QED BY <3>2 DEF NoAsk, Asks
    <2> QED BY <2>1 DEF Typed, Ask, RestType
  <1> QED BY <1>3, <1>4, <1>5, WriteTypes

LEMMA ResolveTypes ==
  ASSUME Typed, Askers, NEW o \in Owners, Open(o), NEW answer \in Options(slot[o].unit), Resolve(o, answer)
  PROVE  /\ run' \in RunRec /\ disk' \in DiskRec
         /\ answer \in UnitAnswers \cup {"skip-land"} /\ answer # "none" /\ (o # 0 => answer \in UnitAnswers)
  <1> DEFINE s == slot[o]
             verdict == CASE answer = "abandon" -> "abandoned"
                   [] answer = "accept" /\ run.result[s.unit] = "none" -> "accepted"
                   [] OTHER -> IF s.unit = 0 THEN "none" ELSE run.result[s.unit]
             decs == {IF d.unit = s.unit /\ d.seq \in {s.seq, s.stale} THEN [d EXCEPT !.answer = "given"] ELSE d :
                         d \in run.decs}
             stale == run.stale \ {d \in run.stale : d.seq = s.stale /\ d.unit = s.unit}
             result == IF s.stale = 0 THEN run.result ELSE [run.result EXCEPT ![s.unit] = verdict]
  <1>1. s \in Asks /\ run.decs \in Tables /\ run.decs \subseteq Decs /\ run.result \in [Units -> Results] /\ run.stale \subseteq UnitDecs
    BY DEF Typed, RestType, RunRec, Tables
  <1>2. answer \in UnitAnswers \cup {"skip-land"} /\ answer # "none" /\ (s.unit # 0 => answer \in UnitAnswers)
    BY DEF Options, UnitAnswers
  <1>2a. o # 0 => s.unit # 0 BY OwnersAndUnits DEF Askers
  <1>3. decs \in Tables
    <2>1. decs \subseteq Decs
      <3> SUFFICES ASSUME NEW d \in run.decs
                   PROVE  (IF d.unit = s.unit /\ d.seq \in {s.seq, s.stale} THEN [d EXCEPT !.answer = "given"] ELSE d) \in Decs
        OBVIOUS
      <3>1. d \in Decs BY <1>1
      <3> HIDE DEF s
      <3> QED BY <3>1, <1>2 DEF Decs
    <2>2. \A n \in decs : \E r \in run.decs : n.seq = r.seq
      <3> HIDE DEF s
      <3> SUFFICES ASSUME NEW d \in run.decs
                   PROVE  (IF d.unit = s.unit /\ d.seq \in {s.seq, s.stale} THEN [d EXCEPT !.answer = "given"] ELSE d).seq = d.seq
        OBVIOUS
      <3>1. d \in Decs BY <1>1
      <3> QED BY <3>1 DEF Decs
    <2> HIDE DEF decs
    <2> QED BY <2>1, <2>2, <1>1, TablesAnswered
  <1>4. result \in [Units -> Results]
    <2>1. CASE s.stale = 0 BY <2>1, <1>1
    <2>2. CASE s.stale # 0
      <3>1. s.unit \in Units BY <2>2, <1>1, OwnersAndUnits DEF Askers, Asks, Open
      <3>2. verdict \in Results BY <3>1, <1>1 DEF Results, Ends
      <3> HIDE DEF verdict
      <3> QED BY <3>1, <3>2, <1>1
    <2> QED BY <2>1, <2>2
  <1>5. [run EXCEPT !.decs = decs, !.stale = stale, !.result = result] \in RunRec
    <2> HIDE DEF decs, result
    <2> QED BY <1>1, <1>3, <1>4 DEF Typed, RunRec
  <1>6. Write([run EXCEPT !.decs = decs, !.stale = stale, !.result = result])
    BY DEF Resolve
  <1> HIDE DEF decs, result, stale
  <1> QED BY <1>5, <1>6, <1>2, <1>2a, WriteTypes

\* The fields that the steps use.
RunFields ==
  /\ run \in RunRec /\ disk \in DiskRec
  /\ run.out \in [Units -> Outs] /\ run.result \in [Units -> Results] /\ run.merged \subseteq Units
  /\ run.mine \subseteq Units /\ run.seq \in Nat /\ run.decs \in Tables /\ run.stale \subseteq UnitDecs /\ run.gated \in BOOLEAN
  /\ disk.decs \in Tables /\ disk.out \in [Units -> Outs] /\ disk.merged \subseteq Units
LEMMA Fields == ASSUME Typed PROVE RunFields /\ RestType
  BY DEF Typed, RunFields, RunRec, DiskRec

LEMMA UnitEndsTypes ==
  ASSUME Typed, NEW u \in Units, NEW outcome \in Ends \cup {"abandoned"}, UnitEnds(u, outcome)
  PROVE  run' \in RunRec /\ disk' \in DiskRec /\ pool' \in [Units -> {"queued", "work", "asking", "done", "held", "out"}]
  <1>1. RunFields /\ RestType BY Fields
  <1>2. outcome \in Outs /\ outcome \in Results BY DEF Outs, Ends, Terminal, Resumable, Results
  <1>3. CASE run.brain
    <2>1. [run EXCEPT !.out[u] = outcome] \in RunRec BY <1>1, <1>2 DEF RunFields, RunRec
    <2> QED BY <1>1, <1>3, <2>1, WriteTypes DEF UnitEnds, RestType
  <1>4. CASE ~run.brain
    <2>1. [run EXCEPT !.result[u] = outcome] \in RunRec BY <1>1, <1>2 DEF RunFields, RunRec
    <2> QED BY <1>1, <1>4, <2>1 DEF UnitEnds, RestType, RunFields
  <1> QED BY <1>3, <1>4

\* The types are kept: by the start and the end of a run, by a unit, by a question, by the landing and
\* the recovery, and by the world outside.
LEMMA TypedByStart == ASSUME Typed, Outcomes, Start \/ Gates \/ Settle \/ Complete PROVE Typed'
  <1>0. RunFields /\ RestType BY Fields
  <1>a. Idle \in [Units -> {"queued", "work", "asking", "done", "held", "out"}] BY DEF Idle
  <1>b. hist' \in [lives : Nat, gated : BOOLEAN, parked : SUBSET Nat, dropped : SUBSET Nat]
    BY <1>0 DEF RestType, Start, Gates, Settle, Complete
  <1>1. CASE Start
    <2>1. [run EXCEPT !.status = "error"] \in RunRec BY <1>0 DEF RunFields, RunRec, Statuses
    <2>2. [run EXCEPT !.status = "dry-run", !.out = [x \in Units |-> "dry-run"]] \in RunRec
      BY <1>0 DEF RunFields, RunRec, Statuses, Outs, Terminal
    <2>3. [run EXCEPT !.status = "running"] \in RunRec BY <1>0 DEF RunFields, RunRec, Statuses
    <2>4. run' \in RunRec /\ disk' \in DiskRec /\ phase' \in {"down", "units", "gates"} /\ (pool' = Idle \/ pool' = pool)
      BY <1>1, <2>1, <2>2, <2>3, WriteTypes, EndTypes DEF Start
    <2>5. RestType' BY <1>0, <1>1, <1>a, <1>b, <2>4 DEF Start, RestType
    <2> QED BY <2>4, <2>5 DEF Typed
  <1>2. CASE Gates
    <2>1. ASSUME NEW u \in Units PROVE [run EXCEPT !.status = "error", !.out[u] = "error"] \in RunRec
      BY <1>0 DEF RunFields, RunRec, Statuses, Outs, Resumable
    <2>4. run' \in RunRec /\ disk' \in DiskRec /\ phase' \in {"down", "units", "gates"} /\ (pool' = Idle \/ pool' = pool)
      BY <1>0, <1>2, <2>1, EndTypes DEF Gates, RunFields
    <2>5. RestType' BY <1>0, <1>2, <1>a, <1>b, <2>4 DEF Gates, RestType
    <2> QED BY <2>4, <2>5 DEF Typed
  <1>3. CASE Settle
    <2>1. [run EXCEPT !.status = "error"] \in RunRec BY <1>0 DEF RunFields, RunRec, Statuses
    <2> DEFINE out == [x \in Units |-> IF pool[x] = "held" THEN run.result[x] ELSE run.out[x]]
    <2>2. ASSUME ~run.gated PROVE [run EXCEPT !.out = out] \in RunRec
      <3>1. out \in [Units -> Outs]
        <4> SUFFICES ASSUME NEW x \in Units PROVE (IF pool[x] = "held" THEN run.result[x] ELSE run.out[x]) \in Outs
          OBVIOUS
        <4>1. pool[x] = "held" => run.result[x] # "none" BY <1>3 DEF Settle, Outcomes
        <4> QED BY <1>0, <4>1 DEF RunFields, Results, Outs, Ends, Terminal, Resumable
      <3> HIDE DEF out
      <3> QED BY <1>0, <3>1 DEF RunFields, RunRec
    <2>3. \/ End([run EXCEPT !.status = "error"])
          \/ /\ ~run.gated /\ run' = [run EXCEPT !.out = out] /\ UNCHANGED <<disk, pool>>
             /\ phase' \in {"merge", "complete"}
      BY <1>3 DEF Settle
    <2> HIDE DEF out
    <2>4. run' \in RunRec /\ disk' \in DiskRec /\ phase' \in {"down", "merge", "complete"} /\ (pool' = Idle \/ pool' = pool)
      <3>1. CASE End([run EXCEPT !.status = "error"]) BY <2>1, <3>1, EndTypes
      <3>2. CASE ~run.gated /\ run' = [run EXCEPT !.out = out] /\ UNCHANGED <<disk, pool>> /\ phase' \in {"merge", "complete"}
        BY <1>0, <2>2, <3>2 DEF RunFields
      <3> QED BY <2>3, <3>1, <3>2
    <2>5. RestType' BY <1>0, <1>3, <1>a, <1>b, <2>4 DEF Settle, RestType
    <2> QED BY <2>4, <2>5 DEF Typed
  <1>4. CASE Complete
    <2>1. [run EXCEPT !.status = "completed"] \in RunRec BY <1>0 DEF RunFields, RunRec, Statuses
    <2>4. run' \in RunRec /\ disk' \in DiskRec /\ phase' \in {"down"} /\ (pool' = Idle \/ pool' = pool)
      BY <1>0, <1>4, <2>1, EndTypes DEF Complete, RunFields
    <2>5. RestType' BY <1>0, <1>4, <1>a, <1>b, <2>4 DEF Complete, RestType
    <2> QED BY <2>4, <2>5 DEF Typed
  <1> QED BY <1>1, <1>2, <1>3, <1>4

LEMMA TypedByUnit ==
  ASSUME Typed, Askers, NEW u \in Units, Begin(u) \/ RoleReturns(u) \/ Finish(u) \/ Judge(u) \/ Apply(u)
  PROVE  Typed'
  <1>0. RunFields /\ RestType BY Fields
  <1>1. CASE Begin(u)
    <2>1. [run EXCEPT !.out[u] = "error", !.gated = Aborts(TRUE)] \in RunRec
      BY <1>0 DEF RunFields, RunRec, Outs, Resumable, Aborts
    <2>2. run' \in RunRec /\ disk' \in DiskRec BY <1>0, <1>1, <2>1, WriteTypes DEF Begin, RunFields
    <2>3. RestType' BY <1>0, <1>1 DEF Begin, RestType
    <2> QED BY <2>2, <2>3 DEF Typed
  <1>2. CASE RoleReturns(u)
    <2>1. [run EXCEPT !.out[u] = "running"] \in RunRec BY <1>0 DEF RunFields, RunRec, Outs, Resumable
    <2>2. run' \in RunRec /\ disk' \in DiskRec BY <1>0, <1>2, <2>1, WriteTypes DEF RoleReturns, RunFields
    <2>3. RestType' BY <1>0, <1>2 DEF RoleReturns, RestType
    <2> QED BY <2>2, <2>3 DEF Typed
  <1>3. CASE Finish(u)
    <2>1. PICK outcome \in Ends : UnitEnds(u, outcome) BY <1>3 DEF Finish
    <2>2. run' \in RunRec /\ disk' \in DiskRec /\ pool' \in [Units -> {"queued", "work", "asking", "done", "held", "out"}]
      BY <2>1, UnitEndsTypes
    <2>3. RestType' BY <1>0, <1>3, <2>2 DEF Finish, RestType
    <2> QED BY <2>2, <2>3 DEF Typed
  <1>4. CASE Judge(u)
    <2>1. Ask(u, u, 0) BY <1>4 DEF Judge
    <2>2. run' \in RunRec /\ disk' \in DiskRec /\ slot' \in [Owners -> Asks] BY <2>1, AskTypes, OwnersAndUnits
    <2>3. RestType' BY <1>0, <1>4, <2>2 DEF Judge, RestType
    <2> QED BY <2>2, <2>3 DEF Typed
  <1>5. CASE Apply(u)
    <2>1. "accepted" \in Ends \cup {"abandoned"} /\ "abandoned" \in Ends \cup {"abandoned"} BY DEF Ends
    <2>2. run' \in RunRec /\ disk' \in DiskRec /\ pool' \in [Units -> {"queued", "work", "asking", "done", "held", "out"}]
      BY <1>0, <1>5, <2>1, UnitEndsTypes DEF Apply, RunFields, RestType
    <2>3. slot' \in [Owners -> Asks] BY <1>0, <1>5, NewRunType DEF Apply, RestType
    <2>4. RestType' BY <1>0, <1>5, <2>2, <2>3 DEF Apply, RestType
    <2> QED BY <2>2, <2>4 DEF Typed
  <1> QED BY <1>1, <1>2, <1>3, <1>4, <1>5

LEMMA TypedByQuestion ==
  ASSUME Typed, Askers, Numbers, NEW o \in Owners, Park(o) \/ Answer(o)
  PROVE  Typed'
  <1>0. RunFields /\ RestType /\ slot[o] \in Asks BY Fields DEF RestType
  <1>1. CASE Park(o)
    <2>1. [slot[o] EXCEPT !.st = "parked"] \in Asks BY <1>0 DEF Asks
    <2>2. slot' \in [Owners -> Asks] BY <1>0, <1>1, <2>1 DEF Park, RestType
    <2>2a. files' \in [req : SUBSET [seq : Nat \ {0}, unit : Owners],
                ans : SUBSET [seq : Nat \ {0}, answer : UnitAnswers \cup {"skip-land"}]]
      <3>1. slot[o].seq \in Nat \ {0} /\ slot[o].unit \in Owners
        <4>1. Open(o) BY <1>1 DEF Park, Open
        <4> QED BY <1>0, <4>1 DEF Asks, Numbers, RunFields
      <3> QED BY <1>0, <1>1, <3>1 DEF Park, RestType
    <2>3. RestType' BY <1>0, <1>1, <2>2, <2>2a DEF Park, RestType
    <2> QED BY <1>0, <1>1, <2>3 DEF Park, RunFields, Typed
  <1>2. CASE Answer(o)
    <2>1. PICK answer \in Options(slot[o].unit) :
            /\ Open(o) /\ Resolve(o, answer)
            /\ slot' = [slot EXCEPT ![o] = [NoAsk EXCEPT !.st = IF o = 0 THEN "none" ELSE "answered",
                                                        !.answer = IF o = 0 THEN "none" ELSE answer]]
      BY <1>2 DEF Answer, Open
    <2>2. run' \in RunRec /\ disk' \in DiskRec /\ (o # 0 => answer \in UnitAnswers) BY <2>1, ResolveTypes
    <2>3. [NoAsk EXCEPT !.st = IF o = 0 THEN "none" ELSE "answered", !.answer = IF o = 0 THEN "none" ELSE answer] \in Asks
      BY <2>2, NewRunType DEF Asks
    <2>4. slot' \in [Owners -> Asks] BY <1>0, <2>1, <2>3 DEF RestType
    <2>5. RestType' BY <1>0, <1>2, <2>4 DEF Answer, RestType
    <2> QED BY <2>2, <2>5 DEF Typed
  <1> QED BY <1>1, <1>2

\* A resume counts on from past every record of a unit.
LEMMA UnitDecsBound ==
  ASSUME NEW decs \in Tables
  PROVE  MaxSeqOf(decs) \in Nat /\ \A d \in decs : d.unit # 0 => d.seq <= MaxSeqOf(decs)
  <1> DEFINE S == {0} \cup {d.seq : d \in {e \in decs : e.unit # 0}}
  <1>1. PICK b \in Nat : \A r \in decs : r.seq <= b BY DEF Tables
  <1>2. S \subseteq Nat /\ S # {} /\ \A x \in S : x <= b BY <1>1 DEF Tables, Decs
  <1>3. Max(S) \in S /\ \A x \in S : x <= Max(S)
    <2> HIDE DEF S
    <2> QED BY <1>2, MaxIsTop
  <1>4. MaxSeqOf(decs) = Max(S) BY DEF MaxSeqOf, NumbersOf
  <1>5. \A d \in decs : d.unit # 0 => d.seq \in S OBVIOUS
  <1> HIDE DEF S
  <1> QED BY <1>2, <1>3, <1>4, <1>5

LEMMA TypedByLanding ==
  ASSUME Typed, Outcomes, Merge \/ Land \/ Recover \/ Reenter
  PROVE  Typed'
  <1>0. RunFields /\ RestType BY Fields
  <1>1. CASE Merge
    <2>1. ASSUME NEW merged \in SUBSET {u \in run.mine : run.out[u] = "accepted"}
          PROVE  [run EXCEPT !.merged = @ \cup merged] \in RunRec
      BY <1>0 DEF RunFields, RunRec
    <2>2. run' \in RunRec /\ disk' \in DiskRec BY <1>1, <2>1, WriteTypes DEF Merge
    <2>3. RestType' BY <1>0, <1>1 DEF Merge, RestType
    <2> QED BY <2>2, <2>3 DEF Typed
  <1>2. CASE Land
    <2>1. run' \in RunRec /\ disk' \in DiskRec /\ slot' \in [Owners -> Asks]
      <3>1. CASE UNCHANGED <<run, slot, disk>> BY <1>0, <3>1 DEF RunFields, RestType
      <3>2. CASE Ask(0, 0, 0) BY <3>2, AskTypes, OwnersAndUnits
      <3> QED BY <1>2, <3>1, <3>2 DEF Land
    <2>3. RestType' BY <1>0, <1>2, <2>1 DEF Land, RestType
    <2> QED BY <2>1, <2>3 DEF Typed
  <1>3. CASE Recover
    <2>1. PICK d \in run.stale : Ask(0, d.unit, d.seq) BY <1>3 DEF Recover
    <2>2. d.unit \in Owners /\ d.seq \in Nat BY <1>0 DEF RunFields, UnitDecs, Decs
    <2>3. run' \in RunRec /\ disk' \in DiskRec /\ slot' \in [Owners -> Asks] BY <2>1, <2>2, AskTypes, OwnersAndUnits
    <2>4. RestType' BY <1>0, <1>3, <2>3 DEF Recover, RestType
    <2> QED BY <2>3, <2>4 DEF Typed
  <1>4. CASE Reenter
    <2> DEFINE stopped == {u \in run.mine : run.result[u] # "none"}
               active  == run.mine \ stopped
               out == [x \in Units |-> CASE x \in stopped -> run.result[x]
                                          [] x \in active  -> "pending"
                                          [] OTHER         -> run.out[x]]
    <2>1. out \in [Units -> Outs]
      <3> SUFFICES ASSUME NEW x \in Units
                   PROVE  (CASE x \in stopped -> run.result[x] [] x \in active  -> "pending" [] OTHER -> run.out[x]) \in Outs
        OBVIOUS
      <3>1. run.result[x] # "none" => run.result[x] \in Outs
        BY <1>0 DEF RunFields, Results, Outs, Ends, Terminal, Resumable
      <3>2. run.out[x] \in Outs /\ "pending" \in Outs BY <1>0 DEF RunFields, Outs, Resumable
      <3> QED BY <3>1, <3>2
    <2>2. NewRun.result \in [Units -> Results] BY DEF NewRun, Results
    <2>3. Write([run EXCEPT !.out = out, !.result = NewRun.result]) BY <1>4 DEF Reenter
    <2> HIDE DEF out
    <2>4. [run EXCEPT !.out = out, !.result = NewRun.result] \in RunRec
      BY <1>0, <2>1, <2>2 DEF RunFields, RunRec
    <2>5. run' \in RunRec /\ disk' \in DiskRec BY <2>3, <2>4, WriteTypes
    <2>6. RestType' BY <1>0, <1>4 DEF Reenter, RestType
    <2> QED BY <2>5, <2>6 DEF Typed
  <1> QED BY <1>1, <1>2, <1>3, <1>4

\* What an answerer writes back: records, of which none of a unit loses its number or its answer.
LEMMA AppliedType ==
  ASSUME NEW decs \in Tables, cli.seq \in Nat \ {0}, cli.unit \in Owners
  PROVE  /\ Applied(decs) \in Tables
         /\ \A e \in Applied(decs) : e \in decs \/ e.answer # "none"
  <1>0. decs \subseteq Decs BY DEF Tables
  <1> DEFINE hit(d) == d.seq = cli.seq /\ d.unit # 0 /\ d.answer = "none"
             resolved == {IF hit(d) THEN [d EXCEPT !.answer = "given"] ELSE d : d \in decs}
             new == [seq |-> cli.seq, unit |-> cli.unit, answer |-> "given"]
  <1>1. ASSUME NEW e \in resolved
        PROVE  e \in Decs /\ (e \in decs \/ e.answer # "none") /\ \E r \in decs : e.seq = r.seq
    <2>1. PICK r \in decs : e = IF hit(r) THEN [r EXCEPT !.answer = "given"] ELSE r OBVIOUS
    <2>2. r \in Decs BY <1>0
    <2> HIDE DEF hit
    <2> QED BY <2>1, <2>2 DEF Decs
  <1>2. resolved \in Tables
    <2>1. resolved \subseteq Decs /\ \A e \in resolved : \E r \in decs : e.seq = r.seq BY <1>1
    <2> HIDE DEF resolved
    <2> QED BY <2>1, TablesAnswered
  <1>3. new \in Decs BY DEF Decs
  <1>4. Applied(decs) \in {resolved, decs, decs \cup {new}}
    <2>1. CASE cli.seq \in NumbersOf(decs) BY <2>1 DEF Applied
    <2>2. CASE cli.seq \notin NumbersOf(decs) BY <2>2 DEF Applied
    <2> QED BY <2>1, <2>2
  <1>5. decs \cup {new} \in Tables
    <2> HIDE DEF new
    <2> QED BY <1>3, TablesAdd
  <1>6. \A e \in decs \cup {new} : e \in decs \/ e.answer # "none" OBVIOUS
  <1> HIDE DEF resolved, new
  <1> QED BY <1>1, <1>2, <1>4, <1>5, <1>6

LEMMA TypedByOutside ==
  ASSUME Typed, Askers, Kill \/ Resume \/ Decide \/ DecideReads \/ DecideWrites
  PROVE  Typed'
  <1>0. RunFields /\ RestType BY Fields
  <1>1. CASE Kill
    <2>1. {slot[o].seq : o \in {x \in Owners : slot[x].st = "parked"}} \subseteq Nat BY <1>0 DEF RestType, Asks
    <2>2. RestType' BY <1>0, <1>1, <2>1, NewRunType DEF Kill, RestType, Idle
    <2> QED BY <1>0, <1>1, <2>2, NewRunType DEF Kill, RunFields, Typed
  <1>2. CASE Resume
    <2>1. ASSUME NEW s \in Settings[hist.lives + 1]
          PROVE  [NewRun EXCEPT !.status = "running", !.out = disk.out, !.decs = disk.decs,
                            !.merged = disk.merged, !.seq = MaxSeqOf(disk.decs), !.surface = s[1], !.slots = s[2],
                            !.mine = {u \in Units : disk.out[u] \in Resumable},
                            !.stale = Stale(disk.decs)] \in RunRec
      <3>1. s[1] \in {"auto", "park", "park-timeout"} /\ s[2] \in Nat
        <4>a. hist.lives \in Nat /\ hist.lives < MaxLives BY <1>0, <1>2 DEF RestType, Resume
        <4>b. MaxLives \in Nat BY RunBounds
        <4>1. hist.lives + 1 \in 1 .. MaxLives BY <4>a, <4>b
        <4> QED BY <4>1, RunConfig
      <3>2. MaxSeqOf(disk.decs) \in Nat /\ Stale(disk.decs) \subseteq UnitDecs
        BY <1>0, UnitDecsBound DEF RunFields, Stale, Tables, UnitDecs
      <3>3. {u \in Units : disk.out[u] \in Resumable} \in SUBSET Units OBVIOUS
      <3> QED BY <1>0, <3>1, <3>2, <3>3, NewRunType DEF RunFields, RunRec, Statuses
    <2>2. run' \in RunRec /\ disk' \in DiskRec BY <1>2, <2>1, WriteTypes DEF Resume
    <2>3. slot' \in [Owners -> Asks] BY <1>2, NewRunType DEF Resume
    <2>4. hist' \in [lives : Nat, gated : BOOLEAN, parked : SUBSET Nat, dropped : SUBSET Nat]
      <3>1. hist.lives + 1 \in Nat /\ hist.dropped \ NumbersOf(disk.decs) \in SUBSET Nat BY <1>0 DEF RestType
      <3>2. hist' = [hist EXCEPT !.lives = hist.lives + 1, !.gated = FALSE, !.dropped = hist.dropped \ NumbersOf(disk.decs)]
        BY <1>2 DEF Resume
      <3> QED BY <1>0, <3>1, <3>2 DEF RestType
    <2>5. RestType' BY <1>0, <1>2, <2>3, <2>4 DEF Resume, RestType
    <2> QED BY <2>2, <2>5 DEF Typed
  <1>3. CASE Decide
    <2>1. PICK q \in files.req : \E answer \in Options(q.unit) :
             /\ files' = [files EXCEPT !.ans = @ \cup {[seq |-> q.seq, answer |-> answer]}]
             /\ cli' = [NoDecide EXCEPT !.pc = "read", !.seq = q.seq, !.unit = q.unit]
      BY <1>3 DEF Decide, Asked
    <2>2. PICK answer \in Options(q.unit) :
             /\ files' = [files EXCEPT !.ans = @ \cup {[seq |-> q.seq, answer |-> answer]}]
             /\ cli' = [NoDecide EXCEPT !.pc = "read", !.seq = q.seq, !.unit = q.unit]
      BY <2>1
    <2>3. answer \in UnitAnswers \cup {"skip-land"} BY DEF Options, UnitAnswers
    <2>4. q.seq \in Nat \ {0} /\ q.unit \in Owners BY <1>0 DEF RestType
    <2>4a. cli' \in [pc : {"idle", "read", "write"}, seq : Nat, unit : Owners, doc : DiskRec] /\ cli'.seq # 0
      <3>1. NoDecide \in [pc : {"idle"}, seq : Nat, unit : Owners, doc : DiskRec] BY NewRunType
      <3>2. cli' = [NoDecide EXCEPT !.pc = "read", !.seq = q.seq, !.unit = q.unit] BY <2>2
      <3> QED BY <2>4, <3>1, <3>2
    <2>4b. files' \in [req : SUBSET [seq : Nat \ {0}, unit : Owners],
                       ans : SUBSET [seq : Nat \ {0}, answer : UnitAnswers \cup {"skip-land"}]]
      BY <1>0, <2>2, <2>3, <2>4 DEF RestType
    <2>4c. UNCHANGED <<phase, pool, slot, hist>> BY <1>3 DEF Decide
    <2>5. RestType' BY <1>0, <2>4a, <2>4b, <2>4c DEF RestType
    <2> QED BY <1>0, <1>3, <2>5 DEF Decide, RunFields, Typed
  <1>4. CASE DecideReads
    <2>1. cli' \in [pc : {"idle", "read", "write"}, seq : Nat, unit : Owners, doc : DiskRec] /\ cli'.seq = cli.seq /\ cli.seq # 0
      BY <1>0, <1>4 DEF DecideReads, RestType, RunFields
    <2>2. RestType' BY <1>0, <1>4, <2>1 DEF DecideReads, RestType
    <2> QED BY <1>0, <1>4, <2>2 DEF DecideReads, RunFields, Typed
  <1>5. CASE DecideWrites
    <2>1. cli.doc \in DiskRec /\ cli.doc.decs \in Tables /\ cli.seq \in Nat \ {0} /\ cli.unit \in Owners
      BY <1>0, <1>5 DEF DecideWrites, RestType, DiskRec
    <2>2. Applied(cli.doc.decs) \in Tables BY <2>1, AppliedType
    <2>3. disk' = [cli.doc EXCEPT !.decs = Applied(cli.doc.decs)] BY <1>5 DEF DecideWrites
    <2>4. disk' \in DiskRec BY <2>1, <2>2, <2>3 DEF DiskRec
    <2>5. NumbersOf(disk.decs) \subseteq Nat BY <1>0 DEF RunFields, NumbersOf, Tables, Decs
    <2>6. hist' \in [lives : Nat, gated : BOOLEAN, parked : SUBSET Nat, dropped : SUBSET Nat]
      BY <1>0, <1>5, <2>5 DEF DecideWrites, RestType
    <2>7. cli' \in [pc : {"idle", "read", "write"}, seq : Nat, unit : Owners, doc : DiskRec] /\ cli'.pc = "idle"
      BY <1>5, NewRunType DEF DecideWrites
    <2>8. RestType' BY <1>0, <1>5, <2>6, <2>7 DEF DecideWrites, RestType
    <2> QED BY <1>0, <1>5, <2>4, <2>8 DEF DecideWrites, RunFields, Typed
  <1> QED BY <1>1, <1>2, <1>3, <1>4, <1>5

\* What a step of a question does to the slots.
LEMMA AskSlots ==
  ASSUME Typed, NEW o \in Owners, NEW unit \in Owners, NEW stale \in Nat, Ask(o, unit, stale)
  PROVE  /\ slot'[o].st = "asking" /\ slot'[o].seq = run.seq + 1 /\ slot'[o].unit = unit /\ slot'[o].stale = stale
         /\ \A p \in Owners : p # o => slot'[p] = slot[p]
         /\ run'.seq = run.seq + 1
         /\ run'.decs = run.decs \cup {[seq |-> run.seq + 1, unit |-> unit, answer |-> "none"]}
         /\ disk'.decs = run'.decs /\ disk'.status = run.status
         /\ run' = [run EXCEPT !.seq = run'.seq, !.decs = run'.decs]
  <1>1. RunFields /\ RestType BY Fields
  <1>2. slot' = [slot EXCEPT ![o] = [NoAsk EXCEPT !.st = "asking", !.seq = run.seq + 1, !.unit = unit, !.stale = stale]]
    BY DEF Ask
  <1>3. run' = [run EXCEPT !.seq = run.seq + 1,
                           !.decs = run.decs \cup {[seq |-> run.seq + 1, unit |-> unit, answer |-> "none"]}]
    BY DEF Ask, Write
  <1>4. disk' = Store(run') BY DEF Ask, Write
  <1>5. /\ slot'[o].st = "asking" /\ slot'[o].seq = run.seq + 1 /\ slot'[o].unit = unit /\ slot'[o].stale = stale
        /\ \A p \in Owners : p # o => slot'[p] = slot[p]
    BY <1>1, <1>2 DEF RestType, NoAsk
  <1>6. /\ run'.seq = run.seq + 1
        /\ run'.decs = run.decs \cup {[seq |-> run.seq + 1, unit |-> unit, answer |-> "none"]}
        /\ run'.status = run.status
    BY <1>1, <1>3 DEF RunFields, RunRec
  <1>7. disk'.decs = run'.decs /\ disk'.status = run.status BY <1>4, <1>6 DEF Store
  <1>8. run' = [run EXCEPT !.seq = run'.seq, !.decs = run'.decs] BY <1>1, <1>3, <1>6 DEF RunFields, RunRec
  <1> QED BY <1>5, <1>6, <1>7, <1>8

\* Who asks is kept.
LEMMA AskersStart == ASSUME Typed, Askers, Start \/ Gates \/ Settle \/ Complete \/ Merge \/ Kill \/ Resume \/ Reenter PROVE Askers'
  <1>0. RunFields /\ RestType BY Fields
  <1>1. CASE Start BY <1>0, <1>1, OwnersAndUnits DEF Start, Askers, Open, End, Idle, RestType
  <1>2. CASE Gates BY <1>0, <1>2, OwnersAndUnits DEF Gates, Askers, Open, End, Idle, RestType
  <1>3. CASE Settle
    <2>1. \A u \in Units : pool[u] \notin {"work", "asking"} BY <1>3 DEF Settle, Over
    <2>2. \A u \in Units : pool'[u] \notin {"work", "asking"} BY <1>3, <2>1 DEF Settle, End, Idle
    <2>3. slot' = slot /\ phase = "units" BY <1>3 DEF Settle
    <2> QED BY <2>1, <2>2, <2>3, OwnersAndUnits DEF Askers, Open
  <1>4. CASE Complete BY <1>0, <1>4, OwnersAndUnits DEF Complete, Askers, Open, End, Idle, RestType
  <1>5. CASE Merge BY <1>0, <1>5, OwnersAndUnits DEF Merge, Askers, Open, RestType
  <1>6. CASE Kill
    <2>1. \A o \in Owners : slot'[o] = NoAsk BY <1>6 DEF Kill
    <2>2. \A u \in Units : pool'[u] = "out" BY <1>6 DEF Kill, Idle
    <2> QED BY <2>1, <2>2, OwnersAndUnits DEF Askers, Open, NoAsk
  <1>7. CASE Resume
    <2>1. \A o \in Owners : slot'[o] = NoAsk BY <1>7 DEF Resume
    <2>2. \A u \in Units : pool'[u] = pool[u] /\ pool[u] \notin {"work", "asking"} BY <1>7 DEF Resume, Askers
    <2> QED BY <2>1, <2>2, OwnersAndUnits DEF Askers, Open, NoAsk
  <1>8. CASE Reenter
    <2>1. \A u \in Units : pool'[u] \in {"queued", "out"} BY <1>8 DEF Reenter
    <2>2. \A u \in Units : slot[u].st = "none" BY <1>8 DEF Reenter, Askers
    <2> QED BY <1>8, <2>1, <2>2, OwnersAndUnits DEF Reenter, Askers, Open
  <1> QED BY <1>1, <1>2, <1>3, <1>4, <1>5, <1>6, <1>7, <1>8

LEMMA AskersUnit ==
  ASSUME Typed, Askers, NEW u \in Units, Begin(u) \/ RoleReturns(u) \/ Finish(u) \/ Judge(u) \/ Apply(u)
  PROVE  Askers'
  <1>0. RunFields /\ RestType BY Fields
  <1>a. phase' = phase BY DEF Begin, RoleReturns, Finish, Judge, Apply
  <1>1. CASE Begin(u) BY <1>0, <1>1, OwnersAndUnits DEF Begin, Askers, Open, RestType
  <1>2. CASE RoleReturns(u) BY <1>0, <1>2, OwnersAndUnits DEF RoleReturns, Askers, Open, RestType
  <1>3. CASE Finish(u) BY <1>0, <1>3, OwnersAndUnits DEF Finish, UnitEnds, Askers, Open, RestType
  <1>4. CASE Judge(u)
    <2>1. Ask(u, u, 0) /\ phase = "units" /\ pool' = [pool EXCEPT ![u] = "asking"] BY <1>4 DEF Judge
    <2>2. slot'[u].st = "asking" /\ slot'[u].unit = u /\ slot'[u].stale = 0 /\ \A p \in Owners : p # u => slot'[p] = slot[p]
      BY <2>1, AskSlots, OwnersAndUnits
    <2> QED BY <1>0, <1>a, <2>1, <2>2, OwnersAndUnits DEF Askers, Open, RestType
  <1>5. CASE Apply(u)
    <2>1. slot'[u] = NoAsk /\ \A p \in Owners : p # u => slot'[p] = slot[p] BY <1>0, <1>5, OwnersAndUnits DEF Apply, RestType
    <2>2. pool'[u] # "asking" /\ \A v \in Units : v # u => pool'[v] = pool[v]
      BY <1>0, <1>5 DEF Apply, UnitEnds, RestType
    <2>3. pool[u] = "asking" /\ phase = "units" BY <1>5 DEF Apply, Askers
    <2> QED BY <1>0, <1>a, <2>1, <2>2, <2>3, OwnersAndUnits DEF Askers, Open, RestType, NoAsk
  <1> QED BY <1>1, <1>2, <1>3, <1>4, <1>5

LEMMA AskersRest ==
  ASSUME Typed, Askers, Land \/ Recover \/ Decide \/ DecideReads \/ DecideWrites \/ \E o \in Owners : Park(o) \/ Answer(o)
  PROVE  Askers'
  <1>0. RunFields /\ RestType BY Fields
  <1>1. CASE Land
    <2>1. CASE UNCHANGED slot BY <1>1, <2>1, OwnersAndUnits DEF Land, Askers, Open
    <2>2. CASE Ask(0, 0, 0) /\ phase' = "landing"
      <3>1. slot'[0].st = "asking" /\ slot'[0].unit = 0 /\ slot'[0].stale = 0 /\ \A p \in Owners : p # 0 => slot'[p] = slot[p]
        BY <2>2, AskSlots, OwnersAndUnits
      <3> QED BY <1>0, <1>1, <2>2, <3>1, OwnersAndUnits DEF Land, Askers, Open
    <2> QED BY <1>1, <2>1, <2>2 DEF Land
  <1>2. CASE Recover
    <2>1. PICK d \in run.stale : Ask(0, d.unit, d.seq) BY <1>2 DEF Recover
    <2>2. d.unit \in Owners /\ d.seq \in Nat \ {0} BY <1>0 DEF RunFields, UnitDecs, Decs
    <2>2a. d.unit # 0 BY <1>0 DEF RunFields, UnitDecs
    <2>3. slot'[0].st = "asking" /\ slot'[0].unit = d.unit /\ slot'[0].stale = d.seq /\ \A p \in Owners : p # 0 => slot'[p] = slot[p]
      BY <2>1, <2>2, AskSlots, OwnersAndUnits
    <2> QED BY <1>0, <1>2, <2>2, <2>2a, <2>3, OwnersAndUnits DEF Recover, Askers, Open
  <1>3. CASE Decide BY <1>3 DEF Decide, Askers, Open
  <1>4. CASE DecideReads \/ DecideWrites BY <1>4 DEF DecideReads, DecideWrites, Askers, Open
  <1>5. ASSUME NEW o \in Owners, Park(o) PROVE Askers'
    <2>1. slot'[o] = [slot[o] EXCEPT !.st = "parked"] /\ \A p \in Owners : p # o => slot'[p] = slot[p]
      BY <1>0, <1>5 DEF Park, RestType
    <2>2. slot[o] \in Asks /\ slot[o].st = "asking" BY <1>0, <1>5 DEF Park, RestType
    <2>3. slot'[o].st = "parked" /\ slot'[o].unit = slot[o].unit /\ slot'[o].stale = slot[o].stale BY <2>1, <2>2 DEF Asks
    <2> QED BY <1>5, <2>1, <2>2, <2>3, OwnersAndUnits DEF Park, Askers, Open
  <1>6. ASSUME NEW o \in Owners, Answer(o) PROVE Askers'
    <2>1. PICK answer : slot' = [slot EXCEPT ![o] = [NoAsk EXCEPT !.st = IF o = 0 THEN "none" ELSE "answered",
                                                        !.answer = IF o = 0 THEN "none" ELSE answer]]
      BY <1>6 DEF Answer
    <2>2. slot'[o].st = (IF o = 0 THEN "none" ELSE "answered") /\ \A p \in Owners : p # o => slot'[p] = slot[p]
      BY <1>0, <2>1 DEF RestType, NoAsk
    <2>3. Open(o) /\ UNCHANGED pool BY <1>6 DEF Answer, Open
    <2>4. CASE o = 0
      <3>1. slot'[0].st = "none" /\ \A u \in Units : slot'[u] = slot[u] BY <2>2, <2>4, OwnersAndUnits
      <3>2. \A u \in Units : pool[u] \notin {"work", "asking"} BY <2>3, <2>4 DEF Askers, Open
      <3> QED BY <2>3, <3>1, <3>2, OwnersAndUnits DEF Askers, Open
    <2>5. CASE o # 0
      <3>1. o \in Units /\ slot'[0] = slot[0] /\ slot'[o].st = "answered" /\ phase = "units" /\ phase' = phase
        BY <1>6, <2>2, <2>3, <2>5, OwnersAndUnits DEF Askers, Open, Answer
      <3> QED BY <2>2, <2>3, <3>1, OwnersAndUnits DEF Askers, Open
    <2> QED BY <2>4, <2>5
  <1> QED BY <1>1, <1>2, <1>3, <1>4, <1>5, <1>6

\* A step of the process that asks nothing, answers nothing and parks nothing.
Quiet ==
  /\ Up /\ run'.decs = run.decs /\ run'.seq = run.seq
  /\ \A o \in Owners : slot'[o] = slot[o] \/ slot'[o].st = "none"
  /\ files' = files /\ disk'.decs \in {disk.decs, run.decs} /\ hist'.dropped = hist.dropped

LEMMA QuietActions ==
  ASSUME Typed, Askers,
         \/ Start \/ Gates \/ Settle \/ Merge \/ Complete \/ Reenter \/ (Land /\ Ready)
         \/ \E u \in Units : Begin(u) \/ RoleReturns(u) \/ Finish(u) \/ Apply(u)
  PROVE  Quiet
  <1>0. RunFields /\ RestType BY Fields
  <1>b. hist'.dropped = hist.dropped
    <2>1. ASSUME NEW u \in Units, Begin(u) \/ RoleReturns(u) \/ Finish(u) \/ Apply(u) PROVE hist'.dropped = hist.dropped
      BY <1>0, <2>1 DEF RestType, Begin, RoleReturns, Finish, Apply
    <2> QED BY <1>0, <2>1 DEF RestType, Start, Gates, Settle, Merge, Complete, Reenter, Land
  <1>a. ASSUME NEW r, Write(r), r.decs = run.decs, r.seq = run.seq
        PROVE  run'.decs = run.decs /\ run'.seq = run.seq /\ disk'.decs = run.decs
    BY <1>a DEF Write, Store
  <1>1. CASE Start
    <2>1. \A st, out : /\ [run EXCEPT !.status = st].decs = run.decs /\ [run EXCEPT !.status = st].seq = run.seq
                       /\ [run EXCEPT !.status = st, !.out = out].decs = run.decs
                       /\ [run EXCEPT !.status = st, !.out = out].seq = run.seq
      BY <1>0 DEF RunFields, RunRec
    <2>2. \/ Write([run EXCEPT !.status = "error"]) \/ Write([run EXCEPT !.status = "running"])
          \/ Write([run EXCEPT !.status = "dry-run", !.out = [x \in Units |-> "dry-run"]])
      BY <1>1 DEF Start, End
    <2>3. run'.decs = run.decs /\ run'.seq = run.seq /\ disk'.decs = run.decs BY <1>a, <2>1, <2>2
    <2> QED BY <1>b, <1>1, <2>3 DEF Start, Quiet, Up
  <1>2. CASE Gates
    <2>1. ASSUME NEW u \in Units, Write([run EXCEPT !.status = "error", !.out[u] = "error"])
          PROVE  run'.decs = run.decs /\ run'.seq = run.seq /\ disk'.decs = run.decs
      <3>1. /\ [run EXCEPT !.status = "error", !.out[u] = "error"].decs = run.decs
            /\ [run EXCEPT !.status = "error", !.out[u] = "error"].seq = run.seq
        BY <1>0 DEF RunFields, RunRec
      <3> QED BY <1>a, <2>1, <3>1
    <2> QED BY <1>b, <1>2, <2>1 DEF Gates, End, Quiet, Up
  <1>3. CASE Settle BY <1>b, <1>0, <1>3 DEF Settle, End, Quiet, Up, Write, Store, RunFields, RunRec
  <1>4. CASE Merge BY <1>b, <1>0, <1>4 DEF Merge, Quiet, Up, Write, Store, RunFields, RunRec
  <1>5. CASE Complete BY <1>b, <1>0, <1>5 DEF Complete, End, Quiet, Up, Write, Store, RunFields, RunRec
  <1>6. CASE Reenter BY <1>b, <1>0, <1>6 DEF Reenter, Quiet, Up, Write, Store, RunFields, RunRec
  <1>7. CASE Land /\ Ready BY <1>b, <1>7 DEF Land, Quiet, Up
  <1>8. ASSUME NEW u \in Units, Begin(u) PROVE Quiet
    <2>1. ASSUME Write([run EXCEPT !.out[u] = "error", !.gated = Aborts(TRUE)])
          PROVE  run'.decs = run.decs /\ run'.seq = run.seq /\ disk'.decs = run.decs
      <3>1. /\ [run EXCEPT !.out[u] = "error", !.gated = Aborts(TRUE)].decs = run.decs
            /\ [run EXCEPT !.out[u] = "error", !.gated = Aborts(TRUE)].seq = run.seq
        BY <1>0 DEF RunFields, RunRec
      <3> QED BY <1>a, <2>1, <3>1
    <2> QED BY <1>b, <1>8, <2>1 DEF Begin, Quiet, Up
  <1>9. ASSUME NEW u \in Units, RoleReturns(u) PROVE Quiet
    BY <1>b, <1>0, <1>9 DEF RoleReturns, Quiet, Up, Write, Store, RunFields, RunRec
  <1>10. ASSUME NEW u \in Units, Finish(u) PROVE Quiet
    BY <1>b, <1>0, <1>10 DEF Finish, UnitEnds, Quiet, Up, Write, Store, RunFields, RunRec
  <1>11. ASSUME NEW u \in Units, Apply(u) PROVE Quiet
    <2>1. \A o \in Owners : slot'[o] = slot[o] \/ slot'[o].st = "none"
      BY <1>0, <1>11, OwnersAndUnits DEF Apply, RestType, NoAsk
    <2>2. Up BY <1>11 DEF Apply, Askers, Up
    <2>3. run'.decs = run.decs /\ run'.seq = run.seq /\ files' = files /\ disk'.decs \in {disk.decs, run.decs}
      BY <1>0, <1>11 DEF Apply, UnitEnds, Write, Store, RunFields, RunRec
    <2> QED BY <1>b, <2>1, <2>2, <2>3 DEF Quiet
  <1> QED BY <1>1, <1>2, <1>3, <1>4, <1>5, <1>6, <1>7, <1>8, <1>9, <1>10, <1>11

\* The numbers and the records are kept: by a quiet step, a question, a request (which takes no other
\* unit's place), an answer, a kill, a resume and an answer from outside.
LEMMA QuietKeeps == ASSUME Typed, Numbers, Records, Quiet PROVE Numbers' /\ Records'
  <1>1. \A o \in Owners : /\ Open(o)' => Open(o) /\ slot'[o] = slot[o]
                          /\ slot'[o].st = "asking" => slot[o].st = "asking" /\ slot'[o] = slot[o]
    BY DEF Quiet, Open
  <1>2. Numbers' BY <1>1 DEF Numbers, Quiet, Up
  <1>3. \A o \in Owners : Open(o) /\ slot[o].unit # 0 => slot[o].seq \in NumbersOf(run.decs) /\ Known(disk.decs, slot[o].seq)
    BY DEF Records
  <1>4. \A q \in files.req : q.unit # 0 => Known(disk.decs, q.seq) /\ Known(run.decs, q.seq) BY DEF Records, Quiet
  <1>5. NumbersOf(run'.decs) = NumbersOf(run.decs) /\ NumbersOf(disk'.decs) \in {NumbersOf(disk.decs), NumbersOf(run.decs)}
    BY DEF Quiet
  <1>6. Records' BY <1>1, <1>3, <1>4, <1>5 DEF Records, Quiet, Known
  <1> QED BY <1>2, <1>6

LEMMA AskKeeps ==
  ASSUME Typed, Numbers, Records, Up, NEW o \in Owners, NEW unit \in Owners, NEW stale \in Nat,
         Ask(o, unit, stale), UNCHANGED <<files, hist>>
  PROVE  Numbers' /\ Records'
  <1>0. RunFields /\ RestType BY Fields
  <1> DEFINE new == [seq |-> run.seq + 1, unit |-> unit, answer |-> "none"]
  <1>1. /\ slot'[o].st = "asking" /\ slot'[o].seq = run.seq + 1 /\ slot'[o].unit = unit
        /\ \A p \in Owners : p # o => slot'[p] = slot[p]
        /\ run'.seq = run.seq + 1 /\ run'.decs = run.decs \cup {new} /\ disk'.decs = run'.decs
    BY AskSlots
  <1>2. run.seq \in Nat /\ new.seq = run.seq + 1 /\ new.unit = unit BY <1>0 DEF RunFields
  <1>2a. \A d \in run.decs : d.seq \in Nat BY <1>0 DEF RunFields, Tables, Decs
  <1> HIDE DEF new
  <1>3. \A p \in Owners \ {o} : Open(p)' => Open(p) BY <1>1 DEF Open
  <1>4. Numbers'
    <2>1. \A d \in run'.decs : d.unit # 0 => d.seq <= run'.seq BY <1>1, <1>2, <1>2a DEF Numbers
    <2>2. \A p \in Owners : Open(p)' => slot'[p].seq \in 1 .. run'.seq BY <1>1, <1>2, <1>3 DEF Numbers
    <2>3. \A p \in Owners : Open(p)' /\ p # o => slot'[p].seq # slot'[o].seq BY <1>1, <1>2, <1>3 DEF Numbers
    <2>4. \A p, q \in Owners : Open(p)' /\ Open(q)' /\ p # q => slot'[p].seq # slot'[q].seq
      BY <1>1, <1>3, <2>3 DEF Numbers
    <2> QED BY <2>1, <2>2, <2>4 DEF Numbers
  <1>5. Records'
    <2>0. NumbersOf(run.decs) \subseteq NumbersOf(run'.decs) /\ NumbersOf(disk'.decs) = NumbersOf(run'.decs)
      BY <1>1 DEF NumbersOf
    <2>1. unit # 0 => slot'[o].seq \in NumbersOf(run'.decs) BY <1>1, <1>2 DEF NumbersOf
    <2>2. \A p \in Owners : Open(p)' /\ slot'[p].unit # 0 => slot'[p].seq \in NumbersOf(run'.decs)
      BY <1>1, <1>3, <2>0, <2>1 DEF Records
    <2>3. \A q \in files.req : q.unit # 0 => q.seq \in NumbersOf(run.decs) \/ q.seq \in hist.dropped BY DEF Records, Up, Known
    <2>4. run.seq + 1 \notin NumbersOf(run.decs) BY <1>2, <1>2a DEF NumbersOf, Numbers, Up
    <2>5. \A p \in Owners : slot'[p].st = "asking" =>
             \A q \in files.req : q.unit # 0 => q.seq # slot'[p].seq \/ q.seq \in hist.dropped
      BY <1>1, <2>3, <2>4 DEF Records
    <2> QED BY <2>0, <2>2, <2>3, <2>5 DEF Records, Known
  <1> QED BY <1>4, <1>5

LEMMA ParkKeeps ==
  ASSUME Typed, Askers, Numbers, Records, NEW o \in Owners, Park(o)
  PROVE  Numbers' /\ Records' /\ \A q \in files.req : q.unit # 0 /\ q.seq \notin hist.dropped => q \in files'.req
  <1>0. RunFields /\ RestType BY Fields
  <1>1. slot'[o] = [slot[o] EXCEPT !.st = "parked"] /\ \A p \in Owners : p # o => slot'[p] = slot[p]
    BY <1>0 DEF Park, RestType
  <1>2. slot[o] \in Asks /\ slot[o].st = "asking" /\ Open(o) BY <1>0 DEF Park, RestType, Open
  <1>3. slot'[o].st = "parked" /\ slot'[o].unit = slot[o].unit /\ slot'[o].seq = slot[o].seq BY <1>1, <1>2 DEF Asks
  <1>4. \A p \in Owners : /\ Open(p)' <=> Open(p) /\ slot'[p].seq = slot[p].seq /\ slot'[p].unit = slot[p].unit
                          /\ slot'[p].st = "asking" => slot[p].st = "asking" /\ p # o
    BY <1>1, <1>2, <1>3 DEF Open
  <1>5. UNCHANGED <<phase, run, disk, hist>> BY DEF Park
  <1>6. files'.req = {q \in files.req : q.seq # slot[o].seq} \cup {[seq |-> slot[o].seq, unit |-> slot[o].unit]}
    BY <1>0 DEF Park, RestType
  <1>7. Numbers' BY <1>4, <1>5 DEF Numbers, Up
  <1>8. Records'
    <2>1. \A q \in files'.req : q \in files.req \/ (q.seq = slot[o].seq /\ q.unit = slot[o].unit) BY <1>6
    <2>2. \A q \in files'.req : q.unit # 0 => Known(disk.decs, q.seq) /\ (Up => Known(run.decs, q.seq))
      BY <2>1, <1>2 DEF Records, Known
    <2>3. \A p \in Owners : slot'[p].st = "asking" =>
             \A q \in files'.req : q.unit # 0 => q.seq # slot'[p].seq \/ q.seq \in hist.dropped
      BY <2>1, <1>2, <1>4 DEF Records, Numbers, Open
    <2> QED BY <1>4, <1>5, <2>2, <2>3 DEF Records, Up, Known
  <1>9. \A q \in files.req : q.unit # 0 /\ q.seq \notin hist.dropped => q \in files'.req BY <1>2, <1>6 DEF Records
  <1> QED BY <1>7, <1>8, <1>9

\* What an answer does to the records of the run.
LEMMA ResolveDecs ==
  ASSUME Typed, NEW o \in Owners, NEW answer, Resolve(o, answer)
  PROVE  /\ NumbersOf(run.decs) \subseteq NumbersOf(run'.decs)
         /\ \A d \in run'.decs : \E e \in run.decs :
              /\ e.seq = d.seq /\ e.unit = d.unit
              /\ d.answer = "given" \/ (d = e /\ ~(e.unit = slot[o].unit /\ e.seq \in {slot[o].seq, slot[o].stale}))
         /\ run'.seq = run.seq /\ disk'.decs = run'.decs /\ disk'.status = run.status
         /\ run'.stale = run.stale \ {d \in run.stale : d.seq = slot[o].stale /\ d.unit = slot[o].unit}
  <1>0. RunFields /\ RestType BY Fields
  <1> DEFINE s == slot[o]
             hit(d) == d.unit = s.unit /\ d.seq \in {s.seq, s.stale}
             decs == {IF hit(d) THEN [d EXCEPT !.answer = "given"] ELSE d : d \in run.decs}
  <1>1. PICK result : Write([run EXCEPT !.decs = decs,
                       !.stale = run.stale \ {d \in run.stale : d.seq = s.stale /\ d.unit = s.unit}, !.result = result])
    BY DEF Resolve
  <1>2. run'.decs = decs /\ run'.seq = run.seq /\ disk'.decs = run'.decs /\ disk'.status = run.status
        /\ run'.stale = run.stale \ {d \in run.stale : d.seq = slot[o].stale /\ d.unit = slot[o].unit}
    <2> HIDE DEF decs
    <2> QED BY <1>0, <1>1 DEF Write, Store, RunFields, RunRec
  <1>3. run.decs \subseteq Decs BY <1>0 DEF RunFields, Tables
  <1>4. ASSUME NEW d \in run.decs, d.unit # 0 PROVE d.seq \in NumbersOf(decs)
    <2>1. (IF hit(d) THEN [d EXCEPT !.answer = "given"] ELSE d) \in decs OBVIOUS
    <2>2. LET e == IF hit(d) THEN [d EXCEPT !.answer = "given"] ELSE d IN e.seq = d.seq /\ e.unit = d.unit
      BY <1>3 DEF Decs
    <2> HIDE DEF decs, hit
    <2> QED BY <1>4, <2>1, <2>2 DEF NumbersOf
  <1>5. ASSUME NEW d \in decs
        PROVE  \E e \in run.decs : /\ e.seq = d.seq /\ e.unit = d.unit
                                   /\ d.answer = "given" \/ (d = e /\ ~hit(e))
    <2>1. PICK e \in run.decs : d = IF hit(e) THEN [e EXCEPT !.answer = "given"] ELSE e OBVIOUS
    <2>2. e.seq = d.seq /\ e.unit = d.unit /\ (d.answer = "given" \/ (d = e /\ ~hit(e))) BY <2>1, <1>3 DEF Decs
    <2> QED BY <2>2
  <1>6. NumbersOf(run.decs) \subseteq NumbersOf(decs)
    <2> HIDE DEF decs
    <2> QED BY <1>4 DEF NumbersOf
  <1> HIDE DEF decs
  <1> QED BY <1>2, <1>5, <1>6

LEMMA AnswerKeeps ==
  ASSUME Typed, Askers, Numbers, Records, NEW o \in Owners, Answer(o)
  PROVE  Numbers' /\ Records'
  <1>0. RunFields /\ RestType BY Fields
  <1>1. PICK answer : /\ Resolve(o, answer)
                      /\ slot' = [slot EXCEPT ![o] = [NoAsk EXCEPT !.st = IF o = 0 THEN "none" ELSE "answered",
                                                        !.answer = IF o = 0 THEN "none" ELSE answer]]
    BY DEF Answer
  <1>2. slot'[o].st = (IF o = 0 THEN "none" ELSE "answered") /\ \A p \in Owners : p # o => slot'[p] = slot[p]
    BY <1>0, <1>1 DEF RestType, NoAsk
  <1>3. \A p \in Owners : /\ Open(p)' => Open(p) /\ slot'[p] = slot[p]
                          /\ slot'[p].st = "asking" => slot[p].st = "asking" /\ slot'[p] = slot[p]
    BY <1>2 DEF Open
  <1>4. /\ Open(o) /\ UNCHANGED <<files, hist>>
        /\ Up
    BY OwnersAndUnits DEF Answer, Open, Askers, Up
  <1>5. /\ NumbersOf(run.decs) \subseteq NumbersOf(run'.decs)
        /\ \A d \in run'.decs : \E e \in run.decs : e.seq = d.seq /\ e.unit = d.unit
        /\ run'.seq = run.seq /\ disk'.decs = run'.decs
    BY <1>1, ResolveDecs
  <1>7. Numbers' BY <1>3, <1>4, <1>5 DEF Numbers, Up
  <1>8. Records' BY <1>3, <1>4, <1>5 DEF Records, Up, Known
  <1> QED BY <1>7, <1>8

LEMMA KillKeeps == ASSUME Typed, Numbers, Records, Kill PROVE Numbers' /\ Records'
  <1>1. \A o \in Owners : slot'[o].st = "none" BY DEF Kill, NoAsk
  <1>2. hist'.dropped = hist.dropped BY Fields DEF Kill, RestType
  <1> QED BY <1>1, <1>2 DEF Kill, Numbers, Records, Up, Open, Known

LEMMA ResumeKeeps == ASSUME Typed, Numbers, Records, Resume PROVE Numbers' /\ Records'
  <1>0. RunFields /\ RestType BY Fields
  <1>1. \A o \in Owners : slot'[o].st = "none" BY DEF Resume, NoAsk
  <1>2. PICK s : Write([NewRun EXCEPT !.status = "running", !.out = disk.out, !.decs = disk.decs,
                            !.merged = disk.merged, !.seq = MaxSeqOf(disk.decs), !.surface = s[1], !.slots = s[2],
                            !.mine = {u \in Units : disk.out[u] \in Resumable},
                            !.stale = Stale(disk.decs)])
    BY DEF Resume
  <1>3. run'.decs = disk.decs /\ run'.seq = MaxSeqOf(disk.decs) /\ disk'.decs = disk.decs
    BY <1>2 DEF Write, Store, NewRun
  <1>4. \A d \in disk.decs : d.unit # 0 => d.seq <= MaxSeqOf(disk.decs) BY <1>0, UnitDecsBound DEF RunFields
  <1>5. files' = files /\ hist'.dropped = hist.dropped \ NumbersOf(disk.decs) BY <1>0 DEF Resume, RestType
  <1> QED BY <1>1, <1>3, <1>4, <1>5 DEF Numbers, Records, Up, Open, Known

LEMMA DecideKeeps == ASSUME Typed, Numbers, Records, Decide \/ DecideReads \/ DecideWrites PROVE Numbers' /\ Records'
  <1>0. RunFields /\ RestType BY Fields
  <1>1. files'.req = files.req BY <1>0 DEF Decide, DecideReads, DecideWrites, RestType
  <1>2. UNCHANGED <<phase, run, slot>> BY DEF Decide, DecideReads, DecideWrites
  <1>3. hist.dropped \subseteq hist'.dropped /\ NumbersOf(disk.decs) \subseteq NumbersOf(disk'.decs) \cup hist'.dropped
    <2>1. CASE Decide \/ DecideReads BY <2>1 DEF Decide, DecideReads
    <2>2. CASE DecideWrites BY <1>0, <2>2 DEF DecideWrites, RestType
    <2> QED BY <2>1, <2>2
  <1>4. Numbers' BY <1>2 DEF Numbers, Up, Open
  <1>5. Records' BY <1>1, <1>2, <1>3 DEF Records, Up, Open, Known
  <1> QED BY <1>4, <1>5

\* The outcomes are kept.
LEMMA OutcomesEnd ==
  ASSUME Typed, NEW r \in RunRec, r.status # "completed" \/ phase' = "down", End(r)
  PROVE  Outcomes'
  BY DEF End, Outcomes, Up, Ending

LEMMA OutcomesStart == ASSUME Typed, Outcomes, Start \/ Gates \/ Settle \/ Merge \/ Complete PROVE Outcomes'
  <1>0. RunFields /\ RestType BY Fields
  <1>a. phase' = "down" => Outcomes' BY DEF Outcomes, Up, Ending
  <1>1. CASE Start
    <2>1. CASE Write([run EXCEPT !.status = "running"]) /\ phase' \in {"units", "gates"} /\ UNCHANGED <<pool, hist>>
      <3>1. run'.status = "running" /\ run'.gated = run.gated
        BY <1>0, <2>1 DEF Write, Store, RunFields, RunRec
      <3>2. \A u \in Units : pool'[u] = "queued" BY <1>1, <2>1 DEF Start, Outcomes
      <3>3. ~hist'.gated BY <1>1, <2>1 DEF Start, Outcomes
      <3> QED BY <2>1, <3>1, <3>2, <3>3 DEF Outcomes, Up, Ending
    <2> QED BY <1>1, <1>a, <2>1 DEF Start, End
  <1>2. CASE Gates
    <2>1. CASE phase' = "units" /\ UNCHANGED <<run, disk, hist, pool>>
      BY <1>2, <2>1 DEF Gates, Outcomes, Up, Ending
    <2> QED BY <1>2, <1>a, <2>1 DEF Gates, End
  <1>3. CASE Settle
    <2> DEFINE out == [x \in Units |-> IF pool[x] = "held" THEN run.result[x] ELSE run.out[x]]
    <2>1. CASE /\ ~run.gated /\ phase' \in {"merge", "complete"} /\ run' = [run EXCEPT !.out = out] /\ UNCHANGED <<disk, pool, hist>>
      <3>1. run'.out = out /\ run'.status = run.status /\ run'.gated = run.gated
        <4> HIDE DEF out
        <4> QED BY <1>0, <2>1 DEF RunFields, RunRec
      <3>2. ~hist'.gated BY <1>3, <2>1 DEF Settle, Outcomes
      <3>3. ASSUME NEW u \in Units PROVE Final(out[u])
        <4>1. pool[u] \in {"out", "done", "held"} BY <1>3 DEF Settle, Over
        <4>2. CASE pool[u] = "held"
          <5>1. run.result[u] \in Results \ {"none"} BY <1>0, <1>3, <4>2 DEF RunFields, Settle, Outcomes
          <5> QED BY <4>2, <5>1 DEF Final, Results, Ends
        <4>3. CASE pool[u] \in {"out", "done"} BY <1>3, <4>3 DEF Settle, Outcomes
        <4> QED BY <4>1, <4>2, <4>3
      <3>4. \A u \in Units : Final(run'.out[u]) BY <3>1, <3>3
      <3>5. run'.status # "completed" BY <1>3, <2>1, <3>1 DEF Outcomes, Up, Settle
      <3> QED BY <2>1, <3>1, <3>2, <3>4, <3>5 DEF Outcomes, Up, Ending
    <2> QED BY <1>3, <1>a, <2>1 DEF Settle, End
  <1>4. CASE Merge
    <2>1. PICK merged : Write([run EXCEPT !.merged = merged]) BY <1>4 DEF Merge
    <2>2. run'.out = run.out /\ run'.status = run.status /\ run'.gated = run.gated
      BY <1>0, <2>1 DEF Write, Store, RunFields, RunRec
    <2> QED BY <1>4, <2>2 DEF Merge, Outcomes, Up, Ending
  <1>5. CASE Complete BY <1>5, <1>a DEF Complete, End
  <1> QED BY <1>1, <1>2, <1>3, <1>4, <1>5

LEMMA OutcomesOfEnd ==
  ASSUME Typed, Outcomes, phase = "units", phase' = phase, UNCHANGED hist, NEW u \in Units,
         NEW outcome \in Ends \cup {"abandoned"}, UnitEnds(u, outcome)
  PROVE  Outcomes'
  <1>0. RunFields /\ RestType BY Fields
  <1>1. Final(outcome) /\ outcome # "none" BY DEF Final, Ends
  <1>2. CASE run.brain
    <2>1. /\ run'.out = [run.out EXCEPT ![u] = outcome] /\ run'.result = run.result /\ run'.status = run.status
          /\ run'.gated = run.gated
      BY <1>0, <1>2 DEF UnitEnds, Write, Store, RunFields, RunRec
    <2>2. pool' = [pool EXCEPT ![u] = "done"] BY <1>2 DEF UnitEnds
    <2>3. \A x \in Units : /\ pool'[x] \in {"done", "out"} => Final(run'.out[x])
                           /\ pool'[x] = "held" => run'.result[x] # "none"
      BY <1>0, <1>1, <2>1, <2>2 DEF Outcomes, RestType, RunFields
    <2> QED BY <2>1, <2>3 DEF Outcomes, Up, Ending
  <1>3. CASE ~run.brain
    <2>1. /\ run'.out = run.out /\ run'.result = [run.result EXCEPT ![u] = outcome] /\ run'.status = run.status
          /\ run'.gated = run.gated
      BY <1>0, <1>3 DEF UnitEnds, RunFields, RunRec
    <2>2. pool' = [pool EXCEPT ![u] = "held"] BY <1>3 DEF UnitEnds
    <2>3. \A x \in Units : /\ pool'[x] \in {"done", "out"} => Final(run'.out[x])
                           /\ pool'[x] = "held" => run'.result[x] # "none"
      BY <1>0, <1>1, <2>1, <2>2 DEF Outcomes, RestType, RunFields
    <2> QED BY <2>1, <2>3 DEF Outcomes, Up, Ending
  <1> QED BY <1>2, <1>3

LEMMA OutcomesAsk ==
  ASSUME Typed, Outcomes, Up, NEW o \in Owners, NEW unit \in Owners, NEW stale \in Nat, Ask(o, unit, stale)
  PROVE  /\ run'.out = run.out /\ run'.result = run.result /\ run'.mine = run.mine /\ run'.gated = run.gated
         /\ run'.stale = run.stale /\ run'.status # "completed"
  <1>0. RunFields /\ RestType BY Fields
  <1>1. run' = [run EXCEPT !.seq = run'.seq, !.decs = run'.decs] BY AskSlots
  <1>2. run.status # "completed" BY DEF Outcomes
  <1> QED BY <1>0, <1>1, <1>2 DEF RunFields, RunRec

LEMMA OutcomesUnit ==
  ASSUME Typed, Askers, Outcomes, NEW u \in Units, Begin(u) \/ RoleReturns(u) \/ Finish(u) \/ Judge(u) \/ Apply(u)
  PROVE  Outcomes'
  <1>0. RunFields /\ RestType BY Fields
  <1>a. phase = "units" /\ phase' = phase BY DEF Begin, RoleReturns, Finish, Judge, Apply, Askers
  <1>1. CASE Begin(u)
    <2>1. CASE pool' = [pool EXCEPT ![u] = "work"] /\ UNCHANGED <<run, disk, hist>>
      BY <1>0, <1>a, <2>1 DEF Outcomes, Up, Ending, RestType
    <2>2. CASE /\ pool' = [pool EXCEPT ![u] = "done"]
               /\ Write([run EXCEPT !.out[u] = "error", !.gated = Aborts(TRUE)])
      <3>0. run' = [run EXCEPT !.out[u] = "error", !.gated = Aborts(TRUE)] /\ disk' = Store(run') BY <2>2 DEF Write
      <3>1. /\ run'.out = [run.out EXCEPT ![u] = "error"] /\ run'.result = run.result /\ run'.status = run.status
        BY <1>0, <3>0 DEF RunFields, RunRec
      <3>1a. run'.gated
        <4>1. run'.gated = Aborts(TRUE) BY <1>0, <3>0 DEF RunFields, RunRec
        <4> QED BY <4>1 DEF Aborts
      <3>2. \A x \in Units : /\ pool'[x] \in {"done", "out"} => Final(run'.out[x])
                             /\ pool'[x] = "held" => run'.result[x] # "none"
        BY <1>0, <1>a, <2>2, <3>1 DEF Outcomes, RestType, RunFields, Final
      <3> QED BY <1>a, <3>1, <3>1a, <3>2 DEF Outcomes, Up, Ending
    <2> QED BY <1>1, <2>1, <2>2 DEF Begin
  <1>2. CASE RoleReturns(u)
    <2>1. /\ run'.out = [run.out EXCEPT ![u] = "running"] /\ run'.result = run.result /\ run'.status = run.status
          /\ run'.gated = run.gated
      BY <1>0, <1>2 DEF RoleReturns, Write, Store, RunFields, RunRec
    <2>2. pool' = pool /\ pool[u] = "work" /\ hist' = hist BY <1>2 DEF RoleReturns
    <2>3. \A x \in Units : /\ pool'[x] \in {"done", "out"} => Final(run'.out[x])
                           /\ pool'[x] = "held" => run'.result[x] # "none"
      BY <1>0, <1>a, <2>1, <2>2 DEF Outcomes, RunFields
    <2> QED BY <1>a, <2>1, <2>2, <2>3 DEF Outcomes, Up, Ending
  <1>3. CASE Finish(u) BY <1>3, <1>a, OutcomesOfEnd DEF Finish
  <1>4. CASE Judge(u)
    <2>1. Ask(u, u, 0) /\ pool' = [pool EXCEPT ![u] = "asking"] /\ hist' = hist BY <1>4 DEF Judge
    <2>2. /\ run'.out = run.out /\ run'.result = run.result /\ run'.gated = run.gated
          /\ run'.status # "completed"
      BY <1>a, <2>1, OutcomesAsk, OwnersAndUnits DEF Up
    <2> QED BY <1>0, <1>a, <2>1, <2>2 DEF Outcomes, Up, Ending, RestType
  <1>5. CASE Apply(u)
    <2>1. CASE pool' = [pool EXCEPT ![u] = "work"] /\ UNCHANGED <<run, disk>>
      BY <1>0, <1>a, <1>5, <2>1 DEF Apply, Outcomes, Up, Ending, RestType
    <2>2. "accepted" \in Ends \cup {"abandoned"} /\ "abandoned" \in Ends \cup {"abandoned"} BY DEF Ends
    <2>3. hist' = hist BY <1>5 DEF Apply
    <2> QED BY <1>a, <1>5, <2>1, <2>2, <2>3, OutcomesOfEnd DEF Apply
  <1> QED BY <1>1, <1>2, <1>3, <1>4, <1>5

LEMMA OutcomesAnswer == ASSUME Typed, Askers, Outcomes, NEW o \in Owners, Answer(o) PROVE Outcomes'
  <1>0. RunFields /\ RestType BY Fields
  <1>1. PICK answer \in Options(slot[o].unit) : Resolve(o, answer) BY DEF Answer
  <1>2. Open(o) /\ UNCHANGED <<pool, hist>> /\ Up /\ phase' = IF phase = "landing" THEN "complete" ELSE phase
    BY OwnersAndUnits DEF Answer, Open, Askers, Up
  <1> DEFINE s == slot[o]
             verdict == CASE answer = "abandon" -> "abandoned"
                   [] answer = "accept" /\ run.result[s.unit] = "none" -> "accepted"
                   [] OTHER -> IF s.unit = 0 THEN "none" ELSE run.result[s.unit]
             result == IF s.stale = 0 THEN run.result ELSE [run.result EXCEPT ![s.unit] = verdict]
  <1>3. PICK decs, stale : Write([run EXCEPT !.decs = decs, !.stale = stale, !.result = result]) BY <1>1 DEF Resolve
  <1>4. phase = "units" => result = run.result BY <1>2, OwnersAndUnits DEF Askers, Open
  <1>5. phase = "recover" => \A u \in Units : result[u] \in {"none", "accepted", "abandoned"}
    <2> SUFFICES ASSUME phase = "recover", NEW u \in Units PROVE result[u] \in {"none", "accepted", "abandoned"}
      OBVIOUS
    <2>1. \A x \in Units : run.result[x] \in {"none", "accepted", "abandoned"} BY DEF Outcomes
    <2>2. CASE s.stale = 0 BY <2>1, <2>2
    <2>3. CASE s.stale # 0
      <3>1. s.unit \in Units BY <1>0, <1>2, <2>3, OwnersAndUnits DEF Askers, Open, RestType, Asks
      <3>2. verdict \in {"none", "accepted", "abandoned"} BY <2>1, <3>1
      <3>3. result[u] = IF u = s.unit THEN verdict ELSE run.result[u] BY <1>0, <2>3 DEF RunFields
      <3> HIDE DEF verdict, result
      <3> QED BY <2>1, <3>2, <3>3
    <2> QED BY <2>2, <2>3
  <1> HIDE DEF result
  <1>6. /\ run'.out = run.out /\ run'.result = result /\ run'.mine = run.mine /\ run'.gated = run.gated
        /\ run'.status = run.status
    BY <1>0, <1>3 DEF Write, Store, RunFields, RunRec
  <1> QED BY <1>2, <1>4, <1>5, <1>6 DEF Outcomes, Up, Ending

LEMMA OutcomesRest ==
  ASSUME Typed, Askers, Outcomes,
         Land \/ Recover \/ Reenter \/ Kill \/ Resume \/ Decide \/ DecideReads \/ DecideWrites
         \/ \E o \in Owners : Park(o)
  PROVE  Outcomes'
  <1>0. RunFields /\ RestType BY Fields
  <1>1. CASE Land
    <2>1. CASE UNCHANGED <<run, slot, disk>> BY <1>1, <2>1 DEF Land, Outcomes, Up, Ending
    <2>2. CASE Ask(0, 0, 0) /\ phase' = "landing"
      <3>1. /\ run'.out = run.out /\ run'.gated = run.gated /\ run'.status # "completed"
        BY <1>1, <2>2, OutcomesAsk, OwnersAndUnits DEF Land, Up
      <3> QED BY <1>1, <2>2, <3>1 DEF Land, Outcomes, Up, Ending
    <2> QED BY <1>1, <2>1, <2>2 DEF Land
  <1>2. CASE Recover
    <2>1. PICK d \in run.stale : Ask(0, d.unit, d.seq) BY <1>2 DEF Recover
    <2>2. d.unit \in Owners /\ d.seq \in Nat \ {0} BY <1>0 DEF RunFields, UnitDecs, Decs
    <2>3. /\ run'.out = run.out /\ run'.result = run.result /\ run'.mine = run.mine
          /\ run'.status # "completed"
      BY <1>2, <2>1, <2>2, OutcomesAsk, OwnersAndUnits DEF Recover, Up
    <2> QED BY <1>2, <2>3 DEF Recover, Outcomes, Up, Ending
  <1>3. CASE Reenter
    <2> DEFINE stopped == {u \in run.mine : run.result[u] # "none"}
               active  == run.mine \ stopped
               out == [x \in Units |-> CASE x \in stopped -> run.result[x]
                                          [] x \in active  -> "pending"
                                          [] OTHER         -> run.out[x]]
    <2>1. Write([run EXCEPT !.out = out, !.result = NewRun.result]) BY <1>3 DEF Reenter
    <2>2. pool' = [x \in Units |-> IF x \in active THEN "queued" ELSE "out"] /\ phase = "recover" /\ phase' = "units" /\ hist' = hist
      BY <1>3 DEF Reenter
    <2>3. ASSUME NEW x \in Units, x \notin active PROVE Final(out[x])
      <3>1. CASE x \in stopped
        <4>1. out[x] = run.result[x] /\ run.result[x] \in {"accepted", "abandoned"} BY <2>2, <3>1 DEF Outcomes
        <4> QED BY <4>1 DEF Final
      <3>2. CASE x \notin stopped
        <4>1. out[x] = run.out[x] /\ run.out[x] \notin Resumable BY <2>2, <2>3, <3>2 DEF Outcomes
        <4> QED BY <4>1 DEF Final, Resumable
      <3> QED BY <3>1, <3>2
    <2>4. /\ run'.out = out /\ run'.status = run.status
      <3> HIDE DEF out
      <3> QED BY <1>0, <2>1 DEF Write, Store, RunFields, RunRec
    <2>5. \A u \in Units : /\ pool'[u] \in {"done", "out"} => Final(run'.out[u])
                           /\ pool'[u] = "held" => run'.result[u] # "none"
      <3> SUFFICES ASSUME NEW u \in Units
                   PROVE  /\ pool'[u] \in {"done", "out"} => Final(run'.out[u])
                          /\ pool'[u] = "held" => run'.result[u] # "none"
        OBVIOUS
      <3> HIDE DEF out, active
      <3> QED BY <2>2, <2>3, <2>4
    <2>6. ~hist'.gated BY <2>2 DEF Outcomes
    <2> QED BY <2>2, <2>4, <2>5, <2>6 DEF Outcomes, Up, Ending
  <1>4. CASE Kill BY <1>4 DEF Kill, Outcomes, Up, Ending
  <1>5. CASE Resume
    <2>1. PICK seq, surface, slots, stale :
            Write([NewRun EXCEPT !.status = "running", !.out = disk.out, !.decs = disk.decs,
                            !.merged = disk.merged, !.seq = seq, !.surface = surface, !.slots = slots,
                            !.mine = {u \in Units : disk.out[u] \in Resumable}, !.stale = stale])
      BY <1>5 DEF Resume
    <2>2. /\ run'.status = "running" /\ run'.out = disk.out
          /\ run'.mine = {u \in Units : disk.out[u] \in Resumable} /\ run'.result = NewRun.result
      BY <2>1 DEF Write, Store, NewRun
    <2>3. \A u \in Units : run'.result[u] = "none" BY <2>2 DEF NewRun
    <2>4. ~hist'.gated /\ phase' = "recover" BY <1>0, <1>5 DEF Resume, RestType
    <2> QED BY <2>2, <2>3, <2>4 DEF Outcomes, Up, Ending
  <1>6. CASE Decide BY <1>6 DEF Decide, Outcomes, Up, Ending
  <1>7. CASE DecideReads BY <1>7 DEF DecideReads, Outcomes, Up, Ending
  <1>7a. CASE DecideWrites
    <2>1. hist'.gated = hist.gated BY <1>0, <1>7a DEF DecideWrites, RestType
    <2> QED BY <1>7a, <2>1 DEF DecideWrites, Outcomes, Up, Ending
  <1>8. CASE \E o \in Owners : Park(o) BY <1>8 DEF Park, Outcomes, Up, Ending
  <1> QED BY <1>1, <1>2, <1>3, <1>4, <1>5, <1>6, <1>7, <1>7a, <1>8

Unanswered(d) == d.unit # 0 /\ d.answer = "none"

\* A step that leaves the records of the run, and the questions that are open, as they are.
LEMMA PendingQuiet ==
  ASSUME Typed, Askers, Pending, run'.decs = run.decs, Up,
         \A u \in Units : Open(u) => slot'[u] = slot[u],
         phase = "recover" => phase' = phase /\ run'.stale = run.stale /\ slot'[0] = slot[0]
  PROVE  Pending'
  <1>1. \A d \in run.decs : d.unit \in Owners BY DEF Typed, RunRec, Tables, Decs
  <1> QED BY <1>1, OwnersAndUnits DEF Pending, AnsweredFor, Open, Up

\* A new question answers for its own record and leaves the others to theirs.
LEMMA PendingAsk ==
  ASSUME Typed, Askers, Pending, Up, NEW o \in Owners, NEW unit \in Owners, NEW stale \in Nat,
         Ask(o, unit, stale), slot[o].st = "none", unit = o \/ phase = "recover",
         phase = "recover" => o = 0 /\ phase' = phase
  PROVE  Pending'
  <1>1. RunFields /\ RestType BY Fields
  <1>2. /\ slot'[o].st = "asking" /\ slot'[o].seq = run.seq + 1 /\ slot'[o].unit = unit /\ slot'[o].stale = stale
        /\ \A p \in Owners : p # o => slot'[p] = slot[p]
        /\ run'.decs = run.decs \cup {[seq |-> run.seq + 1, unit |-> unit, answer |-> "none"]}
        /\ run' = [run EXCEPT !.seq = run'.seq, !.decs = run'.decs]
    BY AskSlots
  <1>3. run'.stale = run.stale BY <1>1, <1>2 DEF RunFields, RunRec
  <1>4. ASSUME NEW d \in run'.decs, Unanswered(d) PROVE AnsweredFor(d)'
    <2>1. CASE d \in run.decs
      <3>1. d.unit \in Units BY <1>1, <1>4, <2>1, OwnersAndUnits DEF RunFields, Tables, Decs, Unanswered
      <3>2. AnsweredFor(d) BY <1>4, <2>1 DEF Pending, Unanswered
      <3>3. CASE Open(d.unit) /\ slot[d.unit].seq = d.seq
        <4>1. d.unit # o BY <3>3 DEF Open
        <4>2. slot'[d.unit] = slot[d.unit] BY <1>2, <3>1, <4>1, OwnersAndUnits
        <4> QED BY <3>3, <4>2 DEF AnsweredFor, Open
      <3>4. CASE phase = "recover" /\ d \in run.stale BY <1>3, <3>4 DEF AnsweredFor
      <3>5. CASE slot[0].st # "none" /\ phase = "recover" /\ slot[0].unit = d.unit /\ d.seq \in {slot[0].seq, slot[0].stale}
        BY <3>5
      <3> QED BY <3>2, <3>3, <3>4, <3>5 DEF AnsweredFor
    <2>2. CASE d \notin run.decs
      <3>1. d.seq = run.seq + 1 /\ d.unit = unit BY <1>2, <2>2
      <3>2. CASE unit = o BY <1>2, <3>1, <3>2 DEF AnsweredFor, Open
      <3>3. CASE phase = "recover" BY <1>2, <3>1, <3>3 DEF AnsweredFor
      <3> QED BY <3>2, <3>3
    <2> QED BY <2>1, <2>2
  <1> QED BY <1>4 DEF Pending, Unanswered

\* An answer settles the records its question answered for.
LEMMA PendingAnswer == ASSUME Typed, Askers, Pending, NEW o \in Owners, Answer(o) PROVE Pending'
  <1>0. RunFields /\ RestType BY Fields
  <1>1. PICK answer \in Options(slot[o].unit) :
          /\ Resolve(o, answer)
          /\ slot' = [slot EXCEPT ![o] = [NoAsk EXCEPT !.st = IF o = 0 THEN "none" ELSE "answered",
                                                       !.answer = IF o = 0 THEN "none" ELSE answer]]
    BY DEF Answer
  <1>2. \A p \in Owners : p # o => slot'[p] = slot[p] BY <1>0, <1>1 DEF RestType
  <1>3. /\ Open(o) /\ Up
        /\ phase = "recover" => phase' = phase
    BY OwnersAndUnits DEF Answer, Open, Askers, Up
  <1>5. /\ \A d \in run'.decs : \E e \in run.decs :
             /\ e.seq = d.seq /\ e.unit = d.unit
             /\ d.answer = "given" \/ (d = e /\ ~(e.unit = slot[o].unit /\ e.seq \in {slot[o].seq, slot[o].stale}))
        /\ run'.stale = run.stale \ {d \in run.stale : d.seq = slot[o].stale /\ d.unit = slot[o].unit}
    BY <1>1, ResolveDecs
  <1>6. ASSUME NEW d \in run'.decs, Unanswered(d) PROVE AnsweredFor(d)'
    <2>1. d \in run.decs /\ ~(d.unit = slot[o].unit /\ d.seq \in {slot[o].seq, slot[o].stale})
      BY <1>5, <1>6 DEF Unanswered
    <2>2. d.unit \in Units BY <1>0, <1>6, <2>1, OwnersAndUnits DEF RunFields, Tables, Decs, Unanswered
    <2>3. AnsweredFor(d) BY <1>3, <1>6, <2>1 DEF Pending, Unanswered
    <2>4. CASE Open(d.unit) /\ slot[d.unit].seq = d.seq
      <3>1. d.unit # o BY <1>3, <2>1, <2>2, <2>4 DEF Askers
      <3>2. slot'[d.unit] = slot[d.unit] BY <1>2, <2>2, <3>1, OwnersAndUnits
      <3> QED BY <2>4, <3>2 DEF AnsweredFor, Open
    <2>5. CASE phase = "recover" /\ d \in run.stale
      BY <1>3, <1>5, <2>1, <2>5 DEF AnsweredFor
    <2>6. CASE phase = "recover" /\ slot[0].st # "none" /\ slot[0].unit = d.unit /\ d.seq \in {slot[0].seq, slot[0].stale}
      <3>1. o = 0 BY <1>3, <2>6, OwnersAndUnits DEF Askers, Open
      <3> QED BY <2>1, <2>6, <3>1
    <2> QED BY <2>3, <2>4, <2>5, <2>6 DEF AnsweredFor
  <1> QED BY <1>6 DEF Pending, Unanswered

LEMMA PendingStep == ASSUME Typed, Askers, Pending, RunNext PROVE Pending'
  <1>0. RunFields /\ RestType BY Fields
  <1>1. CASE Start \/ Gates \/ Settle \/ Merge \/ Complete \/ (Land /\ Ready)
    <2>1. Quiet BY <1>1, QuietActions
    <2>2. UNCHANGED slot /\ phase # "recover" BY <1>1 DEF Start, Gates, Settle, Merge, Complete, Land
    <2> QED BY <2>1, <2>2, PendingQuiet DEF Quiet
  <1>2. CASE Land /\ ~Ready
    <2>1. Ask(0, 0, 0) /\ phase = "land" BY <1>2 DEF Land
    <2>2. slot[0].st = "none" BY <2>1 DEF Askers
    <2> QED BY <2>1, <2>2, PendingAsk, OwnersAndUnits DEF Up
  <1>3. CASE Reenter
    <2>1. \A u \in Units : ~Open(u) BY <1>3 DEF Reenter, Askers, Open
    <2>2. \A d \in run.decs : ~Unanswered(d)
      <3>1. \A d \in run.decs : Unanswered(d) => d.unit \in Units
        BY <1>0, OwnersAndUnits DEF RunFields, Tables, Decs, Unanswered
      <3> QED BY <1>3, <2>1, <3>1 DEF Reenter, Pending, AnsweredFor, Up, Unanswered
    <2>3. run'.decs = run.decs BY <1>3, QuietActions DEF Quiet
    <2> QED BY <2>2, <2>3 DEF Pending, Unanswered
  <1>4. ASSUME NEW u \in Units, Begin(u) \/ RoleReturns(u) \/ Finish(u) PROVE Pending'
    <2>1. Quiet BY <1>4, QuietActions
    <2>2. UNCHANGED slot /\ phase # "recover" BY <1>4 DEF Begin, RoleReturns, Finish
    <2> QED BY <2>1, <2>2, PendingQuiet DEF Quiet
  <1>5. ASSUME NEW u \in Units, Apply(u) PROVE Pending'
    <2>1. Quiet BY <1>5, QuietActions
    <2>2. \A v \in Units : Open(v) => slot'[v] = slot[v] BY <1>0, <1>5, OwnersAndUnits DEF Apply, RestType, Open
    <2>3. phase # "recover" BY <1>5 DEF Apply, Askers
    <2> QED BY <2>1, <2>2, <2>3, PendingQuiet DEF Quiet
  <1>6. ASSUME NEW u \in Units, Judge(u) PROVE Pending'
    <2>1. Ask(u, u, 0) /\ phase = "units" /\ phase' = phase /\ pool[u] = "work" BY <1>6 DEF Judge
    <2>2. slot[u].st = "none" BY <2>1 DEF Askers
    <2> QED BY <2>1, <2>2, PendingAsk, OwnersAndUnits DEF Up
  <1>7. CASE Recover
    <2>1. PICK d \in run.stale : Ask(0, d.unit, d.seq) BY <1>7 DEF Recover
    <2>2. d.unit \in Owners /\ d.seq \in Nat BY <1>0 DEF RunFields, UnitDecs, Decs
    <2> QED BY <1>7, <2>1, <2>2, PendingAsk, OwnersAndUnits DEF Recover, Up
  <1>8. ASSUME NEW o \in Owners, Park(o) PROVE Pending'
    <2>1. slot'[o] = [slot[o] EXCEPT !.st = "parked"] /\ \A p \in Owners : p # o => slot'[p] = slot[p]
      BY <1>0, <1>8 DEF Park, RestType
    <2>2. slot[o] \in Asks /\ slot[o].st = "asking" BY <1>0, <1>8 DEF Park, RestType
    <2>3. slot'[o].st = "parked" /\ slot'[o].unit = slot[o].unit /\ slot'[o].stale = slot[o].stale /\ slot'[o].seq = slot[o].seq
      BY <2>1, <2>2 DEF Asks
    <2>4. \A d \in run.decs : d.unit \in Owners BY <1>0 DEF RunFields, Tables, Decs
    <2>5. \A d \in run.decs : AnsweredFor(d) => AnsweredFor(d)'
      BY <1>8, <2>1, <2>2, <2>3, <2>4, OwnersAndUnits DEF Park, AnsweredFor, Open
    <2> QED BY <1>8, <2>5 DEF Park, Pending, Up
  <1>9. ASSUME NEW o \in Owners, Answer(o) PROVE Pending' BY <1>9, PendingAnswer
  <1>10. CASE Kill BY <1>10 DEF Kill, Pending, Up
  <1>11. CASE Resume
    <2>1. PICK s : Write([NewRun EXCEPT !.status = "running", !.out = disk.out, !.decs = disk.decs,
                            !.merged = disk.merged, !.seq = MaxSeqOf(disk.decs), !.surface = s[1], !.slots = s[2],
                            !.mine = {u \in Units : disk.out[u] \in Resumable},
                            !.stale = Stale(disk.decs)])
      BY <1>11 DEF Resume
    <2>2. run'.decs = disk.decs /\ run'.stale = Stale(disk.decs) BY <2>1 DEF Write, NewRun
    <2>3. phase' = "recover" BY <1>11 DEF Resume
    <2> QED BY <2>2, <2>3 DEF Pending, AnsweredFor, Stale
  <1>12. CASE Decide BY <1>12 DEF Decide, Pending, AnsweredFor, Open, Up
  <1>13. CASE DecideReads \/ DecideWrites BY <1>13 DEF DecideReads, DecideWrites, Pending, AnsweredFor, Open, Up
  <1> QED BY <1>1, <1>2, <1>3, <1>4, <1>5, <1>6, <1>7, <1>8, <1>9, <1>10, <1>11, <1>12, <1>13 DEF RunNext, Process, Unit

\* What run.json says of a run that is completed, which the copy that an answerer has read says too.
Whole(doc) ==
  doc.status = "completed" => /\ \A u \in Units : Final(doc.out[u])
                              /\ \A d \in doc.decs : d.unit # 0 => d.answer # "none"

Closed == /\ run.status = "completed" => ~hist.gated
          /\ Whole(disk)
          /\ cli.pc = "write" => Whole(cli.doc)

\* The inductive invariant.
Settled == Typed /\ Askers /\ Numbers /\ Records /\ Outcomes /\ Pending /\ Closed

LEMMA SettledInit == RunInit => Settled
  <1> SUFFICES ASSUME RunInit PROVE Settled OBVIOUS
  <1>1. Typed BY TypedInit
  <1>2. \A o \in Owners : slot[o] = NoAsk BY DEF RunInit
  <1>3. PICK b, s : run = [NewRun EXCEPT !.brain = b, !.surface = s[1], !.slots = s[2]] BY DEF RunInit, Started
  <1>4. run.decs = {} /\ run.status = "none" /\ disk.decs = {} /\ disk.status = "none" /\ cli.pc = "idle"
    BY <1>3 DEF RunInit, NewRun, Store, NoDecide
  <1>5. files.req = {} /\ phase = "start" /\ ~hist.gated /\ \A u \in Units : pool[u] = "queued" BY DEF RunInit
  <1> QED BY <1>1, <1>2, <1>4, <1>5, OwnersAndUnits
    DEF Settled, Askers, Numbers, Records, Outcomes, Pending, Closed, Whole, NoAsk, Open, Up, Ending

\* Only Complete says that a run is completed, and only an answer is added to what it settled.
LEMMA ClosedStep == ASSUME Settled, RunNext, Outcomes' PROVE Closed'
  <1>0. Typed /\ RunFields /\ RestType BY Fields DEF Settled
  <1>1. CASE Complete
    <2>1. Write([run EXCEPT !.status = "completed"]) /\ UNCHANGED <<hist, cli>> BY <1>1 DEF Complete, End
    <2>2. disk'.out = run.out /\ disk'.decs = run.decs BY <1>0, <2>1 DEF Write, Store, RunFields, RunRec
    <2>3. phase = "complete" BY <1>1 DEF Complete
    <2>4. \A u \in Units : Final(run.out[u]) /\ ~Open(u) BY <2>3 DEF Settled, Outcomes, Ending, Askers, Open
    <2>5. \A d \in run.decs : d.unit # 0 => d.unit \in Units BY <1>0, OwnersAndUnits DEF RunFields, Tables, Decs
    <2>6. \A d \in run.decs : d.unit # 0 => d.answer # "none"
      BY <2>3, <2>4, <2>5 DEF Settled, Pending, AnsweredFor, Up
    <2>7. ~hist.gated BY <2>3 DEF Settled, Outcomes
    <2> QED BY <2>1, <2>2, <2>4, <2>6, <2>7 DEF Closed, Whole, Settled
  <1>2. CASE DecideReads
    <2>1. cli'.doc = disk /\ UNCHANGED <<run, disk, hist>> BY <1>0, <1>2 DEF DecideReads, RestType
    <2> QED BY <2>1 DEF Closed, Whole, Settled
  <1>3. CASE DecideWrites
    <2>1. cli.doc \in DiskRec /\ cli.doc.decs \in Tables /\ cli.seq \in Nat \ {0} /\ cli.unit \in Owners
      BY <1>0, <1>3 DEF DecideWrites, RestType, DiskRec
    <2>2. /\ disk'.decs = Applied(cli.doc.decs) /\ disk'.status = cli.doc.status /\ disk'.out = cli.doc.out
      BY <1>3, <2>1 DEF DecideWrites, DiskRec
    <2>3. \A e \in disk'.decs : e \in cli.doc.decs \/ e.answer # "none" BY <2>1, <2>2, AppliedType
    <2>4. Whole(disk)' BY <1>3, <2>2, <2>3 DEF DecideWrites, Closed, Whole, Settled
    <2>5. run' = run /\ hist'.gated = hist.gated /\ cli'.pc = "idle" BY <1>0, <1>3 DEF DecideWrites, RestType, NoDecide
    <2> QED BY <2>4, <2>5 DEF Closed, Settled
  <1>4. CASE Up /\ ~Complete /\ ~DecideReads /\ ~DecideWrites
    <2>1. run'.status # "completed"
      <3>1. CASE phase' # "down" BY <3>1 DEF Outcomes, Up
      <3>2. CASE Start
        <4>1. /\ [run EXCEPT !.status = "error"].status = "error" /\ [run EXCEPT !.status = "running"].status = "running"
              /\ \A out : [run EXCEPT !.status = "dry-run", !.out = out].status = "dry-run"
          BY <1>0 DEF RunFields, RunRec
        <4>2. \/ run' = [run EXCEPT !.status = "error"] \/ run' = [run EXCEPT !.status = "running"]
              \/ run' = [run EXCEPT !.status = "dry-run", !.out = [x \in Units |-> "dry-run"]]
          BY <3>2 DEF Start, End, Write
        <4> QED BY <4>1, <4>2
      <3>3. CASE Gates /\ phase' = "down"
        <4>1. PICK u \in Units : run' = [run EXCEPT !.status = "error", !.out[u] = "error"]
          BY <3>3 DEF Gates, End, Write
        <4>2. [run EXCEPT !.status = "error", !.out[u] = "error"].status = "error" BY <1>0 DEF RunFields, RunRec
        <4> QED BY <4>1, <4>2
      <3>4. CASE Settle /\ phase' = "down"
        <4>1. run' = [run EXCEPT !.status = "error"] BY <3>4 DEF Settle, End, Write
        <4>2. [run EXCEPT !.status = "error"].status = "error" BY <1>0 DEF RunFields, RunRec
        <4> QED BY <4>1, <4>2
      <3>5. CASE Kill BY <3>5 DEF Kill, NewRun
      <3>6. CASE ~(Start \/ Gates \/ Settle \/ Kill)
        <4>1. phase' # "down"
          <5>1. CASE Merge \/ Land \/ Recover \/ Reenter \/ Resume \/ Decide
            BY <1>4, <5>1 DEF Merge, Land, Recover, Reenter, Resume, Decide, Up
          <5>2. ASSUME NEW u \in Units, Unit(u) PROVE phase' # "down"
            BY <1>4, <5>2 DEF Unit, Begin, RoleReturns, Finish, Judge, Apply, Up
          <5>3. ASSUME NEW o \in Owners, Park(o) \/ Answer(o) PROVE phase' # "down"
            BY <1>4, <5>3 DEF Park, Answer, Up
          <5> QED BY <1>4, <3>6, <5>1, <5>2, <5>3 DEF RunNext, Process
        <4> QED BY <3>1, <4>1
      <3> QED BY <3>1, <3>2, <3>3, <3>4, <3>5, <3>6
    <2>2. disk' = disk \/ disk'.status = run'.status
      <3>1. ASSUME NEW r \in RunRec, Write(r) PROVE disk'.status = run'.status BY <3>1 DEF Write, Store
      <3>2. ASSUME NEW r, Write(r) PROVE disk'.status = run'.status BY <3>2 DEF Write, Store
      <3>3. ASSUME NEW u \in Units, Unit(u) PROVE disk' = disk \/ disk'.status = run'.status
        BY <3>2, <3>3 DEF Unit, Begin, RoleReturns, Finish, Judge, Apply, UnitEnds, Ask
      <3>4. ASSUME NEW o \in Owners, Park(o) \/ Answer(o) PROVE disk' = disk \/ disk'.status = run'.status
        BY <3>2, <3>4 DEF Park, Answer, Resolve
      <3>5. CASE Start \/ Gates \/ Settle \/ Merge \/ Land \/ Recover \/ Reenter \/ Kill \/ Resume \/ Decide
        BY <3>2, <3>5 DEF Start, Gates, Settle, Merge, Land, Recover, Reenter, Kill, Resume, Decide, End, Ask
      <3> QED BY <1>4, <3>3, <3>4, <3>5 DEF RunNext, Process
    <2>3. cli' = cli \/ cli'.pc = "read"
      <3>1. CASE Decide BY <3>1 DEF Decide, NoDecide
      <3>2. CASE ~Decide
        BY <1>4, <3>2 DEF RunNext, Process, Unit, Start, Gates, Settle, Merge, Land, Recover, Reenter, Begin, RoleReturns,
          Finish, Judge, Apply, Park, Answer, Kill, Resume
      <3> QED BY <3>1, <3>2
    <2> QED BY <2>1, <2>2, <2>3 DEF Closed, Whole, Settled
  <1>5. CASE phase = "down" /\ ~DecideReads /\ ~DecideWrites
    <2>1. Resume \/ Decide
      <3>1. ASSUME NEW u \in Units PROVE ~Unit(u)
        BY <1>0, <1>5 DEF Unit, Begin, RoleReturns, Finish, Judge, Apply, Settled, Askers
      <3>2. ASSUME NEW o \in Owners PROVE ~Park(o) /\ ~Answer(o)
        BY <1>5, OwnersAndUnits DEF Park, Answer, Settled, Askers
      <3> QED BY <1>5, <3>1, <3>2 DEF RunNext, Process, Start, Gates, Settle, Merge, Land, Complete, Recover, Reenter, Kill
    <2>2. CASE Decide
      <3>1. UNCHANGED <<run, disk, hist>> /\ cli'.pc = "read" BY <2>2 DEF Decide, NoDecide
      <3> QED BY <3>1 DEF Settled, Closed, Whole
    <2>3. CASE Resume
      <3>1. run'.status # "completed" BY <2>3 DEF Resume, Outcomes, Up
      <3>2. disk'.status = run'.status /\ cli' = cli BY <2>3 DEF Resume, Write, Store
      <3> QED BY <3>1, <3>2 DEF Settled, Closed, Whole
    <2> QED BY <2>1, <2>2, <2>3
  <1> QED BY <1>1, <1>2, <1>3, <1>4, <1>5 DEF Up

LEMMA SettledStep == ASSUME Settled, [RunNext]_runVars PROVE Settled'
  <1> USE DEF Settled
  <1>1. CASE RunNext
    <2>1. Typed'
      <3>1. ASSUME NEW u \in Units, Unit(u) PROVE Typed' BY <3>1, TypedByUnit DEF Unit
      <3>2. ASSUME NEW o \in Owners, Park(o) \/ Answer(o) PROVE Typed' BY <3>2, TypedByQuestion
      <3> QED BY <1>1, <3>1, <3>2, TypedByStart, TypedByLanding, TypedByOutside DEF RunNext, Process
    <2>2. Askers'
      <3>1. ASSUME NEW u \in Units, Unit(u) PROVE Askers' BY <3>1, AskersUnit DEF Unit
      <3> QED BY <1>1, <3>1, AskersStart, AskersRest DEF RunNext, Process
    <2>3. Numbers' /\ Records'
      <3>1. ASSUME NEW u \in Units, Unit(u) PROVE Numbers' /\ Records'
        <4>1. CASE Judge(u)
          <5>1. Ask(u, u, 0) /\ Up /\ UNCHANGED <<files, hist>> BY <4>1 DEF Judge, Up
          <5> QED BY <5>1, AskKeeps, OwnersAndUnits
        <4>2. CASE ~Judge(u)
          <5>1. Quiet BY <3>1, <4>2, QuietActions DEF Unit
          <5> QED BY <5>1, QuietKeeps
        <4> QED BY <4>1, <4>2
      <3>2. ASSUME NEW o \in Owners, Park(o) \/ Answer(o) PROVE Numbers' /\ Records'
        BY <3>2, ParkKeeps, AnswerKeeps
      <3>3. CASE Start \/ Gates \/ Settle \/ Merge \/ Complete \/ Reenter
        BY <3>3, QuietActions, QuietKeeps
      <3>4. CASE Land
        <4>1. CASE Ready BY <3>4, <4>1, QuietActions, QuietKeeps
        <4>2. CASE ~Ready
          <5>1. Ask(0, 0, 0) /\ Up /\ UNCHANGED <<files, hist>> BY <3>4, <4>2 DEF Land, Up
          <5> QED BY <5>1, AskKeeps, OwnersAndUnits
        <4> QED BY <4>1, <4>2
      <3>5. CASE Recover
        <4>1. PICK d \in run.stale : Ask(0, d.unit, d.seq) BY <3>5 DEF Recover
        <4>2. d.unit \in Owners /\ d.seq \in Nat BY Fields DEF RunFields, UnitDecs, Decs
        <4>3. Up /\ UNCHANGED <<files, hist>> BY <3>5 DEF Recover, Up
        <4> QED BY <4>1, <4>2, <4>3, AskKeeps, OwnersAndUnits
      <3> QED BY <1>1, <3>1, <3>2, <3>3, <3>4, <3>5, KillKeeps, ResumeKeeps, DecideKeeps DEF RunNext, Process
    <2>4. Outcomes'
      <3>1. ASSUME NEW u \in Units, Unit(u) PROVE Outcomes' BY <3>1, OutcomesUnit DEF Unit
      <3>2. ASSUME NEW o \in Owners, Answer(o) PROVE Outcomes' BY <3>2, OutcomesAnswer
      <3> QED BY <1>1, <3>1, <3>2, OutcomesStart, OutcomesRest DEF RunNext, Process
    <2>5. Pending' BY <1>1, PendingStep
    <2>6. Closed' BY <1>1, <2>4, ClosedStep
    <2> QED BY <2>1, <2>2, <2>3, <2>4, <2>5, <2>6
  <1>2. CASE UNCHANGED runVars
    BY <1>2 DEF runVars, Typed, RestType, Askers, Numbers, Records, Outcomes, Pending, AnsweredFor, Closed, Whole, Known, Open, Up,
          Ending
  <1> QED BY <1>1, <1>2

\* A run that says it is completed is settled, for any number of units, processes and questions,
\* whatever is killed, resumed and written back from an older copy meanwhile.
THEOREM CompletedRunsAreSettled == RunSpec => []CompletedMeansSettled
  <1>1. Settled => CompletedMeansSettled BY DEF Settled, Closed, Whole, Final, CompletedMeansSettled
  <1> QED BY <1>1, SettledInit, SettledStep, PTL DEF RunSpec

\* No later question takes the place of the request of a unit, as long as no answerer has dropped its
\* number from run.json.
THEOREM UnitRequestsAreKept == RunSpec => UnitRequestsKept
  <1>1. ASSUME Settled, [RunNext]_runVars 
        PROVE  [\A q \in files.req : q.unit # 0 /\ q.seq \notin hist.dropped => q \in files'.req]_runVars
    <2>0. RunFields /\ RestType BY <1>1, Fields DEF Settled
    <2>1. CASE \E o \in Owners : Park(o) BY <1>1, <2>1, ParkKeeps DEF Settled
    <2>2. CASE Decide BY <2>0, <2>2 DEF Decide, RestType
    <2>3. CASE RunNext /\ ~Decide /\ ~\E o \in Owners : Park(o)
      <3>1. files' = files
        BY <2>3 DEF RunNext, Process, Unit, Start, Gates, Settle, Merge, Land, Complete, Recover, Reenter, Begin, RoleReturns,
          Finish, Judge, Apply, Answer, Kill, Resume, DecideReads, DecideWrites
      <3> QED BY <3>1
    <2>4. CASE UNCHANGED runVars BY <2>4 DEF runVars
    <2> QED BY <1>1, <2>1, <2>2, <2>3, <2>4
  <1> QED BY <1>1, SettledInit, SettledStep, PTL DEF RunSpec, UnitRequestsKept
=============================================================================
