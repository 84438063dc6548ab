--------------------------- MODULE UnitTrees_proofs ---------------------------
(***************************************************************************)
(* What ensureUnitWorktree and removeUnitWorktree keep, for any number of    *)
(* names and processes, calls, kills and steps of the user, although every    *)
(* process writes back the whole of a registry it may have read long ago.     *)
(***************************************************************************)
EXTENDS UnitTrees, TLAPS

Places == {"none", "ensure", "add", "register", "reused", "refused", "remove", "worktree", "branch", "drop"}

Calls == [name : Names \cup {"none"}, at : Places, verify : BOOLEAN, repair : BOOLEAN, force : BOOLEAN]

Typed ==
  /\ disk \subseteq Names /\ mem \in [Procs -> SUBSET Names]
  /\ call \in [Procs -> Calls]
  /\ \A p \in Procs : ~At(p, "none") => N(p) \in Names
  /\ dir \in [Names -> {"none", "live", "off", "foreign"}]
  /\ dirty \subseteq Names /\ listed \subseteq Names
  /\ branch \in [Names -> {"none", "merged", "ahead"}]
  /\ count \in [calls : Nat, user : Nat, kills : Nat, removed : SUBSET Names]

\* A removal past its checks has noted its name, so that what follows speaks of the names
\* no removal went ahead with.
Noted == \A p \in Procs :
  call[p].at \in {"worktree", "branch", "drop"} => N(p) \in count.removed

Untouched(n) == count.user = 0 /\ n \notin count.removed

\* A name that is registered anywhere, or about to be, has its live worktree.  The registry on
\* disk alone is not inductive: a process may write back what it has in memory.
Known == \A n \in Names : Untouched(n) =>
  /\ n \in disk => Live(n)
  /\ \A p \in Procs : n \in mem[p] \/ (At(p, "register") /\ N(p) = n) => Live(n)

\* A branch exists only with its worktree, and a refusal met something foreign.
Whole == \A n \in Names : Untouched(n) =>
  /\ branch[n] # "none" => Live(n)
  /\ dir[n] # "off"
  /\ \A p \in Procs : At(p, "refused") /\ N(p) = n => dir[n] = "foreign"

Inv == Typed /\ Noted /\ Known /\ Whole

-----------------------------------------------------------------------------
(* Typing. *)

LEMMA NoCallFacts == NoCall \in Calls /\ NoCall.at = "none" /\ ~NoCall.force
  BY DEF NoCall, Calls, Places

\* The end of a call and its next place change the record of one process only.
LEMMA OverFacts ==
  ASSUME call \in [Procs -> Calls], NEW p \in Procs, Over(p)
  PROVE  /\ call' \in [Procs -> Calls] /\ call'[p].at = "none" /\ ~call'[p].force
         /\ \A q \in Procs \ {p} : call'[q] = call[q]
  BY NoCallFacts DEF Over

LEMMA GoFacts ==
  ASSUME call \in [Procs -> Calls], NEW p \in Procs, NEW a \in Places, Go(p, a)
  PROVE  /\ call' \in [Procs -> Calls]
         /\ call'[p].at = a /\ call'[p].name = call[p].name /\ call'[p].force = call[p].force
         /\ \A q \in Procs \ {p} : call'[q] = call[q]
  BY DEF Go, Calls

LEMMA InitTyped == Init => Typed
  BY NoCallFacts DEF Init, Typed, At, N

LEMMA NextTyped == Typed /\ [Next]_vars => Typed'
  <1> SUFFICES ASSUME Typed, [Next]_vars PROVE Typed'
    OBVIOUS
  <1> USE DEF Typed, At, N, Places
  <1>1. ASSUME NEW p \in Procs, Call(p) PROVE Typed'
    <2>1. PICK n \in Names, a \in {"ensure", "remove"}, verify \in BOOLEAN, force \in BOOLEAN, fresh \in BOOLEAN :
            /\ call' = [call EXCEPT ![p] = [name |-> n, at |-> a, verify |-> verify, repair |-> FALSE, force |-> force]]
            /\ mem' = [mem EXCEPT ![p] = IF fresh THEN disk ELSE @]
      BY <1>1 DEF Call
    <2>2. call' \in [Procs -> Calls] /\ call'[p].name = n /\ \A q \in Procs \ {p} : call'[q] = call[q]
      BY <2>1 DEF Calls
    <2>3. count' \in [calls : Nat, user : Nat, kills : Nat, removed : SUBSET Names]
      BY <1>1 DEF Call
    <2> QED BY <1>1, <2>1, <2>2, <2>3 DEF Call, Git
  <1>2. ASSUME NEW p \in Procs, SaveOther(p) PROVE Typed'
    BY <1>2 DEF SaveOther, Save, Git
  <1>3. ASSUME NEW p \in Procs, Step(p) PROVE Typed'
    <2>1. CASE Reuse(p) \/ Adopt(p) \/ Refuse(p) \/ Create(p)
      BY <2>1, GoFacts DEF Reuse, Adopt, Refuse, Create, Git
    <2>2. CASE Stale(p)
      <3>1. call' \in [Procs -> Calls] /\ \A q \in Procs : call'[q].at = call[q].at /\ call'[q].name = call[q].name
        BY <2>2 DEF Stale, Calls
      <3>2. mem' \in [Procs -> SUBSET Names] /\ listed' \subseteq Names /\ UNCHANGED <<disk, dir, dirty, branch, count>>
        BY <2>2 DEF Stale
      <3> QED BY <3>1, <3>2
    <2>3. CASE Refused(p) \/ Unknown(p)
      BY <2>3, OverFacts DEF Refused, Unknown, Git
    <2>4. CASE Add(p)
      <3>1. Go(p, "register") \/ Over(p)
        BY <2>4 DEF Add
      <3>2. dir' \in [Names -> {"none", "live", "off", "foreign"}]
        BY <2>4 DEF Add
      <3>3. branch' \in [Names -> {"none", "merged", "ahead"}]
        BY <2>4 DEF Add
      <3>4. listed' \subseteq Names /\ UNCHANGED <<disk, mem, dirty, count>>
        BY <2>4 DEF Add
      <3> QED BY <2>4, <3>1, <3>2, <3>3, <3>4, OverFacts, GoFacts DEF Add
    <2>5. CASE Register(p)
      BY <2>5, GoFacts DEF Register, Save, Git
    <2>6. CASE Work(p)
      BY <2>6, OverFacts DEF Work
    <2>7. CASE Remove(p)
      <3>1. count' \in [calls : Nat, user : Nat, kills : Nat, removed : SUBSET Names]
        BY <2>7 DEF Remove
      <3> QED BY <2>7, <3>1, OverFacts, GoFacts DEF Remove, Git
    <2>8. CASE RemoveTree(p)
      BY <2>8, GoFacts DEF RemoveTree
    <2>9. CASE DeleteBranch(p)
      BY <2>9, GoFacts DEF DeleteBranch
    <2>10. CASE Drop(p)
      BY <2>10, OverFacts DEF Drop, Save, Git
    <2> QED BY <1>3, <2>1, <2>2, <2>3, <2>4, <2>5, <2>6, <2>7, <2>8, <2>9, <2>10 DEF Step
  <1>4. ASSUME NEW p \in Procs, Kill(p) PROVE Typed'
    BY <1>4, OverFacts DEF Kill, Git
  <1>5. CASE User
    BY <1>5 DEF User, Commit, Merge, Delete, Switch
  <1>6. CASE UNCHANGED vars
    BY <1>6 DEF vars
  <1> QED BY <1>1, <1>2, <1>3, <1>4, <1>5, <1>6 DEF Next

-----------------------------------------------------------------------------
(* The strengthened invariant. *)

LEMMA InitInv == Init => Inv
  <1> SUFFICES ASSUME Init PROVE Inv
    OBVIOUS
  <1>1. \A p \in Procs : call[p].at = "none"
    BY NoCallFacts DEF Init
  <1> QED BY <1>1, InitTyped DEF Init, Inv, Typed, Noted, Known, Whole, At, Live

LEMMA NextInv == Inv /\ [Next]_vars => Inv'
  <1> SUFFICES ASSUME Inv, [Next]_vars PROVE Inv'
    OBVIOUS
  <1>t. Typed /\ Typed'
    BY NextTyped DEF Inv
  <1> USE DEF Inv, Noted, Known, Whole, Untouched, At, N, Live
  <1>1. ASSUME NEW p \in Procs, Call(p) PROVE Inv'
    <2>1. PICK n \in Names, a \in {"ensure", "remove"}, verify \in BOOLEAN, force \in BOOLEAN, fresh \in BOOLEAN :
            /\ call' = [call EXCEPT ![p] = [name |-> n, at |-> a, verify |-> verify, repair |-> FALSE, force |-> force]]
            /\ mem' = [mem EXCEPT ![p] = IF fresh THEN disk ELSE @]
      BY <1>1 DEF Call
    <2>2. call'[p].at \in {"ensure", "remove"} /\ \A q \in Procs \ {p} : call'[q] = call[q]
      BY <2>1, <1>t DEF Typed
    <2>3. mem'[p] \in {mem[p], disk} /\ \A q \in Procs \ {p} : mem'[q] = mem[q]
      BY <2>1, <1>t DEF Typed
    <2>4. /\ count'.user = count.user /\ count'.removed = count.removed
          /\ UNCHANGED <<disk, dir, branch>>
      BY <1>1, <1>t DEF Call, Git, Typed
    <2> QED BY <1>t, <2>2, <2>3, <2>4
  <1>2. ASSUME NEW p \in Procs, SaveOther(p) PROVE Inv'
    <2>1. /\ mem' = mem /\ disk' = mem[p] /\ UNCHANGED <<call, dir, branch>>
          /\ count'.user = count.user /\ count'.removed = count.removed
      BY <1>2, <1>t DEF SaveOther, Save, Git, Typed
    <2> QED BY <1>t, <2>1
  <1>3. ASSUME NEW p \in Procs, Step(p) PROVE Inv'
    <2>1. CASE Reuse(p) \/ Create(p)
      <3>1. \E a \in {"reused", "add"} : Go(p, a)
        BY <2>1 DEF Reuse, Create
      <3>2. call'[p].at \in {"reused", "add"} /\ \A q \in Procs \ {p} : call'[q] = call[q]
        BY <3>1, <1>t, GoFacts DEF Typed, Places
      <3>3. UNCHANGED <<disk, mem, dir, branch, count>>
        BY <2>1 DEF Reuse, Create, Git
      <3> QED BY <1>t, <3>2, <3>3
    <2>2. CASE Stale(p)
      <3>1. \A q \in Procs : call'[q].at = call[q].at /\ call'[q].name = call[q].name
        BY <2>2, <1>t DEF Stale, Typed, Calls
      <3>2. (\A q \in Procs : mem'[q] \subseteq mem[q]) /\ UNCHANGED <<disk, dir, branch, count>>
        BY <2>2, <1>t DEF Stale, Typed
      <3> QED BY <1>t, <3>1, <3>2
    <2>3. CASE Adopt(p)
      <3>1. /\ call'[p].at = "register" /\ call'[p].name = call[p].name
            /\ \A q \in Procs \ {p} : call'[q] = call[q]
        BY <2>3, <1>t, GoFacts DEF Adopt, Typed, Places
      <3>2. Live(N(p)) /\ UNCHANGED <<disk, mem, dir, branch, count>>
        BY <2>3 DEF Adopt, Ours, Git
      <3> QED BY <1>t, <3>1, <3>2
    <2>4. CASE Refuse(p)
      <3>1. /\ call'[p].at = "refused" /\ call'[p].name = call[p].name
            /\ \A q \in Procs \ {p} : call'[q] = call[q]
        BY <2>4, <1>t, GoFacts DEF Refuse, Typed, Places
      <3>2. ~Live(N(p)) /\ Blocked(p) /\ N(p) \in Names /\ UNCHANGED <<disk, mem, dir, branch, count>>
        BY <2>4, <1>t DEF Refuse, Ours, Git, Typed
      <3>3. Untouched(N(p)) => dir[N(p)] = "foreign"
        BY <1>t, <3>2 DEF Blocked, Typed
      <3> QED BY <1>t, <3>1, <3>2, <3>3
    <2>5. CASE Refused(p) \/ Unknown(p) \/ Work(p)
      <3>1. call'[p].at = "none" /\ \A q \in Procs \ {p} : call'[q] = call[q]
        BY <2>5, <1>t, OverFacts DEF Refused, Unknown, Work, Typed
      <3>2. UNCHANGED <<disk, mem, dir, branch, count>>
        BY <2>5 DEF Refused, Unknown, Work, Git
      <3> QED BY <1>t, <3>1, <3>2
    <2>6. CASE Add(p)
      <3>n. N(p) \in Names
        BY <2>6, <1>t DEF Add, Typed
      <3>1. CASE Go(p, "register") /\ dir' = [dir EXCEPT ![N(p)] = "live"] /\ dir[N(p)] = "none"
                   /\ branch' = [branch EXCEPT ![N(p)] = IF @ = "none" THEN "merged" ELSE @]
        <4>1. /\ call'[p].at = "register" /\ call'[p].name = call[p].name
              /\ \A q \in Procs \ {p} : call'[q] = call[q]
          BY <3>1, <1>t, GoFacts DEF Typed, Places
        <4>2. /\ dir'[N(p)] = "live" /\ \A n \in Names \ {N(p)} : dir'[n] = dir[n] /\ branch'[n] = branch[n]
              /\ UNCHANGED <<disk, mem, count>>
          BY <2>6, <3>1, <1>t DEF Add, Typed
        <4> QED BY <1>t, <3>1, <3>n, <4>1, <4>2
      <3>2. CASE Over(p) /\ UNCHANGED <<dir, branch>>
        <4>1. call'[p].at = "none" /\ \A q \in Procs \ {p} : call'[q] = call[q]
          BY <3>2, <1>t, OverFacts DEF Typed
        <4>2. UNCHANGED <<disk, mem, count>>
          BY <2>6 DEF Add
        <4> QED BY <1>t, <3>2, <4>1, <4>2
      <3> QED BY <2>6, <3>1, <3>2 DEF Add
    <2>7. CASE Register(p)
      <3>1. call'[p].at = "reused" /\ \A q \in Procs \ {p} : call'[q] = call[q]
        BY <2>7, <1>t, GoFacts DEF Register, Typed, Places
      <3>2. /\ mem'[p] = mem[p] \cup {N(p)} /\ disk' = mem'[p]
            /\ \A q \in Procs \ {p} : mem'[q] = mem[q]
            /\ UNCHANGED <<dir, branch, count>>
        BY <2>7, <1>t DEF Register, Save, Git, Typed
      <3> QED BY <1>t, <2>7, <3>1, <3>2 DEF Register
    <2>8. CASE Remove(p)
      <3>1. CASE MayRemove(p)
        <4>1. /\ call'[p].at = "worktree" /\ call'[p].name = call[p].name
              /\ \A q \in Procs \ {p} : call'[q] = call[q]
          BY <2>8, <3>1, <1>t, GoFacts DEF Remove, Typed, Places
        <4>2. /\ count'.user = count.user /\ count'.removed = count.removed \cup {N(p)}
              /\ UNCHANGED <<disk, mem, dir, branch>>
          BY <2>8, <3>1, <1>t DEF Remove, Git, Typed
        <4> QED BY <1>t, <4>1, <4>2
      <3>2. CASE ~MayRemove(p)
        <4>1. call'[p].at = "none" /\ \A q \in Procs \ {p} : call'[q] = call[q]
          BY <2>8, <3>2, <1>t, OverFacts DEF Remove, Typed
        <4>2. UNCHANGED <<disk, mem, dir, branch, count>>
          BY <2>8, <3>2 DEF Remove, Git
        <4> QED BY <1>t, <4>1, <4>2
      <3> QED BY <3>1, <3>2
    <2>9. CASE RemoveTree(p)
      <3>1. /\ call'[p].at = "branch" /\ call'[p].name = call[p].name
            /\ \A q \in Procs \ {p} : call'[q] = call[q]
        BY <2>9, <1>t, GoFacts DEF RemoveTree, Typed, Places
      <3>2. /\ \A n \in Names \ {N(p)} : dir'[n] = dir[n]
            /\ N(p) \in count.removed /\ UNCHANGED <<disk, mem, branch, count>>
        BY <2>9, <1>t DEF RemoveTree, Typed
      <3> QED BY <1>t, <3>1, <3>2
    <2>10. CASE DeleteBranch(p)
      <3>1. /\ call'[p].at = "drop" /\ call'[p].name = call[p].name
            /\ \A q \in Procs \ {p} : call'[q] = call[q]
        BY <2>10, <1>t, GoFacts DEF DeleteBranch, Typed, Places
      <3>2. /\ \A n \in Names \ {N(p)} : branch'[n] = branch[n]
            /\ N(p) \in count.removed /\ UNCHANGED <<disk, mem, dir, count>>
        BY <2>10, <1>t DEF DeleteBranch, Typed
      <3> QED BY <1>t, <3>1, <3>2
    <2>11. CASE Drop(p)
      <3>1. call'[p].at = "none" /\ \A q \in Procs \ {p} : call'[q] = call[q]
        BY <2>11, <1>t, OverFacts DEF Drop, Typed
      <3>2. /\ mem'[p] \subseteq mem[p] /\ disk' = mem'[p]
            /\ \A q \in Procs \ {p} : mem'[q] = mem[q]
            /\ UNCHANGED <<dir, branch, count>>
        BY <2>11, <1>t DEF Drop, Save, Git, Typed
      <3> QED BY <1>t, <3>1, <3>2
    <2> QED BY <1>3, <2>1, <2>2, <2>3, <2>4, <2>5, <2>6, <2>7, <2>8, <2>9, <2>10, <2>11 DEF Step
  <1>4. ASSUME NEW p \in Procs, Kill(p) PROVE Inv'
    <2>1. call'[p].at = "none" /\ \A q \in Procs \ {p} : call'[q] = call[q]
      BY <1>4, <1>t, OverFacts DEF Kill, Typed
    <2>2. /\ mem'[p] = disk /\ \A q \in Procs \ {p} : mem'[q] = mem[q]
          /\ count'.user = count.user /\ count'.removed = count.removed
          /\ UNCHANGED <<disk, dir, branch>>
      BY <1>4, <1>t DEF Kill, Git, Typed
    <2> QED BY <1>t, <2>1, <2>2
  <1>5. CASE User
    <2>1. count'.user # 0 /\ count'.removed = count.removed /\ UNCHANGED call
      BY <1>5, <1>t DEF User, Typed
    <2> QED BY <1>t, <2>1
  <1>6. CASE UNCHANGED vars
    BY <1>6, <1>t DEF vars
  <1> QED BY <1>1, <1>2, <1>3, <1>4, <1>5, <1>6 DEF Next

-----------------------------------------------------------------------------
(* The theorems. *)

LEMMA Invariance == Spec => []Inv
  BY InitInv, NextInv, PTL DEF Spec

\* A registered unit has its live worktree for as long as no user and no removal touched it, however
\* many processes write the registry back and wherever they are killed.
THEOREM RegistryIsLive == Spec => []RegisteredAreLive
  <1>1. Inv => RegisteredAreLive
    BY DEF Inv, Typed, Known, Untouched, RegisteredAreLive
  <1> QED BY <1>1, Invariance, PTL

\* ensureUnitWorktree refuses such a unit only over something foreign: what a lost write or a kill
\* left unregistered is adopted.
THEOREM RefusalsAreForeign == Spec => []HealsItself
  <1>1. Inv => HealsItself
    <2> SUFFICES ASSUME Inv, NEW p \in Procs, At(p, "refused"), count.user = 0, N(p) \notin count.removed
                 PROVE dir[N(p)] = "foreign"
      BY DEF HealsItself
    <2>1. N(p) \in Names
      BY DEF Inv, Typed, At
    <2> QED BY <2>1 DEF Inv, Whole, Untouched
  <1> QED BY <1>1, Invariance, PTL

\* No step of a process loses uncommitted work or an unmerged branch that was not given up by force.
THEOREM NoWorkLost == Spec => WorkStays
  <1> DEFINE A == \A n \in Names : ~Forcing(n) /\ count'.user = count.user =>
                     /\ n \in dirty => n \in dirty'
                     /\ branch[n] = "ahead" => branch'[n] = "ahead"
  <1>1. Typed /\ [Next]_vars => [A]_vars
    <2> SUFFICES ASSUME Typed, [Next]_vars, NEW n \in Names, ~Forcing(n), count'.user = count.user
                 PROVE  (n \in dirty => n \in dirty') /\ (branch[n] = "ahead" => branch'[n] = "ahead")
      BY DEF A
    <2>1. ~User
      BY DEF User, Typed
    <2>2. ASSUME NEW p \in Procs, Call(p) \/ SaveOther(p) \/ Kill(p)
          PROVE UNCHANGED <<dirty, branch>>
      BY <2>2 DEF Call, SaveOther, Kill, Git
    <2>3. ASSUME NEW p \in Procs, RemoveTree(p)
          PROVE n \in dirty => n \in dirty'
      <3>1. ForcesTree(p) => N(p) # n
        BY DEF ForcesTree, Forcing
      <3> QED BY <2>3, <3>1 DEF RemoveTree
    <2>4. ASSUME NEW p \in Procs, DeleteBranch(p)
          PROVE branch[n] = "ahead" => branch'[n] = "ahead"
      <3>1. ForcesBranch(p) => N(p) # n
        BY DEF ForcesBranch, Forcing
      <3> QED BY <2>4, <3>1 DEF DeleteBranch, Typed
    <2>5. ASSUME NEW p \in Procs, Add(p)
          PROVE branch[n] = "ahead" => branch'[n] = "ahead"
      BY <2>5 DEF Add, Typed
    <2>6. ASSUME NEW p \in Procs, Step(p)
          PROVE (n \in dirty => n \in dirty') /\ (branch[n] = "ahead" => branch'[n] = "ahead")
      <3>1. CASE RemoveTree(p)
        <4>1. branch' = branch
          BY <3>1 DEF RemoveTree
        <4> QED BY <2>3, <3>1, <4>1
      <3>2. CASE DeleteBranch(p)
        <4>1. dirty' = dirty
          BY <3>2 DEF DeleteBranch
        <4> QED BY <2>4, <3>2, <4>1
      <3>3. CASE Add(p)
        <4>1. dirty' = dirty
          BY <3>3 DEF Add
        <4> QED BY <2>5, <3>3, <4>1
      <3>4. CASE Work(p)
        <4>1. branch' = branch /\ dirty \subseteq dirty'
          BY <3>4 DEF Work
        <4> QED BY <4>1
      <3>5. ASSUME ~(RemoveTree(p) \/ DeleteBranch(p) \/ Add(p) \/ Work(p))
            PROVE  dirty' = dirty /\ branch' = branch
        BY <2>6, <3>5 DEF Step, Reuse, Stale, Adopt, Refuse, Refused, Create, Register, Unknown, Remove, Drop, Git
      <3> QED BY <3>1, <3>2, <3>3, <3>4, <3>5
    <2>7. CASE UNCHANGED vars
      BY <2>7 DEF vars
    <2> QED BY <2>1, <2>2, <2>6, <2>7 DEF Next
  <1>2. Inv => Typed
    BY DEF Inv
  <1> QED BY <1>1, <1>2, Invariance, PTL DEF Spec, WorkStays
=============================================================================
