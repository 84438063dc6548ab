------------------------------ MODULE UnitTrees ------------------------------
(***************************************************************************)
(* The persistent worktrees of the units (src/build/unitWorktree.ts over       *)
(* util/git.ts) and their registry in state.json (src/state.ts).  Processes    *)
(* (a tool call, a command, a conduct run) load the registry, use it, and      *)
(* write all of it back, with no lock between them; git itself is the ground   *)
(* truth they check against, and the user works on the same repository.        *)
(***************************************************************************)
EXTENDS Naturals, FiniteSets

CONSTANTS
  Names,    \* the names of the unit worktrees
  Procs,    \* the processes
  MaxCalls, \* bound on the calls of all processes together
  MaxUser,  \* bound on the steps of the user
  MaxKills  \* bound on the kills

ASSUME TreeSets   == IsFiniteSet(Names) /\ IsFiniteSet(Procs)
ASSUME TreeBounds == {MaxCalls, MaxUser, MaxKills} \subseteq Nat

VARIABLES
  disk,   \* the names registered in state.json
  mem,    \* what each process has of it
  call,   \* the call each process is in: its name, where it is, and whether it reverifies, repairs or forces
  dir,    \* each unit's directory: none, a live worktree on its branch, one on another branch, or foreign
  dirty,  \* the names whose directory has uncommitted work
  branch, \* each unit's branch: none, with nothing of its own, or with commits that are not merged
  listed, \* the names git still lists a worktree for
  count   \* the calls, the steps of the user and the kills so far, and the names a removal went ahead with
vars == <<disk, mem, call, dir, dirty, branch, listed, count>>

NoCall == [name |-> "none", at |-> "none", verify |-> FALSE, repair |-> FALSE, force |-> FALSE]

Init ==
  /\ disk = {} /\ mem = [p \in Procs |-> {}] /\ call = [p \in Procs |-> NoCall]
  /\ dir \in [Names -> {"none", "foreign"}]
  /\ dirty = {} /\ branch = [n \in Names |-> "none"] /\ listed = {}
  /\ count = [calls |-> 0, user |-> 0, kills |-> 0, removed |-> {}]

N(p)     == call[p].name
At(p, a) == call[p].at = a
Live(n)  == dir[n] = "live"
Go(p, a) == call' = [call EXCEPT ![p].at = a]
Over(p)  == call' = [call EXCEPT ![p] = NoCall]
Git      == <<dir, dirty, branch, listed>>

\* store.save: the whole of what the process has.
Save(p, m) == mem' = [mem EXCEPT ![p] = m] /\ disk' = m

(* Faulty variants of the definitions below, substituted for them to see the properties fail. *)
NeverOurs(n) == FALSE /\ Live(n)
Forced(p)    == TRUE \/ call[p].force
AddedAnyway(p) ==
  /\ At(p, "add")
  /\ LET n == N(p)
     IN \/ /\ dir[n] = "none" /\ n \notin listed /\ branch[n] = "none"
           /\ dir' = [dir EXCEPT ![n] = "live"]
           /\ branch' = [branch EXCEPT ![n] = "merged"]
           /\ listed' = listed \cup {n}
        \/ UNCHANGED <<dir, branch, listed>>
  /\ Go(p, "register")
  /\ UNCHANGED <<disk, mem, dirty, count>>

-----------------------------------------------------------------------------
\* A process starts with the registry as it is on disk, or keeps the one it has; the call is chosen.
Call(p) ==
  /\ call[p] = NoCall /\ count.calls < MaxCalls
  /\ \E n \in Names, a \in {"ensure", "remove"}, verify, force, fresh \in BOOLEAN :
       /\ verify => a = "ensure"
       /\ force => a = "remove"
       /\ call' = [call EXCEPT ![p] = [name |-> n, at |-> a, verify |-> verify, repair |-> FALSE, force |-> force]]
       /\ mem' = [mem EXCEPT ![p] = IF fresh THEN disk ELSE @]
  /\ count' = [count EXCEPT !.calls = @ + 1]
  /\ UNCHANGED <<disk, Git>>

\* Any other save of the process writes its registry too.
SaveOther(p) ==
  /\ call[p] = NoCall /\ count.calls < MaxCalls /\ disk # mem[p]
  /\ Save(p, mem[p])
  /\ count' = [count EXCEPT !.calls = @ + 1]
  /\ UNCHANGED <<call, Git>>

(* ensureUnitWorktree. *)

\* A registered tree is taken as it is, or on a resume if git agrees.
Reuse(p) ==
  /\ At(p, "ensure") /\ N(p) \in mem[p]
  /\ call[p].verify => Live(N(p))
  /\ Go(p, "reused")
  /\ UNCHANGED <<disk, mem, Git, count>>

\* What git does not agree with is dropped, in memory, and pruned.
Stale(p) ==
  /\ At(p, "ensure") /\ N(p) \in mem[p] /\ call[p].verify /\ ~Live(N(p))
  /\ mem' = [mem EXCEPT ![p] = @ \ {N(p)}]
  /\ listed' = {n \in listed : dir[n] \in {"live", "off"}}
  /\ call' = [call EXCEPT ![p].repair = TRUE]
  /\ UNCHANGED <<disk, dir, dirty, branch, count>>

\* A directory that is not registered is adopted if it is a live worktree on the unit's branch.
Ours(n) == Live(n)
Adopt(p) ==
  /\ At(p, "ensure") /\ N(p) \notin mem[p] /\ Ours(N(p))
  /\ Go(p, "register")
  /\ UNCHANGED <<disk, mem, Git, count>>

\* Any other directory is refused, and so is a branch that is not registered.
Blocked(p) == dir[N(p)] # "none" \/ (branch[N(p)] # "none" /\ ~call[p].repair)
Refuse(p) ==
  /\ At(p, "ensure") /\ N(p) \notin mem[p] /\ ~Ours(N(p)) /\ Blocked(p)
  /\ Go(p, "refused")
  /\ UNCHANGED <<disk, mem, Git, count>>

Refused(p) ==
  /\ At(p, "refused")
  /\ Over(p)
  /\ UNCHANGED <<disk, mem, Git, count>>

Create(p) ==
  /\ At(p, "ensure") /\ N(p) \notin mem[p] /\ ~Ours(N(p)) /\ ~Blocked(p)
  /\ Go(p, "add")
  /\ UNCHANGED <<disk, mem, Git, count>>

\* git worktree add, with a new branch or on the one that survives; git refuses what exists meanwhile.
Attach(p) == branch[N(p)] # "none" /\ call[p].repair
Add(p) ==
  /\ At(p, "add")
  /\ LET n == N(p)
     IN \/ /\ dir[n] = "none" /\ n \notin listed /\ (Attach(p) \/ branch[n] = "none")
           /\ dir' = [dir EXCEPT ![n] = "live"]
           /\ branch' = [branch EXCEPT ![n] = IF @ = "none" THEN "merged" ELSE @]
           /\ listed' = listed \cup {n}
           /\ Go(p, "register")
        \/ Over(p) /\ UNCHANGED <<dir, branch, listed>>
  /\ UNCHANGED <<disk, mem, dirty, count>>

Register(p) ==
  /\ At(p, "register")
  /\ Save(p, mem[p] \cup {N(p)})
  /\ Go(p, "reused")
  /\ UNCHANGED <<Git, count>>

\* The generator runs in the directory it was given; with no directory it dies at the launch.
Work(p) ==
  /\ At(p, "reused")
  /\ dirty' = IF dir[N(p)] = "none" THEN dirty ELSE dirty \cup {N(p)}
  /\ Over(p)
  /\ UNCHANGED <<disk, mem, dir, branch, listed, count>>

-----------------------------------------------------------------------------
(* removeUnitWorktree. *)

Unknown(p) ==
  /\ At(p, "remove") /\ N(p) \notin mem[p]
  /\ Over(p)
  /\ UNCHANGED <<disk, mem, Git, count>>

\* Uncommitted work and unmerged commits are refused unless forced.
MayRemove(p) == call[p].force \/ (N(p) \notin dirty /\ branch[N(p)] = "merged")
Remove(p) ==
  /\ At(p, "remove") /\ N(p) \in mem[p]
  /\ IF MayRemove(p) THEN Go(p, "worktree") /\ count' = [count EXCEPT !.removed = @ \cup {N(p)}]
     ELSE Over(p) /\ UNCHANGED count
  /\ UNCHANGED <<disk, mem, Git>>

\* git worktree remove refuses a dirty tree unless forced; it does not heed what branch is on it.
ForcesTree(p) == call[p].force
RemoveTree(p) ==
  /\ At(p, "worktree")
  /\ LET n == N(p)
     IN IF n \in listed /\ (ForcesTree(p) \/ n \notin dirty)
        THEN dir' = [dir EXCEPT ![n] = "none"] /\ dirty' = dirty \ {n} /\ listed' = listed \ {n}
        ELSE UNCHANGED <<dir, dirty, listed>>
  /\ Go(p, "branch")
  /\ UNCHANGED <<disk, mem, branch, count>>

\* git branch -d refuses one that is checked out, or not merged into what is checked out in the source.
ForcesBranch(p) == call[p].force
DeleteBranch(p) ==
  /\ At(p, "branch")
  /\ \/ /\ ~Live(N(p)) \/ N(p) \notin listed
        /\ ForcesBranch(p) \/ branch[N(p)] = "merged"
        /\ branch' = [branch EXCEPT ![N(p)] = "none"]
     \/ /\ ~ForcesBranch(p) \/ Live(N(p))
        /\ UNCHANGED branch
  /\ Go(p, "drop")
  /\ UNCHANGED <<disk, mem, dir, dirty, listed, count>>

Drop(p) ==
  /\ At(p, "drop")
  /\ Save(p, mem[p] \ {N(p)})
  /\ Over(p)
  /\ UNCHANGED <<Git, count>>

\* Killed in the middle of a call; the next one of the process is a new process.
Kill(p) ==
  /\ call[p] # NoCall /\ count.kills < MaxKills
  /\ Over(p)
  /\ mem' = [mem EXCEPT ![p] = disk]
  /\ count' = [count EXCEPT !.kills = @ + 1]
  /\ UNCHANGED <<disk, Git>>

-----------------------------------------------------------------------------
(* The conductor and the user. *)

Commit(n) ==
  /\ n \in dirty /\ Live(n)
  /\ dirty' = dirty \ {n}
  /\ branch' = [branch EXCEPT ![n] = "ahead"]
  /\ UNCHANGED <<dir, listed>>
Merge(n) ==
  /\ branch[n] = "ahead"
  /\ branch' = [branch EXCEPT ![n] = "merged"]
  /\ UNCHANGED <<dir, dirty, listed>>
\* The directory is deleted by hand, or another branch checked out in it.
Delete(n) ==
  /\ dir[n] # "none"
  /\ dir' = [dir EXCEPT ![n] = "none"]
  /\ dirty' = dirty \ {n}
  /\ UNCHANGED <<branch, listed>>
Switch(n) ==
  /\ dir[n] \in {"live", "off"} /\ n \notin dirty
  /\ dir' = [dir EXCEPT ![n] = IF @ = "live" THEN "off" ELSE "live"]
  /\ branch[n] # "none"
  /\ UNCHANGED <<dirty, branch, listed>>

User == /\ count.user < MaxUser
        /\ \E n \in Names : Commit(n) \/ Merge(n) \/ Delete(n) \/ Switch(n)
        /\ count' = [count EXCEPT !.user = @ + 1]
        /\ UNCHANGED <<disk, mem, call>>

Step(p) == \/ Reuse(p) \/ Stale(p) \/ Adopt(p) \/ Refuse(p) \/ Refused(p) \/ Create(p) \/ Add(p) \/ Register(p) \/ Work(p)
           \/ Unknown(p) \/ Remove(p) \/ RemoveTree(p) \/ DeleteBranch(p) \/ Drop(p)
Next == (\E p \in Procs : Call(p) \/ SaveOther(p) \/ Step(p) \/ Kill(p)) \/ User
Spec == Init /\ [][Next]_vars
-----------------------------------------------------------------------------
TypeOK ==
  /\ disk \subseteq Names /\ mem \in [Procs -> SUBSET Names]
  /\ \A p \in Procs : /\ N(p) \in Names \cup {"none"}
                      /\ call[p].at \in {"none", "ensure", "add", "register", "reused", "refused", "remove", "worktree", "branch", "drop"}
  /\ dir \in [Names -> {"none", "live", "off", "foreign"}]
  /\ dirty \subseteq Names /\ listed \subseteq Names
  /\ branch \in [Names -> {"none", "merged", "ahead"}]

Forcing(n) == \E p \in Procs : N(p) = n /\ call[p].force

\* No process ever loses a unit's work: uncommitted work leaves a directory by a commit, and unmerged
\* commits stay on their branch, unless a removal was forced or the user deleted the directory, however
\* the checks of a removal and the work of others interleave.  (removeUnitWorktree over git's refusals.)
WorkStays ==
  [][\A n \in Names : ~Forcing(n) /\ count'.user = count.user =>
       /\ n \in dirty => n \in dirty'
       /\ branch[n] = "ahead" => branch'[n] = "ahead"]_vars

\* While neither the user nor a removal touched a unit, every name in the registry has its live worktree,
\* whichever processes raced to create it and wherever they were killed.  (ensureUnitWorktree.)
RegisteredAreLive ==
  \A n \in disk : count.user = 0 /\ n \notin count.removed => Live(n)

\* Then no call is refused either, unless something foreign was there from the start: a registration lost
\* to another process's write, or to a kill, is found again.  (The self-heal of ensureUnitWorktree.)
HealsItself ==
  \A p \in Procs : At(p, "refused") /\ count.user = 0 /\ N(p) \notin count.removed => dir[N(p)] = "foreign"

-----------------------------------------------------------------------------
(* What a comment or a document says and the code does not keep (README, section 4). *)

\* The comment of removeUnitWorktree: the entry is dropped whenever a removal was attempted, so that no
\* dangling registration is left.
NoDanglingEntry ==
  (\A p \in Procs : call[p] = NoCall) /\ count.user = 0 => \A n \in disk : dir[n] # "none"
=============================================================================
