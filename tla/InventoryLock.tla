---------------------------- MODULE InventoryLock ----------------------------
(***************************************************************************)
(* The nesting of owner locks: cli/core/inventory-lock.ts, the operations  *)
(* of cli/core that nest them, and the locked reference scan of            *)
(* cli/core/inventory-references.ts, which takes every known project.      *)
(*                                                                         *)
(* A lock is a level and a path.  A call asks for a sequence of locks, one *)
(* inside the other; the async-local list of the locks it holds decides    *)
(* whether a request is reentrant, out of order, or goes to the owner      *)
(* lock, which never waits.  Whatever fails unwinds from the inside out.   *)
(*                                                                         *)
(* The order is the one of localeCompare, which collates texts level by    *)
(* level: all the letters first, then all the accents, then capitals.  A   *)
(* path is therefore its weights at each level, what is appended to it is  *)
(* appended at each level, and the suffix that turns a project root into   *)
(* its lock path does not preserve the order of the roots.                 *)
(***************************************************************************)
EXTENDS Naturals, Sequences, SequencesExt

CONSTANTS
  Task,        \* mutating commands in progress
  Roots,       \* project roots
  Weights,     \* Weights[r][n]: what the collation sees of r at level n
  Slash, Dot, O, S,  \* the letters that tell the lock paths apart
  Common,      \* the weight of a small letter without accent, the least there is
  Nobody

(* Letters and signs, accents, capitals. *)
Strength == 1..3

PathAssumption ==
  /\ IsFiniteSet(Roots) /\ Weights \in [Roots -> [Strength -> Seq(Nat)]]
  /\ {Slash, Dot, O, S, Common} \subseteq Nat
  /\ Dot < Slash /\ Slash < O /\ O < S
  /\ \A r \in Roots, n \in {2, 3} : \A i \in DOMAIN Weights[r][n] : Common <= Weights[r][n][i]
  /\ Nobody \notin Task

(* The order at one level. *)
Precedes(s, t) ==
  \E i \in 1..Len(t) :
    /\ \A j \in 1..(i - 1) : j <= Len(s) /\ s[j] = t[j]
    /\ i > Len(s) \/ s[i] < t[i]

(* localeCompare(a, b) < 0: a level counts when those before it are alike.   *)
Before(a, b) ==
  \E n \in Strength : /\ \A m \in 1..(n - 1) : a[m] = b[m]
                     /\ Precedes(a[n], b[n])

Inventory == [level |-> 0]
Machine == [level |-> 1]
(* <root>/.agents/drwn/.state-transaction.lock and .org-worker-materialization.lock *)
ProjectState(root) == [level |-> 2, root |-> root, file |-> S]
Materialization(root) == [level |-> 2, root |-> root, file |-> O]

Suffix(file, n) == IF n = 1 THEN <<Slash, Dot, file>> ELSE <<Common, Common, Common>>
LockWeights(l) == [n \in Strength |-> Weights[l.root][n] \o Suffix(l.file, n)]

Locks == {Inventory, Machine}
           \cup {ProjectState(r) : r \in Roots} \cup {Materialization(r) : r \in Roots}

(* resolveInventoryReferenceScope sorts the roots, not their lock paths; the *)
(* order of roots that collate alike is the one they were read in.  Mutant:  *)
(* accents and capitals do not count.                                        *)
SortedByLetters(f) == \A i, j \in DOMAIN f : i < j => ~ Precedes(Weights[f[j]][1], Weights[f[i]][1])
Sorted(f) == \A i, j \in DOMAIN f : i < j => ~ Before(Weights[f[j]], Weights[f[i]])
Scans(scope) == {f \in SetToSeqs(scope) : Sorted(f)}
Report(scan) == <<Inventory, Machine>> \o [i \in DOMAIN scan |-> ProjectState(scan[i])]

Plans ==
  {<<Inventory, Machine>>}                                 \* mutateMachineConfig
    \cup {<<Inventory, ProjectState(r)>> : r \in Roots}        \* registerProject, includeProjectSkills
    \cup {<<ProjectState(r)>> : r \in Roots}                   \* mutateProjectState
    \cup {<<Materialization(r), ProjectState(r), ProjectState(r)>> : r \in Roots}
    \cup UNION {{Append(Report(scan), Inventory) : scan \in Scans(scope)} :
                  scope \in SUBSET Roots}                         \* uninstall, update

VARIABLES
  owner,    \* who holds each lock file
  held,     \* the async-local list of each task, outermost first
  asked,    \* the locks the task's call asks for
  granted,  \* how many of them it got, reentrant ones included
  phase,    \* idle, acquiring, running, unwinding
  result    \* how the call ends

vars == <<owner, held, asked, granted, phase, result>>

Init ==
  /\ owner = [l \in Locks |-> Nobody]
  /\ held = [t \in Task |-> <<>>]
  /\ asked = [t \in Task |-> <<>>]
  /\ granted = [t \in Task |-> 0]
  /\ phase = [t \in Task |-> "idle"]
  /\ result = [t \in Task |-> "none"]

Call(t) ==
  /\ phase[t] = "idle"
  /\ \E p \in Plans : asked' = [asked EXCEPT ![t] = p]
  /\ granted' = [granted EXCEPT ![t] = 0]
  /\ phase' = [phase EXCEPT ![t] = "acquiring"]
  /\ result' = [result EXCEPT ![t] = "none"]
  /\ UNCHANGED <<owner, held>>

Holds(t, l) == \E i \in DOMAIN held[t] : held[t][i] = l

(* The locks of one level that differ are those of projects. *)
After(a, b) ==
  \/ a.level > b.level
  \/ a.level = b.level /\ a # b /\ Before(LockWeights(b), LockWeights(a))

(* Mutants: an existing owner record is overwritten; further down, GrantTwo   *)
(* skips a project of the scan.                                               *)
NeverTaken(l) == FALSE

Reentrant(t, l) == Holds(t, l)
OutOfOrder(t, l) == held[t] # <<>> /\ After(Last(held[t]), l)
Taken(l) == owner[l] # Nobody
Innermost(t) == Last(held[t])

Unwind(t, how) ==
  /\ phase' = [phase EXCEPT ![t] = "unwinding"]
  /\ result' = [result EXCEPT ![t] = how]

(* Mutant: a busy lock is retried until it is free. *)
RetryBusy(t) == UNCHANGED <<phase, result>>

RefuseBusy(t) == Unwind(t, "busy")

Requested(t) == asked[t][granted[t] + 1]
Pending(t) == phase[t] = "acquiring" /\ granted[t] < Len(asked[t])
GrantTwo(t) == granted' = [granted EXCEPT ![t] = @ + 2]
Grant(t) == granted' = [granted EXCEPT ![t] = @ + 1]

Reenter(t) ==
  /\ Pending(t)
  /\ Reentrant(t, Requested(t))
  /\ Grant(t)
  /\ UNCHANGED <<owner, held, asked, phase, result>>

RejectOrder(t) ==
  /\ Pending(t)
  /\ ~ Reentrant(t, Requested(t)) /\ OutOfOrder(t, Requested(t))
  /\ Unwind(t, "order")
  /\ UNCHANGED <<owner, held, asked, granted>>

(* withOwnerLock, when no stale record is in the way. *)
Acquire(t) ==
  /\ Pending(t)
  /\ ~ Reentrant(t, Requested(t)) /\ ~ OutOfOrder(t, Requested(t))
  /\ IF Taken(Requested(t))
     THEN RefuseBusy(t) /\ UNCHANGED <<owner, held, granted>>
     ELSE /\ owner' = [owner EXCEPT ![Requested(t)] = t]
          /\ held' = [held EXCEPT ![t] = Append(@, Requested(t))]
          /\ Grant(t)
          /\ UNCHANGED <<phase, result>>
  /\ UNCHANGED asked

Run(t) ==
  /\ phase[t] = "acquiring" /\ granted[t] = Len(asked[t])
  /\ phase' = [phase EXCEPT ![t] = "running"]
  /\ UNCHANGED <<owner, held, asked, granted, result>>

(* The operation returns or throws. *)
Finish(t) ==
  /\ phase[t] = "running"
  /\ Unwind(t, "done")
  /\ UNCHANGED <<owner, held, asked, granted>>

(* The finally block of each withOwnerLock on the way out. *)
Release(t) ==
  /\ phase[t] = "unwinding"
  /\ IF held[t] = <<>>
     THEN phase' = [phase EXCEPT ![t] = "idle"] /\ UNCHANGED <<owner, held>>
     ELSE /\ owner' = [owner EXCEPT ![Innermost(t)] = Nobody]
          /\ held' = [held EXCEPT ![t] = Front(@)]
          /\ UNCHANGED phase
  /\ UNCHANGED <<asked, granted, result>>

Step(t) ==
  Reenter(t) \/ RejectOrder(t) \/ Acquire(t) \/ Run(t) \/ Finish(t) \/ Release(t)

Next == \E t \in Task : Call(t) \/ Step(t)

Spec == Init /\ [][Next]_vars
FairSpec == Spec /\ \A t \in Task : WF_vars(Step(t))

-----------------------------------------------------------------------------
TypeOK ==
  /\ owner \in [Locks -> Task \cup {Nobody}]
  /\ held \in [Task -> Seq(Locks)]
  /\ asked \in [Task -> Seq(Locks)]
  /\ granted \in [Task -> Nat]
  /\ phase \in [Task -> {"idle", "acquiring", "running", "unwinding"}]
  /\ result \in [Task -> {"none", "done", "busy", "order"}]
  /\ \A t \in Task : Len(held[t]) <= granted[t] /\ granted[t] <= Len(asked[t])

(* The lock files and the lists agree: nobody believes in a lock it lost,    *)
(* and no lock outlives the call that took it.                               *)
FilesMatchLists ==
  /\ TypeOK
  /\ \A l \in Locks, t \in Task : owner[l] = t <=> Holds(t, l)

(* Nesting never deadlocks: every call gets out again. *)
EveryCallEnds == \A t \in Task : phase[t] = "acquiring" ~> phase[t] = "idle"

(* test/core-inventory-lock.test.ts:36: the lock "permits inventory to       *)
(* machine to sorted projects", and the commands nest no other way.          *)
SortedProjectsArePermitted == \A t \in Task : result[t] # "order"

(* The letters and signs of s go on where those of r end. *)
BeginsWith(s, r) == IsStrictPrefix(Weights[r][1], Weights[s][1])

(* A command is refused for its own nesting only when one of the project     *)
(* roots it scans begins with another, capitals and accents left aside, as   *)
(* app-two does with app and with App: inventory-references.ts sorts roots   *)
(* and inventory-lock.ts compares the paths under them.                      *)
RefusedOnlyForPrefixes ==
  \A t \in Task : result[t] = "order" =>
    \E r, s \in Roots :
      /\ BeginsWith(s, r)
      /\ {ProjectState(r), ProjectState(s)} \subseteq {asked[t][i] : i \in DOMAIN asked[t]}

(* However the calls nest, held locks and lock files agree and no nesting is *)
(* refused but for roots that begin with one another.                        *)
CallsNestSafely == FilesMatchLists /\ RefusedOnlyForPrefixes
=============================================================================
