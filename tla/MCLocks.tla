------------------------------- MODULE MCLocks -------------------------------
(***************************************************************************)
(* The two layers of locking: one lock file (OwnerLock), and the nesting   *)
(* of locks that never wait (InventoryLock).  The second takes the first   *)
(* for granted, so that each behaviour is about one of them.               *)
(***************************************************************************)
EXTENDS MCOwnerLock, Sequences

CONSTANTS Command, Roots, Weights, Slash, Dot, O, S, Common, Nobody

(* The letters of a path are numbers in the order of the alphabet: "-" is   *)
(* 1, "." is 2, "/" is 3, letters are more.  A sign or a small letter       *)
(* without accent weighs 1 at the other levels.                             *)
WeightsOfThree ==
  ("/A" :> <<<<3, 10>>, <<1, 1>>, <<1, 2>>>>) @@
  ("/a grave" :> <<<<3, 10>>, <<1, 1, 2>>, <<1, 1, 1>>>>) @@
  ("/a-b" :> <<<<3, 10, 1, 11>>, <<1, 1, 1, 1>>, <<1, 1, 1, 1>>>>)
ThreeRoots == DOMAIN WeightsOfThree

VARIABLES
  layer,    \* file or nesting
  owner, held, asked, granted, phase, result    \* InventoryLock

Nesting == INSTANCE InventoryLock WITH Task <- Command

ASSUME NestingAssumption == Nesting!PathAssumption

nesting == <<owner, held, asked, granted, phase, result>>
both == <<vars, layer, nesting>>

(* The layer that does not run is in one of its initial states.             *)
LocksInit ==
  /\ layer \in {"file", "nesting"} /\ Init /\ Nesting!Init
  /\ layer = "nesting" => lockFile = Absent

LocksNext ==
  /\ UNCHANGED layer
  /\ \/ layer = "file" /\ Next /\ UNCHANGED nesting
     \/ layer = "nesting" /\ Nesting!Next /\ UNCHANGED vars

(* The fairness of the two, each where it is the one that runs.             *)
LocksSpec ==
  /\ LocksInit /\ [][LocksNext]_both
  /\ \A t \in Task : WF_vars(layer = "file" /\ Step(t))
  /\ \A c \in Command : WF_nesting(layer = "nesting" /\ Nesting!Step(c))
-----------------------------------------------------------------------------
(* inventory-lock.ts: locks and lists agree, refusals are for prefixes.     *)
CallsNestSafely == Nesting!CallsNestSafely

(* owner-lock.ts, inventory-lock.ts: an acquisition ends, whatever is on    *)
(* the path, and so does a call that takes several locks: none of them      *)
(* waits for another's.                                                     *)
LockCallsEnd == AcquireEnds /\ Nesting!EveryCallEnds
=============================================================================
