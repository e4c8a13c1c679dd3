---------------------------- MODULE ExclusiveLock ----------------------------
(***************************************************************************)
(* What cli/core/owner-lock.ts promises to its callers: between the        *)
(* return of acquireOwnerLock and the end of releaseOwnerLock the caller   *)
(* is alone, and a caller whose process dies stops counting.  How the      *)
(* promise is kept (a hard link, a liveness probe, a rename) is the        *)
(* business of OwnerLock; the transactions that only rely on the promise   *)
(* (ProjectStateTransaction, SkillInventory, ...) are built on this        *)
(* module.                                                                 *)
(***************************************************************************)

CONSTANT Task          \* the operations that may ask for the lock

VARIABLE holding       \* the live tasks between acquire and release

LockTypeOK == holding \subseteq Task

LockInit == holding = {}

(* acquireOwnerLock returned an owner record to t. *)
Enter(t) ==
  /\ holding = {}
  /\ holding' = {t}

(* releaseOwnerLock unlinked the record of t, or refused to. *)
Exit(t) ==
  /\ t \in holding
  /\ holding' = holding \ {t}

(* A process died: its tasks no longer run, whatever is left on the disk. *)
Die(dead) == holding' = holding \ dead

LockNext ==
  \/ \E t \in Task : Enter(t) \/ Exit(t)
  \/ \E dead \in SUBSET Task : Die(dead)

LockSpec == LockInit /\ [][LockNext]_holding
=============================================================================
