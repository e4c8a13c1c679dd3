------------------------------ MODULE OwnerLock ------------------------------
(***************************************************************************)
(* The owner-record lock of cli/core/owner-lock.ts, one system call per    *)
(* step.  A lock is one file.  A task publishes its record by hard-linking *)
(* a fully written claim file to the lock path; when the path is taken it  *)
(* reads the record there, probes whether the process it names still runs, *)
(* and renames the record of a dead process away before it tries again.    *)
(* Releasing reads the record back and unlinks the path.                   *)
(*                                                                         *)
(* A task is one asynchronous call of withOwnerLock; several tasks may run *)
(* in one process and die with it.  A process slot is a PID: the process   *)
(* that starts in it after a crash has the same PID and another life.      *)
(***************************************************************************)
EXTENDS Naturals

CONSTANTS
  Task,        \* calls of withOwnerLock
  Process,     \* PIDs, over all the hosts that share the file system
  ProcessOf,   \* the process a task runs in
  Host,        \* machines
  HostOf,      \* the machine of a process
  MaxCalls,    \* bound: calls of withOwnerLock in one behaviour
  MaxCrashes,  \* bound: processes that die in one behaviour
  Absent,      \* no file at the lock path
  Malformed    \* bytes at the lock path that parseOwnerLock maps to null

Id == 1..MaxCalls                       \* randomUUID(): never the same twice
Record == [id : Id, pid : Process]      \* OwnerLockRecord; hostname is HostOf[pid]

ASSUME LockAssumption ==
  /\ ProcessOf \in [Task -> Process]
  /\ HostOf \in [Process -> Host]
  /\ MaxCalls \in Nat
  /\ MaxCrashes \in Nat
  /\ Absent \notin Record /\ Malformed \notin Record
  /\ Absent # Malformed

FileState == Record \cup {Absent, Malformed}

Steps == { "idle", "publish", "inspect", "probe", "quarantine",
           "critical", "verify", "unlink" }
Outcomes == { "none", "done", "busy", "unrecoverable", "refused" }

VARIABLES
  lockFile,    \* what the lock path holds
  running,     \* the processes that run now
  pc,          \* where each task is in withOwnerLock
  own,         \* the id of the record each task writes (0 before its first call)
  seen,        \* the record each task last read from the lock path
  outcome,     \* how the last call of each task ended
  calls,       \* calls made so far
  crashes,     \* crashes so far
  evicted      \* history: ids whose record was renamed away under a live holder

vars == <<lockFile, running, pc, own, seen, outcome, calls, crashes, evicted>>

Mine(t) == [id |-> own[t], pid |-> ProcessOf[t]]
Alive(t) == ProcessOf[t] \in running
Holds(t) == Alive(t) /\ pc[t] \in {"critical", "verify", "unlink"}
Holding == {t \in Task : Holds(t)}
HostOfTask(t) == HostOf[ProcessOf[t]]

At(t, step) == Alive(t) /\ pc[t] = step
Goto(t, step) == pc' = [pc EXCEPT ![t] = step]
Fail(t, code) ==
  /\ Goto(t, "idle")
  /\ outcome' = [outcome EXCEPT ![t] = code]

(* Mutants: a claim renamed, not linked, to the path; a malformed record     *)
(* taken for a missing one; no liveness probe; any well formed record taken  *)
(* for one's own.                                                            *)
PathNeverTaken == FALSE
NoRecord == lockFile \notin Record
NeverAlive(pid) == FALSE
OwnsAny(t) == lockFile \in Record

FreshId == calls + 1                      \* randomUUID()
PathTaken == lockFile # Absent            \* link: EEXIST
Missing == lockFile = Absent              \* readFile: ENOENT
ProcessIsAlive(pid) == pid \in running    \* process.kill(pid, 0)
Owns(t) == lockFile \in Record /\ lockFile.id = own[t]

Init ==
  /\ lockFile \in {Absent, Malformed}
  /\ running = Process
  /\ pc = [t \in Task |-> "idle"]
  /\ own = [t \in Task |-> 0]
  /\ seen = [t \in Task |-> Absent]
  /\ outcome = [t \in Task |-> "none"]
  /\ calls = 0
  /\ crashes = 0
  /\ evicted = {}

(* withOwnerLock is called.  The id of the record is drawn once here: a     *)
(* redraw on every turn of the loop cannot be observed before a link wins.  *)
Begin(t) ==
  /\ At(t, "idle")
  /\ calls < MaxCalls
  /\ calls' = calls + 1
  /\ own' = [own EXCEPT ![t] = FreshId]
  /\ outcome' = [outcome EXCEPT ![t] = "none"]
  /\ Goto(t, "publish")
  /\ UNCHANGED <<lockFile, running, seen, crashes, evicted>>

(* publishExclusive: link(claim, path) succeeds only where there is no path. *)
Publish(t) ==
  /\ At(t, "publish")
  /\ IF PathTaken
     THEN Goto(t, "inspect") /\ UNCHANGED lockFile
     ELSE Goto(t, "critical") /\ lockFile' = Mine(t)
  /\ UNCHANGED <<running, own, seen, outcome, calls, crashes, evicted>>

(* readFile(path): ENOENT goes round the loop, a malformed record or one of *)
(* another host ends the call.                                              *)
Inspect(t) ==
  /\ At(t, "inspect")
  /\ \/ Missing /\ Goto(t, "publish") /\ UNCHANGED <<seen, outcome>>
     \/ /\ ~ Missing /\ lockFile = Malformed
        /\ Fail(t, "unrecoverable")
        /\ UNCHANGED seen
     \/ /\ lockFile \in Record
        /\ seen' = [seen EXCEPT ![t] = lockFile]
        /\ IF HostOf[lockFile.pid] = HostOfTask(t)
           THEN Goto(t, "probe") /\ UNCHANGED outcome
           ELSE Fail(t, "unrecoverable")
  /\ UNCHANGED <<lockFile, running, own, calls, crashes, evicted>>

(* process.kill(pid, 0) on the record that was read, not on the path. *)
Probe(t) ==
  /\ At(t, "probe")
  /\ IF ProcessIsAlive(seen[t].pid)
     THEN Fail(t, "busy")
     ELSE Goto(t, "quarantine") /\ UNCHANGED outcome
  /\ UNCHANGED <<lockFile, running, own, seen, calls, crashes, evicted>>

(* rename(path, quarantine): moves whatever the path holds by now. *)
Quarantine(t) ==
  /\ At(t, "quarantine")
  /\ Goto(t, "publish")
  /\ lockFile' = Absent
  /\ evicted' = evicted \cup
       {own[u] : u \in {v \in Holding : lockFile = Mine(v)}}
  /\ UNCHANGED <<running, own, seen, outcome, calls, crashes>>

(* operation(owner) returned or threw: either way the finally block runs. *)
Finish(t) ==
  /\ At(t, "critical")
  /\ Goto(t, "verify")
  /\ UNCHANGED <<lockFile, running, own, seen, outcome, calls, crashes, evicted>>

(* releaseOwnerLock: read the record back; refuse if it is gone, malformed  *)
(* or of another operation.                                                 *)
Verify(t) ==
  /\ At(t, "verify")
  /\ IF Owns(t)
     THEN Goto(t, "unlink") /\ UNCHANGED outcome
     ELSE Fail(t, "refused")
  /\ UNCHANGED <<lockFile, running, own, seen, calls, crashes, evicted>>

(* unlink(path): removes whatever the path holds by now; ENOENT is thrown. *)
Unlink(t) ==
  /\ At(t, "unlink")
  /\ lockFile' = Absent
  /\ Fail(t, IF lockFile = Absent THEN "refused" ELSE "done")
  /\ UNCHANGED <<running, own, seen, calls, crashes, evicted>>

(* A process dies between two system calls; its tasks are gone, the files   *)
(* stay.                                                                    *)
Crash(p) ==
  /\ p \in running
  /\ crashes < MaxCrashes
  /\ crashes' = crashes + 1
  /\ running' = running \ {p}
  /\ pc' = [t \in Task |-> IF ProcessOf[t] = p THEN "idle" ELSE pc[t]]
  /\ UNCHANGED <<lockFile, own, seen, outcome, calls, evicted>>

(* The operating system gives a dead process's PID to a new one. *)
Restart(p) ==
  /\ p \notin running
  /\ running' = running \cup {p}
  /\ UNCHANGED <<lockFile, pc, own, seen, outcome, calls, crashes, evicted>>

Step(t) ==
  \/ Publish(t) \/ Inspect(t) \/ Probe(t) \/ Quarantine(t)
  \/ Finish(t) \/ Verify(t) \/ Unlink(t)

Next ==
  \/ \E t \in Task : Begin(t) \/ Step(t)
  \/ \E p \in Process : Crash(p) \/ Restart(p)

Spec == Init /\ [][Next]_vars

(* The event loop of a live process runs every step it can run; nothing     *)
(* makes anyone call, crash or restart.                                     *)
FairSpec == Spec /\ \A t \in Task : WF_vars(Step(t))

-----------------------------------------------------------------------------
TypeOK ==
  /\ lockFile \in FileState
  /\ running \subseteq Process
  /\ pc \in [Task -> Steps]
  /\ own \in [Task -> 0..MaxCalls]
  /\ seen \in [Task -> Record \cup {Absent}]
  /\ outcome \in [Task -> Outcomes]
  /\ calls \in 0..MaxCalls
  /\ crashes \in 0..MaxCrashes
  /\ evicted \subseteq Id

(* owner-lock.ts:1 calls the locks exclusive: two live tasks are never both *)
(* inside.  The code breaks it: a contender that probed a dead record       *)
(* renames away the live record another contender published meanwhile.      *)
MutualExclusion == \A t, u \in Holding : t = u

(* As long as no rename has hit a live holder's record, two live tasks are  *)
(* never both inside: that rename is the only way exclusion is lost.        *)
ExclusiveUntilEviction == evicted = {} => MutualExclusion

(* A contender on its way to rename never saw a record whose holder lives,  *)
(* not even when a new process has the dead owner's PID.                    *)
ProbedOwnerIsGone ==
  \A t, u \in Task :
    At(t, "quarantine") /\ Holds(u) => seen[t] # Mine(u)

(* Until an eviction, a task that reached unlink still owns the path, so    *)
(* releasing never removes another task's record.                           *)
ReleaseRemovesOwnRecord ==
  [][\A t \in Task : Unlink(t) /\ evicted = {} => lockFile = Mine(t)]_vars

(* A lost lock is noticed: a holder whose record was renamed away before it *)
(* reads it back is refused its release, whoever holds the path by then.    *)
EvictedIsRefused ==
  [][\A t \in Task : Verify(t) /\ own[t] \in evicted => pc'[t] = "idle"]_vars

(* A release takes away the caller's record or tells the caller it is lost. *)
ReleaseIsHonest == ReleaseRemovesOwnRecord /\ EvictedIsRefused

(* Every call of acquireOwnerLock of a live process ends: inside, busy or   *)
(* unrecoverable; it never loops for good on a stale record.                *)
AcquireEnds ==
  \A t \in Task : pc[t] = "publish" ~> pc[t] \in {"critical", "idle"}

(* Exclusive use as the callers see it, up to the first eviction. *)
Abstract == INSTANCE ExclusiveLock WITH holding <- Holding
ImplementsLockUntilEviction ==
  Abstract!LockInit /\ [][evicted' = {} => Abstract!LockNext]_Holding
=============================================================================
