--------------------------- MODULE ClientOperation ---------------------------
(***************************************************************************)
(* A management mutation and the journal that makes it resumable           *)
(* (cli/core/management): registration.ts, deployments.ts and              *)
(* retirement.ts find or create a journal for their intent, send the       *)
(* request under the journal's operation id, verify the receipt, read the  *)
(* worker back, commit the project's cloud context and remove the journal. *)
(*                                                                         *)
(* Journals and context are written under one project lock for which       *)
(* nobody waits; finding a journal takes no lock.  The server is external: *)
(* it applies an operation id at most once, and its answer may be a        *)
(* success, a refusal or nothing.  A worker is named by the operation that *)
(* registered it.                                                          *)
(***************************************************************************)
EXTENDS Naturals, FiniteSets

CONSTANTS
  Task,          \* invocations of drwn in one project
  Op,            \* operation ids
  Name,          \* names of workers to register
  Intent,        \* what is asked for: a route and a target
  None,          \* no journal, no context, no intent
  MaxFaults      \* bound: crashes, errors and answers other than success

AllIntents == [route : {"register"}, target : Name]
                \cup [route : {"deploy", "retire"}, target : Op]

ASSUME OperationAssumption ==
  /\ Intent \subseteq AllIntents
  /\ None \notin Op \cup Intent
  /\ MaxFaults \in Nat

Phase == {"prepared", "sent", "indeterminate", "receipt_verified", "context_committed"}
ASSUME PhaseAssumption == None \notin Phase

VARIABLES
  journal,       \* the phase of each retained journal
  work,          \* the intent each operation id was drawn for
  litter,        \* a temporary file was left among the journals
  context,       \* the worker in cloud.local.json
  applied,       \* the operations the server has carried out
  removed,       \* history: the operations whose journal was removed
  pc,            \* where each task is
  want,          \* the intent it serves
  mine,          \* the operation it works on
  phase,         \* the phase it believes that operation is in
  goal,          \* the phase it is about to write
  listed,        \* the journals it saw in the directory
  faults

disk == <<journal, work, litter, context>>
task == <<pc, want, mine, phase, goal, listed>>
vars == <<disk, applied, removed, task, faults>>

Steps == {"idle", "load", "create", "advance", "publish", "send", "readback",
          "check", "context", "remove"}
Published == Phase \cup {None}

Init ==
  /\ journal = [o \in Op |-> None]
  /\ work = [o \in Op |-> None]
  /\ litter = FALSE /\ context = None
  /\ applied = {} /\ removed = {}
  /\ pc = [t \in Task |-> "idle"]
  /\ want = [t \in Task |-> None]
  /\ mine = [t \in Task |-> None]
  /\ phase = [t \in Task |-> None]
  /\ goal = [t \in Task |-> None]
  /\ listed = [t \in Task |-> {}]
  /\ faults = 0

Goto(t, step) == pc' = [pc EXCEPT ![t] = step]

(* The project's cloud lock is held while a temporary file is being written *)
(* and renamed; every other use of it is a single step.                     *)
LockIsFree == \A t \in Task : pc[t] # "publish"

(* The task is over; what it remembered is gone. *)
End(t) ==
  /\ Goto(t, "idle")
  /\ want' = [want EXCEPT ![t] = None]
  /\ mine' = [mine EXCEPT ![t] = None]
  /\ phase' = [phase EXCEPT ![t] = None]
  /\ goal' = [goal EXCEPT ![t] = None]
  /\ listed' = [listed EXCEPT ![t] = {}]

-----------------------------------------------------------------------------
(* findMatchingClientOperation: a directory with a foreign entry is refused. *)
Foreign == litter \/ ~ LockIsFree

(* Bound: the ids that are left for an intent; a worker is not named by the *)
(* id that is drawn for it.                                                 *)
Unused(i) == {o \in Op : work[o] = None /\ o # i.target}

List(t) ==
  /\ pc[t] = "idle" /\ ~ Foreign
  /\ \E i \in Intent : /\ Unused(i) \cup {o \in Op : journal[o] # None /\ work[o] = i} # {}
                     /\ want' = [want EXCEPT ![t] = i]
  /\ listed' = [listed EXCEPT ![t] = {o \in Op : journal[o] # None}]
  /\ Goto(t, "load")
  /\ UNCHANGED <<disk, applied, removed, mine, phase, goal, faults>>

(* Mutant: an operation without an answer is not looked for. *)
MatchesAnswered(t) == {o \in listed[t] : journal[o] \notin {None, "indeterminate"} /\ work[o] = want[t]}
Matches(t) == {o \in listed[t] : journal[o] # None /\ work[o] = want[t]}

(* Mutant: a journal that was prepared counts as sent. *)
SendAtOnce(p) == "send"
Resume(p) == IF p = "prepared" THEN "advance" ELSE "send"

Load(t) ==
  /\ pc[t] = "load"
  /\ CASE Matches(t) = {} -> Goto(t, "create") /\ UNCHANGED <<want, mine, phase, goal, listed>>
       [] Cardinality(Matches(t)) > 1 -> End(t)
       [] OTHER -> \E o \in Matches(t) :
            /\ mine' = [mine EXCEPT ![t] = o]
            /\ phase' = [phase EXCEPT ![t] = journal[o]]
            /\ goal' = [goal EXCEPT ![t] = "sent"]
            /\ Goto(t, Resume(journal[o]))
            /\ UNCHANGED <<want, listed>>
  /\ UNCHANGED <<disk, applied, removed, faults>>

-----------------------------------------------------------------------------
(* createClientOperation and advanceClientOperation: a step to check under  *)
(* the lock and write the temporary file, another to rename it.             *)
Create(t) ==
  /\ pc[t] = "create" /\ LockIsFree
  /\ \E o \in Unused(want[t]) :
       /\ work' = [work EXCEPT ![o] = want[t]]
       /\ mine' = [mine EXCEPT ![t] = o]
  /\ goal' = [goal EXCEPT ![t] = "prepared"]
  /\ Goto(t, "publish")
  /\ UNCHANGED <<journal, litter, context, applied, removed, want, phase, listed, faults>>

(* Mutant: the phase the caller believes in is trusted. *)
AnyPhase(from, to) == from # None
Allowed(from, to) ==
  \/ from = "prepared" /\ to = "sent"
  \/ from = "sent" /\ to \in {"indeterminate", "receipt_verified"}
  \/ from = "indeterminate" /\ to = "receipt_verified"
  \/ from = "receipt_verified" /\ to = "context_committed"

Advance(t) ==
  /\ pc[t] = "advance" /\ LockIsFree
  /\ IF Allowed(journal[mine[t]], goal[t])
     THEN Goto(t, "publish") /\ UNCHANGED <<want, mine, phase, goal, listed>>
     ELSE End(t)
  /\ UNCHANGED <<disk, applied, removed, faults>>

route(t) == want[t].route

(* Where the caller goes on once its journal is in phase p. *)
Publish(t) == LET p == goal[t] IN
  /\ pc[t] = "publish"
  /\ journal' = [journal EXCEPT ![mine[t]] = p]
  /\ \/ p = "indeterminate" /\ End(t)
     \/ /\ p # "indeterminate"
        /\ phase' = [phase EXCEPT ![t] = p]
        /\ goal' = [goal EXCEPT ![t] =
             CASE p = "prepared" -> "sent"
               [] p = "sent" -> "receipt_verified"
               [] OTHER -> "context_committed"]
        /\ Goto(t, CASE p = "prepared" -> "advance"
                     [] p = "sent" -> "send"
                     [] p = "receipt_verified" -> IF route(t) = "deploy" THEN "advance" ELSE "readback"
                     [] p = "context_committed" -> "remove")
        /\ UNCHANGED <<want, mine, listed>>
  /\ UNCHANGED <<work, litter, context, applied, removed, faults>>

-----------------------------------------------------------------------------
(* The server, as its callers use it: an id it has seen is answered again, *)
(* a new one must fit the worker's revision.                                *)
Retired(w) == \E o \in applied : work[o] = [route |-> "retire", target |-> w]
Applicable(o) == LET i == work[o] IN
  \/ i.route = "register"
  \/ i.target \in applied /\ ~ Retired(i.target)

Outcomes(o) == {applied} \cup (IF Applicable(o) THEN {applied \cup {o}} ELSE {})

(* Mutant: only a first answer is recorded. *)
AfterFirstReceipt(t) ==
  CASE phase[t] = "sent" -> "advance"
    [] phase[t] # "sent" /\ route(t) # "deploy" -> "readback"
    [] phase[t] = "receipt_verified" /\ route(t) = "deploy" -> "advance"
    [] OTHER -> "remove"

(* A receipt: what is already on record is not recorded again. *)
AfterReceipt(t) ==
  CASE phase[t] \in {"sent", "indeterminate"} -> "advance"
    [] phase[t] \notin {"sent", "indeterminate"} /\ route(t) # "deploy" -> "readback"
    [] phase[t] = "receipt_verified" /\ route(t) = "deploy" -> "advance"
    [] OTHER -> "remove"
NextPhase(p) == IF p \in {"sent", "indeterminate"} THEN "receipt_verified" ELSE "context_committed"

Succeed(t) == LET o == mine[t] IN
  /\ pc[t] = "send"
  /\ o \in applied \/ Applicable(o)
  /\ applied' = applied \cup {o}
  /\ Goto(t, AfterReceipt(t))
  /\ goal' = [goal EXCEPT ![t] = NextPhase(phase[t])]
  /\ UNCHANGED <<disk, removed, want, mine, phase, listed, faults>>

(* No answer: the request may have been applied or not. *)
Indeterminate(t) == LET o == mine[t] IN
  /\ pc[t] = "send" /\ faults < MaxFaults
  /\ faults' = faults + 1
  /\ applied' \in Outcomes(o)
  /\ IF phase[t] = "sent"
     THEN /\ Goto(t, "advance")
          /\ goal' = [goal EXCEPT ![t] = "indeterminate"]
          /\ UNCHANGED <<want, mine, phase, listed>>
     ELSE End(t)
  /\ UNCHANGED <<disk, removed>>

(* A refusal, which is no fault where the request cannot be applied, or a   *)
(* receipt that does not fit the request.                                   *)
Refuse(t) == LET o == mine[t] IN
  /\ pc[t] = "send"
  /\ IF o \in applied \/ Applicable(o)
     THEN faults < MaxFaults /\ faults' = faults + 1
     ELSE UNCHANGED faults
  /\ applied' \in Outcomes(o)
  /\ End(t)
  /\ UNCHANGED <<disk, removed>>

-----------------------------------------------------------------------------
(* Mutant: the worker read back may be retired. *)
AnyWorker(i, o) == TRUE
(* What the worker read back must say. *)
ReadsBack(i, o) == IF i.route = "register" THEN ~ Retired(o) ELSE Retired(i.target)

Readback(t) ==
  /\ pc[t] = "readback"
  /\ IF ReadsBack(want[t], mine[t])
     THEN /\ Goto(t, IF route(t) = "register" /\ phase[t] = "context_committed" THEN "check" ELSE "context")
          /\ UNCHANGED <<want, mine, phase, goal, listed>>
     ELSE End(t)
  /\ UNCHANGED <<disk, applied, removed, faults>>

(* A committed registration must find its own context. *)
CheckContext(t) ==
  /\ pc[t] = "check"
  /\ IF context = mine[t]
     THEN Goto(t, "context") /\ UNCHANGED <<want, mine, phase, goal, listed>>
     ELSE End(t)
  /\ UNCHANGED <<disk, applied, removed, faults>>

(* writeProjectCloudContext or, on retirement, clearProjectCloudContext. *)
NewContext(t) == IF route(t) = "register" THEN mine[t] ELSE None
CommitContext(t) ==
  /\ pc[t] = "context" /\ LockIsFree
  /\ context' = NewContext(t)
  /\ Goto(t, IF phase[t] = "receipt_verified" THEN "advance" ELSE "remove")
  /\ UNCHANGED <<journal, work, litter, applied, removed, want, mine, phase, goal, listed, faults>>

(* removeCompletedClientOperation *)
Remove(t) ==
  /\ pc[t] = "remove" /\ LockIsFree
  /\ IF journal[mine[t]] = "context_committed"
     THEN /\ journal' = [journal EXCEPT ![mine[t]] = None]
          /\ removed' = removed \cup {mine[t]}
     ELSE UNCHANGED <<journal, removed>>
  /\ End(t)
  /\ UNCHANGED <<work, litter, context, applied, faults>>

-----------------------------------------------------------------------------
(* CLOUD_STATE_BUSY: somebody holds the lock, and nobody waits for it. *)
Busy(t) ==
  /\ pc[t] \in {"create", "advance", "context", "remove"} /\ ~ LockIsFree
  /\ End(t)
  /\ UNCHANGED <<disk, applied, removed, faults>>

(* An error or a refused readback: a temporary file is taken away. *)
Fail(t) ==
  /\ pc[t] # "idle" /\ faults < MaxFaults
  /\ faults' = faults + 1
  /\ End(t)
  /\ UNCHANGED <<disk, applied, removed>>

(* The process dies while it writes: the temporary file stays, and the lock *)
(* of the dead is reclaimed.  Anywhere else its death is a Fail.            *)
Crash(t) ==
  /\ pc[t] = "publish" /\ faults < MaxFaults
  /\ faults' = faults + 1
  /\ litter' = TRUE
  /\ End(t)
  /\ UNCHANGED <<journal, work, context, applied, removed>>

Step(t) ==
  \/ List(t) \/ Load(t) \/ Create(t) \/ Advance(t) \/ Publish(t)
  \/ Succeed(t) \/ Readback(t) \/ CheckContext(t) \/ CommitContext(t)
  \/ Remove(t) \/ Busy(t)
Fault(t) == Indeterminate(t) \/ Refuse(t) \/ Fail(t) \/ Crash(t)
Next == \E t \in Task : Step(t) \/ Fault(t)
Spec == Init /\ [][Next]_vars

(* Fairness: a task that runs goes on running, and the same intents are     *)
(* asked for again as long as their journals are there.                     *)
Retry(t, i) == List(t) /\ want'[t] = i
Go(t) == pc[t] # "idle" /\ (Step(t) \/ Fault(t))
LiveSpec == Spec /\ \A t \in Task : WF_vars(Go(t)) /\ \A i \in Intent : SF_vars(Retry(t, i))

-----------------------------------------------------------------------------
TypeOK ==
  /\ journal \in [Op -> Published]
  /\ work \in [Op -> Intent \cup {None}]
  /\ litter \in BOOLEAN /\ context \in Op \cup {None}
  /\ applied \subseteq Op /\ removed \subseteq Op
  /\ pc \in [Task -> Steps]
  /\ want \in [Task -> Intent \cup {None}]
  /\ mine \in [Task -> Op \cup {None}]
  /\ phase \in [Task -> Published] /\ goal \in [Task -> Published]
  /\ listed \in [Task -> SUBSET Op]
  /\ faults \in 0 .. MaxFaults

(* What the server has done and what the disk says of it agree, however     *)
(* many invocations race, fail and die: an operation that may have been     *)
(* applied has a journal past "prepared" until it is complete, a verified   *)
(* or committed journal is of an applied operation, and a journal is only   *)
(* ever removed for one.                                                    *)
AppliedIsRecorded == \A o \in applied :
  o \in removed \/ journal[o] \in Phase \ {"prepared"}
RecordedIsApplied == \A o \in Op :
  journal[o] \in {"receipt_verified", "context_committed"} => o \in applied
RemovedIsApplied == removed \subseteq applied
JournalCoversTheServer == AppliedIsRecorded /\ RecordedIsApplied /\ RemovedIsApplied

(* A phase is never taken back, a journal is created once and goes away     *)
(* only from the last phase: two writers of one journal do not overwrite    *)
(* each other's progress.                                                   *)
Rank(p) == CASE p = None -> 0 [] p = "prepared" -> 1 [] p = "sent" -> 2
             [] p = "indeterminate" -> 3 [] p = "receipt_verified" -> 4 [] OTHER -> 5
PhasesOnlyAdvance == [][\A o \in Op :
  \/ Rank(journal'[o]) >= Rank(journal[o]) /\ (journal[o] = None /\ o \in removed => journal'[o] = None)
  \/ journal[o] = "context_committed" /\ journal'[o] = None]_vars

(* However often an invocation fails, an intent has at most one applied     *)
(* operation that is not complete, so that retrying never registers twice   *)
(* (operation-journal.ts:2: one fingerprint resumes at most one operation). *)
(* It holds for one invocation at a time, and not for two.                  *)
RetryNeverDuplicates == \A i \in Intent :
  Cardinality({o \in applied \ removed : work[o] = i}) <= 1

(* A worker whose retirement completed here is    *)
(* not the project's selected worker afterwards, even when its interrupted  *)
(* registration is resumed.                                                 *)
NoRetiredWorkerIsSelected == \A o \in removed :
  work[o].route = "retire" => context # work[o].target

(* One invocation at a time: retrying neither applies an intent twice nor   *)
(* selects what is retired, whatever the earlier attempts died of.          *)
RetriesAreHarmless == RetryNeverDuplicates /\ NoRetiredWorkerIsSelected

(* Another operation overtook it: the worker it would select or change is   *)
(* retired, or the context it committed is another's by now.                *)
Overtaken(o) == LET i == work[o] IN
  CASE i.route = "register" -> \/ Retired(o)
                               \/ journal[o] = "context_committed" /\ context # o
    [] OTHER -> Retired(i.target) \/ i.target \notin applied

(* An intent retried after errors: its journal is completed and removed in  *)
(* the end, unless another operation overtook it or a crash left a          *)
(* temporary file among the journals.                                       *)
RetriedOperationFinishes == \A o \in Op :
  journal[o] # None ~> journal[o] = None \/ litter \/ Overtaken(o)

AllIdle == \A t \in Task : pc[t] = "idle"

(* What operation-journal.ts:1 calls resumable: whatever the last           *)
(* invocation died of, the next one can search the retained journals.       *)
RetainedIsResumable == AllIdle /\ litter => \A o \in Op : journal[o] = None

(* What core-management-registration.test.ts:196 says: a registration that  *)
(* stops before its journal is removed can be resumed and finish.           *)
CommittedCanFinish == AllIdle => \A o \in Op :
  journal[o] = "context_committed" /\ work[o].route = "register" => context = o
=============================================================================
