------------------------ MODULE ClientOperationProofs ------------------------
(***************************************************************************)
(* Proofs about ClientOperation: what the server has done and what the     *)
(* journals say agree, and phases only advance, for any number of          *)
(* invocations, operations, faults and crashes.                            *)
(*                                                                         *)
(* The invariants are not inductive: that a receipt may be recorded rests  *)
(* on what the task remembers of its operation, on the journal its write   *)
(* was checked against being still the same when the write lands, and on   *)
(* fresh ids being unknown to disk and server.                             *)
(*                                                                         *)
(* The second half is about the composition that TLC runs, and about what  *)
(* it puts beside the operations: the materialization of an Org Worker     *)
(* (OrgWorkerMaterialization), whose receipts, once MaterializationInv is  *)
(* known, bind to what the project holds.                                  *)
(***************************************************************************)
EXTENDS MCRetries, FiniteSetTheorems, TLAPS

(* The request of o may have been sent. *)
IsSent(o) == journal[o] \in Phase \ {"prepared"} \/ o \in removed

(* An id that was not drawn is known nowhere; a removed journal stays away. *)
Fresh == \A o \in Op :
  /\ work[o] = None => journal[o] = None /\ o \notin applied /\ o \notin removed
  /\ o \in removed => journal[o] = None

(* The write t is about to land is one the journal still allows. *)
WriteIsAllowed(t) ==
  \/ goal[t] = "prepared" /\ journal[mine[t]] = None
       /\ mine[t] \notin applied /\ mine[t] \notin removed
  \/ Allowed(journal[mine[t]], goal[t])

(* What task t remembers of its operation. *)
Knows(t) ==
  /\ pc[t] # "idle" => want[t] \in Intent
  /\ pc[t] \notin {"idle", "load", "create"} => mine[t] \in Op /\ work[mine[t]] # None
  /\ pc[t] \in {"advance", "publish"} =>
       /\ goal[t] \in Phase
       /\ goal[t] \in {"receipt_verified", "context_committed"} => mine[t] \in applied
  /\ pc[t] = "publish" => WriteIsAllowed(t)
  /\ pc[t] \in {"send", "readback", "check", "context", "remove"} => IsSent(mine[t])
  /\ pc[t] \in {"send", "readback", "check", "context"} => phase[t] \in Phase \ {"prepared"}
  /\ pc[t] \in {"send", "readback", "check", "context"} /\ phase[t] \in {"receipt_verified", "context_committed"} => mine[t] \in applied
  /\ pc[t] \in {"readback", "check", "context"} => goal[t] \in Phase
  /\ pc[t] \in {"readback", "check", "context", "remove"} => mine[t] \in applied

(* The lock lets one task write at a time. *)
OneWriter == \A s, t \in Task : pc[s] = "publish" /\ pc[t] = "publish" => s = t

IInv ==
  /\ TypeOK
  /\ JournalCoversTheServer
  /\ Fresh
  /\ \A t \in Task : Knows(t)
  /\ OneWriter

LEMMA InitIInv == Init => IInv
  <1> SUFFICES ASSUME Init PROVE IInv
    OBVIOUS
  <1>1. TypeOK
    <2>1. faults \in 0 .. MaxFaults
      BY OperationAssumption DEF Init
    <2>2. litter \in BOOLEAN /\ pc \in [Task -> Steps]
      BY DEF Init, Steps
    <2>3. QED BY <2>1, <2>2 DEF Init, TypeOK, Published
  <1>2. JournalCoversTheServer /\ Fresh
    BY PhaseAssumption DEF Init, JournalCoversTheServer, AppliedIsRecorded, RecordedIsApplied,
       RemovedIsApplied, Fresh, Phase
  <1>3. OneWriter /\ \A t \in Task : Knows(t)
    BY DEF Init, OneWriter, Knows
  <1>4. QED BY <1>1, <1>2, <1>3 DEF IInv

(* The search takes nothing from the disk yet. *)
LEMMA ListIInv == ASSUME IInv, NEW t \in Task, List(t) PROVE IInv'
  <1> USE OperationAssumption, PhaseAssumption
  <1>1. TypeOK'
    BY DEF List, Goto, End, LockIsFree, disk, task, vars, IInv, TypeOK, Published, Phase, Steps, Knows
  <1>2. JournalCoversTheServer'
    BY DEF List, Goto, End, LockIsFree, disk, task, vars, IInv, TypeOK, Published, Phase, Steps, JournalCoversTheServer, AppliedIsRecorded, RecordedIsApplied,
       RemovedIsApplied, Fresh, Knows, IsSent, WriteIsAllowed, Allowed
  <1>3. Fresh'
    BY DEF List, Goto, End, LockIsFree, disk, task, vars, IInv, TypeOK, Published, Phase, Steps, Fresh, Knows, IsSent, WriteIsAllowed, Allowed,
       JournalCoversTheServer, RemovedIsApplied
  <1>4. OneWriter'
    BY DEF List, Goto, End, LockIsFree, disk, task, vars, IInv, TypeOK, Published, Phase, Steps, OneWriter
  <1>5. ASSUME NEW s \in Task PROVE Knows(s)'
    BY DEF List, Goto, End, LockIsFree, disk, task, vars, IInv, TypeOK, Published, Phase, Steps, OneWriter, Fresh, Knows, IsSent, WriteIsAllowed, Allowed,
       JournalCoversTheServer, RecordedIsApplied, AppliedIsRecorded
  <1>6. QED BY <1>1, <1>2, <1>3, <1>4, <1>5 DEF IInv

(* A journal that is found is what the task then believes in. *)
LEMMA LoadIInv == ASSUME IInv, NEW t \in Task, Load(t) PROVE IInv'
  <1> USE OperationAssumption, PhaseAssumption
  <1>1. TypeOK'
    BY DEF Load, Goto, End, LockIsFree, disk, task, vars, Matches, Resume, IInv, TypeOK, Published, Phase, Steps, Knows
  <1>2. JournalCoversTheServer'
    BY DEF Load, Goto, End, LockIsFree, disk, task, vars, Matches, Resume, IInv, TypeOK, Published, Phase, Steps, JournalCoversTheServer, AppliedIsRecorded, RecordedIsApplied,
       RemovedIsApplied, Fresh, Knows, IsSent, WriteIsAllowed, Allowed
  <1>3. Fresh'
    BY DEF Load, Goto, End, LockIsFree, disk, task, vars, Matches, Resume, IInv, TypeOK, Published, Phase, Steps, Fresh, Knows, IsSent, WriteIsAllowed, Allowed,
       JournalCoversTheServer, RemovedIsApplied
  <1>4. OneWriter'
    BY DEF Load, Goto, End, LockIsFree, disk, task, vars, Matches, Resume, IInv, TypeOK, Published, Phase, Steps, OneWriter
  <1>5. ASSUME NEW s \in Task PROVE Knows(s)'
    BY DEF Load, Goto, End, LockIsFree, disk, task, vars, Matches, Resume, IInv, TypeOK, Published, Phase, Steps, OneWriter, Fresh, Knows, IsSent, WriteIsAllowed, Allowed,
       JournalCoversTheServer, RecordedIsApplied, AppliedIsRecorded
  <1>6. QED BY <1>1, <1>2, <1>3, <1>4, <1>5 DEF IInv

(* A fresh id is one nobody works on. *)
LEMMA CreateIInv == ASSUME IInv, NEW t \in Task, Create(t) PROVE IInv'
  <1> USE OperationAssumption, PhaseAssumption
  <1>1. TypeOK'
    BY DEF Create, Unused, Goto, End, LockIsFree, disk, task, vars, IInv, TypeOK, Published, Phase, Steps, Knows
  <1>2. JournalCoversTheServer'
    BY DEF Create, Unused, Goto, End, LockIsFree, disk, task, vars, IInv, TypeOK, Published, Phase, Steps, JournalCoversTheServer, AppliedIsRecorded, RecordedIsApplied,
       RemovedIsApplied, Fresh, Knows, IsSent, WriteIsAllowed, Allowed
  <1>3. Fresh'
    BY DEF Create, Unused, Goto, End, LockIsFree, disk, task, vars, IInv, TypeOK, Published, Phase, Steps, Fresh, Knows, IsSent, WriteIsAllowed, Allowed,
       JournalCoversTheServer, RemovedIsApplied
  <1>4. OneWriter'
    BY DEF Create, Unused, Goto, End, LockIsFree, disk, task, vars, IInv, TypeOK, Published, Phase, Steps, OneWriter
  <1>5. ASSUME NEW s \in Task PROVE Knows(s)'
    BY DEF Create, Unused, Goto, End, LockIsFree, disk, task, vars, IInv, TypeOK, Published, Phase, Steps, OneWriter, Fresh, Knows, IsSent, WriteIsAllowed, Allowed,
       JournalCoversTheServer, RecordedIsApplied, AppliedIsRecorded
  <1>6. QED BY <1>1, <1>2, <1>3, <1>4, <1>5 DEF IInv

(* What is checked under the lock stays true until the write lands. *)
LEMMA AdvanceIInv == ASSUME IInv, NEW t \in Task, Advance(t) PROVE IInv'
  <1> USE OperationAssumption, PhaseAssumption
  <1>1. TypeOK'
    BY DEF Advance, Goto, End, LockIsFree, disk, task, vars, Allowed, IInv, TypeOK, Published, Phase, Steps, Knows
  <1>2. JournalCoversTheServer'
    BY DEF Advance, Goto, End, LockIsFree, disk, task, vars, Allowed, IInv, TypeOK, Published, Phase, Steps, JournalCoversTheServer, AppliedIsRecorded, RecordedIsApplied,
       RemovedIsApplied, Fresh, Knows, IsSent, WriteIsAllowed, Allowed
  <1>3. Fresh'
    BY DEF Advance, Goto, End, LockIsFree, disk, task, vars, Allowed, IInv, TypeOK, Published, Phase, Steps, Fresh, Knows, IsSent, WriteIsAllowed, Allowed,
       JournalCoversTheServer, RemovedIsApplied
  <1>4. OneWriter'
    BY DEF Advance, Goto, End, LockIsFree, disk, task, vars, Allowed, IInv, TypeOK, Published, Phase, Steps, OneWriter
  <1>5. ASSUME NEW s \in Task PROVE Knows(s)'
    BY DEF Advance, Goto, End, LockIsFree, disk, task, vars, Allowed, IInv, TypeOK, Published, Phase, Steps, OneWriter, Fresh, Knows, IsSent, WriteIsAllowed, Allowed,
       JournalCoversTheServer, RecordedIsApplied, AppliedIsRecorded
  <1>6. QED BY <1>1, <1>2, <1>3, <1>4, <1>5 DEF IInv

(* The write lands on the journal it was checked against. *)
LEMMA PublishIInv == ASSUME IInv, NEW t \in Task, Publish(t) PROVE IInv'
  <1> USE OperationAssumption, PhaseAssumption
  <1>1. TypeOK'
    <2>1. mine[t] \in Op /\ goal[t] \in Phase /\ TypeOK
      BY DEF Publish, IInv, Knows
    <2>2. journal' \in [Op -> Published]
      BY <2>1 DEF Publish, TypeOK, Published
    <2>3. CASE goal[t] = "indeterminate"
      BY <2>1, <2>2, <2>3 DEF Publish, End, Goto, TypeOK, Published, Steps
    <2>4. CASE goal[t] # "indeterminate"
      <3>1. phase' \in [Task -> Published] /\ goal' \in [Task -> Published]
        BY <2>1, <2>4 DEF Publish, TypeOK, Published, Phase
      <3>2. pc' \in [Task -> Steps]
        BY <2>1, <2>4 DEF Publish, Goto, TypeOK, Steps, Phase
      <3>3. QED BY <2>1, <2>2, <2>4, <3>1, <3>2 DEF Publish, TypeOK
    <2>5. QED BY <2>3, <2>4
  <1>2. JournalCoversTheServer'
    BY DEF Publish, Goto, End, LockIsFree, disk, task, vars, route, IInv, TypeOK, Published, Phase, Steps, JournalCoversTheServer, AppliedIsRecorded, RecordedIsApplied,
       RemovedIsApplied, Fresh, Knows, IsSent, WriteIsAllowed, Allowed
  <1>3. Fresh'
    BY DEF Publish, Goto, End, LockIsFree, disk, task, vars, route, IInv, TypeOK, Published, Phase, Steps, Fresh, Knows, IsSent, WriteIsAllowed, Allowed,
       JournalCoversTheServer, RemovedIsApplied
  <1>4. OneWriter'
    BY DEF Publish, Goto, End, LockIsFree, disk, task, vars, route, IInv, TypeOK, Published, Phase, Steps, OneWriter
  <1>5. ASSUME NEW s \in Task PROVE Knows(s)'
    BY DEF Publish, Goto, End, LockIsFree, disk, task, vars, route, IInv, TypeOK, Published, Phase, Steps, OneWriter, Fresh, Knows, IsSent, WriteIsAllowed, Allowed,
       JournalCoversTheServer, RecordedIsApplied, AppliedIsRecorded
  <1>6. QED BY <1>1, <1>2, <1>3, <1>4, <1>5 DEF IInv

(* A request that was answered had been sent. *)
LEMMA SucceedIInv == ASSUME IInv, NEW t \in Task, Succeed(t) PROVE IInv'
  <1> USE OperationAssumption, PhaseAssumption
  <1>1. TypeOK'
    BY DEF Succeed, Goto, End, LockIsFree, disk, task, vars, AfterReceipt, NextPhase, route, IInv, TypeOK, Published, Phase, Steps, Knows
  <1>2. JournalCoversTheServer'
    BY DEF Succeed, Goto, End, LockIsFree, disk, task, vars, AfterReceipt, NextPhase, route, IInv, TypeOK, Published, Phase, Steps, JournalCoversTheServer, AppliedIsRecorded, RecordedIsApplied,
       RemovedIsApplied, Fresh, Knows, IsSent, WriteIsAllowed, Allowed
  <1>3. Fresh'
    BY DEF Succeed, Goto, End, LockIsFree, disk, task, vars, AfterReceipt, NextPhase, route, IInv, TypeOK, Published, Phase, Steps, Fresh, Knows, IsSent, WriteIsAllowed, Allowed,
       JournalCoversTheServer, RemovedIsApplied
  <1>4. OneWriter'
    BY DEF Succeed, Goto, End, LockIsFree, disk, task, vars, AfterReceipt, NextPhase, route, IInv, TypeOK, Published, Phase, Steps, OneWriter
  <1>5. ASSUME NEW s \in Task PROVE Knows(s)'
    BY DEF Succeed, Goto, End, LockIsFree, disk, task, vars, AfterReceipt, NextPhase, route, IInv, TypeOK, Published, Phase, Steps, OneWriter, Fresh, Knows, IsSent, WriteIsAllowed, Allowed,
       JournalCoversTheServer, RecordedIsApplied, AppliedIsRecorded
  <1>6. QED BY <1>1, <1>2, <1>3, <1>4, <1>5 DEF IInv

(* Only a verified operation is read back. *)
LEMMA ReadbackIInv == ASSUME IInv, NEW t \in Task, Readback(t) PROVE IInv'
  <1> USE OperationAssumption, PhaseAssumption
  <1>1. TypeOK'
    BY DEF Readback, Goto, End, LockIsFree, disk, task, vars, ReadsBack, route, IInv, TypeOK, Published, Phase, Steps, Knows
  <1>2. JournalCoversTheServer'
    BY DEF Readback, Goto, End, LockIsFree, disk, task, vars, ReadsBack, route, IInv, TypeOK, Published, Phase, Steps, JournalCoversTheServer, AppliedIsRecorded, RecordedIsApplied,
       RemovedIsApplied, Fresh, Knows, IsSent, WriteIsAllowed, Allowed
  <1>3. Fresh'
    BY DEF Readback, Goto, End, LockIsFree, disk, task, vars, ReadsBack, route, IInv, TypeOK, Published, Phase, Steps, Fresh, Knows, IsSent, WriteIsAllowed, Allowed,
       JournalCoversTheServer, RemovedIsApplied
  <1>4. OneWriter'
    BY DEF Readback, Goto, End, LockIsFree, disk, task, vars, ReadsBack, route, IInv, TypeOK, Published, Phase, Steps, OneWriter
  <1>5. ASSUME NEW s \in Task PROVE Knows(s)'
    BY DEF Readback, Goto, End, LockIsFree, disk, task, vars, ReadsBack, route, IInv, TypeOK, Published, Phase, Steps, OneWriter, Fresh, Knows, IsSent, WriteIsAllowed, Allowed,
       JournalCoversTheServer, RecordedIsApplied, AppliedIsRecorded
  <1>6. QED BY <1>1, <1>2, <1>3, <1>4, <1>5 DEF IInv

(* The check of the context changes nothing. *)
LEMMA CheckContextIInv == ASSUME IInv, NEW t \in Task, CheckContext(t) PROVE IInv'
  <1> USE OperationAssumption, PhaseAssumption
  <1>1. TypeOK'
    BY DEF CheckContext, Goto, End, LockIsFree, disk, task, vars, IInv, TypeOK, Published, Phase, Steps, Knows
  <1>2. JournalCoversTheServer'
    BY DEF CheckContext, Goto, End, LockIsFree, disk, task, vars, IInv, TypeOK, Published, Phase, Steps, JournalCoversTheServer, AppliedIsRecorded, RecordedIsApplied,
       RemovedIsApplied, Fresh, Knows, IsSent, WriteIsAllowed, Allowed
  <1>3. Fresh'
    BY DEF CheckContext, Goto, End, LockIsFree, disk, task, vars, IInv, TypeOK, Published, Phase, Steps, Fresh, Knows, IsSent, WriteIsAllowed, Allowed,
       JournalCoversTheServer, RemovedIsApplied
  <1>4. OneWriter'
    BY DEF CheckContext, Goto, End, LockIsFree, disk, task, vars, IInv, TypeOK, Published, Phase, Steps, OneWriter
  <1>5. ASSUME NEW s \in Task PROVE Knows(s)'
    BY DEF CheckContext, Goto, End, LockIsFree, disk, task, vars, IInv, TypeOK, Published, Phase, Steps, OneWriter, Fresh, Knows, IsSent, WriteIsAllowed, Allowed,
       JournalCoversTheServer, RecordedIsApplied, AppliedIsRecorded
  <1>6. QED BY <1>1, <1>2, <1>3, <1>4, <1>5 DEF IInv

(* The context is written for a verified operation. *)
LEMMA CommitContextIInv == ASSUME IInv, NEW t \in Task, CommitContext(t) PROVE IInv'
  <1> USE OperationAssumption, PhaseAssumption
  <1>1. TypeOK'
    BY DEF CommitContext, Goto, End, LockIsFree, disk, task, vars, NewContext, route, IInv, TypeOK, Published, Phase, Steps, Knows
  <1>2. JournalCoversTheServer'
    BY DEF CommitContext, Goto, End, LockIsFree, disk, task, vars, NewContext, route, IInv, TypeOK, Published, Phase, Steps, JournalCoversTheServer, AppliedIsRecorded, RecordedIsApplied,
       RemovedIsApplied, Fresh, Knows, IsSent, WriteIsAllowed, Allowed
  <1>3. Fresh'
    BY DEF CommitContext, Goto, End, LockIsFree, disk, task, vars, NewContext, route, IInv, TypeOK, Published, Phase, Steps, Fresh, Knows, IsSent, WriteIsAllowed, Allowed,
       JournalCoversTheServer, RemovedIsApplied
  <1>4. OneWriter'
    BY DEF CommitContext, Goto, End, LockIsFree, disk, task, vars, NewContext, route, IInv, TypeOK, Published, Phase, Steps, OneWriter
  <1>5. ASSUME NEW s \in Task PROVE Knows(s)'
    BY DEF CommitContext, Goto, End, LockIsFree, disk, task, vars, NewContext, route, IInv, TypeOK, Published, Phase, Steps, OneWriter, Fresh, Knows, IsSent, WriteIsAllowed, Allowed,
       JournalCoversTheServer, RecordedIsApplied, AppliedIsRecorded
  <1>6. QED BY <1>1, <1>2, <1>3, <1>4, <1>5 DEF IInv

(* Only a committed, hence applied, operation loses its journal. *)
LEMMA RemoveIInv == ASSUME IInv, NEW t \in Task, Remove(t) PROVE IInv'
  <1> USE OperationAssumption, PhaseAssumption
  <1>1. TypeOK'
    BY DEF Remove, Goto, End, LockIsFree, disk, task, vars, IInv, TypeOK, Published, Phase, Steps, Knows
  <1>2. JournalCoversTheServer'
    BY DEF Remove, Goto, End, LockIsFree, disk, task, vars, IInv, TypeOK, Published, Phase, Steps, JournalCoversTheServer, AppliedIsRecorded, RecordedIsApplied,
       RemovedIsApplied, Fresh, Knows, IsSent, WriteIsAllowed, Allowed
  <1>3. Fresh'
    BY DEF Remove, Goto, End, LockIsFree, disk, task, vars, IInv, TypeOK, Published, Phase, Steps, Fresh, Knows, IsSent, WriteIsAllowed, Allowed,
       JournalCoversTheServer, RemovedIsApplied
  <1>4. OneWriter'
    BY DEF Remove, Goto, End, LockIsFree, disk, task, vars, IInv, TypeOK, Published, Phase, Steps, OneWriter
  <1>5. ASSUME NEW s \in Task PROVE Knows(s)'
    BY DEF Remove, Goto, End, LockIsFree, disk, task, vars, IInv, TypeOK, Published, Phase, Steps, OneWriter, Fresh, Knows, IsSent, WriteIsAllowed, Allowed,
       JournalCoversTheServer, RecordedIsApplied, AppliedIsRecorded
  <1>6. QED BY <1>1, <1>2, <1>3, <1>4, <1>5 DEF IInv

(* A task that is refused the lock forgets. *)
LEMMA BusyIInv == ASSUME IInv, NEW t \in Task, Busy(t) PROVE IInv'
  <1> USE OperationAssumption, PhaseAssumption
  <1>1. TypeOK'
    BY DEF Busy, Goto, End, LockIsFree, disk, task, vars, IInv, TypeOK, Published, Phase, Steps, Knows
  <1>2. JournalCoversTheServer'
    BY DEF Busy, Goto, End, LockIsFree, disk, task, vars, IInv, TypeOK, Published, Phase, Steps, JournalCoversTheServer, AppliedIsRecorded, RecordedIsApplied,
       RemovedIsApplied, Fresh, Knows, IsSent, WriteIsAllowed, Allowed
  <1>3. Fresh'
    BY DEF Busy, Goto, End, LockIsFree, disk, task, vars, IInv, TypeOK, Published, Phase, Steps, Fresh, Knows, IsSent, WriteIsAllowed, Allowed,
       JournalCoversTheServer, RemovedIsApplied
  <1>4. OneWriter'
    BY DEF Busy, Goto, End, LockIsFree, disk, task, vars, IInv, TypeOK, Published, Phase, Steps, OneWriter
  <1>5. ASSUME NEW s \in Task PROVE Knows(s)'
    BY DEF Busy, Goto, End, LockIsFree, disk, task, vars, IInv, TypeOK, Published, Phase, Steps, OneWriter, Fresh, Knows, IsSent, WriteIsAllowed, Allowed,
       JournalCoversTheServer, RecordedIsApplied, AppliedIsRecorded
  <1>6. QED BY <1>1, <1>2, <1>3, <1>4, <1>5 DEF IInv

(* An operation that may have been applied had been sent. *)
LEMMA IndeterminateIInv == ASSUME IInv, NEW t \in Task, Indeterminate(t) PROVE IInv'
  <1> USE OperationAssumption, PhaseAssumption
  <1>1. TypeOK'
    BY SMTT(30) DEF Indeterminate, Goto, End, LockIsFree, disk, task, vars, Outcomes, IInv, TypeOK, Published, Phase, Steps, Knows
  <1>2. JournalCoversTheServer'
    BY DEF Indeterminate, Goto, End, LockIsFree, disk, task, vars, Outcomes, IInv, TypeOK, Published, Phase, Steps, JournalCoversTheServer, AppliedIsRecorded, RecordedIsApplied,
       RemovedIsApplied, Fresh, Knows, IsSent, WriteIsAllowed, Allowed
  <1>3. Fresh'
    BY DEF Indeterminate, Goto, End, LockIsFree, disk, task, vars, Outcomes, IInv, TypeOK, Published, Phase, Steps, Fresh, Knows, IsSent, WriteIsAllowed, Allowed,
       JournalCoversTheServer, RemovedIsApplied
  <1>4. OneWriter'
    BY DEF Indeterminate, Goto, End, LockIsFree, disk, task, vars, Outcomes, IInv, TypeOK, Published, Phase, Steps, OneWriter
  <1>5. ASSUME NEW s \in Task PROVE Knows(s)'
    BY DEF Indeterminate, Goto, End, LockIsFree, disk, task, vars, Outcomes, IInv, TypeOK, Published, Phase, Steps, OneWriter, Fresh, Knows, IsSent, WriteIsAllowed, Allowed,
       JournalCoversTheServer, RecordedIsApplied, AppliedIsRecorded
  <1>6. QED BY <1>1, <1>2, <1>3, <1>4, <1>5 DEF IInv

(* An operation that may have been applied had been sent. *)
LEMMA RefuseIInv == ASSUME IInv, NEW t \in Task, Refuse(t) PROVE IInv'
  <1> USE OperationAssumption, PhaseAssumption
  <1>1. TypeOK'
    BY DEF Refuse, Goto, End, LockIsFree, disk, task, vars, Outcomes, IInv, TypeOK, Published, Phase, Steps, Knows
  <1>2. JournalCoversTheServer'
    BY DEF Refuse, Goto, End, LockIsFree, disk, task, vars, Outcomes, IInv, TypeOK, Published, Phase, Steps, JournalCoversTheServer, AppliedIsRecorded, RecordedIsApplied,
       RemovedIsApplied, Fresh, Knows, IsSent, WriteIsAllowed, Allowed
  <1>3. Fresh'
    BY DEF Refuse, Goto, End, LockIsFree, disk, task, vars, Outcomes, IInv, TypeOK, Published, Phase, Steps, Fresh, Knows, IsSent, WriteIsAllowed, Allowed,
       JournalCoversTheServer, RemovedIsApplied
  <1>4. OneWriter'
    BY DEF Refuse, Goto, End, LockIsFree, disk, task, vars, Outcomes, IInv, TypeOK, Published, Phase, Steps, OneWriter
  <1>5. ASSUME NEW s \in Task PROVE Knows(s)'
    BY DEF Refuse, Goto, End, LockIsFree, disk, task, vars, Outcomes, IInv, TypeOK, Published, Phase, Steps, OneWriter, Fresh, Knows, IsSent, WriteIsAllowed, Allowed,
       JournalCoversTheServer, RecordedIsApplied, AppliedIsRecorded
  <1>6. QED BY <1>1, <1>2, <1>3, <1>4, <1>5 DEF IInv

(* A task that fails forgets. *)
LEMMA FailIInv == ASSUME IInv, NEW t \in Task, Fail(t) PROVE IInv'
  <1> USE OperationAssumption, PhaseAssumption
  <1>1. TypeOK'
    BY DEF Fail, Goto, End, LockIsFree, disk, task, vars, IInv, TypeOK, Published, Phase, Steps, Knows
  <1>2. JournalCoversTheServer'
    BY DEF Fail, Goto, End, LockIsFree, disk, task, vars, IInv, TypeOK, Published, Phase, Steps, JournalCoversTheServer, AppliedIsRecorded, RecordedIsApplied,
       RemovedIsApplied, Fresh, Knows, IsSent, WriteIsAllowed, Allowed
  <1>3. Fresh'
    BY DEF Fail, Goto, End, LockIsFree, disk, task, vars, IInv, TypeOK, Published, Phase, Steps, Fresh, Knows, IsSent, WriteIsAllowed, Allowed,
       JournalCoversTheServer, RemovedIsApplied
  <1>4. OneWriter'
    BY DEF Fail, Goto, End, LockIsFree, disk, task, vars, IInv, TypeOK, Published, Phase, Steps, OneWriter
  <1>5. ASSUME NEW s \in Task PROVE Knows(s)'
    BY DEF Fail, Goto, End, LockIsFree, disk, task, vars, IInv, TypeOK, Published, Phase, Steps, OneWriter, Fresh, Knows, IsSent, WriteIsAllowed, Allowed,
       JournalCoversTheServer, RecordedIsApplied, AppliedIsRecorded
  <1>6. QED BY <1>1, <1>2, <1>3, <1>4, <1>5 DEF IInv

(* A task that dies forgets; its lock is free. *)
LEMMA CrashIInv == ASSUME IInv, NEW t \in Task, Crash(t) PROVE IInv'
  <1> USE OperationAssumption, PhaseAssumption
  <1>1. TypeOK'
    BY DEF Crash, Goto, End, LockIsFree, disk, task, vars, IInv, TypeOK, Published, Phase, Steps, Knows
  <1>2. JournalCoversTheServer'
    BY DEF Crash, Goto, End, LockIsFree, disk, task, vars, IInv, TypeOK, Published, Phase, Steps, JournalCoversTheServer, AppliedIsRecorded, RecordedIsApplied,
       RemovedIsApplied, Fresh, Knows, IsSent, WriteIsAllowed, Allowed
  <1>3. Fresh'
    BY DEF Crash, Goto, End, LockIsFree, disk, task, vars, IInv, TypeOK, Published, Phase, Steps, Fresh, Knows, IsSent, WriteIsAllowed, Allowed,
       JournalCoversTheServer, RemovedIsApplied
  <1>4. OneWriter'
    BY DEF Crash, Goto, End, LockIsFree, disk, task, vars, IInv, TypeOK, Published, Phase, Steps, OneWriter
  <1>5. ASSUME NEW s \in Task PROVE Knows(s)'
    BY DEF Crash, Goto, End, LockIsFree, disk, task, vars, IInv, TypeOK, Published, Phase, Steps, OneWriter, Fresh, Knows, IsSent, WriteIsAllowed, Allowed,
       JournalCoversTheServer, RecordedIsApplied, AppliedIsRecorded
  <1>6. QED BY <1>1, <1>2, <1>3, <1>4, <1>5 DEF IInv

LEMMA NextIInv == IInv /\ [Next]_vars => IInv'
  <1> SUFFICES ASSUME IInv, [Next]_vars PROVE IInv'
    OBVIOUS
  <1>1. ASSUME NEW t \in Task, Step(t) PROVE IInv'
    BY <1>1, ListIInv, LoadIInv, CreateIInv, AdvanceIInv, PublishIInv, SucceedIInv,
       ReadbackIInv, CheckContextIInv, CommitContextIInv, RemoveIInv, BusyIInv
    DEF Step
  <1>2. ASSUME NEW t \in Task, Fault(t) PROVE IInv'
    BY <1>2, IndeterminateIInv, RefuseIInv, FailIInv, CrashIInv
    DEF Fault
  <1>3. CASE UNCHANGED vars
    BY <1>3 DEF vars, disk, task, IInv, TypeOK, JournalCoversTheServer, AppliedIsRecorded,
       RecordedIsApplied, RemovedIsApplied, Fresh, Knows, IsSent, WriteIsAllowed, OneWriter
  <1>4. QED BY <1>1, <1>2, <1>3 DEF Next

LEMMA SpecIInv == Spec => []IInv
  BY InitIInv, NextIInv, PTL DEF Spec

(* Every variable keeps its type, for any tasks, operations and intents. *)
THEOREM SpecTypeOK == Spec => []TypeOK
  BY SpecIInv, PTL DEF IInv

(* For any number of invocations, lost answers, errors and crashes: what    *)
(* the server applied has a journal past "prepared" until it is complete,   *)
(* and a verified, committed or removed journal is of an applied operation. *)
THEOREM ServerAndJournalsAgree == Spec => []JournalCoversTheServer
  BY SpecIInv, PTL DEF IInv

(* A single step of an inductive state never takes a phase back. *)
LEMMA StepOnlyAdvances ==
  ASSUME IInv, [Next]_vars, NEW o \in Op
  PROVE  \/ Rank(journal'[o]) >= Rank(journal[o]) /\ (journal[o] = None /\ o \in removed => journal'[o] = None)
         \/ journal[o] = "context_committed" /\ journal'[o] = None
  <1> USE OperationAssumption, PhaseAssumption
  <1>1. CASE journal' = journal
    <2>1. Rank(journal[o]) \in Nat
      BY DEF Rank
    <2>2. QED BY <1>1, <2>1
  <1>2. ASSUME NEW t \in Task, Publish(t), mine[t] = o
        PROVE  Rank(journal'[o]) >= Rank(journal[o]) /\ (journal[o] = None /\ o \in removed => journal'[o] = None)
    <2>1. journal'[o] = goal[t] /\ goal[t] \in Phase /\ WriteIsAllowed(t)
      BY <1>2 DEF Publish, IInv, TypeOK, Knows
    <2>2. QED BY <1>2, <2>1 DEF WriteIsAllowed, Allowed, Rank, Phase
  <1>3. ASSUME NEW t \in Task, Publish(t), mine[t] # o PROVE journal'[o] = journal[o]
    BY <1>3 DEF Publish, IInv, TypeOK
  <1>4. ASSUME NEW t \in Task, Remove(t)
        PROVE  \/ journal'[o] = journal[o]
               \/ journal[o] = "context_committed" /\ journal'[o] = None
    BY <1>4 DEF Remove, IInv, TypeOK
  <1>5. (\E t \in Task : Publish(t) \/ Remove(t)) \/ journal' = journal
    BY DEF Next, Step, Fault, List, Load, Create, Advance, Succeed, Readback, CheckContext, CommitContext,
       Busy, Indeterminate, Refuse, Fail, Crash, vars, disk
  <1>6. Rank(journal[o]) \in Nat
    BY DEF Rank
  <1>7. QED BY <1>1, <1>2, <1>3, <1>4, <1>5, <1>6

(* No interleaving of invocations takes a journal's phase back, creates it  *)
(* twice or removes it before its last phase.                               *)
THEOREM PhasesNeverGoBack == Spec => PhasesOnlyAdvance
  <1>1. IInv /\ [Next]_vars => [\A o \in Op :
          \/ Rank(journal'[o]) >= Rank(journal[o]) /\ (journal[o] = None /\ o \in removed => journal'[o] = None)
          \/ journal[o] = "context_committed" /\ journal'[o] = None]_vars
    BY StepOnlyAdvances
  <1>2. QED BY <1>1, SpecIInv, PTL DEF Spec, PhasesOnlyAdvance

-----------------------------------------------------------------------------
(* One invocation at a time.  The search then sees all journals there are,  *)
(* so that no intent gets a second one, and what a call has read back is    *)
(* still so when it commits the context.                                    *)
OneJournal == \A o, q \in Op :
  journal[o] # None /\ journal[q] # None /\ work[o] = work[q] => o = q

Alone(t) ==
  /\ pc[t] \in {"load", "create"} => listed[t] = {o \in Op : journal[o] # None}
  /\ pc[t] = "create" => \A o \in Op : journal[o] # None => work[o] # want[t]
  /\ pc[t] = "publish" /\ goal[t] = "prepared" =>
       \A o \in Op : journal[o] # None => work[o] # work[mine[t]]
  /\ pc[t] \notin {"idle", "load", "create"} => work[mine[t]] = want[t]
  /\ pc[t] \in {"check", "context"} /\ route(t) = "register" => ~ Retired(mine[t])
  /\ pc[t] = "remove" /\ route(t) = "retire" => context = None
  /\ pc[t] \in {"advance", "publish"} /\ goal[t] = "context_committed" /\ route(t) = "retire" =>
       context = None

SInv == IInv /\ OneJournal /\ NoRetiredWorkerIsSelected /\ \A t \in Task : Alone(t)

LEMMA InitSInv == Init => SInv
  <1>1. Init => OneJournal /\ NoRetiredWorkerIsSelected /\ \A t \in Task : Alone(t)
    BY DEF Init, OneJournal, NoRetiredWorkerIsSelected, Alone
  <1>2. QED BY <1>1, InitIInv DEF SInv

(* The steps that leave disk and server as they are.                        *)
LEMMA QuietSInv ==
  ASSUME NEW t \in Task, Task = {t}, SInv,
         List(t) \/ Load(t) \/ Advance(t) \/ Readback(t) \/ CheckContext(t) \/ Busy(t) \/ Fail(t)
  PROVE  OneJournal' /\ NoRetiredWorkerIsSelected' /\ Alone(t)'
  <1> USE OperationAssumption, PhaseAssumption
  <1>1. UNCHANGED <<journal, work, context, applied, removed>>
    BY DEF List, Load, Advance, Readback, CheckContext, Busy, Fail, disk
  <1>2. OneJournal' /\ NoRetiredWorkerIsSelected'
    BY <1>1 DEF SInv, OneJournal, NoRetiredWorkerIsSelected
  <1> SUFFICES Alone(t)'
    BY <1>2
  <1>3. Retired(mine[t])' <=> \E o \in applied : work[o] = [route |-> "retire", target |-> mine'[t]]
    BY <1>1 DEF Retired
  <1>4. CASE pc' = [pc EXCEPT ![t] = "idle"]
    BY <1>4 DEF SInv, IInv, TypeOK, Alone
  <1>5. CASE List(t)
    BY <1>1, <1>5 DEF List, Goto, SInv, IInv, TypeOK, Alone
  <1>6. CASE Load(t) /\ pc' # [pc EXCEPT ![t] = "idle"]
    <2>1. CASE Matches(t) = {}
      <3>1. Goto(t, "create") /\ UNCHANGED <<want, mine, phase, goal, listed>> /\ pc[t] = "load"
        BY <1>6, <2>1, FS_EmptySet DEF Load, End, Goto
      <3>2. QED BY <1>1, <2>1, <3>1 DEF Goto, SInv, IInv, TypeOK, Alone, Matches
    <2>2. CASE Matches(t) # {}
      <3>1. PICK o \in Matches(t) :
              /\ mine' = [mine EXCEPT ![t] = o] /\ goal' = [goal EXCEPT ![t] = "sent"]
              /\ Goto(t, Resume(journal[o])) /\ UNCHANGED want
        BY <1>6, <2>2 DEF Load, End, Goto
      <3>2. o \in Op /\ work[o] = want[t] /\ pc'[t] \in {"advance", "send"}
        BY <3>1 DEF Matches, Goto, Resume, SInv, IInv, TypeOK
      <3>3. QED BY <1>1, <3>1, <3>2 DEF SInv, IInv, TypeOK, Alone
    <2>3. QED BY <2>1, <2>2
  <1>7. CASE Advance(t) /\ Goto(t, "publish") /\ UNCHANGED <<want, mine, phase, goal, listed>>
    <2>1. pc[t] = "advance" /\ goal[t] # "prepared"
      BY <1>7 DEF Advance, Allowed, Goto, End, SInv, IInv, TypeOK
    <2>2. pc'[t] = "publish"
      BY <1>7 DEF Goto, SInv, IInv, TypeOK
    <2>3. QED BY <1>1, <1>7, <2>1, <2>2 DEF SInv, Alone, route
  <1>8. CASE Readback(t) /\ ReadsBack(want[t], mine[t]) /\ UNCHANGED <<want, mine, phase, goal, listed>>
             /\ pc'[t] \in {"check", "context"}
    <2>1. route(t) = "register" => ~ Retired(mine[t])
      BY <1>8 DEF ReadsBack, route
    <2>2. QED BY <1>1, <1>3, <1>8, <2>1 DEF Readback, SInv, IInv, TypeOK, Alone, route, Retired
  <1>9. CASE CheckContext(t) /\ Goto(t, "context") /\ UNCHANGED <<want, mine, phase, goal, listed>>
    BY <1>1, <1>3, <1>9 DEF CheckContext, Goto, SInv, IInv, TypeOK, Alone, route, Retired
  <1>10. QED BY <1>4, <1>5, <1>6, <1>7, <1>8, <1>9
    DEF Load, Advance, Readback, CheckContext, Busy, Fail, End, Goto, SInv, IInv, TypeOK

(* The steps that change what the server has applied.                       *)
LEMMA SendSInv ==
  ASSUME NEW t \in Task, Task = {t}, SInv, Succeed(t) \/ Indeterminate(t) \/ Refuse(t)
  PROVE  OneJournal' /\ NoRetiredWorkerIsSelected' /\ Alone(t)'
  <1>1. UNCHANGED <<journal, work, context, removed>> /\ pc[t] = "send"
    BY DEF Succeed, Indeterminate, Refuse, disk
  <1>2. OneJournal' /\ NoRetiredWorkerIsSelected'
    BY <1>1 DEF SInv, OneJournal, NoRetiredWorkerIsSelected
  <1>3. CASE pc' = [pc EXCEPT ![t] = "idle"]
    BY <1>2, <1>3 DEF SInv, IInv, TypeOK, Alone
  <1>4. CASE Succeed(t)
    <2>1. pc'[t] \in {"advance", "readback", "remove"} /\ (pc'[t] = "remove" => route(t) = "deploy")
      BY <1>4 DEF Succeed, Goto, AfterReceipt, SInv, IInv, TypeOK
    <2>2. pc'[t] = "advance" /\ goal'[t] = "context_committed" => route(t) = "deploy"
      BY <1>4 DEF Succeed, Goto, AfterReceipt, NextPhase, SInv, IInv, TypeOK
    <2>3. pc'[t] = "advance" => goal'[t] # "prepared"
      BY <1>4 DEF Succeed, NextPhase, SInv, IInv, TypeOK
    <2>4. UNCHANGED <<want, mine>>
      BY <1>4 DEF Succeed
    <2>5. QED BY <1>1, <1>2, <2>1, <2>2, <2>3, <2>4 DEF SInv, Alone, route
  <1>5. CASE Indeterminate(t) /\ Goto(t, "advance") /\ goal' = [goal EXCEPT ![t] = "indeterminate"]
             /\ UNCHANGED <<want, mine>>
    <2>1. pc'[t] = "advance" /\ goal'[t] = "indeterminate"
      BY <1>5 DEF Goto, SInv, IInv, TypeOK
    <2>2. QED BY <1>1, <1>2, <1>5, <2>1 DEF SInv, Alone, route
  <1>6. QED BY <1>3, <1>4, <1>5 DEF Indeterminate, Refuse, End, Goto

(* A journal is created where the search has found none for the intent.     *)
LEMMA CreateSInv ==
  ASSUME NEW t \in Task, Task = {t}, SInv, Create(t)
  PROVE  OneJournal' /\ NoRetiredWorkerIsSelected' /\ Alone(t)'
  <1>1. PICK o \in Unused(want[t]) :
          work' = [work EXCEPT ![o] = want[t]] /\ mine' = [mine EXCEPT ![t] = o]
    BY DEF Create
  <1>2. /\ o \in Op /\ work[o] = None /\ journal[o] = None /\ o \notin removed /\ o \notin applied
        /\ pc[t] = "create" /\ pc'[t] = "publish" /\ goal'[t] = "prepared" /\ mine'[t] = o
        /\ UNCHANGED <<journal, context, applied, removed, want>>
        /\ work'[o] = want[t] /\ \A q \in Op : q # o => work'[q] = work[q]
    BY <1>1 DEF Create, Unused, Goto, SInv, IInv, TypeOK, Fresh
  <1>3. OneJournal'
    BY <1>2 DEF SInv, OneJournal
  <1>4. NoRetiredWorkerIsSelected'
    BY <1>2 DEF SInv, IInv, TypeOK, NoRetiredWorkerIsSelected
  <1>5. Alone(t)'
    BY <1>2 DEF SInv, Alone
  <1>6. QED BY <1>3, <1>4, <1>5

LEMMA PublishSInv ==
  ASSUME NEW t \in Task, Task = {t}, SInv, Publish(t)
  PROVE  OneJournal' /\ NoRetiredWorkerIsSelected' /\ Alone(t)'
  <1>1. /\ pc[t] = "publish" /\ mine[t] \in Op /\ goal[t] \in Phase
        /\ journal' = [journal EXCEPT ![mine[t]] = goal[t]]
        /\ UNCHANGED <<work, context, applied, removed>>
        /\ goal[t] # "prepared" => journal[mine[t]] # None
    BY PhaseAssumption DEF Publish, SInv, IInv, TypeOK, Knows, WriteIsAllowed, Allowed, Phase
  <1>2. \A o \in Op : o # mine[t] => journal'[o] = journal[o]
    BY <1>1 DEF SInv, IInv, TypeOK
  <1>3. OneJournal'
    <2>1. CASE goal[t] = "prepared"
      BY <1>1, <1>2, <2>1 DEF SInv, OneJournal, Alone
    <2>2. CASE goal[t] # "prepared"
      BY <1>1, <1>2, <2>2 DEF SInv, OneJournal
    <2>3. QED BY <2>1, <2>2
  <1>4. NoRetiredWorkerIsSelected'
    BY <1>1 DEF SInv, NoRetiredWorkerIsSelected
  <1>5. CASE pc' = [pc EXCEPT ![t] = "idle"]
    BY <1>3, <1>4, <1>5 DEF SInv, IInv, TypeOK, Alone
  <1>6. CASE pc' # [pc EXCEPT ![t] = "idle"]
    <2>1. goal[t] # "indeterminate" /\ UNCHANGED <<want, mine>>
          /\ goal' = [goal EXCEPT ![t] =
               CASE goal[t] = "prepared" -> "sent"
                 [] goal[t] = "sent" -> "receipt_verified"
                 [] OTHER -> "context_committed"]
          /\ Goto(t, CASE goal[t] = "prepared" -> "advance"
                       [] goal[t] = "sent" -> "send"
                       [] goal[t] = "receipt_verified" -> IF route(t) = "deploy" THEN "advance" ELSE "readback"
                       [] goal[t] = "context_committed" -> "remove")
      BY <1>6 DEF Publish, End, Goto
    <2>2. \/ goal[t] = "prepared" /\ pc'[t] = "advance" /\ goal'[t] = "sent"
          \/ goal[t] = "sent" /\ pc'[t] = "send"
          \/ goal[t] = "receipt_verified" /\ route(t) = "deploy" /\ pc'[t] = "advance"
               /\ goal'[t] = "context_committed"
          \/ goal[t] = "receipt_verified" /\ pc'[t] = "readback"
          \/ goal[t] = "context_committed" /\ pc'[t] = "remove"
      BY <1>1, <2>1 DEF Goto, Phase, SInv, IInv, TypeOK
    <2>3. QED BY <1>1, <1>3, <1>4, <2>1, <2>2 DEF SInv, Alone, route
  <1>7. QED BY <1>5, <1>6

(* Nothing came between reading the worker back and selecting it.           *)
LEMMA CommitContextSInv ==
  ASSUME NEW t \in Task, Task = {t}, SInv, CommitContext(t)
  PROVE  OneJournal' /\ NoRetiredWorkerIsSelected' /\ Alone(t)'
  <1>1. /\ pc[t] = "context" /\ context' = NewContext(t) /\ mine[t] \in Op
        /\ pc'[t] \in {"advance", "remove"}
        /\ UNCHANGED <<journal, work, applied, removed, want, mine, goal>>
    BY DEF CommitContext, Goto, SInv, IInv, TypeOK, Knows
  <1>2. OneJournal'
    BY <1>1 DEF SInv, OneJournal
  <1>3. NoRetiredWorkerIsSelected'
    <2> SUFFICES ASSUME NEW o \in removed, work[o].route = "retire" PROVE context' # work[o].target
      BY <1>1 DEF NoRetiredWorkerIsSelected
    <2>1. o \in applied /\ o \in Op /\ work[o] \in Intent
      BY OperationAssumption DEF SInv, IInv, TypeOK, Fresh, JournalCoversTheServer, RemovedIsApplied
    <2>2. work[o].target \in Op /\ work[o] = [route |-> "retire", target |-> work[o].target]
      BY <2>1, OperationAssumption DEF AllIntents
    <2>3. CASE route(t) = "register"
      <3>1. ~ Retired(mine[t]) /\ context' = mine[t]
        BY <1>1, <2>3 DEF NewContext, SInv, Alone
      <3>2. QED BY <2>1, <2>2, <3>1 DEF Retired
    <2>4. CASE route(t) # "register"
      BY <1>1, <2>2, <2>4, OperationAssumption DEF NewContext
    <2>5. QED BY <2>3, <2>4
  <1>4. Alone(t)'
    <2>1. route(t) = "retire" => context' = None
      BY <1>1 DEF NewContext
    <2>2. goal[t] # "prepared" \/ pc'[t] # "publish"
      BY <1>1
    <2>3. QED BY <1>1, <2>1 DEF SInv, Alone, route
  <1>5. QED BY <1>2, <1>3, <1>4

LEMMA RemoveSInv ==
  ASSUME NEW t \in Task, Task = {t}, SInv, Remove(t)
  PROVE  OneJournal' /\ NoRetiredWorkerIsSelected' /\ Alone(t)'
  <1>1. /\ pc[t] = "remove" /\ mine[t] \in Op /\ work[mine[t]] = want[t] /\ work[mine[t]] \in Intent
        /\ removed' \subseteq removed \cup {mine[t]} /\ UNCHANGED <<work, context, applied>>
        /\ pc' = [pc EXCEPT ![t] = "idle"]
        /\ \A o \in Op : journal'[o] # None => journal[o] # None
    BY DEF Remove, End, Goto, SInv, IInv, TypeOK, Knows, Alone
  <1>2. OneJournal'
    BY <1>1 DEF SInv, OneJournal
  <1>3. NoRetiredWorkerIsSelected'
    <2>1. want[t].route = "retire" => context = None /\ want[t].target \in Op
      BY <1>1, OperationAssumption DEF SInv, Alone, route, AllIntents
    <2>2. QED BY <1>1, <2>1, OperationAssumption DEF SInv, NoRetiredWorkerIsSelected
  <1>4. Alone(t)'
    BY <1>1 DEF SInv, IInv, TypeOK, Alone
  <1>5. QED BY <1>2, <1>3, <1>4

LEMMA CrashSInv ==
  ASSUME NEW t \in Task, Task = {t}, SInv, Crash(t)
  PROVE  OneJournal' /\ NoRetiredWorkerIsSelected' /\ Alone(t)'
  <1>1. UNCHANGED <<journal, work, context, applied, removed>> /\ pc' = [pc EXCEPT ![t] = "idle"]
    BY DEF Crash, End, Goto
  <1>2. OneJournal' /\ NoRetiredWorkerIsSelected'
    BY <1>1 DEF SInv, OneJournal, NoRetiredWorkerIsSelected
  <1>3. QED BY <1>1, <1>2 DEF SInv, IInv, TypeOK, Alone

LEMMA NextSInv == ASSUME NEW me, Task = {me}, SInv, [Next]_vars PROVE SInv'
  <1>1. IInv'
    BY NextIInv DEF SInv
  <1>2. OneJournal' /\ NoRetiredWorkerIsSelected' /\ Alone(me)'
    <2>1. CASE Step(me)
      BY <2>1, QuietSInv, CreateSInv, PublishSInv, SendSInv, CommitContextSInv, RemoveSInv DEF Step
    <2>2. CASE Fault(me)
      BY <2>2, QuietSInv, SendSInv, CrashSInv DEF Fault
    <2>3. CASE UNCHANGED vars
      BY <2>3 DEF vars, disk, task, SInv, OneJournal, NoRetiredWorkerIsSelected, Alone, route, Retired
    <2>4. QED BY <2>1, <2>2, <2>3 DEF Next
  <1>3. QED BY <1>1, <1>2 DEF SInv

(* Of two operations for one intent, one is complete or never went out.     *)
LEMMA OneJournalIsOneOperation == ASSUME SInv PROVE RetryNeverDuplicates
  <1> SUFFICES ASSUME NEW i \in Intent PROVE Cardinality({o \in applied \ removed : work[o] = i}) <= 1
    BY DEF RetryNeverDuplicates
  <1> DEFINE S == {o \in applied \ removed : work[o] = i}
  <1>1. \A o \in S : o \in Op /\ journal[o] # None /\ work[o] = i
    BY PhaseAssumption DEF SInv, IInv, TypeOK, JournalCoversTheServer, AppliedIsRecorded
  <1>2. \A o, q \in S : o = q
    BY <1>1 DEF SInv, OneJournal
  <1>3. CASE S = {}
    BY <1>3, FS_EmptySet
  <1>4. CASE S # {}
    <2>1. PICK o \in S : S = {o}
      BY <1>2, <1>4
    <2>2. QED BY <2>1, FS_Singleton
  <1>5. QED BY <1>3, <1>4

(* While one invocation runs at a time, whatever it dies of and however     *)
(* often it is repeated, no intent is applied twice, and no retired worker  *)
(* is selected.                                                             *)
THEOREM RetryingIsHarmless == ASSUME NEW me, Task = {me} PROVE Spec => []RetriesAreHarmless
  <1>1. SInv => RetriesAreHarmless
    BY OneJournalIsOneOperation DEF SInv, RetriesAreHarmless
  <1>2. SInv /\ [Next]_vars => SInv'
    BY NextSInv
  <1>3. QED BY <1>1, <1>2, InitSInv, PTL DEF Spec

-----------------------------------------------------------------------------
(* Materialization.  None of what the evidence says is inductive as it       *)
(* stands.  A receipt is written without a look at the others because the    *)
(* operation was found to have none when it started; a record is trusted     *)
(* because the receipt was there before it; a project is settled without a   *)
(* journal because whoever removed the journal had read everything back.     *)

(* What an operation makes of the project and of its trees. *)
CommittedFor(act) == project = (IF act = "remove" THEN "without" ELSE "planned")
AppliedFor(act) == projection = (IF act = "remove" THEN "removed" ELSE "applied")

FreshSteps == {"begin", "artifacts_verified", "commit", "project_state_committed", "sync",
          "projection_applied", "readback", "read_back_verified", "draft", "link"}
ReceivedSteps == {"clean", "early", "receipt_persisted", "record", "durable", "complete", "forget"}
Receipted(o, act) == \E r \in Worker!ReceiptsOf(o) : r.action = act

(* An operation has its receipt from the link on, and none before; it runs *)
(* under its own journal; and its record stands once it has been written.  *)
RunIsSound ==
  at # "idle" =>
    /\ op \in Op /\ action \in Worker!Action
    /\ at \in FreshSteps \cup ReceivedSteps
    /\ draft = None => at = "begin"
    /\ draft # None => draft.op = op /\ draft.action = action
    /\ at \in FreshSteps => Worker!ReceiptsOf(op) = {}
    /\ at \in ReceivedSteps => Receipted(op, action)
    /\ at \in {"durable", "complete", "forget"} => record = Worker!Expected(op, action)

(* What the journal says is so, of the receipt and the record whatever     *)
(* other commands do.                                                      *)
JournalIsSound ==
  draft # None =>
    /\ Worker!AtLeast(draft, "receipt_persisted") => Receipted(draft.op, draft.action)
    /\ draft.durable => record = Worker!Expected(draft.op, draft.action)

(* What was done to the project stays done, as long as nobody else undoes it. *)
WorkStays ==
  edits = 0 =>
    /\ Worker!AtLeast(draft, "project_state_committed") => CommittedFor(draft.action)
    /\ Worker!AtLeast(draft, "projection_applied") => AppliedFor(draft.action)
    /\ at \in ReceivedSteps \cup {"project_state_committed", "sync", "projection_applied", "readback",
                             "read_back_verified", "draft", "link"} => CommittedFor(action)
    /\ at \in ReceivedSteps \cup {"projection_applied", "readback", "read_back_verified",
                             "draft", "link"} => AppliedFor(action)
    /\ draft = None => Worker!Settled

ReceiptsAreSingle == \A r, s \in receipts : r.op = s.op => r = s

WorkerInv ==
  /\ Worker!TypeOK
  /\ ReceiptsAreSingle
  /\ Worker!RecordIsBacked
  /\ RunIsSound
  /\ JournalIsSound
  /\ WorkStays

-----------------------------------------------------------------------------
(* The order of the phases. *)
PhaseNumber ==
  [p \in Worker!Phase |-> IF p = "validated" THEN 1 ELSE
                   IF p = "artifacts_verified" THEN 2 ELSE
                   IF p = "project_state_committed" THEN 3 ELSE
                   IF p = "projection_applied" THEN 4 ELSE
                   IF p = "read_back_verified" THEN 5 ELSE
                   IF p = "receipt_persisted" THEN 6 ELSE 7]

LEMMA PhasesAre ==
  Worker!Phase = {"validated", "artifacts_verified", "project_state_committed", "projection_applied",
           "read_back_verified", "receipt_persisted", "completed"}
  BY DEF Worker!Phase, Worker!Phases

LEMMA IndexIsNumber == \A p \in Worker!Phase : Worker!Index(p) = PhaseNumber[p]
  <1>1. /\ Worker!Phases[1] = "validated" /\ Worker!Phases[2] = "artifacts_verified"
        /\ Worker!Phases[3] = "project_state_committed" /\ Worker!Phases[4] = "projection_applied"
        /\ Worker!Phases[5] = "read_back_verified" /\ Worker!Phases[6] = "receipt_persisted"
        /\ Worker!Phases[7] = "completed"
    BY DEF Worker!Phases
  <1>2. SUFFICES ASSUME NEW p \in Worker!Phase PROVE Worker!Index(p) = PhaseNumber[p]
    OBVIOUS
  <1>3. PhaseNumber[p] \in 1..7 /\ Worker!Phases[PhaseNumber[p]] = p
    BY <1>1, PhasesAre DEF PhaseNumber
  <1>4. \A k \in 1..7 : Worker!Phases[k] = p => k = PhaseNumber[p]
    BY <1>1, PhasesAre DEF PhaseNumber
  <1>5. QED BY <1>3, <1>4 DEF Worker!Index

(* Which phases a journal has reached in each of its own. *)
LEMMA Reached ==
  ASSUME NEW j \in Worker!Journal \cup {None}, NEW p \in Worker!Phase, j # None
  PROVE  Worker!AtLeast(j, p) <=> PhaseNumber[j.phase] >= PhaseNumber[p]
  BY IndexIsNumber DEF Worker!AtLeast, Worker!Journal

(* Counting is the same wherever it is done. *)
LEMMA WorkerCounts ==
  \A S : /\ Worker!IsFiniteSet(S) <=> IsFiniteSet(S)
         /\ Worker!Cardinality(S) = Cardinality(S)
  BY DEF Worker!IsFiniteSet, IsFiniteSet, Worker!Cardinality, Cardinality

LEMMA WorkerStarts == ASSUME Worker!MaterializationAssumption, Worker!Init PROVE WorkerInv
  <1>1. Worker!TypeOK
    <2>1. 0 \in 0 .. MaxStops /\ 0 \in 0 .. MaxEdits
      BY DEF Worker!MaterializationAssumption
    <2>2. QED BY <2>1, WorkerCounts, FS_EmptySet DEF Worker!Init, Worker!TypeOK, Worker!Projects, Worker!Projections, Worker!Steps
  <1>2. ReceiptsAreSingle /\ Worker!RecordIsBacked /\ RunIsSound /\ JournalIsSound
    BY DEF Worker!Init, ReceiptsAreSingle, Worker!RecordIsBacked, RunIsSound, JournalIsSound
  <1>3. WorkStays
    BY DEF Worker!Init, WorkStays, Worker!AtLeast, ReceivedSteps, Worker!Settled
  <1>4. QED BY <1>1, <1>2, <1>3 DEF WorkerInv

(* A receipt names the operation of its journal, so that only one is there. *)
LEMMA StartStays == ASSUME Worker!MaterializationAssumption, WorkerInv, Worker!Start PROVE WorkerInv'
  <1>1. UNCHANGED <<Worker!disk, stops, edits>> /\ at = "idle"
    BY DEF Worker!Start
  <1>2. PICK o \in Op, act \in Worker!Action : /\ Worker!StartFresh(o, act) \/ Worker!StartRecovery(o, act)
                                      /\ op' = o /\ action' = act
    BY DEF Worker!Start
  <1>3. at' \in {"begin", "early", "receipt_persisted"}
    BY <1>2 DEF Worker!StartFresh, Worker!StartRecovery
  <1>4. Worker!TypeOK'
    BY <1>1, <1>2, <1>3 DEF WorkerInv, Worker!TypeOK, Worker!disk, Worker!Steps, Worker!Phase, Worker!Phases
  <1>5. (ReceiptsAreSingle /\ Worker!RecordIsBacked /\ JournalIsSound)'
    BY <1>1 DEF WorkerInv, Worker!disk, ReceiptsAreSingle, Worker!RecordIsBacked, JournalIsSound, Worker!ReceiptsOf, Receipted
  <1>6. RunIsSound'
    BY <1>1, <1>2 DEF RunIsSound, Worker!StartFresh, Worker!StartRecovery, Worker!MayRun, Worker!Unanswered, Worker!disk,
                      Worker!ReceiptsOf, Receipted, FreshSteps, ReceivedSteps
  <1>7. WorkStays'
    <2>1. CASE Worker!StartFresh(o, act)
      BY <1>1, <2>1 DEF WorkerInv, WorkStays, Worker!StartFresh, Worker!disk, ReceivedSteps, CommittedFor, AppliedFor, Worker!Settled, Worker!ReadsBack
    <2>2. CASE Worker!StartRecovery(o, act)
      <3>1. CommittedFor(act) /\ AppliedFor(act)
        BY <2>2 DEF Worker!StartRecovery, Worker!ReadsBack, CommittedFor, AppliedFor
      <3>2. QED BY <1>1, <1>2, <2>2, <3>1
            DEF WorkerInv, WorkStays, Worker!StartRecovery, Worker!disk, ReceivedSteps, CommittedFor, AppliedFor
    <2>3. QED BY <1>2, <2>1, <2>2
  <1>8. QED BY <1>4, <1>5, <1>6, <1>7 DEF WorkerInv

LEMMA BeginStays == ASSUME Worker!MaterializationAssumption, WorkerInv, Worker!Begin PROVE WorkerInv'
  <1> USE PhasesAre
  <1>1. /\ at = "begin" /\ at' = "artifacts_verified"
        /\ UNCHANGED <<op, action, project, projection, receipts, temp, record, stops, edits>>
        /\ op \in Op /\ action \in Worker!Action
    BY DEF WorkerInv, RunIsSound, Worker!Begin, Worker!Go
  <1>2. CASE draft # None
    <2>1. draft' = draft
      BY <1>2 DEF Worker!Begin
    <2>2. Worker!TypeOK'
      BY <1>1, <2>1 DEF WorkerInv, Worker!TypeOK, Worker!Steps
    <2>3. QED BY <1>1, <1>2, <2>1, <2>2
          DEF WorkerInv, ReceiptsAreSingle, Worker!RecordIsBacked, JournalIsSound, Worker!ReceiptsOf, Receipted,
              RunIsSound, FreshSteps, ReceivedSteps, WorkStays, CommittedFor, AppliedFor, Worker!Settled
  <1>3. CASE draft = None
    <2>1. draft' = [op |-> op, action |-> action, phase |-> "validated", durable |-> FALSE]
      BY <1>3 DEF Worker!Begin
    <2>2. draft' \in Worker!Journal /\ draft' # None
      <3>1. draft' \in Worker!Journal
        BY <1>1, <2>1 DEF Worker!Journal
      <3>2. QED BY <3>1 DEF Worker!MaterializationAssumption
    <2>3. Worker!TypeOK'
      BY <1>1, <2>2 DEF WorkerInv, Worker!TypeOK, Worker!Steps
    <2>4. \A p \in Worker!Phase : Worker!AtLeast(draft', p) => p = "validated"
      <3>1. PhaseNumber[draft'.phase] = 1
        BY <2>1 DEF PhaseNumber
      <3>2. \A p \in Worker!Phase : p # "validated" => PhaseNumber[p] \in 2..7
        BY DEF PhaseNumber
      <3>3. QED BY <2>2, <3>1, <3>2, Reached
    <2>5. (ReceiptsAreSingle /\ Worker!RecordIsBacked)'
      BY <1>1 DEF WorkerInv, ReceiptsAreSingle, Worker!RecordIsBacked, Worker!ReceiptsOf
    <2>6. JournalIsSound'
      BY <2>1, <2>4 DEF JournalIsSound
    <2>7. RunIsSound'
      BY <1>1, <2>1, <2>2 DEF WorkerInv, RunIsSound, FreshSteps, ReceivedSteps, Worker!ReceiptsOf
    <2>8. WorkStays'
      BY <1>1, <2>2, <2>4 DEF WorkStays, ReceivedSteps
    <2>9. QED BY <2>3, <2>5, <2>6, <2>7, <2>8 DEF WorkerInv
  <1>4. QED BY <1>2, <1>3

(* A phase is written after what it stands for. *)
LEMMA AdvanceStays == ASSUME Worker!MaterializationAssumption, WorkerInv, Worker!Advance PROVE WorkerInv'
  <1>1. /\ at \in {"artifacts_verified", "project_state_committed", "projection_applied",
                   "read_back_verified", "receipt_persisted"}
        /\ op \in Op /\ action \in Worker!Action
        /\ draft \in Worker!Journal /\ draft # None /\ draft.op = op /\ draft.action = action
        /\ UNCHANGED <<op, action, project, projection, receipts, temp, record, stops, edits>>
    BY PhasesAre DEF Worker!Advance, Worker!Go, WorkerInv, Worker!TypeOK, RunIsSound, FreshSteps, ReceivedSteps
  <1>2. at' = Worker!After(at)
    BY DEF Worker!Advance, Worker!Go
  <1>3. /\ at = "artifacts_verified" => at' = "commit"
        /\ at = "project_state_committed" => at' = "sync"
        /\ at = "projection_applied" => at' = "readback"
        /\ at = "read_back_verified" => at' = "draft"
        /\ at = "receipt_persisted" => at' = "record"
    BY <1>2 DEF Worker!After
  <1>4. /\ draft' \in Worker!Journal /\ draft' # None
        /\ draft'.op = op /\ draft'.action = action /\ draft'.durable = draft.durable
        /\ draft'.phase \in {draft.phase, at}
    BY <1>1, PhasesAre DEF Worker!Advance, Worker!Journal, Worker!MaterializationAssumption
  <1>5. \A p \in Worker!Phase : Worker!AtLeast(draft', p)
          => Worker!AtLeast(draft, p) \/ (PhaseNumber[p] <= PhaseNumber[at] /\ draft'.phase = at)
    BY <1>1, <1>4, Reached, PhasesAre DEF PhaseNumber
  <1>6. Worker!TypeOK'
    BY <1>1, <1>3, <1>4 DEF WorkerInv, Worker!TypeOK, Worker!Steps
  <1>7. (ReceiptsAreSingle /\ Worker!RecordIsBacked)'
    BY <1>1 DEF WorkerInv, ReceiptsAreSingle, Worker!RecordIsBacked, Worker!ReceiptsOf
  <1>8. JournalIsSound'
    <2>1. ASSUME Worker!AtLeast(draft', "receipt_persisted") PROVE Receipted(op, action)
      BY <1>1, <1>5, <2>1, PhasesAre DEF PhaseNumber, WorkerInv, JournalIsSound, RunIsSound, ReceivedSteps
    <2>2. QED BY <1>1, <1>4, <2>1 DEF WorkerInv, JournalIsSound, Receipted, Worker!ReceiptsOf
  <1>9. RunIsSound'
    BY <1>1, <1>3, <1>4 DEF WorkerInv, RunIsSound, FreshSteps, ReceivedSteps, Worker!ReceiptsOf, Receipted
  <1>10. WorkStays'
    <2>1. ASSUME edits = 0, Worker!AtLeast(draft', "project_state_committed") PROVE CommittedFor(action)
      BY <1>1, <1>5, <2>1, PhasesAre DEF PhaseNumber, WorkerInv, WorkStays, ReceivedSteps
    <2>2. ASSUME edits = 0, Worker!AtLeast(draft', "projection_applied") PROVE AppliedFor(action)
      BY <1>1, <1>5, <2>2, PhasesAre DEF PhaseNumber, WorkerInv, WorkStays, ReceivedSteps
    <2>3. QED BY <1>1, <1>3, <1>4, <2>1, <2>2 DEF WorkerInv, WorkStays, ReceivedSteps, CommittedFor, AppliedFor
  <1>11. QED BY <1>6, <1>7, <1>8, <1>9, <1>10 DEF WorkerInv

(* The steps that work on the project. *)
LEMMA ProjectStays ==
  ASSUME Worker!MaterializationAssumption, WorkerInv, Worker!Commit \/ Worker!Sync \/ Worker!ReadBack PROVE WorkerInv'
  <1>1. /\ op \in Op /\ action \in Worker!Action /\ draft # None
        /\ draft.op = op /\ draft.action = action /\ Worker!ReceiptsOf(op) = {}
        /\ UNCHANGED <<draft, receipts, temp, record, stops, edits>>
    BY DEF WorkerInv, RunIsSound, FreshSteps, Worker!Commit, Worker!Sync, Worker!ReadBack, Worker!disk
  <1>2. (ReceiptsAreSingle /\ Worker!RecordIsBacked /\ JournalIsSound)'
    BY <1>1 DEF WorkerInv, ReceiptsAreSingle, Worker!RecordIsBacked, JournalIsSound, Worker!ReceiptsOf, Receipted
  <1>3. CASE Worker!Commit
    <2>1. /\ at = "commit" /\ at' = "project_state_committed" /\ UNCHANGED <<op, action, projection>>
          /\ CommittedFor(action)' /\ project' \in Worker!Projects
      BY <1>3 DEF Worker!Commit, Worker!Go, CommittedFor, Worker!Projects
    <2>2. Worker!TypeOK'
      BY <1>1, <2>1, PhasesAre DEF WorkerInv, Worker!TypeOK, Worker!Steps
    <2>3. RunIsSound'
      BY <1>1, <2>1 DEF RunIsSound, FreshSteps, ReceivedSteps, Worker!ReceiptsOf
    <2>4. WorkStays'
      BY <1>1, <2>1 DEF WorkerInv, WorkStays, ReceivedSteps, AppliedFor, CommittedFor
    <2>5. QED BY <1>2, <2>2, <2>3, <2>4 DEF WorkerInv
  <1>4. CASE Worker!Sync
    <2>1. /\ at = "sync" /\ at' = "projection_applied" /\ UNCHANGED <<op, action, project>>
          /\ AppliedFor(action)' /\ projection' \in Worker!Projections
      BY <1>4 DEF Worker!Sync, Worker!Synced, Worker!Go, AppliedFor, Worker!Projections
    <2>2. Worker!TypeOK'
      BY <1>1, <2>1, PhasesAre DEF WorkerInv, Worker!TypeOK, Worker!Steps
    <2>3. RunIsSound'
      BY <1>1, <2>1 DEF RunIsSound, FreshSteps, ReceivedSteps, Worker!ReceiptsOf
    <2>4. WorkStays'
      BY <1>1, <2>1 DEF WorkerInv, WorkStays, ReceivedSteps, AppliedFor, CommittedFor
    <2>5. QED BY <1>2, <2>2, <2>3, <2>4 DEF WorkerInv
  <1>5. CASE Worker!ReadBack
    <2>1. /\ at = "readback" /\ UNCHANGED <<project, projection>>
          /\ \/ at' = "read_back_verified" /\ UNCHANGED <<op, action>>
             \/ at' = "idle" /\ op' = None /\ action' = None
      BY <1>5 DEF Worker!ReadBack, Worker!Go, Worker!End, Worker!disk
    <2>2. Worker!TypeOK'
      BY <1>1, <2>1, PhasesAre DEF WorkerInv, Worker!TypeOK, Worker!Steps
    <2>3. RunIsSound'
      BY <1>1, <2>1 DEF RunIsSound, FreshSteps, ReceivedSteps, Worker!ReceiptsOf
    <2>4. WorkStays'
      BY <1>1, <2>1 DEF WorkerInv, WorkStays, ReceivedSteps, AppliedFor, CommittedFor
    <2>5. QED BY <1>2, <2>2, <2>3, <2>4 DEF WorkerInv
  <1>6. QED BY <1>3, <1>4, <1>5

(* The steps that write the receipt; the operation had none before. *)
LEMMA ReceiptStays ==
  ASSUME Worker!MaterializationAssumption, WorkerInv, Worker!Draft \/ Worker!Link \/ Worker!Clean PROVE WorkerInv'
  <1>1. /\ op \in Op /\ action \in Worker!Action /\ draft # None
        /\ draft.op = op /\ draft.action = action
        /\ UNCHANGED <<op, action, project, projection, draft, record, stops, edits>>
    BY DEF WorkerInv, RunIsSound, Worker!Draft, Worker!Link, Worker!Clean, Worker!Go
  <1>2. WorkStays'
    BY <1>1 DEF WorkerInv, WorkStays, ReceivedSteps, CommittedFor, AppliedFor, Worker!Draft, Worker!Link, Worker!Clean, Worker!Go
  <1>3. CASE Worker!Draft \/ Worker!Clean
    <2>1. /\ receipts' = receipts /\ temp' \in BOOLEAN
          /\ \/ at = "draft" /\ at' = "link"
             \/ at = "clean" /\ at' = "receipt_persisted"
      BY <1>3 DEF Worker!Draft, Worker!Clean, Worker!Go
    <2>2. Worker!TypeOK'
      BY <1>1, <2>1, PhasesAre DEF WorkerInv, Worker!TypeOK, Worker!Steps
    <2>3. (ReceiptsAreSingle /\ Worker!RecordIsBacked /\ JournalIsSound)'
      BY <1>1, <2>1 DEF WorkerInv, ReceiptsAreSingle, Worker!RecordIsBacked, JournalIsSound, Worker!ReceiptsOf, Receipted
    <2>4. RunIsSound'
      BY <1>1, <2>1 DEF WorkerInv, RunIsSound, FreshSteps, ReceivedSteps, Worker!ReceiptsOf, Receipted
    <2>5. QED BY <1>2, <2>2, <2>3, <2>4 DEF WorkerInv
  <1>4. CASE Worker!Link
    <2>1. PICK new \in [id : Nat, op : Op, action : Worker!Action] :
            /\ receipts' = receipts \cup {new} /\ new.op = op /\ new.action = action
      <3>1. Cardinality(receipts) \in Nat
        BY WorkerCounts, FS_CardinalityType DEF WorkerInv, Worker!TypeOK
      <3> DEFINE new == [id |-> Cardinality(receipts), op |-> op, action |-> action]
      <3>2. new \in [id : Nat, op : Op, action : Worker!Action] /\ new.op = op /\ new.action = action
        BY <1>1, <3>1
      <3>3. receipts' = receipts \cup {new}
        BY <1>4, WorkerCounts DEF Worker!Link
      <3> HIDE DEF new
      <3>4. QED BY <3>2, <3>3
    <2>2. at = "link" /\ at' = "clean" /\ temp' = temp /\ Worker!ReceiptsOf(op) = {}
      BY <1>4 DEF Worker!Link, Worker!Go, WorkerInv, RunIsSound, FreshSteps
    <2>3. IsFiniteSet(receipts')
      BY <2>1, WorkerCounts, FS_AddElement DEF WorkerInv, Worker!TypeOK
    <2>4. Worker!TypeOK'
      BY <1>1, <2>1, <2>2, <2>3, WorkerCounts DEF WorkerInv, Worker!TypeOK, Worker!Steps
    <2>5. ReceiptsAreSingle'
      BY <2>1, <2>2 DEF WorkerInv, ReceiptsAreSingle, Worker!ReceiptsOf
    <2>6. /\ \A o : Worker!ReceiptsOf(o) \subseteq Worker!ReceiptsOf(o)'
          /\ new \in Worker!ReceiptsOf(op)'
      BY <1>1, <2>1 DEF Worker!ReceiptsOf
    <2>7. Worker!RecordIsBacked'
      BY <1>1, <2>6 DEF WorkerInv, Worker!RecordIsBacked
    <2>8. JournalIsSound'
      BY <1>1, <2>6 DEF WorkerInv, JournalIsSound, Receipted
    <2>9. RunIsSound'
      BY <1>1, <2>1, <2>2, <2>6 DEF WorkerInv, RunIsSound, FreshSteps, ReceivedSteps, Receipted
    <2>10. QED BY <1>2, <2>4, <2>5, <2>7, <2>8, <2>9 DEF WorkerInv
  <1>5. QED BY <1>3, <1>4

(* The record is written when the receipt is there, and it says what the    *)
(* receipt says.                                                            *)
LEMMA RecordStays == ASSUME Worker!MaterializationAssumption, WorkerInv, Worker!WriteRecord PROVE WorkerInv'
  <1>1. /\ op \in Op /\ action \in Worker!Action /\ draft # None
        /\ draft.op = op /\ draft.action = action /\ Receipted(op, action)
        /\ at \in {"early", "record"} /\ at' \in {"receipt_persisted", "durable"}
        /\ record' = Worker!Expected(op, action)
        /\ UNCHANGED <<op, action, project, projection, draft, receipts, temp, stops, edits>>
    BY DEF WorkerInv, RunIsSound, ReceivedSteps, Worker!WriteRecord, Worker!Go
  <1>2. record' \in Worker!Record /\ record' # None /\ record'.op = op /\ record'.state = Worker!Outcome(action)
    <2>1. record' \in Worker!Record /\ record'.op = op /\ record'.state = Worker!Outcome(action)
      BY <1>1 DEF Worker!Expected, Worker!Record, Worker!Outcome
    <2>2. QED BY <2>1 DEF Worker!MaterializationAssumption
  <1>3. Worker!TypeOK'
    BY <1>1, <1>2, PhasesAre DEF WorkerInv, Worker!TypeOK, Worker!Steps
  <1>4. ReceiptsAreSingle'
    BY <1>1 DEF WorkerInv, ReceiptsAreSingle
  <1>5. Worker!RecordIsBacked'
    BY <1>1, <1>2 DEF Worker!RecordIsBacked, Receipted, Worker!ReceiptsOf, Worker!Outcome
  <1>6. JournalIsSound'
    BY <1>1 DEF WorkerInv, JournalIsSound, Receipted, Worker!ReceiptsOf, Worker!Expected
  <1>7. RunIsSound'
    BY <1>1 DEF WorkerInv, RunIsSound, FreshSteps, ReceivedSteps, Receipted, Worker!ReceiptsOf, Worker!Expected
  <1>8. WorkStays'
    BY <1>1 DEF WorkerInv, WorkStays, ReceivedSteps, CommittedFor, AppliedFor
  <1>9. QED BY <1>3, <1>4, <1>5, <1>6, <1>7, <1>8 DEF WorkerInv

(* The last steps: the journal may say that all was done, and is removed.   *)
LEMMA ClosingStays ==
  ASSUME Worker!MaterializationAssumption, WorkerInv, Worker!MarkDurable \/ Worker!Complete \/ Worker!Forget PROVE WorkerInv'
  <1>1. /\ op \in Op /\ action \in Worker!Action /\ draft # None /\ draft \in Worker!Journal
        /\ draft.op = op /\ draft.action = action /\ Receipted(op, action)
        /\ record = Worker!Expected(op, action)
        /\ UNCHANGED <<project, projection, receipts, temp, record, stops, edits>>
    BY DEF WorkerInv, Worker!TypeOK, RunIsSound, ReceivedSteps, Worker!MarkDurable, Worker!Complete, Worker!Forget
  <1>2. edits = 0 => CommittedFor(action) /\ AppliedFor(action)
    BY DEF WorkerInv, WorkStays, ReceivedSteps, Worker!MarkDurable, Worker!Complete, Worker!Forget
  <1>3. (ReceiptsAreSingle /\ Worker!RecordIsBacked)'
    BY <1>1 DEF WorkerInv, ReceiptsAreSingle, Worker!RecordIsBacked, Worker!ReceiptsOf
  <1>4. CASE Worker!Forget
    <2>1. draft' = None /\ at' = "idle" /\ op' = None /\ action' = None
      BY <1>4 DEF Worker!Forget, Worker!End
    <2>2. Worker!TypeOK'
      BY <1>1, <2>1 DEF WorkerInv, Worker!TypeOK, Worker!Steps
    <2>3. RunIsSound' /\ JournalIsSound'
      BY <2>1 DEF RunIsSound, JournalIsSound
    <2>4. edits = 0 => Worker!Settled
      <3>1. record # None
        BY <1>1 DEF Worker!Expected, Worker!Record, Worker!Outcome, Worker!MaterializationAssumption
      <3>2. record.state = Worker!Outcome(action)
        BY <1>1 DEF Worker!Expected
      <3>3. QED BY <1>2, <3>1, <3>2 DEF Worker!Settled, CommittedFor, AppliedFor, Worker!ReadsBack, Worker!Outcome
    <2>5. WorkStays'
      BY <1>1, <2>1, <2>4 DEF WorkStays, Worker!AtLeast, ReceivedSteps, Worker!Settled, Worker!ReadsBack
    <2>6. QED BY <1>3, <2>2, <2>3, <2>5 DEF WorkerInv
  <1>5. CASE Worker!MarkDurable \/ Worker!Complete
    <2>1. /\ draft' \in Worker!Journal /\ draft'.op = op /\ draft'.action = action
          /\ \/ at' = "idle" /\ op' = None /\ action' = None
             \/ at' \in {"complete", "forget"} /\ UNCHANGED <<op, action>>
      BY <1>1, <1>5, PhasesAre DEF Worker!MarkDurable, Worker!Complete, Worker!Go, Worker!End, Worker!Journal
    <2>2. draft' # None
      BY <2>1 DEF Worker!MaterializationAssumption
    <2>3. Worker!TypeOK'
      BY <1>1, <2>1, <2>2 DEF WorkerInv, Worker!TypeOK, Worker!Steps
    <2>4. RunIsSound'
      <3>1. CASE at' = "idle"
        BY <3>1 DEF RunIsSound
      <3>2. CASE at' \in {"complete", "forget"} /\ UNCHANGED <<op, action>>
        <4>1. Receipted(op, action)' /\ record' = Worker!Expected(op, action)'
          BY <1>1, <3>2 DEF Receipted, Worker!ReceiptsOf, Worker!Expected
        <4>2. at' \in ReceivedSteps /\ at' \notin FreshSteps /\ at' # "begin"
          BY <3>2 DEF ReceivedSteps, FreshSteps
        <4>3. QED BY <1>1, <2>1, <2>2, <3>2, <4>1, <4>2 DEF RunIsSound
      <3>3. QED BY <2>1, <3>1, <3>2
    <2>5. JournalIsSound'
      BY <1>1, <2>1 DEF JournalIsSound, Receipted, Worker!ReceiptsOf, Worker!Expected
    <2>6. WorkStays'
      BY <1>1, <1>2, <2>1, <2>2 DEF WorkStays, ReceivedSteps, CommittedFor, AppliedFor
    <2>7. QED BY <1>3, <2>3, <2>4, <2>5, <2>6 DEF WorkerInv
  <1>6. QED BY <1>4, <1>5

(* Wherever an operation stops, and whatever others change: what others     *)
(* change counts as an edit.                                                *)
LEMMA OutsideStays ==
  ASSUME Worker!MaterializationAssumption, WorkerInv, Worker!Throw \/ Worker!Crash \/ Worker!Edit PROVE WorkerInv'
  <1>1. /\ UNCHANGED <<draft, receipts, record>>
        /\ (at' = "idle" /\ op' = None /\ action' = None) \/ UNCHANGED <<at, op, action>>
        /\ edits' = 0 => UNCHANGED <<project, projection, edits>>
    BY DEF Worker!Throw, Worker!Crash, Worker!Edit, Worker!End, Worker!disk, Worker!running, WorkerInv, Worker!TypeOK
  <1>2. Worker!TypeOK'
    <2>1. stops' \in 0 .. MaxStops /\ edits' \in 0 .. MaxEdits
      BY DEF WorkerInv, Worker!TypeOK, Worker!Throw, Worker!Crash, Worker!Edit, Worker!disk, Worker!running, Worker!MaterializationAssumption
    <2>2. temp' \in BOOLEAN /\ project' \in Worker!Projects /\ projection' \in Worker!Projections
      BY DEF WorkerInv, Worker!TypeOK, Worker!Throw, Worker!Crash, Worker!Edit, Worker!disk, Worker!Projects, Worker!Projections
    <2>3. at' \in Worker!Steps /\ op' \in Op \cup {None} /\ action' \in Worker!Action \cup {None}
      BY <1>1 DEF WorkerInv, Worker!TypeOK, Worker!Steps
    <2>4. QED BY <1>1, <2>1, <2>2, <2>3 DEF WorkerInv, Worker!TypeOK
  <1>3. (ReceiptsAreSingle /\ Worker!RecordIsBacked /\ JournalIsSound)'
    BY <1>1 DEF WorkerInv, ReceiptsAreSingle, Worker!RecordIsBacked, JournalIsSound, Worker!ReceiptsOf, Receipted
  <1>4. RunIsSound'
    BY <1>1 DEF WorkerInv, RunIsSound, Worker!ReceiptsOf, Receipted
  <1>5. WorkStays'
    BY <1>1 DEF WorkerInv, WorkStays, ReceivedSteps, CommittedFor, AppliedFor, Worker!Settled, Worker!ReadsBack
  <1>6. QED BY <1>2, <1>3, <1>4, <1>5 DEF WorkerInv

LEMMA WorkerStays == ASSUME Worker!MaterializationAssumption, WorkerInv, [Worker!Next]_(Worker!vars) PROVE WorkerInv'
  <1>1. CASE UNCHANGED Worker!vars
    BY <1>1 DEF Worker!vars, Worker!disk, Worker!running, WorkerInv, Worker!TypeOK, ReceiptsAreSingle, Worker!RecordIsBacked, RunIsSound,
                JournalIsSound, WorkStays, Worker!ReceiptsOf, Receipted, CommittedFor, AppliedFor, Worker!Settled, Worker!ReadsBack
  <1>2. CASE Worker!Next
    BY <1>2, StartStays, BeginStays, AdvanceStays, ProjectStays, ReceiptStays, RecordStays, ClosingStays,
       OutsideStays DEF Worker!Next, Worker!Step
  <1>3. QED BY <1>1, <1>2

LEMMA WorkerInvariance == ASSUME Worker!MaterializationAssumption PROVE Worker!Spec => []WorkerInv
  <1>1. Worker!Init => WorkerInv
    BY WorkerStarts
  <1>2. WorkerInv /\ [Worker!Next]_(Worker!vars) => WorkerInv'
    BY WorkerStays
  <1>3. QED BY <1>1, <1>2, PTL DEF Worker!Spec

(* The invariant implies all that is said of the evidence. *)
LEMMA EvidenceFollows == ASSUME Worker!MaterializationAssumption, WorkerInv PROVE Worker!EvidenceIsHonest
  <1>1. Worker!OneReceiptPerOperation
    <2>1. SUFFICES ASSUME NEW o \in Op PROVE Cardinality(Worker!ReceiptsOf(o)) <= 1
      BY WorkerCounts DEF Worker!OneReceiptPerOperation
    <2>2. \A r, s \in Worker!ReceiptsOf(o) : r = s
      BY DEF WorkerInv, ReceiptsAreSingle, Worker!ReceiptsOf
    <2>3. CASE Worker!ReceiptsOf(o) = {}
      BY <2>3, FS_EmptySet
    <2>4. CASE Worker!ReceiptsOf(o) # {}
      <3>1. PICK r : Worker!ReceiptsOf(o) = {r}
        BY <2>2, <2>4
      <3>2. Cardinality({r}) = 1
        BY FS_Singleton
      <3>3. QED BY <3>1, <3>2
    <2>5. QED BY <2>3, <2>4
  <1>2. Worker!HalfDoneIsJournaled
    BY DEF WorkerInv, WorkStays, Worker!HalfDoneIsJournaled
  <1>3. Worker!PhaseIsHonest
    <2>1. SUFFICES ASSUME edits = 0, draft # None
                   PROVE  /\ Worker!AtLeast(draft, "project_state_committed") => CommittedFor(draft.action)
                          /\ Worker!AtLeast(draft, "read_back_verified") => Worker!ReadsBack(draft.action)
                          /\ Worker!AtLeast(draft, "receipt_persisted") => Worker!ReceiptsOf(draft.op) # {}
                          /\ draft.durable => record = Worker!Expected(draft.op, draft.action)
      BY DEF Worker!PhaseIsHonest, CommittedFor
    <2>2. ASSUME Worker!AtLeast(draft, "read_back_verified")
          PROVE  /\ Worker!AtLeast(draft, "project_state_committed")
                 /\ Worker!AtLeast(draft, "projection_applied")
      <3>1. draft \in Worker!Journal
        BY <2>1 DEF WorkerInv, Worker!TypeOK
      <3>2. /\ PhaseNumber["project_state_committed"] = 3 /\ PhaseNumber["projection_applied"] = 4
            /\ PhaseNumber["read_back_verified"] = 5
            /\ {"project_state_committed", "projection_applied", "read_back_verified"} \subseteq Worker!Phase
        BY PhasesAre DEF PhaseNumber
      <3>3. PhaseNumber[draft.phase] \in Nat
        BY <3>1, PhasesAre DEF Worker!Journal, PhaseNumber
      <3>4. PhaseNumber[draft.phase] >= 5
        BY <2>1, <2>2, <3>1, <3>2, Reached
      <3>5. QED BY <2>1, <3>1, <3>2, <3>3, <3>4, Reached
    <2>3. Worker!AtLeast(draft, "read_back_verified") => Worker!ReadsBack(draft.action)
      BY <2>1, <2>2 DEF WorkerInv, WorkStays, Worker!ReadsBack, CommittedFor, AppliedFor
    <2>4. QED BY <2>1, <2>3 DEF WorkerInv, WorkStays, JournalIsSound, Receipted
  <1>4. QED BY <1>1, <1>2, <1>3 DEF WorkerInv, Worker!EvidenceIsHonest

(* Only the operation whose journal is retained writes the record. *)
LEMMA RecordFollowsStep ==
  ASSUME WorkerInv, [Worker!Next]_(Worker!vars), record' # record
  PROVE  draft # None /\ record'.op = draft.op
  <1>1. Worker!WriteRecord
    BY DEF Worker!Next, Worker!Step, Worker!Start, Worker!Begin, Worker!Advance, Worker!Commit, Worker!Sync, Worker!ReadBack, Worker!Draft, Worker!Link, Worker!Clean,
           Worker!MarkDurable, Worker!Complete, Worker!Forget, Worker!Throw, Worker!Crash, Worker!Edit, Worker!vars, Worker!disk
  <1>2. record'.op = op
    BY <1>1 DEF Worker!WriteRecord, Worker!Expected
  <1>3. QED BY <1>1, <1>2 DEF WorkerInv, RunIsSound, Worker!WriteRecord

(* However often operations are interrupted and asked for again, and by      *)
(* whatever other commands the project is changed: no operation has two      *)
(* receipts; the record names a receipt that is there and says the same;     *)
(* half-done work has a journal and the journal claims no more than was done *)
(* (cli/core/org-worker-materializer.ts); and the record is only ever        *)
(* replaced by that of the operation whose journal is retained.              *)
LEMMA WorkerIsHonest == ASSUME Worker!MaterializationAssumption PROVE Worker!Spec => Worker!MaterializationIsHonest
  <1>1. WorkerInv => Worker!EvidenceIsHonest
    BY EvidenceFollows
  <1>2. Worker!Spec => []Worker!EvidenceIsHonest
    BY <1>1, WorkerInvariance, PTL
  <1>3. WorkerInv /\ [Worker!Next]_(Worker!vars) => [record' # record => draft # None /\ record'.op = draft.op]_(Worker!vars)
    BY RecordFollowsStep
  <1>4. Worker!Spec => Worker!RecordFollowsJournal
    BY <1>3, WorkerInvariance, PTL DEF Worker!Spec, Worker!RecordFollowsJournal
  <1>5. QED BY <1>2, <1>4, PTL DEF Worker!MaterializationIsHonest

-----------------------------------------------------------------------------
(* The materializer's receipts, record and journal are honest beside the    *)
(* client operations of the same project, which leave them alone.           *)
THEOREM MaterializationStaysHonest == RetriesSpec => MaterializationIsHonest
  <1>1. RetriesInit => Worker!Init
    BY DEF RetriesInit
  <1>2. [RetriesNext]_both => [Worker!Next]_(Worker!vars)
    BY DEF RetriesNext, both, worker, Worker!vars, Worker!disk, Worker!running
  <1>3. RetriesSpec => Worker!Spec
    BY <1>1, <1>2, PTL DEF RetriesSpec, Worker!Spec
  <1>4. Worker!Spec => Worker!MaterializationIsHonest
    BY WorkerAssumption, WorkerIsHonest
  <1>5. QED BY <1>3, <1>4 DEF MaterializationIsHonest
=============================================================================
