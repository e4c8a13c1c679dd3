---------------------- MODULE OrgWorkerMaterialization ----------------------
(***************************************************************************)
(* Materialization, reconciliation and removal of one Org Worker in a      *)
(* project (cli/core/org-worker-materializer.ts) and the journal that lets *)
(* an interrupted operation be resumed under its id                        *)
(* (cli/core/org-worker-materialization-journal.ts).                       *)
(*                                                                         *)
(* A whole operation runs under one project lock that is refused to        *)
(* everybody else, so the model has a single running operation; what a     *)
(* second one does is to be told BUSY.  Other commands change the project  *)
(* between any two of its steps.  One file system effect per step: a       *)
(* process may die, and a call may throw, before each of them.             *)
(* commitProjectState is one step here (ProjectState), the vendored trees  *)
(* and instruction blocks that a synchronization writes are one value.     *)
(***************************************************************************)
EXTENDS Naturals, FiniteSets

CONSTANTS
  Op,            \* operation ids
  None,          \* no journal, no record, nobody
  MaxFaults,     \* bound: crashes and thrown errors
  MaxEdits       \* bound: changes made by other commands

Action == {"materialize", "reconcile", "remove"}
Phases == <<"validated", "artifacts_verified", "project_state_committed",
            "projection_applied", "read_back_verified", "receipt_persisted", "completed">>
Phase == {Phases[k] : k \in 1 .. 7}
Index(p) == CHOOSE k \in 1 .. 7 : Phases[k] = p

VARIABLES
  project,       \* config and lock: absent, as planned, with more roots, without ours
  projection,    \* vendored trees and instructions: absent, applied, removed, drifted
  journal,       \* the operation journal
  receipts,      \* the receipts on disk
  temp,          \* a temporary file is among the receipts
  record,        \* the materialization record: its state and its receipt's operation
  pc, op, action,\* the running operation, and what it does next
  faults, edits

disk == <<project, projection, journal, receipts, temp, record>>
running == <<pc, op, action>>
vars == <<disk, running, faults, edits>>

Projects == {"absent", "planned", "extended", "without"}
Projections == {"absent", "applied", "removed", "drifted"}
Journal == [op : Op, action : Action, phase : Phase, durable : BOOLEAN]
Record == [state : {"active", "removed"}, op : Op]
Steps == {"idle", "begin", "commit", "sync", "readback", "draft", "link", "clean",
          "early", "record", "durable", "complete", "forget"} \cup Phase

MaterializationAssumption ==
  /\ None \notin Op \cup Journal \cup Record
  /\ MaxFaults \in Nat /\ MaxEdits \in Nat

Init ==
  /\ project = "absent" /\ projection = "absent"
  /\ journal = None /\ receipts = {} /\ temp = FALSE /\ record = None
  /\ pc = "idle" /\ op = None /\ action = None
  /\ faults = 0 /\ edits = 0

Go(step) == pc' = step /\ UNCHANGED <<op, action>>
End == pc' = "idle" /\ op' = None /\ action' = None

AtLeast(j, p) == j # None /\ Index(j.phase) >= Index(p)
ReceiptsOf(o) == {r \in receipts : r.op = o}
Outcome(a) == IF a = "remove" THEN "removed" ELSE "active"
(* Mutant: the record keeps the action instead of what became of it. *)
ActionKept(o, a) == [state |-> a, op |-> o]
Expected(o, a) == [state |-> Outcome(a), op |-> o]

-----------------------------------------------------------------------------
(* Mutant: another operation's journal is in nobody's way. *)
AnybodyMay(o, a) == TRUE
(* The journal, if there is one, is this operation's and asks for the same. *)
MayRun(o, a) == journal # None => journal.op = o /\ journal.action = a

(* findWorkerMaterializationReceiptByOperation refuses a foreign entry. *)
StoreIsReadable == ~ temp

(* deriveFreshOrgWorkerMaterializationPlan and assertReconcileOwnership *)
FitsPlan(a) == CASE
     a = "materialize" -> journal = None => project \in {"absent", "planned"}
  [] a = "reconcile" -> record # None /\ project \in {"absent", "planned"}

(* removeOrgWorkerProject: the record is active, its receipt is there, and  *)
(* the roots and trees it names are all present or all gone.                *)
FitsRemoval ==
  /\ record # None /\ record.state = "active"
  /\ \E r \in ReceiptsOf(record.op) : r.action # "remove"
  /\ project # "absent"
  /\ projection = "applied" \/ (project = "without" /\ projection # "drifted")

(* exactReadBack, and what a removal reads back. *)
ReadsBack(a) ==
  IF a = "remove" THEN project = "without" /\ projection = "removed"
                  ELSE project = "planned" /\ projection = "applied"

(* Mutant: the record is asked whether the operation has its receipt. *)
Unrecorded(o) == record # None => record.op # o
Unanswered(o) == ReceiptsOf(o) = {}

(* An operation without a receipt starts or goes on from the top. *)
StartFresh(o, a) ==
  /\ MayRun(o, a) /\ StoreIsReadable /\ Unanswered(o)
  /\ IF a = "remove" THEN FitsRemoval
                     ELSE FitsPlan(a) /\ ~ AtLeast(journal, "receipt_persisted")
  /\ pc' = "begin"

(* The record a resumed operation may find: none or its own, or, for a      *)
(* removal, the one it is about to replace.                                 *)
RecordAllows(o, a) ==
  IF a = "remove" THEN record # None ELSE record \in {None, Expected(o, a)}

(* Mutant: evidence is only looked at once its phase is recorded. *)
IsRecorded(j) == AtLeast(j, "receipt_persisted")
IsVerified(j) == AtLeast(j, "read_back_verified")

(* Its receipt is there, and so is its journal: the rest is completed.      *)
(* Without a journal the answer is repeated, which changes nothing.         *)
StartRecovery(o, a) ==
  /\ journal # None /\ MayRun(o, a) /\ StoreIsReadable
  /\ \E r \in ReceiptsOf(o) : r.action = a
  /\ RecordAllows(o, a) /\ ReadsBack(a)
  /\ a = "reconcile" => FitsPlan(a)
  /\ IsVerified(journal)
  /\ a # "remove" => ~ AtLeast(journal, "completed")
  /\ pc' = IF a = "remove" THEN "early" ELSE "receipt_persisted"

Start ==
  /\ pc = "idle"
  /\ \E o \in Op, a \in Action :
       /\ StartFresh(o, a) \/ StartRecovery(o, a)
       /\ op' = o /\ action' = a
  /\ UNCHANGED <<disk, faults, edits>>

-----------------------------------------------------------------------------
Begin ==
  /\ pc = "begin"
  /\ journal' = IF journal # None THEN journal
                ELSE [op |-> op, action |-> action, phase |-> "validated", durable |-> FALSE]
  /\ Go("artifacts_verified")
  /\ UNCHANGED <<project, projection, receipts, temp, record, faults, edits>>

(* Mutants: the record is left out; the commit is left out; the record is   *)
(* written before the receipt.                                              *)
AfterWithoutRecord(p) == CASE
     p = "artifacts_verified" -> "commit" [] p = "project_state_committed" -> "sync"
  [] p = "projection_applied" -> "readback" [] p = "read_back_verified" -> "draft"
  [] p = "receipt_persisted" -> "complete"
AfterWithoutCommit(p) == CASE
     p = "artifacts_verified" -> "project_state_committed" [] p = "project_state_committed" -> "sync"
  [] p = "projection_applied" -> "readback" [] p = "read_back_verified" -> "draft"
  [] p = "receipt_persisted" -> "record"
AfterRecordFirst(p) == CASE
     p = "artifacts_verified" -> "commit" [] p = "project_state_committed" -> "sync"
  [] p = "projection_applied" -> "readback" [] p = "read_back_verified" -> "record"
  [] p = "receipt_persisted" -> "record"
(* What follows the write of each phase. *)
After(p) == CASE
     p = "artifacts_verified" -> "commit"
  [] p = "project_state_committed" -> "sync"
  [] p = "projection_applied" -> "readback"
  [] p = "read_back_verified" -> "draft"
  [] p = "receipt_persisted" -> "record"

(* advance: a phase the journal has passed is not written again. *)
Advance ==
  /\ pc \in Phase
  /\ journal' = IF AtLeast(journal, pc) THEN journal ELSE [journal EXCEPT !.phase = pc]
  /\ Go(After(pc))
  /\ UNCHANGED <<project, projection, receipts, temp, record, faults, edits>>

Commit ==
  /\ pc = "commit"
  /\ project' = IF action = "remove" THEN "without" ELSE "planned"
  /\ Go("project_state_committed")
  /\ UNCHANGED <<projection, journal, receipts, temp, record, faults, edits>>

Synced == IF action = "remove" THEN "removed" ELSE "applied"
Sync ==
  /\ pc = "sync"
  /\ projection' = Synced
  /\ Go("projection_applied")
  /\ UNCHANGED <<project, journal, receipts, temp, record, faults, edits>>

ReadBack ==
  /\ pc = "readback"
  /\ IF ReadsBack(action) THEN Go("read_back_verified") ELSE End
  /\ UNCHANGED <<disk, faults, edits>>

(* persistWorkerMaterializationReceipt: a temporary file, a link, a removal. *)
Draft ==
  /\ pc = "draft"
  /\ temp' = TRUE
  /\ Go("link")
  /\ UNCHANGED <<project, projection, journal, receipts, record, faults, edits>>

Link ==
  /\ pc = "link"
  /\ receipts' = receipts \cup {[id |-> Cardinality(receipts), op |-> op, action |-> action]}
  /\ Go("clean")
  /\ UNCHANGED <<project, projection, journal, temp, record, faults, edits>>

Clean ==
  /\ pc = "clean"
  /\ temp' = FALSE
  /\ Go("receipt_persisted")
  /\ UNCHANGED <<project, projection, journal, receipts, record, faults, edits>>

(* writeOrgWorkerMaterializationRecord; a resumed removal does it first, and *)
(* finding its record in place again changes nothing.                        *)
WriteRecord ==
  /\ pc \in {"early", "record"}
  /\ record' = Expected(op, action)
  /\ Go(IF pc = "early" THEN "receipt_persisted" ELSE "durable")
  /\ UNCHANGED <<project, projection, journal, receipts, temp, faults, edits>>

(* markOrgWorkerMaterializationRecordDurable refuses any other phase. *)
MarkDurable ==
  /\ pc = "durable"
  /\ IF journal.phase = "receipt_persisted"
     THEN journal' = [journal EXCEPT !.durable = TRUE] /\ Go("complete")
     ELSE UNCHANGED journal /\ End
  /\ UNCHANGED <<project, projection, receipts, temp, record, faults, edits>>

Complete ==
  /\ pc = "complete"
  /\ journal' = [journal EXCEPT !.phase = "completed"]
  /\ Go("forget")
  /\ UNCHANGED <<project, projection, receipts, temp, record, faults, edits>>

Forget ==
  /\ pc = "forget"
  /\ journal' = None
  /\ End
  /\ UNCHANGED <<project, projection, receipts, temp, record, faults, edits>>

-----------------------------------------------------------------------------
(* A call throws, a synchronization is refused: the draft of a receipt goes. *)
Throw ==
  /\ pc # "idle" /\ faults < MaxFaults
  /\ faults' = faults + 1
  /\ temp' = FALSE
  /\ End
  /\ UNCHANGED <<project, projection, journal, receipts, record, edits>>

(* The process dies; where nothing is cleaned up it is a Throw. *)
Crash ==
  /\ temp /\ pc # "idle" /\ faults < MaxFaults
  /\ faults' = faults + 1
  /\ End
  /\ UNCHANGED <<disk, edits>>

(* Another command adds a root or removes ours; somebody edits our files. *)
Edit ==
  /\ edits < MaxEdits
  /\ edits' = edits + 1
  /\ \/ project # "without" /\ project' = "without" /\ UNCHANGED projection
     \/ project = "planned" /\ project' = "extended" /\ UNCHANGED projection
     \/ projection = "applied" /\ projection' = "drifted" /\ UNCHANGED project
  /\ UNCHANGED <<journal, receipts, temp, record, running, faults>>

Step ==
  \/ Begin \/ Advance \/ Commit \/ Sync \/ ReadBack \/ Draft \/ Link \/ Clean
  \/ WriteRecord \/ MarkDurable \/ Complete \/ Forget
Next == Start \/ Step \/ Throw \/ Crash \/ Edit
Spec == Init /\ [][Next]_vars

(* Fairness: an operation that runs goes on, and one that was interrupted   *)
(* is asked for again.                                                      *)
Resume == journal # None /\ Start
LiveSpec == Spec /\ WF_vars(Step) /\ WF_vars(Resume)

-----------------------------------------------------------------------------
TypeOK ==
  /\ project \in Projects /\ projection \in Projections
  /\ journal \in Journal \cup {None} /\ record \in Record \cup {None}
  /\ receipts \subseteq [id : Nat, op : Op, action : Action] /\ IsFiniteSet(receipts)
  /\ temp \in BOOLEAN
  /\ pc \in Steps /\ op \in Op \cup {None} /\ action \in Action \cup {None}
  /\ faults \in 0 .. MaxFaults /\ edits \in 0 .. MaxEdits

(* No sequence of interruptions and resumptions gives one operation two     *)
(* receipts.                                                                *)
OneReceiptPerOperation == \A o \in Op : Cardinality(ReceiptsOf(o)) <= 1

(* What the project looks like for each record. *)
Settled == CASE
     record = None -> project = "absent" /\ projection = "absent"
  [] record # None /\ record.state = "active" -> ReadsBack("materialize")
  [] OTHER -> ReadsBack("remove")

(* Wherever an operation stops, as long as nobody else touches the project: *)
(* without a journal, project, projection and record agree.  Half-done work *)
(* is always journaled.                                                     *)
HalfDoneIsJournaled == journal = None /\ edits = 0 => Settled

(* A journal never claims more than the disk holds, and the record never    *)
(* names a receipt that is not there or was for something else.             *)
PhaseIsHonest == LET j == journal IN edits = 0 /\ j # None =>
  /\ AtLeast(j, "project_state_committed") => project = (IF j.action = "remove" THEN "without" ELSE "planned")
  /\ AtLeast(j, "read_back_verified") => ReadsBack(j.action)
  /\ AtLeast(j, "receipt_persisted") => ReceiptsOf(j.op) # {}
  /\ j.durable => record = Expected(j.op, j.action)
RecordIsBacked == record # None =>
  \E r \in ReceiptsOf(record.op) : Outcome(r.action) = record.state

(* What project, journal, record and receipts say of each other is true at  *)
(* every moment, whatever was interrupted and resumed before.               *)
EvidenceIsHonest ==
  /\ TypeOK
  /\ OneReceiptPerOperation
  /\ HalfDoneIsJournaled
  /\ PhaseIsHonest
  /\ RecordIsBacked

(* While an operation is unfinished nobody else's becomes the record.       *)
RecordFollowsJournal == [][record' # record => journal # None /\ record'.op = journal.op]_vars

(* org-worker-materializer.ts: what the receipts and the record say was     *)
(* done, was, and once; and a record is only ever written for the operation *)
(* whose journal is retained.                                               *)
MaterializationIsHonest ==
  /\ EvidenceIsHonest /\ [][EvidenceIsHonest']_vars
  /\ RecordFollowsJournal

(* The three ways in which a retained journal is refused by the operation   *)
(* it belongs to; none of them is left out of the model.                    *)
CompletedStays == pc = "idle" /\ journal # None /\ journal.phase = "completed"
RecordInTheWay == pc = "idle" /\ journal # None /\ ReceiptsOf(journal.op) # {}
                    /\ ~ RecordAllows(journal.op, journal.action)
StoreUnreadable == pc = "idle" /\ temp

(* Except for these, and unless somebody else changes the project, an       *)
(* interrupted operation that is asked for again finishes.                  *)
InterruptedOperationFinishes ==
  journal # None ~> \/ journal = None \/ edits > 0
                    \/ CompletedStays \/ RecordInTheWay \/ StoreUnreadable

(* org-worker-materialization-journal.ts, as its test (123) has it: a crash *)
(* in the completed phase is recovered.                                     *)
CompletedIsCleared == [](CompletedStays => <>(journal = None))

(* docs/cli-quickref.md:1010: a retained journal resumes the same operation *)
(* id after interruption.                                                   *)
ReceiptCanBeRecorded == ~ RecordInTheWay

(* The same, for an interruption while the receipt is being written.        *)
ReceiptsStayReadable == ~ StoreUnreadable
=============================================================================
