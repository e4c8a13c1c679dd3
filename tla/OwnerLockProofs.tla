--------------------------- MODULE OwnerLockProofs ---------------------------
(***************************************************************************)
(* What OwnerLock guarantees for every set of tasks, processes and hosts,  *)
(* proved.  The inductive invariant IInv says four things besides the      *)
(* types: a dead process's tasks are idle; ids are fresh; a holder that    *)
(* was not disturbed owns the path; and a contender about to rename saw a  *)
(* record no live holder wrote.                                            *)
(*                                                                         *)
(* The last part is about the locks that commands nest, the other part of  *)
(* the composition that TLC runs.                                          *)
(***************************************************************************)
EXTENDS MCLocks, SequenceTheorems, FiniteSetTheorems, TLAPS

USE DEF FreshId, PathTaken, Missing, ProcessIsAlive, Owns

Acquiring(t) == pc[t] \in {"publish", "inspect", "probe", "quarantine"}

DeadTasksAreIdle == \A t \in Task : ~ Alive(t) => pc[t] = "idle"

(* No two tasks carry one id, and no id was drawn before its turn. *)
IdsAreFresh ==
  /\ \A t \in Task : own[t] <= calls /\ (pc[t] # "idle" => own[t] # 0)
  /\ \A t, u \in Task : own[t] = own[u] /\ own[t] # 0 => t = u

(* A record with a task's id is that task's record, ids still to be drawn  *)
(* are on no record, and a task that is still acquiring has published none. *)
RecordsAreDated ==
  /\ lockFile \in Record =>
       /\ lockFile.id <= calls
       /\ lockFile.id \notin evicted
       /\ \A t \in Task : lockFile.id = own[t] => lockFile = Mine(t) /\ ~ Acquiring(t)
  /\ \A t \in Task : seen[t] \in Record =>
       /\ seen[t].id <= calls
       /\ \A u \in Task : seen[t].id = own[u] => ~ Acquiring(u)
  /\ \A t \in Task : pc[t] \in {"probe", "quarantine"} => seen[t] \in Record
  /\ \A i \in evicted : i <= calls
  /\ \A t \in Task : own[t] \in evicted => ~ Acquiring(t)

HoldersOwnThePath == evicted = {} => \A t \in Task : Holds(t) => lockFile = Mine(t)

IInv ==
  /\ TypeOK
  /\ DeadTasksAreIdle
  /\ IdsAreFresh
  /\ RecordsAreDated
  /\ HoldersOwnThePath
  /\ ProbedOwnerIsGone

-----------------------------------------------------------------------------
LEMMA InitIInv == Init => IInv
  BY LockAssumption
  DEF Init, IInv, TypeOK, FileState, Steps, Outcomes, DeadTasksAreIdle, IdsAreFresh,
      RecordsAreDated, HoldersOwnThePath, ProbedOwnerIsGone, Holds

LEMMA BeginIInv == ASSUME IInv, NEW t \in Task, Begin(t) PROVE IInv'
<1> USE LockAssumption DEF IInv, Begin, At, Goto, Fail, Alive, Mine
<1>1. TypeOK'
  BY DEF TypeOK, Steps, Outcomes
<1>2. DeadTasksAreIdle'
  BY DEF DeadTasksAreIdle
<1>3. IdsAreFresh'
  BY DEF TypeOK, IdsAreFresh
<1>4. RecordsAreDated'
  BY DEF TypeOK, Record, Id, RecordsAreDated, Acquiring
<1>5. HoldersOwnThePath'
  BY DEF HoldersOwnThePath, Holds
<1>6. ProbedOwnerIsGone'
  BY DEF ProbedOwnerIsGone, Holds
<1>7. QED
  BY <1>1, <1>2, <1>3, <1>4, <1>5, <1>6

LEMMA PublishIInv == ASSUME IInv, NEW t \in Task, Publish(t) PROVE IInv'
<1> USE LockAssumption DEF IInv, Publish, At, Goto, Fail, Alive, Mine
<1>1. TypeOK'
  BY DEF TypeOK, FileState, Record, Id, Steps, IdsAreFresh
<1>2. DeadTasksAreIdle'
  BY DEF TypeOK, DeadTasksAreIdle
<1>3. IdsAreFresh'
  BY DEF TypeOK, IdsAreFresh
<1>4. RecordsAreDated'
  BY DEF TypeOK, IdsAreFresh, RecordsAreDated, Acquiring
<1>5. HoldersOwnThePath'
  BY DEF TypeOK, HoldersOwnThePath, Holds, IdsAreFresh, Record, Id
<1>6. ProbedOwnerIsGone'
  BY DEF TypeOK, ProbedOwnerIsGone, Holds, RecordsAreDated, Acquiring
<1>7. QED
  BY <1>1, <1>2, <1>3, <1>4, <1>5, <1>6

LEMMA InspectIInv == ASSUME IInv, NEW t \in Task, Inspect(t) PROVE IInv'
<1> USE LockAssumption DEF IInv, Inspect, At, Goto, Fail, Alive, Mine
<1>1. TypeOK'
  BY DEF TypeOK, Steps, Outcomes
<1>2. DeadTasksAreIdle'
  BY DEF TypeOK, DeadTasksAreIdle
<1>3. IdsAreFresh'
  BY DEF TypeOK, IdsAreFresh
<1>4. RecordsAreDated'
  BY DEF TypeOK, RecordsAreDated, Acquiring
<1>5. HoldersOwnThePath'
  BY DEF TypeOK, HoldersOwnThePath, Holds
<1>6. ProbedOwnerIsGone'
  BY DEF TypeOK, ProbedOwnerIsGone, Holds
<1>7. QED
  BY <1>1, <1>2, <1>3, <1>4, <1>5, <1>6

LEMMA ProbeIInv == ASSUME IInv, NEW t \in Task, Probe(t) PROVE IInv'
<1> USE LockAssumption DEF IInv, Probe, At, Goto, Fail, Alive, Mine
<1>1. TypeOK'
  BY DEF TypeOK, Steps, Outcomes
<1>2. DeadTasksAreIdle'
  BY DEF TypeOK, DeadTasksAreIdle
<1>3. IdsAreFresh'
  BY DEF TypeOK, IdsAreFresh
<1>4. RecordsAreDated'
  BY DEF TypeOK, RecordsAreDated, Acquiring
<1>5. HoldersOwnThePath'
  BY DEF TypeOK, HoldersOwnThePath, Holds
<1>6. ProbedOwnerIsGone'
  BY DEF TypeOK, ProbedOwnerIsGone, Holds
<1>7. QED
  BY <1>1, <1>2, <1>3, <1>4, <1>5, <1>6

LEMMA QuarantineIInv == ASSUME IInv, NEW t \in Task, Quarantine(t) PROVE IInv'
<1> USE LockAssumption DEF IInv, Quarantine, At, Goto, Fail, Alive, Mine
<1>1. TypeOK'
  <2>1. \A u \in Holding : own[u] \in Id
    BY DEF TypeOK, Id, IdsAreFresh, Holding, Holds
  <2>2. {own[u] : u \in {v \in Holding : lockFile = Mine(v)}} \subseteq Id
    BY <2>1, Zenon
  <2>3. QED
    BY <2>2 DEF TypeOK, FileState, Steps
<1>2. DeadTasksAreIdle'
  BY DEF DeadTasksAreIdle
<1>3. IdsAreFresh'
  BY DEF IdsAreFresh
<1>4. RecordsAreDated'
  BY DEF IdsAreFresh, RecordsAreDated, Acquiring, Holding, Holds
<1>5. HoldersOwnThePath'
  BY DEF HoldersOwnThePath, Holds, Holding
<1>6. ProbedOwnerIsGone'
  BY DEF ProbedOwnerIsGone, Holds
<1>7. QED
  BY <1>1, <1>2, <1>3, <1>4, <1>5, <1>6

LEMMA FinishIInv == ASSUME IInv, NEW t \in Task, Finish(t) PROVE IInv'
<1> USE LockAssumption DEF IInv, Finish, At, Goto, Fail, Alive, Mine
<1>1. TypeOK'
  BY DEF TypeOK, Steps
<1>2. DeadTasksAreIdle'
  BY DEF DeadTasksAreIdle
<1>3. IdsAreFresh'
  BY DEF IdsAreFresh
<1>4. RecordsAreDated'
  BY DEF RecordsAreDated, Acquiring
<1>5. HoldersOwnThePath'
  BY DEF HoldersOwnThePath, Holds
<1>6. ProbedOwnerIsGone'
  BY DEF ProbedOwnerIsGone, Holds
<1>7. QED
  BY <1>1, <1>2, <1>3, <1>4, <1>5, <1>6

LEMMA VerifyIInv == ASSUME IInv, NEW t \in Task, Verify(t) PROVE IInv'
<1> USE LockAssumption DEF IInv, Verify, At, Goto, Fail, Alive, Mine
<1>1. TypeOK'
  BY DEF TypeOK, Steps, Outcomes
<1>2. DeadTasksAreIdle'
  BY DEF TypeOK, DeadTasksAreIdle
<1>3. IdsAreFresh'
  BY DEF TypeOK, IdsAreFresh
<1>4. RecordsAreDated'
  BY DEF TypeOK, RecordsAreDated, Acquiring
<1>5. HoldersOwnThePath'
  BY DEF TypeOK, HoldersOwnThePath, Holds
<1>6. ProbedOwnerIsGone'
  BY DEF TypeOK, ProbedOwnerIsGone, Holds
<1>7. QED
  BY <1>1, <1>2, <1>3, <1>4, <1>5, <1>6

LEMMA UnlinkIInv == ASSUME IInv, NEW t \in Task, Unlink(t) PROVE IInv'
<1> USE LockAssumption DEF IInv, Unlink, At, Goto, Fail, Alive, Mine
<1>1. TypeOK'
  BY DEF TypeOK, FileState, Steps, Outcomes
<1>2. DeadTasksAreIdle'
  BY DEF DeadTasksAreIdle
<1>3. IdsAreFresh'
  BY DEF IdsAreFresh
<1>4. RecordsAreDated'
  BY DEF RecordsAreDated, Acquiring
<1>5. HoldersOwnThePath'
  BY DEF TypeOK, HoldersOwnThePath, Holds, IdsAreFresh
<1>6. ProbedOwnerIsGone'
  BY DEF ProbedOwnerIsGone, Holds
<1>7. QED
  BY <1>1, <1>2, <1>3, <1>4, <1>5, <1>6

LEMMA CrashIInv == ASSUME IInv, NEW p \in Process, Crash(p) PROVE IInv'
<1> USE LockAssumption DEF IInv, Crash, At, Alive, Mine
<1>1. TypeOK'
  BY DEF TypeOK, Steps
<1>2. DeadTasksAreIdle'
  BY DEF DeadTasksAreIdle
<1>3. IdsAreFresh'
  BY DEF IdsAreFresh
<1>4. RecordsAreDated'
  BY DEF RecordsAreDated, Acquiring
<1>5. HoldersOwnThePath'
  BY DEF HoldersOwnThePath, Holds
<1>6. ProbedOwnerIsGone'
  BY DEF ProbedOwnerIsGone, Holds
<1>7. QED
  BY <1>1, <1>2, <1>3, <1>4, <1>5, <1>6

LEMMA RestartIInv == ASSUME IInv, NEW p \in Process, Restart(p) PROVE IInv'
<1> USE LockAssumption DEF IInv, Restart, At, Alive, Mine
<1>1. TypeOK'
  BY DEF TypeOK
<1>2. DeadTasksAreIdle'
  BY DEF DeadTasksAreIdle
<1>3. IdsAreFresh'
  BY DEF IdsAreFresh
<1>4. RecordsAreDated'
  BY DEF RecordsAreDated, Acquiring
<1>5. HoldersOwnThePath'
  BY DEF DeadTasksAreIdle, HoldersOwnThePath, Holds
<1>6. ProbedOwnerIsGone'
  BY DEF DeadTasksAreIdle, ProbedOwnerIsGone, Holds
<1>7. QED
  BY <1>1, <1>2, <1>3, <1>4, <1>5, <1>6

LEMMA StutterIInv == ASSUME IInv, UNCHANGED vars PROVE IInv'
  BY DEF IInv, vars, TypeOK, DeadTasksAreIdle, IdsAreFresh, RecordsAreDated,
     HoldersOwnThePath, ProbedOwnerIsGone, Alive, At, Holds, Acquiring, Mine

LEMMA NextIInv == IInv /\ [Next]_vars => IInv'
<1> SUFFICES ASSUME IInv, [Next]_vars PROVE IInv'
  OBVIOUS
<1>1. ASSUME NEW t \in Task, Begin(t) \/ Step(t) PROVE IInv'
  BY <1>1, BeginIInv, PublishIInv, InspectIInv, ProbeIInv, QuarantineIInv, FinishIInv,
     VerifyIInv, UnlinkIInv DEF Step
<1>2. ASSUME NEW p \in Process, Crash(p) \/ Restart(p) PROVE IInv'
  BY <1>2, CrashIInv, RestartIInv
<1>3. QED
  BY <1>1, <1>2, StutterIInv DEF Next

LEMMA Invariance == Spec => []IInv
  BY InitIInv, NextIInv, PTL DEF Spec

-----------------------------------------------------------------------------
(* Type correctness, for any number of tasks, processes and hosts. *)
THEOREM TypeCorrect == Spec => []TypeOK
<1>1. IInv => TypeOK
  BY DEF IInv
<1>2. QED
  BY <1>1, Invariance, PTL

(* Exclusion is lost only through a rename that hits a live holder's record. *)
THEOREM Exclusion == Spec => []ExclusiveUntilEviction
<1>1. IInv => ExclusiveUntilEviction
  BY LockAssumption
  DEF IInv, IdsAreFresh, HoldersOwnThePath, ExclusiveUntilEviction, MutualExclusion,
      Holding, Holds, Mine
<1>2. QED
  BY <1>1, Invariance, PTL

(* A record that was found dead is never that of a live holder, even when   *)
(* PIDs are reused: the liveness probe of owner-lock.ts:133 is sound.       *)
THEOREM ProbeIsSound == Spec => []ProbedOwnerIsGone
<1>1. IInv => ProbedOwnerIsGone
  BY DEF IInv
<1>2. QED
  BY <1>1, Invariance, PTL

(* Until an eviction, releaseOwnerLock unlinks the caller's own record. *)
THEOREM ReleaseIsOwn == Spec => ReleaseRemovesOwnRecord
<1>1. IInv /\ [Next]_vars =>
        [\A t \in Task : Unlink(t) /\ evicted = {} => lockFile = Mine(t)]_vars
  BY DEF IInv, HoldersOwnThePath, Holds, Unlink, At
<1>2. QED
  BY <1>1, Invariance, PTL DEF Spec, ReleaseRemovesOwnRecord

(* A holder that was evicted before it reads its record back is refused. *)
THEOREM EvictionIsNoticed == Spec => EvictedIsRefused
<1>1. IInv /\ [Next]_vars =>
        [\A t \in Task : Verify(t) /\ own[t] \in evicted => pc'[t] = "idle"]_vars
  <2> SUFFICES ASSUME IInv, NEW t \in Task, Verify(t), own[t] \in evicted
               PROVE pc'[t] = "idle"
    OBVIOUS
  <2>1. lockFile \in Record => lockFile.id # own[t]
    BY DEF IInv, RecordsAreDated
  <2>2. QED
    BY <2>1 DEF IInv, TypeOK, Verify, Goto, Fail
<1>2. QED
  BY <1>1, Invariance, PTL DEF Spec, EvictedIsRefused

(* Both together: a release takes away the caller's own record, or fails. *)
THEOREM HonestRelease == Spec => ReleaseIsHonest
  BY ReleaseIsOwn, EvictionIsNoticed, PTL DEF ReleaseIsHonest

(* Up to the first eviction the file protocol implements the exclusive lock *)
(* its callers are built on.                                                *)
THEOREM Refinement == Spec => ImplementsLockUntilEviction
<1>1. Init => Abstract!LockInit
  BY DEF Init, Abstract!LockInit, Holding, Holds
<1>2. IInv /\ [Next]_vars => [evicted' = {} => Abstract!LockNext]_Holding
  <2> SUFFICES ASSUME IInv, [Next]_vars, evicted' = {}, Holding' # Holding
               PROVE Abstract!LockNext
    OBVIOUS
  <2> USE DEF Holding, Holds, Alive, At, Goto, Fail
  <2>1. evicted = {}
    BY DEF Next, Step, Begin, Publish, Inspect, Probe, Quarantine, Finish, Verify, Unlink,
       Crash, Restart, vars
  <2>2. ASSUME NEW t \in Task, Publish(t) PROVE Abstract!LockNext
    <3>1. lockFile = Absent
      BY <2>2 DEF Publish, IInv, TypeOK
    <3>2. Holding = {}
      BY <3>1, <2>1, LockAssumption
      DEF IInv, TypeOK, HoldersOwnThePath, IdsAreFresh, Mine, Record, Id
    <3>3. Holding' = {t}
      BY <2>2, <3>1, <3>2 DEF Publish, IInv, TypeOK
    <3>4. QED
      BY <3>2, <3>3 DEF Abstract!LockNext, Abstract!Enter
  <2>3. ASSUME NEW t \in Task, Verify(t) \/ Unlink(t) PROVE Abstract!LockNext
    <3>1. t \in Holding
      BY <2>3 DEF Verify, Unlink
    <3>2. Holding' = Holding \ {t}
      BY <2>3, <3>1 DEF Verify, Unlink, IInv, TypeOK
    <3>3. QED
      BY <3>1, <3>2 DEF Abstract!LockNext, Abstract!Exit
  <2>4. ASSUME NEW p \in Process, Crash(p) PROVE Abstract!LockNext
    <3>1. Holding' = Holding \ {t \in Task : ProcessOf[t] = p}
      BY <2>4 DEF Crash
    <3>2. QED
      BY <3>1, Zenon DEF Abstract!LockNext, Abstract!Die
  <2>5. ASSUME NEW p \in Process, Restart(p) PROVE FALSE
    BY <2>5 DEF Restart, IInv, DeadTasksAreIdle
  <2>6. ASSUME NEW t \in Task,
               Begin(t) \/ Inspect(t) \/ Probe(t) \/ Quarantine(t) \/ Finish(t)
        PROVE FALSE
    BY <2>6 DEF Begin, Inspect, Probe, Quarantine, Finish, IInv, TypeOK
  <2>7. QED
    BY <2>2, <2>3, <2>4, <2>5, <2>6 DEF Next, Step, vars
<1>3. QED
  BY <1>1, <1>2, Invariance, PTL DEF Spec, ImplementsLockUntilEviction

-----------------------------------------------------------------------------
(* Nesting.  The scan takes the roots in order and a lock compares the paths  *)
(* under them.  The suffix cannot turn two roots around by their letters      *)
(* unless the first one ends where they would differ, and cannot by accents   *)
(* or capitals, because it has none.                                          *)

Texts == Seq(Nat)

-----------------------------------------------------------------------------
(* The order at one level is strict and total. *)

LEMMA PrecedesIsAsymmetric ==
  ASSUME NEW r \in Texts, NEW s \in Texts, Nesting!Precedes(r, s)
  PROVE  ~Nesting!Precedes(s, r)
  BY SMTT(30) DEF Nesting!Precedes, Texts

(* The first place where two texts differ. *)
Differ(r, s) == {i \in Nat : i > 0 /\ (i <= Len(r) \/ i <= Len(s))
                                   /\ (i > Len(r) \/ i > Len(s) \/ r[i] # s[i])}

LEMMA FirstDifference ==
  ASSUME NEW r \in Texts, NEW s \in Texts, r # s
  PROVE  \E i \in Differ(r, s) : \A j \in 1..(i - 1) : j <= Len(r) /\ j <= Len(s) /\ r[j] = s[j]
  <1>1. Len(r) \in Nat /\ Len(s) \in Nat
    BY DEF Texts
  <1>2. Differ(r, s) # {}
    <2>1. CASE Len(r) < Len(s)
      BY <1>1, <2>1 DEF Differ
    <2>2. CASE Len(s) < Len(r)
      BY <1>1, <2>2 DEF Differ
    <2>3. CASE Len(r) = Len(s)
      <3>1. PICK i \in 1..Len(r) : r[i] # s[i]
        BY <2>3, SeqEqual DEF Texts
      <3>2. QED BY <1>1, <3>1 DEF Differ
    <2>4. QED BY <1>1, <2>1, <2>2, <2>3
  <1>3. PICK i \in Differ(r, s) : \A j \in Differ(r, s) : <<j, i>> \notin OpToRel(<, Nat)
    <2>1. Differ(r, s) \subseteq Nat
      BY DEF Differ
    <2>2. QED BY <1>2, <2>1, NatLessThanWellFounded, WFMin, Zenon
  <1>4. \A j \in Differ(r, s) : ~(j < i)
    BY <1>3 DEF OpToRel, Differ
  <1>5. ASSUME NEW j \in 1..(i - 1) PROVE j <= Len(r) /\ j <= Len(s) /\ r[j] = s[j]
    BY <1>1, <1>4, <1>5 DEF Differ
  <1>6. QED BY <1>5

LEMMA PrecedesIsTotal ==
  ASSUME NEW r \in Texts, NEW s \in Texts, r # s
  PROVE  Nesting!Precedes(r, s) \/ Nesting!Precedes(s, r)
  <1>1. PICK i \in Differ(r, s) : \A j \in 1..(i - 1) : j <= Len(r) /\ j <= Len(s) /\ r[j] = s[j]
    BY FirstDifference
  <1>2. i \in Nat /\ i > 0 /\ Len(r) \in Nat /\ Len(s) \in Nat
    BY DEF Differ, Texts
  <1>3. CASE i > Len(r)
    BY <1>1, <1>2, <1>3 DEF Nesting!Precedes, Differ
  <1>4. CASE i > Len(s)
    BY <1>1, <1>2, <1>4 DEF Nesting!Precedes, Differ
  <1>5. CASE i <= Len(r) /\ i <= Len(s)
    <2>1. r[i] \in Nat /\ s[i] \in Nat /\ r[i] # s[i]
      BY <1>2, <1>5 DEF Differ, Texts
    <2>2. i \in 1..Len(r) /\ i \in 1..Len(s)
      BY <1>2, <1>5
    <2>3. CASE r[i] < s[i]
      BY <1>1, <2>2, <2>3 DEF Nesting!Precedes
    <2>4. CASE s[i] < r[i]
      BY <1>1, <2>2, <2>4 DEF Nesting!Precedes
    <2>5. QED BY <2>1, <2>3, <2>4
  <1>6. QED BY <1>2, <1>3, <1>4, <1>5

(* What follows two texts cannot turn them around, unless the first is a    *)
(* prefix of the second.                                                    *)
LEMMA SuffixesKeepOrder ==
  ASSUME NEW r \in Texts, NEW s \in Texts, NEW u \in Texts, NEW v \in Texts,
         Nesting!Precedes(r, s), ~Nesting!IsPrefix(r, s)
  PROVE  Nesting!Precedes(r \o u, s \o v)
  <1>1. PICK i \in 1..Len(s) : /\ \A j \in 1..(i - 1) : j <= Len(r) /\ r[j] = s[j]
                               /\ i > Len(r) \/ r[i] < s[i]
    BY DEF Nesting!Precedes
  <1>2. Len(r) \in Nat /\ Len(s) \in Nat
    BY DEF Texts
  <1>3. i <= Len(r)
    <2>1. SUFFICES ASSUME i > Len(r) PROVE FALSE
      BY <1>2
    <2>2. Len(r) <= Len(s) /\ \A j \in 1..Len(r) : r[j] = s[j]
      BY <1>1, <1>2, <2>1
    <2>3. SubSeq(r, 1, Len(r)) = SubSeq(s, 1, Len(r))
      <3>1. /\ SubSeq(r, 1, Len(r)) = [j \in 1..Len(r) |-> r[j]]
            /\ SubSeq(s, 1, Len(r)) = [j \in 1..Len(r) |-> s[j]]
        BY <1>2, <2>2, SubSeqRestrict DEF Texts, Restrict
      <3>2. QED BY <2>2, <3>1
    <2>4. QED BY <2>2, <2>3 DEF Nesting!IsPrefix
  <1>4. /\ Len(s \o v) = Len(s) + Len(v) /\ Len(r \o u) = Len(r) + Len(u)
        /\ \A j \in 1..Len(r) : (r \o u)[j] = r[j]
        /\ \A j \in 1..Len(s) : (s \o v)[j] = s[j]
    BY DEF Texts
  <1>5. Len(u) \in Nat /\ Len(v) \in Nat
    BY DEF Texts
  <1>6. i \in 1..Len(s \o v) /\ (r \o u)[i] < (s \o v)[i]
    BY <1>1, <1>2, <1>3, <1>4, <1>5
  <1>7. \A j \in 1..(i - 1) : j <= Len(r \o u) /\ (r \o u)[j] = (s \o v)[j]
    BY <1>1, <1>2, <1>3, <1>4, <1>5
  <1>8. QED BY <1>6, <1>7 DEF Nesting!Precedes

(* Nor can what has the least weights, a prefix or not.                      *)
LEMMA LeastSuffixKeepsOrder ==
  ASSUME NEW r \in Texts, NEW s \in Texts, NEW u \in Texts, NEW c \in Nat,
         Nesting!Precedes(r, s),
         \A i \in 1..Len(s) : c <= s[i], \A i \in 1..Len(u) : u[i] = c
  PROVE  Nesting!Precedes(r \o u, s \o u)
  <1>1. CASE ~Nesting!IsPrefix(r, s)
    BY <1>1, SuffixesKeepOrder
  <1>2. CASE Nesting!IsPrefix(r, s)
    <2> DEFINE x == r \o u
               y == s \o u
               D == {i \in 1..Len(y) : i > Len(x) \/ x[i] < y[i]}
    <2>1. Len(r) \in Nat /\ Len(s) \in Nat /\ Len(u) \in Nat
      BY DEF Texts
    <2>2. Len(r) <= Len(s) /\ \A j \in 1..Len(r) : r[j] = s[j]
      <3>1. Len(r) <= Len(s) /\ SubSeq(r, 1, Len(r)) = SubSeq(s, 1, Len(r))
        BY <1>2 DEF Nesting!IsPrefix
      <3>2. \A j \in 1..Len(r) : SubSeq(r, 1, Len(r))[j] = r[j] /\ SubSeq(s, 1, Len(r))[j] = s[j]
        BY <2>1, <3>1 DEF Texts
      <3>3. QED BY <3>1, <3>2
    <2>3. Len(r) < Len(s)
      <3>1. PICK i \in 1..Len(s) : i > Len(r) \/ r[i] < s[i]
        BY DEF Nesting!Precedes
      <3>2. CASE i > Len(r)
        BY <2>1, <3>2
      <3>3. CASE i <= Len(r)
        <4>1. r[i] = s[i] /\ r[i] < s[i] /\ r[i] \in Nat
          BY <2>1, <2>2, <3>1, <3>3 DEF Texts
        <4>2. QED BY <4>1
      <3>4. QED BY <2>1, <3>2, <3>3
    <2>4. /\ Len(x) = Len(r) + Len(u) /\ Len(y) = Len(s) + Len(u)
          /\ \A j \in 1..Len(r) : x[j] = r[j]
          /\ \A j \in 1..Len(u) : x[j + Len(r)] = u[j] /\ y[j + Len(s)] = u[j]
          /\ \A j \in 1..Len(s) : y[j] = s[j]
      <3>1. Len(x) = Len(r) + Len(u) /\ Len(y) = Len(s) + Len(u)
        BY DEF Texts
      <3>2. (\A j \in 1..Len(r) : x[j] = r[j]) /\ \A j \in 1..Len(s) : y[j] = s[j]
        BY DEF Texts
      <3>3. \A j \in 1..Len(u) : x[j + Len(r)] = u[j]
        BY DEF Texts
      <3>4. \A j \in 1..Len(u) : y[j + Len(s)] = u[j]
        BY DEF Texts
      <3>5. QED BY <3>1, <3>2, <3>3, <3>4
    <2>5. ASSUME NEW j \in 1..Len(x)
          PROVE  j \in 1..Len(y) /\ x[j] \in Nat /\ y[j] \in Nat /\ x[j] <= y[j]
      <3>1. j \in 1..Len(y)
        BY <2>1, <2>3, <2>4
      <3>2. CASE j <= Len(r)
        <4>1. x[j] = r[j] /\ y[j] = s[j] /\ r[j] = s[j] /\ r[j] \in Nat
          BY <2>1, <2>2, <2>4, <3>2 DEF Texts
        <4>2. QED BY <3>1, <4>1
      <3>3. CASE j > Len(r)
        <4>1. j - Len(r) \in 1..Len(u) /\ x[(j - Len(r)) + Len(r)] = c
          BY <2>1, <2>4, <3>3
        <4>2. (j - Len(r)) + Len(r) = j
          BY <2>1
        <4>3. x[j] = c
          BY <4>1, <4>2
        <4>4. CASE j <= Len(s)
          <5>1. y[j] = s[j] /\ c <= s[j] /\ s[j] \in Nat
            BY <2>1, <2>4, <4>4 DEF Texts
          <5>2. QED BY <3>1, <4>3, <5>1
        <4>5. CASE j > Len(s)
          <5>1. j - Len(s) \in 1..Len(u) /\ (j - Len(s)) + Len(s) = j
            BY <2>1, <2>4, <3>1, <4>5
          <5>2. y[j] = c
            BY <2>4, <5>1
          <5>3. QED BY <3>1, <4>3, <5>2
        <4>6. QED BY <2>1, <4>4, <4>5
      <3>4. QED BY <2>1, <3>2, <3>3
    <2>6. Len(y) \in D
      BY <2>1, <2>3, <2>4
    <2>7. PICK i \in D : \A j \in D : <<j, i>> \notin OpToRel(<, Nat)
      <3>1. D \subseteq Nat /\ D # {}
        BY <2>6
      <3> HIDE DEF D
      <3>2. QED BY <3>1, NatLessThanWellFounded, WFMin, Zenon
    <2> HIDE DEF x, y
    <2>8. i \in 1..Len(y) /\ (i > Len(x) \/ x[i] < y[i])
      OBVIOUS
    <2>9. Len(x) \in Nat /\ Len(y) \in Nat
      BY <2>1, <2>4
    <2>10. ASSUME NEW j \in 1..(i - 1) PROVE j <= Len(x) /\ x[j] = y[j]
      <3>1. j \in 1..Len(y) /\ j \in Nat /\ i \in Nat /\ j < i
        BY <2>8, <2>9
      <3>2. j \notin D
        BY <2>7, <3>1 DEF OpToRel
      <3>3. j <= Len(x) /\ ~(x[j] < y[j])
        BY <2>9, <3>1, <3>2
      <3>4. j \in 1..Len(x)
        BY <2>9, <3>3
      <3>5. QED BY <2>5, <3>3, <3>4
    <2>11. Nesting!Precedes(x, y)
      <3> HIDE DEF D
      <3>1. QED BY <2>8, <2>10 DEF Nesting!Precedes
    <2>12. QED BY <2>11 DEF x, y
  <1>3. QED BY <1>1, <1>2

-----------------------------------------------------------------------------
(* The levels together.                                                      *)

Keys == [Nesting!Strength -> Texts]

LEMMA BeforeIsAsymmetric ==
  ASSUME NEW a \in Keys, NEW b \in Keys, Nesting!Before(a, b)
  PROVE  ~Nesting!Before(b, a)
  <1>1. PICK n \in Nesting!Strength : (\A m \in 1..(n - 1) : a[m] = b[m])
                                     /\ Nesting!Precedes(a[n], b[n])
    BY DEF Nesting!Before
  <1>2. SUFFICES ASSUME NEW k \in Nesting!Strength, \A m \in 1..(k - 1) : b[m] = a[m],
                        Nesting!Precedes(b[k], a[k])
                 PROVE  FALSE
    BY DEF Nesting!Before
  <1>3. a[n] \in Texts /\ b[n] \in Texts /\ a[k] \in Texts /\ b[k] \in Texts
    BY DEF Keys
  <1>4. ~Nesting!Precedes(b[n], a[n]) /\ ~Nesting!Precedes(a[k], b[k])
    BY <1>1, <1>2, <1>3, PrecedesIsAsymmetric
  <1>5. CASE n < k
    <2>1. a[n] = b[n]
      BY <1>2, <1>5 DEF Nesting!Strength
    <2>2. QED BY <1>1, <1>4, <2>1
  <1>6. CASE k < n
    <2>1. a[k] = b[k]
      BY <1>1, <1>6 DEF Nesting!Strength
    <2>2. QED BY <1>2, <1>4, <2>1
  <1>7. CASE n = k
    BY <1>2, <1>4, <1>7
  <1>8. QED BY <1>5, <1>6, <1>7 DEF Nesting!Strength

(* What collates neither before nor after is alike at each level.            *)
LEMMA BeforeIsTotal ==
  ASSUME NEW a \in Keys, NEW b \in Keys, ~Nesting!Before(a, b), ~Nesting!Before(b, a)
  PROVE  a = b
  <1>1. \A n \in Nesting!Strength : a[n] \in Texts /\ b[n] \in Texts
    BY DEF Keys
  <1>2. ASSUME NEW n \in Nesting!Strength, \A m \in 1..(n - 1) : a[m] = b[m]
        PROVE  a[n] = b[n]
    <2>1. ~Nesting!Precedes(a[n], b[n]) /\ ~Nesting!Precedes(b[n], a[n])
      BY <1>2 DEF Nesting!Before
    <2>2. QED BY <1>1, <2>1, PrecedesIsTotal
  <1>3. 1 \in Nesting!Strength /\ 2 \in Nesting!Strength /\ 3 \in Nesting!Strength
    BY DEF Nesting!Strength
  <1>4. a[1] = b[1]
    BY <1>2, <1>3
  <1>5. a[2] = b[2]
    <2>1. \A m \in 1..(2 - 1) : m = 1
      OBVIOUS
    <2>2. \A m \in 1..(2 - 1) : a[m] = b[m]
      BY <1>4, <2>1
    <2>3. QED BY <1>2, <1>3, <2>2
  <1>6. a[3] = b[3]
    <2>1. \A m \in 1..(3 - 1) : m = 1 \/ m = 2
      OBVIOUS
    <2>2. \A m \in 1..(3 - 1) : a[m] = b[m]
      BY <1>4, <1>5, <2>1
    <2>3. QED BY <1>2, <1>3, <2>2
  <1>7. \A n \in Nesting!Strength : a[n] = b[n]
    BY <1>4, <1>5, <1>6 DEF Nesting!Strength
  <1>8. QED BY <1>7 DEF Keys

-----------------------------------------------------------------------------
(* What every plan has: a lock that is asked for twice is asked for last,   *)
(* and two neighbours are out of order only for roots that begin alike.     *)

PrefixesIn(p) ==
  \E r, s \in Roots :
    Nesting!BeginsWith(s, r)
         /\ {Nesting!ProjectState(r), Nesting!ProjectState(s)} \subseteq {p[i] : i \in DOMAIN p}

Orderly(p) ==
  /\ p \in Seq(Nesting!Locks)
  /\ \A i, j \in 1..Len(p) : i < j /\ p[i] = p[j] => j = Len(p)
  /\ \A k \in 1..(Len(p) - 1) :
       Nesting!After(p[k], p[k + 1]) /\ (\A i \in 1..k : p[i] # p[k + 1]) => PrefixesIn(p)

LEMMA ProjectLocks ==
  ASSUME Nesting!PathAssumption, NEW r \in Roots
  PROVE  /\ Nesting!ProjectState(r).level = 2 /\ Nesting!Materialization(r).level = 2
         /\ Nesting!ProjectState(r) \in Nesting!Locks
            /\ Nesting!Materialization(r) \in Nesting!Locks
         /\ Nesting!Inventory \in Nesting!Locks /\ Nesting!Machine \in Nesting!Locks
         /\ Nesting!Inventory.level = 0 /\ Nesting!Machine.level = 1
  BY DEF Nesting!ProjectState, Nesting!Materialization, Nesting!Inventory, Nesting!Machine,
         Nesting!Locks

LEMMA LockKeys ==
  ASSUME Nesting!PathAssumption, NEW r \in Roots
  PROVE  /\ Weights[r] \in Keys
         /\ Nesting!LockWeights(Nesting!ProjectState(r)) \in Keys
         /\ Nesting!LockWeights(Nesting!Materialization(r)) \in Keys
         /\ \A n \in Nesting!Strength :
              /\ Nesting!LockWeights(Nesting!ProjectState(r))[n] = Weights[r][n] \o Nesting!Suffix(S, n)
              /\ Nesting!LockWeights(Nesting!Materialization(r))[n]
                   = Weights[r][n] \o Nesting!Suffix(O, n)
              /\ Weights[r][n] \in Texts
              /\ Nesting!Suffix(S, n) \in Texts /\ Nesting!Suffix(O, n) \in Texts
  <1>1. Weights[r] \in Keys
    BY DEF Nesting!PathAssumption, Keys, Texts
  <1>2. \A n \in Nesting!Strength : Nesting!Suffix(S, n) \in Texts /\ Nesting!Suffix(O, n) \in Texts
    BY DEF Nesting!Suffix, Nesting!PathAssumption, Texts
  <1>3. \A n \in Nesting!Strength : Weights[r][n] \in Texts
    BY <1>1 DEF Keys
  <1>4. ASSUME NEW f \in {S, O}, NEW n \in Nesting!Strength
        PROVE  Weights[r][n] \o Nesting!Suffix(f, n) \in Texts
    BY <1>2, <1>3, ConcatProperties DEF Texts
  <1>5. /\ Nesting!ProjectState(r).root = r /\ Nesting!ProjectState(r).file = S
        /\ Nesting!Materialization(r).root = r /\ Nesting!Materialization(r).file = O
    BY DEF Nesting!ProjectState, Nesting!Materialization
  <1>6. QED BY <1>1, <1>2, <1>3, <1>4, <1>5 DEF Nesting!LockWeights, Keys

(* The lock of the materialization comes before that of the state. *)
LEMMA MaterializationIsFirst ==
  ASSUME Nesting!PathAssumption, NEW r \in Roots
  PROVE  ~Nesting!After(Nesting!Materialization(r), Nesting!ProjectState(r))
       /\ Nesting!Materialization(r) # Nesting!ProjectState(r)
  <1> DEFINE a == Nesting!LockWeights(Nesting!Materialization(r))
             b == Nesting!LockWeights(Nesting!ProjectState(r))
             m == a[1]
             p == b[1]
             i == Len(Weights[r][1]) + 3
  <1>1. Weights[r][1] \in Seq(Nat) /\ Len(Weights[r][1]) \in Nat /\ O < S /\ 1 \in Nesting!Strength
    BY DEF Nesting!PathAssumption, Nesting!Strength
  <1>2. /\ Len(m) = i /\ Len(p) = i /\ m[i] = O /\ p[i] = S
        /\ \A j \in 1..(i - 1) : m[j] = p[j]
    <2> DEFINE w == Weights[r][1]
    <2>1. m = w \o <<Slash, Dot, O>> /\ p = w \o <<Slash, Dot, S>>
      BY <1>1, LockKeys DEF Nesting!Suffix
    <2>2. w \in Seq(Nat) /\ i = Len(w) + 3
      BY <1>1
    <2> HIDE DEF m, p, w, a, b, i
    <2>3. Len(m) = i /\ Len(p) = i
      BY <2>1, <2>2 DEF Nesting!PathAssumption
    <2>4. m[i] = O /\ p[i] = S
      BY <2>1, <2>2, SMTT(30) DEF Nesting!PathAssumption
    <2>5. \A j \in 1..(i - 1) : m[j] = p[j]
      BY <2>1, <2>2, SMTT(30) DEF Nesting!PathAssumption
    <2>6. QED BY <2>3, <2>4, <2>5
  <1>3. Nesting!Before(a, b)
    <2> HIDE DEF a, b
    <2>1. i \in 1..Len(p) /\ m[i] < p[i] /\ \A j \in 1..(i - 1) : j <= Len(m) /\ m[j] = p[j]
      <3> HIDE DEF m, p
      <3>1. QED BY <1>1, <1>2
    <2> HIDE DEF m, p, i
    <2>2. Nesting!Precedes(m, p)
      BY <2>1 DEF Nesting!Precedes
    <2>3. QED BY <1>1, <2>2 DEF Nesting!Before, m, p
  <1>4. a \in Keys /\ b \in Keys
    BY LockKeys
  <1>5. ~Nesting!Before(b, a)
    <2> HIDE DEF a, b
    <2>1. QED BY <1>3, <1>4, BeforeIsAsymmetric
  <1>6. a # b
    <2> HIDE DEF a, b
    <2>1. QED BY <1>3, <1>5
  <1>7. Nesting!Materialization(r) # Nesting!ProjectState(r)
    BY <1>6
  <1>8. QED BY <1>5, <1>7, ProjectLocks DEF Nesting!After

(* The locks of roots in order are in order, unless the second begins with  *)
(* the first.                                                               *)
LEMMA LocksKeepOrder ==
  ASSUME Nesting!PathAssumption, NEW r \in Roots, NEW s \in Roots,
         Nesting!Before(Weights[r], Weights[s]), ~Nesting!BeginsWith(s, r)
  PROVE  Nesting!Before(Nesting!LockWeights(Nesting!ProjectState(r)),
                        Nesting!LockWeights(Nesting!ProjectState(s)))
  <1> DEFINE a == Nesting!LockWeights(Nesting!ProjectState(r))
             b == Nesting!LockWeights(Nesting!ProjectState(s))
  <1>1. PICK n \in Nesting!Strength : /\ \A m \in 1..(n - 1) : Weights[r][m] = Weights[s][m]
                                     /\ Nesting!Precedes(Weights[r][n], Weights[s][n])
    BY DEF Nesting!Before
  <1>2. \A m \in Nesting!Strength : /\ a[m] = Weights[r][m] \o Nesting!Suffix(S, m)
                                    /\ b[m] = Weights[s][m] \o Nesting!Suffix(S, m)
                                    /\ Weights[r][m] \in Texts /\ Weights[s][m] \in Texts
                                    /\ Nesting!Suffix(S, m) \in Texts
    BY LockKeys
  <1> HIDE DEF a, b
  <1>3. \A m \in 1..(n - 1) : m \in Nesting!Strength
    BY DEF Nesting!Strength
  <1>4. \A m \in 1..(n - 1) : a[m] = b[m]
    BY <1>1, <1>2, <1>3
  <1>5. Nesting!Precedes(a[n], b[n])
    <2>1. CASE n = 1
      <3>1. ~Nesting!IsPrefix(Weights[r][1], Weights[s][1])
        <4>1. Weights[r][1] # Weights[s][1]
          BY <1>1, <1>2, <2>1, PrecedesIsAsymmetric
        <4>2. QED BY <4>1 DEF Nesting!BeginsWith, Nesting!IsStrictPrefix
      <3>2. Nesting!Precedes(Weights[r][n] \o Nesting!Suffix(S, n), Weights[s][n] \o Nesting!Suffix(S, n))
        BY <1>1, <1>2, <2>1, <3>1, SuffixesKeepOrder
      <3>3. QED BY <1>2, <3>2
    <2>2. CASE n \in {2, 3}
      <3>1. Common \in Nat /\ \A i \in 1..Len(Weights[s][n]) : Common <= Weights[s][n][i]
        <4>1. DOMAIN Weights[s][n] = 1..Len(Weights[s][n])
          BY <1>2 DEF Texts
        <4>2. QED BY <2>2, <4>1 DEF Nesting!PathAssumption
      <3>2. \A i \in 1..Len(Nesting!Suffix(S, n)) : Nesting!Suffix(S, n)[i] = Common
        <4>1. Nesting!Suffix(S, n) = <<Common, Common, Common>>
          BY <2>2 DEF Nesting!Suffix
        <4>2. QED BY <4>1
      <3>3. Nesting!Precedes(Weights[r][n] \o Nesting!Suffix(S, n), Weights[s][n] \o Nesting!Suffix(S, n))
        BY <1>1, <1>2, <3>1, <3>2, LeastSuffixKeepsOrder
      <3>4. QED BY <1>2, <3>3
    <2>3. QED BY <2>1, <2>2 DEF Nesting!Strength
  <1>6. Nesting!Before(a, b)
    BY <1>4, <1>5 DEF Nesting!Before
  <1>7. QED BY <1>6 DEF a, b

(* Roots in order whose locks are out of order begin alike. *)
LEMMA OutOfOrderRoots ==
  ASSUME Nesting!PathAssumption, NEW r \in Roots, NEW s \in Roots, r # s,
         ~Nesting!Before(Weights[s], Weights[r])
  PROVE  /\ Nesting!ProjectState(r) # Nesting!ProjectState(s)
         /\ Nesting!After(Nesting!ProjectState(r), Nesting!ProjectState(s)) => Nesting!BeginsWith(s, r)
  <1> DEFINE a == Nesting!LockWeights(Nesting!ProjectState(r))
             b == Nesting!LockWeights(Nesting!ProjectState(s))
  <1>1. a \in Keys /\ b \in Keys /\ Weights[r] \in Keys /\ Weights[s] \in Keys
    BY LockKeys
  <1>2. Nesting!ProjectState(r) # Nesting!ProjectState(s)
    BY DEF Nesting!ProjectState
  <1>3. ASSUME Nesting!Before(b, a) PROVE Nesting!BeginsWith(s, r)
    <2>1. ~Nesting!Before(a, b)
      <3> HIDE DEF a, b
      <3>1. QED BY <1>1, <1>3, BeforeIsAsymmetric
    <2>2. CASE Nesting!Before(Weights[r], Weights[s])
      BY <2>1, <2>2, LocksKeepOrder
    <2>3. CASE ~Nesting!Before(Weights[r], Weights[s])
      <3>1. Weights[r] = Weights[s]
        BY <1>1, <2>3, BeforeIsTotal
      <3>2. a = b
        BY <3>1, LockKeys DEF Nesting!LockWeights, Nesting!ProjectState
      <3>3. QED BY <1>3, <2>1, <3>2
    <2>4. QED BY <2>2, <2>3
  <1>4. Nesting!After(Nesting!ProjectState(r), Nesting!ProjectState(s)) => Nesting!Before(b, a)
    BY ProjectLocks DEF Nesting!After
  <1>5. QED BY <1>2, <1>3, <1>4

LEMMA NestingCounts ==
  \A T : /\ Nesting!IsFiniteSet(T) <=> IsFiniteSet(T)
         /\ Nesting!Cardinality(T) = Cardinality(T)
  BY DEF Nesting!IsFiniteSet, IsFiniteSet, Nesting!Cardinality, Cardinality

LEMMA ReportIsOrderly ==
  ASSUME Nesting!PathAssumption, NEW scope \in SUBSET Roots, NEW f \in Nesting!Scans(scope)
  PROVE  Orderly(Append(Nesting!Report(f), Nesting!Inventory))
  <1>1. PICK n \in Nat :
          /\ f \in [1..n -> Roots]
          /\ \A i, j \in 1..n : i < j => f[i] # f[j] /\ ~Nesting!Before(Weights[f[j]], Weights[f[i]])
    <2>1. IsFiniteSet(scope) /\ Cardinality(scope) \in Nat
      BY FS_Subset, FS_CardinalityType, NestingCounts DEF Nesting!PathAssumption
    <2>2. /\ f \in [1..Cardinality(scope) -> scope]
          /\ \A i, j \in 1..Cardinality(scope) : i # j => f[i] # f[j]
      BY NestingCounts DEF Nesting!Scans, Nesting!SetToSeqs
    <2>3. \A i, j \in 1..Cardinality(scope) :
            i < j => ~Nesting!Before(Weights[f[j]], Weights[f[i]])
      BY <2>2 DEF Nesting!Scans, Nesting!Sorted
    <2>4. QED BY <2>1, <2>2, <2>3
  <1> DEFINE p == Append(Nesting!Report(f), Nesting!Inventory)
             q == [i \in 1..n |-> Nesting!ProjectState(f[i])]
  <1>2. \A i \in 1..n : Nesting!ProjectState(f[i]) \in Nesting!Locks
    BY <1>1, ProjectLocks
  <1>3. q \in Seq(Nesting!Locks) /\ Len(q) = n
    BY <1>2
  <1>4. Nesting!Inventory \in Nesting!Locks /\ Nesting!Machine \in Nesting!Locks
    BY DEF Nesting!Locks
  <1>5. Nesting!Report(f) = <<Nesting!Inventory, Nesting!Machine>> \o q
    BY <1>1 DEF Nesting!Report
  <1>6. /\ p \in Seq(Nesting!Locks) /\ Len(p) = n + 3
        /\ p[1] = Nesting!Inventory /\ p[2] = Nesting!Machine /\ p[n + 3] = Nesting!Inventory
        /\ \A i \in 1..n : p[i + 2] = Nesting!ProjectState(f[i])
    <2>1. Nesting!Report(f) \in Seq(Nesting!Locks) /\ Len(Nesting!Report(f)) = n + 2
      BY <1>3, <1>4, <1>5
    <2>2. /\ Nesting!Report(f)[1] = Nesting!Inventory
             /\ Nesting!Report(f)[2] = Nesting!Machine
          /\ \A i \in 1..n : Nesting!Report(f)[i + 2] = q[i]
      BY <1>3, <1>4, <1>5
    <2>3. \A i \in 1..(n + 2) : p[i] = Nesting!Report(f)[i]
      BY <1>4, <2>1
    <2>4. p \in Seq(Nesting!Locks) /\ Len(p) = n + 3 /\ p[n + 3] = Nesting!Inventory
      BY <1>4, <2>1
    <2>5. QED BY <2>2, <2>3, <2>4
  <1> HIDE DEF p
  <1>7. \A i \in 1..Len(p) : i = 1 \/ i = 2 \/ i = n + 3 \/ (i - 2 \in 1..n
          /\ p[i] = Nesting!ProjectState(f[i - 2]))
    <2>1. SUFFICES ASSUME NEW i \in 1..Len(p), i # 1, i # 2, i # n + 3
                   PROVE  i - 2 \in 1..n /\ p[i] = Nesting!ProjectState(f[i - 2])
      OBVIOUS
    <2>2. i - 2 \in 1..n
      BY <1>6, <2>1
    <2>3. p[(i - 2) + 2] = Nesting!ProjectState(f[i - 2])
      BY <1>6, <2>2
    <2>4. (i - 2) + 2 = i
      BY <2>1
    <2>5. QED BY <2>2, <2>3, <2>4
  <1>8. Nesting!Inventory # Nesting!Machine
          /\ \A i \in 1..n : Nesting!ProjectState(f[i]) # Nesting!Machine
             /\ Nesting!ProjectState(f[i]) # Nesting!Inventory
    BY <1>1 DEF Nesting!Inventory, Nesting!Machine, Nesting!ProjectState
  <1>9. ASSUME NEW i \in 1..Len(p), NEW j \in 1..Len(p), i < j, p[i] = p[j]
        PROVE  j = Len(p)
    <2>1. CASE i - 2 \in 1..n /\ j - 2 \in 1..n /\ j # Len(p)
      <3>1. f[i - 2] # f[j - 2] /\ ~Nesting!Before(Weights[f[j - 2]], Weights[f[i - 2]])
        BY <1>1, <1>9, <2>1
      <3>2. Nesting!ProjectState(f[i - 2]) # Nesting!ProjectState(f[j - 2])
        BY <1>1, <2>1, <3>1, OutOfOrderRoots
      <3>3. QED BY <1>6, <1>7, <1>8, <1>9, <2>1, <3>2
    <2>2. QED BY <1>6, <1>7, <1>8, <1>9, <2>1
  <1>10. ASSUME NEW k \in 1..(Len(p) - 1), Nesting!After(p[k], p[k + 1]),
                \A i \in 1..k : p[i] # p[k + 1]
         PROVE  PrefixesIn(p)
    <2>1. k + 1 # n + 3
      BY <1>6, <1>10
    <2>2. k # 1
      BY <1>6, <1>10 DEF Nesting!After, Nesting!Inventory, Nesting!Machine
    <2>3. k # 2
      <3>1. ASSUME k = 2 PROVE FALSE
        <4>1. 1 \in 1..n /\ p[3] = Nesting!ProjectState(f[1])
          BY <1>6, <2>1, <1>10, <3>1
        <4>2. f[1] \in Roots
          BY <1>1, <4>1
        <4>3. p[k] = Nesting!Machine /\ p[k + 1] = Nesting!ProjectState(f[1])
          BY <1>6, <3>1, <4>1
        <4>4. QED BY <1>10, <4>3 DEF Nesting!After, Nesting!Machine, Nesting!ProjectState
      <3>2. QED BY <3>1
    <2>4. k - 2 \in 1..n /\ k - 1 \in 1..n
      BY <1>6, <1>10, <2>1, <2>2, <2>3
    <2>5. p[k] = Nesting!ProjectState(f[k - 2]) /\ p[k + 1] = Nesting!ProjectState(f[k - 1])
      <3>1. p[(k - 2) + 2] = Nesting!ProjectState(f[k - 2])
              /\ p[(k - 1) + 2] = Nesting!ProjectState(f[k - 1])
        BY <1>6, <2>4
      <3>2. QED BY <2>4, <3>1
    <2>6. /\ f[k - 2] # f[k - 1] /\ ~Nesting!Before(Weights[f[k - 1]], Weights[f[k - 2]])
          /\ f[k - 2] \in Roots /\ f[k - 1] \in Roots
      BY <1>1, <2>4
    <2>7. Nesting!BeginsWith(f[k - 1], f[k - 2])
      BY <1>10, <2>5, <2>6, OutOfOrderRoots
    <2>8. k \in DOMAIN p /\ k + 1 \in DOMAIN p
      BY <1>6
    <2>9. QED BY <2>5, <2>6, <2>7, <2>8 DEF PrefixesIn
  <1>11. Orderly(p)
    BY <1>6, <1>9, <1>10 DEF Orderly
  <1>12. QED BY <1>11 DEF p

LEMMA PlansAreOrderly == ASSUME Nesting!PathAssumption, NEW p \in Nesting!Plans PROVE Orderly(p)
  <1>1. CASE p = <<Nesting!Inventory, Nesting!Machine>>
    <2>1. p \in Seq(Nesting!Locks) /\ Len(p) = 2 /\ p[1] = Nesting!Inventory
            /\ p[2] = Nesting!Machine
      BY <1>1 DEF Nesting!Locks
    <2>2. QED BY <2>1 DEF Orderly, Nesting!After, Nesting!Inventory, Nesting!Machine
  <1>2. ASSUME NEW r \in Roots, p = <<Nesting!Inventory, Nesting!ProjectState(r)>> PROVE Orderly(p)
    <2>1. p \in Seq(Nesting!Locks) /\ Len(p) = 2 /\ p[1] = Nesting!Inventory
            /\ p[2] = Nesting!ProjectState(r)
      BY <1>2, ProjectLocks
    <2>2. QED BY <2>1 DEF Orderly, Nesting!After, Nesting!Inventory, Nesting!ProjectState
  <1>3. ASSUME NEW r \in Roots, p = <<Nesting!ProjectState(r)>> PROVE Orderly(p)
    <2>1. p \in Seq(Nesting!Locks) /\ Len(p) = 1
      BY <1>3, ProjectLocks
    <2>2. QED BY <2>1 DEF Orderly
  <1>4. ASSUME NEW r \in Roots, p = <<Nesting!Materialization(r), Nesting!ProjectState(r),
               Nesting!ProjectState(r)>>
        PROVE  Orderly(p)
    <2>1. /\ p \in Seq(Nesting!Locks) /\ Len(p) = 3 /\ p[1] = Nesting!Materialization(r)
          /\ p[2] = Nesting!ProjectState(r) /\ p[3] = Nesting!ProjectState(r)
      BY <1>4, ProjectLocks
    <2>2. QED BY <2>1, MaterializationIsFirst DEF Orderly
  <1>5. ASSUME NEW scope \in SUBSET Roots, NEW f \in Nesting!Scans(scope),
               p = Append(Nesting!Report(f), Nesting!Inventory)
        PROVE  Orderly(p)
    BY <1>5, ReportIsOrderly
  <1>6. QED BY <1>1, <1>2, <1>3, <1>4, <1>5 DEF Nesting!Plans

-----------------------------------------------------------------------------
(* The inductive invariant: the list of a call has no lock twice and is     *)
(* empty between calls, and while the call acquires, it holds what its plan *)
(* has asked for so far, the last request innermost.                        *)

NoRepeats(t) == \A i, j \in DOMAIN held[t] : held[t][i] = held[t][j] => i = j

FollowsPlan(t) ==
  /\ \A i \in DOMAIN held[t] : \E j \in 1..granted[t] : held[t][i] = asked[t][j]
  /\ \A j \in 1..granted[t] : Nesting!Holds(t, asked[t][j])
  /\ 0 < granted[t] /\ granted[t] < Len(asked[t])
       => held[t] # <<>> /\ Nesting!Last(held[t]) = asked[t][granted[t]]

Nests(t) ==
  /\ NoRepeats(t)
  /\ phase[t] = "idle" => held[t] = <<>>
  /\ phase[t] # "idle" => asked[t] \in Nesting!Plans
  /\ phase[t] = "acquiring" => FollowsPlan(t)
  /\ result[t] = "order" => PrefixesIn(asked[t])

NestingInv == Nesting!FilesMatchLists /\ \A t \in Command : Nests(t)

LEMMA NestingStarts == ASSUME Nesting!PathAssumption, Nesting!Init PROVE NestingInv
  <1>1. Nesting!TypeOK
    <2>1. <<>> \in Seq(Nesting!Locks) /\ Len(<<>>) = 0
      BY EmptySeq
    <2>2. QED BY <2>1 DEF Nesting!Init, Nesting!TypeOK
  <1>2. \A l \in Nesting!Locks, t \in Command : owner[l] = t <=> Nesting!Holds(t, l)
    BY DEF Nesting!Init, Nesting!PathAssumption, Nesting!Holds
  <1>3. \A t \in Command : Nests(t)
    BY DEF Nesting!Init, Nests, NoRepeats
  <1>4. QED BY <1>1, <1>2, <1>3 DEF NestingInv, Nesting!FilesMatchLists

(* A step of one command preserves the invariant if it does for that command *)
(* and takes or frees no lock of another.                                    *)
LEMMA TaskStep ==
  ASSUME NestingInv, NEW t \in Command, Nesting!TypeOK', Nests(t)',
         \A u \in Command \ {t} : /\ held'[u] = held[u] /\ asked'[u] = asked[u]
                               /\ granted'[u] = granted[u] /\ phase'[u] = phase[u]
                               /\ result'[u] = result[u],
         \A l \in Nesting!Locks : owner'[l] = t <=> Nesting!Holds(t, l)',
         \A l \in Nesting!Locks, u \in Command \ {t} : owner'[l] = u <=> owner[l] = u
  PROVE  NestingInv'
  <1>1. ASSUME NEW u \in Command \ {t}
        PROVE  Nests(u)' /\ \A l \in Nesting!Locks : owner'[l] = u <=> Nesting!Holds(u, l)'
    <2>1. Nests(u) /\ \A l \in Nesting!Locks : owner[l] = u <=> Nesting!Holds(u, l)
      BY DEF NestingInv, Nesting!FilesMatchLists
    <2>2. Nests(u)'
      <3>1. /\ held'[u] = held[u] /\ asked'[u] = asked[u] /\ granted'[u] = granted[u]
            /\ phase'[u] = phase[u] /\ result'[u] = result[u]
        OBVIOUS
      <3>2. NoRepeats(u)' <=> NoRepeats(u)
        BY <3>1 DEF NoRepeats
      <3>3. FollowsPlan(u)' <=> FollowsPlan(u)
        <4>1. (\A j \in 1..granted[u] : Nesting!Holds(u, asked[u][j]))'
              <=> \A j \in 1..granted[u] : Nesting!Holds(u, asked[u][j])
          BY <3>1 DEF Nesting!Holds
        <4>2. Nesting!Last(held[u])' = Nesting!Last(held[u])
          BY <3>1 DEF Nesting!Last
        <4>3. QED BY <3>1, <4>1, <4>2 DEF FollowsPlan
      <3>4. PrefixesIn(asked[u])' <=> PrefixesIn(asked[u])
        BY <3>1 DEF PrefixesIn
      <3>5. QED BY <2>1, <3>1, <3>2, <3>3, <3>4 DEF Nests
    <2>3. \A l \in Nesting!Locks : Nesting!Holds(u, l)' <=> Nesting!Holds(u, l)
      BY DEF Nesting!Holds
    <2>4. QED BY <2>1, <2>2, <2>3
  <1>2. \A u \in Command : Nests(u)'
    BY <1>1
  <1>3. (\A l \in Nesting!Locks, u \in Command : owner[l] = u <=> Nesting!Holds(u, l))'
    BY <1>1
  <1>4. QED BY <1>2, <1>3 DEF NestingInv, Nesting!FilesMatchLists

(* Steps that touch neither a lock file nor the list. *)
LEMMA QuietStep ==
  ASSUME NestingInv, NEW t \in Command, Nesting!TypeOK', Nests(t)', UNCHANGED <<owner, held>>,
         \A u \in Command \ {t} : /\ asked'[u] = asked[u] /\ granted'[u] = granted[u]
                               /\ phase'[u] = phase[u] /\ result'[u] = result[u]
  PROVE  NestingInv'
  <1>1. \A l \in Nesting!Locks : owner'[l] = t <=> Nesting!Holds(t, l)'
    BY DEF NestingInv, Nesting!FilesMatchLists, Nesting!Holds
  <1>2. QED BY <1>1, TaskStep

LEMMA CallKeeps ==
  ASSUME Nesting!PathAssumption, NestingInv, NEW t \in Command, Nesting!Call(t)
  PROVE  NestingInv'
  <1>1. PICK p \in Nesting!Plans : asked' = [asked EXCEPT ![t] = p]
    BY DEF Nesting!Call
  <1>2. p \in Seq(Nesting!Locks)
    BY PlansAreOrderly DEF Orderly
  <1>3. held[t] = <<>> /\ Nests(t)
    BY DEF NestingInv, Nests, Nesting!Call
  <1>4. Nesting!TypeOK'
    BY <1>1, <1>2, <1>3 DEF Nesting!Call, NestingInv, Nesting!FilesMatchLists, Nesting!TypeOK
  <1>5. /\ asked'[t] = p /\ granted'[t] = 0 /\ phase'[t] = "acquiring" /\ result'[t] = "none"
        /\ held' = held
    BY <1>1 DEF Nesting!Call, NestingInv, Nesting!FilesMatchLists, Nesting!TypeOK
  <1>6. Nests(t)'
    BY <1>3, <1>5 DEF Nests, NoRepeats, FollowsPlan
  <1>7. QED BY <1>1, <1>4, <1>6, QuietStep DEF Nesting!Call, NestingInv, Nesting!FilesMatchLists,
                                               Nesting!TypeOK

(* The next request, and what the plan says of it. *)
LEMMA NextRequest ==
  ASSUME Nesting!PathAssumption, NestingInv, NEW t \in Command, Nesting!Pending(t)
  PROVE  /\ Nesting!Requested(t) \in Nesting!Locks
         /\ granted[t] \in Nat /\ granted[t] + 1 \in 1..Len(asked[t]) /\ Len(asked[t]) \in Nat
         /\ held[t] \in Seq(Nesting!Locks) /\ asked[t] \in Seq(Nesting!Locks)
         /\ Len(held[t]) <= granted[t]
         /\ Nests(t) /\ FollowsPlan(t) /\ Orderly(asked[t])
  <1>1. /\ held[t] \in Seq(Nesting!Locks) /\ asked[t] \in Seq(Nesting!Locks) /\ granted[t] \in Nat
        /\ Len(held[t]) <= granted[t]
    BY DEF NestingInv, Nesting!FilesMatchLists, Nesting!TypeOK
  <1>2. granted[t] + 1 \in 1..Len(asked[t]) /\ Len(asked[t]) \in Nat
    BY <1>1 DEF Nesting!Pending
  <1>3. Nesting!Requested(t) \in Nesting!Locks
    BY <1>1, <1>2 DEF Nesting!Requested
  <1>4. Nests(t) /\ FollowsPlan(t) /\ asked[t] \in Nesting!Plans
    BY DEF NestingInv, Nests, Nesting!Pending
  <1>5. QED BY <1>1, <1>2, <1>3, <1>4, PlansAreOrderly

(* Only the last request of a plan is reentrant. *)
LEMMA ReenterKeeps ==
  ASSUME Nesting!PathAssumption, NestingInv, NEW t \in Command, Nesting!Reenter(t)
  PROVE  NestingInv'
  <1> DEFINE k == granted[t]
  <1>1. Nesting!Pending(t) /\ Nesting!Holds(t, asked[t][k + 1])
          /\ granted' = [granted EXCEPT ![t] = k + 1]
        /\ UNCHANGED <<owner, held, asked, phase, result>>
    BY DEF Nesting!Reenter, Nesting!Reentrant, Nesting!Requested, Nesting!Grant
  <1>2. /\ k \in Nat /\ k + 1 \in 1..Len(asked[t]) /\ Len(asked[t]) \in Nat
        /\ held[t] \in Seq(Nesting!Locks) /\ Nests(t) /\ FollowsPlan(t) /\ Orderly(asked[t])
        /\ Len(held[t]) <= k
    BY <1>1, NextRequest
  <1>3. Nesting!TypeOK'
    BY <1>1, <1>2 DEF NestingInv, Nesting!FilesMatchLists, Nesting!TypeOK
  <1>4. granted'[t] = k + 1
    BY <1>1 DEF NestingInv, Nesting!FilesMatchLists, Nesting!TypeOK
  <1>5. k + 1 = Len(asked[t])
    <2>1. PICK i \in DOMAIN held[t] : held[t][i] = asked[t][k + 1]
      BY <1>1 DEF Nesting!Holds
    <2>2. PICK j \in 1..k : held[t][i] = asked[t][j]
      BY <1>2 DEF FollowsPlan
    <2>3. j \in 1..Len(asked[t]) /\ j < k + 1 /\ asked[t][j] = asked[t][k + 1]
      BY <1>2, <2>1, <2>2
    <2>4. QED BY <1>2, <2>3 DEF Orderly
  <1>6. FollowsPlan(t)'
    <2>1. \A i \in DOMAIN held[t] : \E j \in 1..(k + 1) : held[t][i] = asked[t][j]
      BY <1>2 DEF FollowsPlan
    <2>2. \A j \in 1..(k + 1) : Nesting!Holds(t, asked[t][j])
      <3>1. \A j \in 1..(k + 1) : j \in 1..k \/ j = k + 1
        BY <1>2
      <3>2. \A j \in 1..k : Nesting!Holds(t, asked[t][j])
        BY <1>2, Zenon DEF FollowsPlan
      <3>3. Nesting!Holds(t, asked[t][k + 1])
        BY <1>1
      <3>4. QED BY <3>1, <3>2, <3>3, Zenon
    <2>3. ~(granted'[t] < Len(asked'[t]))
      BY <1>1, <1>2, <1>4, <1>5
    <2>4. held' = held /\ asked' = asked
      BY <1>1
    <2>5. QED BY <1>4, <2>1, <2>2, <2>3, <2>4 DEF FollowsPlan, Nesting!Holds
  <1>7. Nests(t)'
    BY <1>1, <1>2, <1>6 DEF Nests, NoRepeats, PrefixesIn
  <1>8. QED BY <1>1, <1>3, <1>7, QuietStep DEF NestingInv, Nesting!FilesMatchLists, Nesting!TypeOK

LEMMA RejectKeeps ==
  ASSUME Nesting!PathAssumption, NestingInv, NEW t \in Command, Nesting!RejectOrder(t)
  PROVE  NestingInv'
  <1> DEFINE k == granted[t]
  <1>1. /\ Nesting!Pending(t) /\ ~Nesting!Holds(t, asked[t][k + 1])
        /\ held[t] # <<>> /\ Nesting!After(Nesting!Last(held[t]), asked[t][k + 1])
        /\ phase' = [phase EXCEPT ![t] = "unwinding"] /\ result' = [result EXCEPT ![t] = "order"]
        /\ UNCHANGED <<owner, held, asked, granted>>
    BY DEF Nesting!RejectOrder, Nesting!Reentrant, Nesting!OutOfOrder, Nesting!Requested,
           Nesting!Unwind
  <1>2. /\ k \in Nat /\ k + 1 \in 1..Len(asked[t]) /\ Len(asked[t]) \in Nat
        /\ held[t] \in Seq(Nesting!Locks) /\ Nests(t) /\ FollowsPlan(t) /\ Orderly(asked[t])
        /\ Len(held[t]) <= k
    BY <1>1, NextRequest
  <1>3. Nesting!TypeOK'
    BY <1>1, <1>2 DEF NestingInv, Nesting!FilesMatchLists, Nesting!TypeOK
  <1>4. phase'[t] = "unwinding" /\ result'[t] = "order"
    BY <1>1 DEF NestingInv, Nesting!FilesMatchLists, Nesting!TypeOK
  <1>5. k # 0
    BY <1>1, <1>2
  <1>6. Nesting!Last(held[t]) = asked[t][k]
    BY <1>2, <1>5 DEF FollowsPlan
  <1>7. \A i \in 1..k : asked[t][i] # asked[t][k + 1]
    <2>1. \A i \in 1..k : Nesting!Holds(t, asked[t][i])
      BY <1>2, Zenon DEF FollowsPlan
    <2>2. QED BY <1>1, <2>1, Zenon
  <1>8. PrefixesIn(asked[t])
    <2>1. k \in 1..(Len(asked[t]) - 1)
      BY <1>2, <1>5
    <2>2. Nesting!After(asked[t][k], asked[t][k + 1])
      BY <1>1, <1>6
    <2>3. QED BY <1>2, <1>7, <2>1, <2>2, Zenon DEF Orderly
  <1>9. Nests(t)'
    <2>1. asked'[t] \in Nesting!Plans
      BY <1>1, <1>2 DEF Nests, Nesting!Pending
    <2>2. PrefixesIn(asked'[t])
      BY <1>1, <1>8
    <2>3. NoRepeats(t)'
      BY <1>1, <1>2 DEF Nests, NoRepeats
    <2>4. QED BY <1>4, <2>1, <2>2, <2>3 DEF Nests
  <1>10. QED BY <1>1, <1>3, <1>9, QuietStep DEF NestingInv, Nesting!FilesMatchLists, Nesting!TypeOK

(* A lock at the end of a list. *)
LEMMA Appended ==
  ASSUME NEW s \in Seq(Nesting!Locks), NEW l \in Nesting!Locks
  PROVE  /\ Append(s, l) \in Seq(Nesting!Locks) /\ Append(s, l) # <<>>
         /\ Len(Append(s, l)) = Len(s) + 1 /\ Nesting!Last(Append(s, l)) = l
         /\ DOMAIN s = 1..Len(s) /\ DOMAIN Append(s, l) = 1..(Len(s) + 1) /\ Len(s) \in Nat
         /\ \A i \in 1..Len(s) : Append(s, l)[i] = s[i]
         /\ Append(s, l)[Len(s) + 1] = l
  BY DEF Nesting!Last

(* The list without its last lock. *)
LEMMA Fronted ==
  ASSUME NEW s \in Seq(Nesting!Locks), s # <<>>
  PROVE  /\ Nesting!Front(s) \in Seq(Nesting!Locks) /\ Len(s) \in Nat \ {0}
            /\ Len(Nesting!Front(s)) = Len(s) - 1
         /\ DOMAIN s = 1..Len(s) /\ DOMAIN Nesting!Front(s) = 1..(Len(s) - 1)
         /\ \A i \in 1..(Len(s) - 1) : Nesting!Front(s)[i] = s[i]
         /\ Nesting!Last(s) = s[Len(s)] /\ Nesting!Last(s) \in Nesting!Locks
  <1>1. Len(s) \in Nat \ {0} /\ DOMAIN s = 1..Len(s) /\ \A i \in 1..Len(s) : s[i] \in Nesting!Locks
    BY EmptySeq, LenProperties
  <1>2. /\ SubSeq(s, 1, Len(s) - 1) \in Seq(Nesting!Locks)
        /\ Len(SubSeq(s, 1, Len(s) - 1)) = Len(s) - 1
        /\ \A i \in 1..(Len(s) - 1) : SubSeq(s, 1, Len(s) - 1)[i] = s[i]
    BY <1>1, SubSeqProperties
  <1>3. Nesting!Front(s) \in Seq(Nesting!Locks) /\ Len(Nesting!Front(s)) = Len(s) - 1
    BY <1>2 DEF Nesting!Front
  <1>4. DOMAIN Nesting!Front(s) = 1..(Len(s) - 1)
    BY <1>3, LenProperties
  <1>5. QED BY <1>1, <1>2, <1>3, <1>4 DEF Nesting!Front, Nesting!Last

LEMMA TakeKeeps ==
  ASSUME Nesting!PathAssumption, NestingInv, NEW t \in Command, Nesting!Acquire(t),
         ~Nesting!Taken(Nesting!Requested(t))
  PROVE  NestingInv'
  <1> DEFINE k == granted[t]
             l == Nesting!Requested(t)
  <1>1. /\ Nesting!Pending(t) /\ ~Nesting!Holds(t, l) /\ owner[l] = Nobody
        /\ owner' = [owner EXCEPT ![l] = t]
        /\ held' = [held EXCEPT ![t] = Append(held[t], l)]
        /\ granted' = [granted EXCEPT ![t] = k + 1]
        /\ UNCHANGED <<asked, phase, result>>
    BY DEF Nesting!Acquire, Nesting!Reentrant, Nesting!Taken, Nesting!Grant
  <1>2. /\ k \in Nat /\ k + 1 \in 1..Len(asked[t]) /\ Len(asked[t]) \in Nat
        /\ held[t] \in Seq(Nesting!Locks) /\ Nests(t) /\ FollowsPlan(t)
        /\ Len(held[t]) <= k /\ l \in Nesting!Locks
    BY <1>1, NextRequest
  <1>3. /\ owner \in [Nesting!Locks -> Command \cup {Nobody}] /\ granted'[t] = k + 1
        /\ held'[t] = Append(held[t], l) /\ l = asked[t][k + 1]
    BY <1>1 DEF NestingInv, Nesting!FilesMatchLists, Nesting!TypeOK, Nesting!Requested
  <1> HIDE DEF k, l
  <1>4. Nesting!TypeOK'
    <2>1. held' \in [Command -> Seq(Nesting!Locks)]
      BY <1>1, <1>2, Appended DEF NestingInv, Nesting!FilesMatchLists, Nesting!TypeOK
    <2>2. Len(held'[t]) <= granted'[t] /\ granted'[t] <= Len(asked'[t])
      BY <1>1, <1>2, <1>3, Appended
    <2>3. owner' \in [Nesting!Locks -> Command \cup {Nobody}] /\ granted' \in [Command -> Nat]
      BY <1>1, <1>2 DEF NestingInv, Nesting!FilesMatchLists, Nesting!TypeOK
    <2>4. QED BY <1>1, <2>1, <2>2, <2>3 DEF NestingInv, Nesting!FilesMatchLists, Nesting!TypeOK
  <1>5. \A m \in Nesting!Locks : Nesting!Holds(t, m)' <=> (Nesting!Holds(t, m) \/ m = l)
    <2>1. ASSUME NEW m \in Nesting!Locks, NEW i \in 1..(Len(held[t]) + 1), Append(held[t],
                 l)[i] = m, m # l
          PROVE  i \in DOMAIN held[t] /\ held[t][i] = m
      BY <1>2, <2>1, Appended
    <2>2. ASSUME NEW m \in Nesting!Locks, NEW i \in DOMAIN held[t], held[t][i] = m
          PROVE  i \in 1..(Len(held[t]) + 1) /\ Append(held[t], l)[i] = m
      BY <1>2, <2>2, Appended
    <2>3. /\ DOMAIN held'[t] = 1..(Len(held[t]) + 1) /\ Len(held[t]) + 1 \in DOMAIN held'[t]
          /\ held'[t][Len(held[t]) + 1] = l
      BY <1>2, <1>3, Appended
    <2>4. QED BY <1>3, <2>1, <2>2, <2>3 DEF Nesting!Holds
  <1>6. \A m \in Nesting!Locks : owner'[m] = t <=> Nesting!Holds(t, m)'
    BY <1>1, <1>2, <1>3, <1>5 DEF NestingInv, Nesting!FilesMatchLists
  <1>7. \A m \in Nesting!Locks, u \in Command \ {t} : owner'[m] = u <=> owner[m] = u
    BY <1>1, <1>2, <1>3 DEF Nesting!PathAssumption
  <1>8. NoRepeats(t)'
    <2>1. \A i \in 1..Len(held[t]) : held[t][i] # l
      BY <1>1, <1>2, Appended DEF Nesting!Holds
    <2>2. ASSUME NEW i \in 1..(Len(held[t]) + 1), NEW j \in 1..(Len(held[t]) + 1),
                 Append(held[t], l)[i] = Append(held[t], l)[j]
          PROVE  i = j
      BY <1>2, <2>1, <2>2, Appended DEF Nests, NoRepeats
    <2>3. QED BY <1>2, <1>3, <2>2, Appended DEF NoRepeats
  <1>9. FollowsPlan(t)'
    <2>1. ASSUME NEW i \in DOMAIN Append(held[t], l)
          PROVE  \E j \in 1..(k + 1) : Append(held[t], l)[i] = asked[t][j]
      <3>1. CASE i \in 1..Len(held[t])
        <4>1. i \in DOMAIN held[t] /\ Append(held[t], l)[i] = held[t][i]
          BY <1>2, <3>1, Appended
        <4>2. PICK j \in 1..k : held[t][i] = asked[t][j]
          BY <1>2, <4>1 DEF FollowsPlan, k
        <4>3. j \in 1..(k + 1)
          BY <1>2
        <4>4. QED BY <4>1, <4>2, <4>3
      <3>2. CASE i = Len(held[t]) + 1
        BY <1>2, <1>3, <3>2, Appended
      <3>3. i \in 1..Len(held[t]) \/ i = Len(held[t]) + 1
        <4>1. DOMAIN Append(held[t], l) = 1..(Len(held[t]) + 1) /\ Len(held[t]) \in Nat
          BY <1>2, Appended
        <4>2. QED BY <2>1, <4>1
      <3>4. QED BY <3>1, <3>2, <3>3, Zenon
    <2>2. \A j \in 1..(k + 1) : asked[t][j] \in Nesting!Locks
      BY <1>1, <1>2, NextRequest
    <2>3. \A j \in 1..(k + 1) : Nesting!Holds(t, asked[t][j])'
      <3>1. \A j \in 1..k : Nesting!Holds(t, asked[t][j])
        BY <1>2 DEF FollowsPlan, k
      <3>2. asked' = asked
        BY <1>1
      <3>3. \A j \in 1..(k + 1) : Nesting!Holds(t, asked[t][j]) \/ asked[t][j] = l
        <4>1. ASSUME NEW j \in 1..(k + 1) PROVE j \in 1..k \/ j = k + 1
          BY <1>2
        <4>2. l = asked[t][k + 1]
          BY <1>3
        <4>3. QED BY <3>1, <4>1, <4>2, Zenon
      <3>4. \A m \in Nesting!Locks : Nesting!Holds(t, m) \/ m = l =>
              \E i \in DOMAIN held'[t] : held'[t][i] = m
        BY <1>5 DEF Nesting!Holds
      <3>5. \A j \in 1..(k + 1) : \E i \in DOMAIN held'[t] : held'[t][i] = asked[t][j]
        BY <2>2, <3>3, <3>4
      <3>6. QED BY <3>2, <3>5 DEF Nesting!Holds
    <2>4. held'[t] # <<>> /\ Nesting!Last(held'[t]) = asked[t][k + 1]
      <3>1. Append(held[t], l) # <<>> /\ Nesting!Last(Append(held[t], l)) = l
        BY <1>2, Appended
      <3>2. QED BY <1>3, <3>1, Zenon
    <2>5. QED BY <1>1, <1>3, <2>1, <2>3, <2>4 DEF FollowsPlan
  <1>10. Nests(t)'
    BY <1>1, <1>2, <1>8, <1>9 DEF Nests, PrefixesIn, Nesting!Pending
  <1>11. QED BY <1>1, <1>4, <1>6, <1>7, <1>10, TaskStep DEF NestingInv, Nesting!FilesMatchLists,
    Nesting!TypeOK

(* The steps that end a call: a busy lock, the end of the plan, its return. *)
LEMMA EndingKeeps ==
  ASSUME Nesting!PathAssumption, NestingInv, NEW t \in Command,
         Nesting!Run(t) \/ Nesting!Finish(t) \/ (Nesting!Acquire(t)
              /\ Nesting!Taken(Nesting!Requested(t)))
  PROVE  NestingInv'
  <1>1. /\ phase[t] # "idle" /\ UNCHANGED <<owner, held, asked, granted>>
        /\ \E p \in {"running", "unwinding"} : phase' = [phase EXCEPT ![t] = p]
        /\ \E r \in {"done", "busy"} : result' = result \/ result' = [result EXCEPT ![t] = r]
    BY DEF Nesting!Run, Nesting!Finish, Nesting!Acquire, Nesting!RefuseBusy, Nesting!Unwind,
           Nesting!Pending
  <1>2. Nesting!TypeOK'
    BY <1>1 DEF NestingInv, Nesting!FilesMatchLists, Nesting!TypeOK
  <1>3. phase'[t] \in {"running", "unwinding"} /\ result'[t] \in {result[t], "done", "busy"}
    BY <1>1 DEF NestingInv, Nesting!FilesMatchLists, Nesting!TypeOK
  <1>4. Nests(t)
    BY DEF NestingInv
  <1>5. Nests(t)'
    BY <1>1, <1>3, <1>4 DEF Nests, NoRepeats, PrefixesIn
  <1>6. \A u \in Command \ {t} : phase'[u] = phase[u] /\ result'[u] = result[u]
    BY <1>1 DEF NestingInv, Nesting!FilesMatchLists, Nesting!TypeOK
  <1>7. QED BY <1>1, <1>2, <1>5, <1>6, QuietStep

(* The finally blocks: the innermost lock is the last of the list, and it is *)
(* there only once.                                                          *)
LEMMA ReleaseKeeps ==
  ASSUME Nesting!PathAssumption, NestingInv, NEW t \in Command, Nesting!Release(t)
  PROVE  NestingInv'
  <1>1. phase[t] = "unwinding" /\ UNCHANGED <<asked, granted, result>>
    BY DEF Nesting!Release
  <1>2. Nests(t) /\ held[t] \in Seq(Nesting!Locks)
    BY DEF NestingInv, Nesting!FilesMatchLists, Nesting!TypeOK
  <1>3. CASE held[t] = <<>>
    <2>1. phase' = [phase EXCEPT ![t] = "idle"] /\ UNCHANGED <<owner, held>>
      BY <1>3 DEF Nesting!Release
    <2>2. Nesting!TypeOK' /\ phase'[t] = "idle"
      BY <1>1, <2>1 DEF NestingInv, Nesting!FilesMatchLists, Nesting!TypeOK
    <2>3. Nests(t)'
      BY <1>1, <1>2, <1>3, <2>1, <2>2 DEF Nests, NoRepeats, PrefixesIn
    <2>4. QED BY <1>1, <2>1, <2>2, <2>3, QuietStep DEF NestingInv, Nesting!FilesMatchLists,
                                                       Nesting!TypeOK
  <1>4. CASE held[t] # <<>>
    <2> DEFINE l == Nesting!Innermost(t)
               n == Len(held[t])
    <2>1. /\ owner' = [owner EXCEPT ![l] = Nobody]
             /\ held' = [held EXCEPT ![t] = Nesting!Front(held[t])]
          /\ phase' = phase
      BY <1>4 DEF Nesting!Release
    <2>2. l \in Nesting!Locks /\ l = held[t][n] /\ n \in Nat \ {0} /\ DOMAIN held[t] = 1..n
      BY <1>2, <1>4, Fronted DEF Nesting!Innermost
    <2>3. /\ Nesting!Front(held[t]) \in Seq(Nesting!Locks) /\ Len(Nesting!Front(held[t])) = n - 1
          /\ DOMAIN Nesting!Front(held[t]) = 1..(n - 1)
          /\ \A i \in 1..(n - 1) : Nesting!Front(held[t])[i] = held[t][i]
      BY <1>2, <1>4, Fronted
    <2>4. owner \in [Nesting!Locks -> Command \cup {Nobody}] /\ held'[t] = Nesting!Front(held[t])
      BY <2>1 DEF NestingInv, Nesting!FilesMatchLists, Nesting!TypeOK
    <2> HIDE DEF l, n
    <2>5. Nesting!TypeOK'
      <3>1. owner' \in [Nesting!Locks -> Command \cup {Nobody}]
              /\ held' \in [Command -> Seq(Nesting!Locks)]
        BY <2>1, <2>2, <2>3, <2>4 DEF NestingInv, Nesting!FilesMatchLists, Nesting!TypeOK
      <3>2. Len(held'[t]) <= granted'[t] /\ granted'[t] <= Len(asked'[t])
        BY <1>1, <2>2, <2>3, <2>4 DEF NestingInv, Nesting!FilesMatchLists, Nesting!TypeOK, n
      <3>3. QED BY <1>1, <2>1, <3>1, <3>2 DEF NestingInv, Nesting!FilesMatchLists, Nesting!TypeOK
    <2>6. \A m \in Nesting!Locks : Nesting!Holds(t, m)' <=> (Nesting!Holds(t, m) /\ m # l)
      <3>1. \A i, j \in 1..n : held[t][i] = held[t][j] => i = j
        BY <1>2, <2>2 DEF Nests, NoRepeats
      <3>2. \A i \in 1..(n - 1) : i \in 1..n /\ held[t][i] # l
        BY <2>2, <3>1
      <3>3. ASSUME NEW m \in Nesting!Locks, NEW i \in 1..n, held[t][i] = m, m # l
            PROVE  i \in 1..(n - 1) /\ held'[t][i] = m
        BY <2>2, <2>3, <2>4, <3>3
      <3>4. ASSUME NEW m \in Nesting!Locks, NEW i \in 1..(n - 1), held'[t][i] = m
            PROVE  i \in 1..n /\ held[t][i] = m /\ m # l
        BY <2>3, <2>4, <3>2, <3>4
      <3>5. QED BY <2>2, <2>3, <2>4, <3>3, <3>4 DEF Nesting!Holds
    <2>7. \A m \in Nesting!Locks : owner'[m] = t <=> Nesting!Holds(t, m)'
      BY <2>1, <2>2, <2>4, <2>6 DEF NestingInv, Nesting!FilesMatchLists, Nesting!PathAssumption
    <2>8. owner[l] = t
      <3>1. Nesting!Holds(t, l)
        BY <2>2 DEF Nesting!Holds
      <3>2. QED BY <2>2, <3>1 DEF NestingInv, Nesting!FilesMatchLists
    <2>9. \A m \in Nesting!Locks, u \in Command \ {t} : owner'[m] = u <=> owner[m] = u
      BY <2>1, <2>2, <2>4, <2>8 DEF Nesting!PathAssumption
    <2>10. NoRepeats(t)'
      <3>1. \A i, j \in 1..(n - 1) : held[t][i] = held[t][j] => i = j
        BY <1>2, <2>2, SMTT(30) DEF Nests, NoRepeats
      <3>2. QED BY <2>3, <2>4, <3>1 DEF NoRepeats
    <2>11. Nests(t)'
      BY <1>1, <1>2, <2>1, <2>10 DEF Nests, PrefixesIn
    <2>12. QED BY <1>1, <2>1, <2>5, <2>7, <2>9, <2>11, TaskStep DEF NestingInv,
      Nesting!FilesMatchLists, Nesting!TypeOK
  <1>5. QED BY <1>3, <1>4

LEMMA NestingKeeps ==
  ASSUME Nesting!PathAssumption, NestingInv, [Nesting!Next]_(Nesting!vars)
  PROVE  NestingInv'
  <1>1. CASE UNCHANGED Nesting!vars
    BY <1>1 DEF Nesting!vars, NestingInv, Nesting!FilesMatchLists, Nesting!TypeOK, Nests,
                NoRepeats, FollowsPlan, Nesting!Holds, PrefixesIn
  <1>2. ASSUME NEW t \in Command, Nesting!Call(t) PROVE NestingInv'
    BY <1>2, CallKeeps
  <1>3. ASSUME NEW t \in Command, Nesting!Step(t) PROVE NestingInv'
    <2>1. CASE Nesting!Reenter(t)
      BY <2>1, ReenterKeeps
    <2>2. CASE Nesting!RejectOrder(t)
      BY <2>2, RejectKeeps
    <2>3. CASE Nesting!Acquire(t) /\ ~Nesting!Taken(Nesting!Requested(t))
      BY <2>3, TakeKeeps
    <2>4. CASE Nesting!Run(t) \/ Nesting!Finish(t) \/ (Nesting!Acquire(t)
            /\ Nesting!Taken(Nesting!Requested(t)))
      BY <2>4, EndingKeeps
    <2>5. CASE Nesting!Release(t)
      BY <2>5, ReleaseKeeps
    <2>6. QED BY <1>3, <2>1, <2>2, <2>3, <2>4, <2>5 DEF Nesting!Step
  <1>4. QED BY <1>1, <1>2, <1>3 DEF Nesting!Next

LEMMA NestingInvariance == ASSUME Nesting!PathAssumption PROVE Nesting!Spec => []NestingInv
  <1>1. Nesting!Init => NestingInv
    BY NestingStarts
  <1>2. NestingInv /\ [Nesting!Next]_(Nesting!vars) => NestingInv'
    BY NestingKeeps
  <1>3. QED BY <1>1, <1>2, PTL DEF Nesting!Spec

(* However the calls of any number of commands interleave, the lock files    *)
(* agree with the lists of locks the commands believe they hold, and no      *)
(* command is refused for the order of its own nesting but for project roots *)
(* one of which begins with the other, capitals and accents left aside       *)
(* (cli/core/inventory-lock.ts, cli/core/inventory-references.ts).           *)
LEMMA CallsNestWell == ASSUME Nesting!PathAssumption PROVE Nesting!Spec => []Nesting!CallsNestSafely
  <1>1. NestingInv => Nesting!FilesMatchLists
    BY DEF NestingInv
  <1>2. NestingInv => Nesting!RefusedOnlyForPrefixes
    BY DEF NestingInv, Nests, PrefixesIn, Nesting!RefusedOnlyForPrefixes
  <1>3. NestingInv => Nesting!CallsNestSafely
    BY <1>1, <1>2 DEF Nesting!CallsNestSafely
  <1>4. QED BY <1>3, NestingInvariance, PTL

LEMMA DistinctRootsArePermitted ==
  ASSUME Nesting!PathAssumption, \A r, s \in Roots : ~Nesting!BeginsWith(s, r)
  PROVE  Nesting!Spec => []Nesting!SortedProjectsArePermitted
  <1>1. NestingInv => Nesting!SortedProjectsArePermitted
    BY DEF NestingInv, Nests, PrefixesIn, Nesting!SortedProjectsArePermitted
  <1>2. QED BY <1>1, NestingInvariance, PTL

-----------------------------------------------------------------------------
LEMMA NestingIsAPart == LocksSpec => Nesting!Spec
  <1>1. LocksInit => Nesting!Init
    BY DEF LocksInit
  <1>2. [LocksNext]_both => [Nesting!Next]_(Nesting!vars)
    BY DEF LocksNext, both, nesting, Nesting!vars
  <1>3. QED BY <1>1, <1>2, PTL DEF LocksSpec, Nesting!Spec

(* withOrderedOwnerLock nests safely in the composition too: what happens   *)
(* to a single lock file leaves the nested locks alone.                     *)
THEOREM NestingStaysSafe == LocksSpec => []CallsNestSafely
  <1>1. Nesting!Spec => []Nesting!CallsNestSafely
    BY NestingAssumption, CallsNestWell
  <1>2. QED BY <1>1, NestingIsAPart, PTL DEF CallsNestSafely

(* Of projects none of which begins with another, capitals and accents left  *)
(* aside, every nesting of the commands is permitted, though the roots are   *)
(* sorted and the paths under them compared                                  *)
(* (test/core-inventory-lock.test.ts:36).                                    *)
THEOREM DistinctProjectsArePermitted ==
  ASSUME \A r, s \in Roots : ~Nesting!BeginsWith(s, r)
  PROVE  LocksSpec => []Nesting!SortedProjectsArePermitted
  <1>1. Nesting!Spec => []Nesting!SortedProjectsArePermitted
    BY NestingAssumption, DistinctRootsArePermitted
  <1>2. QED BY <1>1, NestingIsAPart, PTL
=============================================================================
