-------------------------- MODULE ProjectStateProofs --------------------------
(***************************************************************************)
(* ProjectStateTransaction implements ProjectState for every set of        *)
(* clients, contents and transaction ids and any number of faults, proved. *)
(* The inductive invariant adds to the checked invariants that a client    *)
(* past "idle" is the one that holds the lock, and what each step of the   *)
(* holder may count on (StepsAreDated).                                    *)
(*                                                                         *)
(* The second part is about what the transactions and the commands beside  *)
(* them make of the two files (WorkerRoots), the third about the source of *)
(* a card and what is published of it (CardSource).                        *)
(***************************************************************************)
EXTENDS MCProject, Integers, SequenceTheorems, WellFoundedInduction, TLAPS

LockMatchesSteps ==
  /\ \A c \in Client : c \in holding <=> pc[c] # "idle"
  /\ \A c, d \in holding : c = d

StepsAreDated ==
  \A c \in Client :
    /\ pc[c] \in Reading \cup Staging \cup {"sweep", "rmdir"} => ~ Interrupted
    /\ pc[c] \in Reading => Swept
    /\ pc[c] = "read-lock" => seen[c] = config
    /\ pc[c] \in Staging =>
         /\ tx[c] \in Tx /\ sources[tx[c]] \in Pair
         /\ next[c] \in [config : Bytes, lock : Bytes]
         /\ \A t \in Tx : t # tx[c] => sources[t] = NoDir
         /\ pc[c] # "config-source" => sources[tx[c]].config = next[c].config
         /\ pc[c] = "journal" => sources[tx[c]].lock = next[c].lock
    /\ pc[c] \in Installing \ {"rmdir"} => Interrupted /\ tx[c] = journal.tx
    /\ pc[c] \in Installing \ {"rmdir", "install-config"} => config = journal.config
    /\ pc[c] \in {"lock-phase", "check", "unlink"} => lock = journal.lock
    /\ pc[c] = "rmdir" => tx[c] \in Tx

IInv ==
  /\ TypeOK
  /\ LockMatchesSteps
  /\ JournalKeepsItsSources
  /\ PhaseNeverOverclaims
  /\ AtMostOneDirectory
  /\ StepsAreDated

USE DEF From, Goto, files, memory, Forget, NeedsInstall, Interrupted, MustRecover

-----------------------------------------------------------------------------
(* Whoever is past "idle" is alone. *)
LEMMA OthersAreIdle ==
  ASSUME IInv, NEW c \in Client, pc[c] # "idle"
  PROVE \A d \in Client : d # c => pc[d] = "idle"
  BY DEF IInv, LockMatchesSteps

LEMMA InitIInv == Init => IInv
  BY TransactionAssumption
  DEF Init, IInv, TypeOK, LockMatchesSteps, JournalKeepsItsSources, PhaseNeverOverclaims,
      AtMostOneDirectory, StepsAreDated, OwnerLock!LockInit, File, Pair, NoPair, Steps,
      Reading, Staging, Installing

LEMMA AcquireIInv == ASSUME IInv, NEW c \in Client, Acquire(c) PROVE IInv'
<1> USE TransactionAssumption DEF IInv, Acquire, OwnerLock!Enter
<1>1. TypeOK'
  BY DEF TypeOK, Steps, Recovery
<1>2. LockMatchesSteps'
  BY DEF TypeOK, LockMatchesSteps
<1>3. JournalKeepsItsSources'
  BY DEF JournalKeepsItsSources
<1>4. PhaseNeverOverclaims'
  BY DEF PhaseNeverOverclaims
<1>5. AtMostOneDirectory'
  BY DEF AtMostOneDirectory
<1>6. StepsAreDated'
  BY DEF StepsAreDated, Swept, Staging, Reading, Installing
<1>7. QED
  BY <1>1, <1>2, <1>3, <1>4, <1>5, <1>6

LEMMA ReenterIInv == ASSUME IInv, NEW c \in Client, Reenter(c) PROVE IInv'
<1> USE TransactionAssumption DEF IInv, Reenter
<1>1. TypeOK'
  BY DEF TypeOK, Steps, Recovery
<1>2. LockMatchesSteps'
  BY DEF LockMatchesSteps
<1>3. JournalKeepsItsSources'
  BY DEF JournalKeepsItsSources
<1>4. PhaseNeverOverclaims'
  BY DEF PhaseNeverOverclaims
<1>5. AtMostOneDirectory'
  BY DEF AtMostOneDirectory
<1>6. StepsAreDated'
  BY DEF StepsAreDated, Swept, Staging, Reading, Installing
<1>7. QED
  BY <1>1, <1>2, <1>3, <1>4, <1>5, <1>6

LEMMA ReleaseIInv == ASSUME IInv, NEW c \in Client, Release(c) PROVE IInv'
<1> USE TransactionAssumption DEF IInv, Release, OwnerLock!Exit
<1>1. TypeOK'
  BY DEF TypeOK, Steps, Pair, File, NoPair
<1>2. LockMatchesSteps'
  BY DEF TypeOK, LockMatchesSteps
<1>3. JournalKeepsItsSources'
  BY DEF JournalKeepsItsSources
<1>4. PhaseNeverOverclaims'
  BY DEF PhaseNeverOverclaims
<1>5. AtMostOneDirectory'
  BY DEF AtMostOneDirectory
<1>6. StepsAreDated'
  BY DEF StepsAreDated, Swept, Staging, Reading, Installing
<1>7. QED
  BY <1>1, <1>2, <1>3, <1>4, <1>5, <1>6

LEMMA RecoverIInv == ASSUME IInv, NEW c \in Client, Recover(c) PROVE IInv'
<1> USE TransactionAssumption DEF IInv, Recover
<1>1. TypeOK'
  BY DEF TypeOK, Steps, Recovery, Reading, Installing, Journal
<1>2. LockMatchesSteps'
  BY DEF TypeOK, LockMatchesSteps
<1>3. JournalKeepsItsSources'
  BY DEF JournalKeepsItsSources
<1>4. PhaseNeverOverclaims'
  BY DEF PhaseNeverOverclaims
<1>5. AtMostOneDirectory'
  BY DEF AtMostOneDirectory
<1>6. StepsAreDated'
  BY DEF TypeOK, StepsAreDated, Swept, Staging, Reading, Installing
<1>7. QED
  BY <1>1, <1>2, <1>3, <1>4, <1>5, <1>6

LEMMA SweepIInv == ASSUME IInv, NEW c \in Client, Sweep(c) PROVE IInv'
<1> USE TransactionAssumption DEF IInv, Sweep
<1>1. TypeOK'
  BY DEF TypeOK, Steps, Recovery, Reading, Installing
<1>2. LockMatchesSteps'
  BY DEF TypeOK, LockMatchesSteps
<1>3. JournalKeepsItsSources'
  BY DEF JournalKeepsItsSources
<1>4. PhaseNeverOverclaims'
  BY DEF PhaseNeverOverclaims
<1>5. AtMostOneDirectory'
  BY DEF TypeOK, AtMostOneDirectory
<1>6. StepsAreDated'
  BY DEF TypeOK, LockMatchesSteps, StepsAreDated, JournalKeepsItsSources, Swept, Staging,
     Installing
<1>7. QED
  BY <1>1, <1>2, <1>3, <1>4, <1>5, <1>6

LEMMA ReadConfigIInv == ASSUME IInv, NEW c \in Client, ReadConfig(c) PROVE IInv'
<1> USE TransactionAssumption DEF IInv, ReadConfig
<1>1. TypeOK'
  BY DEF TypeOK, Steps, Reading
<1>2. LockMatchesSteps'
  BY DEF LockMatchesSteps
<1>3. JournalKeepsItsSources'
  BY DEF JournalKeepsItsSources
<1>4. PhaseNeverOverclaims'
  BY DEF PhaseNeverOverclaims
<1>5. AtMostOneDirectory'
  BY DEF AtMostOneDirectory
<1>6. StepsAreDated'
  BY DEF TypeOK, StepsAreDated, Swept, Staging, Reading, Installing
<1>7. QED
  BY <1>1, <1>2, <1>3, <1>4, <1>5, <1>6

LEMMA ReadLockIInv == ASSUME IInv, NEW c \in Client, ReadLock(c) PROVE IInv'
<1> USE TransactionAssumption DEF IInv, ReadLock
<1>1. TypeOK'
  BY DEF TypeOK, Steps, Reading, Pair
<1>2. LockMatchesSteps'
  BY DEF LockMatchesSteps
<1>3. JournalKeepsItsSources'
  BY DEF JournalKeepsItsSources
<1>4. PhaseNeverOverclaims'
  BY DEF PhaseNeverOverclaims
<1>5. AtMostOneDirectory'
  BY DEF AtMostOneDirectory
<1>6. StepsAreDated'
  BY DEF StepsAreDated, Swept, Staging, Reading, Installing
<1>7. QED
  BY <1>1, <1>2, <1>3, <1>4, <1>5, <1>6

LEMMA ReturnIInv == ASSUME IInv, NEW c \in Client, Return(c) PROVE IInv'
<1> USE TransactionAssumption DEF IInv, Return
<1>1. TypeOK'
  BY DEF TypeOK, Steps
<1>2. LockMatchesSteps'
  BY DEF LockMatchesSteps
<1>3. JournalKeepsItsSources'
  BY DEF JournalKeepsItsSources
<1>4. PhaseNeverOverclaims'
  BY DEF PhaseNeverOverclaims
<1>5. AtMostOneDirectory'
  BY DEF AtMostOneDirectory
<1>6. StepsAreDated'
  BY DEF StepsAreDated, Swept, Staging, Reading, Installing
<1>7. QED
  BY <1>1, <1>2, <1>3, <1>4, <1>5, <1>6

LEMMA WriteConfigIInv == ASSUME IInv, NEW c \in Client, WriteConfig(c) PROVE IInv'
<1> USE TransactionAssumption DEF IInv, WriteConfig
<1>1. TypeOK'
  BY DEF TypeOK, Steps, File
<1>2. LockMatchesSteps'
  BY DEF LockMatchesSteps
<1>3. JournalKeepsItsSources'
  BY DEF JournalKeepsItsSources
<1>4. PhaseNeverOverclaims'
  BY DEF PhaseNeverOverclaims, StepsAreDated, Reading
<1>5. AtMostOneDirectory'
  BY DEF AtMostOneDirectory
<1>6. StepsAreDated'
  BY DEF LockMatchesSteps, StepsAreDated, Swept, Staging, Reading, Installing
<1>7. QED
  BY <1>1, <1>2, <1>3, <1>4, <1>5, <1>6

LEMMA MakeDirIInv == ASSUME IInv, NEW c \in Client, MakeDir(c) PROVE IInv'
<1> USE TransactionAssumption DEF IInv, MakeDir
<1>1. TypeOK'
  BY DEF TypeOK, Steps, Staging, Pair, File
<1>2. LockMatchesSteps'
  BY DEF LockMatchesSteps
<1>3. JournalKeepsItsSources'
  BY DEF TypeOK, JournalKeepsItsSources, Journal
<1>4. PhaseNeverOverclaims'
  BY DEF PhaseNeverOverclaims
<1>5. AtMostOneDirectory'
  BY DEF AtMostOneDirectory, StepsAreDated, Swept, Reading
<1>6. StepsAreDated'
  <2>1. PICK t \in Tx, p \in [config : Bytes, lock : Bytes] :
          /\ sources[t] = NoDir
          /\ sources' = [sources EXCEPT ![t] = NoPair]
          /\ tx' = [tx EXCEPT ![c] = t]
          /\ next' = [next EXCEPT ![c] = p]
    BY DEF NoPair
  <2>2. Swept /\ ~ Interrupted /\ ~ Interrupted'
    BY DEF StepsAreDated, Reading
  <2>3. tx'[c] = t /\ next'[c] = p /\ pc'[c] = "config-source" /\ sources'[t] = NoPair
    BY <2>1 DEF TypeOK
  <2>4. NoPair \in Pair
    BY DEF NoPair, Pair, File
  <2>5. \A u \in Tx : u # t => sources'[u] = NoDir
    BY <2>1, <2>2 DEF Swept
  <2>6. \A d \in Client : d # c => pc'[d] = "idle"
    BY OthersAreIdle
  <2>7. QED
    BY <2>2, <2>3, <2>4, <2>5, <2>6 DEF StepsAreDated, Reading, Staging, Installing
<1>7. QED
  BY <1>1, <1>2, <1>3, <1>4, <1>5, <1>6

LEMMA WriteConfigSourceIInv == ASSUME IInv, NEW c \in Client, WriteConfigSource(c) PROVE IInv'
<1> USE TransactionAssumption DEF IInv, WriteConfigSource
<1>1. TypeOK'
  BY DEF TypeOK, Steps, Staging, StepsAreDated, Pair
<1>2. LockMatchesSteps'
  BY DEF LockMatchesSteps
<1>3. JournalKeepsItsSources'
  BY DEF JournalKeepsItsSources, StepsAreDated, Staging
<1>4. PhaseNeverOverclaims'
  BY DEF PhaseNeverOverclaims
<1>5. AtMostOneDirectory'
  BY DEF AtMostOneDirectory, StepsAreDated, Staging
<1>6. StepsAreDated'
  <2>1. /\ tx[c] \in Tx /\ sources[tx[c]] \in Pair /\ ~ Interrupted
        /\ next[c] \in [config : Bytes, lock : Bytes]
        /\ \A t \in Tx : t # tx[c] => sources[t] = NoDir
        /\ TRUE
    BY DEF StepsAreDated, Staging
  <2>2. sources'[tx[c]] = [sources[tx[c]] EXCEPT !.config = next[c].config]
    BY <2>1 DEF TypeOK
  <2>3. sources'[tx[c]] \in Pair /\ sources'[tx[c]].config = next[c].config
    BY <2>1, <2>2 DEF Pair, File
  <2>4. \A t \in Tx : t # tx[c] => sources'[t] = NoDir
    BY <2>1
  <2>5. pc'[c] = "lock-source" /\ \A d \in Client : d # c => pc'[d] = "idle"
    BY OthersAreIdle DEF TypeOK
  <2>6. QED
    BY <2>1, <2>3, <2>4, <2>5 DEF StepsAreDated, Reading, Staging, Installing
<1>7. QED
  BY <1>1, <1>2, <1>3, <1>4, <1>5, <1>6

LEMMA WriteLockSourceIInv == ASSUME IInv, NEW c \in Client, WriteLockSource(c) PROVE IInv'
<1> USE TransactionAssumption DEF IInv, WriteLockSource
<1>1. TypeOK'
  BY DEF TypeOK, Steps, Staging, StepsAreDated, Pair
<1>2. LockMatchesSteps'
  BY DEF LockMatchesSteps
<1>3. JournalKeepsItsSources'
  BY DEF JournalKeepsItsSources, StepsAreDated, Staging
<1>4. PhaseNeverOverclaims'
  BY DEF PhaseNeverOverclaims
<1>5. AtMostOneDirectory'
  BY DEF AtMostOneDirectory, StepsAreDated, Staging
<1>6. StepsAreDated'
  <2>1. /\ tx[c] \in Tx /\ sources[tx[c]] \in Pair /\ ~ Interrupted
        /\ next[c] \in [config : Bytes, lock : Bytes]
        /\ \A t \in Tx : t # tx[c] => sources[t] = NoDir
        /\ sources[tx[c]].config = next[c].config
    BY DEF StepsAreDated, Staging
  <2>2. sources'[tx[c]] = [sources[tx[c]] EXCEPT !.lock = next[c].lock]
    BY <2>1 DEF TypeOK
  <2>3. sources'[tx[c]] \in Pair /\ sources'[tx[c]].lock = next[c].lock
    BY <2>1, <2>2 DEF Pair, File
  <2>4. \A t \in Tx : t # tx[c] => sources'[t] = NoDir
    BY <2>1
  <2>5. pc'[c] = "journal" /\ \A d \in Client : d # c => pc'[d] = "idle"
    BY OthersAreIdle DEF TypeOK
  <2>6. sources'[tx[c]].config = next[c].config
    BY <2>1, <2>2
  <2>7. QED
    BY <2>1, <2>3, <2>4, <2>5, <2>6 DEF StepsAreDated, Reading, Staging, Installing
<1>7. QED
  BY <1>1, <1>2, <1>3, <1>4, <1>5, <1>6

LEMMA WriteJournalIInv == ASSUME IInv, NEW c \in Client, WriteJournal(c) PROVE IInv'
<1> USE TransactionAssumption DEF IInv, WriteJournal
<1>1. TypeOK'
  BY DEF TypeOK, Steps, Staging, Installing, StepsAreDated, Journal, Phases
<1>2. LockMatchesSteps'
  BY DEF LockMatchesSteps
<1>3. JournalKeepsItsSources'
  BY DEF JournalKeepsItsSources, StepsAreDated, Staging, Pair
<1>4. PhaseNeverOverclaims'
  BY DEF PhaseNeverOverclaims
<1>5. AtMostOneDirectory'
  BY DEF AtMostOneDirectory
<1>6. StepsAreDated'
  BY DEF TypeOK, LockMatchesSteps, StepsAreDated, Staging, Reading
<1>7. QED
  BY <1>1, <1>2, <1>3, <1>4, <1>5, <1>6

LEMMA InstallConfigIInv == ASSUME IInv, NEW c \in Client, InstallConfig(c) PROVE IInv'
<1> USE TransactionAssumption DEF IInv, InstallConfig
<1>1. TypeOK'
  <2>1. sources[tx[c]] = [config |-> journal.config, lock |-> journal.lock]
    BY DEF StepsAreDated, Installing, JournalKeepsItsSources
  <2>2. journal \in Journal
    BY DEF TypeOK, StepsAreDated, Installing
  <2>3. QED
    BY <2>1, <2>2 DEF TypeOK, Steps, Installing, File, Journal
<1>2. LockMatchesSteps'
  BY DEF LockMatchesSteps
<1>3. JournalKeepsItsSources'
  BY DEF JournalKeepsItsSources
<1>4. PhaseNeverOverclaims'
  BY DEF PhaseNeverOverclaims, JournalKeepsItsSources, StepsAreDated, Installing
<1>5. AtMostOneDirectory'
  BY DEF AtMostOneDirectory
<1>6. StepsAreDated'
  BY DEF StepsAreDated, JournalKeepsItsSources, Staging, Reading, Installing
<1>7. QED
  BY <1>1, <1>2, <1>3, <1>4, <1>5, <1>6

LEMMA AdvanceConfigIInv == ASSUME IInv, NEW c \in Client, AdvanceConfig(c) PROVE IInv'
<1> USE TransactionAssumption DEF IInv, AdvanceConfig, Advance
<1>1. TypeOK'
  BY DEF TypeOK, Steps, Installing, StepsAreDated, Journal, Phases
<1>2. LockMatchesSteps'
  BY DEF LockMatchesSteps
<1>3. JournalKeepsItsSources'
  BY DEF JournalKeepsItsSources, StepsAreDated, Installing
<1>4. PhaseNeverOverclaims'
  BY DEF PhaseNeverOverclaims, StepsAreDated, Installing
<1>5. AtMostOneDirectory'
  BY DEF AtMostOneDirectory
<1>6. StepsAreDated'
  BY DEF TypeOK, StepsAreDated, Staging, Reading, Installing, Journal
<1>7. QED
  BY <1>1, <1>2, <1>3, <1>4, <1>5, <1>6

LEMMA InstallLockIInv == ASSUME IInv, NEW c \in Client, InstallLock(c) PROVE IInv'
<1> USE TransactionAssumption DEF IInv, InstallLock
<1>1. TypeOK'
  <2>1. sources[tx[c]] = [config |-> journal.config, lock |-> journal.lock]
    BY DEF StepsAreDated, Installing, JournalKeepsItsSources
  <2>2. journal \in Journal
    BY DEF TypeOK, StepsAreDated, Installing
  <2>3. QED
    BY <2>1, <2>2 DEF TypeOK, Steps, Installing, File, Journal
<1>2. LockMatchesSteps'
  BY DEF LockMatchesSteps
<1>3. JournalKeepsItsSources'
  BY DEF JournalKeepsItsSources
<1>4. PhaseNeverOverclaims'
  BY DEF PhaseNeverOverclaims, JournalKeepsItsSources, StepsAreDated, Installing
<1>5. AtMostOneDirectory'
  BY DEF AtMostOneDirectory
<1>6. StepsAreDated'
  BY DEF StepsAreDated, JournalKeepsItsSources, Staging, Reading, Installing
<1>7. QED
  BY <1>1, <1>2, <1>3, <1>4, <1>5, <1>6

LEMMA AdvanceLockIInv == ASSUME IInv, NEW c \in Client, AdvanceLock(c) PROVE IInv'
<1> USE TransactionAssumption DEF IInv, AdvanceLock, Advance, LockPhase
<1>1. TypeOK'
  BY DEF TypeOK, Steps, Installing, StepsAreDated, Journal, Phases
<1>2. LockMatchesSteps'
  BY DEF LockMatchesSteps
<1>3. JournalKeepsItsSources'
  BY DEF JournalKeepsItsSources, StepsAreDated, Installing
<1>4. PhaseNeverOverclaims'
  BY DEF PhaseNeverOverclaims, StepsAreDated, Installing
<1>5. AtMostOneDirectory'
  BY DEF AtMostOneDirectory
<1>6. StepsAreDated'
  BY DEF TypeOK, StepsAreDated, Staging, Reading, Installing, Journal
<1>7. QED
  BY <1>1, <1>2, <1>3, <1>4, <1>5, <1>6

LEMMA CheckIInv == ASSUME IInv, NEW c \in Client, Check(c) PROVE IInv'
<1> USE TransactionAssumption DEF IInv, Check
<1>1. TypeOK'
  BY DEF TypeOK, Steps, Installing, StepsAreDated, Journal, Phases
<1>2. LockMatchesSteps'
  BY DEF LockMatchesSteps
<1>3. JournalKeepsItsSources'
  BY DEF JournalKeepsItsSources, StepsAreDated, Installing
<1>4. PhaseNeverOverclaims'
  BY DEF PhaseNeverOverclaims
<1>5. AtMostOneDirectory'
  BY DEF AtMostOneDirectory
<1>6. StepsAreDated'
  <2>1. Interrupted /\ tx[c] = journal.tx /\ config = journal.config /\ lock = journal.lock
    BY DEF StepsAreDated, Installing
  <2>2. journal \in Journal /\ journal' = [journal EXCEPT !.phase = "committed"]
    BY <2>1 DEF TypeOK
  <2>3. /\ Interrupted' /\ journal'.tx = journal.tx
        /\ journal'.config = journal.config /\ journal'.lock = journal.lock
    BY <2>2 DEF Journal
  <2>4. pc'[c] = "unlink" /\ \A d \in Client : d # c => pc'[d] = "idle"
    BY <2>1, OthersAreIdle DEF TypeOK
  <2>5. QED
    BY <2>1, <2>3, <2>4 DEF StepsAreDated, Reading, Staging
<1>7. QED
  BY <1>1, <1>2, <1>3, <1>4, <1>5, <1>6

LEMMA UnlinkJournalIInv == ASSUME IInv, NEW c \in Client, UnlinkJournal(c) PROVE IInv'
<1> USE TransactionAssumption DEF IInv, UnlinkJournal
<1>1. TypeOK'
  BY DEF TypeOK, Steps, Installing
<1>2. LockMatchesSteps'
  BY DEF LockMatchesSteps
<1>3. JournalKeepsItsSources'
  BY DEF JournalKeepsItsSources
<1>4. PhaseNeverOverclaims'
  BY DEF PhaseNeverOverclaims
<1>5. AtMostOneDirectory'
  BY DEF AtMostOneDirectory
<1>6. StepsAreDated'
  BY DEF TypeOK, LockMatchesSteps, StepsAreDated, Staging, Reading, Installing, Journal
<1>7. QED
  BY <1>1, <1>2, <1>3, <1>4, <1>5, <1>6

LEMMA RemoveDirIInv == ASSUME IInv, NEW c \in Client, RemoveDir(c) PROVE IInv'
<1> USE TransactionAssumption DEF IInv, RemoveDir
<1>1. TypeOK'
  BY DEF TypeOK, Steps, Recovery
<1>2. LockMatchesSteps'
  BY DEF LockMatchesSteps
<1>3. JournalKeepsItsSources'
  BY DEF JournalKeepsItsSources, StepsAreDated
<1>4. PhaseNeverOverclaims'
  BY DEF PhaseNeverOverclaims
<1>5. AtMostOneDirectory'
  BY DEF AtMostOneDirectory
<1>6. StepsAreDated'
  BY DEF LockMatchesSteps, StepsAreDated, Staging, Reading, Installing
<1>7. QED
  BY <1>1, <1>2, <1>3, <1>4, <1>5, <1>6

LEMMA ThrowIInv == ASSUME IInv, NEW c \in Client, Throw(c) PROVE IInv'
<1> USE TransactionAssumption DEF IInv, Throw, Fault
<1>1. TypeOK'
  BY DEF TypeOK, Steps
<1>2. LockMatchesSteps'
  BY DEF LockMatchesSteps
<1>3. JournalKeepsItsSources'
  BY DEF JournalKeepsItsSources
<1>4. PhaseNeverOverclaims'
  BY DEF PhaseNeverOverclaims
<1>5. AtMostOneDirectory'
  BY DEF AtMostOneDirectory
<1>6. StepsAreDated'
  BY DEF StepsAreDated, Swept, Staging, Reading, Installing
<1>7. QED
  BY <1>1, <1>2, <1>3, <1>4, <1>5, <1>6

LEMMA CrashIInv == ASSUME IInv, NEW c \in Client, Crash(c) PROVE IInv'
<1> USE TransactionAssumption DEF IInv, Crash, Fault, OwnerLock!Die
<1>1. TypeOK'
  BY DEF TypeOK, Steps, Pair, File, NoPair
<1>2. LockMatchesSteps'
  BY DEF TypeOK, LockMatchesSteps
<1>3. JournalKeepsItsSources'
  BY DEF JournalKeepsItsSources
<1>4. PhaseNeverOverclaims'
  BY DEF PhaseNeverOverclaims
<1>5. AtMostOneDirectory'
  BY DEF AtMostOneDirectory
<1>6. StepsAreDated'
  BY DEF TypeOK, StepsAreDated, Swept, Staging, Reading, Installing
<1>7. QED
  BY <1>1, <1>2, <1>3, <1>4, <1>5, <1>6

LEMMA NextIInv == IInv /\ [Next]_vars => IInv'
<1> SUFFICES ASSUME IInv, [Next]_vars PROVE IInv'
  OBVIOUS
<1>1. ASSUME NEW c \in Client, Step(c) PROVE IInv'
  BY <1>1, RecoverIInv, SweepIInv, ReadConfigIInv, ReadLockIInv, ReturnIInv,
     WriteConfigIInv, MakeDirIInv, WriteConfigSourceIInv, WriteLockSourceIInv,
     WriteJournalIInv, InstallConfigIInv, AdvanceConfigIInv, InstallLockIInv,
     AdvanceLockIInv, CheckIInv, UnlinkJournalIInv, RemoveDirIInv, ReleaseIInv DEF Step
<1>2. ASSUME NEW c \in Client, Acquire(c) \/ Reenter(c) \/ Throw(c) \/ Crash(c)
      PROVE IInv'
  BY <1>2, AcquireIInv, ReenterIInv, ThrowIInv, CrashIInv
<1>3. CASE UNCHANGED vars
  BY <1>3
  DEF vars, IInv, TypeOK, LockMatchesSteps, JournalKeepsItsSources, PhaseNeverOverclaims,
      AtMostOneDirectory, StepsAreDated, Swept
<1>4. QED
  BY <1>1, <1>2, <1>3 DEF Next

LEMMA Invariance == Spec => []IInv
  BY InitIInv, NextIInv, PTL DEF Spec

-----------------------------------------------------------------------------
(* Type correctness, for any set of clients, contents and transaction ids. *)
THEOREM TypeCorrect == Spec => []TypeOK
<1>1. IInv => TypeOK
  BY DEF IInv
<1>2. QED
  BY <1>1, Invariance, PTL

(* What a journal says is so, whoever wrote it and however often recovery was *)
(* interrupted: its sources exist, and its phase was reached.                 *)
THEOREM JournalIsTrusted == Spec => []JournalIsTrue
<1>1. IInv => JournalIsTrue
  BY DEF IInv, JournalIsTrue
<1>2. QED
  BY <1>1, Invariance, PTL

(* However often processes die, one transaction directory at most is left. *)
THEOREM NoDebris == Spec => []AtMostOneDirectory
<1>1. IInv => AtMostOneDirectory
  BY DEF IInv
<1>2. QED
  BY <1>1, Invariance, PTL

(* Whatever died, the next client finds a true journal and no debris beside it. *)
THEOREM RecoverableAfterCrashes == Spec => []CrashesAreRecoverable
<1>1. JournalIsTrue /\ AtMostOneDirectory => CrashesAreRecoverable
  BY DEF CrashesAreRecoverable
<1>2. QED
  BY <1>1, JournalIsTrusted, NoDebris, PTL

(* The two files are one value that commits replace at once. *)
THEOREM Refinement == Spec => ImplementsProjectState
<1>1. Init => Abstract!StateInit
  BY DEF Init, Abstract!StateInit, LogicalState, Abstract!Pair, Abstract!NoPair, NoPair,
     File
<1>2. IInv /\ [Next]_vars => [Abstract!StateNext]_<<LogicalState, snapshot>>
  <2> SUFFICES ASSUME IInv, [Next]_vars
               PROVE [Abstract!StateNext]_<<LogicalState, snapshot>>
    OBVIOUS
  <2> USE DEF Abstract!StateNext, LogicalState
  <2>1. CASE UNCHANGED vars
    BY <2>1 DEF vars
  <2>2. ASSUME NEW c \in Client, WriteConfig(c) PROVE Abstract!SetConfig
    BY <2>2 DEF WriteConfig, IInv, StepsAreDated, Reading, Abstract!SetConfig
  <2>3. ASSUME NEW c \in Client, WriteJournal(c) PROVE Abstract!Commit
    <3>1. next[c] \in [config : Bytes, lock : Bytes]
      BY <2>3 DEF WriteJournal, IInv, StepsAreDated, Staging
    <3>2. Interrupted'
      BY <2>3, <3>1, TransactionAssumption DEF WriteJournal, IInv, StepsAreDated, Staging
    <3>3. QED
      BY <2>3, <3>1, <3>2 DEF WriteJournal, Abstract!Commit
  <2>4. ASSUME NEW c \in Client, ReadLock(c) PROVE Abstract!Read(c)
    BY <2>4 DEF ReadLock, IInv, StepsAreDated, Reading, Abstract!Read
  <2>5. ASSUME NEW c \in Client, Release(c) \/ Crash(c) PROVE Abstract!Forget(c)
    BY <2>5 DEF Release, Crash, Fault, Abstract!Forget, Abstract!NoPair, NoPair
  <2>6. ASSUME NEW c \in Client,
               InstallConfig(c) \/ InstallLock(c) \/ AdvanceConfig(c) \/ AdvanceLock(c)
                 \/ Check(c)
        PROVE UNCHANGED <<LogicalState, snapshot>>
    BY <2>6, TransactionAssumption
    DEF InstallConfig, InstallLock, AdvanceConfig, AdvanceLock, Advance, Check, IInv,
        TypeOK, Journal, StepsAreDated, Installing
  <2>7. ASSUME NEW c \in Client, UnlinkJournal(c)
        PROVE UNCHANGED <<LogicalState, snapshot>>
    BY <2>7 DEF UnlinkJournal, IInv, StepsAreDated, Installing
  <2>8. ASSUME NEW c \in Client,
               \/ Acquire(c) \/ Reenter(c) \/ Recover(c) \/ Sweep(c) \/ ReadConfig(c)
               \/ Return(c) \/ MakeDir(c) \/ WriteConfigSource(c) \/ WriteLockSource(c)
               \/ RemoveDir(c) \/ Throw(c)
        PROVE UNCHANGED <<LogicalState, snapshot>>
    BY <2>8
    DEF Acquire, Reenter, Recover, Sweep, ReadConfig, Return, MakeDir, WriteConfigSource,
        WriteLockSource, RemoveDir, Throw, Fault
  <2>9. QED
    BY <2>1, <2>2, <2>3, <2>4, <2>5, <2>6, <2>7, <2>8 DEF Next, Step
<1>3. QED
  BY <1>1, <1>2, Invariance, PTL DEF Spec, ImplementsProjectState, Abstract!StateSpec

-----------------------------------------------------------------------------
(* WorkerRoots.  Requirements, their lock and the consents in it: what a    *)
(* transaction has journaled and what every command has read is as whole as *)
(* what is on the disk.                                                     *)
Requests == Seq(Roots!Requirement)
Whole(c) == c = [specs |-> c.specs, active |-> c.active] /\ c.specs \in Requests

(* An entry of the lock, of a card, with what its user consented to.        *)
Agreed(c, e, g) ==
  /\ e = [version |-> e.version, hooks |-> e.hooks, text |-> e.text] /\ e.version \in Roots!Version
  /\ e.hooks # None =>
       e.version \in e.hooks /\ [card |-> c, surface |-> "hooks", range |-> e.hooks] \in g
  /\ e.text # None =>
       /\ e.version \in e.text.range /\ e.text.digest = Text[c][e.version]
       /\ [card |-> c, surface |-> "text", range |-> e.text.range] \in g
Sealed(l, g) == l # Roots!NoLock =>
  /\ l = [roots |-> l.roots, cards |-> l.cards] /\ l.roots \in Requests
  /\ l.cards = [c \in Card |-> l.cards[c]]
  /\ \A c \in Card : l.cards[c] # None => Agreed(c, l.cards[c], g)
Paired(c, l) == Roots!Roots(l) = c.specs /\ c.active \in Roots!Names(c.specs) \cup {None}

Journaled == draft # Roots!NoTransaction =>
  /\ Whole(draft.config) /\ Sealed(draft.lock, granted) /\ Paired(draft.config, draft.lock)
  /\ Roots!Consents(draft.lock) \subseteq Roots!Consents(draft.was.lock)
Matched == draft = Roots!NoTransaction /\ ~ clobbered => Paired(requirements, locked)

Storing == {"config", "lock", "verify", "recover", "recover lock", "recovered"}
Inside == {"inside", "derive"} \cup Storing
Waiting == {"enter", "inside", "recover", "recover lock", "recovered"}
Outside == {"idle", "enter", "look", "specs", "rest", "read", "write"}

(* What a command has read of the project, at each of its steps.            *)
Fetched(t) == LET s == read[t] IN
  /\ Whole(s.config) /\ Sealed(s.lock, granted) /\ s.lock # Roots!NoLock /\ Paired(s.config, s.lock)
Told(t) == LET s == read[t]  k == call[t].kind IN
  /\ at[t] \in {"look", "specs", "rest"} => k = "up"
  /\ at[t] = "read" => k \in {"up", "trust", "untrust"}
  /\ at[t] = "derive" => Roots!Transacts(t)
  /\ at[t] = "write" => ~ Roots!Transacts(t) /\ Sealed(s.lock, granted)
  /\ k = "up" /\ at[t] \in {"rest", "read", "write"} \cup Waiting => s.specs \in Requests
  /\ k = "up" /\ at[t] \in {"read"} \cup Waiting => Whole(s.config)
  /\ k = "up" /\ at[t] \in Waiting => Sealed(s.lock, granted)
  /\ k = "install" /\ at[t] \in Waiting /\ s # None => Fetched(t)
  /\ k = "install" /\ at[t] = "derive" => Fetched(t) /\ Whole(s.again)
  /\ k # "install" /\ at[t] = "derive" => Whole(s.config)
Owned(t) ==
  /\ at[t] \in Inside => holder = t
  /\ at[t] \in Storing => draft # Roots!NoTransaction
  /\ at[t] # "idle" => call[t] \in Roots!Call
RootsTyped ==
  /\ at \in [Task -> Inside \cup Outside] /\ DOMAIN call = Task /\ DOMAIN read = Task
RootsInv ==
  /\ RootsTyped /\ Whole(requirements) /\ Sealed(locked, granted) /\ Journaled /\ Matched
  /\ \A t \in Task : Owned(t) /\ Told(t)

LEMMA RootsConstants ==
  /\ Roots!Version \subseteq Nat /\ AllRanges \subseteq SUBSET Roots!Version
  /\ Composed \in [Card -> SUBSET Roots!Requirement] /\ Caret \in [Roots!Version -> AllRanges]
  /\ \A v \in Roots!Version : v \in Caret[v]
  /\ 1 \in Roots!Version /\ \A c \in Calls : c \in Roots!Call
  /\ {a} \subseteq Card /\ None \notin Task /\ None \notin Card /\ None \notin AllRanges
  /\ MaxVersion \in Nat
  BY RootsAssumptionHolds DEF Roots!RootsAssumption, Roots!Version

LEMMA GreatestIn ==
  ASSUME NEW S \in SUBSET Roots!Version, S # {}
  PROVE  Roots!Max(S) \in S
  <1> DEFINE N == {MaxVersion - v : v \in S}
  <1>0. MaxVersion \in Nat /\ \A v \in S : v \in Nat /\ v <= MaxVersion
    BY RootsConstants DEF Roots!Version
  <1>1. N # {} /\ N \subseteq Nat
    BY <1>0
  <1>2. PICK n \in N : \A m \in N : <<m, n>> \notin OpToRel(<, Nat)
    BY <1>1, NatLessThanWellFounded, WFMin, Zenon
  <1>3. PICK v \in S : n = MaxVersion - v
    OBVIOUS
  <1>4. \A w \in S : ~ (MaxVersion - w < n)
    BY <1>1, <1>2 DEF OpToRel
  <1>5. \A w \in S : v >= w
    BY <1>3, <1>4, RootsConstants DEF Roots!Version
  <1>6. QED BY <1>5 DEF Roots!Max

LEMMA LeastIn ==
  ASSUME NEW S \in SUBSET Nat, S # {}
  PROVE  Roots!Min(S) \in S
  <1>1. PICK n \in S : \A m \in S : <<m, n>> \notin OpToRel(<, Nat)
    BY NatLessThanWellFounded, WFMin, Zenon
  <1>2. \A m \in S : ~ (m < n)
    BY <1>1 DEF OpToRel
  <1>3. \A m \in S : n =< m
    BY <1>2
  <1>4. QED BY <1>3 DEF Roots!Min

LEMMA WithoutIs ==
  ASSUME NEW s \in Requests, NEW name
  PROVE  Roots!Without(s, name) \in Requests
  <1> DEFINE I == {i \in 1..Len(s) : s[i].card = name}
  <1>1. CASE I = {}
    BY <1>1 DEF Roots!Without, Roots!RemoveFirstMatch
  <1>2. CASE I # {}
    <2> DEFINE k == Roots!Min(I)
    <2>0. s \in Seq(Roots!Requirement) /\ Len(s) \in Nat
      BY DEF Requests
    <2>1. k \in I
      <3>1. I \subseteq Nat
        BY <2>0
      <3>2. QED BY <1>2, <3>1, LeastIn
    <2>2. Roots!Without(s, name) = SubSeq(s, 1, k - 1) \o SubSeq(s, k + 1, Len(s))
      BY <1>2 DEF Roots!Without, Roots!RemoveFirstMatch, Roots!RemoveAt, Roots!SelectInSeq
    <2>3. SubSeq(s, 1, k - 1) \in Requests /\ SubSeq(s, k + 1, Len(s)) \in Requests
      <3>1. k \in Int /\ k >= 1 /\ k <= Len(s)
        BY <2>0, <2>1
      <3>2. \A i \in 1..(k - 1) : s[i] \in Roots!Requirement
        BY <2>0, <3>1
      <3>3. \A i \in (k + 1)..Len(s) : s[i] \in Roots!Requirement
        BY <2>0, <3>1
      <3>4. SubSeq(s, 1, k - 1) \in Seq(Roots!Requirement)
        BY <3>1, <3>2, SubSeqProperties
      <3>5. SubSeq(s, k + 1, Len(s)) \in Seq(Roots!Requirement)
        BY <2>0, <3>1, <3>3, SubSeqProperties
      <3>6. QED BY <3>4, <3>5 DEF Requests
    <2>4. QED BY <2>2, <2>3, ConcatProperties DEF Requests
  <1>3. QED BY <1>1, <1>2

(* What a call is about.                                                    *)
LEMMA CallIs ==
  ASSUME NEW c \in Roots!Call
  PROVE  /\ c.kind \in {"add", "pin", "use", "apply", "remove", "update", "off", "install", "up",
                        "trust", "untrust"}
         /\ c.kind \in {"add", "pin", "use"} => c.spec \in Roots!Requirement
         /\ c.kind = "apply" => c.specs \in Requests
         /\ c.kind \in {"trust", "untrust"} => c.card \in Card
         /\ c.kind = "trust" => c.range \in AllRanges \cup {None}
  BY DEF Roots!Call, Requests

LEMMA ChangeIs ==
  ASSUME NEW c \in Roots!Call, NEW old, Whole(old)
  PROVE  Whole(Roots!Change(c, old))
  <1> DEFINE new == Roots!Change(c, old)
  <1>0. ASSUME NEW r \in Roots!Requirement PROVE Append(old.specs, r) \in Requests
    BY <1>0, AppendProperties DEF Whole, Requests
  <1>1. CASE c.kind = "add"
    <2> DEFINE active == IF old = Roots!NoRoots THEN c.spec.card ELSE old.active
    <2>1. new = [specs |-> Append(old.specs, c.spec), active |-> active]
      BY <1>1 DEF Roots!Change
    <2>2. new.specs \in Requests
      BY <1>0, <1>1, <2>1, CallIs
    <2> HIDE DEF active
    <2>3. QED BY <2>1, <2>2 DEF Whole
  <1>2. CASE c.kind = "apply"
    BY <1>2, CallIs DEF Roots!Change, Whole
  <1>3. CASE c.kind = "remove"
    BY <1>3, WithoutIs DEF Roots!Change, Whole
  <1>4. CASE c.kind = "pin"
    <2> DEFINE specs == [i \in DOMAIN old.specs |->
                          IF old.specs[i].card = c.spec.card THEN c.spec ELSE old.specs[i]]
    <2>1. specs \in Requests
      BY <1>4, CallIs DEF Whole, Requests
    <2>2. new = [specs |-> specs, active |-> old.active]
      BY <1>4 DEF Roots!Change, Whole
    <2>3. QED BY <2>1, <2>2 DEF Whole
  <1>5. CASE c.kind = "use"
    <2> DEFINE specs == IF c.spec.card \in Roots!Names(old.specs) THEN old.specs
                        ELSE Append(old.specs, c.spec)
    <2>1. new = [specs |-> specs, active |-> c.spec.card]
      BY <1>5 DEF Roots!Change
    <2>2. specs \in Requests
      BY <1>0, <1>5, CallIs DEF Whole
    <2> HIDE DEF specs
    <2>3. QED BY <2>1, <2>2 DEF Whole
  <1>6. CASE c.kind = "off"
    BY <1>6 DEF Roots!Change, Whole
  <1>7. CASE c.kind \in {"update", "install", "up", "trust", "untrust"}
    BY <1>7 DEF Roots!Change
  <1>8. QED BY <1>1, <1>2, <1>3, <1>4, <1>5, <1>6, <1>7, CallIs

LEMMA ClosureIs ==
  ASSUME NEW specs \in Requests
  PROVE  /\ Roots!Closure(specs) \subseteq Roots!Requirement
         /\ \A i \in DOMAIN specs : specs[i] \in Roots!Requirement
         /\ specs = <<>> => Roots!Closure(specs) = {}
  <1>0. \A i \in DOMAIN specs : specs[i] \in Roots!Requirement
    BY DEF Requests
  <1>1. \A i \in DOMAIN specs : specs[i] \in Roots!Requirement /\ specs[i].card \in Card
    BY <1>0 DEF Roots!Requirement
  <1>2. \A i \in DOMAIN specs : Composed[specs[i].card] \subseteq Roots!Requirement
    BY <1>1, RootsConstants
  <1>3. QED BY <1>1, <1>2 DEF Roots!Closure

LEMMA ResolvedIs ==
  ASSUME NEW r \in Roots!Requirement, Roots!Candidates(r) # {}
  PROVE  Roots!Resolved(r) \in r.range /\ Roots!Resolved(r) \in Roots!Version
  <1>1. Roots!Candidates(r) \subseteq Roots!Version
    BY RootsConstants DEF Roots!Candidates, Roots!Requirement
  <1>2. Roots!Resolved(r) \in Roots!Candidates(r)
    BY <1>1, GreatestIn DEF Roots!Resolved
  <1>3. QED BY <1>1, <1>2 DEF Roots!Candidates

LEMMA NewLockIs ==
  ASSUME NEW specs \in Requests, Roots!Resolves(specs) \/ specs = <<>>, NEW old, NEW g, Sealed(old, g)
  PROVE  /\ Sealed(Roots!NewLock(specs, old), g) /\ Roots!NewLock(specs, old) # Roots!NoLock
         /\ Roots!NewLock(specs, old).roots = specs
         /\ Roots!Consents(Roots!NewLock(specs, old)) \subseteq Roots!Consents(old)
  <1> DEFINE new == Roots!NewLock(specs, old)
             Of(c) == CHOOSE r \in Roots!Closure(specs) : r.card = c
             E(c) == Roots!Carried(c, Roots!Resolved(Of(c)), Roots!Entries(old)[c])
             Has(c) == \E r \in Roots!Closure(specs) : r.card = c
  <1>1. new = [roots |-> specs, cards |-> [c \in Card |-> IF Has(c) THEN E(c) ELSE None]]
    BY DEF Roots!NewLock
  <1>2. new # Roots!NoLock /\ Roots!Entries(new) = new.cards
    BY <1>1 DEF Roots!NoLock, Roots!Entries
  <1>3. \A c \in Card : new.cards[c] # None => new.cards[c] = E(c) /\ Has(c)
    BY <1>1
  <1>4. \A c \in Card : Roots!Entries(old)[c] # None => Agreed(c, Roots!Entries(old)[c], g)
    BY DEF Roots!Entries, Roots!NoEntry, Sealed
  <1>5. ASSUME NEW c \in Card, Has(c) PROVE Roots!Resolved(Of(c)) \in Roots!Version
    <2>1. Of(c) \in Roots!Closure(specs)
      BY <1>5
    <2>2. Roots!Candidates(Of(c)) # {}
      BY <2>1, ClosureIs DEF Roots!Resolves
    <2>3. QED BY <2>1, <2>2, ClosureIs, ResolvedIs
  <1>6. ASSUME NEW c \in Card, new.cards[c] # None
        PROVE  /\ Agreed(c, new.cards[c], g)
               /\ new.cards[c].hooks # None =>
                    Roots!Entries(old)[c] # None /\ Roots!Entries(old)[c].hooks # None
               /\ new.cards[c].text # None =>
                    Roots!Entries(old)[c] # None /\ Roots!Entries(old)[c].text # None
    <2> DEFINE o == Roots!Entries(old)[c]  v == Roots!Resolved(Of(c))
    <2>1. new.cards[c] = Roots!Carried(c, v, o) /\ v \in Roots!Version
      BY <1>3, <1>5, <1>6
    <2>2. o # None => Agreed(c, o, g)
      BY <1>4
    <2> HIDE DEF new, o, v
    <2> DEFINE n == Roots!Carried(c, v, o)
    <2>3. n.version = v /\ n = [version |-> n.version, hooks |-> n.hooks, text |-> n.text]
      BY DEF Roots!Carried
    <2>4. n.hooks # None => o # None /\ o.hooks # None /\ n.hooks = o.hooks /\ v \in o.hooks
      BY DEF Roots!Carried
    <2>5. n.text # None =>
            /\ o # None /\ o.text # None /\ v \in o.text.range
            /\ n.text.range = o.text.range /\ n.text.digest = Text[c][v]
      BY DEF Roots!Carried
    <2> HIDE DEF n
    <2>6. Agreed(c, n, g)
      BY <2>1, <2>2, <2>3, <2>4, <2>5 DEF Agreed
    <2>7. QED BY <2>1, <2>4, <2>5, <2>6 DEF n, o
  <1>7. Sealed(new, g)
    BY <1>1, <1>6 DEF Sealed
  <1>8. Roots!Consents(new) \subseteq Roots!Consents(old)
    <2>1. \A c \in Card : Roots!Entries(new)[c] = new.cards[c]
      BY <1>2
    <2> HIDE DEF new
    <2>2. QED BY <1>6, <2>1 DEF Roots!Consents
  <1>9. QED BY <1>1, <1>2, <1>7, <1>8

LEMMA SealedStays ==
  ASSUME NEW l, NEW g, NEW h, g \subseteq h, Sealed(l, g)
  PROVE  Sealed(l, h)
  <1>1. ASSUME NEW c, NEW e, Agreed(c, e, g) PROVE Agreed(c, e, h)
    BY <1>1 DEF Agreed
  <1>2. QED BY <1>1 DEF Sealed

(* What a transaction journals.                                             *)
LEMMA DerivedIs ==
  ASSUME RootsInv, NEW t \in Task, at[t] = "derive", Roots!Goes(t, Roots!Snapshot(t)),
         NEW pair,
         pair = Roots!Pair(call[t], IF call[t].kind = "install"
                                    THEN [config |-> read[t].config, lock |-> read[t].lock]
                                    ELSE Roots!Snapshot(t))
  PROVE  /\ Whole(pair.config) /\ Sealed(pair.lock, granted) /\ Paired(pair.config, pair.lock)
         /\ Roots!Consents(pair.lock) \subseteq Roots!Consents(locked)
  <1> DEFINE c == call[t]  s == read[t]
  <1>1. c \in Roots!Call /\ Roots!Transacts(t) /\ Sealed(locked, granted)
    BY DEF RootsInv, Owned, Told
  <1>2. CASE c.kind = "install"
    <2>1. Fetched(t) /\ Whole(s.again)
      BY <1>2 DEF RootsInv, Told
    <2>2. [config |-> s.again, lock |-> locked] = [config |-> s.config, lock |-> s.lock]
      BY <1>2 DEF Roots!Goes, Roots!Unchanged, Roots!Snapshot
    <2>3. locked = s.lock
      BY <2>2
    <2>4. pair = [config |-> s.config, lock |-> s.lock]
      BY <1>2, <2>1 DEF Roots!Pair, Roots!Change, Roots!Selects, Fetched
    <2>5. QED BY <2>1, <2>3, <2>4 DEF Fetched
  <1>3. CASE c.kind # "install"
    <2> DEFINE old == s.config  new == Roots!Change(c, old)
    <2>1. Whole(old) /\ Whole(new)
      BY <1>1, <1>3, ChangeIs DEF RootsInv, Told
    <2>2. Roots!Snapshot(t) = [config |-> old, lock |-> locked]
      BY <1>3 DEF Roots!Snapshot
    <2>3. /\ Roots!Roots(locked) = old.specs
          /\ Roots!Selects(c, [config |-> old, lock |-> locked]) \/ Roots!Resolves(new.specs)
          /\ new.active \in Roots!Names(new.specs) \cup {None}
      BY <1>3, <2>2 DEF Roots!Goes, Roots!Parses
    <2>4. pair.config = new
      BY <1>3, <2>2 DEF Roots!Pair
    <2>5. CASE Roots!Selects(c, [config |-> old, lock |-> locked]) /\ locked # Roots!NoLock
      <3>1. pair.lock = locked
        BY <1>3, <2>2, <2>5 DEF Roots!Pair
      <3>2. new.specs = old.specs
        BY <1>3, <2>1, <2>3, <2>5 DEF Roots!Selects, Roots!Change, Whole
      <3>3. QED BY <1>1, <2>1, <2>3, <2>4, <3>1, <3>2 DEF Paired
    <2>6. CASE ~ (Roots!Selects(c, [config |-> old, lock |-> locked]) /\ locked # Roots!NoLock)
      <3>1. pair.lock = Roots!NewLock(new.specs, locked)
        BY <1>3, <2>2, <2>6 DEF Roots!Pair
      <3>2. ASSUME Roots!Selects(c, [config |-> old, lock |-> locked]) PROVE new.specs = <<>>
        <4>1. locked = Roots!NoLock /\ old.specs = <<>>
          BY <2>3, <2>6, <3>2 DEF Roots!Roots
        <4>2. c.kind = "off"
          BY <1>3, <2>3, <3>2, <4>1 DEF Roots!Selects, Roots!Names
        <4>3. QED BY <2>1, <4>1, <4>2 DEF Roots!Change, Whole
      <3>3. Roots!Resolves(new.specs) \/ new.specs = <<>>
        BY <2>3, <3>2
      <3>4. new.specs \in Requests
        BY <2>1 DEF Whole
      <3> HIDE DEF new, old, c, s
      <3>5. /\ Sealed(pair.lock, granted) /\ pair.lock # Roots!NoLock /\ pair.lock.roots = new.specs
            /\ Roots!Consents(pair.lock) \subseteq Roots!Consents(locked)
        BY <1>1, <3>1, <3>3, <3>4, NewLockIs
      <3>6. QED BY <2>1, <2>3, <2>4, <3>5 DEF Paired, Roots!Roots
    <2>7. QED BY <2>5, <2>6
  <1>4. QED BY <1>2, <1>3

LEMMA RootsStart == Roots!Init => RootsInv
  <1> SUFFICES ASSUME Roots!Init PROVE RootsInv
    OBVIOUS
  <1>1. RootsTyped /\ Journaled /\ \A t \in Task : Owned(t) /\ Told(t)
    BY DEF Roots!Init, RootsTyped, Journaled, Owned, Told, Outside, Inside, Storing, Waiting
  <1>2. CASE requirements = Roots!NoRoots /\ locked = Roots!NoLock /\ granted = {}
    BY <1>1, <1>2 DEF RootsInv, Whole, Sealed, Matched, Paired, Roots!NoRoots, Roots!Roots, Requests
  <1>3. ASSUME NEW c \in {a},
               LET specs == <<[card |-> c, range |-> Caret[1]]>> IN
               /\ Roots!Resolves(specs)
               /\ requirements = [specs |-> specs, active |-> c]
               /\ locked = [Roots!NewLock(specs, Roots!NoLock) EXCEPT !.cards[c].hooks = Caret[1]]
               /\ granted = {[card |-> c, surface |-> "hooks", range |-> Caret[1]]}
        PROVE  RootsInv
    <2> DEFINE r == [card |-> c, range |-> Caret[1]]  specs == <<r>>
               new == Roots!NewLock(specs, Roots!NoLock)
    <2>1. c \in Card /\ r \in Roots!Requirement /\ 1 \in Roots!Version /\ 1 \in Caret[1]
      BY RootsConstants DEF Roots!Requirement
    <2>2. specs \in Requests /\ r \in Roots!Closure(specs) /\ Roots!Names(specs) = {c}
      BY <2>1 DEF Requests, Roots!Closure, Roots!Names
    <2>3. Sealed(Roots!NoLock, {})
      BY DEF Sealed
    <2>4. Sealed(new, {}) /\ new # Roots!NoLock /\ new.roots = specs
      BY <1>3, <2>2, <2>3, NewLockIs
    <2>5. new.cards[c] = Roots!Carried(c, Roots!Resolved(r), None)
      <3> DEFINE s == CHOOSE q \in Roots!Closure(specs) : q.card = c
      <3>1. s \in Roots!Closure(specs) /\ s.card = r.card
        BY <2>2
      <3>2. Roots!Resolved(s) = Roots!Resolved(r)
        BY <1>3, <2>2, <3>1 DEF Roots!Resolves
      <3>3. new.cards[c] = Roots!Carried(c, Roots!Resolved(s), None)
        BY <2>1, <2>2 DEF Roots!NewLock, Roots!Entries, Roots!NoEntry
      <3>4. QED BY <3>2, <3>3
    <2>6. Roots!Resolved(r) = 1
      <3>1. Roots!Candidates(r) = {1}
        <4>1. published[c] = 1
          BY <2>1 DEF Roots!Init
        <4>2. \A v \in Caret[1] : v \in Nat /\ v >= 1
          BY <2>1, RootsConstants DEF Roots!Version
        <4>3. QED BY <2>1, <4>1, <4>2 DEF Roots!Candidates
      <3>2. Roots!Max({1}) = 1
        BY DEF Roots!Max
      <3>3. QED BY <3>1, <3>2 DEF Roots!Resolved
    <2>7. new.cards[c].version = 1 /\ new.cards[c].text = None
          /\ new.cards[c] = [version |-> new.cards[c].version, hooks |-> new.cards[c].hooks,
                             text |-> new.cards[c].text]
      BY <2>5, <2>6 DEF Roots!Carried
    <2>8. locked = [new EXCEPT !.cards[c].hooks = Caret[1]] /\ requirements.specs = specs
          /\ requirements = [specs |-> specs, active |-> c]
          /\ granted = {[card |-> c, surface |-> "hooks", range |-> Caret[1]]}
      BY <1>3
    <2> HIDE DEF new, specs
    <2>9. /\ locked = [roots |-> new.roots, cards |-> [new.cards EXCEPT ![c].hooks = Caret[1]]]
          /\ locked # Roots!NoLock
      BY <2>4, <2>8 DEF Sealed, Roots!NoLock
    <2>10. \A d \in Card : locked.cards[d] = IF d = c
                THEN [version |-> 1, hooks |-> Caret[1], text |-> None] ELSE new.cards[d]
      BY <2>1, <2>4, <2>7, <2>9 DEF Sealed
    <2>11. \A d \in Card : locked.cards[d] # None => Agreed(d, locked.cards[d], granted)
      <3>1. Agreed(c, [version |-> 1, hooks |-> Caret[1], text |-> None], granted)
        BY <2>1, <2>8 DEF Agreed
      <3>2. \A d \in Card : new.cards[d] # None => Agreed(d, new.cards[d], {})
        BY <2>4 DEF Sealed
      <3>3. \A d \in Card : new.cards[d] # None => Agreed(d, new.cards[d], granted)
        BY <3>2 DEF Agreed
      <3>4. QED BY <2>10, <3>1, <3>3
    <2>12. Sealed(locked, granted)
      BY <2>2, <2>4, <2>9, <2>11 DEF Sealed
    <2>13. QED BY <1>1, <2>2, <2>4, <2>8, <2>9, <2>12
           DEF RootsInv, Matched, Whole, Paired, Roots!Roots
  <1>4. QED BY <1>2, <1>3 DEF Roots!Init

-----------------------------------------------------------------------------
(* What a step of one command leaves of the others.                         *)
Alone(t) ==
  /\ at' \in [Task -> Inside \cup Outside] /\ DOMAIN call' = Task /\ DOMAIN read' = Task
  /\ \A u \in Task \ {t} : at'[u] = at[u] /\ call'[u] = call[u] /\ read'[u] = read[u]
  /\ granted \subseteq granted' /\ (holder' = holder \/ holder \in {None, t})
  /\ draft' = draft \/ holder = t

LEMMA OneMoves ==
  ASSUME RootsInv, NEW t \in Task, Roots!Step(t)
  PROVE  Alone(t)
  <1>1. /\ RootsTyped /\ (at[t] \in Inside => holder = t)
        /\ (at[t] # "idle" => call[t] \in Roots!Call)
    BY DEF RootsInv, Owned
  <1> USE <1>1 DEF Alone, RootsTyped, Roots!Goto, Roots!See, Roots!End, Roots!Release, Roots!files,
          Inside, Storing, Outside
  <1>2. CASE Roots!Start(t)
    BY <1>2 DEF Roots!Start, Roots!First
  <1>3. CASE Roots!Enter(t)
    BY <1>3 DEF Roots!Enter
  <1>4. CASE Roots!RecoverConfig(t)
    BY <1>4 DEF Roots!RecoverConfig
  <1>5. CASE Roots!RecoverLock(t)
    BY <1>5 DEF Roots!RecoverLock
  <1>6. CASE Roots!ReadConfig(t)
    BY <1>6 DEF Roots!ReadConfig
  <1>7. CASE Roots!Derive(t)
    BY <1>7 DEF Roots!Derive
  <1>8. CASE Roots!InstallConfig(t)
    BY <1>8 DEF Roots!InstallConfig
  <1>9. CASE Roots!InstallLock(t)
    BY <1>9 DEF Roots!InstallLock
  <1>10. CASE Roots!Verify(t)
    BY <1>10 DEF Roots!Verify
  <1>11. CASE Roots!VerifyRecovered(t)
    BY <1>11 DEF Roots!VerifyRecovered
  <1>12. CASE Roots!ReadInstalled(t)
    BY <1>12 DEF Roots!ReadInstalled
  <1>13. CASE Roots!Look(t)
    BY <1>13 DEF Roots!Look
  <1>14. CASE Roots!ReadSpecs(t)
    BY <1>14 DEF Roots!ReadSpecs
  <1>15. CASE Roots!ReadRest(t)
    BY <1>15 DEF Roots!ReadRest
  <1>16. CASE Roots!ReadLock(t)
    BY <1>16 DEF Roots!ReadLock
  <1>17. CASE Roots!WriteConfig(t)
    BY <1>17 DEF Roots!WriteConfig
  <1>18. CASE Roots!WriteLock(t)
    BY <1>18 DEF Roots!WriteLock
  <1>19. CASE Roots!RefuseLock(t)
    BY <1>19 DEF Roots!RefuseLock
  <1>20. CASE Roots!Stop(t)
    BY <1>20 DEF Roots!Stop
  <1>21. QED
    BY <1>2, <1>3, <1>4, <1>5, <1>6, <1>7, <1>8, <1>9, <1>10, <1>11, <1>12, <1>13, <1>14, <1>15,
       <1>16, <1>17, <1>18, <1>19, <1>20 DEF Roots!Step

LEMMA OthersStay ==
  ASSUME RootsInv, NEW t \in Task, Alone(t), NEW u \in Task \ {t}
  PROVE  Owned(u)' /\ Told(u)'
  <1>1. at'[u] = at[u] /\ call'[u] = call[u] /\ read'[u] = read[u] /\ Owned(u) /\ Told(u)
    BY DEF Alone, RootsInv
  <1>2. \A l : Sealed(l, granted) => Sealed(l, granted')
    BY SealedStays DEF Alone
  <1>3. Owned(u)'
    BY <1>1, RootsConstants DEF Alone, Owned, Inside
  <1>4. Told(u)'
    <2>1. Fetched(u) => Fetched(u)'
      BY <1>1, <1>2 DEF Fetched, Whole, Paired
    <2>2. Roots!Transacts(u)' <=> Roots!Transacts(u)
      BY <1>1 DEF Roots!Transacts
    <2>3. \A c : Whole(c)' <=> Whole(c)
      BY DEF Whole
    <2>4. QED BY <1>1, <1>2, <2>1, <2>2 DEF Told, Whole
  <1>5. QED BY <1>3, <1>4

LEMMA RootsMove ==
  ASSUME RootsInv, NEW t \in Task, Alone(t), Whole(requirements'), Sealed(locked', granted'),
         Journaled', Matched', Owned(t)', Told(t)'
  PROVE  RootsInv'
  BY OthersStay DEF RootsInv, RootsTyped, Alone, Whole

(* A step that writes no file.                                              *)
LEMMA FilesStay ==
  ASSUME RootsInv, NEW t \in Task, Alone(t), UNCHANGED <<Roots!files, granted, clobbered>>,
         Owned(t)', Told(t)'
  PROVE  RootsInv'
  <1>1. /\ draft' = draft /\ requirements' = requirements /\ locked' = locked
        /\ granted' = granted /\ clobbered' = clobbered
    BY DEF Roots!files
  <1>2. Journaled'
    BY <1>1 DEF RootsInv, Journaled
  <1>3. Matched'
    BY <1>1 DEF RootsInv, Matched
  <1>4. Whole(requirements') /\ Sealed(locked', granted')
    BY <1>1 DEF RootsInv
  <1>5. QED BY <1>2, <1>3, <1>4, RootsMove

LEMMA ReadingSteps ==
  ASSUME RootsInv, NEW t \in Task,
         \/ Roots!Start(t) \/ Roots!Enter(t) \/ Roots!ReadConfig(t) \/ Roots!ReadInstalled(t)
         \/ Roots!Look(t) \/ Roots!ReadSpecs(t) \/ Roots!ReadRest(t) \/ Roots!ReadLock(t)
         \/ Roots!RefuseLock(t) \/ Roots!Stop(t)
  PROVE  RootsInv'
  <1>1. Roots!Step(t)
    BY DEF Roots!Step
  <1>2. Alone(t)
    BY <1>1, OneMoves
  <1>3. UNCHANGED <<Roots!files, granted, clobbered>>
    BY DEF Roots!Start, Roots!Enter, Roots!ReadConfig, Roots!ReadInstalled, Roots!Look, Roots!ReadSpecs,
           Roots!ReadRest, Roots!ReadLock, Roots!RefuseLock, Roots!Stop
  <1>4. /\ Owned(t) /\ Told(t) /\ Whole(requirements) /\ Sealed(locked, granted)
        /\ at \in [Task -> Inside \cup Outside] /\ t \in DOMAIN call /\ t \in DOMAIN read
    BY DEF RootsInv, RootsTyped
  <1>5. /\ draft' = draft /\ requirements' = requirements /\ locked' = locked /\ granted' = granted
    BY <1>3 DEF Roots!files
  <1>6. SUFFICES Owned(t)' /\ Told(t)'
    BY <1>2, <1>3, FilesStay
  <1> USE DEF Owned, Told, Inside, Storing, Waiting, Roots!Goto, Roots!See, Roots!End, Roots!Release,
              Roots!Transacts
  <1>7. CASE Roots!Start(t)
    <2>1. PICK c \in Calls : call' = [call EXCEPT ![t] = c] /\ at' = [at EXCEPT ![t] = Roots!First(c.kind)]
      BY <1>7 DEF Roots!Start
    <2>2. call'[t] = c /\ at'[t] = Roots!First(c.kind) /\ read'[t] = None /\ c \in Roots!Call
      BY <1>4, <1>7, <2>1, RootsConstants DEF Roots!Start
    <2>3. QED BY <2>2 DEF Roots!First
  <1>8. CASE Roots!Enter(t)
    <2>1. call' = call /\ read' = read /\ at[t] = "enter"
          /\ \/ at'[t] = "idle"
             \/ holder' = t /\ at'[t] \in {"inside", "recover"}
                /\ (at'[t] = "recover" => draft # Roots!NoTransaction)
      BY <1>4, <1>8 DEF Roots!Enter
    <2>2. Owned(t)'
      BY <1>4, <1>5, <2>1
    <2>3. QED BY <1>4, <1>5, <2>1, <2>2 DEF Fetched, Whole, Paired
  <1>9. CASE Roots!ReadConfig(t)
    <2>1. call' = call /\ holder' = holder /\ at[t] = "inside" /\ at'[t] = "derive"
          /\ Roots!Transacts(t) /\ ~ Roots!Hydrates(t)
          /\ read'[t] = IF call[t].kind = "install"
                        THEN [config |-> read[t].config, lock |-> read[t].lock, again |-> requirements]
                        ELSE [config |-> requirements]
      BY <1>4, <1>9 DEF Roots!ReadConfig
    <2>2. CASE call[t].kind = "install"
      <3>1. Fetched(t)
        BY <1>4, <2>1, <2>2 DEF Roots!Hydrates
      <3>2. read'[t].config = read[t].config /\ read'[t].lock = read[t].lock
            /\ read'[t].again = requirements
        BY <2>1, <2>2
      <3>3. Fetched(t)' /\ Whole(read[t].again)'
        BY <1>4, <1>5, <3>1, <3>2 DEF Fetched, Whole, Paired
      <3>4. QED BY <1>4, <2>1, <2>2, <3>3
    <2>3. CASE call[t].kind # "install"
      <3>1. read'[t].config = requirements
        BY <2>1, <2>3
      <3>2. QED BY <1>4, <2>1, <2>3, <3>1 DEF Whole
    <2>4. QED BY <2>2, <2>3
  <1>10. CASE Roots!ReadInstalled(t)
    <2>1. call' = call /\ at[t] = "inside" /\ Roots!Hydrates(t)
          /\ read'[t] = [config |-> requirements, lock |-> locked]
          /\ \/ at'[t] = "idle"
             \/ at'[t] = "enter" /\ Roots!Selectable([config |-> requirements, lock |-> locked])
      BY <1>4, <1>10 DEF Roots!ReadInstalled
    <2>2. call[t].kind = "install" /\ call[t] \in Roots!Call
      BY <1>4, <2>1 DEF Roots!Hydrates
    <2>3. CASE at'[t] = "idle"
      BY <2>3
    <2>4. CASE at'[t] = "enter" /\ Roots!Selectable([config |-> requirements, lock |-> locked])
      <3>1. locked # Roots!NoLock /\ Paired(requirements, locked)
        BY <2>4 DEF Roots!Selectable, Roots!Parses, Paired
      <3>2. read'[t].config = requirements /\ read'[t].lock = locked
        BY <2>1
      <3>3. Fetched(t)'
        BY <1>4, <1>5, <3>1, <3>2 DEF Fetched, Whole, Paired
      <3>4. QED BY <2>1, <2>2, <2>4, <3>3
    <2>5. QED BY <2>1, <2>3, <2>4
  <1>11. CASE Roots!Look(t)
    <2>1. call' = call /\ read' = read /\ at[t] = "look" /\ at'[t] \in {"idle", "specs"}
      BY <1>4, <1>11 DEF Roots!Look
    <2>2. QED BY <1>4, <2>1
  <1>12. CASE Roots!ReadSpecs(t)
    <2>1. call' = call /\ read'[t] = [specs |-> requirements.specs] /\ at[t] = "specs" /\ at'[t] = "rest"
      BY <1>4, <1>12 DEF Roots!ReadSpecs
    <2>2. read'[t].specs = requirements.specs
      BY <2>1
    <2>3. QED BY <1>4, <2>1, <2>2 DEF Whole
  <1>13. CASE Roots!ReadRest(t)
    <2>1. call' = call /\ read'[t] = [specs |-> read[t].specs, config |-> requirements]
          /\ at[t] = "rest" /\ at'[t] = "read"
      BY <1>4, <1>13 DEF Roots!ReadRest
    <2>2. read'[t].specs = read[t].specs /\ read'[t].config = requirements
      BY <2>1
    <2>3. QED BY <1>4, <2>1, <2>2 DEF Whole
  <1>14. CASE Roots!ReadLock(t)
    <2>1. CASE call[t].kind = "up"
      <3>1. call' = call /\ at[t] = "read" /\ at'[t] = "enter"
            /\ read'[t] = [specs |-> read[t].specs, config |-> read[t].config, lock |-> locked]
        BY <1>4, <1>14, <2>1 DEF Roots!ReadLock
      <3>2. /\ read'[t].specs = read[t].specs /\ read'[t].config = read[t].config
            /\ read'[t].lock = locked
        BY <3>1
      <3>3. Sealed(read[t].lock, granted)'
        BY <1>4, <1>5, <3>2
      <3>4. QED BY <1>4, <2>1, <3>1, <3>2, <3>3 DEF Whole
    <2>2. CASE call[t].kind # "up"
      <3>1. call' = call /\ at[t] = "read" /\ at'[t] = "write" /\ read'[t] = [lock |-> locked]
        BY <1>4, <1>14, <2>2 DEF Roots!ReadLock
      <3>2. read'[t].lock = locked
        BY <3>1
      <3>3. Sealed(read[t].lock, granted)'
        BY <1>4, <1>5, <3>2
      <3>4. QED BY <1>4, <2>2, <3>1, <3>3
    <2>3. QED BY <2>1, <2>2
  <1>15. CASE Roots!RefuseLock(t) \/ Roots!Stop(t)
    <2>1. at'[t] = "idle"
      BY <1>4, <1>15 DEF Roots!RefuseLock, Roots!Stop
    <2>2. QED BY <2>1
  <1>16. QED
    BY <1>7, <1>8, <1>9, <1>10, <1>11, <1>12, <1>13, <1>14, <1>15

(* What WriteLock writes.                                                   *)
LEMMA WrittenIs ==
  ASSUME RootsInv, NEW t \in Task, at[t] = "write", Roots!Writable(t),
         granted' = granted \cup Roots!Given(t)
  PROVE  LET new == Roots!Written(t) IN
         /\ Sealed(new, granted')
         /\ Roots!Roots(new) = IF call[t].kind = "up" THEN read[t].specs
                               ELSE Roots!Roots(read[t].lock)
         /\ \A consent \in Roots!Consents(new) \ Roots!Consents(read[t].lock) :
              /\ call[t].kind = "trust" /\ call[t].card = consent.card
              /\ consent.surface \in call[t].surfaces
  <1> DEFINE c == call[t]  l == read[t].lock  new == Roots!Written(t)  e == Roots!Entry(t)
  <1>1. c \in Roots!Call /\ c.kind \in {"up", "trust", "untrust"} /\ Sealed(l, granted)
        /\ (c.kind = "up" => read[t].specs \in Requests)
    BY DEF RootsInv, Owned, Told, Roots!Transacts
  <1>2. CASE c.kind = "up"
    <2>1. new = Roots!NewLock(read[t].specs, l) /\ Roots!Resolves(read[t].specs)
      BY <1>2 DEF Roots!Written, Roots!Writable
    <2> HIDE DEF new, l, c
    <2>2. Sealed(new, granted) /\ new # Roots!NoLock /\ new.roots = read[t].specs
          /\ Roots!Consents(new) \subseteq Roots!Consents(l)
      BY <1>1, <1>2, <2>1, NewLockIs
    <2>3. Sealed(new, granted')
      BY <2>2, SealedStays
    <2>4. QED BY <1>2, <2>2, <2>3 DEF Roots!Roots, new, l, c
  <1>3. CASE c.kind \in {"trust", "untrust"}
    <2>1. e = Roots!Entries(l)[c.card] /\ e # None /\ c.card \in Card
          /\ (c.kind = "trust" => Roots!Grantable(c, e))
      BY <1>1, <1>3, CallIs DEF Roots!Writable, Roots!Entry
    <2>2. l # Roots!NoLock
      BY <2>1 DEF Roots!Entries, Roots!NoEntry
    <2>3. /\ l = [roots |-> l.roots, cards |-> l.cards] /\ l.roots \in Requests
          /\ l.cards = [d \in Card |-> l.cards[d]] /\ e = l.cards[c.card]
          /\ \A d \in Card : l.cards[d] # None => Agreed(d, l.cards[d], granted)
      BY <1>1, <2>1, <2>2 DEF Sealed, Roots!Entries
    <2> DEFINE n == IF c.kind = "trust" THEN Roots!Granted(c, e) ELSE Roots!Withdrawn(c, e)
    <2>4. new = [l EXCEPT !.cards[c.card] = n]
      BY <1>3, <2>3 DEF Roots!Written
    <2>5. /\ new = [roots |-> l.roots, cards |-> new.cards] /\ new # Roots!NoLock
          /\ new.cards = [d \in Card |-> new.cards[d]]
          /\ \A d \in Card : new.cards[d] = IF d = c.card THEN n ELSE l.cards[d]
      <3>1. new = [roots |-> l.roots, cards |-> [l.cards EXCEPT ![c.card] = n]]
        BY <2>3, <2>4
      <3> HIDE DEF n, new
      <3>2. new.cards = [l.cards EXCEPT ![c.card] = n] /\ DOMAIN l.cards = Card
        BY <2>3, <3>1
      <3>3. \A d \in Card : new.cards[d] = IF d = c.card THEN n ELSE l.cards[d]
        BY <2>1, <3>2
      <3>4. new.cards = [d \in Card |-> new.cards[d]]
        BY <2>3, <3>2
      <3>5. QED BY <3>1, <3>3, <3>4 DEF Roots!NoLock
    <2>6. Agreed(c.card, e, granted)
      BY <2>1, <2>3
    <2>7. /\ n = [version |-> n.version, hooks |-> n.hooks, text |-> n.text] /\ n.version = e.version
          /\ "hooks" \notin c.surfaces => n.hooks = e.hooks
          /\ "text" \notin c.surfaces => n.text = e.text
          /\ c.kind = "untrust" /\ "hooks" \in c.surfaces => n.hooks = None
          /\ c.kind = "untrust" /\ "text" \in c.surfaces => n.text = None
      BY <2>6 DEF Agreed, Roots!Granted, Roots!Withdrawn
    <2> DEFINE range == IF c.range = None THEN Caret[e.version] ELSE c.range
    <2>8. c.kind = "trust" =>
            /\ e.version \in range
            /\ "hooks" \in c.surfaces => n.hooks = range
            /\ "text" \in c.surfaces =>
                 n.text.range = range /\ n.text.digest = Text[c.card][e.version]
            /\ \A s \in c.surfaces : [card |-> c.card, surface |-> s, range |-> range] \in granted'
      <3>1. ASSUME c.kind = "trust"
            PROVE  /\ e.version \in range
                   /\ \A s \in c.surfaces : [card |-> c.card, surface |-> s, range |-> range] \in granted'
        <4>1. e.version \in range
          BY <2>1, <2>6, <3>1, RootsConstants DEF Roots!Grantable, Agreed
        <4>2. Roots!Given(t) = [card : {c.card}, surface : c.surfaces, range : {range}]
          BY <3>1 DEF Roots!Given
        <4>3. QED BY <4>1, <4>2
      <3>2. ASSUME c.kind = "trust"
            PROVE  /\ "hooks" \in c.surfaces => n.hooks = range
                   /\ "text" \in c.surfaces =>
                        n.text.range = range /\ n.text.digest = Text[c.card][e.version]
        BY <2>6, <3>2 DEF Agreed, Roots!Granted
      <3>3. QED BY <3>1, <3>2
    <2> HIDE DEF n, range, new
    <2>9. Agreed(c.card, n, granted')
      <3>1. CASE c.kind = "trust"
        BY <2>6, <2>7, <2>8, <3>1 DEF Agreed
      <3>2. CASE c.kind = "untrust"
        BY <2>6, <2>7, <3>2 DEF Agreed
      <3>3. QED BY <1>3, <3>1, <3>2
    <2>10. Sealed(new, granted')
      <3>1. ASSUME NEW d \in Card, l.cards[d] # None PROVE Agreed(d, l.cards[d], granted')
        BY <2>3, <3>1 DEF Agreed
      <3>2. \A d \in Card : new.cards[d] # None => Agreed(d, new.cards[d], granted')
        BY <2>5, <2>9, <3>1
      <3>3. QED BY <2>3, <2>5, <3>2 DEF Sealed
    <2>11. Roots!Roots(new) = Roots!Roots(l)
      BY <2>2, <2>3, <2>5 DEF Roots!Roots
    <2>12. ASSUME NEW consent \in Roots!Consents(new) \ Roots!Consents(l)
           PROVE  /\ c.kind = "trust" /\ c.card = consent.card
                  /\ consent.surface \in c.surfaces
      <3>1. /\ Roots!Entries(new) = new.cards /\ Roots!Entries(l) = l.cards
        BY <2>2, <2>5 DEF Roots!Entries
      <3>2. PICK d \in Card :
              /\ new.cards[d] # None
              /\ \/ /\ consent = [card |-> d, surface |-> "hooks"] /\ new.cards[d].hooks # None
                    /\ ~ (l.cards[d] # None /\ l.cards[d].hooks # None)
                 \/ /\ consent = [card |-> d, surface |-> "text"] /\ new.cards[d].text # None
                    /\ ~ (l.cards[d] # None /\ l.cards[d].text # None)
        BY <2>12, <3>1 DEF Roots!Consents
      <3>3. d = c.card /\ new.cards[d] = n /\ l.cards[d] = e
        BY <2>3, <2>5, <3>2
      <3>4. QED BY <1>3, <2>1, <2>7, <3>2, <3>3
    <2>13. QED BY <1>3, <2>10, <2>11, <2>12 DEF new
  <1>4. QED BY <1>1, <1>2, <1>3

LEMMA WritingSteps ==
  ASSUME RootsInv, NEW t \in Task,
         \/ Roots!RecoverConfig(t) \/ Roots!RecoverLock(t) \/ Roots!Derive(t) \/ Roots!InstallConfig(t)
         \/ Roots!InstallLock(t) \/ Roots!Verify(t) \/ Roots!VerifyRecovered(t) \/ Roots!WriteConfig(t)
         \/ Roots!WriteLock(t)
  PROVE  RootsInv'
  <1>1. Roots!Step(t)
    BY DEF Roots!Step
  <1>2. Alone(t)
    BY <1>1, OneMoves
  <1>3. /\ Owned(t) /\ Told(t) /\ Whole(requirements) /\ Sealed(locked, granted) /\ Journaled /\ Matched
        /\ at \in [Task -> Inside \cup Outside] /\ t \in DOMAIN call /\ t \in DOMAIN read
    BY DEF RootsInv, RootsTyped
  <1>4. call' = call /\ read' = read
    BY DEF Roots!RecoverConfig, Roots!RecoverLock, Roots!Derive, Roots!InstallConfig,
           Roots!InstallLock, Roots!Verify, Roots!VerifyRecovered, Roots!WriteConfig, Roots!WriteLock
  <1>5. SUFFICES /\ Whole(requirements') /\ Sealed(locked', granted') /\ Journaled' /\ Matched'
                 /\ Owned(t)' /\ Told(t)'
    BY <1>2, RootsMove
  <1> USE DEF Roots!Goto, Roots!End, Roots!Release
  <1>6. ASSUME granted' = granted,
               \/ at'[t] = "idle"
               \/ at[t] \in Waiting /\ at'[t] \in Waiting
               \/ at'[t] \in {"config", "lock", "verify"}
        PROVE  Told(t)'
    BY <1>3, <1>4, <1>6 DEF Told, Waiting, Storing, Fetched, Roots!Transacts, Whole, Paired
  <1>7. CASE Roots!RecoverConfig(t)
    <2>1. /\ at[t] = "recover" /\ at'[t] = "recover lock" /\ holder' = holder /\ draft' = draft
          /\ granted' = granted /\ requirements' = draft.config /\ locked' = locked
      BY <1>3, <1>7 DEF Roots!RecoverConfig
    <2>2. Told(t)'
      BY <1>6, <2>1 DEF Waiting
    <2>3. Owned(t)' /\ draft # Roots!NoTransaction
      BY <1>3, <1>4, <2>1 DEF Owned, Inside, Storing
    <2>4. Journaled' /\ Matched'
      BY <1>3, <2>1, <2>3 DEF Journaled, Matched
    <2>5. QED BY <1>3, <2>1, <2>2, <2>3, <2>4 DEF Journaled
  <1>8. CASE Roots!RecoverLock(t)
    <2>1. /\ at[t] = "recover lock" /\ at'[t] = "recovered" /\ holder' = holder /\ draft' = draft
          /\ granted' = granted /\ requirements' = requirements /\ locked' = draft.lock
      BY <1>3, <1>8 DEF Roots!RecoverLock
    <2>2. Told(t)'
      BY <1>6, <2>1 DEF Waiting
    <2>3. Owned(t)' /\ draft # Roots!NoTransaction
      BY <1>3, <1>4, <2>1 DEF Owned, Inside, Storing
    <2>4. Journaled' /\ Matched'
      BY <1>3, <2>1, <2>3 DEF Journaled, Matched
    <2>5. QED BY <1>3, <2>1, <2>2, <2>3, <2>4 DEF Journaled, Whole
  <1>9. CASE Roots!Derive(t)
    <2>1. /\ at[t] = "derive" /\ granted' = granted /\ requirements' = requirements /\ locked' = locked
          /\ clobbered' = clobbered
      BY <1>9 DEF Roots!Derive
    <2>2. CASE Roots!Goes(t, Roots!Snapshot(t))
      <3> DEFINE pair == Roots!Pair(call[t], IF call[t].kind = "install"
                                   THEN [config |-> read[t].config, lock |-> read[t].lock]
                                   ELSE Roots!Snapshot(t))
      <3>1. /\ draft' = [config |-> pair.config, lock |-> pair.lock, was |-> Roots!Snapshot(t)]
            /\ at'[t] = "config" /\ holder' = holder
        BY <1>3, <1>9, <2>2 DEF Roots!Derive
      <3>2. /\ Whole(pair.config) /\ Sealed(pair.lock, granted) /\ Paired(pair.config, pair.lock)
            /\ Roots!Consents(pair.lock) \subseteq Roots!Consents(locked)
        BY <2>1, <2>2, DerivedIs
      <3>3. Roots!Snapshot(t).lock = locked
        BY DEF Roots!Snapshot
      <3> HIDE DEF pair
      <3>4. /\ draft' # Roots!NoTransaction /\ draft'.config = pair.config /\ draft'.lock = pair.lock
            /\ draft'.was.lock = locked
        BY <3>1, <3>3 DEF Roots!NoTransaction
      <3>5. Journaled' /\ Matched'
        BY <2>1, <3>2, <3>4 DEF Journaled, Matched
      <3>6. Owned(t)' /\ Told(t)'
        BY <1>3, <1>4, <1>6, <2>1, <3>1, <3>4 DEF Owned, Inside, Storing
      <3>7. QED BY <1>3, <2>1, <3>5, <3>6 DEF Whole
    <2>3. CASE ~ Roots!Goes(t, Roots!Snapshot(t))
      <3>1. draft' = draft /\ at'[t] = "idle"
        BY <1>3, <1>9, <2>3 DEF Roots!Derive
      <3>2. Owned(t)' /\ Told(t)'
        BY <1>6, <2>1, <3>1 DEF Owned, Inside, Storing
      <3>3. Journaled' /\ Matched'
        BY <1>3, <2>1, <3>1 DEF Journaled, Matched
      <3>4. QED BY <1>3, <2>1, <3>2, <3>3 DEF Whole
    <2>4. QED BY <2>2, <2>3
  <1>10. CASE Roots!InstallConfig(t)
    <2>1. /\ at[t] = "config" /\ at'[t] = "lock" /\ holder' = holder /\ draft' = draft
          /\ granted' = granted /\ requirements' = draft.config /\ locked' = locked
      BY <1>3, <1>10 DEF Roots!InstallConfig
    <2>2. Owned(t)' /\ Told(t)' /\ draft # Roots!NoTransaction
      BY <1>3, <1>4, <1>6, <2>1 DEF Owned, Inside, Storing
    <2>3. Journaled' /\ Matched'
      BY <1>3, <2>1, <2>2 DEF Journaled, Matched
    <2>4. QED BY <1>3, <2>1, <2>2, <2>3 DEF Journaled
  <1>11. CASE Roots!InstallLock(t)
    <2>1. /\ at[t] = "lock" /\ at'[t] = "verify" /\ holder' = holder /\ draft' = draft
          /\ granted' = granted /\ requirements' = requirements /\ locked' = draft.lock
      BY <1>3, <1>11 DEF Roots!InstallLock
    <2>2. Owned(t)' /\ Told(t)' /\ draft # Roots!NoTransaction
      BY <1>3, <1>4, <1>6, <2>1 DEF Owned, Inside, Storing
    <2>3. Journaled' /\ Matched'
      BY <1>3, <2>1, <2>2 DEF Journaled, Matched
    <2>4. QED BY <1>3, <2>1, <2>2, <2>3 DEF Journaled, Whole
  <1>12. CASE Roots!Verify(t) \/ Roots!VerifyRecovered(t)
    <2>1. /\ at[t] \in {"verify", "recovered"} /\ granted' = granted /\ requirements' = requirements
          /\ locked' = locked /\ clobbered' = clobbered
          /\ draft' = IF Roots!Installed THEN Roots!NoTransaction ELSE draft
          /\ \/ at'[t] = "idle"
             \/ at[t] = "recovered" /\ at'[t] = "inside" /\ holder' = holder
      BY <1>3, <1>12 DEF Roots!Verify, Roots!VerifyRecovered
    <2>2. draft # Roots!NoTransaction
      BY <1>3, <2>1 DEF Owned, Inside, Storing
    <2>3. Told(t)'
      BY <1>6, <2>1 DEF Waiting
    <2>4. Owned(t)'
      BY <1>3, <1>4, <2>1 DEF Owned, Inside, Storing
    <2>5. Journaled' /\ Matched'
      <3>1. CASE Roots!Installed
        BY <1>3, <2>1, <2>2, <3>1 DEF Journaled, Matched, Roots!Installed
      <3>2. CASE ~ Roots!Installed
        BY <1>3, <2>1, <2>2, <3>2 DEF Journaled, Matched
      <3>3. QED BY <3>1, <3>2
    <2>6. QED BY <1>3, <2>1, <2>3, <2>4, <2>5 DEF Whole
  <1>13. CASE Roots!WriteConfig(t)
    <2> DEFINE s == read[t]
    <2>1. /\ at[t] = "inside" /\ at'[t] = "write" /\ call[t].kind = "up" /\ draft' = draft
          /\ granted' = granted /\ locked' = locked /\ requirements' = [s.config EXCEPT !.specs = s.specs]
          /\ clobbered' = (clobbered \/ requirements # s.config \/ requirements.specs # s.specs)
      BY <1>3, <1>13 DEF Roots!WriteConfig
    <2>2. Whole(s.config) /\ s.specs \in Requests /\ Sealed(s.lock, granted)
      BY <1>3, <2>1 DEF Told, Waiting
    <2>3. Whole(requirements')
      BY <2>1, <2>2 DEF Whole
    <2>4. ~ clobbered' => requirements' = requirements /\ ~ clobbered
      BY <2>1, <2>2 DEF Whole
    <2>5. Owned(t)'
      BY <1>3, <1>4, <2>1 DEF Owned, Inside, Storing
    <2>6. Told(t)'
      BY <1>4, <2>1, <2>2 DEF Told, Waiting, Roots!Transacts
    <2>7. Journaled' /\ Matched'
      BY <1>3, <2>1, <2>4 DEF Journaled, Matched
    <2>8. QED BY <1>3, <2>1, <2>3, <2>5, <2>6, <2>7
  <1>14. CASE Roots!WriteLock(t)
    <2> DEFINE s == read[t]
    <2>1. /\ at[t] = "write" /\ at'[t] = "idle" /\ draft' = draft /\ requirements' = requirements
          /\ locked' = Roots!Written(t) /\ granted' = granted \cup Roots!Given(t)
          /\ clobbered' = \/ clobbered \/ locked # s.lock
                          \/ call[t].kind = "up" /\ requirements.specs # s.specs
          /\ Roots!Writable(t)
      BY <1>3, <1>14 DEF Roots!WriteLock
    <2>2. Sealed(locked', granted')
          /\ Roots!Roots(locked') = IF call[t].kind = "up" THEN s.specs ELSE Roots!Roots(s.lock)
      BY <2>1, WrittenIs
    <2>3. Owned(t)' /\ Told(t)'
      BY <2>1 DEF Owned, Told, Inside, Storing, Waiting
    <2>4. Journaled'
      BY <1>3, <2>1, SealedStays DEF Journaled
    <2>5. Matched'
      BY <1>3, <2>1, <2>2 DEF Matched, Paired
    <2>6. QED BY <1>3, <2>1, <2>2, <2>3, <2>4, <2>5 DEF Whole
  <1>15. QED
    BY <1>7, <1>8, <1>9, <1>10, <1>11, <1>12, <1>13, <1>14

LEMMA RootsStep == RootsInv /\ [Roots!Next]_Roots!vars => RootsInv'
  <1> SUFFICES ASSUME RootsInv, [Roots!Next]_Roots!vars PROVE RootsInv'
    OBVIOUS
  <1>1. CASE UNCHANGED Roots!vars \/ \E c \in Card : Roots!Publish(c)
    <2>1. /\ requirements' = requirements /\ locked' = locked /\ draft' = draft /\ holder' = holder
          /\ at' = at /\ call' = call /\ read' = read /\ granted' = granted /\ clobbered' = clobbered
      BY <1>1 DEF Roots!vars, Roots!Publish, Roots!files
    <2>2. RootsTyped' /\ Whole(requirements') /\ Sealed(locked', granted')
      BY <2>1 DEF RootsInv, RootsTyped, Whole
    <2>3. Journaled' /\ Matched'
      BY <2>1 DEF RootsInv, Journaled, Matched
    <2>4. ASSUME NEW t \in Task PROVE Owned(t)' /\ Told(t)'
      BY <2>1 DEF RootsInv, Owned, Told, Fetched, Roots!Transacts, Whole, Paired
    <2>5. QED BY <2>2, <2>3, <2>4 DEF RootsInv
  <1>2. CASE \E t \in Task : Roots!Step(t)
    <2>1. PICK t \in Task : Roots!Step(t)
      BY <1>2
    <2>2. QED BY <2>1, ReadingSteps, WritingSteps DEF Roots!Step
  <1>3. QED BY <1>1, <1>2 DEF Roots!Next

LEMMA GivenAndLocked == RootsInv => Roots!ConsentIsGiven /\ Roots!RootsAreLocked
  <1> SUFFICES ASSUME RootsInv PROVE Roots!ConsentIsGiven /\ Roots!RootsAreLocked
    OBVIOUS
  <1>1. Roots!ConsentIsGiven
    BY DEF RootsInv, Sealed, Agreed, Roots!ConsentIsGiven, Roots!Entries, Roots!NoEntry
  <1>2. Roots!RootsAreLocked
    BY DEF RootsInv, Matched, Paired, Roots!RootsAreLocked, Roots!Parses
  <1>3. QED BY <1>1, <1>2

(* A consent comes back only by drwn card trust.                            *)
Restores ==
  \A consent \in Roots!Consents(locked') \ Roots!Consents(locked) :
    \/ clobbered'
    \/ \E t \in Task : /\ at[t] = "write" /\ at'[t] = "idle" /\ call[t].kind = "trust"
                       /\ call[t].card = consent.card /\ consent.surface \in call[t].surfaces

LEMMA OnlyTrustRestores == RootsInv /\ [Roots!Next]_Roots!vars => Restores
  <1> SUFFICES ASSUME RootsInv, [Roots!Next]_Roots!vars,
                      NEW consent \in Roots!Consents(locked') \ Roots!Consents(locked), ~ clobbered'
               PROVE  \E t \in Task :
                        /\ at[t] = "write" /\ at'[t] = "idle" /\ call[t].kind = "trust"
                        /\ call[t].card = consent.card /\ consent.surface \in call[t].surfaces
    BY DEF Restores
  <1>1. locked' # locked
    OBVIOUS
  <1>2. PICK t \in Task : Roots!RecoverLock(t) \/ Roots!InstallLock(t) \/ Roots!WriteLock(t)
    BY <1>1
    DEF Roots!vars, Roots!Next, Roots!Step, Roots!files, Roots!Publish, Roots!Start, Roots!Enter,
        Roots!RecoverConfig, Roots!ReadConfig, Roots!Derive, Roots!InstallConfig, Roots!Verify,
        Roots!VerifyRecovered, Roots!ReadInstalled, Roots!Look, Roots!ReadSpecs, Roots!ReadRest,
        Roots!ReadLock, Roots!WriteConfig, Roots!RefuseLock, Roots!Stop
  <1>3. Owned(t) /\ Journaled /\ at \in [Task -> Inside \cup Outside]
    BY DEF RootsInv, RootsTyped
  <1>4. CASE Roots!RecoverLock(t) \/ Roots!InstallLock(t)
    <2>1. at[t] \in {"recover lock", "lock"} /\ locked' = draft.lock
          /\ locked \in {draft.lock, draft.was.lock}
      BY <1>4 DEF Roots!RecoverLock, Roots!InstallLock
    <2>2. Roots!Consents(draft.lock) \subseteq Roots!Consents(draft.was.lock)
      BY <1>3, <2>1 DEF Owned, Journaled, Storing
    <2>3. QED BY <1>1, <2>1, <2>2
  <1>5. CASE Roots!WriteLock(t)
    <2>1. /\ at[t] = "write" /\ at'[t] = "idle" /\ locked' = Roots!Written(t) /\ Roots!Writable(t)
          /\ locked = read[t].lock /\ granted' = granted \cup Roots!Given(t)
      BY <1>3, <1>5 DEF Roots!WriteLock, Roots!End, Roots!Goto
    <2>2. call[t].kind = "trust" /\ call[t].card = consent.card /\ consent.surface \in call[t].surfaces
      BY <2>1, WrittenIs
    <2>3. QED BY <2>1, <2>2
  <1>6. QED BY <1>2, <1>4, <1>5

LEMMA RootsAreAPart == ProjectSpec => Roots!Init /\ [][Roots!Next]_Roots!vars
  <1>1. ProjectInit => Roots!Init
    BY DEF ProjectInit
  <1>2. [ProjectNext]_all => [Roots!Next]_Roots!vars
    BY DEF ProjectNext, all, roots, Roots!vars
  <1>3. QED BY <1>1, <1>2, PTL DEF ProjectSpec

(* Requirements, lock and consent agree (worker-project.ts,                 *)
(* card-project.ts, install.ts): whatever overlaps, a consent in the lock   *)
(* is one that a user gave to that card and covers the version that is      *)
(* locked; unless a command has written over what it had not read, the lock *)
(* is that of the requirements and nothing but drwn card trust brings back  *)
(* a consent.                                                               *)
THEOREM RootsStayConsistent == ProjectSpec => RootsAreConsistent
  <1>1. RootsInv /\ [Roots!Next]_Roots!vars => [Restores]_Roots!vars
    BY OnlyTrustRestores
  <1>2. Roots!Init /\ [][Roots!Next]_Roots!vars => [](Roots!ConsentIsGiven /\ Roots!RootsAreLocked)
    BY RootsStart, RootsStep, GivenAndLocked, PTL
  <1>3. Roots!Init /\ [][Roots!Next]_Roots!vars => [][Restores]_Roots!vars
    BY <1>1, RootsStart, RootsStep, PTL
  <1>4. Roots!ConsentStaysWithdrawn <=> [][Restores]_Roots!vars
    BY DEF Roots!ConsentStaysWithdrawn, Restores
  <1>5. QED
    BY <1>2, <1>3, <1>4, RootsAreAPart DEF RootsAreConsistent, Roots!RootsAreConsistent

-----------------------------------------------------------------------------
(* CardSource.  Until two commands overlap whoever is at work is alone, so  *)
(* that what he has read is so still.                                       *)
Kept(c) == c \in Source!CardJson /\ ~ c.torn /\ Source!Valid(c)
Order ==
  [op : Source!Ops, e : Source!Entry, rev : 0..MaxRev, flag : BOOLEAN,
   card : Source!CardJson \cup {Source!NoCall}]

Knowing == {"decide", "write", "fetch", "clear", "start", "copy", "put", "record", "bump", "bumped",
            "check", "tree"}
SourcePlaces == Knowing \cup {"idle", "read", "syncCheck", "doctor", "manifest", "tag"}

(* What a command carries, at each of its steps.                            *)
Carries(t) == LET m == memo[t]  p == stage[t] IN
  /\ p \notin {"idle", "tag"} =>
       /\ m \in Order
       /\ m.op \notin {"add", "remove"} => m.e = "skill"
       /\ m.op # "sync" => m.rev \in Source!Rev
       /\ m.op = "remove" /\ m.flag => "keep" \in causes
  /\ p \in Knowing => Kept(m.card)
  /\ p = "read" => m.op \in {"add", "remove", "set", "sync"}
  /\ p = "decide" => m.op \in {"add", "remove"}
  /\ p = "put" => m.op = "add"
  /\ p = "clear" =>
       /\ m.op \in {"add", "remove", "sync"} /\ (m.op # "remove" => m.e = "skill")
       /\ m.op = "remove" => ~ m.flag
  /\ p \in {"start", "copy"} => m.op \in {"add", "sync"} /\ m.e = "skill"
  /\ p \in {"clear", "start", "copy"} /\ m.op = "sync" => m.rev \in Source!Rev /\ m.card.tracked
  /\ p = "write" => m.op \in {"add", "remove", "set"}
  /\ p \in {"fetch", "record"} => m.op = "sync"
  /\ p \in {"syncCheck", "doctor", "bump", "bumped"} => m.op = "release"
  /\ p = "bumped" => m.card.version < MaxNumber
  /\ p \in {"manifest", "check", "tree"} => m.op \in {"publish", "release"}
  /\ p = "tag" =>
       /\ m.read \in Source!CardJson /\ m.card \in Source!CardJson
       /\ Source!Complete(m.read, m.files)

MayAct(t) == \A u \in Task : stage[u] # "idle" => u = t

(* What it knows of the source unless another one was at work beside it.    *)
Undisturbed(t) == LET m == memo[t]  p == stage[t] IN
  /\ p \in Knowing \ {"bumped"} => m.card = manifest
  /\ p = "bumped" => manifest = [m.card EXCEPT !.torn = TRUE]
  /\ p \in {"clear", "put"} /\ m.op = "add" /\ ~ m.flag => contents[m.e] = Source!Absent
  /\ p \in {"doctor", "bump", "bumped", "manifest", "check", "tree", "tag"} /\ m.op = "release" =>
       (manifest.tracked => contents["skill"] = upstream)
  /\ p \in {"bump", "bumped", "manifest", "check", "tree", "tag"} /\ m.op = "release" =>
       Source!Whole(manifest, contents)
  /\ p \in {"tree", "tag"} => Source!Fits(manifest)
  /\ p = "tag" =>
       m.read = manifest /\ m.card = manifest /\ \A e \in Source!Entry : m.files[e] = contents[e]
  /\ p \in {"read", "decide", "clear", "write"} /\ m.op = "remove" => m.e \notin acked
  /\ p = "write" /\ m.op = "add" => contents[m.e] = m.rev
  /\ p = "write" /\ m.op = "remove" /\ ~ m.flag => contents[m.e] = Source!Absent

(* The entry that it is replacing.                                          *)
Busy(t) == LET m == memo[t]  p == stage[t] IN
  {e \in Source!Entry :
     /\ p \in {"start", "copy"} \/ (p = "write" /\ m.op \in {"add", "remove"})
     /\ e = m.e}
Fine(e) ==
  /\ e = "skill" => \/ "skill" \in manifest.named <=> contents["skill"] # Source!Absent
                    \/ manifest.tracked /\ contents["skill"] = Source!Absent
  /\ e = "hook" => ("hook" \in manifest.named <=> contents["hook"] # Source!Absent)
  /\ e = "server" /\ "server" \in manifest.named /\ contents["server"] # Source!Absent =>
       manifest.def = contents["server"]
Unbroken(t) == Source!Untroubled({"overlap", "kill"}) =>
  /\ \A e \in Source!Entry : contents[e] = Source!Torn => stage[t] = "copy" /\ e = "skill"
  /\ \A e \in acked : e \in manifest.named /\ (contents[e] # Source!Absent \/ e \in Busy(t))
Proper(t) == causes = {} => \A e \in Source!Entry \ Busy(t) : Fine(e)

Single(t) == MayAct(t) => Undisturbed(t) /\ Unbroken(t) /\ Proper(t)
SourceTyped ==
  /\ Source!TypeOK /\ stage \in [Task -> SourcePlaces] /\ DOMAIN memo = Task
  /\ DOMAIN versions = Source!Version
SourceInv ==
  /\ SourceTyped /\ Source!Valid(manifest) /\ Source!StaysReadable /\ Source!PublishedIsWhole
  /\ \A t \in Task : Carries(t)
  /\ "overlap" \notin causes =>
       /\ \A t, u \in Task : stage[t] # "idle" /\ stage[u] # "idle" => t = u
       /\ \A t \in Task : Single(t)

LEMMA SourceConstants ==
  /\ Task # {} /\ MaxRev \in Nat /\ MaxNumber \in Nat /\ MaxActs \in Nat
  /\ 1 \in Source!Version /\ 1 \in Source!Rev /\ MaxRev \in Source!Rev
  /\ Source!Version \subseteq 0..MaxNumber /\ Source!Version \subseteq Nat
  /\ Source!Rev \subseteq 0..MaxRev /\ 0..MaxRev \subseteq 0..Source!Torn
  /\ {Source!Absent, Source!Torn} \cap Source!Rev = {} /\ Source!Absent # Source!Torn
  /\ Source!Absent \in 0..MaxRev /\ Source!Torn \in 0..Source!Torn
  BY SourceAssumptionHolds
  DEF Source!SourceAssumption, Source!Version, Source!Rev, Source!Absent, Source!Torn

LEMMA SourceStart == Source!Init => SourceInv
  <1> SUFFICES ASSUME Source!Init PROVE SourceInv
    OBVIOUS
  <1>1. PICK kind \in {"new", "package", "tracked"} :
          /\ manifest = [version |-> 1, named |-> IF kind = "tracked" THEN {"skill"} ELSE {},
                         def |-> Source!Absent, tracked |-> kind = "tracked", torn |-> FALSE]
          /\ contents = [e \in Source!Entry |->
                           IF e = "skill" /\ kind = "tracked" THEN 1 ELSE Source!Absent]
          /\ pkg = IF kind = "package" THEN 1 ELSE Source!Absent
    BY DEF Source!Init
  <1>2. manifest \in Source!CardJson /\ contents \in [Source!Entry -> 0..Source!Torn]
        /\ pkg \in 0..MaxNumber
    BY <1>1, SourceConstants DEF Source!CardJson, Source!Entry, Source!Absent
  <1>3. SourceTyped
    BY <1>2, SourceConstants
    DEF SourceTyped, Source!Init, Source!TypeOK, Source!Absent, SourcePlaces
  <1>4. Source!Valid(manifest) /\ ~ manifest.torn /\ \A e \in Source!Entry : Fine(e)
    BY <1>1, SourceConstants DEF Source!Valid, Fine, Source!Entry
  <1>5. \A e \in Source!Entry : contents[e] # Source!Torn
    BY <1>1, SourceConstants
  <1>6. Source!StaysReadable /\ Source!PublishedIsWhole
    BY <1>4 DEF Source!StaysReadable, Source!PublishedIsWhole, Source!Init
  <1>7. ASSUME NEW t \in Task PROVE stage[t] = "idle" /\ Carries(t) /\ Single(t)
    BY <1>4, <1>5 DEF Source!Init, Carries, Knowing, Single, Undisturbed, Unbroken, Proper
  <1>8. QED BY <1>3, <1>4, <1>6, <1>7 DEF SourceInv

LEMMA SourceMove ==
  ASSUME SourceInv, NEW t \in Task, SourceTyped', Source!Valid(manifest)', Source!StaysReadable',
         Source!PublishedIsWhole', causes \subseteq causes', Carries(t)',
         \A u \in Task \ {t} : stage'[u] = stage[u] /\ memo'[u] = memo[u],
         "overlap" \notin causes' =>
           MayAct(t) /\ Undisturbed(t)' /\ Unbroken(t)' /\ Proper(t)'
  PROVE  SourceInv'
  <1>1. ASSUME NEW u \in Task PROVE Carries(u)'
    <2>1. CASE u = t
      BY <2>1
    <2>2. CASE u # t
      BY <2>2 DEF SourceInv, Carries, Kept, Source!Complete, Source!Valid
    <2>3. QED BY <2>1, <2>2
  <1>2. ASSUME "overlap" \notin causes'
        PROVE  /\ \A u, v \in Task : stage'[u] # "idle" /\ stage'[v] # "idle" => u = v
               /\ \A u \in Task : Single(u)'
    <2>1. \A u \in Task \ {t} : stage'[u] = "idle"
      BY <1>2 DEF MayAct
    <2>2. ASSUME NEW u \in Task \ {t}, MayAct(u)' PROVE Undisturbed(u)' /\ Unbroken(u)' /\ Proper(u)'
      <3>1. stage'[u] = "idle" /\ stage'[t] = "idle"
        BY <2>1, <2>2 DEF MayAct
      <3>2. Undisturbed(u)'
        BY <3>1 DEF Undisturbed, Knowing
      <3>3. Busy(t)' = {} /\ Busy(u)' = {}
        BY <3>1 DEF Busy
      <3>4. Unbroken(u)'
        BY <1>2, <3>1, <3>3 DEF Unbroken
      <3>5. Proper(u)'
        BY <1>2, <3>3 DEF Proper
      <3>6. QED BY <3>2, <3>4, <3>5
    <2>3. QED BY <1>2, <2>1, <2>2 DEF Single
  <1>3. QED BY <1>1, <1>2 DEF SourceInv

LEMMA SourceKnows ==
  ASSUME SourceInv, NEW t \in Task, "overlap" \notin causes, stage[t] # "idle"
  PROVE  MayAct(t) /\ Undisturbed(t) /\ Unbroken(t) /\ Proper(t)
  BY DEF SourceInv, Single, MayAct

(* A step that changes neither manifest nor files.                          *)
LEMMA QuietMove ==
  ASSUME SourceInv, NEW t \in Task, stage[t] \notin {"idle", "start", "copy", "write", "bumped"},
         stage' \in [Task -> SourcePlaces], DOMAIN memo' = Task, stage'[t] # "copy",
         \A u \in Task \ {t} : stage'[u] = stage[u] /\ memo'[u] = memo[u],
         UNCHANGED <<manifest, contents, versions, acked, causes, acts, upstream, pkg>>,
         synced' \in 0..Source!Torn, Carries(t)', "overlap" \notin causes => Undisturbed(t)'
  PROVE  SourceInv'
  <1>1. SourceTyped'
    BY DEF SourceInv, SourceTyped, Source!TypeOK
  <1>2. Source!Valid(manifest)' /\ Source!PublishedIsWhole'
    BY DEF SourceInv, Source!Valid, Source!PublishedIsWhole
  <1>3. Source!StaysReadable'
    BY DEF SourceInv, Source!StaysReadable
  <1>4. Busy(t) = {}
    BY DEF Busy
  <1>5. ASSUME "overlap" \notin causes PROVE MayAct(t) /\ Unbroken(t)' /\ Proper(t)'
    <2>1. MayAct(t) /\ Unbroken(t) /\ Proper(t)
      BY <1>5, SourceKnows
    <2>2. Unbroken(t)'
      BY <1>4, <2>1 DEF Unbroken, Source!Untroubled
    <2>3. Proper(t)'
      BY <1>4, <2>1 DEF Proper, Fine
    <2>4. QED BY <2>1, <2>2, <2>3
  <1>6. QED BY <1>1, <1>2, <1>3, <1>5, SourceMove

LEMMA Going ==
  ASSUME SourceInv, NEW t \in Task, NEW place \in SourcePlaces, Source!Goto(t, place)
  PROVE  /\ stage' \in [Task -> SourcePlaces] /\ stage'[t] = place
         /\ \A u \in Task \ {t} : stage'[u] = stage[u]
  BY DEF SourceInv, SourceTyped, Source!Goto

LEMMA Calling ==
  ASSUME SourceInv, NEW t \in Task, NEW m, memo' = [memo EXCEPT ![t] = m]
  PROVE  DOMAIN memo' = Task /\ memo'[t] = m /\ \A u \in Task \ {t} : memo'[u] = memo[u]
  BY DEF SourceInv, SourceTyped

LEMMA Homing ==
  ASSUME SourceInv, NEW t \in Task, Source!Return(t)
  PROVE  /\ stage' \in [Task -> SourcePlaces] /\ stage'[t] = "idle" /\ DOMAIN memo' = Task
         /\ \A u \in Task \ {t} : stage'[u] = stage[u] /\ memo'[u] = memo[u]
         /\ Carries(t)' /\ Undisturbed(t)' /\ Busy(t)' = {}
  <1>1. stage' \in [Task -> SourcePlaces] /\ stage'[t] = "idle"
        /\ \A u \in Task \ {t} : stage'[u] = stage[u]
    BY Going, "idle" \in SourcePlaces DEF Source!Return, SourcePlaces
  <1>2. DOMAIN memo' = Task /\ \A u \in Task \ {t} : memo'[u] = memo[u]
    BY Calling DEF Source!Return
  <1>3. Carries(t)' /\ Undisturbed(t)' /\ Busy(t)' = {}
    BY <1>1 DEF Carries, Undisturbed, Busy, Knowing
  <1>4. QED BY <1>1, <1>2, <1>3

LEMMA Keeping ==
  ASSUME SourceInv, NEW t \in Task, stage[t] \notin {"idle", "tag"}, Source!Keep(t)
  PROVE  /\ DOMAIN memo' = Task /\ \A u \in Task \ {t} : memo'[u] = memo[u]
         /\ memo'[t] \in Order /\ memo'[t].card = manifest
         /\ memo'[t].op = memo[t].op /\ memo'[t].e = memo[t].e
         /\ memo'[t].rev = memo[t].rev /\ memo'[t].flag = memo[t].flag
  <1>1. memo[t] \in Order /\ manifest \in Source!CardJson
    BY DEF SourceInv, Carries, SourceTyped, Source!TypeOK
  <1>2. memo' = [memo EXCEPT ![t] = [memo[t] EXCEPT !.card = manifest]]
    BY DEF Source!Keep, SourceInv, SourceTyped
  <1>3. DOMAIN memo' = Task /\ memo'[t] = [memo[t] EXCEPT !.card = manifest]
        /\ \A u \in Task \ {t} : memo'[u] = memo[u]
    BY <1>2, Calling
  <1>4. QED BY <1>1, <1>3 DEF Order

LEMMA Quietly ==
  ASSUME SourceInv, NEW t \in Task, stage[t] \notin {"idle", "start", "copy", "write", "bumped"},
         UNCHANGED <<manifest, contents, pkg, versions, acked>>, Source!Still,
         synced' \in 0..Source!Torn, Source!Return(t)
  PROVE  SourceInv'
  BY Homing, QuietMove DEF Source!Still, Busy

LEMMA ReadKeeps ==
  ASSUME SourceInv, NEW t \in Task, Source!Read(t) PROVE SourceInv'
  <1> synced' \in 0..Source!Torn
    BY DEF Source!Read, Source!source, SourceInv, SourceTyped, Source!TypeOK
  <1>1. CASE Source!Return(t)
    BY <1>1, Quietly DEF Source!Read, Source!source
  <1>2. CASE ~ manifest.torn /\ Source!Keep(t)
             /\ Source!Goto(t, CASE memo[t].op = "set" -> "write" [] memo[t].op = "sync" -> "fetch"
                                 [] OTHER -> "decide")
    <2> DEFINE place == CASE memo[t].op = "set" -> "write" [] memo[t].op = "sync" -> "fetch"
                          [] OTHER -> "decide"
    <2>1. Carries(t) /\ stage[t] = "read" /\ Source!Valid(manifest) /\ manifest \in Source!CardJson
      BY DEF SourceInv, Source!Read, SourceTyped, Source!TypeOK
    <2>2. memo[t].op \in {"add", "remove", "set", "sync"}
      BY <2>1 DEF Carries
    <2>3. place \in {"write", "fetch", "decide"} /\ place \in SourcePlaces
          /\ (place = "write" => memo[t].op = "set") /\ (place = "fetch" => memo[t].op = "sync")
          /\ (place = "decide" => memo[t].op \in {"add", "remove"})
      BY <2>2 DEF SourcePlaces, Knowing
    <2>4. stage' \in [Task -> SourcePlaces] /\ stage'[t] = place
          /\ \A u \in Task \ {t} : stage'[u] = stage[u]
      BY <1>2, <2>3, Going
    <2>5. /\ DOMAIN memo' = Task /\ \A u \in Task \ {t} : memo'[u] = memo[u]
          /\ memo'[t] \in Order /\ memo'[t].card = manifest
          /\ memo'[t].op = memo[t].op /\ memo'[t].e = memo[t].e
          /\ memo'[t].rev = memo[t].rev /\ memo'[t].flag = memo[t].flag
      BY <1>2, <2>1, Keeping
    <2> HIDE DEF place
    <2>6. UNCHANGED <<manifest, contents, versions, acked, causes, acts, upstream, pkg>>
      BY DEF Source!Read, Source!Still, Source!source
    <2>7. Carries(t)'
      BY <1>2, <2>1, <2>3, <2>4, <2>5, <2>6 DEF Carries, Kept, Knowing
    <2>8. "overlap" \notin causes => Undisturbed(t)'
      <3>1. ASSUME "overlap" \notin causes PROVE Undisturbed(t)
        BY <3>1, <2>1, SourceKnows
      <3>2. QED BY <2>1, <2>3, <2>4, <2>5, <2>6, <3>1 DEF Undisturbed
    <2>9. QED BY <2>1, <2>3, <2>4, <2>5, <2>6, <2>7, <2>8, QuietMove
  <1>3. QED BY <1>1, <1>2 DEF Source!Read


(* The steps of a command that stays where it knows the source.             *)
LEMMA DecideKeeps ==
  ASSUME SourceInv, NEW t \in Task, Source!Decide(t) PROVE SourceInv'
  <1>1. /\ stage[t] = "decide" /\ Carries(t)
        /\ UNCHANGED <<manifest, contents, versions, acked, causes, acts, upstream, pkg, synced>>
        /\ synced' \in 0..Source!Torn
    BY DEF SourceInv, SourceTyped, Source!TypeOK, Source!Decide, Source!Still, Source!source
  <1>2. CASE Source!Return(t)
    BY <1>1, <1>2, Quietly DEF Source!Still
  <1>3. CASE Source!Admitted(t) /\ Source!Goto(t, Source!FirstEffect(t)) /\ UNCHANGED memo
    <2>1. memo[t].op \in {"add", "remove"} /\ memo[t] \in Order /\ Kept(memo[t].card)
      BY <1>1 DEF Carries, Knowing
    <2> DEFINE place == Source!FirstEffect(t)
    <2>2. /\ place \in {"clear", "put", "write"} /\ place \in SourcePlaces
          /\ place = "put" => memo[t].op = "add"
          /\ place = "write" => memo[t].op = "remove" /\ memo[t].flag
          /\ place = "clear" /\ memo[t].op = "remove" => ~ memo[t].flag
          /\ place = "clear" /\ memo[t].op # "remove" => memo[t].e = "skill"
      BY <2>1 DEF Source!FirstEffect, SourcePlaces, Knowing
    <2>3. memo[t].op = "add" /\ ~ memo[t].flag => contents[memo[t].e] = Source!Absent
      BY <1>3 DEF Source!Admitted, Source!Exists, Source!Present
    <2> HIDE DEF place
    <2>4. stage' \in [Task -> SourcePlaces] /\ stage'[t] = place
          /\ \A u \in Task \ {t} : stage'[u] = stage[u]
      BY <1>3, <2>2, Going DEF place
    <2>5. Carries(t)'
      BY <1>1, <1>3, <2>1, <2>2, <2>4 DEF Carries, Kept, Knowing
    <2>6. "overlap" \notin causes => Undisturbed(t)'
      <3>1. ASSUME "overlap" \notin causes PROVE Undisturbed(t)
        BY <3>1, <1>1, SourceKnows
      <3>2. QED BY <1>1, <1>3, <2>2, <2>3, <2>4, <3>1 DEF Undisturbed, Knowing
    <2>7. DOMAIN memo' = Task /\ \A u \in Task \ {t} : memo'[u] = memo[u]
      BY <1>3 DEF SourceInv, SourceTyped
    <2>8. QED BY <1>1, <2>2, <2>4, <2>5, <2>6, <2>7, QuietMove
  <1>4. QED BY <1>2, <1>3 DEF Source!Decide

LEMMA FetchKeeps ==
  ASSUME SourceInv, NEW t \in Task, Source!Fetch(t) PROVE SourceInv'
  <1>1. /\ stage[t] = "fetch" /\ Carries(t) /\ upstream \in Source!Rev
        /\ UNCHANGED <<manifest, contents, versions, acked, causes, acts, upstream, pkg, synced>>
        /\ synced' \in 0..Source!Torn
    BY DEF SourceInv, SourceTyped, Source!TypeOK, Source!Fetch, Source!Still, Source!source
  <1>2. CASE Source!Return(t)
    BY <1>1, <1>2, Quietly DEF Source!Still
  <1>3. CASE ~ Source!Return(t)
    <2>1. memo[t].op = "sync" /\ memo[t].e = "skill" /\ memo[t] \in Order /\ Kept(memo[t].card)
      BY <1>1 DEF Carries, Knowing
    <2>2. PICK rev \in 0..MaxRev, place \in {"record", "clear"} :
            /\ memo' = [memo EXCEPT ![t] = [memo[t] EXCEPT !.rev = rev]] /\ Source!Goto(t, place)
            /\ place = "clear" => rev \in Source!Rev /\ memo[t].card.tracked
      <3>1. CASE ~ memo[t].card.tracked
        BY <1>3, <3>1, SourceConstants DEF Source!Fetch
      <3>2. CASE memo[t].card.tracked
        BY <1>1, <1>3, <3>2, SourceConstants DEF Source!Fetch
      <3>3. QED BY <3>1, <3>2
    <2>3. stage' \in [Task -> SourcePlaces] /\ stage'[t] = place
          /\ \A u \in Task \ {t} : stage'[u] = stage[u]
      BY <2>2, Going, place \in SourcePlaces DEF SourcePlaces, Knowing
    <2>4. DOMAIN memo' = Task /\ memo'[t] = [memo[t] EXCEPT !.rev = rev]
          /\ \A u \in Task \ {t} : memo'[u] = memo[u]
      BY <2>2, Calling
    <2>5. /\ memo'[t] \in Order /\ memo'[t].card = memo[t].card /\ memo'[t].op = "sync"
          /\ memo'[t].e = "skill" /\ memo'[t].rev = rev
      BY <2>1, <2>4 DEF Order
    <2>6. Carries(t)'
      BY <1>1, <2>1, <2>2, <2>3, <2>5 DEF Carries, Kept, Knowing
    <2>7. "overlap" \notin causes => Undisturbed(t)'
      <3>1. ASSUME "overlap" \notin causes PROVE Undisturbed(t)
        BY <3>1, <1>1, SourceKnows
      <3>2. QED BY <1>1, <2>3, <2>5, <3>1 DEF Undisturbed, Knowing
    <2>8. QED BY <1>1, <2>3, <2>4, <2>6, <2>7, QuietMove
  <1>4. QED BY <1>2, <1>3

LEMMA RecordKeeps ==
  ASSUME SourceInv, NEW t \in Task, Source!Record(t) PROVE SourceInv'
  <1>1. /\ stage[t] = "record" /\ Carries(t)
        /\ UNCHANGED <<manifest, contents, versions, acked, pkg>>
        /\ Source!Still /\ Source!Return(t)
    BY DEF SourceInv, Source!Record
  <1>2. memo[t].rev \in 0..MaxRev
    BY <1>1 DEF Carries, Order
  <1>3. synced' \in 0..Source!Torn
    BY <1>2, SourceConstants DEF Source!Record, SourceInv, SourceTyped, Source!TypeOK
  <1>4. QED BY <1>1, <1>3, Quietly


LEMMA SyncCheckKeeps ==
  ASSUME SourceInv, NEW t \in Task, Source!SyncCheck(t) PROVE SourceInv'
  <1>1. /\ stage[t] = "syncCheck" /\ Carries(t)
        /\ UNCHANGED <<manifest, contents, versions, acked, causes, acts, upstream, pkg, synced>>
        /\ synced' \in 0..Source!Torn
    BY DEF SourceInv, SourceTyped, Source!TypeOK, Source!SyncCheck, Source!Still, Source!source
  <1>2. CASE Source!Return(t)
    BY <1>1, <1>2, Quietly DEF Source!Still
  <1>3. CASE /\ ~ (manifest.tracked /\ Source!Stale) /\ Source!Goto(t, "doctor") /\ UNCHANGED memo
    <2>1. stage' \in [Task -> SourcePlaces] /\ stage'[t] = "doctor"
          /\ \A u \in Task \ {t} : stage'[u] = stage[u]
      BY <1>3, Going, "doctor" \in SourcePlaces DEF SourcePlaces
    <2>2. DOMAIN memo' = Task /\ \A u \in Task : memo'[u] = memo[u]
      BY <1>3 DEF SourceInv, SourceTyped
    <2>3. Carries(t)'
      BY <1>1, <2>1, <2>2 DEF Carries, Knowing
    <2>4. Undisturbed(t)'
      BY <1>1, <1>3, <2>1, <2>2 DEF Undisturbed, Knowing, Source!Stale
    <2>5. QED BY <1>1, <2>1, <2>2, <2>3, <2>4, QuietMove
  <1>4. QED BY <1>2, <1>3 DEF Source!SyncCheck

LEMMA DoctorKeeps ==
  ASSUME SourceInv, NEW t \in Task, Source!Doctor(t) PROVE SourceInv'
  <1>1. /\ stage[t] = "doctor" /\ Carries(t)
        /\ UNCHANGED <<manifest, contents, versions, acked, causes, acts, upstream, pkg, synced>>
        /\ synced' \in 0..Source!Torn
    BY DEF SourceInv, SourceTyped, Source!TypeOK, Source!Doctor, Source!Still, Source!source
  <1>2. CASE Source!Return(t)
    BY <1>1, <1>2, Quietly DEF Source!Still
  <1>3. CASE /\ ~ manifest.torn /\ Source!Healthy(manifest, contents)
             /\ Source!Keep(t) /\ Source!Goto(t, "bump")
    <2>1. stage' \in [Task -> SourcePlaces] /\ stage'[t] = "bump"
          /\ \A u \in Task \ {t} : stage'[u] = stage[u]
      BY <1>3, Going, "bump" \in SourcePlaces DEF SourcePlaces, Knowing
    <2>2. /\ DOMAIN memo' = Task /\ \A u \in Task \ {t} : memo'[u] = memo[u]
          /\ memo'[t] \in Order /\ memo'[t].card = manifest
          /\ memo'[t].op = memo[t].op /\ memo'[t].e = memo[t].e
          /\ memo'[t].rev = memo[t].rev /\ memo'[t].flag = memo[t].flag
      BY <1>1, <1>3, Keeping
    <2>3. Kept(manifest)
      BY <1>3 DEF Kept, SourceInv, SourceTyped, Source!TypeOK
    <2>4. Carries(t)'
      BY <1>1, <2>1, <2>2, <2>3 DEF Carries, Kept, Source!Valid
    <2>5. "overlap" \notin causes => Undisturbed(t)'
      <3>1. ASSUME "overlap" \notin causes PROVE Undisturbed(t)
        BY <3>1, <1>1, SourceKnows
      <3>2. Source!Whole(manifest, contents)'
        BY <1>1, <1>3 DEF Source!Healthy, Source!Whole
      <3>3. QED BY <1>1, <2>1, <2>2, <3>1, <3>2 DEF Undisturbed
    <2>6. QED BY <1>1, <2>1, <2>2, <2>4, <2>5, QuietMove
  <1>4. QED BY <1>2, <1>3 DEF Source!Doctor

LEMMA ManifestKeeps ==
  ASSUME SourceInv, NEW t \in Task, Source!Manifest(t) PROVE SourceInv'
  <1>1. /\ stage[t] = "manifest" /\ Carries(t)
        /\ UNCHANGED <<manifest, contents, versions, acked, causes, acts, upstream, pkg, synced>>
        /\ synced' \in 0..Source!Torn
    BY DEF SourceInv, SourceTyped, Source!TypeOK, Source!Manifest, Source!Still, Source!source
  <1>2. CASE Source!Return(t)
    BY <1>1, <1>2, Quietly DEF Source!Still
  <1>3. CASE ~ manifest.torn /\ Source!Keep(t) /\ Source!Goto(t, "check")
    <2>1. stage' \in [Task -> SourcePlaces] /\ stage'[t] = "check"
          /\ \A u \in Task \ {t} : stage'[u] = stage[u]
      BY <1>3, Going, "check" \in SourcePlaces DEF SourcePlaces, Knowing
    <2>2. /\ DOMAIN memo' = Task /\ \A u \in Task \ {t} : memo'[u] = memo[u]
          /\ memo'[t] \in Order /\ memo'[t].card = manifest
          /\ memo'[t].op = memo[t].op /\ memo'[t].e = memo[t].e
          /\ memo'[t].rev = memo[t].rev /\ memo'[t].flag = memo[t].flag
      BY <1>1, <1>3, Keeping
    <2>3. Kept(manifest)
      BY <1>3 DEF Kept, SourceInv, SourceTyped, Source!TypeOK
    <2>4. Carries(t)'
      BY <1>1, <2>1, <2>2, <2>3 DEF Carries, Kept, Source!Valid
    <2>5. "overlap" \notin causes => Undisturbed(t)'
      <3>1. ASSUME "overlap" \notin causes PROVE Undisturbed(t)
        BY <3>1, <1>1, SourceKnows
      <3>2. Source!Whole(manifest, contents) => Source!Whole(manifest, contents)'
        BY <1>1 DEF Source!Whole
      <3>3. QED BY <1>1, <2>1, <2>2, <3>1, <3>2 DEF Undisturbed
    <2>6. QED BY <1>1, <2>1, <2>2, <2>4, <2>5, QuietMove
  <1>4. QED BY <1>2, <1>3 DEF Source!Manifest

LEMMA CheckKeeps ==
  ASSUME SourceInv, NEW t \in Task, Source!Check(t) PROVE SourceInv'
  <1>1. /\ stage[t] = "check" /\ Carries(t)
        /\ UNCHANGED <<manifest, contents, versions, acked, causes, acts, upstream, pkg, synced>>
        /\ synced' \in 0..Source!Torn
    BY DEF SourceInv, SourceTyped, Source!TypeOK, Source!Check, Source!Still, Source!source
  <1>2. CASE Source!Return(t)
    BY <1>1, <1>2, Quietly DEF Source!Still
  <1>3. CASE Source!Fits(memo[t].card) /\ Source!Goto(t, "tree") /\ UNCHANGED memo
    <2>1. stage' \in [Task -> SourcePlaces] /\ stage'[t] = "tree"
          /\ \A u \in Task \ {t} : stage'[u] = stage[u]
      BY <1>3, Going, "tree" \in SourcePlaces DEF SourcePlaces, Knowing
    <2>2. DOMAIN memo' = Task /\ \A u \in Task : memo'[u] = memo[u]
      BY <1>3 DEF SourceInv, SourceTyped
    <2>3. Carries(t)'
      BY <1>1, <2>1, <2>2 DEF Carries, Kept, Knowing, Source!Valid
    <2>4. "overlap" \notin causes => Undisturbed(t)'
      <3>1. ASSUME "overlap" \notin causes PROVE Undisturbed(t)
        BY <3>1, <1>1, SourceKnows
      <3>2. Source!Whole(manifest, contents) => Source!Whole(manifest, contents)'
        BY <1>1 DEF Source!Whole
      <3>3. "overlap" \notin causes => memo[t].card = manifest
        BY <1>1, <3>1 DEF Undisturbed, Knowing
      <3>4. "overlap" \notin causes => Source!Fits(manifest)'
        BY <1>1, <1>3, <3>3 DEF Source!Fits
      <3>5. QED BY <1>1, <2>1, <2>2, <3>1, <3>2, <3>4 DEF Undisturbed, Knowing
    <2>5. QED BY <1>1, <2>1, <2>2, <2>3, <2>4, QuietMove
  <1>4. QED BY <1>2, <1>3 DEF Source!Check

LEMMA TreeKeeps ==
  ASSUME SourceInv, NEW t \in Task, Source!Tree(t) PROVE SourceInv'
  <1>1. /\ stage[t] = "tree" /\ Carries(t)
        /\ UNCHANGED <<manifest, contents, versions, acked, causes, acts, upstream, pkg, synced>>
        /\ synced' \in 0..Source!Torn
    BY DEF SourceInv, SourceTyped, Source!TypeOK, Source!Tree, Source!Still, Source!source
  <1>2. CASE Source!Return(t)
    BY <1>1, <1>2, Quietly DEF Source!Still
  <1>3. CASE /\ Source!Complete(memo[t].card, contents) /\ Source!Goto(t, "tag")
             /\ memo' = [memo EXCEPT ![t] =
                  [op |-> @.op, read |-> @.card, card |-> manifest, files |-> contents]]
    <2>1. stage' \in [Task -> SourcePlaces] /\ stage'[t] = "tag"
          /\ \A u \in Task \ {t} : stage'[u] = stage[u]
      BY <1>3, Going, "tag" \in SourcePlaces DEF SourcePlaces
    <2>2. /\ DOMAIN memo' = Task /\ \A u \in Task \ {t} : memo'[u] = memo[u]
          /\ memo'[t] = [op |-> memo[t].op, read |-> memo[t].card, card |-> manifest, files |-> contents]
      BY <1>3, Calling DEF SourceInv, SourceTyped
    <2>3. /\ memo'[t].op = memo[t].op /\ memo'[t].read = memo[t].card /\ memo'[t].card = manifest
          /\ memo'[t].files = contents
      BY <2>2
    <2>4. memo[t].card \in Source!CardJson /\ manifest \in Source!CardJson
      BY <1>1 DEF Carries, Knowing, Kept, SourceInv, SourceTyped, Source!TypeOK
    <2>5. Carries(t)'
      BY <1>3, <2>1, <2>3, <2>4 DEF Carries, Knowing, Source!Complete
    <2>6. "overlap" \notin causes => Undisturbed(t)'
      <3>1. ASSUME "overlap" \notin causes PROVE Undisturbed(t)
        BY <3>1, <1>1, SourceKnows
      <3>2. Source!Whole(manifest, contents) => Source!Whole(manifest, contents)'
        BY <1>1 DEF Source!Whole
      <3>3. Source!Fits(manifest) => Source!Fits(manifest)'
        BY <1>1 DEF Source!Fits
      <3>5. QED BY <1>1, <2>1, <2>3, <3>1, <3>2, <3>3 DEF Undisturbed, Knowing
    <2>7. QED BY <1>1, <2>1, <2>2, <2>5, <2>6, QuietMove
  <1>4. QED BY <1>2, <1>3 DEF Source!Tree


(* The steps that change the files or the manifest.                         *)
LEMMA StillReadable ==
  ASSUME SourceInv, NEW t \in Task, stage[t] # "bumped", manifest' = manifest, causes \subseteq causes',
         \A u \in Task \ {t} : stage'[u] = stage[u]
  PROVE  Source!StaysReadable' /\ Source!Valid(manifest)'
  BY DEF SourceInv, Source!StaysReadable, Source!Valid

LEMMA StillPublished ==
  ASSUME SourceInv, versions' = versions, causes \subseteq causes' PROVE Source!PublishedIsWhole'
  BY DEF SourceInv, Source!PublishedIsWhole

LEMMA ClearKeeps ==
  ASSUME SourceInv, NEW t \in Task, Source!Clear(t) PROVE SourceInv'
  <1> DEFINE m == memo[t]  place == IF m.op = "remove" THEN "write" ELSE "start"
  <1>1. /\ stage[t] = "clear" /\ Carries(t) /\ m.e \in Source!Entry
        /\ UNCHANGED <<manifest, versions, acked, causes, acts, upstream, pkg, synced, memo>>
        /\ contents' = [contents EXCEPT ![m.e] = Source!Absent]
    BY DEF SourceInv, Carries, Order, Source!Clear, Source!Still
  <1>2. stage' \in [Task -> SourcePlaces] /\ stage'[t] = place
        /\ \A u \in Task \ {t} : stage'[u] = stage[u]
    BY Going, place \in SourcePlaces DEF Source!Clear, SourcePlaces, Knowing
  <1>3. /\ Kept(m.card) /\ m \in Order /\ m.op \in {"add", "remove", "sync"}
        /\ m.op # "remove" => m.e = "skill"
        /\ m.op = "remove" => ~ m.flag
        /\ m.op = "sync" => m.rev \in Source!Rev /\ m.card.tracked
    BY <1>1 DEF Carries, Knowing
  <1>4. contents' \in [Source!Entry -> 0..Source!Torn] /\ contents'[m.e] = Source!Absent
        /\ \A e \in Source!Entry \ {m.e} : contents'[e] = contents[e]
    BY <1>1, SourceConstants DEF SourceInv, SourceTyped, Source!TypeOK
  <1>5. SourceTyped'
    BY <1>1, <1>2, <1>4 DEF SourceInv, SourceTyped, Source!TypeOK
  <1>6. Carries(t)'
    BY <1>1, <1>2, <1>3 DEF Carries, Kept, Knowing, Source!Valid
  <1>7. ASSUME "overlap" \notin causes
        PROVE MayAct(t) /\ Undisturbed(t)' /\ Unbroken(t)' /\ Proper(t)'
    <2>1. MayAct(t) /\ Undisturbed(t) /\ Unbroken(t) /\ Proper(t) /\ Busy(t) = {}
      BY <1>1, <1>7, SourceKnows DEF Busy
    <2>2. Busy(t)' = {m.e}
      BY <1>1, <1>2, <1>3 DEF Busy
    <2>3. Undisturbed(t)'
      BY <1>1, <1>2, <1>3, <1>4, <2>1 DEF Undisturbed, Knowing
    <2>4. Unbroken(t)'
      BY <1>1, <1>4, <2>1, <2>2, SourceConstants DEF Unbroken, Source!Untroubled
    <2>5. Proper(t)'
      BY <1>1, <1>4, <2>1, <2>2 DEF Proper, Fine
    <2>6. QED BY <2>1, <2>3, <2>4, <2>5
  <1>8. Source!Valid(manifest)' /\ Source!StaysReadable' /\ Source!PublishedIsWhole'
    BY <1>1, <1>2, StillReadable, StillPublished
  <1>9. QED BY <1>1, <1>2, <1>5, <1>6, <1>7, <1>8, SourceMove

LEMMA StartCopyKeeps ==
  ASSUME SourceInv, NEW t \in Task, Source!StartCopy(t) PROVE SourceInv'
  <1> DEFINE m == memo[t]
  <1>1. /\ stage[t] = "start" /\ Carries(t)
        /\ UNCHANGED <<manifest, versions, acked, causes, acts, upstream, pkg, synced, memo>>
        /\ contents' = [contents EXCEPT !["skill"] = Source!Torn]
    BY DEF SourceInv, Source!StartCopy, Source!Still
  <1>2. stage' \in [Task -> SourcePlaces] /\ stage'[t] = "copy"
        /\ \A u \in Task \ {t} : stage'[u] = stage[u]
    BY Going, "copy" \in SourcePlaces DEF Source!StartCopy, SourcePlaces, Knowing
  <1>3. m.e = "skill"
    BY <1>1 DEF Carries
  <1>4. contents' \in [Source!Entry -> 0..Source!Torn] /\ contents'["skill"] = Source!Torn
        /\ \A e \in Source!Entry \ {"skill"} : contents'[e] = contents[e]
    BY <1>1, SourceConstants DEF SourceInv, SourceTyped, Source!TypeOK, Source!Entry
  <1>5. SourceTyped'
    BY <1>1, <1>2, <1>4 DEF SourceInv, SourceTyped, Source!TypeOK
  <1>6. Carries(t)'
    BY <1>1, <1>2 DEF Carries, Kept, Knowing, Source!Valid
  <1>7. ASSUME "overlap" \notin causes
        PROVE MayAct(t) /\ Undisturbed(t)' /\ Unbroken(t)' /\ Proper(t)'
    <2>1. MayAct(t) /\ Undisturbed(t) /\ Unbroken(t) /\ Proper(t)
      BY <1>1, <1>7, SourceKnows
    <2>2. Busy(t) = {"skill"} /\ Busy(t)' = {"skill"}
      BY <1>1, <1>2, <1>3 DEF Busy, Source!Entry
    <2>3. Undisturbed(t)'
      BY <1>1, <1>2, <2>1 DEF Undisturbed, Knowing
    <2>4. Unbroken(t)'
      BY <1>1, <1>2, <1>4, <2>1, <2>2, SourceConstants DEF Unbroken, Source!Untroubled
    <2>5. Proper(t)'
      BY <1>1, <1>4, <2>1, <2>2 DEF Proper, Fine
    <2>6. QED BY <2>1, <2>3, <2>4, <2>5
  <1>8. Source!Valid(manifest)' /\ Source!StaysReadable' /\ Source!PublishedIsWhole'
    BY <1>1, <1>2, StillReadable, StillPublished
  <1>9. QED BY <1>1, <1>2, <1>5, <1>6, <1>7, <1>8, SourceMove

LEMMA EndCopyKeeps ==
  ASSUME SourceInv, NEW t \in Task, Source!EndCopy(t) PROVE SourceInv'
  <1> DEFINE m == memo[t]  place == IF m.op = "sync" THEN "record" ELSE "write"
  <1>1. /\ stage[t] = "copy" /\ Carries(t)
        /\ UNCHANGED <<manifest, versions, acked, causes, acts, upstream, pkg, synced, memo>>
    BY DEF SourceInv, Source!EndCopy, Source!Still
  <1>2. stage' \in [Task -> SourcePlaces] /\ stage'[t] = place
        /\ \A u \in Task \ {t} : stage'[u] = stage[u]
    BY Going, place \in SourcePlaces DEF Source!EndCopy, SourcePlaces, Knowing
  <1>3. /\ Kept(m.card) /\ m.op \in {"add", "sync"} /\ m.e = "skill" /\ m.rev \in Source!Rev
        /\ m.op = "sync" => m.card.tracked
    BY <1>1 DEF Carries, Knowing
  <1>4. PICK now \in {m.rev, Source!Torn} :
          /\ contents' = [contents EXCEPT !["skill"] = now]
          /\ "overlap" \notin causes => now = m.rev
    BY DEF Source!EndCopy
  <1>5. contents' \in [Source!Entry -> 0..Source!Torn] /\ contents'["skill"] = now
        /\ \A e \in Source!Entry \ {"skill"} : contents'[e] = contents[e]
    BY <1>3, <1>4, SourceConstants DEF SourceInv, SourceTyped, Source!TypeOK, Source!Entry
  <1>6. SourceTyped'
    BY <1>1, <1>2, <1>5 DEF SourceInv, SourceTyped, Source!TypeOK
  <1>7. Carries(t)'
    BY <1>1, <1>2, <1>3 DEF Carries, Kept, Knowing, Source!Valid
  <1>8. ASSUME "overlap" \notin causes
        PROVE MayAct(t) /\ Undisturbed(t)' /\ Unbroken(t)' /\ Proper(t)'
    <2>1. MayAct(t) /\ Undisturbed(t) /\ Unbroken(t) /\ Proper(t)
      BY <1>1, <1>8, SourceKnows
    <2>2. Busy(t) = {"skill"} /\ Busy(t)' \subseteq {"skill"}
      BY <1>1, <1>3 DEF Busy, Source!Entry
    <2>3. now \in Source!Rev /\ now = m.rev /\ now # Source!Absent /\ now # Source!Torn
      BY <1>3, <1>4, <1>8, SourceConstants
    <2>4. Undisturbed(t)'
      BY <1>1, <1>2, <1>3, <1>5, <2>1, <2>3 DEF Undisturbed, Knowing
    <2>5. Unbroken(t)'
      <3>1. acked \subseteq Source!Entry
        BY DEF SourceInv, SourceTyped, Source!TypeOK
      <3>2. QED BY <1>1, <1>5, <2>1, <2>2, <2>3, <3>1 DEF Unbroken, Source!Untroubled
    <2>6. ASSUME causes = {} PROVE \A e \in Source!Entry \ Busy(t)' : Fine(e)'
      <3>1. \A e \in Source!Entry \ {"skill"} : Fine(e)'
        BY <1>1, <1>5, <2>1, <2>2, <2>6 DEF Proper, Fine
      <3>2. CASE m.op = "sync"
        <4>1. manifest.tracked /\ Source!Valid(manifest)
          BY <1>1, <1>3, <2>1, <3>2 DEF Undisturbed, Knowing, SourceInv
        <4>2. Fine("skill")'
          BY <1>1, <1>5, <2>3, <4>1 DEF Fine, Source!Valid
        <4>3. QED BY <3>1, <4>2
      <3>3. CASE m.op = "add"
        <4>1. Busy(t)' = {"skill"}
          BY <1>1, <1>2, <1>3, <3>3 DEF Busy, Source!Entry
        <4>2. QED BY <3>1, <4>1
      <3>4. QED BY <1>3, <3>2, <3>3
    <2>7. QED BY <1>1, <2>1, <2>4, <2>5, <2>6 DEF Proper
  <1>9. Source!Valid(manifest)' /\ Source!StaysReadable' /\ Source!PublishedIsWhole'
    BY <1>1, <1>2, StillReadable, StillPublished
  <1>10. QED BY <1>1, <1>2, <1>6, <1>7, <1>8, <1>9, SourceMove

LEMMA PutKeeps ==
  ASSUME SourceInv, NEW t \in Task, Source!Put(t) PROVE SourceInv'
  <1> DEFINE m == memo[t]
  <1>1. /\ stage[t] = "put" /\ Carries(t)
        /\ UNCHANGED <<manifest, versions, acked, causes, acts, upstream, pkg, synced, memo>>
        /\ contents' = [contents EXCEPT ![m.e] = m.rev]
    BY DEF SourceInv, Source!Put, Source!Still
  <1>2. stage' \in [Task -> SourcePlaces] /\ stage'[t] = "write"
        /\ \A u \in Task \ {t} : stage'[u] = stage[u]
    BY Going, "write" \in SourcePlaces DEF Source!Put, SourcePlaces, Knowing
  <1>3. /\ Kept(m.card) /\ m.op = "add" /\ m.e \in Source!Entry /\ m.rev \in Source!Rev
        /\ m.rev # Source!Absent /\ m.rev # Source!Torn
    BY <1>1, SourceConstants DEF Carries, Knowing, Order
  <1>4. contents' \in [Source!Entry -> 0..Source!Torn] /\ contents'[m.e] = m.rev
        /\ \A e \in Source!Entry \ {m.e} : contents'[e] = contents[e]
    BY <1>1, <1>3, SourceConstants DEF SourceInv, SourceTyped, Source!TypeOK
  <1>5. SourceTyped'
    BY <1>1, <1>2, <1>4 DEF SourceInv, SourceTyped, Source!TypeOK
  <1>6. Carries(t)'
    BY <1>1, <1>2, <1>3 DEF Carries, Kept, Knowing, Source!Valid
  <1>7. ASSUME "overlap" \notin causes
        PROVE MayAct(t) /\ Undisturbed(t)' /\ Unbroken(t)' /\ Proper(t)'
    <2>1. MayAct(t) /\ Undisturbed(t) /\ Unbroken(t) /\ Proper(t) /\ Busy(t) = {}
      BY <1>1, <1>7, SourceKnows DEF Busy
    <2>2. Busy(t)' = {m.e}
      BY <1>1, <1>2, <1>3 DEF Busy
    <2>3. Undisturbed(t)'
      BY <1>1, <1>2, <1>3, <1>4, <2>1 DEF Undisturbed, Knowing
    <2>4. Unbroken(t)'
      BY <1>1, <1>3, <1>4, <2>1, <2>2 DEF Unbroken, Source!Untroubled
    <2>5. Proper(t)'
      BY <1>1, <1>4, <2>1, <2>2 DEF Proper, Fine
    <2>6. QED BY <2>1, <2>3, <2>4, <2>5
  <1>8. Source!Valid(manifest)' /\ Source!StaysReadable' /\ Source!PublishedIsWhole'
    BY <1>1, <1>2, StillReadable, StillPublished
  <1>9. QED BY <1>1, <1>2, <1>5, <1>6, <1>7, <1>8, SourceMove


(* What is written is the manifest that was read, with its one change.      *)
LEMMA NextCards ==
  ASSUME NEW t \in Task, Kept(memo[t].card), memo[t] \in Order, memo[t].op \in {"add", "remove", "set"},
         memo[t].op # "sync" => memo[t].rev \in Source!Rev,
         Source!NextCard(t).version \in Source!Version
  PROVE  LET m == memo[t]  c == Source!NextCard(t) IN
         /\ c \in Source!CardJson /\ ~ c.torn /\ c.tracked = m.card.tracked
         /\ m.op = "add" => /\ c.named = m.card.named \cup {m.e}
                            /\ c.def = IF m.e = "server" THEN m.rev ELSE m.card.def
         /\ m.op = "remove" => /\ c.named = m.card.named \ {m.e}
                               /\ c.def = IF m.e = "server" THEN Source!Absent ELSE m.card.def
         /\ m.op = "set" => c.named = m.card.named /\ c.def = m.card.def
         /\ m.op # "remove" => Source!Valid(c)
         /\ ~ Source!Valid(c) => m.e = "skill" /\ m.card.tracked
  <1> DEFINE m == memo[t]  c == Source!NextCard(t)  old == m.card
  <1>1. /\ old \in Source!CardJson /\ ~ old.torn /\ Source!Valid(old) /\ m.e \in Source!Entry
        /\ m.rev \in Source!Rev
    BY DEF Kept, Order
  <1>2. CASE m.op = "add"
    <2> DEFINE n == old.named \cup {m.e}  d == IF m.e = "server" THEN m.rev ELSE old.def
    <2>1. c = [old EXCEPT !.named = n, !.def = d]
      BY <1>1, <1>2 DEF Source!NextCard, Source!CardJson
    <2>2. n \in SUBSET Source!Entry /\ d \in {Source!Absent} \cup Source!Rev
      BY <1>1 DEF Source!CardJson
    <2>3. ("skill" \in n \/ ~ old.tracked) \/ (m.op = "remove" /\ m.e = "skill" /\ old.tracked)
      BY <1>1, <1>2 DEF Source!Valid
    <2> HIDE DEF n, d, c, old
    <2>4. /\ c \in Source!CardJson /\ c.named = n /\ c.def = d
          /\ c.tracked = old.tracked /\ c.torn = old.torn
      BY <1>1, <2>1, <2>2 DEF Source!CardJson
    <2>5. (m.op # "remove" => Source!Valid(c)) /\ (~ Source!Valid(c) => m.e = "skill" /\ old.tracked)
      BY <1>2, <2>3, <2>4 DEF Source!Valid
    <2>6. QED BY <1>1, <1>2, <2>4, <2>5 DEF n, d, c, old
  <1>3. CASE m.op = "remove"
    <2> DEFINE n == old.named \ {m.e}  d == IF m.e = "server" THEN Source!Absent ELSE old.def
    <2>1. c = [old EXCEPT !.named = n, !.def = d]
      BY <1>1, <1>3 DEF Source!NextCard, Source!CardJson
    <2>2. n \in SUBSET Source!Entry /\ d \in {Source!Absent} \cup Source!Rev
      BY <1>1 DEF Source!CardJson
    <2>3. ("skill" \in n \/ ~ old.tracked) \/ (m.op = "remove" /\ m.e = "skill" /\ old.tracked)
      BY <1>1, <1>3 DEF Source!Valid
    <2> HIDE DEF n, d, c, old
    <2>4. /\ c \in Source!CardJson /\ c.named = n /\ c.def = d
          /\ c.tracked = old.tracked /\ c.torn = old.torn
      BY <1>1, <2>1, <2>2 DEF Source!CardJson
    <2>5. (m.op # "remove" => Source!Valid(c)) /\ (~ Source!Valid(c) => m.e = "skill" /\ old.tracked)
      BY <1>3, <2>3, <2>4 DEF Source!Valid
    <2>6. QED BY <1>1, <1>3, <2>4, <2>5 DEF n, d, c, old
  <1>4. CASE m.op = "set"
    <2>1. c = [old EXCEPT !.version = old.version + 1]
      BY <1>1, <1>4 DEF Source!NextCard, Source!CardJson
    <2>2. QED BY <1>1, <1>4, <2>1 DEF Source!CardJson, Source!Valid
  <1>5. QED BY <1>2, <1>3, <1>4

LEMMA WriteCardKeeps ==
  ASSUME SourceInv, NEW t \in Task, Source!WriteCard(t) PROVE SourceInv'
  <1> DEFINE m == memo[t]  c == Source!NextCard(t)
  <1>1. /\ stage[t] = "write" /\ Carries(t) /\ Source!Valid(manifest)
        /\ UNCHANGED <<versions, contents, causes, acts, upstream, pkg, synced>>
        /\ Source!Return(t) /\ c.version \in Source!Version
    BY DEF SourceInv, Source!WriteCard, Source!Still
  <1>2. /\ stage' \in [Task -> SourcePlaces] /\ stage'[t] = "idle" /\ DOMAIN memo' = Task
        /\ \A u \in Task \ {t} : stage'[u] = stage[u] /\ memo'[u] = memo[u]
        /\ Carries(t)' /\ Undisturbed(t)' /\ Busy(t)' = {}
    BY <1>1, Homing
  <1>3. /\ Kept(m.card) /\ m \in Order /\ m.op \in {"add", "remove", "set"} /\ m.e \in Source!Entry
        /\ m.rev \in Source!Rev
        /\ m.op = "remove" /\ m.flag => "keep" \in causes
    BY <1>1 DEF Carries, Knowing, Order
  <1>4. /\ c \in Source!CardJson /\ ~ c.torn /\ c.tracked = m.card.tracked
        /\ m.op = "add" => /\ c.named = m.card.named \cup {m.e}
                           /\ c.def = IF m.e = "server" THEN m.rev ELSE m.card.def
        /\ m.op = "remove" => /\ c.named = m.card.named \ {m.e}
                              /\ c.def = IF m.e = "server" THEN Source!Absent ELSE m.card.def
        /\ m.op = "set" => c.named = m.card.named /\ c.def = m.card.def
        /\ m.op # "remove" => Source!Valid(c)
        /\ ~ Source!Valid(c) => m.e = "skill" /\ m.card.tracked
    BY <1>1, <1>3, NextCards
  <1> HIDE DEF c
  <1>5. \/ /\ Source!Valid(c) /\ manifest' = c
           /\ acked' = IF m.op = "add" THEN acked \cup {m.e} ELSE acked
        \/ ~ Source!Valid(c) /\ manifest' = manifest /\ acked' = acked
    BY DEF Source!WriteCard, c
  <1>6. SourceTyped' /\ Source!Valid(manifest)'
    BY <1>1, <1>2, <1>3, <1>4, <1>5 DEF SourceInv, SourceTyped, Source!TypeOK, Source!Valid
  <1>7. Source!StaysReadable' /\ Source!PublishedIsWhole'
    <2>1. CASE manifest' = c
      BY <1>1, <1>4, <2>1, StillPublished DEF Source!StaysReadable
    <2>2. CASE manifest' = manifest
      BY <1>1, <1>2, <2>2, StillReadable, StillPublished
    <2>3. QED BY <1>5, <2>1, <2>2
  <1>8. ASSUME "overlap" \notin causes PROVE MayAct(t) /\ Unbroken(t)' /\ Proper(t)'
    <2>1. MayAct(t) /\ Undisturbed(t) /\ Unbroken(t) /\ Proper(t)
      BY <1>1, <1>8, SourceKnows
    <2>2. /\ m.card = manifest
          /\ m.op = "add" => contents[m.e] = m.rev
          /\ m.op = "remove" => m.e \notin acked /\ (m.flag \/ contents[m.e] = Source!Absent)
      BY <1>1, <2>1 DEF Undisturbed, Knowing
    <2>3. Busy(t) = IF m.op \in {"add", "remove"} THEN {m.e} ELSE {}
      BY <1>1, <1>3 DEF Busy
    <2>4. m.rev # Source!Absent /\ acked \subseteq Source!Entry
      BY <1>3, SourceConstants DEF SourceInv, SourceTyped, Source!TypeOK
    <2>5. Unbroken(t)'
      <3> SUFFICES ASSUME Source!Untroubled({"overlap", "kill"}) PROVE
            /\ \A e \in Source!Entry : contents[e] # Source!Torn
            /\ \A e \in acked' : e \in manifest'.named /\ contents[e] # Source!Absent
        BY <1>1, <1>2 DEF Unbroken, Source!Untroubled
      <3>1. /\ \A e \in Source!Entry : contents[e] # Source!Torn
            /\ \A e \in acked : e \in manifest.named /\ (contents[e] # Source!Absent \/ e \in Busy(t))
        BY <1>1, <2>1 DEF Unbroken
      <3>2. CASE m.op = "add"
        BY <1>4, <1>5, <2>2, <2>3, <2>4, <3>1, <3>2
      <3>3. CASE m.op = "remove"
        BY <1>4, <1>5, <2>2, <2>3, <2>4, <3>1, <3>3
      <3>4. CASE m.op = "set"
        BY <1>4, <1>5, <2>2, <2>3, <3>1, <3>4
      <3>5. QED BY <1>3, <3>1, <3>2, <3>3, <3>4
    <2>6. ASSUME causes = {}, NEW e \in Source!Entry PROVE Fine(e)'
      <3>1. m.op = "remove" => ~ m.flag
        BY <1>3, <2>6
      <3>2. CASE e = m.e /\ m.op = "add"
        BY <1>1, <1>4, <1>5, <2>2, <2>4, <3>2 DEF Fine
      <3>3. CASE e = m.e /\ m.op = "remove"
        BY <1>1, <1>4, <1>5, <2>2, <3>1, <3>3 DEF Fine
      <3>4. CASE e # m.e \/ m.op = "set"
        <4>1. Fine(e)
          BY <1>3, <2>1, <2>3, <2>6, <3>4 DEF Proper
        <4>2. QED BY <1>1, <1>3, <1>4, <1>5, <2>2, <3>4, <4>1 DEF Fine
      <3>5. QED BY <1>3, <3>2, <3>3, <3>4
    <2>7. QED BY <1>1, <2>1, <2>5, <2>6 DEF Proper
  <1>9. QED BY <1>1, <1>2, <1>6, <1>7, <1>8, SourceMove

LEMMA BumpKeeps ==
  ASSUME SourceInv, NEW t \in Task, Source!Bump(t) PROVE SourceInv'
  <1> DEFINE m == memo[t]
  <1>1. /\ stage[t] = "bump" /\ Carries(t) /\ m.card.version < MaxNumber /\ Source!Valid(manifest)
        /\ UNCHANGED <<contents, versions, acked, causes, acts, upstream, pkg, synced, memo>>
        /\ manifest \in Source!CardJson /\ manifest' = [manifest EXCEPT !.torn = TRUE]
    BY DEF SourceInv, SourceTyped, Source!TypeOK, Source!Bump, Source!Still
  <1>2. stage' \in [Task -> SourcePlaces] /\ stage'[t] = "bumped"
        /\ \A u \in Task \ {t} : stage'[u] = stage[u]
    BY Going, "bumped" \in SourcePlaces DEF Source!Bump, SourcePlaces, Knowing
  <1>3. /\ manifest' \in Source!CardJson /\ manifest'.tracked = manifest.tracked
        /\ manifest'.named = manifest.named /\ manifest'.def = manifest.def
    BY <1>1 DEF Source!CardJson
  <1>4. SourceTyped' /\ Source!Valid(manifest)'
    BY <1>1, <1>2, <1>3 DEF SourceInv, SourceTyped, Source!TypeOK, Source!Valid
  <1>5. Source!StaysReadable' /\ Source!PublishedIsWhole'
    BY <1>1, <1>2, StillPublished DEF Source!StaysReadable
  <1>6. Carries(t)'
    BY <1>1, <1>2 DEF Carries, Kept, Knowing, Source!Valid
  <1>7. ASSUME "overlap" \notin causes
        PROVE MayAct(t) /\ Undisturbed(t)' /\ Unbroken(t)' /\ Proper(t)'
    <2>1. MayAct(t) /\ Undisturbed(t) /\ Unbroken(t) /\ Proper(t)
      BY <1>1, <1>7, SourceKnows
    <2>2. Busy(t) = {} /\ Busy(t)' = {}
      BY <1>1, <1>2 DEF Busy
    <2>3. m.op = "release" /\ m.card = manifest
      BY <1>1, <2>1 DEF Carries, Undisturbed, Knowing
    <2>4. Source!Whole(manifest, contents)' /\ (manifest'.tracked => contents["skill"] = upstream)
      BY <1>1, <1>3, <2>1, <2>3 DEF Undisturbed, Source!Whole
    <2>5. Undisturbed(t)'
      BY <1>1, <1>2, <2>3, <2>4 DEF Undisturbed
    <2>6. Unbroken(t)'
      BY <1>1, <1>3, <2>1, <2>2 DEF Unbroken, Source!Untroubled
    <2>7. Proper(t)'
      BY <1>1, <1>3, <2>1, <2>2 DEF Proper, Fine
    <2>8. QED BY <2>1, <2>5, <2>6, <2>7
  <1>8. QED BY <1>1, <1>2, <1>4, <1>5, <1>6, <1>7, SourceMove

LEMMA EndBumpKeeps ==
  ASSUME SourceInv, NEW t \in Task, Source!EndBump(t) PROVE SourceInv'
  <1> DEFINE m == memo[t]
  <1>1. /\ stage[t] = "bumped" /\ Carries(t)
        /\ UNCHANGED <<contents, versions, acked, causes, acts, upstream, pkg, synced, memo>>
        /\ manifest' = [m.card EXCEPT !.version = m.card.version + 1]
    BY DEF SourceInv, Carries, Knowing, Kept, Source!CardJson, Source!EndBump, Source!Still
  <1>2. stage' \in [Task -> SourcePlaces] /\ stage'[t] = "manifest"
        /\ \A u \in Task \ {t} : stage'[u] = stage[u]
    BY Going, "manifest" \in SourcePlaces DEF Source!EndBump, SourcePlaces
  <1>3. Kept(m.card) /\ m.op = "release" /\ m.card.version < MaxNumber
    BY <1>1 DEF Carries, Knowing
  <1>4. m.card.version + 1 \in Source!Version
    BY <1>3, SourceConstants DEF Kept, Source!CardJson, Source!Version
  <1>5. /\ manifest' \in Source!CardJson /\ manifest'.tracked = m.card.tracked /\ ~ manifest'.torn
        /\ manifest'.named = m.card.named /\ manifest'.def = m.card.def
    BY <1>1, <1>3, <1>4 DEF Kept, Source!CardJson
  <1>6. SourceTyped' /\ Source!Valid(manifest)'
    BY <1>1, <1>2, <1>3, <1>5 DEF SourceInv, SourceTyped, Source!TypeOK, Source!Valid, Kept
  <1>7. Source!StaysReadable' /\ Source!PublishedIsWhole'
    BY <1>1, <1>5, StillPublished DEF Source!StaysReadable
  <1>8. Carries(t)'
    BY <1>1, <1>2, <1>3 DEF Carries, Knowing
  <1>9. ASSUME "overlap" \notin causes
        PROVE MayAct(t) /\ Undisturbed(t)' /\ Unbroken(t)' /\ Proper(t)'
    <2>1. MayAct(t) /\ Undisturbed(t) /\ Unbroken(t) /\ Proper(t)
      BY <1>1, <1>9, SourceKnows
    <2>2. Busy(t) = {} /\ Busy(t)' = {}
      BY <1>1, <1>2 DEF Busy
    <2>3. manifest = [m.card EXCEPT !.torn = TRUE]
      BY <1>1, <2>1 DEF Undisturbed
    <2>4. /\ manifest.tracked = m.card.tracked /\ manifest.named = m.card.named
          /\ manifest.def = m.card.def
      BY <1>3, <2>3 DEF Kept, Source!CardJson
    <2>5. Source!Whole(manifest, contents)' /\ (manifest'.tracked => contents["skill"] = upstream)
      BY <1>1, <1>3, <1>5, <2>1, <2>4 DEF Undisturbed, Source!Whole
    <2>6. Undisturbed(t)'
      BY <1>1, <1>2, <2>5 DEF Undisturbed, Knowing
    <2>7. Unbroken(t)'
      BY <1>1, <1>5, <2>1, <2>2, <2>4 DEF Unbroken, Source!Untroubled
    <2>8. Proper(t)'
      BY <1>1, <1>5, <2>1, <2>2, <2>4 DEF Proper, Fine
    <2>9. QED BY <2>1, <2>6, <2>7, <2>8
  <1>10. QED BY <1>1, <1>2, <1>6, <1>7, <1>8, <1>9, SourceMove


LEMMA TagKeeps ==
  ASSUME SourceInv, NEW t \in Task, Source!Tag(t) PROVE SourceInv'
  <1> DEFINE m == memo[t]
  <1>1. /\ stage[t] = "tag" /\ Carries(t)
        /\ UNCHANGED <<manifest, contents, acked, causes, acts, upstream, pkg, synced>>
        /\ Source!Return(t)
        /\ \/ versions' = [versions EXCEPT ![m.read.version] = m]
           \/ versions' = versions
    BY DEF SourceInv, Source!Tag, Source!Still, Source!source
  <1>2. /\ stage' \in [Task -> SourcePlaces] /\ stage'[t] = "idle" /\ DOMAIN memo' = Task
        /\ \A u \in Task \ {t} : stage'[u] = stage[u] /\ memo'[u] = memo[u]
        /\ Carries(t)' /\ Undisturbed(t)' /\ Busy(t)' = {}
    BY <1>1, Homing
  <1>3. /\ m.read \in Source!CardJson /\ Source!Complete(m.read, m.files)
    BY <1>1 DEF Carries
  <1>4. SourceTyped'
    BY <1>1, <1>2 DEF SourceInv, SourceTyped, Source!TypeOK
  <1>5. ASSUME "overlap" \notin causes
        PROVE MayAct(t) /\ Undisturbed(t) /\ Unbroken(t) /\ Proper(t) /\ Busy(t) = {}
    BY <1>1, <1>5, SourceKnows DEF Busy
  <1>6. Source!PublishedIsWhole'
    <2>1. CASE versions' = versions
      BY <1>1, <2>1, StillPublished
    <2>2. CASE versions' = [versions EXCEPT ![m.read.version] = m]
      <3>1. \A e \in m.read.named : m.files[e] = Source!Absent => e = "server"
        BY <1>3 DEF Source!Complete, Source!CardJson, Source!Entry
      <3>2. "overlap" \in causes \/ m.card = m.read
        BY <1>1, <1>5 DEF Undisturbed
      <3>3. causes \cap {"overlap", "kill"} # {} \/ \A e \in Source!Entry : m.files[e] # Source!Torn
        BY <1>1, <1>5 DEF Undisturbed, Unbroken, Source!Untroubled
      <3>4. \A v \in Source!Version : versions'[v] = versions[v] \/ versions'[v] = m
        BY <2>2 DEF SourceInv, SourceTyped
      <3>5. Source!PublishedIsWhole
        BY DEF SourceInv
      <3> HIDE DEF m
      <3>6. QED BY <1>1, <3>1, <3>2, <3>3, <3>4, <3>5 DEF Source!PublishedIsWhole
    <2>3. QED BY <1>1, <2>1, <2>2
  <1>7. Source!Valid(manifest)' /\ Source!StaysReadable'
    BY <1>1, <1>2, StillReadable
  <1>8. ASSUME "overlap" \notin causes PROVE Unbroken(t)' /\ Proper(t)'
    BY <1>1, <1>2, <1>5, <1>8 DEF Unbroken, Proper, Fine, Source!Untroubled
  <1>9. QED BY <1>1, <1>2, <1>4, <1>5, <1>6, <1>7, <1>8, SourceMove

LEMMA KillKeeps ==
  ASSUME SourceInv, NEW t \in Task, Source!Kill(t) PROVE SourceInv'
  <1>1. /\ stage[t] # "idle" /\ causes' = causes \cup {"kill"} /\ Source!Return(t)
        /\ UNCHANGED <<manifest, versions, acked, acts, upstream, pkg>>
    BY DEF Source!Kill
  <1>2. /\ stage' \in [Task -> SourcePlaces] /\ stage'[t] = "idle" /\ DOMAIN memo' = Task
        /\ \A u \in Task \ {t} : stage'[u] = stage[u] /\ memo'[u] = memo[u]
        /\ Carries(t)' /\ Undisturbed(t)' /\ Busy(t)' = {}
    BY <1>1, Homing
  <1>3. contents' \in [Source!Entry -> 0..Source!Torn] /\ synced' \in 0..Source!Torn
    BY SourceConstants DEF Source!Kill, SourceInv, SourceTyped, Source!TypeOK
  <1>4. SourceTyped'
    BY <1>1, <1>2, <1>3 DEF SourceInv, SourceTyped, Source!TypeOK
  <1>5. Source!Valid(manifest)' /\ Source!StaysReadable' /\ Source!PublishedIsWhole'
    BY <1>1, StillPublished DEF SourceInv, Source!Valid, Source!StaysReadable
  <1>6. ASSUME "overlap" \notin causes' PROVE MayAct(t) /\ Unbroken(t)' /\ Proper(t)'
    <2>1. MayAct(t)
      BY <1>1, <1>6, SourceKnows
    <2>2. QED BY <1>1, <2>1 DEF Unbroken, Proper, Source!Untroubled
  <1>7. QED BY <1>1, <1>2, <1>4, <1>5, <1>6, SourceMove

(* What begins, or is done by hand, while nobody is at work.                *)
LEMMA ActsAlone ==
  ASSUME SourceInv, NEW t \in Task, NEW cause,
         cause \subseteq {"keep", "edit"}, Source!Act(cause, Source!Active)
  PROVE  /\ causes \subseteq causes' /\ cause \subseteq causes'
         /\ causes' \subseteq {"overlap", "kill", "keep", "edit"} /\ acts' \in 0..MaxActs
         /\ "overlap" \notin causes' =>
              /\ \A u \in Task : stage[u] = "idle"
              /\ MayAct(t) /\ Undisturbed(t) /\ Unbroken(t) /\ Proper(t)
  <1>1. acts \in Nat /\ MaxActs \in Nat /\ causes \subseteq {"overlap", "kill", "keep", "edit"}
    BY SourceConstants DEF SourceInv, SourceTyped, Source!TypeOK
  <1>2. acts' \in Nat /\ acts' <= MaxActs
    <2>1. acts' = acts + 1 \/ acts' = acts + 2
      BY DEF Source!Act
    <2>2. acts' <= MaxActs
      BY DEF Source!Act
    <2>3. QED BY <1>1, <2>1, <2>2
  <1>3. /\ causes \subseteq causes' /\ cause \subseteq causes'
        /\ causes' \subseteq {"overlap", "kill", "keep", "edit"}
        /\ "overlap" \notin causes' => Source!Active = {}
    BY <1>1 DEF Source!Act
  <1>4. ASSUME "overlap" \notin causes'
        PROVE  /\ \A u \in Task : stage[u] = "idle"
               /\ MayAct(t) /\ Undisturbed(t) /\ Unbroken(t) /\ Proper(t)
    <2>1. \A u \in Task : stage[u] = "idle"
      BY <1>3, <1>4 DEF Source!Active
    <2>2. MayAct(t) /\ Single(t)
      BY <1>3, <1>4, <2>1 DEF MayAct, SourceInv
    <2>3. QED BY <2>1, <2>2 DEF Single
  <1>5. QED BY <1>1, <1>2, <1>3, <1>4

LEMMA BeginKeeps ==
  ASSUME SourceInv, NEW t \in Task, NEW op \in Source!Ops, NEW e \in Source!Entry, NEW flag \in BOOLEAN,
         Source!Begin(t, op, e, flag)
  PROVE  SourceInv'
  <1> DEFINE cause == IF op = "remove" /\ flag THEN {"keep"} ELSE {}
             place == CASE op = "publish" -> "manifest" [] op = "release" -> "syncCheck"
                        [] OTHER -> "read"
             rev == IF flag THEN MaxRev ELSE 1
             m == [op |-> op, e |-> e, rev |-> rev, flag |-> flag, card |-> Source!NoCall]
  <1>1. /\ stage[t] = "idle" /\ (op \notin {"add", "remove"} => e = "skill")
        /\ Source!Act(cause, Source!Active) /\ memo' = [memo EXCEPT ![t] = m]
        /\ Source!Goto(t, place)
        /\ acked' = IF op = "remove" THEN acked \ {e} ELSE acked
        /\ UNCHANGED <<manifest, contents, synced, pkg, upstream, versions>>
    BY DEF Source!Begin, Source!source
  <1>2. /\ place \in {"manifest", "syncCheck", "read"} /\ place \in SourcePlaces
        /\ place = "read" => op \in {"add", "remove", "set", "sync"}
        /\ place = "syncCheck" => op = "release"
        /\ place = "manifest" => op = "publish"
    BY DEF Source!Ops, SourcePlaces
  <1>3. cause \subseteq {"keep", "edit"} /\ rev \in Source!Rev /\ rev \in 0..MaxRev
    BY SourceConstants
  <1>4. m \in Order /\ m.op = op /\ m.e = e /\ m.rev = rev /\ m.flag = flag
    BY <1>3 DEF Order
  <1>5. /\ stage' \in [Task -> SourcePlaces] /\ stage'[t] = place
        /\ \A u \in Task \ {t} : stage'[u] = stage[u]
    BY <1>1, <1>2, Going
  <1> HIDE DEF place, rev, m
  <1>6. DOMAIN memo' = Task /\ memo'[t] = m /\ \A u \in Task \ {t} : memo'[u] = memo[u]
    BY <1>1, Calling
  <1>7. op = "remove" /\ flag => "keep" \in cause
    OBVIOUS
  <1> HIDE DEF cause
  <1>8. /\ causes \subseteq causes' /\ cause \subseteq causes'
        /\ causes' \subseteq {"overlap", "kill", "keep", "edit"} /\ acts' \in 0..MaxActs
        /\ "overlap" \notin causes' =>
             /\ \A u \in Task : stage[u] = "idle"
             /\ MayAct(t) /\ Undisturbed(t) /\ Unbroken(t) /\ Proper(t)
    BY <1>1, <1>3, ActsAlone
  <1>9. SourceTyped'
    BY <1>1, <1>5, <1>6, <1>8 DEF SourceInv, SourceTyped, Source!TypeOK
  <1>10. Source!Valid(manifest)' /\ Source!StaysReadable' /\ Source!PublishedIsWhole'
    BY <1>1, <1>5, <1>8, StillReadable, StillPublished
  <1>11. Carries(t)'
    BY <1>1, <1>2, <1>3, <1>4, <1>5, <1>6, <1>7, <1>8 DEF Carries, Knowing
  <1>12. ASSUME "overlap" \notin causes'
         PROVE MayAct(t) /\ Undisturbed(t)' /\ Unbroken(t)' /\ Proper(t)'
    <2>1. MayAct(t) /\ Unbroken(t) /\ Proper(t) /\ Busy(t) = {} /\ Busy(t)' = {}
      BY <1>1, <1>2, <1>5, <1>8, <1>12 DEF Busy
    <2>2. Undisturbed(t)'
      BY <1>1, <1>2, <1>4, <1>5, <1>6 DEF Undisturbed, Knowing
    <2>3. Unbroken(t)'
      BY <1>1, <1>8, <2>1 DEF Unbroken, Source!Untroubled
    <2>4. Proper(t)'
      BY <1>1, <1>8, <2>1 DEF Proper, Fine
    <2>5. QED BY <2>1, <2>2, <2>3, <2>4
  <1>13. QED BY <1>5, <1>6, <1>8, <1>9, <1>10, <1>11, <1>12, SourceMove

(* A step by hand: nobody's command moves.                                  *)
LEMMA HandKeeps ==
  ASSUME SourceInv, NEW cause, cause \subseteq {"keep", "edit"}, Source!Act(cause, Source!Active),
         UNCHANGED <<manifest, synced, versions, stage, memo, acked>>,
         contents' \in [Source!Entry -> 0..Source!Torn], upstream' \in Source!Rev,
         pkg' \in 0..MaxNumber,
         contents' = contents \/ "edit" \in cause,
         \A e \in Source!Entry : contents'[e] # contents[e] =>
            contents[e] # Source!Absent /\ contents'[e] \in Source!Rev
  PROVE  SourceInv'
  <1>1. PICK t \in Task : TRUE
    BY SourceConstants
  <1>2. /\ causes \subseteq causes' /\ cause \subseteq causes'
        /\ causes' \subseteq {"overlap", "kill", "keep", "edit"} /\ acts' \in 0..MaxActs
        /\ "overlap" \notin causes' =>
             /\ \A u \in Task : stage[u] = "idle"
             /\ MayAct(t) /\ Undisturbed(t) /\ Unbroken(t) /\ Proper(t)
    BY <1>1, ActsAlone
  <1>3. SourceTyped'
    BY <1>2 DEF SourceInv, SourceTyped, Source!TypeOK
  <1>4. Source!Valid(manifest)' /\ Source!StaysReadable' /\ Source!PublishedIsWhole'
    BY <1>2, StillPublished DEF SourceInv, Source!Valid, Source!StaysReadable
  <1>5. Carries(t)'
    BY <1>1, <1>2 DEF SourceInv, Carries, Kept, Source!Valid, Source!Complete
  <1>6. ASSUME "overlap" \notin causes'
        PROVE MayAct(t) /\ Undisturbed(t)' /\ Unbroken(t)' /\ Proper(t)'
    <2>1. MayAct(t) /\ Unbroken(t) /\ Proper(t) /\ Busy(t) = {} /\ Busy(t)' = {} /\ stage'[t] = "idle"
      BY <1>1, <1>2, <1>6 DEF Busy
    <2>2. Undisturbed(t)'
      BY <2>1 DEF Undisturbed, Knowing
    <2>3. Unbroken(t)'
      <3>1. acked \subseteq Source!Entry
        BY DEF SourceInv, SourceTyped, Source!TypeOK
      <3>2. QED BY <1>2, <2>1, <3>1, SourceConstants DEF Unbroken, Source!Untroubled
    <2>4. Proper(t)'
      BY <1>2, <2>1 DEF Proper, Fine
    <2>5. QED BY <2>1, <2>2, <2>3, <2>4
  <1>7. QED BY <1>1, <1>2, <1>3, <1>4, <1>5, <1>6, SourceMove

LEMMA HandsKeep ==
  ASSUME SourceInv,
         \/ \E e \in Source!Entry, rev \in Source!Rev : Source!Edit(e, rev)
         \/ Source!EditPackage \/ Source!Advance
  PROVE  SourceInv'
  <1>1. /\ contents \in [Source!Entry -> 0..Source!Torn] /\ upstream \in Source!Rev
        /\ pkg \in 0..MaxNumber /\ manifest \in Source!CardJson
    BY DEF SourceInv, SourceTyped, Source!TypeOK
  <1>2. ASSUME NEW e \in Source!Entry, NEW rev \in Source!Rev, Source!Edit(e, rev) PROVE SourceInv'
    <2>1. /\ contents' = [contents EXCEPT ![e] = rev] /\ contents[e] # Source!Absent
          /\ Source!Act({"edit"}, Source!Active)
          /\ UNCHANGED <<manifest, synced, pkg, upstream, versions, stage, memo, acked>>
      BY <1>2 DEF Source!Edit
    <2>2. contents' \in [Source!Entry -> 0..Source!Torn]
      BY <1>1, <2>1, SourceConstants
    <2>3. \A f \in Source!Entry : contents'[f] # contents[f] =>
             contents[f] # Source!Absent /\ contents'[f] \in Source!Rev
      BY <1>1, <2>1
    <2>4. QED BY <1>1, <2>1, <2>2, <2>3, HandKeeps
  <1>3. CASE Source!EditPackage
    <2>1. /\ Source!Act({}, Source!Active) /\ pkg' = manifest.version
          /\ UNCHANGED <<manifest, contents, synced, upstream, versions, stage, memo, acked>>
      BY <1>3 DEF Source!EditPackage
    <2>2. pkg' \in 0..MaxNumber
      BY <1>1, <2>1, SourceConstants DEF Source!CardJson
    <2>3. QED BY <1>1, <2>1, <2>2, HandKeeps
  <1>4. CASE Source!Advance
    <2>1. /\ Source!Act({}, Source!Active) /\ upstream < MaxRev /\ upstream' = upstream + 1
          /\ UNCHANGED <<manifest, contents, synced, pkg, versions, stage, memo, acked>>
      BY <1>4 DEF Source!Advance, Source!source
    <2>2. upstream' \in Source!Rev
      BY <1>1, <2>1, SourceConstants DEF Source!Rev
    <2>3. QED BY <1>1, <2>1, <2>2, HandKeeps
  <1>5. QED BY <1>2, <1>3, <1>4


LEMMA SourceStep == SourceInv /\ [Source!Next]_Source!vars => SourceInv'
  <1> SUFFICES ASSUME SourceInv, [Source!Next]_Source!vars PROVE SourceInv'
    OBVIOUS
  <1>1. ASSUME NEW t \in Task, Source!Step(t) PROVE SourceInv'
    BY <1>1, ReadKeeps, DecideKeeps, ClearKeeps, StartCopyKeeps, EndCopyKeeps, PutKeeps, WriteCardKeeps,
       FetchKeeps, RecordKeeps, SyncCheckKeeps, DoctorKeeps, BumpKeeps, EndBumpKeeps, ManifestKeeps,
       CheckKeeps, TreeKeeps, TagKeeps
    DEF Source!Step
  <1>2. CASE UNCHANGED Source!vars
    BY <1>2
    DEF Source!vars, Source!source, SourceInv, SourceTyped, Source!TypeOK, Source!Valid,
        Source!StaysReadable, Source!PublishedIsWhole, Carries, Kept, Source!Complete, Single, MayAct,
        Undisturbed, Source!Whole, Source!Fits, Unbroken, Proper, Busy, Fine, Source!Untroubled
  <1>3. QED BY <1>1, <1>2, KillKeeps, BeginKeeps, HandsKeep DEF Source!Next

LEMMA SourceGoals ==
  SourceInv => /\ Source!TypeOK /\ Source!StaysWhole /\ Source!AddedStays /\ Source!PublishedIsWhole
               /\ Source!StaysReadable
  <1> SUFFICES ASSUME SourceInv PROVE Source!StaysWhole /\ Source!AddedStays
    BY DEF SourceInv, SourceTyped
  <1>1. PICK t \in Task : TRUE
    BY SourceConstants
  <1>2. ASSUME Source!Active = {}, "overlap" \notin causes
        PROVE Unbroken(t) /\ Proper(t) /\ Busy(t) = {} /\ stage[t] = "idle"
    <2>1. \A u \in Task : stage[u] = "idle"
      BY <1>2 DEF Source!Active
    <2>2. MayAct(t) /\ Single(t)
      BY <1>1, <1>2, <2>1 DEF MayAct, SourceInv
    <2>3. QED BY <2>1, <2>2 DEF Single, Busy
  <1>3. Source!StaysWhole
    <2> SUFFICES ASSUME Source!Active = {}, causes = {}
                 PROVE \/ Source!Whole(manifest, contents)
                       \/ manifest.tracked /\ contents["skill"] = Source!Absent
      BY DEF Source!StaysWhole
    <2>1. \A e \in Source!Entry : Fine(e)
      BY <1>2 DEF Proper
    <2>2. Fine("skill") /\ Fine("hook") /\ Fine("server")
      BY <2>1 DEF Source!Entry
    <2>3. /\ \/ "skill" \in manifest.named <=> contents["skill"] # Source!Absent
             \/ manifest.tracked /\ contents["skill"] = Source!Absent
          /\ ("hook" \in manifest.named <=> contents["hook"] # Source!Absent)
          /\ "server" \in manifest.named /\ contents["server"] # Source!Absent =>
               manifest.def = contents["server"]
      BY <2>2 DEF Fine
    <2>4. QED BY <2>3 DEF Source!Whole
  <1>4. Source!AddedStays
    <2>1. acked \subseteq Source!Entry
      BY DEF SourceInv, SourceTyped, Source!TypeOK
    <2>2. QED BY <1>2, <2>1 DEF Source!AddedStays, Unbroken, Source!Untroubled
  <1>5. QED BY <1>3, <1>4

(* What is released, and what an addition touches.                          *)
Releases ==
  \A v \in Source!Version :
    versions[v] = Source!NoCall /\ versions'[v] # Source!NoCall /\ versions'[v].op = "release" =>
      \/ "overlap" \in causes
      \/ /\ Source!Healthy(versions'[v].card, versions'[v].files)
         /\ versions'[v].card.tracked => versions'[v].files["skill"] = upstream
Spares ==
  \A t \in Task :
    stage[t] \in {"clear", "put"} /\ memo[t].op = "add" /\ ~ memo[t].flag
        /\ contents'[memo[t].e] # contents[memo[t].e] /\ stage'[t] # stage[t] =>
      contents[memo[t].e] = Source!Absent \/ "overlap" \in causes

LEMMA OnlyTagPublishes ==
  ASSUME Source!Next PROVE versions' = versions \/ \E t \in Task : Source!Tag(t)
  BY DEF Source!Next, Source!Step, Source!Read, Source!Decide, Source!Clear, Source!StartCopy,
         Source!EndCopy, Source!Put, Source!WriteCard, Source!Fetch, Source!Record, Source!SyncCheck,
         Source!Doctor, Source!Bump, Source!EndBump, Source!Manifest, Source!Check, Source!Tree,
         Source!Kill, Source!Begin, Source!Edit, Source!EditPackage, Source!Advance

LEMMA ReleasedAndSpared == SourceInv /\ [Source!Next]_Source!vars => [Releases /\ Spares]_Source!vars
  <1> SUFFICES ASSUME SourceInv, Source!Next PROVE Releases /\ Spares
    OBVIOUS
  <1>1. Spares
    <2>1. ASSUME NEW t \in Task, stage[t] \in {"clear", "put"}, memo[t].op = "add", ~ memo[t].flag,
                 "overlap" \notin causes
          PROVE contents[memo[t].e] = Source!Absent
      <3>1. Undisturbed(t)
        BY <2>1, SourceKnows
      <3>2. QED BY <2>1, <3>1 DEF Undisturbed
    <2>2. QED BY <2>1 DEF Spares
  <1>2. ASSUME NEW t \in Task, Source!Tag(t) PROVE Releases
    <2> DEFINE m == memo[t]
    <2>1. stage[t] = "tag" /\ m.read \in Source!CardJson
      BY <1>2 DEF Source!Tag, SourceInv, Carries
    <2>2. \A v \in Source!Version : versions'[v] = versions[v] \/ versions'[v] = m
      BY <1>2 DEF Source!Tag, SourceInv, SourceTyped
    <2>3. ASSUME "overlap" \notin causes, m.op = "release"
          PROVE Source!Healthy(m.card, m.files) /\ (m.card.tracked => m.files["skill"] = upstream)
      <3>1. Undisturbed(t)
        BY <2>1, <2>3, SourceKnows
      <3>2. /\ m.card = manifest /\ \A e \in Source!Entry : m.files[e] = contents[e]
            /\ Source!Whole(manifest, contents) /\ Source!Fits(manifest)
            /\ manifest.tracked => contents["skill"] = upstream
        BY <2>1, <2>3, <3>1 DEF Undisturbed
      <3>3. Source!Whole(m.card, m.files)
        BY <3>2 DEF Source!Whole, Source!Entry
      <3>4. QED BY <3>2, <3>3 DEF Source!Healthy, Source!Entry
    <2> HIDE DEF m
    <2>4. QED BY <2>2, <2>3 DEF Releases
  <1>3. CASE versions' = versions
    <2>1. \A v \in Source!Version : versions'[v] = versions[v]
      BY <1>3
    <2>2. QED BY <1>1, <2>1 DEF Releases
  <1>4. QED BY <1>1, <1>2, <1>3, OnlyTagPublishes

LEMMA SourceIsAPart == ProjectSpec => Source!Init /\ [][Source!Next]_Source!vars
  <1>1. ProjectInit => Source!Init
    BY DEF ProjectInit
  <1>2. [ProjectNext]_all => [Source!Next]_Source!vars
    BY DEF ProjectNext, all, source, Source!vars, Source!source
  <1>3. QED BY <1>1, <1>2, PTL DEF ProjectSpec

(* The author's source (card-source.ts, release-pipeline.ts, publishCard of *)
(* card-store.ts): commands that run to their end one after the other leave *)
(* manifest and files in agreement, what was added stays, a version holds   *)
(* what its manifest names and a release what its doctor accepted, and an   *)
(* addition without --replace overwrites nothing; each but for the causes   *)
(* that it names.                                                           *)
THEOREM SourceStaysHonest == ProjectSpec => SourceIsHonest
  <1>1. Source!Init /\ [][Source!Next]_Source!vars =>
          /\ Source!TypeOK /\ Source!StaysWhole /\ Source!AddedStays /\ Source!PublishedIsWhole
          /\ Source!StaysReadable
          /\ [][Source!TypeOK' /\ Source!StaysWhole' /\ Source!AddedStays'
                /\ Source!PublishedIsWhole' /\ Source!StaysReadable']_Source!vars
    BY SourceGoals, SourceStart, SourceStep, PTL
  <1>2. Source!Init /\ [][Source!Next]_Source!vars =>
          [][Releases]_Source!vars /\ [][Spares]_Source!vars
    BY SourceStart, SourceStep, ReleasedAndSpared, PTL
  <1>3. /\ Source!ReleasedIsHealthy <=> [][Releases]_Source!vars
        /\ Source!AddSpares <=> [][Spares]_Source!vars
    BY DEF Source!ReleasedIsHealthy, Source!AddSpares, Releases, Spares
  <1>4. QED
    BY <1>1, <1>2, <1>3, SourceIsAPart DEF SourceIsHonest, Source!SourceIsHonest
=============================================================================
