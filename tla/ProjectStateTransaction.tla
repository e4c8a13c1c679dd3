----------------------- MODULE ProjectStateTransaction -----------------------
(***************************************************************************)
(* cli/core/project-state-transaction.ts: how a project's config.json and  *)
(* card.lock are replaced together.  Under the project's owner lock a      *)
(* client first rolls an interrupted transaction forward and sweeps what   *)
(* is abandoned, then runs its operation.  A commit writes both new files  *)
(* to a directory of its own, makes a journal durable, installs each file  *)
(* by a rename, and deletes the journal before the directory.  One file    *)
(* system effect per step: a process may die and a call may throw between  *)
(* any two, and either leaves the files as they are.                       *)
(*                                                                         *)
(* A digest stands for the bytes it was taken of.  The lock is the         *)
(* exclusive lock of ExclusiveLock, which OwnerLock implements as long as  *)
(* no live record is evicted.                                              *)
(***************************************************************************)
EXTENDS Naturals

CONSTANTS
  Client,       \* processes that use the project
  Bytes,        \* contents of config.json and of card.lock
  Tx,           \* owner ids; an id that left the disk may be drawn again
  Missing,      \* no such file
  NoDir,        \* no transaction directory
  NoJournal,    \* no .state-transaction.json
  NoTx,         \* a client that works on no transaction
  MaxFaults     \* bound: crashes and thrown errors in one behaviour

ASSUME TransactionAssumption ==
  /\ Missing \notin Bytes
  /\ NoDir \notin [config : Bytes \cup {Missing}, lock : Bytes \cup {Missing}]
  /\ NoJournal \notin [tx : Tx, config : Bytes, lock : Bytes,
                       phase : {"prepared", "config-written", "lock-written", "committed"}]
  /\ NoTx \notin Tx
  /\ MaxFaults \in Nat

File == Bytes \cup {Missing}
Pair == [config : File, lock : File]
NoPair == [config |-> Missing, lock |-> Missing]
Phases == {"prepared", "config-written", "lock-written", "committed"}
Journal == [tx : Tx, config : Bytes, lock : Bytes, phase : Phases]

Recovery == {"recover", "sweep"}
Reading == {"operate", "read-lock", "decide"}
Staging == {"config-source", "lock-source", "journal"}
Installing == {"install-config", "config-phase", "install-lock", "lock-phase",
               "check", "unlink", "rmdir"}
Steps == {"idle", "release"} \cup Recovery \cup Reading \cup Staging \cup Installing

VARIABLES
  holding,   \* who holds the project's owner lock
  config,    \* config.json
  lock,      \* card.lock
  journal,   \* .state-transaction.json
  sources,   \* .transactions: the directory of each transaction
  pc,        \* where each client is
  mode,      \* whether it installs its own transaction or an interrupted one
  tx,        \* the transaction it works on
  next,      \* the pair it wants to commit
  seen,      \* the config it read, before it reads the lock
  snapshot,  \* the complete snapshot it read (NoPair before)
  faults     \* crashes and errors so far

files == <<config, lock, journal, sources>>
memory == <<mode, tx, next, seen, snapshot>>
vars == <<holding, config, lock, journal, sources, pc, mode, tx, next, seen,
          snapshot, faults>>

OwnerLock == INSTANCE ExclusiveLock WITH Task <- Client

Init ==
  /\ OwnerLock!LockInit
  /\ config \in File /\ lock \in File
  /\ journal = NoJournal
  /\ sources = [t \in Tx |-> NoDir]
  /\ pc = [c \in Client |-> "idle"]
  /\ mode = [c \in Client |-> "commit"]
  /\ tx = [c \in Client |-> NoTx]
  /\ next = [c \in Client |-> NoPair]
  /\ seen = [c \in Client |-> Missing]
  /\ snapshot = [c \in Client |-> NoPair]
  /\ faults = 0

Goto(c, step) == pc' = [pc EXCEPT ![c] = step]
From(c, step, then) == pc[c] = step /\ Goto(c, then) /\ UNCHANGED <<holding, faults>>

(* What a call keeps in memory is gone when it ends. *)
Forget(c) ==
  /\ mode' = [mode EXCEPT ![c] = "commit"]
  /\ tx' = [tx EXCEPT ![c] = NoTx]
  /\ next' = [next EXCEPT ![c] = NoPair]
  /\ seen' = [seen EXCEPT ![c] = Missing]
  /\ snapshot' = [snapshot EXCEPT ![c] = NoPair]

(* withProjectStateLock: the owner lock is taken; a nested call of the same  *)
(* operation reuses it and starts over.                                      *)
Acquire(c) ==
  /\ pc[c] = "idle"
  /\ OwnerLock!Enter(c)
  /\ Goto(c, "recover")
  /\ UNCHANGED <<files, memory, faults>>

Reenter(c) == From(c, "release", "recover") /\ UNCHANGED <<files, memory>>

Release(c) ==
  /\ pc[c] = "release"
  /\ OwnerLock!Exit(c)
  /\ Goto(c, "idle")
  /\ Forget(c)
  /\ UNCHANGED <<files, faults>>

-----------------------------------------------------------------------------
(* Mutants: the journal of an interrupted transaction is ignored; recovery   *)
(* trusts the files it finds; the sweep stops before it deletes.             *)
Ignored == FALSE
OnlyOwnInstalls(c, now, wanted) == mode[c] = "commit"
Unswept == TRUE

Interrupted == journal # NoJournal
MustRecover == Interrupted
NeedsInstall(c, now, wanted) == mode[c] = "commit" \/ now # wanted
LockPhase == "lock-written"
Swept == \A t \in Tx : sources[t] = NoDir

(* recoverUnderLock: both retained sources must match the journal's hashes. *)
Recover(c) ==
  /\ pc[c] = "recover"
  /\ IF ~ MustRecover
     THEN Goto(c, "sweep") /\ UNCHANGED <<mode, tx>>
     ELSE IF sources[journal.tx] = [config |-> journal.config, lock |-> journal.lock]
     THEN /\ Goto(c, "install-config")
          /\ mode' = [mode EXCEPT ![c] = "recover"]
          /\ tx' = [tx EXCEPT ![c] = journal.tx]
     ELSE Goto(c, "release") /\ UNCHANGED <<mode, tx>>
  /\ UNCHANGED <<files, holding, next, seen, snapshot, faults>>

(* removeAbandonedTransactions: without a journal every directory goes. *)
Sweep(c) ==
  /\ pc[c] = "sweep"
  /\ \/ /\ Interrupted \/ Swept
        /\ Goto(c, "operate")
        /\ UNCHANGED sources
     \/ /\ ~ Interrupted
        /\ \E t \in Tx :
             /\ sources[t] # NoDir
             /\ sources' = [sources EXCEPT ![t] = NoDir]
        /\ UNCHANGED pc
  /\ UNCHANGED <<config, lock, journal, holding, memory, faults>>

(* readSnapshotUnlocked: two reads, config first. *)
ReadConfig(c) ==
  /\ From(c, "operate", "read-lock")
  /\ seen' = [seen EXCEPT ![c] = config]
  /\ UNCHANGED <<files, mode, tx, next, snapshot>>

ReadLock(c) ==
  /\ From(c, "read-lock", "decide")
  /\ snapshot' = [snapshot EXCEPT ![c] = [config |-> seen[c], lock |-> lock]]
  /\ UNCHANGED <<files, mode, tx, next, seen>>

(* readProjectStateSnapshot returns; so does an operation that only reads. *)
Return(c) == From(c, "decide", "release") /\ UNCHANGED <<files, memory>>

(* mutateProjectConfig of project-writes.ts: the config alone is replaced,   *)
(* atomically and without a journal.                                         *)
WriteConfig(c) ==
  /\ From(c, "operate", "release")
  /\ \E b \in Bytes : config' = b
  /\ UNCHANGED <<lock, journal, sources, memory>>

-----------------------------------------------------------------------------
(* commitUnderLock, called by commitProjectState at once and by              *)
(* mutateProjectState after a snapshot.                                      *)
MakeDir(c) ==
  /\ pc[c] \in {"operate", "decide"}
  /\ Goto(c, "config-source")
  /\ \E t \in Tx, p \in [config : Bytes, lock : Bytes] :
       /\ sources[t] = NoDir
       /\ sources' = [sources EXCEPT ![t] = [config |-> Missing, lock |-> Missing]]
       /\ tx' = [tx EXCEPT ![c] = t]
       /\ next' = [next EXCEPT ![c] = p]
  /\ mode' = [mode EXCEPT ![c] = "commit"]
  /\ UNCHANGED <<config, lock, journal, holding, seen, snapshot, faults>>

WriteConfigSource(c) ==
  /\ From(c, "config-source", "lock-source")
  /\ sources' = [sources EXCEPT ![tx[c]].config = next[c].config]
  /\ UNCHANGED <<config, lock, journal, memory>>

WriteLockSource(c) ==
  /\ From(c, "lock-source", "journal")
  /\ sources' = [sources EXCEPT ![tx[c]].lock = next[c].lock]
  /\ UNCHANGED <<config, lock, journal, memory>>

WriteJournal(c) ==
  /\ From(c, "journal", "install-config")
  /\ journal' = [tx |-> tx[c], config |-> next[c].config, lock |-> next[c].lock,
                 phase |-> "prepared"]
  /\ UNCHANGED <<config, lock, sources, memory>>

(* installTarget copies the retained source over the target; recovery does   *)
(* so only where the target's hash differs.                                  *)
InstallConfig(c) ==
  /\ From(c, "install-config", "config-phase")
  /\ config' = IF NeedsInstall(c, config, journal.config)
               THEN sources[tx[c]].config ELSE config
  /\ UNCHANGED <<lock, journal, sources, memory>>

InstallLock(c) ==
  /\ From(c, "install-lock", "lock-phase")
  /\ lock' = IF NeedsInstall(c, lock, journal.lock)
             THEN sources[tx[c]].lock ELSE lock
  /\ UNCHANGED <<config, journal, sources, memory>>

Advance(c, step, then, phase) ==
  /\ From(c, step, then)
  /\ journal' = [journal EXCEPT !.phase = phase]
  /\ UNCHANGED <<config, lock, sources, memory>>

AdvanceConfig(c) == Advance(c, "config-phase", "install-lock", "config-written")
AdvanceLock(c) == Advance(c, "lock-phase", "check", LockPhase)

(* Both targets are hashed again before the transaction counts as committed. *)
Check(c) ==
  LET installed == config = journal.config /\ lock = journal.lock
  IN /\ From(c, "check", IF installed THEN "unlink" ELSE "release")
     /\ journal' = IF installed THEN [journal EXCEPT !.phase = "committed"] ELSE journal
     /\ UNCHANGED <<config, lock, sources, memory>>

(* Mutant: the directory goes before the journal that names it. *)
RemoveDirFirst(c) ==
  /\ From(c, "unlink", "rmdir")
  /\ sources' = [sources EXCEPT ![tx[c]] = NoDir]
  /\ UNCHANGED <<config, lock, journal, memory>>

UnlinkJournal(c) ==
  /\ From(c, "unlink", "rmdir")
  /\ journal' = NoJournal
  /\ UNCHANGED <<config, lock, sources, memory>>

(* A commit is done; a recovery goes on to the sweep. *)
RemoveDir(c) ==
  /\ From(c, "rmdir", IF mode[c] = "recover" THEN "sweep" ELSE "release")
  /\ sources' = [sources EXCEPT ![tx[c]] = NoDir]
  /\ UNCHANGED <<config, lock, journal, memory>>

-----------------------------------------------------------------------------
Fault ==
  /\ faults < MaxFaults
  /\ faults' = faults + 1
  /\ UNCHANGED files

(* A system call, a checkpoint or the caller's prepare callback throws: the  *)
(* finally block of withOwnerLock releases the lock, nothing is undone.      *)
Throw(c) ==
  /\ pc[c] \notin {"idle", "release"}
  /\ Goto(c, "release")
  /\ Fault
  /\ UNCHANGED <<holding, memory>>

(* The process dies; its lock record is stale and no longer keeps others out. *)
Crash(c) ==
  /\ pc[c] # "idle"
  /\ Goto(c, "idle")
  /\ OwnerLock!Die({c})
  /\ Forget(c)
  /\ Fault

Step(c) ==
  \/ Recover(c) \/ Sweep(c) \/ ReadConfig(c) \/ ReadLock(c) \/ Return(c)
  \/ WriteConfig(c) \/ MakeDir(c) \/ WriteConfigSource(c) \/ WriteLockSource(c)
  \/ WriteJournal(c) \/ InstallConfig(c) \/ AdvanceConfig(c) \/ InstallLock(c)
  \/ AdvanceLock(c) \/ Check(c) \/ UnlinkJournal(c) \/ RemoveDir(c) \/ Release(c)

Next == \E c \in Client :
          Acquire(c) \/ Reenter(c) \/ Step(c) \/ Throw(c) \/ Crash(c)

Spec == Init /\ [][Next]_vars

(* A client that holds the lock keeps running; nobody has to come back. *)
FairSpec == Spec /\ \A c \in Client : WF_vars(Step(c))

-----------------------------------------------------------------------------
TypeOK ==
  /\ holding \subseteq Client
  /\ config \in File /\ lock \in File
  /\ journal \in Journal \cup {NoJournal}
  /\ sources \in [Tx -> Pair \cup {NoDir}]
  /\ pc \in [Client -> Steps]
  /\ mode \in [Client -> {"commit", "recover"}]
  /\ tx \in [Client -> Tx \cup {NoTx}]
  /\ next \in [Client -> Pair]
  /\ seen \in [Client -> File]
  /\ snapshot \in [Client -> Pair]
  /\ faults \in 0..MaxFaults

(* As long as a journal is on the disk, so are the immutable sources it      *)
(* names, with the hashes it names: recovery is never refused.               *)
JournalKeepsItsSources ==
  Interrupted =>
    sources[journal.tx] = [config |-> journal.config, lock |-> journal.lock]

(* The phase on the disk never claims a file that is not installed, not even *)
(* while a recovery that was itself interrupted writes earlier phases again. *)
PhaseNeverOverclaims ==
  Interrupted =>
    /\ journal.phase # "prepared" => config = journal.config
    /\ journal.phase \in {"lock-written", "committed"} => lock = journal.lock

(* What a journal says is so: its sources exist and its phase was reached.  *)
JournalIsTrue == JournalKeepsItsSources /\ PhaseNeverOverclaims

(* Crashes leave at most one transaction directory behind, ever. *)
AtMostOneDirectory ==
  \A t, u \in Tx : sources[t] # NoDir /\ sources[u] # NoDir => t = u

(* Whatever died, the next client can bring the project in order: the        *)
(* journal it finds is true, and nothing piles up beside it.                 *)
CrashesAreRecoverable == JournalIsTrue /\ AtMostOneDirectory

(* Once nothing fails any more, a client that begins to recover reaches its  *)
(* operation: no interrupted commit or recovery can wedge the project.       *)
RecoverySucceeds ==
  \A c \in Client : pc[c] = "recover" /\ faults = MaxFaults ~> pc[c] = "operate"

(* The pair of files behaves as one value that commits replace at once: the  *)
(* journal's pair from the moment the journal is durable.                    *)
LogicalState ==
  IF Interrupted THEN [config |-> journal.config, lock |-> journal.lock]
                 ELSE [config |-> config, lock |-> lock]
Abstract == INSTANCE ProjectState WITH state <- LogicalState
ImplementsProjectState == Abstract!StateSpec
=============================================================================
