---------------------------- MODULE InventoryStore ----------------------------
(***************************************************************************)
(* The standalone inventory on disk: skill packages as immutable version   *)
(* directories behind a current pointer (cli/core/skill-packages.ts), MCP  *)
(* records (cli/core/mcp-library.ts), the tombstones through which both    *)
(* are removed (cli/core/inventory-tombstones.ts) and the garbage          *)
(* collection that recovers them (cli/core/inventory-gc.ts).               *)
(*                                                                         *)
(* One file system effect per step.  Writers hold the inventory lock, so   *)
(* what they check before their first effect is part of the step that      *)
(* begins them; a writer that is refused changes nothing.  A process may   *)
(* die, and a call may throw, between any two effects.  Readers of the MCP *)
(* library take no lock.                                                   *)
(***************************************************************************)
EXTENDS Naturals

CONSTANTS
  Task,       \* processes
  Package, Version, Bytes,
  Server,     \* ids of MCP records
  Id,         \* tombstone ids; one that left the disk may be drawn again
  Temp,       \* names of temporary files
  Absent,     \* no such version, no pointer
  None,       \* no task, no path
  MaxFaults   \* bound: crashes and thrown errors in one behaviour

PackagePath == [kind : {"package"}, q : Package]
VersionPath == [kind : {"version"}, q : Package, v : Version]
ServerPath == [kind : {"server"}, i : Server]
Path == PackagePath \cup VersionPath \cup ServerPath

StoreAssumption ==
  /\ Absent \notin Version \cup Bytes
  /\ None \notin Task
  /\ None \notin Package \cup Server \cup Id \cup Temp \cup Path
  /\ MaxFaults \in Nat

VARIABLES
  lock,       \* who holds the inventory lock
  dirs,       \* the package roots that exist
  contents,   \* the bytes in each version directory
  current,    \* the pointer of each package
  records,    \* the MCP records that exist
  temps,      \* temporary files among the MCP records
  metadata,   \* <id>.json of each tombstone: the original path
  payload,    \* the tombstones whose <id>.payload exists
  pc, call,   \* where each task is, and what it works on
  read,       \* how the last read of the MCP library ended
  faults      \* crashes and errors so far

packages == <<dirs, contents, current>>
library == <<records, temps>>
tombstones == <<metadata, payload>>
vars == <<lock, dirs, contents, current, records, temps, metadata, payload,
          pc, call, read, faults>>

Steps == {"idle", "mkdir", "place", "point", "draft", "publish", "mark", "move",
          "empty", "unmark", "recover", "sweep", "read"}
Call == [op : {"none", "commit", "record", "remove", "gc", "read"},
         q : Package \cup {None}, v : Version \cup {Absent}, b : Bytes \cup {Absent},
         i : Server \cup {None}, path : Path \cup {None}, id : Id \cup {None},
         n : Temp \cup {None}, todo : SUBSET (Id \cup Server)]
NoCall == [op |-> "none", q |-> None, v |-> Absent, b |-> Absent, i |-> None,
           path |-> None, id |-> None, n |-> None, todo |-> {}]

Init ==
  /\ lock = None
  /\ dirs = {}
  /\ contents = [q \in Package |-> [v \in Version |-> Absent]]
  /\ current = [q \in Package |-> Absent]
  /\ records = {} /\ temps = {}
  /\ metadata = [d \in Id |-> None] /\ payload = {}
  /\ pc = [t \in Task |-> "idle"]
  /\ call = [t \in Task |-> NoCall]
  /\ read = [t \in Task |-> "none"]
  /\ faults = 0

Goto(t, step) == pc' = [pc EXCEPT ![t] = step]
Begin(t, step, how) ==
  /\ pc[t] = "idle" /\ lock = None
  /\ lock' = t
  /\ Goto(t, step)
  /\ call' = [call EXCEPT ![t] = how]
  /\ UNCHANGED <<packages, library, tombstones, read, faults>>

End(t) ==
  /\ Goto(t, "idle")
  /\ call' = [call EXCEPT ![t] = NoCall]
  /\ lock' = IF lock = t THEN None ELSE lock

-----------------------------------------------------------------------------
(* listInstalledSkillBundles throws unless every pointer leads somewhere. *)
CurrentIsPresent == \A q \in Package : current[q] # Absent => contents[q][current[q]] # Absent

(* commitSkillBundleRoot: install what is absent, or update what is there;  *)
(* an update to the very same bytes does nothing.                           *)
StartCommit(t) == \E q \in Package, v \in Version, b \in Bytes :
  /\ CurrentIsPresent
  /\ ~ (current[q] = v /\ contents[q][v] = b)
  /\ Begin(t, "mkdir", [NoCall EXCEPT !.op = "commit", !.q = q, !.v = v, !.b = b])

(* Mutant: the version directory is replaced whatever it holds. *)
PlaceAnyway(t) == "place"

(* A version that is there is kept if it has the same bytes. *)
AfterMkdir(t) == LET bytes == contents[call[t].q][call[t].v] IN
  IF bytes = Absent THEN "place" ELSE IF bytes = call[t].b THEN "point" ELSE "idle"

MakeRoot(t) ==
  /\ pc[t] = "mkdir"
  /\ dirs' = dirs \cup {call[t].q}
  /\ IF AfterMkdir(t) = "idle" THEN End(t) ELSE Goto(t, AfterMkdir(t)) /\ UNCHANGED <<call, lock>>
  /\ UNCHANGED <<contents, current, library, tombstones, read, faults>>

Place(t) ==
  /\ pc[t] = "place"
  /\ contents' = [contents EXCEPT ![call[t].q][call[t].v] = call[t].b]
  /\ Goto(t, "point")
  /\ UNCHANGED <<lock, dirs, current, library, tombstones, call, read, faults>>

Point(t) ==
  /\ pc[t] = "point"
  /\ current' = [current EXCEPT ![call[t].q] = call[t].v]
  /\ End(t)
  /\ UNCHANGED <<dirs, contents, library, tombstones, read, faults>>

-----------------------------------------------------------------------------
(* MCP records, created or updated through a temporary file next to them. *)
StartRecord(t) == \E i \in Server :
  Begin(t, "draft", [NoCall EXCEPT !.op = "record", !.i = i])

Draft(t) ==
  /\ pc[t] = "draft"
  /\ \E n \in Temp \ temps : temps' = temps \cup {n} /\ call' = [call EXCEPT ![t].n = n]
  /\ Goto(t, "publish")
  /\ UNCHANGED <<lock, packages, records, tombstones, read, faults>>

Publish(t) ==
  /\ pc[t] = "publish"
  /\ records' = records \cup {call[t].i}
  /\ temps' = temps \ {call[t].n}
  /\ End(t)
  /\ UNCHANGED <<packages, tombstones, read, faults>>

(* loadMcpLibrary lists the directory, refuses what is not a record, then   *)
(* reads the records one by one.                                            *)
StartRead(t) ==
  /\ pc[t] = "idle"
  /\ IF temps = {}
     THEN /\ Goto(t, "read")
          /\ call' = [call EXCEPT ![t] = [NoCall EXCEPT !.op = "read", !.todo = records]]
          /\ read' = [read EXCEPT ![t] = "none"]
     ELSE read' = [read EXCEPT ![t] = "failed"] /\ UNCHANGED <<pc, call>>
  /\ UNCHANGED <<lock, packages, library, tombstones, faults>>

ReadRecord(t) ==
  /\ pc[t] = "read"
  /\ IF call[t].todo = {}
     THEN End(t) /\ read' = [read EXCEPT ![t] = "done"]
     ELSE \E i \in call[t].todo :
            IF i \in records
            THEN call' = [call EXCEPT ![t].todo = @ \ {i}] /\ UNCHANGED <<pc, lock, read>>
            ELSE End(t) /\ read' = [read EXCEPT ![t] = "failed"]
  /\ UNCHANGED <<packages, library, tombstones, faults>>

-----------------------------------------------------------------------------
(* tombstoneInventoryPath: name the path, rename it away, delete it, forget. *)
Free == {d \in Id : metadata[d] = None /\ d \notin payload}
OnDisk(path) ==
  \/ path.kind = "package" /\ path.q \in dirs
  \/ path.kind = "version" /\ contents[path.q][path.v] # Absent
  \/ path.kind = "server" /\ path.i \in records

StartUninstall(t) == \E q \in Package :
  /\ current[q] # Absent /\ Free # {}
  /\ Begin(t, "mark", [NoCall EXCEPT !.op = "remove", !.path = [kind |-> "package", q |-> q]])

StartRemove(t) == \E i \in records :
  /\ Free # {}
  /\ Begin(t, "mark", [NoCall EXCEPT !.op = "remove", !.path = [kind |-> "server", i |-> i]])

Mark(t) ==
  /\ pc[t] = "mark"
  /\ \E d \in Free :
       /\ metadata' = [metadata EXCEPT ![d] = call[t].path]
       /\ call' = [call EXCEPT ![t].id = d]
  /\ Goto(t, "move")
  /\ UNCHANGED <<lock, packages, library, payload, read, faults>>

(* Mutant: what is in the package root is moved, the root stays. *)
TakeVersions(q) ==
  /\ contents' = [contents EXCEPT ![q] = [v \in Version |-> Absent]]
  /\ current' = [current EXCEPT ![q] = Absent]
  /\ UNCHANGED <<dirs, records>>

TakePackage(q) ==
  /\ dirs' = dirs \ {q}
  /\ contents' = [contents EXCEPT ![q] = [v \in Version |-> Absent]]
  /\ current' = [current EXCEPT ![q] = Absent]
  /\ UNCHANGED records

TakeVersion(q, v) ==
  /\ contents' = [contents EXCEPT ![q][v] = Absent]
  /\ UNCHANGED <<dirs, current, records>>

TakeRecord(i) ==
  /\ records' = records \ {i}
  /\ UNCHANGED packages

Move(t) == LET path == call[t].path IN
  /\ pc[t] = "move"
  /\ \/ path.kind = "package" /\ TakePackage(path.q)
     \/ path.kind = "version" /\ TakeVersion(path.q, path.v)
     \/ path.kind = "server" /\ TakeRecord(path.i)
  /\ payload' = payload \cup {call[t].id}
  /\ Goto(t, "empty")
  /\ UNCHANGED <<lock, temps, metadata, call, read, faults>>

Empty(t) ==
  /\ pc[t] = "empty"
  /\ payload' = payload \ {call[t].id}
  /\ Goto(t, "unmark")
  /\ UNCHANGED <<lock, packages, library, metadata, call, read, faults>>

(* Mutant: the operation ends without releasing the lock. *)
RemovedUnderLock(t) == Goto(t, "idle") /\ UNCHANGED <<call, lock>>

(* A collection goes on with its next candidate, a removal is done. *)
Removed(t) ==
  IF call[t].op = "gc"
  THEN Goto(t, "sweep") /\ call' = [call EXCEPT ![t].path = None, ![t].id = None] /\ UNCHANGED lock
  ELSE End(t)

Unmark(t) ==
  /\ pc[t] = "unmark"
  /\ metadata' = [metadata EXCEPT ![call[t].id] = None]
  /\ Removed(t)
  /\ UNCHANGED <<packages, library, payload, read, faults>>

-----------------------------------------------------------------------------
(* inspectInventoryTombstones throws where a tombstone has both states, and *)
(* where a payload has no metadata.                                         *)
Ambiguous(d) == d \in payload /\ metadata[d] # None /\ OnDisk(metadata[d])
PayloadIsNamed == \A d \in payload : metadata[d] # None

StartGc(t) ==
  /\ CurrentIsPresent /\ PayloadIsNamed
  /\ \A d \in Id : ~ Ambiguous(d)
  /\ Begin(t, "recover",
       [NoCall EXCEPT !.op = "gc", !.todo = {d \in Id : metadata[d] # None}])

(* Mutants: metadata is forgotten at once; any version may be swept. *)
Forgotten(d) == {}
OnDiskVersion(q, v) == contents[q][v] # Absent

(* The payload is deleted before the metadata that names it. *)
Dropped(d) == {d} \cap payload

Recover(t) ==
  /\ pc[t] = "recover"
  /\ IF call[t].todo = {}
     THEN Goto(t, "sweep") /\ UNCHANGED <<call, tombstones>>
     ELSE \E d \in call[t].todo :
            IF Dropped(d) # {}
            THEN payload' = payload \ Dropped(d) /\ UNCHANGED <<pc, call, metadata>>
            ELSE /\ metadata' = [metadata EXCEPT ![d] = None]
                 /\ call' = [call EXCEPT ![t].todo = @ \ {d}]
                 /\ UNCHANGED <<pc, payload>>
  /\ UNCHANGED <<lock, packages, library, read, faults>>

(* Whether a file is old enough to go is left open. *)
Superseded(q, v) == contents[q][v] # Absent /\ v # current[q]

SweepTemp(t) ==
  /\ pc[t] = "sweep"
  /\ \E n \in temps : temps' = temps \ {n}
  /\ UNCHANGED <<lock, packages, records, tombstones, pc, call, read, faults>>

SweepVersion(t) == \E q \in Package, v \in Version :
  /\ pc[t] = "sweep" /\ Free # {}
  /\ Superseded(q, v)
  /\ call' = [call EXCEPT ![t].path = [kind |-> "version", q |-> q, v |-> v]]
  /\ Goto(t, "mark")
  /\ UNCHANGED <<lock, packages, library, tombstones, read, faults>>

EndGc(t) ==
  /\ pc[t] = "sweep"
  /\ End(t)
  /\ UNCHANGED <<packages, library, tombstones, read, faults>>

-----------------------------------------------------------------------------
(* A call throws: a failed rename takes its metadata back, a failed write   *)
(* its temporary file; a removal that cannot clean up leaves the rest.      *)
Throw(t) ==
  /\ faults < MaxFaults /\ faults' = faults + 1
  /\ pc[t] \notin {"idle", "read"}
  /\ metadata' = IF pc[t] = "move" THEN [metadata EXCEPT ![call[t].id] = None] ELSE metadata
  /\ temps' = IF pc[t] = "publish" THEN temps \ {call[t].n} ELSE temps
  /\ IF pc[t] \in {"empty", "unmark"} THEN Removed(t) ELSE End(t)
  /\ UNCHANGED <<packages, records, payload, read>>

(* A process dies; its lock is recovered as a stale one. *)
Crash(t) ==
  /\ faults < MaxFaults /\ faults' = faults + 1
  /\ pc[t] \notin {"idle", "read"}
  /\ End(t)
  /\ UNCHANGED <<packages, library, tombstones, read>>

Write(t) ==
  \/ StartCommit(t) \/ MakeRoot(t) \/ Place(t) \/ Point(t)
  \/ StartRecord(t) \/ Draft(t) \/ Publish(t)
Delete(t) ==
  \/ StartUninstall(t) \/ StartRemove(t) \/ Mark(t) \/ Move(t) \/ Empty(t) \/ Unmark(t)
Collect(t) ==
  \/ StartGc(t) \/ Recover(t) \/ SweepTemp(t) \/ SweepVersion(t) \/ EndGc(t)

Next == \E t \in Task :
  \/ Write(t) \/ Delete(t) \/ Collect(t)
  \/ StartRead(t) \/ ReadRecord(t) \/ Throw(t) \/ Crash(t)

Spec == Init /\ [][Next]_vars

-----------------------------------------------------------------------------
TypeOK ==
  /\ lock \in Task \cup {None}
  /\ dirs \in SUBSET Package
  /\ contents \in [Package -> [Version -> Bytes \cup {Absent}]]
  /\ current \in [Package -> Version \cup {Absent}]
  /\ records \in SUBSET Server /\ temps \in SUBSET Temp
  /\ metadata \in [Id -> Path \cup {None}] /\ payload \in SUBSET Id
  /\ pc \in [Task -> Steps] /\ call \in [Task -> Call]
  /\ read \in [Task -> {"none", "done", "failed"}]
  /\ faults \in 0..MaxFaults
  /\ \A t \in Task : lock = t <=> pc[t] \notin {"idle", "read"}

(* What is found at a path whose removal was cut short is whole: either     *)
(* the path or the payload is there, or nothing, unless it was put there    *)
(* again after a fault.                                                     *)
DebrisNeedsFault ==
  faults = 0 =>
    /\ \A d \in Id : ~ Ambiguous(d)
    /\ lock = None =>
         /\ temps = {} /\ payload = {} /\ \A d \in Id : metadata[d] = None
         /\ \A q \in dirs : current[q] # Absent

(* At every moment, a crash included, a pointer leads to a whole version, a *)
(* payload out of sight is named by metadata that tells where it belongs,   *)
(* and nothing half done is left over without a fault.                      *)
StoreIsWhole == TypeOK /\ CurrentIsPresent /\ PayloadIsNamed /\ DebrisNeedsFault

(* A version directory is never overwritten: its bytes only go.             *)
VersionsAreImmutable ==
  [][\A q \in Package, v \in Version :
       contents'[q][v] \in {contents[q][v]} \cup (IF contents[q][v] = Absent THEN Bytes ELSE {Absent})]_vars

(* test/core-inventory-gc.test.ts:143: "valid interrupted tombstones are    *)
(* planned and recovered": what an interrupted removal leaves never keeps   *)
(* the collection from running.                                             *)
TombstonesAreRecoverable == lock = None => \A d \in Id : ~ Ambiguous(d)

(* docs/cli-quickref.md:712: MCP servers "live as record-level atomic       *)
(* files": reading them ends with the records, whatever is being written.   *)
LibraryIsReadable == \A t \in Task : read[t] # "failed"
=============================================================================
