------------------------------ MODULE Projection ------------------------------
(***************************************************************************)
(* drwn write (cli/core/sync.ts, syncRepository): what the configuration   *)
(* plans is projected onto files of the user's, and a write record says    *)
(* which of them, or which fields in them, drwn wrote and with which hash. *)
(*                                                                         *)
(* An item is the unit of ownership: a whole path (a generated file, a     *)
(* skill directory) or a field in a file shared with the user (one MCP     *)
(* server, the instructions block).  Its kind says how it is checked,      *)
(* written and removed.  An item's content stands for its hash.            *)
(*                                                                         *)
(* No lock is held: writes overlap with each other (drwn write --watch in  *)
(* one terminal, drwn use in another) and with the user's editing.         *)
(* Replacing an item takes two steps, because the old file is renamed to   *)
(* its backup, or the old directory removed, before the new one is renamed *)
(* into its place; so does saving the record, through one temporary file   *)
(* that all writes share.  Checking every item before the first write is   *)
(* one step.                                                               *)
(***************************************************************************)
EXTENDS Naturals

CONSTANTS
  Write,       \* processes that run a write
  Order,       \* the items, in the order a write visits them
  Kind,        \* item -> content, guarded, directory, server, codex, block
  Surface,     \* item -> worker, instructions, mcp, skill, hook
  Rendering,   \* what drwn may render for an item
  Plans,       \* the configurations: item -> rendering, or Absent
  Scopes,      \* subset of {"project", "machine"}
  Selections,  \* subset of {"full", "mcp", "skills"}
  Absent,      \* nothing on disk, not planned, not recorded
  Alien,       \* not a directory where a skill directory belongs
  MaxWrites, MaxPlans,   \* bounds
  MaxMishaps   \* bound: edits of the user's, overlaps and crashes, all together

Item == {Order[n] : n \in DOMAIN Order}
Kinds == {"content", "guarded", "directory", "server", "codex", "block"}
Surfaces == {"worker", "instructions", "mcp", "skill", "hook"}

\* What the user writes as the n-th mishap.
Mine == (1..MaxMishaps) \cup {Alien}
Content == Rendering \cup Mine \cup {Absent}
Record == [Item -> Rendering \cup {Absent}]
Nothing == [i \in Item |-> Absent]

ASSUME ProjectionAssumption ==
  /\ Kind \in [Item -> Kinds]
  /\ Surface \in [Item -> Surfaces]
  /\ DOMAIN Order \subseteq Nat
  /\ \A m, n \in DOMAIN Order : m # n => Order[m] # Order[n]
  /\ Plans \subseteq Record
  /\ Rendering \cap (Mine \cup {Absent}) = {}
  /\ Absent \notin Mine /\ Alien \notin Nat
  /\ Scopes \subseteq {"project", "machine"}
  /\ Selections \subseteq {"full", "mcp", "skills"}
  /\ {MaxWrites, MaxPlans, MaxMishaps} \subseteq Nat

VARIABLES
  scope,     \* which of the two kinds of write this behaviour is about
  plan,      \* what the configuration asks for now
  disk,      \* what is at each item
  backups,   \* <<item, content>> moved aside to a .bak file
  record,    \* the write record
  temp,      \* write-record.json.tmp: a record, or Absent
  pc, call,  \* where each write is, and what it knows
  writes, replans, mishaps,   \* bounded counters
  touched,   \* items the user changed since drwn last settled them
  torn       \* a write died, failed half way, or overlapped another one

files == <<disk, backups>>
counters == <<writes, replans, mishaps>>
vars == <<scope, plan, disk, backups, record, temp, pc, call, counters,
          touched, torn>>

Steps == {"idle", "verify", "write", "place", "cleanup", "save", "rename"}
Call == [force : BOOLEAN, only : {"full", "mcp", "skills"},
         goal : Record,    \* the plan when the write began
         prev : Record,    \* the record as it was read
         seen : [Item -> Content],   \* the disk when it was checked
         left : SUBSET Item, \* items still to visit
         out : Record,     \* what the new record will say
         mixed : BOOLEAN]  \* the user or another write got in between

NoCall == [force |-> FALSE, only |-> "full", goal |-> Nothing, prev |-> Nothing,
           seen |-> Nothing, left |-> {}, out |-> Nothing, mixed |-> FALSE]

TypeOK ==
  /\ scope \in Scopes /\ plan \in Plans
  /\ disk \in [Item -> Content]
  /\ backups \subseteq Item \X Content
  /\ record \in Record /\ temp \in Record \cup {Absent}
  /\ pc \in [Write -> Steps] /\ call \in [Write -> Call]
  /\ writes \in 0..MaxWrites /\ replans \in 0..MaxPlans
  /\ mishaps \in 0..MaxMishaps
  /\ touched \subseteq Item /\ torn \in BOOLEAN

Init ==
  /\ scope \in Scopes /\ plan \in Plans
  /\ disk = Nothing /\ backups = {} /\ record = Nothing /\ temp = Absent
  /\ pc = [w \in Write |-> "idle"] /\ call = [w \in Write |-> NoCall]
  /\ writes = 0 /\ replans = 0 /\ mishaps = 0
  /\ touched = {} /\ torn = FALSE

-----------------------------------------------------------------------------
(* Which items a write is about, and how it reads the record.              *)

\* isProjectionOwnershipSelected: Worker files are written whatever is selected.
Selected(i, only) ==
  \/ Surface[i] = "worker"
  \/ only = "full"
  \/ only = "mcp" /\ Surface[i] = "mcp"
  \/ only = "skills" /\ Surface[i] = "skill"

Wanted(c, i) == Selected(i, c.only) /\ c.goal[i] # Absent
Owned(c, i) == c.prev[i] # Absent
\* Mutant: what is there is compared with what is planned, not with the record.
DriftedFromPlan(c, i) == Owned(c, i) /\ disk[i] # c.goal[i]
Drifted(c, i) == Owned(c, i) /\ disk[i] # c.prev[i]

\* Mutant: --force covers the foreign as well.
ForcedConflict(c) ==
  ~c.force /\ \E i \in Item : \/ Wanted(c, i) /\ ~Owned(c, i) /\ disk[i] # Absent
                              \/ Drifted(c, i)

\* assertMachineProjectionPreflight: the foreign is refused even to --force,
\* and drift is looked for in the unselected items as well.
MachineConflict(c) ==
  \/ \E i \in Item : Wanted(c, i) /\ ~Owned(c, i) /\ disk[i] # Absent
  \/ ~c.force /\ \E i \in Item : Drifted(c, i)

\* Mutant: only whole paths are verified.
DriftOfPaths(c, i) ==
  /\ ~c.force /\ Drifted(c, i) /\ disk[i] \notin {Absent, Alien}
  /\ Kind[i] \in {"content", "guarded", "directory"}

\* verifyManagedPaths passes what is gone and what is no directory any more; the
\* fields of JSON files and the instructions block are checked when written.
ProjectDrift(c, i) ==
  /\ ~c.force /\ Drifted(c, i) /\ disk[i] # Absent
  /\ \/ Kind[i] \in {"content", "guarded", "codex"}
     \/ Kind[i] = "directory" /\ disk[i] # Alien

\* A Codex server that is gone is drift if its file is still there.
MayMissDrift(c, i) ==
  ~c.force /\ Kind[i] = "codex" /\ Owned(c, i) /\ disk[i] = Absent

\* Mutants: what the write was not asked for is removed too; a partial write
\* removes nothing.
RemovedOfAll(c) == {i \in Item : Owned(c, i) /\ c.out[i] = Absent}
RemovedByFullWrite(c) ==
  {i \in Item : c.only = "full" /\ Owned(c, i) /\ Selected(i, c.only) /\ c.out[i] = Absent}

\* diffWriteRecord on what was emitted and what retainUnselectedProjectionOwnership
\* keeps: the recorded items that the write no longer emits.
Removed(c) == {i \in Item : Owned(c, i) /\ Selected(i, c.only) /\ c.out[i] = Absent}

\* Mutant: a partial write records only what it was asked for.
RecordOfEmitted(c) == c.out

\* retainUnselectedProjectionOwnership and mergePreservedProjectionOwnership.
NewRecord(c) ==
  [i \in Item |-> IF Selected(i, c.only) THEN c.out[i] ELSE c.prev[i]]

-----------------------------------------------------------------------------
Active(w) == pc[w] # "idle"
Mishap == mishaps < MaxMishaps /\ mishaps' = mishaps + 1

Disturb(ws) == [w \in Write |-> IF w \in ws /\ Active(w)
                                THEN [call[w] EXCEPT !.mixed = TRUE] ELSE call[w]]

\* buildEffectiveState: the plan is read once.
Begin(w, force, only) ==
  LET others == {x \in Write \ {w} : Active(x)} IN
  /\ pc[w] = "idle" /\ writes < MaxWrites
  /\ pc' = [pc EXCEPT ![w] = "verify"]
  /\ call' = [Disturb(others) EXCEPT
                ![w] = [NoCall EXCEPT !.force = force, !.only = only,
                                      !.goal = plan, !.mixed = others # {}]]
  /\ writes' = writes + 1
  /\ IF others = {} THEN UNCHANGED <<mishaps, torn>>
     ELSE Mishap /\ torn' = TRUE
  /\ UNCHANGED <<scope, plan, files, record, temp, replans, touched>>

\* What the write has read of the record and the disk when it checks them.
Reading(w) ==
  [call[w] EXCEPT !.prev = record, !.seen = disk,
                  !.left = {i \in Item : Selected(i, call[w].only)}]

\* loadWriteRecord and the checks; nothing has been written yet.
Verify(w) ==
  LET c == Reading(w) IN
  /\ pc[w] = "verify"
  /\ IF scope = "machine" THEN ~MachineConflict(c)
                          ELSE \A i \in Item : ~ProjectDrift(c, i)
  /\ pc' = [pc EXCEPT ![w] = "write"]
  /\ call' = [call EXCEPT ![w] = c]
  /\ UNCHANGED <<scope, plan, files, record, temp, counters, touched, torn>>

Refuse(w) ==
  LET c == Reading(w) IN
  /\ pc[w] = "verify"
  /\ IF scope = "machine" THEN MachineConflict(c)
                          ELSE \E i \in Item : ProjectDrift(c, i) \/ MayMissDrift(c, i)
  /\ pc' = [pc EXCEPT ![w] = "idle"]
  /\ call' = [call EXCEPT ![w] = NoCall]
  /\ UNCHANGED <<scope, plan, files, record, temp, counters, touched, torn>>

\* The write throws, or its process dies, with whatever it did so far on disk.
Abandon(w) ==
  /\ pc' = [pc EXCEPT ![w] = "idle"]
  /\ call' = [call EXCEPT ![w] = NoCall]
  /\ torn' = TRUE

-----------------------------------------------------------------------------
(* The items, one after the other.                                         *)

\* planInstructionProjection, even under --force: a block that nobody recorded.
\* It and the merges of server fields refuse drift that --force does not cover.
Throws(c, i) ==
  \/ Kind[i] = "block" /\ ~Owned(c, i) /\ disk[i] # Absent
  \/ Kind[i] = "block" /\ Drifted(c, i) /\ ~c.force
  \/ Kind[i] = "server" /\ Wanted(c, i) /\ Drifted(c, i) /\ ~c.force

\* Mutant: it is left alone even if drwn wrote it.
SkipsOwned(c, i) == Kind[i] = "guarded" /\ disk[i] # Absent /\ ~c.force

\* syncHooks leaves a cursor hooks.json that it does not own alone.
Skips(c, i) ==
  Kind[i] = "guarded" /\ ~Owned(c, i) /\ disk[i] # Absent /\ ~c.force

\* An unwanted block goes now; every other unwanted item waits for the cleanup.
Rewrites(c, i) ==
  /\ ~Throws(c, i)
  /\ \/ Wanted(c, i) /\ ~Skips(c, i) /\ disk[i] # c.goal[i]
     \/ ~Wanted(c, i) /\ Kind[i] = "block" /\ disk[i] # Absent

First(items) ==
  Order[CHOOSE n \in DOMAIN Order :
          Order[n] \in items /\ \A m \in DOMAIN Order : m < n => Order[m] \notin items]

At(w, step) == pc[w] = step /\ call[w].left # {}
Here(w) == First(call[w].left)

\* The item is done; the record will say what is planned for it.
Emit(c, i) == [c EXCEPT !.left = @ \ {i}, !.out[i] = c.goal[i]]

\* Nothing to do: the content is right, unwanted, or the user's own.
Pass(w) ==
  LET c == call[w] i == Here(w) IN
  /\ At(w, "write") /\ ~Throws(c, i) /\ ~Rewrites(c, i)
  /\ call' = [call EXCEPT ![w] = IF Wanted(c, i) /\ ~Skips(c, i) THEN Emit(c, i)
                                 ELSE [c EXCEPT !.left = @ \ {i}]]
  /\ UNCHANGED <<scope, plan, files, record, temp, pc, counters, touched, torn>>

\* backupExistingPath renames the file; materializeDir removes the directory.
Displace(w) ==
  LET c == call[w] i == Here(w) IN
  /\ At(w, "write") /\ Rewrites(c, i)
  /\ disk' = [disk EXCEPT ![i] = Absent]
  /\ backups' = IF Kind[i] = "directory" \/ disk[i] = Absent THEN backups
                ELSE backups \cup {<<i, disk[i]>>}
  /\ pc' = [pc EXCEPT ![w] = "place"]
  /\ UNCHANGED <<scope, plan, record, temp, call, counters, touched, torn>>

\* The rename overwrites a file that has come up meanwhile, but no directory.
Place(w) ==
  LET c == call[w] i == Here(w) IN
  /\ At(w, "place") /\ ~(Kind[i] = "directory" /\ disk[i] # Absent)
  /\ disk' = [disk EXCEPT ![i] = IF Wanted(c, i) THEN c.goal[i] ELSE Absent]
  /\ pc' = [pc EXCEPT ![w] = "write"]
  /\ call' = [call EXCEPT ![w] = IF Wanted(c, i) THEN Emit(c, i)
                                 ELSE [c EXCEPT !.left = @ \ {i}]]
  /\ UNCHANGED <<scope, plan, backups, record, temp, counters, touched, torn>>

Fail(w) ==
  LET c == call[w] i == Here(w) IN
  /\ \/ At(w, "write") /\ Throws(c, i)
     \/ At(w, "place") /\ Kind[i] = "directory" /\ disk[i] # Absent
  /\ Abandon(w)
  /\ UNCHANGED <<scope, plan, files, record, temp, counters, touched>>

\* diffWriteRecord: what to remove is known once everything has been emitted.
Diff(w) ==
  /\ pc[w] = "write" /\ call[w].left = {}
  /\ pc' = [pc EXCEPT ![w] = "cleanup"]
  /\ call' = [call EXCEPT ![w].left = Removed(call[w])]
  /\ UNCHANGED <<scope, plan, files, record, temp, counters, touched, torn>>

\* cleanupRemovedManagedPaths removes what has the recorded hash or is forced,
\* and keeps owning what it preserves.
CleanUp(w) ==
  LET c == call[w] i == Here(w)
      gone == disk[i] = Absent \/ Kind[i] = "block"
      removes == ~gone /\ (c.force \/ disk[i] = c.prev[i])
  IN
  /\ At(w, "cleanup")
  /\ disk' = IF removes THEN [disk EXCEPT ![i] = Absent] ELSE disk
  /\ backups' = IF removes /\ Kind[i] \in {"server", "codex"}
                THEN backups \cup {<<i, disk[i]>>} ELSE backups
  /\ call' = [call EXCEPT ![w] =
       [c EXCEPT !.left = @ \ {i},
                 !.out[i] = IF gone \/ removes THEN Absent ELSE c.prev[i]]]
  /\ UNCHANGED <<scope, plan, record, temp, pc, counters, touched, torn>>

-----------------------------------------------------------------------------
(* saveWriteRecord, the last thing a write does.                           *)

Save(w) ==
  /\ pc[w] = "cleanup" /\ call[w].left = {}
  /\ temp' = NewRecord(call[w])
  /\ pc' = [pc EXCEPT ![w] = "rename"]
  /\ UNCHANGED <<scope, plan, files, record, call, counters, touched, torn>>

\* A forced write that nothing mixed with leaves no doubt about these.
Settled(c) ==
  {i \in Item : Selected(i, c.only) /\ (c.goal[i] # Absent \/ Owned(c, i))}

Rename(w) ==
  LET c == call[w] IN
  /\ pc[w] = "rename" /\ temp # Absent
  /\ record' = temp /\ temp' = Absent
  /\ touched' = IF c.force /\ ~c.mixed THEN touched \ Settled(c)
                ELSE touched
  /\ pc' = [pc EXCEPT ![w] = "idle"]
  /\ call' = [call EXCEPT ![w] = NoCall]
  /\ UNCHANGED <<scope, plan, files, counters, torn>>

\* Another write has renamed the shared temporary file.
RenameFails(w) ==
  /\ pc[w] = "rename" /\ temp = Absent
  /\ Abandon(w)
  /\ UNCHANGED <<scope, plan, files, record, temp, counters, touched>>

Crash(w) ==
  /\ pc[w] \in Steps \ {"idle", "verify"}
  /\ Mishap /\ Abandon(w)
  /\ UNCHANGED <<scope, plan, files, record, temp, writes, replans, touched>>

-----------------------------------------------------------------------------
(* The user.                                                               *)

Puts(i, x) ==
  /\ disk' = [disk EXCEPT ![i] = x]
  /\ Mishap
  /\ touched' = touched \cup {i}
  /\ call' = Disturb(Write)
  /\ UNCHANGED <<scope, plan, backups, record, temp, pc, writes, replans, torn>>

Edit(i) == Puts(i, mishaps + 1)
Delete(i) == disk[i] # Absent /\ Puts(i, Absent)
Supplant(i) == Kind[i] = "directory" /\ Puts(i, Alien)

\* drwn use, config, card and the other commands that change what is planned.
Replan ==
  /\ replans < MaxPlans
  /\ plan' \in Plans \ {plan}
  /\ replans' = replans + 1
  /\ UNCHANGED <<scope, files, record, temp, pc, call, writes, mishaps, touched,
                 torn>>

WriteStep(w) ==
  \/ \E force \in BOOLEAN, only \in Selections : Begin(w, force, only)
  \/ Verify(w) \/ Refuse(w)
  \/ Pass(w) \/ Displace(w) \/ Place(w) \/ Fail(w)
  \/ Diff(w) \/ CleanUp(w)
  \/ Save(w) \/ Rename(w) \/ RenameFails(w)
  \/ Crash(w)

Next ==
  \/ \E w \in Write : WriteStep(w)
  \/ \E i \in Item : Edit(i) \/ Delete(i) \/ Supplant(i)
  \/ Replan

Spec == Init /\ [][Next]_vars

-----------------------------------------------------------------------------
(* Properties.                                                             *)

Touches(w) == Displace(w) \/ Place(w) \/ CleanUp(w)

\* A machine write, forced or not, leaves alone whatever stood at a place that
\* the record did not name when it checked (README: foreign destinations fail,
\* including under --force).  Only what comes up after the check is at risk.
ForeignIsKept ==
  [][\A w \in Write, i \in Item :
       scope = "machine" /\ disk'[i] # disk[i] /\ Touches(w) /\ ~Owned(call[w], i)
       => call[w].seen[i] = Absent]_vars

\* What the user had put on disk when an unforced write checked it survives that
\* write.  In a project there are two exceptions: what nobody had recorded is
\* replaced (a file is backed up, a directory is not), and so is a skill
\* directory that the user replaced by a file or a link.
UserContentSurvives ==
  [][\A w \in Write, i \in Item :
       disk'[i] # disk[i] /\ disk[i] \in Mine /\ Touches(w) /\ ~call[w].force =>
         \/ call[w].seen[i] # disk[i]
         \/ /\ scope = "project" /\ ~Owned(call[w], i)
            /\ Kind[i] = "directory" \/ <<i, disk[i]>> \in backups'
         \/ scope = "project" /\ disk[i] = Alien]_vars

\* A partial write (--mcp-only, --skills-only) changes neither what it was not
\* asked for nor, if nothing mixed with it, who owns it.
PartialKeepsTheRest ==
  [][\A w \in Write, i \in Item : ~Selected(i, call[w].only) =>
       /\ disk'[i] # disk[i] => ~Touches(w)
       /\ Rename(w) /\ ~call[w].mixed => record'[i] = record[i]]_vars

\* A write changes only what it was asked for and may own.
WritesSpareTheRest == ForeignIsKept /\ UserContentSurvives /\ PartialKeepsTheRest

\* A write that completes with nothing mixed in leaves each selected item as
\* planned and recorded; an item no longer planned is gone, or drifted and still
\* owned; and a hook file of the user's is neither written nor claimed.
CompletedWriteIsExact ==
  [][\A w \in Write, i \in Item :
       LET c == call[w] IN
       Rename(w) /\ ~c.mixed /\ Selected(i, c.only) =>
         IF c.goal[i] # Absent
         THEN \/ disk[i] = c.goal[i] /\ record'[i] = c.goal[i]
              \/ Skips(c, i) /\ disk[i] = c.seen[i] /\ record'[i] = Absent
         ELSE \/ disk[i] = Absent /\ record'[i] = Absent
              \/ Drifted(c, i) /\ ~c.force /\ record'[i] = c.prev[i]
              \/ ~Owned(c, i) /\ disk[i] = c.seen[i] /\ record'[i] = Absent]_vars

\* Between writes, and as long as none died, failed or overlapped another, the
\* record says exactly what is on disk of all that the user left alone: no
\* output of an earlier configuration is forgotten.
RecordMatchesDisk ==
  /\ TypeOK
  /\ (\A w \in Write : ~Active(w)) /\ ~torn =>
       \A i \in Item \ touched : disk[i] = record[i]

\* A write is refused, or fails half way, only if the user changed something or
\* an earlier write was torn: drwn does not trip over its own output.
RefusalIsExplained ==
  [][\A w \in Write : Refuse(w) \/ Fail(w) => touched # {} \/ torn]_vars

\* docs/cli-quickref.md on machine projection: "Removal deletes only unchanged
\* prior-owned bytes or fields; foreign and drifted state is preserved".
RemovalDeletesOnlyUnchanged ==
  [][\A w \in Write, i \in Item :
       CleanUp(w) /\ disk'[i] # disk[i] => disk[i] = call[w].prev[i]]_vars
=============================================================================
