------------------------- MODULE InventoryReferences -------------------------
(***************************************************************************)
(* What keeps a project's references pointing at installed skills: the     *)
(* commands that install, update and uninstall standalone skill packages   *)
(* (cli/commands/machine/skill.ts, cli/core/skill-packages.ts), that       *)
(* include a skill in a project (cli/core/project-writes.ts), and that     *)
(* register, unregister and prune projects (cli/core/project-registry.ts), *)
(* with the reference scan of cli/core/inventory-references.ts.            *)
(*                                                                         *)
(* One file read or write per step.  Every command but prune changes files *)
(* only under the inventory lock, for which nobody waits; what a command   *)
(* read before it asked for the lock stays in its memory.  The project     *)
(* locks nest inside the inventory lock and add nothing here.              *)
(***************************************************************************)
EXTENDS FiniteSets, Naturals

CONSTANTS
  Task,       \* commands in progress
  Project,    \* project roots
  Package, Version, Skill,
  Exports,    \* the skills that each version there is of a package exports
  Ops,        \* the commands that are run
  MaxCommands,   \* bound: how many of them are started
  Absent,     \* no version: the package is not installed
  None        \* no task, project or package

ASSUME ReferencesAssumption ==
  /\ DOMAIN Exports = Package
  /\ \A q \in Package : /\ DOMAIN Exports[q] \subseteq Version
                         /\ Exports[q] \in [DOMAIN Exports[q] -> SUBSET Skill]
  /\ Absent \notin Version
  /\ None \notin Task \cup Project \cup Package
  /\ MaxCommands \in Nat

VARIABLES
  lock,       \* who holds the inventory lock
  live,       \* the installed version of each package
  registry,   \* projects.json
  presence,   \* each project: present, bare (without config.json) or gone
  refs,       \* the skills its config names
  pc, call,   \* where each command is, and what it keeps in memory
  started,    \* bounded counter: the commands so far
  rewritten   \* history: a prune has found a stale root

files == <<live, registry, presence, refs>>
vars == <<lock, live, registry, presence, refs, pc, call, rewritten, started>>

Unlocked == {"idle", "lock", "stat"}
Locked == {"check", "inspect", "recheck", "validate", "include", "names",
           "list", "scan", "commit", "unlock"}

Call == [op : Ops \cup {"none"}, p : Project \cup {None}, q : Package \cup {None},
         v : Version \cup {Absent}, want : SUBSET Skill,
         seen : SUBSET (Skill \X Package), ids : SUBSET Skill, todo : SUBSET Project,
         found : SUBSET Skill, index : SUBSET Project, stale : SUBSET Project,
         gone : BOOLEAN]
NoCall == [op |-> "none", p |-> None, q |-> None, v |-> Absent, want |-> {},
           seen |-> {}, ids |-> {}, todo |-> {}, found |-> {}, index |-> {},
           stale |-> {}, gone |-> FALSE]

ExportedBy(q) == IF live[q] = Absent THEN {} ELSE Exports[q][live[q]]
Installed == UNION {ExportedBy(q) : q \in Package}
Owners == {o \in Skill \X Package : o[1] \in ExportedBy(o[2])}

Init ==
  /\ lock = None
  /\ live \in [Package -> Version \cup {Absent}]
  /\ \A q \in Package : live[q] \in DOMAIN Exports[q] \cup {Absent}
  /\ \A q, r \in Package : q # r => ExportedBy(q) \cap ExportedBy(r) = {}
  /\ registry \in SUBSET Project
  /\ presence = [p \in Project |-> "present"]
  /\ refs \in [Project -> SUBSET Installed]
  /\ \A p \in Project : p \in registry \/ refs[p] = {}
  /\ pc = [t \in Task |-> "idle"]
  /\ call = [t \in Task |-> NoCall]
  /\ rewritten = FALSE /\ started = 0

Goto(t, step) == pc' = [pc EXCEPT ![t] = step]
End(t) == Goto(t, "idle") /\ call' = [call EXCEPT ![t] = NoCall]

-----------------------------------------------------------------------------
(* The commands up to the inventory lock. *)
Begin(t, op, step, how) ==
  /\ op \in Ops /\ pc[t] = "idle"
  /\ started < MaxCommands /\ started' = started + 1
  /\ Goto(t, step)
  /\ call' = [call EXCEPT ![t] = [how EXCEPT !.op = op]]
  /\ UNCHANGED <<files, lock, rewritten>>

StartRegister(t) == \E p \in Project :
  presence[p] = "present" /\ Begin(t, "register", "lock", [NoCall EXCEPT !.p = p])

StartUnregister(t) == \E p \in Project :
  Begin(t, "unregister", "lock", [NoCall EXCEPT !.p = p])

StartPrune(t) == Begin(t, "prune", "stat", [NoCall EXCEPT !.todo = registry])

(* findLibrarySkill names the package that exports the skill. *)
StartInclude(t) == \E p \in Project, o \in Owners :
  Begin(t, "include", "lock", [NoCall EXCEPT !.p = p, !.q = o[2], !.want = {o[1]}])

(* currentSkillRecords and the preflight of commitSkillBundleRoot.  With a  *)
(* project, `add skill` includes what it has just installed.                *)
StartInstall(t) ==
  \E q \in Package, p \in Project \cup {None} : \E v \in DOMAIN Exports[q] :
  /\ live[q] = Absent /\ Exports[q][v] \cap Installed = {}
  /\ Begin(t, "install", "lock",
       [NoCall EXCEPT !.q = q, !.v = v, !.p = p, !.want = Exports[q][v], !.seen = Owners])

StartUpdate(t) == \E q \in Package : \E v \in DOMAIN Exports[q] :
  /\ live[q] # Absent /\ Exports[q][v] \cap Installed \subseteq ExportedBy(q)
  /\ Begin(t, "update", "lock", [NoCall EXCEPT !.q = q, !.v = v, !.seen = Owners])

(* The exported ids the scan will look for are those of this moment. *)
StartUninstall(t) == \E q \in Package :
  /\ live[q] # Absent
  /\ Begin(t, "uninstall", "lock", [NoCall EXCEPT !.q = q, !.ids = ExportedBy(q)])

Start(t) ==
  \/ StartRegister(t) \/ StartUnregister(t) \/ StartPrune(t) \/ StartInclude(t)
  \/ StartInstall(t) \/ StartUpdate(t) \/ StartUninstall(t)

(* Mutant: an unregistration returns without leaving the lock. *)
FirstStepReturns == [register |-> "check", unregister |-> "idle", include |-> "validate",
                     install |-> "names", update |-> "names", uninstall |-> "list"]
FirstStep == [register |-> "check", unregister |-> "inspect", include |-> "validate",
              install |-> "names", update |-> "names", uninstall |-> "list"]

(* Mutants, here and below: the lock is not exclusive; registrations are    *)
(* not checked for references; the skill is not looked up again; names of   *)
(* other packages do not collide; what the scan found is ignored.           *)
HeldByNobody == FALSE
Held == lock # None

EnterLock(t) ==
  /\ pc[t] = "lock"
  /\ IF Held
     THEN End(t) /\ UNCHANGED lock
     ELSE lock' = t /\ Goto(t, FirstStep[call[t].op]) /\ UNCHANGED call
  /\ UNCHANGED <<files, rewritten, started>>

LeaveLock(t) ==
  /\ pc[t] = "unlock"
  /\ lock' = IF lock = t THEN None ELSE lock
  /\ End(t)
  /\ UNCHANGED <<files, rewritten, started>>

(* The next step if the condition holds; out of the lock otherwise. *)
Proceed(t, condition, step) ==
  /\ Goto(t, IF condition THEN step ELSE "unlock")
  /\ UNCHANGED <<files, lock, rewritten, started>>

-----------------------------------------------------------------------------
(* The registry: projects.json is read and then written. *)
CheckRoot(t) ==
  /\ pc[t] = "check"
  /\ Proceed(t, presence[call[t].p] = "present", "load")
  /\ UNCHANGED call

AssumeUnreferenced(p) == presence[p] = "present"
Unreferenced(p) == presence[p] = "present" /\ refs[p] \cap Installed = {}

(* inspectProjectForUnregister *)
Inspect(t) == LET p == call[t].p IN
  /\ pc[t] = "inspect"
  /\ IF p \in registry /\ presence[p] = "gone"
     THEN /\ Proceed(t, TRUE, "load")
          /\ call' = [call EXCEPT ![t].gone = TRUE]
     ELSE /\ Proceed(t, p \in registry /\ Unreferenced(p), "recheck")
          /\ UNCHANGED call

Recheck(t) ==
  /\ pc[t] = "recheck"
  /\ Proceed(t, Unreferenced(call[t].p), "load")
  /\ UNCHANGED call

(* pruneStaleProjects, outside the lock *)
Stat(t) ==
  /\ pc[t] = "stat"
  /\ IF call[t].todo # {}
     THEN /\ \E p \in call[t].todo :
               call' = [call EXCEPT ![t].todo = @ \ {p},
                          ![t].stale = IF presence[p] = "present" THEN @ ELSE @ \cup {p}]
          /\ UNCHANGED <<pc, rewritten, started>>
     ELSE IF call[t].stale = {}
          THEN End(t) /\ UNCHANGED <<rewritten, started>>
          ELSE Goto(t, "load") /\ rewritten' = TRUE /\ UNCHANGED <<call, started>>
  /\ UNCHANGED <<files, lock>>

(* mutateProjectsIndex *)
LoadIndex(t) ==
  /\ pc[t] = "load"
  /\ call' = [call EXCEPT ![t].index = registry]
  /\ Goto(t, "write")
  /\ UNCHANGED <<files, lock, rewritten, started>>

Wanted(t) ==
  CASE call[t].op = "register" -> call[t].index \cup {call[t].p}
    [] call[t].op = "unregister" -> call[t].index \ {call[t].p}
    [] OTHER -> call[t].index \ call[t].stale

WriteIndex(t) ==
  /\ pc[t] = "write"
  /\ registry' = IF Wanted(t) = call[t].index THEN registry ELSE Wanted(t)
  /\ IF call[t].op = "prune" THEN End(t) ELSE Goto(t, "unlock") /\ UNCHANGED call
  /\ UNCHANGED <<lock, live, presence, refs, rewritten, started>>

-----------------------------------------------------------------------------
(* References and packages, under the lock. *)
ValidateNothing(t) == TRUE
StillExported(t) == call[t].want \subseteq ExportedBy(call[t].q)

Validate(t) ==
  /\ pc[t] = "validate"
  /\ Proceed(t, StillExported(t), "include")
  /\ UNCHANGED call

(* A missing config is started from an empty one. *)
Include(t) == LET p == call[t].p IN
  /\ pc[t] = "include"
  /\ refs' = [refs EXCEPT ![p] =
                (IF presence[p] = "present" THEN @ ELSE {}) \cup call[t].want]
  /\ presence' = [presence EXCEPT ![p] = "present"]
  /\ Goto(t, "unlock")
  /\ UNCHANGED <<lock, live, registry, call, rewritten, started>>

(* allowedPackageCollisions: the records read before the lock come first. *)
OwnerAsSeen(t, s) ==
  LET before == {o \in call[t].seen : o[1] = s}
  IN  IF before # {} THEN before ELSE {o \in Owners : o[1] = s}

NeverCollides(t) == FALSE
Collides(t) ==
  \E s \in Exports[call[t].q][call[t].v] : \E o \in OwnerAsSeen(t, s) :
    call[t].op = "install" \/ o[2] # call[t].q

CheckNames(t) == LET q == call[t].q IN
  /\ pc[t] = "names"
  /\ Proceed(t, (call[t].op = "install" <=> live[q] = Absent) /\ ~ Collides(t),
             IF call[t].op = "install" THEN "commit" ELSE "list")
  /\ call' = [call EXCEPT ![t].ids = ExportedBy(q)]

ListRoots(t) ==
  /\ pc[t] = "list"
  /\ call' = [call EXCEPT ![t].todo = registry]
  /\ Proceed(t, TRUE, "scan")

Scan(t) ==
  /\ pc[t] = "scan"
  /\ IF call[t].todo = {}
     THEN Proceed(t, TRUE, "commit") /\ UNCHANGED call
     ELSE \E p \in call[t].todo :
            /\ Proceed(t, presence[p] = "present", "scan")
            /\ call' = [call EXCEPT ![t].todo = @ \ {p},
                                    ![t].found = @ \cup (refs[p] \cap call[t].ids)]

(* assertInventoryUnreferenced and the removal; the pointer of an update. *)
RefusedIfGone(t) == live[call[t].q] = Absent
Refused(t) ==
  IF call[t].op = "update"
  THEN call[t].found \cap (call[t].ids \ Exports[call[t].q][call[t].v]) # {}
  ELSE call[t].found # {} \/ live[call[t].q] = Absent

Commit(t) == LET q == call[t].q IN
  /\ pc[t] = "commit"
  /\ IF call[t].op # "install" /\ Refused(t)
     THEN Goto(t, "unlock") /\ UNCHANGED live
     ELSE /\ live' = [live EXCEPT ![q] = call[t].v]
          /\ Goto(t, IF call[t].p # None THEN "include" ELSE "unlock")
  /\ UNCHANGED <<lock, registry, presence, refs, call, rewritten, started>>

-----------------------------------------------------------------------------
(* A process dies; its lock is recovered as a stale one. *)
Crash(t) ==
  /\ pc[t] # "idle"
  /\ End(t)
  /\ lock' = IF lock = t THEN None ELSE lock
  /\ UNCHANGED <<files, rewritten, started>>

(* Users move, delete and restore checkouts, and take references out. *)
Leave(p) ==
  /\ presence[p] = "present"
  /\ \E how \in {"bare", "gone"} : presence' = [presence EXCEPT ![p] = how]
  /\ UNCHANGED <<lock, live, registry, refs, pc, call, rewritten, started>>

ComeBack(p) ==
  /\ presence[p] # "present"
  /\ presence' = [presence EXCEPT ![p] = "present"]
  /\ UNCHANGED <<lock, live, registry, refs, pc, call, rewritten, started>>

Edit(p) ==
  /\ presence[p] = "present" /\ refs[p] # {}
  /\ refs' = [refs EXCEPT ![p] = {}]
  /\ UNCHANGED <<lock, live, registry, presence, pc, call, rewritten, started>>

RegistryStep(t) ==
  \/ CheckRoot(t) \/ Inspect(t) \/ Recheck(t) \/ Stat(t) \/ LoadIndex(t) \/ WriteIndex(t)
PackageStep(t) ==
  \/ Validate(t) \/ Include(t) \/ CheckNames(t) \/ ListRoots(t) \/ Scan(t) \/ Commit(t)

Next ==
  \/ \E t \in Task : Start(t) \/ EnterLock(t) \/ RegistryStep(t) \/ PackageStep(t)
                     \/ LeaveLock(t) \/ Crash(t)
  \/ \E p \in Project : Leave(p) \/ ComeBack(p) \/ Edit(p)

Spec == Init /\ [][Next]_vars

-----------------------------------------------------------------------------
TypeOK ==
  /\ lock \in Task \cup {None}
  /\ live \in [Package -> Version \cup {Absent}]
  /\ \A q \in Package : live[q] \in DOMAIN Exports[q] \cup {Absent}
  /\ registry \in SUBSET Project
  /\ presence \in [Project -> {"present", "bare", "gone"}]
  /\ refs \in [Project -> SUBSET Skill]
  /\ pc \in [Task -> Unlocked \cup Locked \cup {"load", "write"}]
  /\ call \in [Task -> Call]
  /\ \A t \in Task : pc[t] = "idle" <=> call[t].op = "none"
  /\ \A t \in Task : lock = t <=>
       pc[t] \in Locked \/ (pc[t] \in {"load", "write"} /\ call[t].op # "prune")
  /\ rewritten \in BOOLEAN /\ started \in 0 .. MaxCommands

Known == {p \in registry : presence[p] = "present"}
TakenAway == Installed \ Installed'

(* test/scenarios-inventory-reference-races.test.ts:2: "Proves project      *)
(* intent cannot race into missing standalone inventory."  No step takes a  *)
(* skill away that the config of a registered project names.                *)
KnownReferencesAreKept == [][\A p \in Known : refs[p] \cap TakenAway = {}]_vars

(* What the code does guarantee, until a prune rewrites the index outside   *)
(* the lock and may bring a project back that no scan has looked at: a      *)
(* skill that the scan of an uninstall or an update looked for is not taken *)
(* away from under a registered project.                                    *)
ScannedReferencesAreKept ==
  [][~ rewritten => \A t \in Task, p \in Known :
       pc[t] = "commit" /\ pc'[t] # "commit" => refs[p] \cap TakenAway \cap call[t].ids = {}]_vars

(* A reference is only ever added to a skill that is installed then.        *)
IncludedIsInstalled ==
  [][\A p \in Project : refs'[p] \ refs[p] \subseteq Installed']_vars

(* No skill is exported by two packages unless an update let it in on the   *)
(* word of records it read before it had the lock.                          *)
CollisionsAreStale ==
  [][\A s \in Skill, q, r \in Package :
       q # r /\ {<<s, q>>, <<s, r>>} \subseteq Owners' =>
         \/ {<<s, q>>, <<s, r>>} \subseteq Owners
         \/ \E t \in Task : call[t].op = "update" /\ pc[t] = "commit"
                            /\ \E o \in call[t].seen \ Owners : o[1] = s]_vars

(* A project is unregistered only if it is gone or was, or names no         *)
(* installed skill.                                                         *)
UnregisteredIsUnreferenced ==
  [][\A t \in Task : call[t].op = "unregister" /\ call[t].p \in registry \ registry'
       /\ pc[t] = "write" /\ pc'[t] # "write" =>
         call[t].gone \/ refs[call[t].p] \cap Installed = {}]_vars

(* Between them the checks under the lock keep every reference they can see *)
(* pointing at one installed skill, in states of the declared types.        *)
CheckedReferencesHold ==
  /\ []TypeOK
  /\ ScannedReferencesAreKept /\ IncludedIsInstalled
  /\ UnregisteredIsUnreferenced /\ CollisionsAreStale

(* cli/core/skill-packages.ts:306: an update "can only retain skills        *)
(* installed from" the package itself.                                      *)
SkillHasOnePackage ==
  \A q, r \in Package : q # r => ExportedBy(q) \cap ExportedBy(r) = {}

(* Until a prune rewrites the index outside the lock, writing projects.json *)
(* loses no registration but the one that is being unregistered.            *)
NoRegistrationIsLost ==
  [][~ rewritten => \A p \in registry \ registry' : \E t \in Task :
       call[t].op = "unregister" /\ call[t].p = p /\ lock = t]_vars

(* cli/core/project-registry.ts:209: prune "Removes registered project      *)
(* roots whose `.agents/drwn/config.json` no longer exists", and no other.  *)
PruneRemovesOnlyStale ==
  [][\A t \in Task : call[t].op = "prune" /\ pc[t] = "write" /\ pc'[t] # "write" =>
       registry \ registry' \subseteq call[t].stale]_vars
=============================================================================
