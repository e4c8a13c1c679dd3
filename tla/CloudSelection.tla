---------------------------- MODULE CloudSelection ----------------------------
(***************************************************************************)
(* Which organization a machine works for and which deployed worker a      *)
(* project is bound to (cli/core/management/organizations.ts, workers.ts,  *)
(* selector.ts, context-store.ts).  Commands read these files, wait for    *)
(* the service and write afterwards what they have learnt; each write is   *)
(* one read-modify-write under an owner lock for which nobody waits.       *)
(*                                                                         *)
(* A profile is the service, client and scope a command runs with.  The    *)
(* service is external: an organization is visible to the caller or not,   *)
(* and a worker stays in its organization.                                 *)
(***************************************************************************)
EXTENDS Naturals

CONSTANTS
  Task,       \* invocations of drwn in one project
  Profile,
  Org,        \* organizations
  Worker,     \* deployed workers
  Home,       \* the organization of each worker
  None,       \* no selection, no binding
  MaxMoves    \* bound: changes of what is visible

SelectionAssumption ==
  /\ Home \in [Worker -> Org]
  /\ None \notin Org \cup Worker \cup Profile
  /\ MaxMoves \in Nat

VARIABLES
  machine,    \* the organization selected for each profile
  project,    \* the binding of the project
  visible,    \* the organizations the service shows the caller
  pc,         \* where each task is
  call,       \* what it was asked for: a command, a profile and an id
  org,        \* the organization it has read, or selects
  target,     \* the worker it operates on
  offered,    \* history: what the project was bound to, for a task's profile
              \* and organization, since the task read its organization
  moves

task == <<pc, call, org, target, offered>>
vars == <<machine, project, visible, task, moves>>

Bindings == [profile : Profile, org : Org, worker : Worker]
(* worker use takes an id; deploy takes one, or else the project's.         *)
Calls ==
  [command : {"use_org"}, profile : Profile, id : Org]
    \cup [command : {"list"}, profile : Profile, id : {None}]
    \cup [command : {"use_worker"}, profile : Profile, id : Worker]
    \cup [command : {"deploy"}, profile : Profile, id : Worker \cup {None}]
NoCall == [command |-> "none", profile |-> None, id |-> None]

Init ==
  /\ machine \in [Profile -> Org \cup {None}]
  /\ project = None
  /\ visible \in SUBSET Org
  /\ pc = [t \in Task |-> "idle"]
  /\ call = [t \in Task |-> NoCall]
  /\ org = [t \in Task |-> None] /\ target = [t \in Task |-> None]
  /\ offered = [t \in Task |-> {}]
  /\ moves = 0

Goto(t, step) == pc' = [pc EXCEPT ![t] = step]
Return(t) ==
  /\ Goto(t, "idle")
  /\ call' = [call EXCEPT ![t] = NoCall]
  /\ org' = [org EXCEPT ![t] = None] /\ target' = [target EXCEPT ![t] = None]
End(t) == Return(t) /\ offered' = [offered EXCEPT ![t] = {}]

-----------------------------------------------------------------------------
(* resolveDeployedWorkerSelector *)
Suits(binding, profile, o) ==
  binding # None /\ binding.profile = profile /\ binding.org = o
(* Mutant: a binding counts whatever it was made for. *)
AnyBinding(profile, o) == project # None
Applies(profile, o) == Suits(project, profile, o)
Chosen(c, o) ==
  IF c.id # None THEN c.id
  ELSE IF Applies(c.profile, o) THEN project.worker ELSE None

(* The selection is read; without one there is nothing to ask for.          *)
Load(t) ==
  /\ pc[t] = "idle"
  /\ \E c \in Calls :
       LET o == IF c.command = "use_org" THEN c.id ELSE machine[c.profile]
       IN /\ o # None
          /\ call' = [call EXCEPT ![t] = c]
          /\ org' = [org EXCEPT ![t] = o]
          /\ target' = [target EXCEPT ![t] = IF c.command = "use_worker" THEN c.id ELSE None]
          /\ offered' = [offered EXCEPT ![t] =
               {w \in Worker : Suits(project, c.profile, o) /\ w = project.worker}]
          /\ Goto(t, IF c.command = "deploy" THEN "choose" ELSE "ask")
  /\ UNCHANGED <<machine, project, visible, moves>>

(* resolveWorkerTarget reads the project after the machine.                 *)
Choose(t) == LET w == Chosen(call[t], org[t]) IN
  /\ pc[t] = "choose"
  /\ \/ w # None /\ target' = [target EXCEPT ![t] = w]
        /\ Goto(t, "ask") /\ UNCHANGED <<call, org, offered>>
     \/ w = None /\ End(t)
  /\ UNCHANGED <<machine, project, visible, moves>>

(* organizations.read, deployed_workers.list and deployed_workers.read: a   *)
(* worker is shown wherever it is visible, and compared with the            *)
(* organization that was read.                                              *)
(* Mutant: its organization is not compared. *)
ShownWorker(t) == Home[target[t]] \in visible
Granted(t) ==
  IF target[t] = None THEN org[t] \in visible
  ELSE Home[target[t]] \in visible /\ Home[target[t]] = org[t]

Ask(t) == LET command == call[t].command IN
  /\ pc[t] = "ask"
  /\ \/ Granted(t) /\ command \in {"use_org", "use_worker", "deploy"}
          /\ Goto(t, IF command = "deploy" THEN "operate" ELSE "write")
          /\ UNCHANGED <<call, org, target, offered>>
     \/ ~ Granted(t) /\ command = "list"
          /\ Goto(t, "clear") /\ UNCHANGED <<call, org, target, offered>>
     \/ (Granted(t) <=> command = "list") /\ End(t)
  /\ UNCHANGED <<machine, project, visible, moves>>

(* selectMachineOrganization and writeProjectCloudContext. *)
(* Mutant: the selections of the other profiles are lost. *)
OnlySelection(t) == [p \in Profile |-> IF p = call[t].profile THEN org[t] ELSE None]
Selections(t) == [machine EXCEPT ![call[t].profile] = org[t]]
(* Who has read the organization of the binding and not yet the project.    *)
Offer(t, binding) == offered' = [u \in Task |->
  IF u = t THEN {}
  ELSE IF pc[u] = "choose" /\ Suits(binding, call[u].profile, org[u])
  THEN offered[u] \cup {binding.worker}
  ELSE offered[u]]
Write(t) == LET c == call[t] IN
  /\ pc[t] = "write"
  /\ \/ c.command = "use_org"
        /\ machine' = Selections(t) /\ End(t) /\ UNCHANGED project
     \/ c.command # "use_org"
        /\ project' = [profile |-> c.profile, org |-> org[t], worker |-> c.id]
        /\ Offer(t, project') /\ Return(t) /\ UNCHANGED machine
  /\ UNCHANGED <<visible, moves>>

(* clearMachineOrganization: whatever is selected for the profile by now.   *)
Clear(t) ==
  /\ pc[t] = "clear"
  /\ machine' = [machine EXCEPT ![call[t].profile] = None]
  /\ End(t)
  /\ UNCHANGED <<project, visible, moves>>

(* The deployment itself (ClientOperation). *)
Operate(t) ==
  /\ pc[t] = "operate" /\ End(t)
  /\ UNCHANGED <<machine, project, visible, moves>>

(* No answer, another refusal, CLOUD_STATE_BUSY or a crash. *)
Fail(t) ==
  /\ pc[t] # "idle" /\ End(t)
  /\ UNCHANGED <<machine, project, visible, moves>>

(* Registration binds a worker of its own, retirement clears the binding    *)
(* (ClientOperation); the caller may gain or lose an organization.          *)
Unbind == project # None /\ project' = None /\ UNCHANGED <<machine, visible, task, moves>>
Move ==
  /\ moves < MaxMoves /\ moves' = moves + 1
  /\ \E v \in SUBSET Org : v # visible /\ visible' = v
  /\ UNCHANGED <<machine, project, task>>

Next ==
  \/ \E t \in Task : Load(t) \/ Choose(t) \/ Ask(t) \/ Write(t) \/ Clear(t) \/ Operate(t) \/ Fail(t)
  \/ Unbind \/ Move
Spec == Init /\ [][Next]_vars

-----------------------------------------------------------------------------
(* A project is bound to a worker of the organization the binding names,    *)
(* and what is deployed to is a worker of the organization that was         *)
(* selected when the command began.  Where the caller names none, it is one *)
(* the project was bound to under that profile and for that organization    *)
(* after the command began: never one bound for another service, however    *)
(* selections and bindings change between its two reads and after them.     *)
BindingIsVerified == project # None => Home[project.worker] = project.org
TargetIsSelected == \A t \in Task : pc[t] = "operate" => Home[target[t]] = org[t]
BoundForTheProfile == \A t \in Task :
  pc[t] = "operate" /\ call[t].id = None => target[t] \in offered[t]

(* A command changes the selection of its own profile only, and no          *)
(* selection goes away unless the service hid the organization some list of *)
(* that profile had read.                                                   *)
SelectionsAreKept == [][\A p \in Profile : machine'[p] # machine[p] =>
  \E t \in Task : /\ pc[t] \in {"write", "clear"} /\ call[t].profile = p
                  /\ machine'[p] \in {org[t], None} /\ (machine'[p] = None => pc[t] = "clear")]_vars

TargetsAreTheCallers ==
  [](BindingIsVerified /\ TargetIsSelected /\ BoundForTheProfile) /\ SelectionsAreKept

(* The binding is also of the organization selected by now.  It does not    *)
(* hold: the selection that counts is the one that was read.                *)
TargetIsStillSelected == \A t \in Task : pc[t] = "operate" => machine[call[t].profile] = org[t]

(* Only the selection that was refused goes away.  It does not hold: the    *)
(* one that is cleared is the one of that moment.                           *)
RefusedSelectionGoes == [][\A t \in Task : pc[t] = "clear" /\ machine' # machine =>
  machine[call[t].profile] = org[t]]_vars
=============================================================================
