---------------------------- MODULE OverlapProofs ----------------------------
(***************************************************************************)
(* Proofs about four of the places where drwn commands meet (MCOverlap):   *)
(* what is selected in the cloud, the names of cards from git, a card with *)
(* the project that vendors it, and the launch contexts of workers.  For   *)
(* any number of commands, URLs, names, profiles, organizations, workers   *)
(* and trees, and whatever bounds a run puts on how often the commands     *)
(* interrupt each other.                                                   *)
(***************************************************************************)
EXTENDS MCOverlap, TLAPS

-----------------------------------------------------------------------------
(* What is selected in the cloud.  TargetsAreTheCallers is not inductive:  *)
(* that the worker operated on is of the organization selected rests on    *)
(* what the command found out before it asked.                             *)

(* Who has yet to read the project will find a binding that was offered.   *)
(* For whom the worker was chosen, it is one of those.                     *)
Offered(t) ==
  /\ cloudAt[t] = "choose" =>
       /\ cloudMemo[t].command = "deploy"
       /\ Cloud!Suits(project, cloudMemo[t].profile, org[t]) => project.worker \in offered[t]
  /\ cloudAt[t] \in {"ask", "operate"} /\ cloudMemo[t].command = "deploy" /\ cloudMemo[t].id = None
       => target[t] \in offered[t]

(* What a task at its steps has found out, and what it is asked for.       *)
Knows(t) ==
  /\ cloudAt[t] # "idle" => cloudMemo[t].profile \in Profile /\ org[t] # None
  /\ cloudAt[t] = "ask" /\ cloudMemo[t].command = "use_worker" =>
     cloudMemo[t].id # None /\ target[t] = cloudMemo[t].id
  /\ cloudAt[t] = "ask" /\ cloudMemo[t].command = "deploy" => target[t] # None
  /\ cloudAt[t] = "write" => cloudMemo[t].command \in {"use_org", "use_worker"}
  /\ cloudAt[t] = "write" /\ cloudMemo[t].command = "use_worker" => HomeOf[cloudMemo[t].id] = org[t]
  /\ cloudAt[t] = "operate" => HomeOf[target[t]] = org[t] /\ cloudMemo[t].command = "deploy"
  /\ cloudAt[t] # "idle" /\ cloudMemo[t].command = "use_worker" => cloudMemo[t].id \in Worker

CloudInv ==
  /\ machine \in [Profile -> Org \cup {None}]
  /\ cloudAt \in [Task -> {"idle", "choose", "ask", "write", "clear", "operate"}]
  /\ DOMAIN cloudMemo = Task /\ cloudMemo = [t \in Task |-> cloudMemo[t]]
  /\ org \in [Task -> Org \cup {None}]
  /\ DOMAIN target = Task /\ target = [t \in Task |-> target[t]]
  /\ DOMAIN offered = Task /\ offered = [t \in Task |-> offered[t]]
  /\ project # None => project.worker \in Worker
  /\ Cloud!BindingIsVerified
  /\ \A t \in Task : Knows(t) /\ Offered(t)

LEMMA CloudStarts == ASSUME Cloud!SelectionAssumption PROVE Cloud!Init => CloudInv
  BY DEF Cloud!SelectionAssumption, Cloud!Init, CloudInv, Knows, Offered, Cloud!BindingIsVerified

LEMMA CallsAre == ASSUME Cloud!SelectionAssumption, NEW c \in Cloud!Calls PROVE
  /\ c.profile \in Profile /\ c.command \in {"use_org", "list", "use_worker", "deploy"}
  /\ c.command = "use_org" => c.id \in Org
  /\ c.command = "use_worker" => c.id \in Worker
  /\ c.command = "deploy" => c.id \in Worker \cup {None}
  <1> DEFINE UseOrg == [command : {"use_org"}, profile : Profile, id : Org]
             Listing == [command : {"list"}, profile : Profile, id : {None}]
             UseWorker == [command : {"use_worker"}, profile : Profile, id : Worker]
             Deploy == [command : {"deploy"}, profile : Profile, id : Worker \cup {None}]
  <1>1. c \in UseOrg \cup Listing \cup UseWorker \cup Deploy
    BY DEF Cloud!Calls
  <1>2. c \in UseOrg => c.command = "use_org" /\ c.profile \in Profile /\ c.id \in Org
    OBVIOUS
  <1>3. c \in Listing => c.command = "list" /\ c.profile \in Profile
    OBVIOUS
  <1>4. c \in UseWorker => c.command = "use_worker" /\ c.profile \in Profile /\ c.id \in Worker
    OBVIOUS
  <1>5. c \in Deploy => c.command = "deploy" /\ c.profile \in Profile /\ c.id \in Worker \cup {None}
    OBVIOUS
  <1> HIDE DEF UseOrg, Listing, UseWorker, Deploy
  <1>6. QED BY <1>1, <1>2, <1>3, <1>4, <1>5

(* What a task begins with. *)
LEMMA Loaded == ASSUME Cloud!SelectionAssumption, CloudInv, NEW t \in Task, Cloud!Load(t) PROVE
  /\ \E step \in {"choose", "ask"} :
       /\ cloudAt' = [cloudAt EXCEPT ![t] = step]
       /\ step = "choose" <=> cloudMemo'[t].command = "deploy"
  /\ \A u \in Task \ {t} : cloudMemo'[u] = cloudMemo[u] /\ org'[u] = org[u]
     /\ target'[u] = target[u] /\ offered'[u] = offered[u]
  /\ cloudMemo'[t].profile \in Profile /\ org'[t] # None
  /\ cloudMemo'[t].command = "use_worker" =>
       cloudMemo'[t].id \in Worker /\ target'[t] = cloudMemo'[t].id
  /\ Cloud!Suits(project, cloudMemo'[t].profile, org'[t]) => project.worker \in offered'[t]
  /\ DOMAIN cloudMemo' = Task /\ DOMAIN target' = Task /\ org' \in [Task -> Org \cup {None}]
  /\ DOMAIN offered' = Task
  /\ UNCHANGED <<machine, project, visible, moves>>
  <1>1. PICK c \in Cloud!Calls :
       LET o == IF c.command = "use_org" THEN c.id ELSE machine[c.profile]
       IN /\ o # None
          /\ cloudMemo' = [cloudMemo EXCEPT ![t] = c]
          /\ org' = [org EXCEPT ![t] = o]
          /\ target' = [target EXCEPT ![t] = IF c.command = "use_worker" THEN c.id ELSE None]
          /\ offered' = [offered EXCEPT ![t] =
               {w \in Worker : Cloud!Suits(project, c.profile, o) /\ w = project.worker}]
          /\ Cloud!Goto(t, IF c.command = "deploy" THEN "choose" ELSE "ask")
    BY DEF Cloud!Load
  <1> DEFINE o == IF c.command = "use_org" THEN c.id ELSE machine[c.profile]
             f == {w \in Worker : Cloud!Suits(project, c.profile, o) /\ w = project.worker}
  <1>2. /\ o # None
        /\ cloudMemo' = [cloudMemo EXCEPT ![t] = c]
        /\ org' = [org EXCEPT ![t] = o]
        /\ target' = [target EXCEPT ![t] = IF c.command = "use_worker" THEN c.id ELSE None]
        /\ offered' = [offered EXCEPT ![t] = f]
        /\ Cloud!Goto(t, IF c.command = "deploy" THEN "choose" ELSE "ask")
    BY <1>1, Zenon
  <1>3. /\ c.profile \in Profile
        /\ c.command = "use_worker" => c.id \in Worker
        /\ o \in Org \cup {None}
    BY CallsAre DEF CloudInv
  <1>4. Cloud!Suits(project, c.profile, o) => project.worker \in f
    BY DEF Cloud!Suits, CloudInv
  <1> HIDE DEF o, f
  <1>5. cloudMemo'[t] = c /\ org'[t] = o /\ offered'[t] = f
        /\ target'[t] = IF c.command = "use_worker" THEN c.id ELSE None
    BY <1>2 DEF CloudInv
  <1>6. UNCHANGED <<machine, project, visible, moves>>
    BY DEF Cloud!Load
  <1>7. \E step \in {"choose", "ask"} :
          /\ cloudAt' = [cloudAt EXCEPT ![t] = step]
          /\ step = "choose" <=> cloudMemo'[t].command = "deploy"
    BY <1>2, <1>5 DEF Cloud!Goto
  <1>8. DOMAIN cloudMemo' = Task /\ DOMAIN target' = Task /\ org' \in [Task -> Org \cup {None}]
        /\ DOMAIN offered' = Task
    BY <1>2, <1>3 DEF CloudInv
  <1>9. \A u \in Task \ {t} : cloudMemo'[u] = cloudMemo[u] /\ org'[u] = org[u]
          /\ target'[u] = target[u] /\ offered'[u] = offered[u]
    BY <1>2 DEF CloudInv
  <1>10. /\ cloudMemo'[t].profile \in Profile /\ org'[t] # None
         /\ cloudMemo'[t].command = "use_worker" =>
              cloudMemo'[t].id \in Worker /\ target'[t] = cloudMemo'[t].id
         /\ Cloud!Suits(project, cloudMemo'[t].profile, org'[t]) => project.worker \in offered'[t]
    BY <1>2, <1>3, <1>4, <1>5
  <1>11. QED BY <1>6, <1>7, <1>8, <1>9, <1>10

(* A step of a task that does not write the project leaves what the others  *)
(* have found out.                                                          *)
LEMMA CloudStepOf == ASSUME CloudInv, NEW t \in Task,
    machine' \in [Profile -> Org \cup {None}],
    cloudAt' \in [Task -> {"idle", "choose", "ask", "write", "clear", "operate"}],
    DOMAIN cloudMemo' = Task, DOMAIN target' = Task, org' \in [Task -> Org \cup {None}],
    DOMAIN offered' = Task, offered' = [u \in Task |-> offered'[u]],
    cloudMemo' = [u \in Task |-> cloudMemo'[u]], target' = [u \in Task |-> target'[u]],
    \A u \in Task \ {t} : cloudAt'[u] = cloudAt[u] /\ cloudMemo'[u] = cloudMemo[u]
         /\ org'[u] = org[u] /\ target'[u] = target[u] /\ offered'[u] = offered[u],
    project' = project, Knows(t)', Offered(t)'
  PROVE CloudInv'
  <1>1. ASSUME NEW u \in Task PROVE Knows(u)' /\ Offered(u)'
    <2>1. CASE u # t
      <3>1. Knows(u) /\ Offered(u)
        BY DEF CloudInv
      <3>2. cloudAt'[u] = cloudAt[u] /\ cloudMemo'[u] = cloudMemo[u] /\ org'[u] = org[u]
            /\ target'[u] = target[u] /\ offered'[u] = offered[u] /\ project' = project
        BY <2>1
      <3>3. Knows(u)'
        BY <3>1, <3>2 DEF Knows
      <3>4. Offered(u)'
        BY <3>1, <3>2 DEF Offered, Cloud!Suits
      <3>5. QED BY <3>3, <3>4
    <2>2. QED BY <2>1
  <1>2. Cloud!BindingIsVerified'
    BY DEF CloudInv, Cloud!BindingIsVerified
  <1>3. QED BY <1>1, <1>2 DEF CloudInv

LEMMA Ended ==
  ASSUME CloudInv, NEW t \in Task, Cloud!End(t), machine' \in [Profile -> Org \cup {None}],
         project' = project
  PROVE CloudInv'
  <1>1. /\ cloudAt' = [cloudAt EXCEPT ![t] = "idle"]
        /\ cloudMemo' = [cloudMemo EXCEPT ![t] = Cloud!NoCall]
        /\ org' = [org EXCEPT ![t] = None] /\ target' = [target EXCEPT ![t] = None]
        /\ offered' = [offered EXCEPT ![t] = {}]
    BY DEF Cloud!End, Cloud!Return, Cloud!Goto
  <1>2. Knows(t)' /\ Offered(t)'
    BY <1>1 DEF CloudInv, Knows, Offered
  <1>3. QED BY <1>1, <1>2, CloudStepOf DEF CloudInv

(* A binding is written: those who have yet to read it are offered it.      *)
LEMMA BindingWritten ==
  ASSUME Cloud!SelectionAssumption, CloudInv, NEW t \in Task, Cloud!Write(t),
         cloudMemo[t].command # "use_org"
  PROVE  CloudInv'
  <1> DEFINE c == cloudMemo[t]
  <1>1. /\ project' = [profile |-> c.profile, org |-> org[t], worker |-> c.id]
        /\ Cloud!Offer(t, project') /\ Cloud!Return(t) /\ UNCHANGED machine
        /\ cloudAt[t] = "write"
    BY DEF Cloud!Write
  <1>2. c.command = "use_worker" /\ HomeOf[c.id] = org[t] /\ c.id \in Worker
    BY <1>1 DEF CloudInv, Knows
  <1>3. project'.worker = c.id /\ project'.org = org[t] /\ project'.profile = c.profile
    BY <1>1
  <1>4. /\ cloudAt' = [cloudAt EXCEPT ![t] = "idle"]
        /\ cloudMemo' = [cloudMemo EXCEPT ![t] = Cloud!NoCall]
        /\ org' = [org EXCEPT ![t] = None] /\ target' = [target EXCEPT ![t] = None]
    BY <1>1 DEF Cloud!Return, Cloud!Goto
  <1>5. Cloud!BindingIsVerified' /\ (project' # None => project'.worker \in Worker)
    BY <1>2, <1>3 DEF Cloud!BindingIsVerified
  <1>6. DOMAIN offered' = Task /\ offered' = [u \in Task |-> offered'[u]]
        /\ \A u \in Task : offered'[u] = IF u = t THEN {}
             ELSE IF cloudAt[u] = "choose" /\ Cloud!Suits(project', cloudMemo[u].profile, org[u])
             THEN offered[u] \cup {project'.worker} ELSE offered[u]
    BY <1>1 DEF Cloud!Offer
  <1>7. ASSUME NEW u \in Task PROVE Knows(u)' /\ Offered(u)'
    <2>1. CASE u = t
      BY <1>4, <2>1 DEF CloudInv, Knows, Offered
    <2>2. CASE u # t
      <3>1. cloudAt'[u] = cloudAt[u] /\ cloudMemo'[u] = cloudMemo[u] /\ org'[u] = org[u]
            /\ target'[u] = target[u] /\ Knows(u) /\ Offered(u)
        BY <1>4, <2>2 DEF CloudInv
      <3>2. Knows(u)'
        BY <3>1 DEF Knows
      <3>3. offered[u] \subseteq offered'[u]
        BY <1>6, <2>2
      <3>4. cloudAt[u] = "choose" /\ Cloud!Suits(project', cloudMemo[u].profile, org[u]) =>
              project'.worker \in offered'[u]
        BY <1>6, <2>2
      <3>5. Offered(u)'
        BY <3>1, <3>3, <3>4 DEF Offered, Cloud!Suits
      <3>6. QED BY <3>2, <3>5
    <2>3. QED BY <2>1, <2>2
  <1>8. QED BY <1>1, <1>4, <1>5, <1>6, <1>7 DEF CloudInv

LEMMA CloudStep ==
  ASSUME Cloud!SelectionAssumption, CloudInv, [Cloud!Next]_(Cloud!vars)
  PROVE  CloudInv'
  <1>1. ASSUME NEW t \in Task, Cloud!Load(t) PROVE CloudInv'
    <2>1. PICK step \in {"choose", "ask"} :
            /\ cloudAt' = [cloudAt EXCEPT ![t] = step]
            /\ step = "choose" <=> cloudMemo'[t].command = "deploy"
      BY <1>1, Loaded
    <2>2. cloudAt'[t] = step /\ project' = project
      BY <1>1, <2>1, Loaded DEF CloudInv
    <2>3. Knows(t)'
      BY <1>1, <2>1, <2>2, Loaded DEF Knows, Cloud!SelectionAssumption
    <2>4. Offered(t)'
      BY <1>1, <2>1, <2>2, Loaded DEF Offered, Cloud!Suits
    <2>5. cloudMemo' = [u \in Task |-> cloudMemo'[u]] /\ target' = [u \in Task |-> target'[u]]
          /\ offered' = [u \in Task |-> offered'[u]]
      BY <1>1 DEF Cloud!Load, CloudInv
    <2>6. \A u \in Task \ {t} : cloudAt'[u] = cloudAt[u]
      BY <2>1 DEF CloudInv
    <2>7. cloudAt' \in [Task -> {"idle", "choose", "ask", "write", "clear", "operate"}]
      BY <2>1 DEF CloudInv
    <2>8. machine' \in [Profile -> Org \cup {None}]
      BY <1>1, Loaded DEF CloudInv
    <2>9. QED BY <1>1, <2>2, <2>3, <2>4, <2>5, <2>6, <2>7, <2>8, Loaded, CloudStepOf
  <1>2. ASSUME NEW t \in Task, Cloud!Choose(t) PROVE CloudInv'
    <2> DEFINE w == Cloud!Chosen(cloudMemo[t], org[t])
    <2>1. cloudAt[t] = "choose" /\ machine' = machine /\ project' = project
      BY <1>2 DEF Cloud!Choose
    <2>2. CASE w = None
      BY <1>2, <2>1, <2>2, Ended DEF Cloud!Choose, CloudInv
    <2>3. CASE w # None
      <3>1. target' = [target EXCEPT ![t] = w] /\ cloudAt' = [cloudAt EXCEPT ![t] = "ask"]
            /\ UNCHANGED <<cloudMemo, org, offered>>
        BY <1>2, <2>3 DEF Cloud!Choose, Cloud!Goto
      <3>2. target'[t] = w /\ cloudAt'[t] = "ask"
        BY <3>1 DEF CloudInv
      <3>3. cloudMemo[t].id = None => w \in offered[t]
        BY <2>1, <2>3 DEF CloudInv, Offered, Cloud!Chosen, Cloud!Applies
      <3>4. cloudMemo[t].command = "deploy" /\ Knows(t)
        BY <2>1 DEF CloudInv, Offered
      <3> HIDE DEF w
      <3>5. Knows(t)'
        BY <2>1, <2>3, <3>1, <3>2, <3>4 DEF Knows
      <3>6. Offered(t)'
        BY <3>1, <3>2, <3>3 DEF Offered
      <3>7. QED BY <2>1, <3>1, <3>5, <3>6, CloudStepOf DEF CloudInv
    <2>4. QED BY <2>2, <2>3
  <1>3. ASSUME NEW t \in Task, Cloud!Ask(t) PROVE CloudInv'
    <2>1. machine' = machine /\ project' = project /\ cloudAt[t] = "ask"
      BY <1>3 DEF Cloud!Ask
    <2>2. CASE Cloud!End(t)
      BY <2>1, <2>2, Ended DEF CloudInv
    <2>3. CASE /\ Cloud!Goto(t, IF cloudMemo[t].command = "deploy" THEN "operate" ELSE "write")
               /\ Cloud!Granted(t) /\ cloudMemo[t].command \in {"use_org", "use_worker", "deploy"}
               /\ UNCHANGED <<cloudMemo, org, target, offered>>
      <3>1. Knows(t)'
        BY <2>1, <2>3 DEF CloudInv, Knows, Cloud!Goto, Cloud!Granted
      <3>2. Offered(t)'
        BY <2>1, <2>3 DEF CloudInv, Offered, Cloud!Goto
      <3>3. QED BY <2>1, <2>3, <3>1, <3>2, CloudStepOf DEF CloudInv, Cloud!Goto
    <2>4. CASE Cloud!Goto(t, "clear") /\ UNCHANGED <<cloudMemo, org, target, offered>>
      <3>1. Knows(t)'
        BY <2>1, <2>4 DEF CloudInv, Knows, Cloud!Goto
      <3>2. Offered(t)'
        BY <2>1, <2>4 DEF CloudInv, Offered, Cloud!Goto
      <3>3. QED BY <2>1, <2>4, <3>1, <3>2, CloudStepOf DEF CloudInv, Cloud!Goto
    <2>5. QED BY <1>3, <2>2, <2>3, <2>4 DEF Cloud!Ask
  <1>4. ASSUME NEW t \in Task, Cloud!Write(t) PROVE CloudInv'
    <2>1. cloudAt[t] = "write" /\ cloudMemo[t].profile \in Profile /\ org[t] \in Org
      BY <1>4 DEF Cloud!Write, CloudInv, Knows
    <2>2. CASE cloudMemo[t].command = "use_org"
      <3>1. machine' \in [Profile -> Org \cup {None}] /\ project' = project /\ Cloud!End(t)
        BY <1>4, <2>1, <2>2 DEF Cloud!Write, CloudInv, Cloud!Selections
      <3>2. QED BY <3>1, Ended
    <2>3. CASE cloudMemo[t].command # "use_org"
      BY <1>4, <2>3, BindingWritten
    <2>4. QED BY <2>2, <2>3
  <1>5. ASSUME NEW t \in Task, Cloud!Clear(t) PROVE CloudInv'
    BY <1>5, Ended DEF Cloud!Clear, CloudInv
  <1>6. ASSUME NEW t \in Task, Cloud!Operate(t) \/ Cloud!Fail(t) PROVE CloudInv'
    BY <1>6, Ended DEF Cloud!Operate, Cloud!Fail, CloudInv
  <1>7. CASE Cloud!Unbind \/ Cloud!Move \/ UNCHANGED Cloud!vars
    <2>1. UNCHANGED <<machine, cloudAt, cloudMemo, org, target, offered>>
          /\ (project' = project \/ project' = None)
      BY <1>7 DEF Cloud!Unbind, Cloud!Move, Cloud!vars, Cloud!task
    <2>2. \A t \in Task : Knows(t)' /\ Offered(t)'
      BY <2>1 DEF CloudInv, Knows, Offered, Cloud!Suits
    <2>3. QED BY <2>1, <2>2 DEF CloudInv, Cloud!BindingIsVerified
  <1>8. QED BY <1>1, <1>2, <1>3, <1>4, <1>5, <1>6, <1>7 DEF Cloud!Next

(* For the cloud by itself. *)
LEMMA TargetsInCloud ==
  ASSUME Cloud!SelectionAssumption
  PROVE  Cloud!Spec => Cloud!TargetsAreTheCallers
  <1>1. Cloud!Spec => []CloudInv
    BY CloudStarts, CloudStep, PTL DEF Cloud!Spec
  <1>2. CloudInv => Cloud!BindingIsVerified /\ Cloud!TargetIsSelected /\ Cloud!BoundForTheProfile
    BY DEF CloudInv, Knows, Offered, Cloud!TargetIsSelected, Cloud!BoundForTheProfile
  <1>4. CloudInv /\ [Cloud!Next]_(Cloud!vars) => \A p \in Profile : machine'[p] # machine[p] =>
          \E t \in Task : /\ cloudAt[t] \in {"write", "clear"} /\ cloudMemo[t].profile = p
                          /\ machine'[p] \in {org[t], None} /\ (machine'[p] = None =>
                             cloudAt[t] = "clear")
    <2> SUFFICES ASSUME CloudInv, [Cloud!Next]_(Cloud!vars), NEW p \in Profile,
          machine'[p] # machine[p]
                 PROVE  \E t \in Task : /\ cloudAt[t] \in {"write", "clear"}
                                           /\ cloudMemo[t].profile = p
                          /\ machine'[p] \in {org[t], None} /\ (machine'[p] = None =>
                             cloudAt[t] = "clear")
      OBVIOUS
    <2>1. PICK t \in Task : Cloud!Write(t) \/ Cloud!Clear(t)
      BY DEF Cloud!Next, Cloud!Load, Cloud!Choose, Cloud!Ask, Cloud!Operate, Cloud!Fail, Cloud!Unbind, Cloud!Move,
             Cloud!vars
    <2>2. cloudMemo[t].profile \in Profile /\ org[t] # None
      BY <2>1 DEF CloudInv, Knows, Cloud!Write, Cloud!Clear
    <2>3. CASE Cloud!Write(t)
      <3>1. machine' = [machine EXCEPT ![cloudMemo[t].profile] = org[t]] /\ cloudAt[t] = "write"
        BY <2>3 DEF Cloud!Write, Cloud!Selections
      <3>2. QED BY <2>2, <3>1 DEF CloudInv
    <2>4. CASE Cloud!Clear(t)
      <3>1. machine' = [machine EXCEPT ![cloudMemo[t].profile] = None] /\ cloudAt[t] = "clear"
        BY <2>4 DEF Cloud!Clear
      <3>2. QED BY <2>2, <3>1 DEF CloudInv
    <2>5. QED BY <2>1, <2>3, <2>4
  <1>5. QED BY <1>1, <1>2, <1>4, PTL DEF Cloud!TargetsAreTheCallers, Cloud!SelectionsAreKept, Cloud!Spec

(* In the composition the cloud is a part that the others leave alone. *)
LEMMA CloudIsAPart == OverlapSpec => Cloud!Spec
  <1>1. OverlapInit => Cloud!Init
    BY DEF OverlapInit
  <1>2. [OverlapNext]_all => [Cloud!Next]_(Cloud!vars)
    BY DEF OverlapNext, all, cloud, Cloud!task, Cloud!vars
  <1>3. QED BY <1>1, <1>2, PTL DEF OverlapSpec, Cloud!Spec

(* requireSelectedOrganizationId, worker use and deploy: a project is only  *)
(* ever bound to a worker of the organization that was verified; a command  *)
(* operates on a worker of the organization it read, and without an id on   *)
(* one the project was bound to for it since; and a selection changes only  *)
(* by a command of its own profile that chose or lost it.                   *)
THEOREM TargetsStayTheCallers == OverlapSpec => TargetsAreTheCallers
  <1>1. Cloud!Spec => Cloud!TargetsAreTheCallers
    BY TargetsInCloud, CloudAssumption
  <1>2. QED BY <1>1, CloudIsAPart DEF TargetsAreTheCallers

-----------------------------------------------------------------------------
(* The names of cards from git.  ResolvesToItsUrl says what calls do; what *)
(* makes it right is what a call knows of a repository that it has found   *)
(* or cloned, and that no two calls have cloned the same one.              *)

Repo == [from : Url \cup {Binding!Local, None}, origin : Url \cup {None}, published : BOOLEAN]
Call == [url : Url \cup {None}, name : CardName \cup {None},
map : [Url -> CardName \cup {None}] \cup {None},
         mine : BOOLEAN]
Named == {"known", "fetch", "cloneknown", "misnamed", "place", "rename", "bind", "readmap",
          "writemap", "collision"}

BindingTypes ==
  /\ Binding!TypeOK
  /\ declared \in [Url -> CardName]
  /\ bindingAt \in [Task -> {"idle", "scan", "recall", "clone"} \cup Named]
  /\ bindingMemo \in [Task -> Call]

(* A clone that is bound to no URL is that of a call that will bind it.     *)
ClonesAreClaimed ==
  \A n \in CardName \ doomed : repos[n].from \in Url /\ repos[n].origin = None =>
    \E t \in Task : bindingAt[t] \in {"misnamed", "bind"} /\ bindingMemo[t].name = n

(* What a call at its steps has found out.  *)
Found(t) ==
  /\ bindingAt[t] # "idle" => bindingMemo[t].url \in Url
  /\ bindingAt[t] \in Named => bindingMemo[t].name \in CardName
  /\ bindingAt[t] = "writemap" => bindingMemo[t].map \in [Url -> CardName \cup {None}]
  /\ \A n \in CardName : Binding!Relies(t, n) => n \in doomed \/ repos[n].from = bindingMemo[t].url
  /\ bindingMemo[t].mine => /\ bindingAt[t] \in {"misnamed", "bind", "readmap", "writemap"}
                     /\ repos[bindingMemo[t].name].from = bindingMemo[t].url
  /\ bindingAt[t] = "misnamed" => bindingMemo[t].mine

OneOwner == \A t, u \in Task : bindingMemo[t].mine /\ bindingMemo[u].mine
     /\ bindingMemo[t].name = bindingMemo[u].name => t = u

BindingInv == BindingTypes /\ Binding!BindingsAreTrue /\ ClonesAreClaimed /\ OneOwner
     /\ \A t \in Task : Found(t)

LEMMA IdleHasNothing == Binding!Idle \in Call /\ ~ Binding!Idle.mine /\ Binding!Idle.url = None
     /\ Binding!Idle.name = None
  BY DEF Binding!Idle, Call

LEMMA BindingStarts == ASSUME Binding!BindingAssumption PROVE Binding!Init => BindingInv
  <1> SUFFICES ASSUME Binding!Init PROVE BindingInv
    OBVIOUS
  <1>1. BindingTypes
    BY IdleHasNothing DEF Binding!Init, BindingTypes, Binding!TypeOK, Binding!Absent, Named
  <1>2. \A n \in CardName : repos[n].origin = None /\ repos[n].from = None
    BY DEF Binding!Init, Binding!Absent
  <1>3. \A t \in Task : ~ bindingMemo[t].mine /\ bindingAt[t] = "idle"
    BY IdleHasNothing DEF Binding!Init
  <1>4. QED BY <1>1, <1>2, <1>3
    DEF Binding!BindingAssumption, BindingInv, Binding!BindingsAreTrue, ClonesAreClaimed, OneOwner,
        Found, Binding!Relies, Named

(* A step that only reads. *)
LEMMA Quiet ==
  ASSUME Binding!BindingAssumption, BindingInv, NEW t \in Task, NEW next \in {"idle", "scan",
         "recall",
  "clone"} \cup Named, NEW c \in Call,
         UNCHANGED <<repos, declared, doomed>>, known' \in [Url -> CardName \cup {None}],
         bindingAt' = [bindingAt EXCEPT ![t] = next], bindingMemo' = [bindingMemo EXCEPT ![t] = c],
         bindingAt[t] \notin {"misnamed", "bind"},
         c.mine => bindingMemo[t].mine /\ c.name = bindingMemo[t].name,
         Found(t)'
  PROVE  BindingInv'
  <1>1. BindingTypes'
    BY DEF BindingInv, BindingTypes, Binding!TypeOK
  <1>2. \A u \in Task \ {t} : bindingAt'[u] = bindingAt[u] /\ bindingMemo'[u] = bindingMemo[u]
    BY DEF BindingInv, BindingTypes
  <1>3. bindingMemo'[t] = c
    BY DEF BindingInv, BindingTypes
  <1>4. \A u \in Task \ {t} : Found(u)'
    BY <1>2 DEF BindingInv, Found, Binding!Relies
  <1>5. OneOwner'
    BY <1>2, <1>3 DEF BindingInv, OneOwner
  <1>6. Binding!BindingsAreTrue' /\ ClonesAreClaimed'
    BY <1>2 DEF BindingInv, Binding!BindingsAreTrue, ClonesAreClaimed
  <1>7. QED BY <1>1, <1>4, <1>5, <1>6 DEF BindingInv

LEMMA Returned == ASSUME Binding!BindingAssumption, BindingInv, NEW t \in Task, UNCHANGED <<repos,
declared, doomed>>, known' \in [Url -> CardName \cup {None}],
         Binding!Goto(t, "idle"), Binding!Remember(t, Binding!Idle),
              bindingAt[t] \notin {"misnamed", "bind"}
   PROVE BindingInv'
  <1>1. Found(t)'
    BY IdleHasNothing DEF BindingInv, BindingTypes, Binding!Goto, Binding!Remember, Found,
                          Binding!Relies, Named
  <1>2. QED BY <1>1, IdleHasNothing, Quiet DEF Binding!Goto, Binding!Remember

LEMMA Looked == ASSUME Binding!BindingAssumption, BindingInv, NEW t \in Task,
NEW step \in Named \cup {"scan", "recall", "clone"},
    NEW next \in Named \cup {"recall", "clone"}, NEW c \in Call,
    Binding!Look(t, step, next, c), step \notin {"misnamed", "bind"}, next # "misnamed",
    c.url = bindingMemo[t].url, c.mine = bindingMemo[t].mine, c.mine =>
         c.name = bindingMemo[t].name,
    c.mine => next \in {"readmap", "writemap"},
    next \in Named => c.name \in CardName,
    next = "writemap" => c.map \in [Url -> CardName \cup {None}],
    next \in {"fetch", "bind", "readmap", "writemap"} =>
         c.name \in doomed \/ repos[c.name].from = c.url
  PROVE BindingInv'
  <1>1. /\ bindingAt[t] = step /\ bindingAt' = [bindingAt EXCEPT ![t] = next]
           /\ bindingMemo' = [bindingMemo EXCEPT ![t] = c]
        /\ UNCHANGED <<repos, known, declared, doomed>>
    BY DEF Binding!Look, Binding!Goto, Binding!Remember, Binding!Same
  <1>2. bindingAt'[t] = next /\ bindingMemo'[t] = c
    BY <1>1 DEF BindingInv, BindingTypes
  <1>3. bindingMemo[t].url \in Url /\ (bindingMemo[t].mine =>
          repos[bindingMemo[t].name].from = bindingMemo[t].url)
    BY <1>1 DEF BindingInv, Found, Named
  <1>4. Found(t)'
    BY <1>1, <1>2, <1>3 DEF Found, Binding!Relies, Named
  <1>5. QED BY <1>1, <1>4, Quiet DEF BindingInv, BindingTypes, Binding!TypeOK

(* The step of another's clone: what a call has found out stays found. *)
LEMMA Unmoved ==
  ASSUME Binding!BindingAssumption, BindingInv, NEW t \in Task, NEW u \in Task \ {t},
  NEW n \in CardName, BindingTypes',
         bindingAt'[u] = bindingAt[u], bindingMemo'[u] = bindingMemo[u],
         doomed \subseteq doomed',
         \A m \in CardName \ {n} : repos'[m] = repos[m],
         \/ repos[n].from = None
         \/ repos'[n].from = repos[n].from
         \/ ~ (bindingMemo[u].mine /\ bindingMemo[u].name = n) /\ (Binding!Relies(u, n) =>
            n \in doomed')
  PROVE  Found(u)'
  <1>1. /\ bindingAt[u] # "idle" => bindingMemo[u].url \in Url
        /\ bindingAt[u] \in Named => bindingMemo[u].name \in CardName
        /\ bindingMemo[u].mine => bindingAt[u] \in Named
    BY DEF BindingInv, Found, Named
  <1>2. \A m \in CardName : Binding!Relies(u, m) =>
          m \in doomed \/ repos[m].from = bindingMemo[u].url
    BY DEF BindingInv, Found
  <1>3. \A m \in CardName : Binding!Relies(u, m) =>
          bindingAt[u] # "idle" /\ bindingMemo[u].url # None
    BY <1>1 DEF Binding!Relies, Binding!BindingAssumption
  <1>4. \A m \in CardName : Binding!Relies(u, m)' =>
          m \in doomed' \/ repos'[m].from = bindingMemo'[u].url
    <2> SUFFICES ASSUME NEW m \in CardName, Binding!Relies(u, m)'
                 PROVE  m \in doomed' \/ repos'[m].from = bindingMemo'[u].url
      OBVIOUS
    <2>1. Binding!Relies(u, m)
      BY DEF Binding!Relies
    <2>2. QED BY <1>2, <1>3, <2>1
  <1>5. bindingMemo[u].mine => repos'[bindingMemo[u].name].from = bindingMemo[u].url
    <2> SUFFICES ASSUME bindingMemo[u].mine
                 PROVE  repos'[bindingMemo[u].name].from = bindingMemo[u].url
      OBVIOUS
    <2>1. repos[bindingMemo[u].name].from = bindingMemo[u].url
            /\ bindingMemo[u].name \in CardName /\ bindingMemo[u].url \in Url
      BY <1>1 DEF BindingInv, Found, Named
    <2>2. QED BY <2>1 DEF Binding!BindingAssumption
  <1>6. QED BY <1>4, <1>5 DEF BindingInv, Found

(* A clone comes to a place that is free. *)
LEMMA Cloned ==
  ASSUME Binding!BindingAssumption, BindingInv, NEW t \in Task, NEW n \in CardName, NEW u \in Url,
  NEW next \in {"bind", "misnamed"},
         NEW c \in Call, c.name = n, c.url = u, bindingMemo[t].url = u, next = "misnamed" => c.mine,
         bindingAt[t] \in {"cloneknown", "rename"}, ~ Binding!Exists(n),
         repos' = [repos EXCEPT ![n] = Binding!CloneOf(u)],
         bindingAt' = [bindingAt EXCEPT ![t] = next], bindingMemo' = [bindingMemo EXCEPT ![t] = c],
         UNCHANGED <<known, declared, doomed>>
  PROVE  BindingInv'
  <1>1. Binding!CloneOf(u) \in Repo /\ Binding!CloneOf(u).from = u
          /\ Binding!CloneOf(u).origin = None
    BY DEF Binding!CloneOf, Binding!Absent, Repo
  <1>2. BindingTypes'
    BY <1>1 DEF BindingInv, BindingTypes, Binding!TypeOK, Repo, Named
  <1>3. repos'[n] = Binding!CloneOf(u) /\ bindingAt'[t] = next /\ bindingMemo'[t] = c
    BY DEF BindingInv, BindingTypes, Binding!TypeOK
  <1>4. \A m \in CardName \ {n} : repos'[m] = repos[m]
    BY DEF BindingInv, BindingTypes, Binding!TypeOK
  <1>5. \A v \in Task \ {t} : bindingAt'[v] = bindingAt[v] /\ bindingMemo'[v] = bindingMemo[v]
    BY DEF BindingInv, BindingTypes
  <1>6. \A v \in Task \ {t} : Found(v)'
    BY <1>2, <1>4, <1>5, Unmoved DEF Binding!Exists
  <1>7. Found(t)'
    BY <1>1, <1>3 DEF Found, Binding!Relies
  <1>8. \A v \in Task \ {t} : ~ (bindingMemo[v].mine /\ bindingMemo[v].name = n)
    BY DEF BindingInv, Found, Binding!Exists, Binding!BindingAssumption, Named
  <1>9. OneOwner'
    BY <1>3, <1>5, <1>8 DEF BindingInv, OneOwner
  <1>10. Binding!BindingsAreTrue'
    BY <1>1, <1>3, <1>4 DEF BindingInv, Binding!BindingsAreTrue
  <1>11. ClonesAreClaimed'
    <2> SUFFICES ASSUME NEW m \in CardName \ doomed, repos'[m].from \in Url
          /\ repos'[m].origin = None
                 PROVE  \E v \in Task : bindingAt'[v] \in {"misnamed", "bind"}
                      /\ bindingMemo'[v].name = m
      BY DEF ClonesAreClaimed
    <2>1. CASE m = n
      BY <1>3, <2>1
    <2>2. CASE m # n
      BY <1>4, <1>5, <2>2 DEF BindingInv, ClonesAreClaimed
    <2>3. QED BY <2>1, <2>2
  <1>12. QED BY <1>2, <1>6, <1>7, <1>9, <1>10, <1>11 DEF BindingInv

(* What a step of t needs of t.  *)
LEMMA WhatItHas == ASSUME BindingInv, NEW t \in Task PROVE
  /\ bindingMemo[t] \in Call /\ repos \in [CardName -> Repo]
     /\ known \in [Url -> CardName \cup {None}]
  /\ bindingAt[t] # "idle" => bindingMemo[t].url \in Url
  /\ bindingAt[t] \in Named => bindingMemo[t].name \in CardName
  BY DEF BindingInv, BindingTypes, Binding!TypeOK, Found, Repo

LEMMA UnnameKeeps ==
  ASSUME Binding!BindingAssumption, BindingInv, NEW t \in Task, Binding!Unname(t)
  PROVE  BindingInv'
  <1> DEFINE n == bindingMemo[t].name
  <1>1. bindingMemo[t].mine /\ n \in CardName /\ bindingMemo[t].url \in Url
          /\ bindingAt[t] \in Named
    BY WhatItHas DEF Binding!Unname, BindingInv, Found, Named
  <1>2. /\ repos' = [repos EXCEPT ![n] = Binding!Absent]
        /\ doomed' = (IF repos[n].published
           \/ \E u \in Task \ {t} : Binding!Relies(u, n) THEN doomed \cup {n} ELSE doomed)
        /\ UNCHANGED <<known, declared>>
    BY DEF Binding!Unname
  <1>3. PICK next \in {"clone", "idle"}, c \in Call :
           /\ ~ c.mine /\ c.url = (IF next = "clone" THEN bindingMemo[t].url ELSE None)
           /\ bindingAt' = [bindingAt EXCEPT ![t] = next]
              /\ bindingMemo' = [bindingMemo EXCEPT ![t] = c]
    <2>1. [Binding!Idle EXCEPT !.url = bindingMemo[t].url] \in Call
            /\ ~ [Binding!Idle EXCEPT !.url = bindingMemo[t].url].mine
          /\ [Binding!Idle EXCEPT !.url = bindingMemo[t].url].url = bindingMemo[t].url
      BY <1>1 DEF Binding!Idle, Call
    <2>2. CASE bindingAt[t] = "misnamed"
      BY <2>1, <2>2 DEF Binding!Unname, Binding!Goto, Binding!Remember
    <2>3. CASE bindingAt[t] # "misnamed"
      BY <2>3, IdleHasNothing DEF Binding!Unname, Binding!Goto, Binding!Remember
    <2>4. QED BY <2>2, <2>3
  <1> HIDE DEF n
  <1>4. /\ repos'[n] = Binding!Absent /\ Binding!Absent \in Repo /\ Binding!Absent.from = None
           /\ Binding!Absent.origin = None
        /\ \A m \in CardName \ {n} : repos'[m] = repos[m]
    BY <1>1, <1>2 DEF BindingInv, BindingTypes, Binding!TypeOK, Binding!Absent, Repo
  <1>5. BindingTypes'
    BY <1>2, <1>3, <1>4 DEF BindingInv, BindingTypes, Binding!TypeOK, Repo
  <1>6. bindingAt'[t] = next /\ bindingMemo'[t] = c
          /\ \A u \in Task \ {t} : bindingAt'[u] = bindingAt[u] /\ bindingMemo'[u] = bindingMemo[u]
    BY <1>3 DEF BindingInv, BindingTypes
  <1>7. \A u \in Task \ {t} : Found(u)'
    <2> SUFFICES ASSUME NEW u \in Task \ {t} PROVE Found(u)'
      OBVIOUS
    <2>1. ~ (bindingMemo[u].mine /\ bindingMemo[u].name = n)
      BY <1>1 DEF BindingInv, OneOwner, n
    <2>2. doomed \subseteq doomed' /\ (Binding!Relies(u, n) => n \in doomed')
      BY <1>2
    <2>3. QED BY <1>1, <1>4, <1>5, <1>6, <2>1, <2>2, Unmoved
  <1>8. Found(t)'
    BY <1>1, <1>3, <1>6 DEF Found, Binding!Relies, Named
  <1>9. OneOwner'
    BY <1>3, <1>6 DEF BindingInv, OneOwner
  <1>10. Binding!BindingsAreTrue' /\ ClonesAreClaimed'
    <2>1. doomed \subseteq doomed'
      BY <1>2
    <2>2. Binding!BindingsAreTrue'
      BY <1>4, <2>1 DEF BindingInv, Binding!BindingsAreTrue
    <2>3. ASSUME NEW m \in CardName \ doomed', repos'[m].from \in Url /\ repos'[m].origin = None
          PROVE  \E v \in Task : bindingAt'[v] \in {"misnamed", "bind"} /\ bindingMemo'[v].name = m
      <3>1. m # n
        BY <1>4, <2>3 DEF Binding!BindingAssumption
      <3>2. PICK v \in Task : bindingAt[v] \in {"misnamed", "bind"} /\ bindingMemo[v].name = m
        BY <1>4, <2>1, <2>3, <3>1 DEF BindingInv, ClonesAreClaimed
      <3>3. QED BY <1>6, <3>1, <3>2 DEF n
    <2>4. QED BY <2>2, <2>3 DEF ClonesAreClaimed
  <1>11. QED BY <1>5, <1>7, <1>8, <1>9, <1>10 DEF BindingInv

LEMMA BindKeeps ==
  ASSUME Binding!BindingAssumption, BindingInv, NEW t \in Task, Binding!Bind(t)
  PROVE  BindingInv'
  <1> DEFINE n == bindingMemo[t].name
  <1>1. n \in CardName /\ bindingMemo[t].url \in Url /\ bindingAt[t] = "bind" /\ (n \in doomed
          \/ repos[n].from = bindingMemo[t].url)
    BY WhatItHas DEF Binding!Bind, BindingInv, Found, Named, Binding!Relies
  <1>2. /\ repos' = [repos EXCEPT ![n].origin = bindingMemo[t].url]
           /\ bindingAt' = [bindingAt EXCEPT ![t] = "readmap"]
        /\ UNCHANGED <<known, bindingMemo, declared, doomed>>
    BY DEF Binding!Bind, Binding!Goto, Binding!Same
  <1> HIDE DEF n
  <1>3. /\ repos'[n].from = repos[n].from /\ repos'[n].origin = bindingMemo[t].url
           /\ repos'[n] \in Repo
        /\ repos' \in [CardName -> Repo]
        /\ \A m \in CardName \ {n} : repos'[m] = repos[m]
    BY <1>1, <1>2 DEF BindingInv, BindingTypes, Binding!TypeOK, Repo
  <1>4. BindingTypes'
    BY <1>2, <1>3 DEF BindingInv, BindingTypes, Binding!TypeOK, Repo, Named
  <1>5. bindingAt'[t] = "readmap" /\ \A u \in Task \ {t} : bindingAt'[u] = bindingAt[u]
    BY <1>2 DEF BindingInv, BindingTypes
  <1>6. \A u \in Task \ {t} : Found(u)'
    BY <1>1, <1>2, <1>3, <1>4, <1>5, Unmoved
  <1>7. Found(t)'
    BY <1>1, <1>2, <1>3, <1>5 DEF BindingInv, Found, Binding!Relies, Named, n
  <1>8. OneOwner' /\ Binding!BindingsAreTrue'
    BY <1>1, <1>2, <1>3 DEF BindingInv, OneOwner, Binding!BindingsAreTrue
  <1>9. ASSUME NEW m \in CardName \ doomed', repos'[m].from \in Url /\ repos'[m].origin = None
        PROVE  \E v \in Task : bindingAt'[v] \in {"misnamed", "bind"} /\ bindingMemo'[v].name = m
    <2>1. m # n
      BY <1>1, <1>3, <1>9 DEF Binding!BindingAssumption
    <2>2. PICK v \in Task : bindingAt[v] \in {"misnamed", "bind"} /\ bindingMemo[v].name = m
      BY <1>2, <1>3, <1>9, <2>1 DEF BindingInv, ClonesAreClaimed
    <2>3. QED BY <1>2, <1>5, <2>1, <2>2 DEF n
  <1>10. QED BY <1>4, <1>6, <1>7, <1>8, <1>9 DEF BindingInv, ClonesAreClaimed

LEMMA FailKeeps ==
  ASSUME Binding!BindingAssumption, BindingInv, NEW t \in Task, Binding!Fail(t)
  PROVE  BindingInv'
  <1>1. /\ bindingAt' = [bindingAt EXCEPT ![t] = "idle"]
           /\ bindingMemo' = [bindingMemo EXCEPT ![t] = Binding!Idle]
        /\ doomed' = (IF bindingAt[t] \in {"misnamed", "bind"}
           THEN doomed \cup {bindingMemo[t].name} ELSE doomed)
        /\ UNCHANGED <<repos, known, declared>>
    BY DEF Binding!Fail, Binding!Goto, Binding!Remember
  <1>2. /\ bindingAt'[t] = "idle" /\ bindingMemo'[t] = Binding!Idle
        /\ \A u \in Task \ {t} : bindingAt'[u] = bindingAt[u] /\ bindingMemo'[u] = bindingMemo[u]
        /\ doomed \subseteq doomed'
    BY <1>1 DEF BindingInv, BindingTypes
  <1>3. BindingTypes'
    BY <1>1, IdleHasNothing DEF BindingInv, BindingTypes, Binding!TypeOK
  <1>4. \A u \in Task \ {t} : Found(u)'
    BY <1>1, <1>2 DEF BindingInv, Found, Binding!Relies
  <1>5. Found(t)'
    BY <1>2, IdleHasNothing DEF Found, Binding!Relies, Named
  <1>6. OneOwner' /\ Binding!BindingsAreTrue'
    BY <1>1, <1>2, IdleHasNothing DEF BindingInv, OneOwner, Binding!BindingsAreTrue
  <1>7. ClonesAreClaimed'
    BY <1>1, <1>2 DEF BindingInv, ClonesAreClaimed
  <1>8. QED BY <1>3, <1>4, <1>5, <1>6, <1>7 DEF BindingInv

(* The steps of no call. *)
LEMMA OutsideKeeps ==
  ASSUME Binding!BindingAssumption, BindingInv, NEW n \in CardName,
         Binding!Publish(n) \/ Binding!Remove(n)
  PROVE  BindingInv'
  <1>1. UNCHANGED <<known, declared, bindingAt, bindingMemo, doomed>>
    BY DEF Binding!Publish, Binding!Remove
  <1>2. CASE Binding!Publish(n)
    <2>1. repos' = [repos EXCEPT ![n] = Binding!WithCard(repos[n])]
      BY <1>2 DEF Binding!Publish
    <2>2. /\ repos'[n].from = (IF repos[n].from = None THEN Binding!Local ELSE repos[n].from)
          /\ repos'[n].origin = repos[n].origin
          /\ repos' \in [CardName -> Repo]
          /\ \A m \in CardName \ {n} : repos'[m] = repos[m]
      <3> DEFINE r == Binding!WithCard(repos[n])
      <3>1. repos \in [CardName -> Repo] /\ repos[n] \in Repo
        BY DEF BindingInv, BindingTypes, Binding!TypeOK, Repo
      <3>2. r \in Repo /\ r.from = (IF repos[n].from = None THEN Binding!Local ELSE repos[n].from)
            /\ r.origin = repos[n].origin
        BY <3>1 DEF Repo, Binding!WithCard
      <3> HIDE DEF r
      <3>3. repos' = [repos EXCEPT ![n] = r]
        BY <2>1 DEF r
      <3>4. QED BY <3>1, <3>2, <3>3
    <2>3. BindingTypes'
      BY <1>1, <2>2 DEF BindingInv, BindingTypes, Binding!TypeOK, Repo
    <2>4. \A u \in Task : Found(u)'
      <3> SUFFICES ASSUME NEW u \in Task PROVE Found(u)'
        OBVIOUS
      <3>1. \A m \in CardName : Binding!Relies(u, m) /\ m \notin doomed => repos[m].from \in Url
        BY WhatItHas DEF BindingInv, Found, Binding!Relies
      <3>2. bindingMemo[u].mine => repos[bindingMemo[u].name].from \in Url
              /\ bindingMemo[u].name \in CardName
        BY WhatItHas DEF BindingInv, Found, Named
      <3>3. \A m \in CardName : repos[m].from \in Url => repos'[m].from = repos[m].from
        BY <2>2 DEF Binding!BindingAssumption
      <3>4. QED BY <1>1, <3>1, <3>2, <3>3 DEF BindingInv, Found, Binding!Relies
    <2>5. Binding!BindingsAreTrue'
      BY <1>1, <2>2 DEF BindingInv, Binding!BindingsAreTrue
    <2>6. \A m \in CardName : repos'[m].from \in Url =>
            repos[m].from \in Url /\ repos'[m].origin = repos[m].origin
      BY <2>2 DEF Binding!BindingAssumption
    <2>7. QED BY <1>1, <2>3, <2>4, <2>5, <2>6 DEF BindingInv, OneOwner, ClonesAreClaimed
  <1>3. CASE Binding!Remove(n)
    <2>1. repos' = [repos EXCEPT ![n] = Binding!Absent] /\ \A t \in Task : bindingMemo[t].name # n
      BY <1>3 DEF Binding!Remove
    <2>2. /\ repos'[n].from = None /\ repos'[n].origin = None
          /\ repos' \in [CardName -> Repo]
          /\ \A m \in CardName \ {n} : repos'[m] = repos[m]
      BY <2>1 DEF BindingInv, BindingTypes, Binding!TypeOK, Repo, Binding!Absent
    <2>3. BindingTypes'
      BY <1>1, <2>2 DEF BindingInv, BindingTypes, Binding!TypeOK, Repo
    <2>4. \A u \in Task : Found(u)'
      <3> SUFFICES ASSUME NEW u \in Task PROVE Found(u)'
        OBVIOUS
      <3>1. bindingMemo[u].mine => bindingMemo[u].name \in CardName \ {n}
        BY <2>1 DEF BindingInv, Found, Named
      <3>2. \A m \in CardName : Binding!Relies(u, m) => m # n
        BY <2>1 DEF Binding!Relies
      <3>3. QED BY <1>1, <2>2, <3>1, <3>2 DEF BindingInv, Found, Binding!Relies
    <2>5. Binding!BindingsAreTrue'
      BY <1>1, <2>2 DEF BindingInv, Binding!BindingsAreTrue
    <2>6. \A m \in CardName : repos'[m].from \in Url => m # n
      BY <2>2 DEF Binding!BindingAssumption
    <2>7. QED BY <1>1, <2>2, <2>3, <2>4, <2>5, <2>6 DEF BindingInv, OneOwner, ClonesAreClaimed
  <1>4. QED BY <1>2, <1>3

LEMMA QuietKeeps ==
  ASSUME Binding!BindingAssumption, BindingInv, NEW t \in Task,
         Binding!Scan(t) \/ Binding!Recall(t) \/ Binding!TryKnown(t) \/ Binding!Fetch(t)
              \/ Binding!Place(t)
         \/ Binding!Collide(t) \/ Binding!Clone(t) \/ Binding!ReadMap(t)
  PROVE  BindingInv'
  <1> DEFINE c(n) == [bindingMemo[t] EXCEPT !.name = n]
  <1>1. \A n \in CardName : /\ c(n) \in Call /\ c(n).name = n /\ c(n).url = bindingMemo[t].url
                               /\ c(n).mine = bindingMemo[t].mine
                          /\ c(n).map = bindingMemo[t].map
    BY WhatItHas DEF Call
  <1>2. /\ bindingAt[t] # "idle" => bindingMemo[t].url \in Url
        /\ bindingAt[t] \in Named => bindingMemo[t].name \in CardName
        /\ bindingMemo[t].mine => bindingAt[t] \in {"misnamed", "bind", "readmap", "writemap"}
        /\ bindingMemo[t] \in Call /\ repos \in [CardName -> Repo]
           /\ known \in [Url -> CardName \cup {None}]
        /\ declared \in [Url -> CardName] /\ UNCHANGED known
    BY WhatItHas DEF BindingInv, BindingTypes, Found, Binding!Scan, Binding!Recall,
                     Binding!TryKnown,
                     Binding!Fetch, Binding!Place, Binding!Collide, Binding!Clone,
                          Binding!ReadMap, Binding!Return, Binding!Look
  <1>3. ASSUME NEW step \in {"fetch", "clone", "collision"}, Binding!Return(t, step)
        PROVE  BindingInv'
    BY <1>2, <1>3, Returned DEF Binding!Return, Binding!Look, Binding!Same
  <1> HIDE DEF c
  <1>4. CASE Binding!Scan(t)
    <2>1. ASSUME NEW n \in Binding!Bound(bindingMemo[t].url), Binding!Look(t, "scan", "fetch", c(n))
          PROVE  BindingInv'
      <3>1. n \in CardName /\ repos[n].origin = bindingMemo[t].url /\ bindingMemo[t].url # None
              /\ ~ bindingMemo[t].mine
        BY <1>2, <1>4 DEF Binding!Bound, Binding!Scan, Binding!BindingAssumption, Named
      <3>2. n \in doomed \/ repos[n].from = bindingMemo[t].url
        BY <3>1 DEF BindingInv, Binding!BindingsAreTrue
      <3>3. PICK call \in Call : call = c(n) /\ call.name = n /\ call.url = bindingMemo[t].url
              /\ call.mine = bindingMemo[t].mine
        BY <1>1, <3>1
      <3>4. Binding!Look(t, "scan", "fetch", call)
        BY <2>1, <3>3
      <3>5. /\ ~ call.mine /\ call.name \in CardName
            /\ call.name \in doomed \/ repos[call.name].from = call.url
        BY <3>1, <3>2, <3>3
      <3>6. "scan" \in Named \cup {"scan", "recall", "clone"} /\ "fetch" \in Named
        BY DEF Named
      <3>7. QED BY <3>3, <3>4, <3>5, <3>6, Looked
    <2>2. CASE Binding!Look(t, "scan", "recall", bindingMemo[t])
      BY <1>2, <1>4, <2>2, Looked DEF Binding!Scan, Named
    <2>3. QED BY <1>4, <2>1, <2>2 DEF Binding!Scan, c
  <1>5. CASE Binding!Recall(t)
    <2>1. ~ bindingMemo[t].mine /\ known[bindingMemo[t].url] \in CardName \cup {None}
      BY <1>2, <1>5 DEF Binding!Recall
    <2>2. CASE known[bindingMemo[t].url] = None
      BY <1>2, <1>5, <2>1, <2>2, Looked DEF Binding!Recall, Named
    <2>3. CASE known[bindingMemo[t].url] # None
      <3>1. Binding!Look(t, "recall", "known", c(known[bindingMemo[t].url]))
              /\ known[bindingMemo[t].url] \in CardName
        BY <1>5, <2>1, <2>3 DEF Binding!Recall, c
      <3>2. PICK call \in Call : call = c(known[bindingMemo[t].url])
              /\ call.name = known[bindingMemo[t].url] /\ call.url = bindingMemo[t].url
              /\ call.mine = bindingMemo[t].mine
        BY <1>1, <3>1
      <3>3. Binding!Look(t, "recall", "known", call)
        BY <3>1, <3>2
      <3>4. ~ call.mine /\ call.name \in CardName
        BY <2>1, <3>1, <3>2
      <3>5. "recall" \in Named \cup {"scan", "recall", "clone"} /\ "known" \in Named
        BY DEF Named
      <3>6. QED BY <3>2, <3>3, <3>4, <3>5, Looked
    <2>4. QED BY <2>2, <2>3
  <1>6. CASE Binding!TryKnown(t) \/ Binding!Place(t)
    <2>1. PICK step \in {"known", "place"}, next \in {"cloneknown", "rename", "fetch", "bind",
            "collision"} :
             Binding!Look(t, step, next, bindingMemo[t]) /\ (next \in {"fetch", "bind"} =>
                  Binding!Owned(t, bindingMemo[t].name))
      BY <1>6 DEF Binding!TryKnown, Binding!Place
    <2>2. bindingAt[t] = step /\ ~ bindingMemo[t].mine /\ bindingMemo[t].name \in CardName
            /\ bindingMemo[t].url \in Url
      BY <1>2, <2>1 DEF Binding!Look, Named
    <2>3. Binding!Owned(t, bindingMemo[t].name) =>
            bindingMemo[t].name \in doomed \/ repos[bindingMemo[t].name].from = bindingMemo[t].url
      BY <2>2 DEF Binding!Owned, BindingInv, Binding!BindingsAreTrue, Binding!BindingAssumption
    <2>4. QED BY <1>2, <2>1, <2>2, <2>3, Looked DEF Named
  <1>7. CASE Binding!Fetch(t)
    <2>1. CASE Binding!Look(t, "fetch", "readmap", bindingMemo[t])
      <3>1. bindingAt[t] = "fetch" /\ ~ bindingMemo[t].mine /\ bindingMemo[t].name \in CardName
        BY <1>2, <2>1 DEF Binding!Look, Named
      <3>2. bindingMemo[t].name \in doomed \/ repos[bindingMemo[t].name].from = bindingMemo[t].url
        BY <3>1 DEF BindingInv, Found, Binding!Relies
      <3>3. QED BY <1>2, <2>1, <3>1, <3>2, Looked DEF Named
    <2>2. QED BY <1>3, <1>7, <2>1 DEF Binding!Fetch
  <1>8. CASE Binding!Clone(t)
    <2>1. CASE Binding!Look(t, "clone", "place", c(declared[bindingMemo[t].url]))
      <3>1. ~ bindingMemo[t].mine /\ declared[bindingMemo[t].url] \in CardName
        BY <1>2, <2>1 DEF Binding!Look, Named
      <3>2. PICK call \in Call : call = c(declared[bindingMemo[t].url])
              /\ call.name = declared[bindingMemo[t].url] /\ call.url = bindingMemo[t].url
              /\ call.mine = bindingMemo[t].mine
        BY <1>1, <3>1
      <3>3. Binding!Look(t, "clone", "place", call)
        BY <2>1, <3>2
      <3>4. ~ call.mine /\ call.name \in CardName
        BY <3>1, <3>2
      <3>5. "clone" \in Named \cup {"scan", "recall", "clone"} /\ "place" \in Named
        BY DEF Named
      <3>6. QED BY <3>2, <3>3, <3>4, <3>5, Looked
    <2>2. QED BY <1>3, <1>8, <2>1 DEF Binding!Clone, c
  <1>9. CASE Binding!Collide(t)
    BY <1>3, <1>9 DEF Binding!Collide
  <1>10. CASE Binding!ReadMap(t)
    <2> DEFINE d == [bindingMemo[t] EXCEPT !.map = known]
    <2>1. bindingAt[t] = "readmap" /\ bindingMemo[t].name \in CardName
      BY <1>2, <1>10 DEF Binding!ReadMap, Binding!Look, Named
    <2>2. d \in Call /\ d.name = bindingMemo[t].name /\ d.url = bindingMemo[t].url
            /\ d.mine = bindingMemo[t].mine /\ d.map = known
      BY <1>2 DEF Call
    <2>3. known \in [Url -> CardName \cup {None}]
      BY <1>2
    <2>4. bindingMemo[t].name \in doomed \/ repos[bindingMemo[t].name].from = bindingMemo[t].url
      BY <2>1 DEF BindingInv, Found, Binding!Relies
    <2> HIDE DEF d
    <2>5. QED BY <1>10, <2>1, <2>2, <2>3, <2>4, Looked DEF Binding!ReadMap, Named, d
  <1>11. QED BY <1>4, <1>5, <1>6, <1>7, <1>8, <1>9, <1>10

LEMMA CloningKeeps ==
  ASSUME Binding!BindingAssumption, BindingInv, NEW t \in Task,
         Binding!CloneKnown(t) \/ Binding!Rename(t)
  PROVE  BindingInv'
  <1> DEFINE n == bindingMemo[t].name
             u == bindingMemo[t].url
             c == [bindingMemo[t] EXCEPT !.mine = TRUE]
  <1>1. n \in CardName /\ u \in Url /\ bindingAt[t] \in {"cloneknown", "rename"}
    BY WhatItHas DEF Binding!CloneKnown, Binding!Rename, Binding!Return, Binding!Look, Named
  <1>2. CASE Binding!Exists(n)
    <2>1. Binding!Return(t, "cloneknown") \/ Binding!Return(t, "rename")
      BY <1>2 DEF Binding!CloneKnown, Binding!Rename, Binding!InTheWay
    <2>2. UNCHANGED <<repos, known, declared, doomed>> /\ Binding!Goto(t, "idle")
            /\ Binding!Remember(t, Binding!Idle)
      BY <2>1 DEF Binding!Return, Binding!Look, Binding!Same
    <2>3. QED BY <1>1, <2>2, Returned, WhatItHas
  <1>3. CASE ~ Binding!Exists(n)
    <2>1. c \in Call /\ c.name = n /\ c.url = u /\ c.mine
      BY WhatItHas DEF Call
    <2>2. bindingMemo = [bindingMemo EXCEPT ![t] = bindingMemo[t]]
      BY DEF BindingInv, BindingTypes
    <2>3. PICK next \in {"bind", "misnamed"}, d \in Call :
             /\ d.name = n /\ d.url = u /\ (next = "misnamed" => d.mine)
             /\ repos' = [repos EXCEPT ![n] = Binding!CloneOf(u)]
             /\ bindingAt' = [bindingAt EXCEPT ![t] = next]
                /\ bindingMemo' = [bindingMemo EXCEPT ![t] = d]
             /\ UNCHANGED <<known, declared, doomed>>
      <3>1. CASE Binding!CloneKnown(t)
        <4>1. /\ Binding!Goto(t, IF declared[u] = n THEN "bind" ELSE "misnamed")
                 /\ Binding!Remember(t, c)
              /\ repos' = [repos EXCEPT ![n] = Binding!CloneOf(u)] /\ UNCHANGED known
                 /\ Binding!Same
          BY <1>3, <3>1 DEF Binding!CloneKnown
        <4> HIDE DEF c, n, u
        <4>2. QED BY <2>1, <4>1 DEF Binding!Goto, Binding!Remember, Binding!Same
      <3>2. CASE Binding!Rename(t)
        <4>1. /\ Binding!Goto(t, "bind") /\ UNCHANGED <<known, bindingMemo>> /\ Binding!Same
              /\ repos' = [repos EXCEPT ![n] = Binding!CloneOf(u)]
          BY <1>3, <3>2 DEF Binding!Rename, Binding!InTheWay
        <4>2. bindingMemo[t] \in Call
          BY WhatItHas
        <4>3. QED BY <2>2, <4>1, <4>2 DEF Binding!Goto, Binding!Same
      <3>3. QED BY <3>1, <3>2
    <2> HIDE DEF c, n, u
    <2>4. bindingMemo[t].url = u
      BY DEF u
    <2>5. QED BY <1>1, <1>3, <2>3, <2>4, Cloned
  <1>4. QED BY <1>2, <1>3

LEMMA WriteMapKeeps ==
  ASSUME Binding!BindingAssumption, BindingInv, NEW t \in Task, Binding!WriteMap(t)
  PROVE  BindingInv'
  <1>1. /\ bindingAt[t] = "writemap" /\ bindingMemo[t].map \in [Url -> CardName \cup {None}]
           /\ bindingMemo[t].url \in Url /\ bindingMemo[t].name \in CardName
    BY DEF Binding!WriteMap, BindingInv, Found, Named
  <1>2. known' \in [Url -> CardName \cup {None}]
    BY <1>1 DEF Binding!WriteMap
  <1>3. UNCHANGED <<repos, declared, doomed>> /\ Binding!Goto(t, "idle")
          /\ Binding!Remember(t, Binding!Idle)
    BY DEF Binding!WriteMap, Binding!Same
  <1>4. QED BY <1>1, <1>2, <1>3, Returned

LEMMA StartKeeps ==
  ASSUME Binding!BindingAssumption, BindingInv, NEW t \in Task, NEW u \in Url, Binding!Start(t, u)
  PROVE  BindingInv'
  <1> DEFINE c == [Binding!Idle EXCEPT !.url = u]
  <1>1. c \in Call /\ c.url = u /\ ~ c.mine /\ c.name = None
    BY DEF Binding!Idle, Call
  <1>2. /\ bindingAt[t] = "idle" /\ bindingAt' = [bindingAt EXCEPT ![t] = "scan"]
           /\ bindingMemo' = [bindingMemo EXCEPT ![t] = c]
        /\ UNCHANGED <<repos, known, declared, doomed>>
    BY DEF Binding!Start, Binding!Goto, Binding!Remember
  <1> HIDE DEF c
  <1>3. bindingAt'[t] = "scan" /\ bindingMemo'[t] = c
    BY <1>2 DEF BindingInv, BindingTypes
  <1>4. Found(t)'
    BY <1>1, <1>3 DEF Found, Binding!Relies, Named
  <1>5. QED BY <1>1, <1>2, <1>4, Quiet DEF BindingInv, BindingTypes, Binding!TypeOK

LEMMA BindingStep ==
  ASSUME Binding!BindingAssumption, BindingInv, [Binding!Next]_(Binding!vars)
  PROVE  BindingInv'
  <1>1. CASE UNCHANGED Binding!vars
    BY <1>1 DEF Binding!vars, BindingInv, BindingTypes, Binding!TypeOK, Binding!BindingsAreTrue,
                ClonesAreClaimed, OneOwner, Found, Binding!Relies
  <1>2. ASSUME NEW u \in Url, NEW n \in CardName, Binding!Redeclare(u, n) PROVE BindingInv'
    BY <1>2 DEF Binding!Redeclare, BindingInv, BindingTypes, Binding!TypeOK,
                Binding!BindingsAreTrue,
                ClonesAreClaimed, OneOwner, Found, Binding!Relies
  <1>3. QED BY <1>1, <1>2, QuietKeeps, CloningKeeps, UnnameKeeps, BindKeeps, FailKeeps,
          WriteMapKeeps, StartKeeps, OutsideKeeps
    DEF Binding!Next

LEMMA NamesHold == ASSUME Binding!BindingAssumption, BindingInv PROVE Binding!Names
  <1>1. Binding!CollisionsAreExplained
    <2> SUFFICES ASSUME NEW t \in Task, bindingAt[t] = "collision",
    repos[bindingMemo[t].name].from = bindingMemo[t].url,
                        repos[bindingMemo[t].name].origin # bindingMemo[t].url,
                             bindingMemo[t].name \notin doomed
                 PROVE  \E u \in Task \ {t} : bindingAt[u] \in {"misnamed", "bind"}
                      /\ bindingMemo[u].name = bindingMemo[t].name
      BY DEF Binding!CollisionsAreExplained
    <2>1. bindingMemo[t].name \in CardName /\ bindingMemo[t].url \in Url
      BY WhatItHas DEF Named
    <2>2. repos[bindingMemo[t].name].origin = None
      BY <2>1 DEF BindingInv, Binding!BindingsAreTrue
    <2>3. QED BY <2>1, <2>2 DEF BindingInv, ClonesAreClaimed
  <1>2. QED BY <1>1 DEF BindingInv, BindingTypes, Binding!Names

LEMMA NamesStay ==
  ASSUME Binding!BindingAssumption, BindingInv, [Binding!Next]_(Binding!vars), NEW n \in CardName,
         Binding!Exists(n)
  PROVE  \/ Binding!Exists(n)' /\ (repos[n].origin # None /\ n \notin doomed =>
            repos'[n].origin = repos[n].origin)
         \/ Binding!Remove(n) \/ \E t \in Task : Binding!Unname(t) /\ bindingMemo[t].name = n
  <1> DEFINE Stays == Binding!Exists(n)' /\ (repos[n].origin # None /\ n \notin doomed =>
        repos'[n].origin = repos[n].origin)
  <1>1. ASSUME repos' = repos PROVE Stays
    BY <1>1 DEF Binding!Exists
  <1>2. CASE UNCHANGED Binding!vars
    BY <1>1, <1>2 DEF Binding!vars
  <1>3. ASSUME NEW t \in Task,
               \/ Binding!Scan(t) \/ Binding!Recall(t) \/ Binding!TryKnown(t) \/ Binding!Fetch(t)
               \/ Binding!Clone(t) \/ Binding!Place(t)
               \/ Binding!Collide(t) \/ Binding!Fail(t) \/ Binding!ReadMap(t)
               \/ Binding!WriteMap(t) \/ \E u \in Url : Binding!Start(t, u)
        PROVE  Stays
    BY <1>1, <1>3 DEF Binding!Scan, Binding!Recall, Binding!TryKnown, Binding!Fetch, Binding!Clone,
                      Binding!Place, Binding!Collide, Binding!Fail, Binding!ReadMap,
                           Binding!WriteMap, Binding!Start, Binding!Return, Binding!Look
  <1>4. ASSUME NEW t \in Task, Binding!CloneKnown(t) \/ Binding!Rename(t) PROVE Stays
    <2>1. \/ repos' = repos
          \/ ~ Binding!Exists(bindingMemo[t].name)
             /\ repos' = [repos EXCEPT ![bindingMemo[t].name] = Binding!CloneOf(bindingMemo[t].url)]
      BY <1>4 DEF Binding!CloneKnown, Binding!Rename, Binding!InTheWay, Binding!Return, Binding!Look
    <2>2. CASE ~ Binding!Exists(bindingMemo[t].name)
            /\ repos' = [repos EXCEPT ![bindingMemo[t].name] = Binding!CloneOf(bindingMemo[t].url)]
      BY <1>1, <2>2 DEF BindingInv, BindingTypes, Binding!TypeOK, Binding!Exists
    <2>3. QED BY <1>1, <2>1, <2>2
  <1>5. ASSUME NEW t \in Task, Binding!Unname(t) PROVE Stays \/ bindingMemo[t].name = n
    BY <1>1, <1>5 DEF Binding!Unname, BindingInv, BindingTypes, Binding!TypeOK, Binding!Exists
  <1>6. ASSUME NEW t \in Task, Binding!Bind(t) PROVE Stays
    <2>1. /\ bindingMemo[t].name \in CardName /\ bindingMemo[t].url \in Url
          /\ bindingMemo[t].name \in doomed \/ repos[bindingMemo[t].name].from = bindingMemo[t].url
          /\ repos' = [repos EXCEPT ![bindingMemo[t].name].origin = bindingMemo[t].url]
      BY <1>6, WhatItHas DEF Binding!Bind, BindingInv, Found, Named, Binding!Relies
    <2>2. repos'[n].from = repos[n].from /\ (n # bindingMemo[t].name => repos'[n] = repos[n])
          /\ (n = bindingMemo[t].name => repos'[n].origin = bindingMemo[t].url)
      BY <2>1 DEF BindingInv, BindingTypes, Binding!TypeOK
    <2>3. QED BY <2>1, <2>2 DEF BindingInv, Binding!BindingsAreTrue, Binding!Exists
  <1>7. ASSUME NEW m \in CardName, Binding!Publish(m) PROVE Stays
    <2> DEFINE r == Binding!WithCard(repos[m])
    <2>1. r.from = (IF repos[m].from = None THEN Binding!Local ELSE repos[m].from)
            /\ r.origin = repos[m].origin
      BY DEF BindingInv, BindingTypes, Binding!TypeOK, Binding!WithCard
    <2> HIDE DEF r
    <2>2. repos' = [repos EXCEPT ![m] = r]
      BY <1>7 DEF Binding!Publish, r
    <2>3. repos'[n].from # None /\ repos'[n].origin = repos[n].origin
      BY <2>1, <2>2 DEF BindingInv, BindingTypes, Binding!TypeOK, Binding!Exists
    <2>4. QED BY <2>3 DEF Binding!Exists
  <1>8. ASSUME NEW m \in CardName, Binding!Remove(m) PROVE Stays \/ m = n
    BY <1>1, <1>8 DEF Binding!Remove, BindingInv, BindingTypes, Binding!TypeOK, Binding!Exists
  <1>9. ASSUME NEW u \in Url, NEW m \in CardName, Binding!Redeclare(u, m) PROVE Stays
    BY <1>1, <1>9 DEF Binding!Redeclare
  <1> HIDE DEF Stays
  <1>10. ASSUME NEW t \in Task,
                \/ Binding!Scan(t) \/ Binding!Recall(t) \/ Binding!TryKnown(t)
                   \/ Binding!Fetch(t) \/ Binding!CloneKnown(t) \/ Binding!Unname(t)
                \/ Binding!Clone(t) \/ Binding!Place(t) \/ Binding!Rename(t) \/ Binding!Bind(t)
                   \/ Binding!Collide(t) \/ Binding!Fail(t)
                \/ Binding!ReadMap(t) \/ Binding!WriteMap(t) \/ \E u \in Url : Binding!Start(t, u)
         PROVE  Stays \/ (Binding!Unname(t) /\ bindingMemo[t].name = n)
    <2>1. CASE Binding!Unname(t)
      BY <1>5, <2>1
    <2>2. CASE ~ Binding!Unname(t)
      BY <1>3, <1>4, <1>6, <1>10, <2>2
    <2>3. QED BY <2>1, <2>2
  <1>11. ASSUME NEW m \in CardName, Binding!Publish(m) \/ Binding!Remove(m)
         PROVE  Stays \/ Binding!Remove(n)
    BY <1>7, <1>8, <1>11
  <1>12. CASE Binding!Next
    BY <1>9, <1>10, <1>11, <1>12 DEF Binding!Next, Stays
  <1>13. QED BY <1>2, <1>12 DEF Stays

(* For the names by themselves. *)
LEMMA NamesInBinding ==
  ASSUME Binding!BindingAssumption
  PROVE  Binding!Spec => Binding!ResolvesToItsUrl
  <1> DEFINE Kept == /\ \A t \in Task : Binding!WriteMap(t) =>
                          repos[bindingMemo[t].name].from = bindingMemo[t].url
                               \/ bindingMemo[t].name \in doomed
                     /\ \A n \in CardName : Binding!Exists(n) =>
                          \/ Binding!Exists(n)' /\ (repos[n].origin # None /\ n \notin doomed =>
                             repos'[n].origin = repos[n].origin)
                          \/ Binding!Remove(n) \/ \E t \in Task : Binding!Unname(t)
                             /\ bindingMemo[t].name = n
  <1>1. Binding!Init => BindingInv
    BY BindingStarts
  <1>2. BindingInv /\ [Binding!Next]_(Binding!vars) => BindingInv'
    BY BindingStep
  <1>3. BindingInv => Binding!Names
    BY NamesHold
  <1>4. BindingInv /\ [Binding!Next]_(Binding!vars) => Kept
    <2> SUFFICES ASSUME BindingInv, [Binding!Next]_(Binding!vars) PROVE Kept
      OBVIOUS
    <2>1. ASSUME NEW t \in Task, Binding!WriteMap(t)
          PROVE  repos[bindingMemo[t].name].from = bindingMemo[t].url
               \/ bindingMemo[t].name \in doomed
      BY <2>1 DEF BindingInv, Found, Binding!Relies, Binding!WriteMap, Named
    <2>2. QED BY <2>1, NamesStay
  <1> DEFINE Safe == /\ Binding!Names'
                     /\ \A t \in Task : Binding!WriteMap(t) =>
                          repos[bindingMemo[t].name].from = bindingMemo[t].url
                               \/ bindingMemo[t].name \in doomed
                     /\ \A n \in CardName : Binding!Exists(n) =>
                          \/ Binding!Exists(n)' /\ (repos[n].origin # None /\ n \notin doomed =>
                             repos'[n].origin = repos[n].origin)
                          \/ Binding!Remove(n) \/ \E t \in Task : Binding!Unname(t)
                             /\ bindingMemo[t].name = n
  <1>5. Binding!Names' /\ Kept => Safe
    OBVIOUS
  <1> HIDE DEF Kept, Safe
  <1>6. Binding!Spec => Binding!Names /\ [][Safe]_(Binding!vars)
    BY <1>1, <1>2, <1>3, <1>4, <1>5, PTL DEF Binding!Spec
  <1>7. QED BY <1>6 DEF Binding!ResolvesToItsUrl, Safe
(* In the composition the naming of cards is a part that the others leave alone. *)
LEMMA BindingIsAPart == OverlapSpec => Binding!Spec
  <1>1. OverlapInit => Binding!Init
    BY DEF OverlapInit
  <1>2. [OverlapNext]_all => [Binding!Next]_(Binding!vars)
    BY DEF OverlapNext, all, binding, Binding!vars
  <1>3. QED BY <1>1, <1>2, PTL DEF OverlapSpec, Binding!Spec

(* resolveFromGit: except where a call died between its clone and its       *)
(* binding, or took back a clone that another had found, a repository bound *)
(* to a URL is a clone of it, its binding stays, and the map is written for *)
(* the URL that was resolved.                                               *)
THEOREM UrlsResolveToTheirOwn == OverlapSpec => ResolvesToItsUrl
  <1>1. Binding!Spec => Binding!ResolvesToItsUrl
    BY NamesInBinding, NamesAssumption
  <1>2. QED BY <1>1, BindingIsAPart DEF ResolvesToItsUrl

-----------------------------------------------------------------------------
(* A card and the project that vendors it.  Neither of the two properties is *)
(* inductive: what a call may do rests on what it has read, and on what it   *)
(* knows to be vendored unless others have changed that since (late).        *)

Commits == [version : Card!Version, tree : Card!Tree]
Digest == {"whole", "forged"}
CardCall ==
  [op : {"publish", "deprecate", "resolve", "vendor", "seed", None},
   version : Card!Version \cup {None}, tree : Card!Tree \cup {None},
   parent : (SUBSET Commits) \cup (SUBSET Card!Version), digest : Digest \cup {None},
   last : Card!Version \cup {None}, after : {"bump", "commit", "digest", "compare", None},
   copy : Card!Content \cup {None}, stale : Card!Tree \cup {None}, todo : SUBSET Card!Tree, lost :
        BOOLEAN]

(* What is in the store, the project and the world outside.                *)
StoreHolds ==
  /\ Card!TypeOK /\ Card!ExtractionsAreWhole
  /\ main \subseteq Commits
  /\ ~ repo => tags = Card!NoTags
  /\ promised \subseteq legacy
  /\ seed \in Card!Tree /\ source \in [Task -> Card!Tree]
  /\ remote \in [tags : [Card!Version -> Card!Tree \cup {None}], meta : SUBSET Card!Version]
  /\ entry \in [tree : Card!Tree, digest : Digest] \cup {None}
  /\ sidecar \in [Card!Tree -> Digest \cup {None}]

(* The step for which a call extracts a tree, or its step.                 *)
Heading(t) == IF cardAt[t] \in {"unpack", "place"} THEN cardMemo[t].after ELSE cardAt[t]
Vendoring == {"verify", "compare", "copy", "clear", "rename", "check2", "ensure", "record",
              "prune", "remove", "unrecord"}

(* A call knows the tree it works on, and what is vendored of it unless     *)
(* others have changed that since.                                          *)
CardKnows(t) ==
  /\ cardAt[t] \in {"unpack", "place"} => cardMemo[t].after \in {"bump", "commit", "digest",
     "compare"}
  /\ Heading(t) \in {"check", "bump", "write"} =>
       cardMemo[t].version \in Card!Version /\ (<<t, None>> \in late
            \/ source[t].version = cardMemo[t].version)
  /\ Heading(t) \in {"commit", "head", "tag"} =>
       /\ cardMemo[t].version \in Card!Version
       /\ <<t, None>> \in late \/ cardMemo[t].tree.version = cardMemo[t].version
  /\ Heading(t) \in {"bump", "commit", "head", "tag", "extract", "digest", "lock"} \cup Vendoring =>
       cardMemo[t].tree \in Card!Tree
  /\ cardAt[t] = "head" => cardMemo[t].parent \subseteq Commits
  /\ cardAt[t] \in {"read", "setmeta", "config"} => cardMemo[t].version \in Card!Version
  /\ cardAt[t] = "setmeta" => cardMemo[t].parent \subseteq Card!Version
  /\ Heading(t) \in {"lock"} \cup Vendoring => cardMemo[t].digest \in Digest
  /\ cardAt[t] \in {"clear", "rename"} => cardMemo[t].copy \in Card!Content
  /\ cardAt[t] \in {"ensure", "record", "prune", "remove", "unrecord"} =>
       <<t, cardMemo[t].tree>> \in late \/ vendor[cardMemo[t].tree] = cardMemo[t].digest
  /\ cardAt[t] \in {"prune", "remove", "unrecord"} =>
       /\ <<t, cardMemo[t].tree>> \in late \/ sidecar[cardMemo[t].tree] # None
       /\ cardMemo[t].todo \subseteq Card!Tree \ {cardMemo[t].tree}
  /\ cardAt[t] \in {"remove", "unrecord"} => cardMemo[t].stale \in Card!Tree \ {cardMemo[t].tree}
  /\ cardAt[t] = "remove" => <<t, cardMemo[t].stale>> \in late
     \/ vendor[cardMemo[t].stale] # "edited"

CallsHold ==
  /\ cardAt = [t \in Task |-> cardAt[t]] /\ cardMemo \in [Task -> CardCall]
  /\ \A t \in Task : CardKnows(t)

CardInv == StoreHolds /\ CallsHold

LEMMA HighestIs == ASSUME NEW S \in SUBSET Card!Version, S # {} PROVE Card!Highest(S) \in S
  <1>1. \E v \in S : \A w \in S : w <= v
    <2>1. CASE 2 \in S
      BY <2>1 DEF Card!Version
    <2>2. CASE 2 \notin S
      <3>1. \A w \in S : w = 1
        BY <2>2 DEF Card!Version
      <3>2. QED BY <3>1
    <2>3. QED BY <2>1, <2>2
  <1>2. QED BY <1>1 DEF Card!Highest

LEMMA CardIdle == ASSUME Card!CardAssumption PROVE
   /\ Card!Idle \in CardCall
   /\ \A v \in Card!Version : [Card!Idle EXCEPT !.op = "publish", !.version = v] \in CardCall
   /\ \A v \in Card!Version : [Card!Idle EXCEPT !.op = "deprecate", !.version = v] \in CardCall
   /\ \A v \in Card!Version, x \in Card!Tree : [Card!Idle EXCEPT !.op = "resolve", !.version = v,
      !.tree = x] \in CardCall
   /\ \A d \in Digest, x \in Card!Tree : [Card!Idle EXCEPT !.op = "vendor", !.tree = x,
      !.digest = d] \in CardCall
   /\ [Card!Idle EXCEPT !.op = "seed"] \in CardCall
  <1>1. Card!Idle \in CardCall
    BY DEF Card!Idle, CardCall
  <1>6. ASSUME NEW v \in Card!Version
        PROVE  /\ [Card!Idle EXCEPT !.op = "publish", !.version = v] \in CardCall
               /\ [Card!Idle EXCEPT !.op = "deprecate", !.version = v] \in CardCall
    BY <1>1 DEF CardCall
  <1>7. ASSUME NEW v \in Card!Version, NEW x \in Card!Tree
        PROVE  [Card!Idle EXCEPT !.op = "resolve", !.version = v, !.tree = x] \in CardCall
    BY <1>1 DEF CardCall
  <1>8. ASSUME NEW d \in Digest, NEW x \in Card!Tree
        PROVE  [Card!Idle EXCEPT !.op = "vendor", !.tree = x, !.digest = d] \in CardCall
    BY <1>1 DEF CardCall
  <1>9. [Card!Idle EXCEPT !.op = "seed"] \in CardCall
    BY <1>1 DEF CardCall
  <1>10. QED BY <1>1, <1>6, <1>7, <1>8, <1>9

LEMMA CardStarts == ASSUME Card!CardAssumption PROVE Card!Init => CardInv
  <1> SUFFICES ASSUME Card!Init PROVE CardInv
    OBVIOUS
  <1>1. seed \in Card!Tree /\ [seed EXCEPT !.version = 2] \in Card!Tree
    BY DEF Card!Init, Card!Tree, Card!Version
  <1>2. tags \in [Card!Version -> Card!Tree \cup {None}] /\ (~ repo => tags = Card!NoTags)
    BY SMTT(30), <1>1 DEF Card!Init, Card!Unused, Card!InUse, Card!NoTags, Card!Version
  <1>3. main \subseteq Commits
    BY <1>2 DEF Card!Init, Card!Tagged, Commits
  <1>4. extracted \in [Card!Tree -> {"none", "whole"}]
          /\ vendor \in [Card!Tree -> {"none", "whole"}]
        /\ sidecar \in [Card!Tree -> {None, "whole"}]
        /\ entry \in [tree : Card!Tree, digest : Digest] \cup {None} /\ repo \in BOOLEAN
    <2>1. CASE Card!Unused
      BY <2>1 DEF Card!Unused
    <2>2. CASE Card!InUse
      <3>1. /\ extracted = [x \in Card!Tree |-> IF x \in {seed, [seed EXCEPT !.version = 2]}
               THEN "whole" ELSE "none"]
            /\ vendor = [x \in Card!Tree |-> IF x = seed THEN "whole" ELSE "none"]
            /\ sidecar = [x \in Card!Tree |-> IF x = seed THEN "whole" ELSE None]
            /\ entry = [tree |-> seed, digest |-> "whole"] /\ repo = TRUE
        BY <2>2 DEF Card!InUse
      <3>2. QED BY <1>1, <3>1 DEF Digest
    <2>3. QED BY <2>1, <2>2 DEF Card!Init
  <1>5. StoreHolds
    <2>1. Card!TypeOK /\ Card!ExtractionsAreWhole
      BY <1>2, <1>3, <1>4 DEF Card!TypeOK, Card!ExtractionsAreWhole, Card!Init, Card!Content,
                              Commits
    <2>2. source \in [Task -> Card!Tree]
      BY DEF Card!Init, Card!Tree, Card!Version
    <2>3. QED BY <1>1, <1>2, <1>3, <1>4, <2>1, <2>2 DEF StoreHolds, Card!Init, Digest
  <1>6. CallsHold
    BY CardIdle DEF CallsHold, Card!Init, CardKnows, Heading, Vendoring
  <1>7. QED BY <1>5, <1>6 DEF CardInv

(* A call goes on and leaves what the others know. *)
LEMMA CardMoves ==
  ASSUME CardInv, NEW t \in Task, NEW s, NEW c \in CardCall,
         cardAt' = [cardAt EXCEPT ![t] = s], cardMemo' = [cardMemo EXCEPT ![t] = c],
         UNCHANGED source,
         \A u \in Task \ {t}, x \in Card!Tree \cup {None} : <<u, x>> \in late => <<u, x>> \in late',
         \A u \in Task \ {t}, x \in Card!Tree : cardAt[u] # "idle" =>
           <<u, x>> \in late' \/ (vendor'[x] = vendor[x] /\ sidecar'[x] = sidecar[x]),
         CardKnows(t)'
  PROVE  CallsHold'
  <1>1. cardAt' = [u \in Task |-> cardAt'[u]] /\ cardMemo' \in [Task -> CardCall]
    BY DEF CardInv, CallsHold
  <1>2. ASSUME NEW u \in Task \ {t} PROVE CardKnows(u)'
    <2>1. cardAt'[u] = cardAt[u] /\ cardMemo'[u] = cardMemo[u] /\ CardKnows(u)
            /\ source'[u] = source[u]
      BY DEF CardInv, CallsHold
    <2>2. \A x \in Card!Tree \cup {None} : <<u, x>> \in late => <<u, x>> \in late'
      OBVIOUS
    <2>3. Heading(u)' = Heading(u)
      BY <2>1 DEF Heading
    <2>4. cardAt[u] # "idle" => \A x \in Card!Tree : <<u, x>> \in late'
            \/ (vendor'[x] = vendor[x] /\ sidecar'[x] = sidecar[x])
      OBVIOUS
    <2>5. /\ cardAt[u] \in {"unpack", "place"} =>
             cardMemo[u].after \in {"bump", "commit", "digest", "compare"}
          /\ Heading(u) \in {"check", "bump", "write"} =>
               cardMemo[u].version \in Card!Version /\ (<<u, None>> \in late'
                    \/ source[u].version = cardMemo[u].version)
          /\ Heading(u) \in {"commit", "head", "tag"} =>
               /\ cardMemo[u].version \in Card!Version
               /\ <<u, None>> \in late' \/ cardMemo[u].tree.version = cardMemo[u].version
      BY <2>1, <2>2 DEF CardKnows
    <2>6. cardAt[u] \in {"ensure", "record", "prune", "remove", "unrecord"} =>
            cardMemo[u].tree \in Card!Tree /\ Heading(u) = cardAt[u]
      BY <2>1 DEF CardKnows, Heading, Vendoring
    <2>7. cardAt[u] \in {"ensure", "record", "prune", "remove", "unrecord"} =>
            <<u, cardMemo[u].tree>> \in late' \/ vendor'[cardMemo[u].tree] = cardMemo[u].digest
      BY <2>1, <2>2, <2>4, <2>6 DEF CardKnows
    <2>8. cardAt[u] \in {"prune", "remove", "unrecord"} =>
            <<u, cardMemo[u].tree>> \in late' \/ sidecar'[cardMemo[u].tree] # None
      BY <2>1, <2>2, <2>4, <2>6 DEF CardKnows
    <2>9. cardAt[u] = "remove" => <<u, cardMemo[u].stale>> \in late'
            \/ vendor'[cardMemo[u].stale] # "edited"
      BY <2>1, <2>2, <2>4 DEF CardKnows
    <2>10. QED BY <2>1, <2>3, <2>5, <2>7, <2>8, <2>9 DEF CardKnows
  <1>3. QED BY <1>1, <1>2 DEF CallsHold

(* The same, of a call that changes nothing of the project.                 *)
LEMMA CardGoesOn ==
  ASSUME CardInv, NEW t \in Task, NEW s, NEW c \in CardCall,
         cardAt' = [cardAt EXCEPT ![t] = s], cardMemo' = [cardMemo EXCEPT ![t] = c],
         UNCHANGED <<vendor, sidecar, source>>,
         late' = late \/ late' = {l \in late : l[1] # t},
         CardKnows(t)'
  PROVE  CallsHold'
  <1>1. \A u \in Task \ {t}, x \in Card!Tree \cup {None} : <<u, x>> \in late => <<u, x>> \in late'
    OBVIOUS
  <1>2. QED BY <1>1, CardMoves

LEMMA CardReturns ==
  ASSUME Card!CardAssumption, CardInv, NEW t \in Task, Card!Return(t), UNCHANGED <<vendor,
         sidecar, source, late>>
  PROVE  CallsHold'
  <1>1. cardAt' = [cardAt EXCEPT ![t] = "idle"] /\ cardMemo' = [cardMemo EXCEPT ![t] = Card!Idle]
    BY DEF Card!Return, Card!Goto, Card!Remember
  <1>2. cardAt'[t] = "idle"
    BY <1>1 DEF CardInv, CallsHold
  <1>3. CardKnows(t)'
    BY <1>2 DEF CardKnows, Heading, Vendoring
  <1>4. QED BY <1>1, <1>3, CardIdle, CardGoesOn

LEMMA CardStill ==
  ASSUME CardInv, UNCHANGED <<Card!store, Card!project, Card!outside, promised>>
  PROVE  StoreHolds'
  BY DEF CardInv, StoreHolds, Card!TypeOK, Card!ExtractionsAreWhole, Card!store, Card!project,
         Card!outside, Card!NoTags

(* A step that only reads. *)
LEMMA CardLooks ==
  ASSUME CardInv, NEW t \in Task, NEW s, NEW c \in CardCall, Card!Look(t, s, c), CardKnows(t)'
  PROVE  CardInv'
  <1>1. /\ cardAt' = [cardAt EXCEPT ![t] = s] /\ cardMemo' = [cardMemo EXCEPT ![t] = c]
        /\ UNCHANGED <<Card!store, Card!project, Card!outside, promised, late>>
    BY DEF Card!Look, Card!Goto, Card!Remember, Card!Same
  <1>2. StoreHolds'
    BY <1>1, CardStill
  <1>3. CallsHold'
    BY <1>1, CardGoesOn DEF Card!project, Card!outside
  <1>4. QED BY <1>2, <1>3 DEF CardInv

LEMMA CardQuits == ASSUME Card!CardAssumption, CardInv, NEW t \in Task, Card!Quit(t) PROVE CardInv'
  <1>1. UNCHANGED <<Card!store, Card!project, Card!outside, promised, late>> /\ Card!Return(t)
    BY DEF Card!Quit, Card!Same
  <1>2. StoreHolds'
    BY <1>1, CardStill
  <1>3. QED BY <1>1, <1>2, CardReturns DEF CardInv, Card!project, Card!outside

LEMMA CardOf == ASSUME CardInv, NEW t \in Task PROVE
  /\ cardMemo[t] \in CardCall /\ CardKnows(t) /\ cardMemo = [cardMemo EXCEPT ![t] = cardMemo[t]]
  /\ source[t] \in Card!Tree /\ tags \in [Card!Version -> Card!Tree \cup {None}]
  /\ extracted \in [Card!Tree -> {"none", "whole", "forged"}]
     /\ vendor \in [Card!Tree -> Card!Content]
  BY DEF CardInv, CallsHold, StoreHolds, Card!TypeOK, Card!ExtractionsAreWhole, Card!Content

(* Where a call is after its step.                                          *)
LEMMA CardAt ==
  ASSUME CardInv, NEW t \in Task, NEW s, NEW c, Card!Goto(t, s), Card!Remember(t, c)
  PROVE  cardAt'[t] = s /\ cardMemo'[t] = c
  BY DEF CardInv, CallsHold, Card!Goto, Card!Remember

LEMMA CardBegins ==
  ASSUME CardInv, NEW t \in Task, NEW op, NEW s, NEW c \in CardCall, Card!Begin(t, op, s),
  Card!Remember(t, c),
         UNCHANGED <<Card!store, Card!project, Card!outside, promised>>, CardKnows(t)'
  PROVE  CardInv'
  <1>1. CallsHold'
    BY CardGoesOn DEF Card!Begin, Card!Goto, Card!Remember, Card!project, Card!outside
  <1>2. QED BY <1>1, CardStill DEF CardInv

LEMMA CardExtracts ==
  ASSUME CardInv, NEW t \in Task, NEW x \in Card!Tree, NEW after \in {"commit", "digest",
         "compare"},
         NEW c \in CardCall, c.tree = x, Card!Extract(t, x, after, c),
         after = "commit" => c.version \in Card!Version /\ (<<t,
         None>> \in late \/ x.version = c.version),
         after = "compare" => c.digest \in Digest
  PROVE  CardInv'
  <1> DEFINE d == [c EXCEPT !.tree = x, !.after = after]
  <1>1. /\ d \in CardCall /\ d.tree = x /\ d.version = c.version /\ d.digest = c.digest
        /\ d.after = after
    BY ZenonT(40) DEF CardCall
  <1> HIDE DEF d
  <1>2. PICK s \in {after, "unpack"}, e \in {c, d} : Card!Look(t, s, e) /\ (s = "unpack" => e = d)
    BY DEF Card!Extract, d
  <1>3. /\ cardAt'[t] = s /\ cardMemo'[t] = e /\ late' = late
        /\ e \in CardCall /\ e.tree = x /\ e.version = c.version /\ e.digest = c.digest
        /\ Heading(t)' = after
    BY <1>1, <1>2, CardAt DEF Card!Look, Card!Same, Heading
  <1>4. CardKnows(t)'
    BY <1>1, <1>2, <1>3 DEF CardKnows, Vendoring
  <1>5. QED BY <1>2, <1>3, <1>4, CardLooks, Zenon

-----------------------------------------------------------------------------
LEMMA CardPublishes ==
  ASSUME Card!CardAssumption, CardInv, NEW t \in Task,
         Card!StartPublish(t) \/ Card!WriteTree(t) \/ Card!ReadParent(t)
  PROVE  CardInv'
  <1>1. CASE Card!StartPublish(t)
    <2> DEFINE c == [Card!Idle EXCEPT !.op = "publish", !.version = source[t].version]
    <2>1. source[t].version \in Card!Version
      BY CardOf DEF Card!Tree
    <2>2. c \in CardCall /\ c.version = source[t].version
      BY <2>1, CardIdle DEF Card!Idle
    <2> HIDE DEF c
    <2>3. Card!Begin(t, "publish", "check") /\ Card!Remember(t, c)
            /\ UNCHANGED <<Card!store, Card!project, Card!outside, promised>>
      BY <1>1 DEF Card!StartPublish, c
    <2>4. cardAt'[t] = "check" /\ cardMemo'[t] = c /\ source' = source
      BY <2>3, CardAt DEF Card!Begin, Card!outside
    <2>5. CardKnows(t)'
      BY <2>1, <2>2, <2>4 DEF CardKnows, Heading, Vendoring
    <2>6. QED BY <2>2, <2>3, <2>5, CardBegins
  <1>2. CASE Card!WriteTree(t)
    <2> DEFINE c == [cardMemo[t] EXCEPT !.tree = source[t], !.lost = FALSE]
    <2>1. /\ cardAt[t] = "write" /\ cardMemo[t].version \in Card!Version
          /\ <<t, None>> \in late \/ source[t].version = cardMemo[t].version
      BY <1>2, CardOf DEF Card!WriteTree, CardKnows, Heading
    <2>5. cardMemo[t] \in CardCall /\ source[t] \in Card!Tree
      BY CardOf
    <2>2. c \in CardCall /\ c.tree = source[t] /\ c.version = cardMemo[t].version
      BY <2>5 DEF CardCall
    <2> HIDE DEF c
    <2>3. Card!Extract(t, source[t], "commit", c)
      BY <1>2 DEF Card!WriteTree, c
    <2>4. QED BY <2>1, <2>2, <2>3, CardOf, CardExtracts
  <1>3. CASE Card!ReadParent(t)
    <2> DEFINE c == [cardMemo[t] EXCEPT !.parent = main]
    <2>1. /\ cardAt[t] = "commit" /\ cardMemo[t].tree \in Card!Tree
             /\ cardMemo[t].version \in Card!Version
          /\ <<t, None>> \in late \/ cardMemo[t].tree.version = cardMemo[t].version
      BY <1>3, CardOf DEF Card!ReadParent, CardKnows, Heading
    <2>2. main \subseteq Commits
      BY DEF CardInv, StoreHolds
    <2>3. c \in CardCall /\ c.tree = cardMemo[t].tree /\ c.version = cardMemo[t].version
            /\ c.parent = main
      BY <2>2, CardOf DEF CardCall
    <2> HIDE DEF c
    <2>4. CASE Card!Look(t, "head", c)
      <3>1. cardAt'[t] = "head" /\ cardMemo'[t] = c /\ late' = late
        BY <2>4, CardAt DEF Card!Look, Card!Same
      <3>2. CardKnows(t)'
        BY <2>1, <2>2, <2>3, <3>1 DEF CardKnows, Heading, Vendoring
      <3>3. QED BY <2>3, <2>4, <3>2, CardLooks
    <2>5. QED BY <1>3, <2>4, CardQuits DEF Card!ReadParent, c
  <1>4. QED BY <1>1, <1>2, <1>3

LEMMA CardChecks ==
  ASSUME Card!CardAssumption, CardInv, NEW t \in Task, Card!Check(t)
  PROVE  CardInv'
  <1> DEFINE last == Card!Highest(Card!Published)
             c == [cardMemo[t] EXCEPT !.tree = tags[last], !.last = last, !.after = "bump"]
  <1>1. /\ cardAt[t] = "check" /\ cardMemo[t].version \in Card!Version
        /\ <<t, None>> \in late \/ source[t].version = cardMemo[t].version
    BY CardOf DEF Card!Check, CardKnows, Heading
  <1>2. /\ repo' = TRUE
        /\ UNCHANGED <<tags, main, meta, legacy, override, extracted, Card!project, Card!outside,
           promised, late>>
    BY DEF Card!Check, Card!Same
  <1>3. StoreHolds'
    BY <1>2 DEF CardInv, StoreHolds, Card!TypeOK, Card!ExtractionsAreWhole, Card!project,
                Card!outside
  <1>4. CASE Card!Return(t)
    BY <1>2, <1>3, <1>4, CardReturns DEF CardInv, Card!project, Card!outside
  <1>5. CASE Card!Goto(t, "write") /\ UNCHANGED cardMemo
    <2>1. cardAt'[t] = "write" /\ cardMemo'[t] = cardMemo[t]
      BY <1>5 DEF CardInv, CallsHold, Card!Goto
    <2>2. CardKnows(t)'
      BY <1>1, <1>2, <2>1 DEF CardKnows, Heading, Vendoring, Card!outside
    <2>3. CallsHold'
      BY <1>2, <1>5, <2>2, CardOf, CardGoesOn DEF Card!Goto, Card!project, Card!outside
    <2>4. QED BY <1>3, <2>3 DEF CardInv
  <1>6. ASSUME Card!Published # {}, NEW s \in {"bump", "unpack"}, Card!Goto(t, s),
               Card!Remember(t, c)
        PROVE  CardInv'
    <2>1. last \in Card!Version /\ tags[last] \in Card!Tree
      <3>1. Card!Published \in SUBSET Card!Version
        BY DEF Card!Published
      <3>2. last \in Card!Published
        BY <1>6, <3>1, HighestIs
      <3>3. QED BY <3>2, CardOf DEF Card!Published
    <2> HIDE DEF last
    <2>7. cardMemo[t] \in CardCall
      BY CardOf
    <2>2. c \in CardCall /\ c.tree = tags[last] /\ c.version = cardMemo[t].version
            /\ c.after = "bump"
      BY <2>1, <2>7 DEF CardCall
    <2> HIDE DEF c
    <2>3. cardAt'[t] = s /\ cardMemo'[t] = c
      BY <1>6, CardAt
    <2>4. CardKnows(t)'
      BY <1>1, <1>2, <2>1, <2>2, <2>3 DEF CardKnows, Heading, Vendoring, Card!outside,
                                          Card!CardAssumption
    <2>5. CallsHold'
      BY <1>2, <1>6, <2>2, <2>4, CardGoesOn DEF Card!Goto, Card!Remember, Card!project, Card!outside
    <2>6. QED BY <1>3, <2>5 DEF CardInv
  <1> HIDE DEF last, c
  <1>7. \/ Card!Return(t)
        \/ Card!Goto(t, "write") /\ UNCHANGED cardMemo
        \/ Card!Published # {} /\ \E s \in {"bump", "unpack"} : Card!Goto(t, s)
           /\ Card!Remember(t, c)
    BY DEF Card!Check, last, c
  <1>8. QED BY <1>4, <1>5, <1>6, <1>7

LEMMA CardBumps ==
  ASSUME Card!CardAssumption, CardInv, NEW t \in Task, NEW forced \in BOOLEAN, Card!Bump(t, forced)
  PROVE  CardInv'
  <1>1. /\ cardAt[t] = "bump" /\ cardMemo[t].version \in Card!Version
        /\ <<t, None>> \in late \/ source[t].version = cardMemo[t].version
    BY CardOf DEF Card!Bump, CardKnows, Heading
  <1>2. CASE Card!Quit(t)
    BY <1>2, CardQuits
  <1>3. ASSUME Card!Goto(t, "write"), UNCHANGED <<cardMemo, source, late>> PROVE CardKnows(t)'
    <2>1. cardAt'[t] = "write" /\ cardMemo'[t] = cardMemo[t]
      BY <1>3 DEF CardInv, CallsHold, Card!Goto
    <2>2. QED BY <1>1, <1>3, <2>1 DEF CardKnows, Heading, Vendoring
  <1>4. CASE /\ override' = override \cup {cardMemo[t].version} /\ Card!Goto(t, "write")
             /\ UNCHANGED <<repo, tags, main, meta, legacy, extracted, Card!project, cardMemo>>
                /\ Card!Same
    <2>1. StoreHolds'
      BY <1>1, <1>4 DEF CardInv, StoreHolds, Card!TypeOK, Card!ExtractionsAreWhole, Card!project,
                        Card!outside, Card!Same
    <2>2. CallsHold'
      BY <1>3, <1>4, CardOf, CardGoesOn DEF Card!Same, Card!Goto, Card!project, Card!outside
    <2>3. QED BY <2>1, <2>2 DEF CardInv
  <1>5. CASE Card!Look(t, "write", cardMemo[t])
    BY <1>3, <1>5, CardOf, CardLooks DEF Card!Look, Card!Remember, Card!Same, Card!outside
  <1>6. QED BY <1>2, <1>4, <1>5 DEF Card!Bump

LEMMA CardHeads ==
  ASSUME Card!CardAssumption, CardInv, NEW t \in Task, Card!UpdateHead(t)
  PROVE  CardInv'
  <1> DEFINE new == [version |-> cardMemo[t].version, tree |-> cardMemo[t].tree]
  <1>1. /\ cardAt[t] = "head" /\ cardMemo[t].version \in Card!Version
           /\ cardMemo[t].tree \in Card!Tree
        /\ <<t, None>> \in late \/ cardMemo[t].tree.version = cardMemo[t].version
        /\ cardMemo[t].parent \subseteq Commits
    BY CardOf DEF Card!UpdateHead, CardKnows, Heading
  <1>2. new \in Commits
    BY <1>1 DEF Commits
  <1> HIDE DEF new
  <1>3. /\ main' = cardMemo[t].parent \cup {new} /\ Card!Goto(t, "tag")
        /\ UNCHANGED <<repo, tags, meta, legacy, override, extracted, Card!project, cardMemo,
           Card!outside, promised, late>>
    BY DEF Card!UpdateHead, new, Card!Same
  <1>4. main' \subseteq Commits /\ {p.tree : p \in main'} \subseteq Card!Tree
    BY <1>1, <1>2, <1>3 DEF Commits
  <1>5. StoreHolds'
    BY <1>3, <1>4 DEF CardInv, StoreHolds, Card!TypeOK, Card!ExtractionsAreWhole, Card!project,
                      Card!outside
  <1>6. cardAt'[t] = "tag" /\ cardMemo'[t] = cardMemo[t]
    BY <1>3 DEF CardInv, CallsHold, Card!Goto
  <1>7. CardKnows(t)'
    BY <1>1, <1>3, <1>6 DEF CardKnows, Heading, Vendoring
  <1>8. CallsHold'
    BY <1>3, <1>7, CardOf, CardGoesOn DEF Card!Goto, Card!project, Card!outside
  <1>9. QED BY <1>5, <1>8 DEF CardInv

LEMMA CardTags ==
  ASSUME Card!CardAssumption, CardInv, NEW t \in Task, Card!CreateTag(t)
  PROVE  CardInv'
  <1>1. cardMemo[t].version \in Card!Version /\ cardMemo[t].tree \in Card!Tree
    BY CardOf DEF Card!CreateTag, CardKnows, Heading
  <1>2. tags' \in [Card!Version -> Card!Tree \cup {None}]
    BY <1>1, CardOf DEF Card!CreateTag, Card!NewTag
  <1>3. /\ repo /\ Card!Return(t)
        /\ UNCHANGED <<repo, main, meta, legacy, override, extracted, Card!project, Card!outside,
           promised, late>>
    BY DEF Card!CreateTag, Card!Same
  <1>4. StoreHolds'
    BY <1>2, <1>3 DEF CardInv, StoreHolds, Card!TypeOK, Card!ExtractionsAreWhole, Card!project,
                      Card!outside
  <1>5. QED BY <1>3, <1>4, CardReturns DEF CardInv, Card!project, Card!outside

-----------------------------------------------------------------------------
(* A step on the store that leaves the call as it is. *)
LEMMA CardSteps ==
  ASSUME CardInv, NEW t \in Task, NEW s, Card!Goto(t, s), UNCHANGED <<cardMemo, vendor, sidecar,
         source,
  late>>,
         StoreHolds', CardKnows(t)'
  PROVE  CardInv'
  <1>1. CallsHold'
    BY CardOf, CardGoesOn DEF Card!Goto
  <1>2. QED BY <1>1 DEF CardInv

LEMMA CardUnpacks ==
  ASSUME Card!CardAssumption, CardInv, NEW t \in Task, Card!Unpack(t) \/ Card!Place(t)
  PROVE  CardInv'
  <1>1. CardKnows(t) /\ cardAt[t] \in {"unpack", "place"}
    BY CardOf DEF Card!Unpack, Card!Place
  <1>2. PICK s \in {"place", cardMemo[t].after} : Card!Goto(t, s) /\ (cardAt[t] = "unpack" =>
          s = "place")
          /\ (cardAt[t] = "place" => s = cardMemo[t].after)
    BY DEF Card!Unpack, Card!Place
  <1>3. UNCHANGED <<repo, tags, main, meta, legacy, override, Card!project, cardMemo,
          Card!outside, promised, late>>
    BY DEF Card!Unpack, Card!Place, Card!Same
  <1>4. cardAt'[t] = s /\ cardMemo'[t] = cardMemo[t]
    BY <1>2, <1>3 DEF CardInv, CallsHold, Card!Goto
  <1>5. Heading(t)' = Heading(t) /\ Heading(t) = cardMemo[t].after
          /\ cardMemo[t].after \in {"bump", "commit", "digest", "compare"}
    BY <1>1, <1>2, <1>4 DEF Heading, CardKnows
  <1>6. CardKnows(t)'
    BY <1>1, <1>2, <1>3, <1>4, <1>5 DEF CardKnows, Vendoring, Card!outside, Card!project
  <1>7. extracted' \in [Card!Tree -> {"none", "whole", "forged"}]
    <2>1. cardMemo[t].tree \in Card!Tree
      BY <1>1, <1>5 DEF CardKnows, Vendoring
    <2>2. CASE Card!Unpack(t)
      BY <2>2, CardOf DEF Card!Unpack, Card!Unpacked
    <2>3. CASE Card!Place(t)
      BY <2>1, <2>3, CardOf DEF Card!Place
    <2>4. QED BY <2>2, <2>3
  <1>8. StoreHolds'
    BY <1>3, <1>7 DEF CardInv, StoreHolds, Card!TypeOK, Card!ExtractionsAreWhole, Card!Content,
                      Card!project, Card!outside
  <1>9. QED BY <1>2, <1>3, <1>6, <1>8, CardSteps DEF Card!project, Card!outside

LEMMA CardDeprecates ==
  ASSUME Card!CardAssumption, CardInv, NEW t \in Task,
         Card!ReadMeta(t) \/ Card!SetMeta(t) \/ Card!SetConfig(t)
              \/ \E v \in Card!Version : Card!StartDeprecate(t, v)
  PROVE  CardInv'
  <1>1. ASSUME NEW v \in Card!Version, Card!StartDeprecate(t, v) PROVE CardInv'
    <2> DEFINE c == [Card!Idle EXCEPT !.op = "deprecate", !.version = v]
    <2>1. c \in CardCall /\ c.version = v
      BY CardIdle DEF Card!Idle
    <2> HIDE DEF c
    <2>2. Card!Begin(t, "deprecate", "read") /\ Card!Remember(t, c)
            /\ UNCHANGED <<Card!store, Card!project, Card!outside, promised>>
      BY <1>1 DEF Card!StartDeprecate, c
    <2>3. cardAt'[t] = "read" /\ cardMemo'[t] = c
      BY <2>2, CardAt DEF Card!Begin
    <2>4. CardKnows(t)'
      BY <2>1, <2>3 DEF CardKnows, Heading, Vendoring
    <2>5. QED BY <2>1, <2>2, <2>4, CardBegins
  <1>2. meta \cup legacy \subseteq Card!Version /\ promised \subseteq legacy
    BY DEF CardInv, StoreHolds, Card!TypeOK
  <1>3. CASE Card!ReadMeta(t)
    <2> DEFINE c == [cardMemo[t] EXCEPT !.parent = meta \cup legacy]
    <2>1. cardAt[t] = "read" /\ cardMemo[t].version \in Card!Version /\ cardMemo[t] \in CardCall
      BY <1>3, CardOf DEF Card!ReadMeta, CardKnows
    <2>2. c \in CardCall /\ c.version = cardMemo[t].version /\ c.parent = meta \cup legacy
      BY <1>2, <2>1 DEF CardCall
    <2> HIDE DEF c
    <2>3. Card!Look(t, "setmeta", c)
      BY <1>3 DEF Card!ReadMeta, c
    <2>4. cardAt'[t] = "setmeta" /\ cardMemo'[t] = c
      BY <2>3, CardAt DEF Card!Look
    <2>5. CardKnows(t)'
      BY <1>2, <2>1, <2>2, <2>4 DEF CardKnows, Heading, Vendoring
    <2>6. QED BY <2>2, <2>3, <2>5, CardLooks
  <1>4. CASE Card!SetMeta(t)
    <2>1. cardMemo[t].version \in Card!Version /\ cardMemo[t].parent \subseteq Card!Version
      BY <1>4, CardOf DEF Card!SetMeta, CardKnows
    <2>2. /\ meta' = cardMemo[t].parent \cup {cardMemo[t].version} /\ Card!Goto(t, "config")
          /\ UNCHANGED <<repo, tags, main, legacy, override, extracted, Card!project, cardMemo,
             Card!outside, promised, late>>
      BY <1>4 DEF Card!SetMeta, Card!Same
    <2>3. StoreHolds'
      BY <2>1, <2>2 DEF CardInv, StoreHolds, Card!TypeOK, Card!ExtractionsAreWhole, Card!project,
                        Card!outside
    <2>4. cardAt'[t] = "config" /\ cardMemo'[t] = cardMemo[t]
      BY <2>2 DEF CardInv, CallsHold, Card!Goto
    <2>5. CardKnows(t)'
      BY <2>1, <2>4 DEF CardKnows, Heading, Vendoring
    <2>6. QED BY <2>2, <2>3, <2>5, CardSteps DEF Card!project, Card!outside
  <1>5. CASE Card!SetConfig(t)
    <2>1. cardMemo[t].version \in Card!Version
      BY <1>5, CardOf DEF Card!SetConfig, CardKnows
    <2>2. /\ legacy' = legacy \cup {cardMemo[t].version}
             /\ promised' = promised \cup {cardMemo[t].version} /\ Card!Return(t)
          /\ UNCHANGED <<repo, tags, main, meta, override, extracted, Card!project, Card!outside,
             late>>
      BY <1>5 DEF Card!SetConfig, Card!WithConfig
    <2>3. StoreHolds'
      BY <2>1, <2>2 DEF CardInv, StoreHolds, Card!TypeOK, Card!ExtractionsAreWhole, Card!project,
                        Card!outside
    <2>4. QED BY <2>2, <2>3, CardReturns DEF CardInv, Card!project, Card!outside
  <1>6. QED BY <1>1, <1>3, <1>4, <1>5

LEMMA CardFetches ==
  ASSUME Card!CardAssumption, CardInv, NEW t \in Task, NEW withMeta \in BOOLEAN, Card!Fetch(t,
         withMeta)
  PROVE  CardInv'
  <1>1. /\ remote.tags \in [Card!Version -> Card!Tree \cup {None}]
           /\ remote.meta \subseteq Card!Version
        /\ meta \subseteq Card!Version /\ main \subseteq Commits
           /\ tags \in [Card!Version -> Card!Tree \cup {None}]
    BY DEF CardInv, StoreHolds, Card!TypeOK
  <1>2. /\ repo /\ tags' = [v \in Card!Version |-> IF tags[v] = None THEN remote.tags[v]
           ELSE tags[v]]
        /\ main' \in {main, Card!Tagged(remote.tags)} /\ meta' \in {meta, remote.meta}
        /\ UNCHANGED <<repo, legacy, override, extracted, Card!project, Card!outside, cardAt,
           cardMemo, promised, late>>
    BY DEF Card!Fetch
  <1>3. Card!Tagged(remote.tags) \subseteq Commits
    BY <1>1 DEF Card!Tagged, Commits
  <1>4. main' \subseteq Commits /\ {p.tree : p \in main'} \subseteq Card!Tree
          /\ meta' \subseteq Card!Version
        /\ tags' \in [Card!Version -> Card!Tree \cup {None}]
    <2>1. main' \subseteq Commits /\ meta' \subseteq Card!Version
      BY <1>1, <1>2, <1>3
    <2>2. tags' \in [Card!Version -> Card!Tree \cup {None}]
      BY <1>1, <1>2
    <2>3. QED BY <2>1, <2>2 DEF Commits
  <1>5. StoreHolds'
    BY <1>2, <1>4 DEF CardInv, StoreHolds, Card!TypeOK, Card!ExtractionsAreWhole, Card!project,
                      Card!outside
  <1>6. CallsHold'
    BY <1>2 DEF CardInv, CallsHold, CardKnows, Heading, Card!project, Card!outside
  <1>7. QED BY <1>5, <1>6 DEF CardInv

LEMMA CardResolves ==
  ASSUME Card!CardAssumption, CardInv, NEW t \in Task,
         Card!ExtractResolved(t) \/ Card!ReadCard(t) \/ Card!WriteLock(t)
              \/ \E v \in Card!Version : Card!StartResolve(t, v)
  PROVE  CardInv'
  <1>1. ASSUME NEW v \in Card!Version, Card!StartResolve(t, v) PROVE CardInv'
    <2> DEFINE c == [Card!Idle EXCEPT !.op = "resolve", !.version = v, !.tree = tags[v]]
    <2>1. tags[v] \in Card!Tree
      BY <1>1, CardOf DEF Card!StartResolve, Card!Published
    <2>2. c \in CardCall /\ c.tree = tags[v]
      BY <2>1, CardIdle DEF Card!Idle
    <2> HIDE DEF c
    <2>3. Card!Begin(t, "resolve", "extract") /\ Card!Remember(t, c)
            /\ UNCHANGED <<Card!store, Card!project, Card!outside, promised>>
      BY <1>1 DEF Card!StartResolve, c
    <2>4. cardAt'[t] = "extract" /\ cardMemo'[t] = c
      BY <2>3, CardAt DEF Card!Begin
    <2>5. CardKnows(t)'
      BY <2>1, <2>2, <2>4 DEF CardKnows, Heading, Vendoring
    <2>6. QED BY <2>2, <2>3, <2>5, CardBegins
  <1>2. CASE Card!ExtractResolved(t)
    BY <1>2, CardOf, CardExtracts DEF Card!ExtractResolved, CardKnows, Heading
  <1>3. CASE Card!ReadCard(t)
    <2> DEFINE c == [cardMemo[t] EXCEPT !.digest = extracted[cardMemo[t].tree]]
    <2>1. cardAt[t] = "digest" /\ cardMemo[t].tree \in Card!Tree /\ cardMemo[t] \in CardCall
      BY <1>3, CardOf DEF Card!ReadCard, CardKnows, Heading
    <2>2. CASE extracted[cardMemo[t].tree] = "none"
      BY <1>3, <2>2, CardQuits DEF Card!ReadCard
    <2>3. CASE extracted[cardMemo[t].tree] # "none"
      <3>1. extracted[cardMemo[t].tree] \in Digest
        BY <2>1, <2>3, CardOf DEF Digest
      <3>2. c \in CardCall /\ c.tree = cardMemo[t].tree /\ c.digest \in Digest
        BY <2>1, <3>1 DEF CardCall
      <3> HIDE DEF c
      <3>3. Card!Look(t, "lock", c)
        BY <1>3, <2>3 DEF Card!ReadCard, c
      <3>4. cardAt'[t] = "lock" /\ cardMemo'[t] = c
        BY <3>3, CardAt DEF Card!Look
      <3>5. CardKnows(t)'
        BY <2>1, <3>2, <3>4 DEF CardKnows, Heading, Vendoring
      <3>6. QED BY <3>2, <3>3, <3>5, CardLooks
    <2>4. QED BY <2>2, <2>3
  <1>4. CASE Card!WriteLock(t)
    <2>1. cardMemo[t].tree \in Card!Tree /\ cardMemo[t].digest \in Digest
      BY <1>4, CardOf DEF Card!WriteLock, CardKnows, Heading
    <2>2. /\ entry' \in {entry, [tree |-> cardMemo[t].tree, digest |-> cardMemo[t].digest]}
             /\ Card!Return(t)
          /\ UNCHANGED <<Card!store, vendor, sidecar, Card!outside, promised, late>>
      BY <1>4 DEF Card!WriteLock, Card!Same
    <2>3. entry' \in [tree : Card!Tree, digest : Digest] \cup {None}
      BY <2>1, <2>2 DEF CardInv, StoreHolds
    <2>4. StoreHolds'
      BY <2>2, <2>3 DEF CardInv, StoreHolds, Card!TypeOK, Card!ExtractionsAreWhole, Card!store,
                        Card!outside, Card!NoTags
    <2>5. QED BY <2>2, <2>4, CardReturns DEF CardInv, Card!outside
  <1>5. QED BY <1>1, <1>2, <1>3, <1>4

-----------------------------------------------------------------------------
(* What is vendored of a tree, or recorded of it, changes: whoever is at    *)
(* work on it takes note.                                                   *)
LEMMA CardTouches ==
  ASSUME CardInv, NEW t \in Task, NEW s, NEW x \in Card!Tree, NEW c \in CardCall,
         cardAt' = [cardAt EXCEPT ![t] = s], cardMemo' = [cardMemo EXCEPT ![t] = c],
         UNCHANGED <<Card!store, entry, Card!outside, promised>>,
         late' = late \cup ((Card!Busy \ {t}) \X {x}),
         \/ vendor' = vendor /\ \E d \in Digest \cup {None} : sidecar' = [sidecar EXCEPT ![x] = d]
         \/ sidecar' = sidecar /\ \E d \in Card!Content : vendor' = [vendor EXCEPT ![x] = d],
         CardKnows(t)'
  PROVE  CardInv'
  <1>1. vendor' \in [Card!Tree -> Card!Content] /\ sidecar' \in [Card!Tree -> Digest \cup {None}]
        /\ \A y \in Card!Tree \ {x} : vendor'[y] = vendor[y] /\ sidecar'[y] = sidecar[y]
    BY DEF CardInv, StoreHolds, Card!TypeOK, Digest
  <1>2. StoreHolds'
    BY <1>1 DEF CardInv, StoreHolds, Card!TypeOK, Card!ExtractionsAreWhole, Card!store,
                Card!outside,
                Card!NoTags, Digest
  <1>3. \A u \in Task \ {t}, y \in Card!Tree \cup {None} : <<u, y>> \in late => <<u, y>> \in late'
    OBVIOUS
  <1>4. \A u \in Task \ {t} : cardAt[u] # "idle" => <<u, x>> \in late'
    BY DEF Card!Busy
  <1>5. CallsHold'
    BY <1>1, <1>3, <1>4, CardMoves DEF Card!outside
  <1>6. QED BY <1>2, <1>5 DEF CardInv

LEMMA CardVendors ==
  ASSUME Card!CardAssumption, CardInv, NEW t \in Task,
         Card!StartVendor(t) \/ Card!Verify(t) \/ Card!CompareStore(t) \/ Card!Copy(t)
              \/ Card!VerifyCopy(t)
  PROVE  CardInv'
  <1>1. CASE Card!StartVendor(t)
    <2> DEFINE c == [Card!Idle EXCEPT !.op = "vendor", !.tree = entry.tree, !.digest = entry.digest]
    <2>1. entry.tree \in Card!Tree /\ entry.digest \in Digest
      BY <1>1 DEF Card!StartVendor, CardInv, StoreHolds
    <2>2. c \in CardCall /\ c.tree = entry.tree /\ c.digest = entry.digest
      BY <2>1, CardIdle DEF Card!Idle
    <2> HIDE DEF c
    <2>3. Card!Begin(t, "vendor", "verify") /\ Card!Remember(t, c)
            /\ UNCHANGED <<Card!store, Card!project, Card!outside, promised>>
      BY <1>1 DEF Card!StartVendor, c
    <2>4. cardAt'[t] = "verify" /\ cardMemo'[t] = c
      BY <2>3, CardAt DEF Card!Begin
    <2>5. CardKnows(t)'
      BY <2>1, <2>2, <2>4 DEF CardKnows, Heading, Vendoring
    <2>6. QED BY <2>2, <2>3, <2>5, CardBegins
  <1>2. CASE ~ Card!StartVendor(t)
    <2>1. /\ cardAt[t] \in {"verify", "compare", "copy", "check2"} /\ Heading(t) = cardAt[t]
          /\ cardMemo[t].tree \in Card!Tree /\ cardMemo[t].digest \in Digest
             /\ cardMemo[t] \in CardCall
      BY <1>2, CardOf DEF Card!Verify, Card!CompareStore, Card!Copy, Card!VerifyCopy, CardKnows,
                          Heading, Vendoring
    <2>2. ASSUME NEW s \in {"ensure", "record", "copy"}, Card!Look(t, s, cardMemo[t]),
                 s # "copy" => vendor[cardMemo[t].tree] = cardMemo[t].digest
          PROVE  CardInv'
      <3>1. cardAt'[t] = s /\ cardMemo'[t] = cardMemo[t] /\ UNCHANGED <<vendor, sidecar>>
        BY <2>2, CardAt DEF Card!Look, Card!project
      <3>2. CardKnows(t)'
        BY <2>1, <2>2, <3>1 DEF CardKnows, Heading, Vendoring
      <3>3. QED BY <2>1, <2>2, <3>2, CardLooks
    <2>3. CASE Card!Quit(t)
      BY <2>3, CardQuits
    <2>4. CASE Card!Extract(t, cardMemo[t].tree, "compare", cardMemo[t])
      BY <2>1, <2>4, CardExtracts
    <2>5. CASE Card!Look(t, "clear", [cardMemo[t] EXCEPT !.copy = extracted[cardMemo[t].tree]])
      <3> DEFINE c == [cardMemo[t] EXCEPT !.copy = extracted[cardMemo[t].tree]]
      <3>1. extracted[cardMemo[t].tree] \in Card!Content
        BY <2>1, CardOf DEF Card!Content
      <3>2. c \in CardCall /\ c.tree = cardMemo[t].tree /\ c.digest = cardMemo[t].digest
              /\ c.copy \in Card!Content
        BY <2>1, <3>1 DEF CardCall
      <3>3. Card!Look(t, "clear", c)
        BY <2>5
      <3> HIDE DEF c
      <3>4. cardAt'[t] = "clear" /\ cardMemo'[t] = c
        BY <3>3, CardAt DEF Card!Look
      <3>5. CardKnows(t)'
        BY <2>1, <3>2, <3>4 DEF CardKnows, Heading, Vendoring
      <3>6. QED BY <3>2, <3>3, <3>5, CardLooks
    <2>6. QED BY <1>2, <2>2, <2>3, <2>4, <2>5 DEF Card!Verify, Card!CompareStore, Card!Copy,
                                                  Card!VerifyCopy, Card!Arrived
  <1>3. QED BY <1>1, <1>2

LEMMA CardReplaces == ASSUME Card!CardAssumption, CardInv, NEW t \in Task,
    Card!Clear(t) \/ Card!Rename(t) \/ Card!RemoveStale(t)
  PROVE CardInv'
  <1>1. /\ cardAt[t] \in {"clear", "rename", "remove"} /\ Heading(t) = cardAt[t] /\ CardKnows(t)
        /\ cardMemo[t].tree \in Card!Tree /\ cardMemo[t].digest \in Digest
           /\ cardMemo[t] \in CardCall
    BY CardOf DEF Card!Clear, Card!Rename, Card!RemoveStale, Card!SetVendor, CardKnows, Heading,
                  Vendoring
  <1>2. PICK s \in {"rename", "check2", "unrecord"}, x \in Card!Tree, content \in Card!Content :
           /\ Card!SetVendor(t, cardAt[t], s, x, content)
           /\ s = "rename" => cardAt[t] = "clear"
           /\ s = "unrecord" => cardAt[t] = "remove" /\ x = cardMemo[t].stale
    <2>1. CASE Card!Clear(t)
      BY <1>1, <2>1 DEF Card!Clear, Card!SetVendor, Card!Content
    <2>2. CASE Card!Rename(t)
      BY <1>1, <2>2 DEF Card!Rename, Card!SetVendor, CardKnows
    <2>3. CASE Card!RemoveStale(t)
      BY <1>1, <2>3 DEF Card!RemoveStale, Card!SetVendor, Card!Content, CardKnows
    <2>4. QED BY <2>1, <2>2, <2>3
  <1>3. /\ cardAt' = [cardAt EXCEPT ![t] = s] /\ UNCHANGED cardMemo
        /\ vendor' = [vendor EXCEPT ![x] = content] /\ late' = late \cup ((Card!Busy \ {t}) \X {x})
        /\ UNCHANGED <<Card!store, entry, sidecar, Card!outside, promised>>
    BY <1>2 DEF Card!SetVendor, Card!Goto
  <1>4. cardAt'[t] = s /\ cardMemo'[t] = cardMemo[t]
    BY <1>3 DEF CardInv, CallsHold
  <1>5. s = "unrecord" => cardMemo[t].stale # cardMemo[t].tree
          /\ vendor'[cardMemo[t].tree] = vendor[cardMemo[t].tree]
    BY <1>1, <1>2, <1>3, CardOf DEF CardKnows
  <1>6. \A y \in Card!Tree : <<t, y>> \in late => <<t, y>> \in late'
    BY <1>3
  <1>7. CardKnows(t)'
    BY <1>1, <1>2, <1>3, <1>4, <1>5, <1>6 DEF CardKnows, Heading, Vendoring
  <1>8. QED BY <1>1, <1>2, <1>3, <1>7, CardOf, CardTouches

LEMMA CardRecords == ASSUME Card!CardAssumption, CardInv, NEW t \in Task,
    Card!Ensure(t) \/ Card!Record(t) \/ Card!DropSidecar(t)
  PROVE CardInv'
  <1>1. /\ cardAt[t] \in {"ensure", "record", "unrecord"} /\ Heading(t) = cardAt[t] /\ CardKnows(t)
        /\ cardMemo[t].tree \in Card!Tree /\ cardMemo[t].digest \in Digest
           /\ cardMemo[t] \in CardCall
        /\ <<t, cardMemo[t].tree>> \in late \/ vendor[cardMemo[t].tree] = cardMemo[t].digest
    BY CardOf DEF Card!Ensure, Card!Record, Card!DropSidecar, Card!SetSidecar, CardKnows, Heading,
                  Vendoring
  <1> DEFINE todo == IF cardAt[t] # "unrecord" THEN Card!Tree \ {cardMemo[t].tree}
        ELSE cardMemo[t].todo
             c == [cardMemo[t] EXCEPT !.todo = todo]
  <1>2. todo \subseteq Card!Tree \ {cardMemo[t].tree}
    BY <1>1 DEF CardKnows
  <1>3. c \in CardCall /\ c.tree = cardMemo[t].tree /\ c.digest = cardMemo[t].digest
          /\ c.todo = todo
    BY <1>1, <1>2 DEF CardCall
  <1>5. PICK x \in Card!Tree, d \in Digest \cup {None} :
           /\ Card!SetSidecar(t, cardAt[t], "prune", x, d)
           /\ IF cardAt[t] = "unrecord" THEN x = cardMemo[t].stale ELSE x = cardMemo[t].tree
              /\ d # None
    <2>1. sidecar[cardMemo[t].tree] \in Digest \cup {None} /\ cardMemo[t].digest # None
      BY <1>1 DEF CardInv, StoreHolds, Card!TypeOK, Digest, Card!CardAssumption, Card!Content
    <2>2. CASE Card!Ensure(t)
      BY <1>1, <2>1, <2>2 DEF Card!Ensure, Card!SetSidecar
    <2>3. CASE Card!Record(t)
      BY <1>1, <2>1, <2>3 DEF Card!Record, Card!SetSidecar
    <2>4. CASE Card!DropSidecar(t)
      BY <1>1, <2>4 DEF Card!DropSidecar, Card!SetSidecar, CardKnows
    <2>5. QED BY <2>2, <2>3, <2>4
  <1>6. /\ cardAt' = [cardAt EXCEPT ![t] = "prune"] /\ cardMemo' = [cardMemo EXCEPT ![t] = c]
        /\ sidecar' = [sidecar EXCEPT ![x] = d] /\ late' = late \cup ((Card!Busy \ {t}) \X {x})
        /\ UNCHANGED <<Card!store, entry, vendor, Card!outside, promised>>
    BY <1>5 DEF Card!SetSidecar, Card!Goto, Card!Remember
  <1> HIDE DEF c, todo
  <1>7. cardAt'[t] = "prune" /\ cardMemo'[t] = c
    BY <1>6 DEF CardInv, CallsHold
  <1>8. <<t, cardMemo[t].tree>> \in late \/ sidecar'[cardMemo[t].tree] # None
    <2>1. CASE cardAt[t] = "unrecord"
      <3>1. x # cardMemo[t].tree /\ (<<t, cardMemo[t].tree>> \in late
              \/ sidecar[cardMemo[t].tree] # None)
        BY <1>1, <1>5, <2>1 DEF CardKnows
      <3>2. QED BY <1>1, <1>6, <3>1 DEF CardInv, StoreHolds, Card!TypeOK
    <2>2. CASE cardAt[t] # "unrecord"
      BY <1>5, <1>6, <2>2 DEF CardInv, StoreHolds, Card!TypeOK
    <2>3. QED BY <2>1, <2>2
  <1>9. \A y \in Card!Tree : <<t, y>> \in late => <<t, y>> \in late'
    BY <1>6
  <1>10. CardKnows(t)'
    BY <1>1, <1>2, <1>3, <1>6, <1>7, <1>8, <1>9 DEF CardKnows, Heading, Vendoring
  <1>11. QED BY <1>3, <1>5, <1>6, <1>10, CardTouches

LEMMA CardPrunes ==
  ASSUME Card!CardAssumption, CardInv, NEW t \in Task, NEW x \in Card!Tree, Card!Inspect(t, x)
  PROVE  CardInv'
  <1> DEFINE c == [cardMemo[t] EXCEPT !.todo = @ \ {x}]
             d == [c EXCEPT !.stale = x]
  <1>1. /\ cardAt[t] = "prune" /\ Heading(t) = cardAt[t] /\ CardKnows(t)
           /\ x \in cardMemo[t].todo /\ x # cardMemo[t].tree
        /\ cardMemo[t].tree \in Card!Tree /\ cardMemo[t].digest \in Digest
           /\ cardMemo[t] \in CardCall
    BY CardOf DEF Card!Inspect, CardKnows, Heading, Vendoring
  <1>2. /\ c \in CardCall /\ c.tree = cardMemo[t].tree /\ c.digest = cardMemo[t].digest
           /\ c.todo = cardMemo[t].todo \ {x}
        /\ d \in CardCall /\ d.tree = cardMemo[t].tree /\ d.digest = cardMemo[t].digest
           /\ d.todo = cardMemo[t].todo \ {x}
        /\ d.stale = x
    BY <1>1 DEF CardCall
  <1>3. CASE vendor[x] # "none" /\ Card!Prunable(x)
    <2>1. /\ Card!Goto(t, "remove") /\ Card!Remember(t, d) /\ late' = late \ {<<t, x>>}
          /\ UNCHANGED <<Card!store, Card!project, Card!outside, promised>>
      BY <1>3 DEF Card!Inspect
    <2>2. vendor[x] # "edited"
      BY <1>3 DEF Card!Prunable, CardInv, StoreHolds, Digest, Card!CardAssumption
    <2> HIDE DEF c, d
    <2>3. cardAt'[t] = "remove" /\ cardMemo'[t] = d
      BY <2>1, CardAt
    <2>4. <<t, cardMemo[t].tree>> \in late => <<t, cardMemo[t].tree>> \in late'
      BY <1>1, <2>1
    <2>5. CardKnows(t)'
      BY <1>1, <1>2, <2>1, <2>2, <2>3, <2>4 DEF CardKnows, Heading, Vendoring, Card!project
    <2>6. \A u \in Task \ {t}, y \in Card!Tree \cup {None} : <<u, y>> \in late => <<u, y>> \in late'
      BY <2>1
    <2>7. CallsHold'
      BY <1>2, <2>1, <2>5, <2>6, CardMoves DEF Card!Goto, Card!Remember, Card!project, Card!outside
    <2>8. QED BY <2>1, <2>7, CardStill DEF CardInv
  <1>4. CASE ~ (vendor[x] # "none" /\ Card!Prunable(x))
    <2>1. Card!Look(t, "prune", c)
      BY <1>4 DEF Card!Inspect
    <2> HIDE DEF c, d
    <2>2. cardAt'[t] = "prune" /\ cardMemo'[t] = c /\ UNCHANGED <<vendor, sidecar, late>>
      BY <2>1, CardAt DEF Card!Look, Card!project, Card!Same
    <2>3. CardKnows(t)'
      BY <1>1, <1>2, <2>2 DEF CardKnows, Heading, Vendoring
    <2>4. QED BY <1>2, <2>1, <2>3, CardLooks
  <1>5. QED BY <1>3, <1>4

LEMMA CardEnds ==
  ASSUME Card!CardAssumption, CardInv, NEW t \in Task,
         Card!NoRepository(t) \/ Card!RenameFails(t) \/ Card!EndVendor(t) \/ Card!Crash(t)
  PROVE  CardInv'
  <1>1. CASE Card!Quit(t)
    BY <1>1, CardQuits
  <1>2. CASE Card!Crash(t)
    BY <1>2, CardReturns, CardStill DEF Card!Crash, CardInv, Card!project, Card!outside
  <1>3. QED BY <1>1, <1>2 DEF Card!NoRepository, Card!RenameFails, Card!EndVendor

LEMMA CardSeeds ==
  ASSUME Card!CardAssumption, CardInv, NEW t \in Task,
         Card!StartSeed(t) \/ Card!Wipe(t) \/ Card!PutSeed(t)
  PROVE  CardInv'
  <1>1. CASE Card!StartSeed(t)
    <2> DEFINE c == [Card!Idle EXCEPT !.op = "seed"]
    <2>1. c \in CardCall
      BY CardIdle
    <2> HIDE DEF c
    <2>2. Card!Begin(t, "seed", "wipe") /\ Card!Remember(t, c)
            /\ UNCHANGED <<Card!store, Card!project, Card!outside, promised>>
      BY <1>1 DEF Card!StartSeed, c
    <2>3. cardAt'[t] = "wipe"
      BY <2>2, CardAt DEF Card!Begin
    <2>4. CardKnows(t)'
      BY <2>3 DEF CardKnows, Heading, Vendoring
    <2>5. QED BY <2>1, <2>2, <2>4, CardBegins
  <1>2. CASE Card!Wipe(t)
    <2>1. /\ repo' = FALSE /\ tags' = Card!NoTags /\ main' = {} /\ Card!Cleared
             /\ Card!Goto(t, "seed")
          /\ cardMemo' = [u \in Task |-> IF cardMemo[u].op = "publish"
             THEN [cardMemo[u] EXCEPT !.lost = TRUE] ELSE cardMemo[u]]
          /\ UNCHANGED <<Card!project, Card!outside, late>> /\ cardAt[t] = "wipe"
      BY <1>2 DEF Card!Wipe
    <2>2. StoreHolds'
      <3>1. Card!NoTags \in [Card!Version -> Card!Tree \cup {None}]
        BY DEF Card!NoTags
      <3>2. QED BY <2>1, <3>1 DEF CardInv, StoreHolds, Card!TypeOK, Card!ExtractionsAreWhole,
                                  Card!Cleared, Card!Content, Card!project, Card!outside,
                                       Card!NoTags
    <2>3. ASSUME NEW u \in Task PROVE
            /\ cardMemo'[u] \in CardCall /\ cardMemo'[u].version = cardMemo[u].version
               /\ cardMemo'[u].tree = cardMemo[u].tree
            /\ cardMemo'[u].after = cardMemo[u].after /\ cardMemo'[u].parent = cardMemo[u].parent
               /\ cardMemo'[u].digest = cardMemo[u].digest
            /\ cardMemo'[u].copy = cardMemo[u].copy /\ cardMemo'[u].todo = cardMemo[u].todo
               /\ cardMemo'[u].stale = cardMemo[u].stale
      <3>1. cardMemo[u] \in CardCall
        BY CardOf
      <3>2. cardMemo'[u] \in {cardMemo[u], [cardMemo[u] EXCEPT !.lost = TRUE]}
        BY <2>1
      <3>3. QED BY <3>1, <3>2 DEF CardCall
    <2>4. CardKnows(t)'
      BY <2>1 DEF CardInv, CallsHold, CardKnows, Heading, Vendoring, Card!Goto
    <2>5. ASSUME NEW u \in Task \ {t} PROVE CardKnows(u)'
      <3>1. cardAt'[u] = cardAt[u] /\ CardKnows(u)
        BY <2>1, CardOf DEF CardInv, CallsHold, Card!Goto
      <3>2. Heading(u)' = Heading(u)
        BY <2>3, <3>1 DEF Heading
      <3>3. QED BY <2>1, <2>3, <3>1, <3>2 DEF CardKnows, Card!project, Card!outside
    <2>6. cardMemo' \in [Task -> CardCall] /\ cardAt' = [u \in Task |-> cardAt'[u]]
      BY <2>1, <2>3 DEF CardInv, CallsHold, Card!Goto
    <2>7. QED BY <2>2, <2>4, <2>5, <2>6 DEF CardInv, CallsHold
  <1>3. CASE Card!PutSeed(t)
    <2>1. Card!Return(t) /\ UNCHANGED <<Card!project, Card!outside, late>>
      BY <1>3 DEF Card!PutSeed
    <2>2. CallsHold'
      BY <2>1, CardReturns DEF Card!project, Card!outside
    <2>3. CASE repo' = TRUE /\ tags' = [Card!NoTags EXCEPT ![1] = seed]
            /\ main' = Card!Tagged(tags') /\ Card!Cleared
      <3>1. tags' \in [Card!Version -> Card!Tree \cup {None}]
        BY <2>3 DEF CardInv, StoreHolds, Card!NoTags
      <3>2. main' \subseteq Commits /\ {p.tree : p \in main'} \subseteq Card!Tree
        BY <2>3, <3>1 DEF Card!Tagged, Commits
      <3>3. StoreHolds'
        BY <2>1, <2>3, <3>1, <3>2
           DEF CardInv, StoreHolds, Card!TypeOK, Card!ExtractionsAreWhole, Card!Cleared,
               Card!Content,
               Card!project, Card!outside
      <3>4. QED BY <2>2, <3>3 DEF CardInv
    <2>4. CASE UNCHANGED <<Card!store, promised>>
      BY <2>1, <2>2, <2>4, CardStill DEF CardInv
    <2>5. QED BY <1>3, <2>3, <2>4 DEF Card!PutSeed
  <1>4. QED BY <1>1, <1>2, <1>3

(* The steps of users and of other machines. *)
LEMMA CardOthers == ASSUME Card!CardAssumption, CardInv, Card!Environment PROVE CardInv'
  <1>1. ASSUME NEW t \in Task, NEW x \in Card!Tree, Card!EditSource(t, x) PROVE CardInv'
    <2>1. /\ source' = [source EXCEPT ![t] = x]
          /\ late' = (IF t \in Card!Busy THEN late \cup {<<t, None>>} ELSE late)
          /\ UNCHANGED <<Card!store, Card!project, seed, remote, cardAt, cardMemo, promised>>
      BY <1>1 DEF Card!EditSource
    <2>2. StoreHolds'
      <3>1. source' \in [Task -> Card!Tree]
        BY <2>1 DEF CardInv, StoreHolds
      <3>2. QED BY <2>1, <3>1 DEF CardInv, StoreHolds, Card!TypeOK, Card!ExtractionsAreWhole,
                                  Card!store, Card!project, Card!NoTags
    <2>3. ASSUME NEW u \in Task PROVE CardKnows(u)'
      <3>1. CardKnows(u) /\ Heading(u)' = Heading(u) /\ late \subseteq late'
        BY <2>1, CardOf DEF Heading
      <3>2. cardAt[u] # "idle" => <<u, None>> \in late' \/ source'[u] = source[u]
        BY <2>1 DEF Card!Busy, CardInv, StoreHolds
      <3>3. cardAt[u] = "idle" => Heading(u) = "idle"
        BY DEF Heading
      <3>4. QED BY <2>1, <3>1, <3>2, <3>3 DEF CardKnows, Card!project
    <2>4. QED BY <2>1, <2>2, <2>3 DEF CardInv, CallsHold
  <1>2. ASSUME NEW x \in Card!Tree, Card!EditExtracted(x) \/ Card!RemotePublish(x) PROVE CardInv'
    <2>1. UNCHANGED <<repo, tags, main, meta, legacy, override, Card!project, seed, source,
            cardAt, cardMemo, promised, late>>
      BY <1>2 DEF Card!EditExtracted, Card!RemotePublish, Card!outside, Card!store
    <2>2. extracted' \in [Card!Tree -> {"none", "whole", "forged"}]
          /\ remote' \in [tags : [Card!Version -> Card!Tree \cup {None}], meta :
             SUBSET Card!Version]
      <3>1. CASE Card!EditExtracted(x)
        <4>1. extracted' = [extracted EXCEPT ![x] = "forged"] /\ remote' = remote
          BY <3>1 DEF Card!EditExtracted, Card!outside
        <4>2. extracted' \in [Card!Tree -> {"none", "whole", "forged"}]
          BY <4>1 DEF CardInv, StoreHolds, Card!TypeOK, Card!ExtractionsAreWhole
        <4>3. QED BY <4>1, <4>2 DEF CardInv, StoreHolds
      <3>2. CASE Card!RemotePublish(x)
        <4>1. x.version \in Card!Version
          BY DEF Card!Tree
        <4>2. remote' = [remote EXCEPT !.tags[x.version] = x] /\ UNCHANGED Card!store
          BY <3>2 DEF Card!RemotePublish
        <4>3. remote' \in [tags : [Card!Version -> Card!Tree \cup {None}], meta :
                SUBSET Card!Version]
          BY <4>1, <4>2 DEF CardInv, StoreHolds
        <4>4. QED BY <4>2, <4>3, CardOf DEF Card!store, CardInv, StoreHolds, Card!TypeOK,
                                            Card!ExtractionsAreWhole
      <3>3. QED BY <1>2, <3>1, <3>2
    <2>3. StoreHolds'
      BY <2>1, <2>2 DEF CardInv, StoreHolds, Card!TypeOK, Card!ExtractionsAreWhole, Card!Content,
                        Card!project, Card!NoTags
    <2>4. CallsHold'
      BY <2>1 DEF CardInv, CallsHold, CardKnows, Heading, Card!project
    <2>5. QED BY <2>3, <2>4 DEF CardInv
  <1>3. ASSUME NEW x \in Card!Tree, Card!EditVendor(x) PROVE CardInv'
    <2>1. /\ vendor' = [vendor EXCEPT ![x] = "edited"] /\ late' = late \cup (Card!Busy \X {x})
          /\ UNCHANGED <<Card!store, entry, sidecar, Card!outside, cardAt, cardMemo, promised>>
      BY <1>3 DEF Card!EditVendor
    <2>2. vendor' \in [Card!Tree -> Card!Content]
            /\ \A y \in Card!Tree \ {x} : vendor'[y] = vendor[y]
      BY <2>1 DEF CardInv, StoreHolds, Card!TypeOK, Card!Content
    <2>3. StoreHolds'
      BY <2>1, <2>2 DEF CardInv, StoreHolds, Card!TypeOK, Card!ExtractionsAreWhole, Card!store,
                        Card!outside, Card!NoTags
    <2>4. ASSUME NEW u \in Task PROVE CardKnows(u)'
      <3>1. CardKnows(u) /\ Heading(u)' = Heading(u) /\ late \subseteq late'
              /\ cardMemo[u] \in CardCall
        BY <2>1, CardOf DEF Heading
      <3>2. cardAt[u] # "idle" => <<u, x>> \in late'
        BY <2>1 DEF Card!Busy
      <3>3. cardAt[u] \in {"ensure", "record", "prune", "remove", "unrecord"} =>
              cardMemo[u].tree \in Card!Tree
        BY <3>1 DEF CardKnows, Heading, Vendoring
      <3>4. QED BY <2>1, <2>2, <3>1, <3>2, <3>3 DEF CardKnows, Card!outside
    <2>5. QED BY <2>1, <2>3, <2>4 DEF CardInv, CallsHold
  <1>4. QED BY <1>1, <1>2, <1>3 DEF Card!Environment

LEMMA CardStep == ASSUME Card!CardAssumption, CardInv, [Card!Next]_(Card!vars) PROVE CardInv'
  <1>1. CASE UNCHANGED Card!vars
    BY <1>1, CardStill DEF Card!vars, CardInv, CallsHold, CardKnows, Heading, Card!project,
                           Card!outside
  <1>2. ASSUME NEW t \in Task, Card!PublishStep(t) PROVE CardInv'
    BY <1>2, CardPublishes, CardChecks, CardBumps, CardHeads, CardTags DEF Card!PublishStep
  <1>3. ASSUME NEW t \in Task, Card!StoreStep(t) PROVE CardInv'
    BY <1>3, CardUnpacks, CardEnds, CardDeprecates, CardSeeds, CardResolves, CardFetches
      DEF Card!StoreStep
  <1>4. ASSUME NEW t \in Task, Card!ProjectStep(t) PROVE CardInv'
    BY <1>4, CardResolves, CardVendors, CardReplaces, CardRecords, CardPrunes, CardEnds
      DEF Card!ProjectStep
  <1>5. QED BY <1>1, <1>2, <1>3, <1>4, CardEnds, CardOthers DEF Card!Next

-----------------------------------------------------------------------------
LEMMA VersionsKept ==
  ASSUME Card!CardAssumption, CardInv, [Card!Next]_(Card!vars), NEW v \in Card!Version PROVE
    /\ tags[v] # None => (tags'[v] = tags[v] \/ Card!Wiped)
    /\ \A t \in Task : (Card!CreateTag(t) /\ tags[v] # tags'[v] /\ <<t, None>> \notin late) =>
       tags'[v].version = v
  <1>1. ASSUME NEW t \in Task, Card!CreateTag(t)
        PROVE  \/ tags' = tags
               \/ tags[cardMemo[t].version] = None
                  /\ tags' = [tags EXCEPT ![cardMemo[t].version] = cardMemo[t].tree]
    BY <1>1 DEF Card!CreateTag, Card!NewTag
  <1>2. ASSUME NEW t \in Task, Card!Wipe(t) PROVE Card!Wiped
    <2>1. cardAt'[t] = "seed" /\ cardAt[t] = "wipe"
      BY <1>2 DEF Card!Wipe, Card!Goto, CardInv, CallsHold
    <2>2. QED BY <2>1 DEF Card!Wiped
  <1>3. ASSUME NEW t \in Task, Card!PutSeed(t), tags[v] # None PROVE tags'[v] = tags[v]
    <2>1. repo
      BY <1>3 DEF CardInv, StoreHolds, Card!NoTags
    <2>2. QED BY <1>3, <2>1 DEF Card!PutSeed, Card!Empty, Card!store
  <1>4. ASSUME NEW t \in Task, NEW withMeta \in BOOLEAN, Card!Fetch(t, withMeta), tags[v] # None
        PROVE  tags'[v] = tags[v]
    BY <1>4 DEF Card!Fetch
  <1>5. ASSUME NEW t \in Task, Card!PublishStep(t), ~ Card!CreateTag(t) PROVE tags' = tags
    BY <1>5 DEF Card!PublishStep, Card!StartPublish, Card!Check, Card!WriteTree, Card!ReadParent,
                Card!UpdateHead, Card!Bump, Card!Quit, Card!Look, Card!Extract, Card!store
  <1>6. ASSUME NEW t \in Task, Card!StoreStep(t), ~ Card!Wipe(t), ~ Card!PutSeed(t),
               \A m \in BOOLEAN : ~ Card!Fetch(t, m)
        PROVE  tags' = tags
    BY <1>6 DEF Card!StoreStep, Card!Unpack, Card!Place, Card!NoRepository, Card!ReadMeta,
                Card!SetMeta,
                Card!SetConfig, Card!StartSeed,
                Card!StartDeprecate, Card!StartResolve, Card!Quit, Card!Look, Card!store
  <1>7. ASSUME NEW t \in Task, Card!ProjectStep(t) \/ Card!Crash(t) PROVE tags' = tags
    BY <1>7 DEF Card!ProjectStep, Card!ExtractResolved, Card!ReadCard, Card!WriteLock,
                Card!StartVendor,
                Card!Verify, Card!CompareStore, Card!Copy, Card!Clear, Card!Rename,
                Card!RenameFails, Card!VerifyCopy, Card!Ensure, Card!Record, Card!RemoveStale,
                Card!DropSidecar, Card!EndVendor, Card!Inspect, Card!Crash,
                Card!SetVendor, Card!SetSidecar, Card!Quit, Card!Look, Card!Extract, Card!store
  <1>8. ASSUME Card!Environment \/ UNCHANGED Card!vars PROVE tags' = tags
    BY <1>8 DEF Card!Environment, Card!EditSource, Card!EditExtracted, Card!EditVendor,
                Card!RemotePublish, Card!vars, Card!store
  <1>9. ASSUME tags[v] # None PROVE tags'[v] = tags[v] \/ Card!Wiped
    <2>1. ASSUME NEW t \in Task, Card!CreateTag(t) PROVE tags'[v] = tags[v]
      BY <1>1, <1>9, <2>1, CardOf
    <2>2. ASSUME NEW t \in Task, Card!StoreStep(t) PROVE tags'[v] = tags[v] \/ Card!Wiped
      BY <1>2, <1>3, <1>4, <1>6, <1>9, <2>2
    <2>3. ASSUME NEW t \in Task, Card!PublishStep(t) PROVE tags'[v] = tags[v]
      BY <1>5, <2>1, <2>3
    <2>4. QED BY <1>7, <1>8, <2>2, <2>3 DEF Card!Next
  <1>10. ASSUME NEW t \in Task, Card!CreateTag(t), tags[v] # tags'[v], <<t, None>> \notin late
         PROVE  tags'[v].version = v
    <2>1. cardMemo[t].version \in Card!Version /\ cardMemo[t].tree.version = cardMemo[t].version
      BY <1>10, CardOf DEF Card!CreateTag, CardKnows, Heading
    <2>2. QED BY <1>1, <1>10, <2>1, CardOf
  <1>11. QED BY <1>9, <1>10

LEMMA WritesKeep ==
  ASSUME Card!CardAssumption, CardInv, [Card!Next]_(Card!vars) PROVE
    /\ \A t \in Task : Card!EndVendor(t) =>
          \/ vendor[cardMemo[t].tree] = cardMemo[t].digest /\ sidecar[cardMemo[t].tree] # None
          \/ <<t, cardMemo[t].tree>> \in late
    /\ \A x \in Card!Tree : vendor[x] = "edited" /\ vendor'[x] # "edited" =>
          \E t \in Task : \/ cardAt[t] = "clear" /\ cardMemo[t].tree = x
                          \/ cardAt[t] = "remove" /\ cardMemo[t].stale = x /\ <<t, x>> \in late
  <1>1. ASSUME NEW t \in Task, Card!EndVendor(t)
        PROVE  \/ vendor[cardMemo[t].tree] = cardMemo[t].digest /\ sidecar[cardMemo[t].tree] # None
               \/ <<t, cardMemo[t].tree>> \in late
    BY <1>1, CardOf DEF Card!EndVendor, CardKnows
  <1>2. ASSUME NEW x \in Card!Tree, vendor[x] = "edited", vendor'[x] # "edited"
        PROVE  \E t \in Task : \/ cardAt[t] = "clear" /\ cardMemo[t].tree = x
                               \/ cardAt[t] = "remove" /\ cardMemo[t].stale = x /\ <<t, x>> \in late
    <2>1. ~ (Card!Environment \/ UNCHANGED Card!vars)
      <3>1. ASSUME NEW y \in Card!Tree, Card!EditVendor(y) PROVE vendor'[x] = "edited"
        BY <1>2, <3>1, CardOf DEF Card!EditVendor
      <3>2. QED BY <1>2, <3>1 DEF Card!Environment, Card!EditSource, Card!EditExtracted,
                                  Card!RemotePublish, Card!vars, Card!project
    <2>2. ASSUME NEW t \in Task PROVE ~ (Card!PublishStep(t) \/ Card!StoreStep(t) \/ Card!Crash(t))
      BY <1>2 DEF Card!PublishStep, Card!StartPublish, Card!Check, Card!WriteTree, Card!ReadParent,
                  Card!UpdateHead, Card!CreateTag, Card!Bump,
         Card!StoreStep, Card!Unpack, Card!Place, Card!NoRepository, Card!ReadMeta, Card!SetMeta,
         Card!SetConfig, Card!StartSeed, Card!Wipe, Card!PutSeed,
         Card!StartDeprecate, Card!StartResolve, Card!Fetch, Card!Crash, Card!Quit, Card!Look,
              Card!Extract, Card!project
    <2>3. PICK t \in Task : Card!ProjectStep(t)
      BY <2>1, <2>2 DEF Card!Next
    <2>4. Card!Clear(t) \/ Card!Rename(t) \/ Card!RemoveStale(t)
      BY <1>2, <2>3 DEF Card!ProjectStep, Card!ExtractResolved, Card!ReadCard, Card!WriteLock,
                        Card!StartVendor, Card!Verify, Card!CompareStore, Card!Copy,
                Card!RenameFails, Card!VerifyCopy, Card!Ensure, Card!Record, Card!DropSidecar,
                     Card!EndVendor, Card!Inspect, Card!SetSidecar, Card!Quit, Card!Look,
                          Card!Extract, Card!project
    <2>5. CASE Card!Clear(t)
      BY <1>2, <2>5, CardOf DEF Card!Clear, Card!SetVendor
    <2>6. CASE Card!Rename(t)
      BY <1>2, <2>6, CardOf DEF Card!Rename, Card!SetVendor
    <2>7. CASE Card!RemoveStale(t)
      <3>1. cardAt[t] = "remove" /\ vendor' = [vendor EXCEPT ![cardMemo[t].stale] = "none"]
        BY <2>7 DEF Card!RemoveStale, Card!SetVendor
      <3>2. cardMemo[t].stale = x
        BY <1>2, <3>1, CardOf
      <3>3. QED BY <1>2, <3>1, <3>2, CardOf DEF CardKnows
    <2>8. QED BY <2>4, <2>5, <2>6, <2>7
  <1>3. QED BY <1>1, <1>2

LEMMA CardIsKept == ASSUME Card!CardAssumption PROVE Card!Spec => []Card!CardsAreKept
  <1>1. CardInv => Card!CardsAreKept
    BY DEF CardInv, StoreHolds, Card!CardsAreKept, Card!DeprecationsAreKept, Card!Deprecated
  <1>2. QED BY <1>1, CardStarts, CardStep, PTL DEF Card!Spec

LEMMA TreeIsKept == ASSUME Card!CardAssumption PROVE Card!Spec => Card!TreesAreKept
  <1>1. Card!Spec => []CardInv
    BY CardStarts, CardStep, PTL DEF Card!Spec
  <1>2. CardInv /\ [Card!Next]_(Card!vars) => \A v \in Card!Version :
       /\ tags[v] # None => (tags'[v] = tags[v] \/ Card!Wiped)
       /\ \A t \in Task : (Card!CreateTag(t) /\ tags[v] # tags'[v] /\ <<t, None>> \notin late) =>
          tags'[v].version = v
    BY VersionsKept
  <1>3. CardInv /\ [Card!Next]_(Card!vars) =>
    /\ \A t \in Task : Card!EndVendor(t) =>
          \/ vendor[cardMemo[t].tree] = cardMemo[t].digest /\ sidecar[cardMemo[t].tree] # None
          \/ <<t, cardMemo[t].tree>> \in late
    /\ \A x \in Card!Tree : vendor[x] = "edited" /\ vendor'[x] # "edited" =>
          \E t \in Task : \/ cardAt[t] = "clear" /\ cardMemo[t].tree = x
                          \/ cardAt[t] = "remove" /\ cardMemo[t].stale = x /\ <<t, x>> \in late
    BY WritesKeep
  <1>4. QED BY <1>1, <1>2, <1>3, PTL DEF Card!TreesAreKept, Card!VersionsKeepTheirTree,
                                         Card!WritesVendorTheLock, Card!Spec
(* In the composition the card is a part that the others leave alone. *)
LEMMA CardIsAPart == OverlapSpec => Card!Spec
  <1>1. OverlapInit => Card!Init
    BY DEF OverlapInit
  <1>2. [OverlapNext]_all => [Card!Next]_(Card!vars)
    BY DEF OverlapNext, all, card, Card!store, Card!project, Card!outside, Card!vars
  <1>3. QED BY <1>1, <1>2, PTL DEF OverlapSpec, Card!Spec

(* card-store.ts, card-meta.ts: whoever runs, dies or edits, a tree that is  *)
(* extracted is whole or edited, and an acknowledged deprecation stays.      *)
THEOREM CardStaysKept == OverlapSpec => []CardsAreKept
  <1>1. Card!Spec => []Card!CardsAreKept
    BY CardIsKept, CardsAssumption
  <1>2. QED BY <1>1, CardIsAPart DEF CardsAreKept

(* createTag, vendor.ts: a published version keeps its tree but for the wipe *)
(* of seeding, and a write that nobody disturbed leaves the tree and the     *)
(* integrity of the lock, and edits only where it replaces the tree.         *)
THEOREM TreesStayKept == OverlapSpec => TreesAreKept
  <1>1. Card!Spec => Card!TreesAreKept
    BY TreeIsKept, CardsAssumption
  <1>2. QED BY <1>1, CardIsAPart DEF TreesAreKept

-----------------------------------------------------------------------------
(* Worker launch contexts.  ContextsAreWhole is not inductive: that the     *)
(* rename takes a free place with a complete tree rests on who holds the    *)
(* lock of the id, on what a stage holds at each step of its call, and on   *)
(* every stage and quarantine having its owner until somebody dies          *)
(* (ContextInv).  CallsAreHonest rests on what a call that nothing disturbed *)
(* still knows of the project and of the contexts (HonestInv).              *)

Number == 0 .. MaxLaunchEvents
Attempt == 0 .. Launch!MaxAttempts - 1
Path == {"context", "stage", "prune"} \X Launch!Id \X Number
LaunchDir ==
  [kind : {"context", "stage", "prune"}, id : Launch!Id, n : Number, marked : BOOLEAN,
   copied : Launch!Version \cup {None}, release : Launch!Version \cup {None},
   created : Nat \cup {None}, drift : BOOLEAN]
LaunchCall ==
  [release : Launch!Version, tries : Attempt,
   input : (Launch!Version \X Launch!Version) \cup {None},
   config : Launch!Version \cup {None}, lock : Launch!Version \cup {None},
   current : BOOLEAN,
   id : Launch!Id \cup {None}, n : Number, found : BOOLEAN, todo : SUBSET Path,
   candidates : (SUBSET (Launch!Id \X Nat)) \cup (SUBSET Launch!Id),
   cutoff : Int \cup {None}]

Planning == {"config", "lock", "base", "compare", "plan"}
Staging == {"mkdir", "mark", "render", "seal", "sources", "projection", "input", "reuse", "rename"}
Preparing == {"acquire", "recover"} \cup Staging
Pruning == {"scan", "inspect", "next", "quarantine", "empty"}

(* What a call has read at each of its steps.                               *)
LaunchShape(t) ==
  /\ at[t] \in {"lock", "base", "compare", "plan"} => memo[t].config \in Launch!Version
  /\ at[t] \in {"base", "compare", "plan"} => memo[t].lock \in Launch!Version
  /\ at[t] \in Planning \cup Preparing => memo[t].input \in Launch!Version \X Launch!Version
  /\ at[t] \in Preparing \cup {"quarantine", "empty"} => memo[t].id \in Launch!Id
  /\ at[t] \in Pruning => memo[t].input = None
  /\ at[t] \in {"scan", "inspect"} => memo[t].candidates \in SUBSET (Launch!Id \X Nat)
  /\ at[t] \in {"next", "quarantine", "empty"} =>
     memo[t].candidates \in SUBSET Launch!Id /\ memo[t].cutoff \in Int

LaunchWorld ==
  /\ {config, lock, skill, release} \subseteq Launch!Version
  /\ torn \in BOOLEAN /\ projected \in BOOLEAN /\ died \in BOOLEAN
  /\ clock \in Nat /\ events \in Number

LaunchTypes ==
  /\ LaunchWorld
  /\ dirs \subseteq LaunchDir /\ owner \in [Launch!Id -> Task \cup {None}]
  /\ at \in [Task -> {"idle", "capture"} \cup Planning \cup Preparing \cup Pruning]
  /\ memo \in [Task -> LaunchCall]
  /\ disturbed \in [Task -> BOOLEAN] /\ seen = [t \in Task |-> seen[t]]
  /\ \A t \in Task : LaunchShape(t)

LEMMA NoCallIs ==
  ASSUME Launch!LaunchAssumption
  PROVE  Launch!Idle \in LaunchCall /\ 0 \in Launch!Version /\ 1 \in Launch!Version /\ 0 \in Number
  <1>1. 0 \in Launch!Version /\ 0 \in Number /\ 0 \in Attempt
    BY DEF Launch!LaunchAssumption, Launch!Version, Number, Attempt, Launch!MaxAttempts
  <1>2. 1 \in Launch!Version
    BY DEF Launch!Version
  <1>3. QED BY <1>1, <1>2 DEF Launch!Idle, LaunchCall

LEMMA LaunchStarts == ASSUME Launch!LaunchAssumption PROVE Launch!Init => LaunchTypes
  <1> SUFFICES ASSUME Launch!Init PROVE LaunchTypes
    OBVIOUS
  <1>1. LaunchWorld
    BY NoCallIs DEF Launch!Init, LaunchWorld
  <1>2. dirs \subseteq LaunchDir
    <2>1. CASE dirs = {}
      BY <2>1
    <2>2. CASE dirs = {Launch!Published([config |-> config, lock |-> lock, skill |-> 0])}
      <3>1. [config |-> config, lock |-> lock, skill |-> 0] \in Launch!Id
        BY NoCallIs DEF Launch!Init, Launch!Id
      <3>2. ASSUME NEW i \in Launch!Id PROVE Launch!Published(i) \in LaunchDir
        <4>1. i.skill \in Launch!Version
          BY DEF Launch!Id
        <4>2. QED BY <4>1, NoCallIs DEF Launch!Published, Launch!Directory, LaunchDir
      <3>3. QED BY <2>2, <3>1, <3>2
    <2>3. QED BY <2>1, <2>2 DEF Launch!Init
  <1>3. QED BY <1>1, <1>2, NoCallIs DEF Launch!Init, LaunchTypes, LaunchShape, Planning, Preparing,
                                        Staging, Pruning

(* A step of a call leaves what the others have read. *)
LEMMA LaunchMoves ==
  ASSUME LaunchTypes, NEW t \in Task,
         NEW s \in {"idle", "capture"} \cup Planning \cup Preparing \cup Pruning,
         NEW c \in LaunchCall, at' = [at EXCEPT ![t] = s], memo' = [memo EXCEPT ![t] = c],
         LaunchWorld', dirs' \subseteq LaunchDir, owner' \in [Launch!Id -> Task \cup {None}],
         disturbed' \in [Task -> BOOLEAN], seen' = [u \in Task |-> seen'[u]], LaunchShape(t)'
  PROVE  LaunchTypes'
  <1>1. ASSUME NEW u \in Task \ {t} PROVE LaunchShape(u)'
    <2>1. at'[u] = at[u] /\ memo'[u] = memo[u] /\ LaunchShape(u)
      BY DEF LaunchTypes
    <2>2. QED BY <2>1 DEF LaunchShape
  <1>2. at' \in [Task -> {"idle", "capture"} \cup Planning \cup Preparing \cup Pruning]
        /\ memo' \in [Task -> LaunchCall]
    BY DEF LaunchTypes
  <1>3. QED BY <1>1, <1>2 DEF LaunchTypes

LEMMA LaunchOf == ASSUME LaunchTypes, NEW t \in Task PROVE
  /\ memo[t] \in LaunchCall /\ LaunchShape(t) /\ memo = [memo EXCEPT ![t] = memo[t]]
  /\ dirs \subseteq LaunchDir /\ owner \in [Launch!Id -> Task \cup {None}]
  /\ disturbed \in [Task -> BOOLEAN] /\ seen = [u \in Task |-> seen[u]]
  BY DEF LaunchTypes

LEMMA LaunchAt ==
  ASSUME LaunchTypes, NEW t \in Task, NEW s, NEW c, Launch!Goto(t, s), Launch!Remember(t, c)
  PROVE  at'[t] = s /\ memo'[t] = c /\ \A u \in Task \ {t} : at'[u] = at[u] /\ memo'[u] = memo[u]
  BY DEF LaunchTypes, Launch!Goto, Launch!Remember

LEMMA LaunchSame == ASSUME LaunchTypes, UNCHANGED Launch!Others PROVE LaunchWorld'
  BY DEF LaunchTypes, LaunchWorld, Launch!Others, Launch!project, Launch!bounds

LEMMA LaunchReturns ==
  ASSUME Launch!LaunchAssumption, LaunchTypes, NEW t \in Task, NEW what, Launch!Return(t, what),
         LaunchWorld', dirs' \subseteq LaunchDir
  PROVE  LaunchTypes'
  <1>1. /\ at' = [at EXCEPT ![t] = "idle"] /\ memo' = [memo EXCEPT ![t] = Launch!Idle]
        /\ owner' = [i \in Launch!Id |-> IF owner[i] = t THEN None ELSE owner[i]]
        /\ disturbed' = [disturbed EXCEPT ![t] = FALSE] /\ seen' = [seen EXCEPT ![t] = {}]
    BY DEF Launch!Return, Launch!Goto, Launch!Remember
  <1>2. at'[t] = "idle"
    BY <1>1 DEF LaunchTypes
  <1>3. LaunchShape(t)'
    BY <1>2 DEF LaunchShape, Planning, Preparing, Staging, Pruning
  <1>4. owner' \in [Launch!Id -> Task \cup {None}] /\ disturbed' \in [Task -> BOOLEAN]
          /\ seen' = [u \in Task |-> seen'[u]]
    BY <1>1 DEF LaunchTypes
  <1>5. QED BY <1>1, <1>3, <1>4, NoCallIs, LaunchMoves

(* A step that is silent, and whose call goes on. *)
LEMMA LaunchGoesOn ==
  ASSUME LaunchTypes, NEW t \in Task,
         NEW s \in {"capture"} \cup Planning \cup Preparing \cup Pruning,
         NEW c \in LaunchCall, Launch!Goto(t, s), Launch!Remember(t, c), UNCHANGED <<Launch!Others,
         seen>>,
         dirs' \subseteq LaunchDir, owner' \in [Launch!Id -> Task \cup {None}],
              disturbed' \in [Task -> BOOLEAN], LaunchShape(t)'
  PROVE  LaunchTypes'
  BY LaunchSame, LaunchMoves, LaunchOf DEF Launch!Goto, Launch!Remember

LEMMA DirsAre == ASSUME Launch!LaunchAssumption, NEW d \in LaunchDir PROVE
  /\ [d EXCEPT !.marked = TRUE] \in LaunchDir /\ [d EXCEPT !.drift = TRUE] \in LaunchDir
  /\ \A v \in Launch!Version : [d EXCEPT !.copied = v] \in LaunchDir
  /\ \A v \in Launch!Version, w \in Nat : [d EXCEPT !.release = v, !.created = w] \in LaunchDir
  /\ \A n \in Number : [d EXCEPT !.kind = "prune", !.n = n] \in LaunchDir
  /\ [d EXCEPT !.kind = "context", !.n = 0] \in LaunchDir
  BY NoCallIs DEF LaunchDir

LEMMA Drawn == ASSUME Launch!LaunchAssumption, NEW kind, NEW i, Launch!Free(kind, i) # {} PROVE
  /\ Launch!Suffix(kind, i) \in Number \ {0}
  /\ \A d \in dirs : <<d.kind, d.id, d.n>> # <<kind, i, Launch!Suffix(kind, i)>>
  <1>1. Launch!Suffix(kind, i) \in Launch!Free(kind, i)
    BY DEF Launch!Suffix
  <1>2. QED BY <1>1 DEF Launch!Free, Number, Launch!LaunchAssumption

LEMMA DirectoryIs == ASSUME Launch!LaunchAssumption, NEW i \in Launch!Id, NEW n \in Number
  PROVE Launch!Directory("stage", i, n) \in LaunchDir
  BY DEF Launch!Directory, LaunchDir

(* Planning. *)
LEMMA TypesRead ==
  ASSUME Launch!LaunchAssumption, LaunchTypes, NEW t \in Task,
         Launch!Capture(t) \/ Launch!ReadConfig(t) \/ Launch!ReadLock(t) \/ Launch!ReadBase(t)
  PROVE  LaunchTypes'
  <1>1. Launch!Input \in Launch!Version \X Launch!Version /\ config \in Launch!Version
          /\ lock \in Launch!Version /\ projected \in BOOLEAN
    BY DEF LaunchTypes, LaunchWorld, Launch!Input
  <1>2. ASSUME NEW step \in {"capture", "config", "lock", "base"}, NEW s \in Planning,
               NEW c \in LaunchCall, Launch!Read(t, step, s, c), LaunchShape(t)'
        PROVE  LaunchTypes'
    BY <1>2, LaunchOf, LaunchGoesOn DEF Launch!Read, Launch!Silently
  <1>3. CASE Launch!Capture(t)
    <2> DEFINE c == [memo[t] EXCEPT !.input = Launch!Input]
    <2>1. c \in LaunchCall /\ c.input \in Launch!Version \X Launch!Version
      BY SMTT(30), <1>1, LaunchOf DEF LaunchCall
    <2>2. Launch!Read(t, "capture", "config", c)
      BY <1>3 DEF Launch!Capture
    <2> HIDE DEF c
    <2>3. LaunchShape(t)'
      <3>1. at'[t] = "config" /\ memo'[t] = c
        BY <2>2, LaunchAt DEF Launch!Read
      <3>2. QED BY <2>1, <3>1 DEF LaunchShape, Planning, Preparing, Staging, Pruning
    <2>4. QED BY <1>2, <2>1, <2>2, <2>3 DEF Planning
  <1>4. CASE Launch!ReadConfig(t)
    <2> DEFINE c == [memo[t] EXCEPT !.config = config]
    <2>1. c \in LaunchCall /\ c.input = memo[t].input /\ c.config = config
      BY SMTT(30), <1>1, LaunchOf DEF LaunchCall
    <2>2. Launch!Read(t, "config", "lock", c)
      BY <1>4 DEF Launch!ReadConfig
    <2> HIDE DEF c
    <2>3. LaunchShape(t)'
      <3>1. at[t] = "config" /\ at'[t] = "lock" /\ memo'[t] = c
        BY <2>2, LaunchAt DEF Launch!Read
      <3>2. QED BY <1>1, <2>1, <3>1, LaunchOf DEF LaunchShape, Planning, Preparing, Staging, Pruning
    <2>4. QED BY <1>2, <2>1, <2>2, <2>3 DEF Planning
  <1>5. CASE Launch!ReadLock(t)
    <2> DEFINE c == [memo[t] EXCEPT !.lock = lock]
    <2>1. c \in LaunchCall /\ c.input = memo[t].input /\ c.config = memo[t].config /\ c.lock = lock
      BY <1>1, LaunchOf DEF LaunchCall
    <2>2. Launch!Read(t, "lock", "base", c)
      BY <1>5 DEF Launch!ReadLock
    <2> HIDE DEF c
    <2>3. LaunchShape(t)'
      <3>1. at[t] = "lock" /\ at'[t] = "base" /\ memo'[t] = c
        BY <2>2, LaunchAt DEF Launch!Read
      <3>2. QED BY <1>1, <2>1, <3>1, LaunchOf DEF LaunchShape, Planning, Preparing, Staging, Pruning
    <2>4. QED BY <1>2, <2>1, <2>2, <2>3 DEF Planning
  <1>6. CASE Launch!ReadBase(t)
    <2> DEFINE c == [memo[t] EXCEPT !.current = projected]
    <2>1. c \in LaunchCall /\ c.input = memo[t].input /\ c.config = memo[t].config
            /\ c.lock = memo[t].lock
      BY <1>1, LaunchOf DEF LaunchCall
    <2>2. Launch!Read(t, "base", "compare", c)
      BY <1>6 DEF Launch!ReadBase
    <2> HIDE DEF c
    <2>3. LaunchShape(t)'
      <3>1. at[t] = "base" /\ at'[t] = "compare" /\ memo'[t] = c
        BY <2>2, LaunchAt DEF Launch!Read
      <3>2. QED BY <1>1, <2>1, <3>1, LaunchOf DEF LaunchShape, Planning, Preparing, Staging, Pruning
    <2>4. QED BY <1>2, <2>1, <2>2, <2>3 DEF Planning
  <1>7. QED BY <1>3, <1>4, <1>5, <1>6

LEMMA TypesCompare ==
  ASSUME Launch!LaunchAssumption, LaunchTypes, NEW t \in Task, Launch!Compare(t) PROVE LaunchTypes'
  <1>1. LaunchWorld' /\ dirs' \subseteq LaunchDir
    BY LaunchSame, LaunchOf DEF Launch!Compare
  <1>2. at[t] = "compare" /\ UNCHANGED <<Launch!Others, dirs>>
    BY DEF Launch!Compare
  <1>3. CASE Launch!Stable(t) /\ Launch!Goto(t, "plan") /\ seen' = [seen EXCEPT ![t] = {}]
          /\ UNCHANGED <<memo, owner, disturbed>>
    <2>1. at'[t] = "plan" /\ memo'[t] = memo[t]
      BY <1>3 DEF Launch!Goto, LaunchTypes
    <2>2. LaunchShape(t)'
      BY <1>2, <2>1, LaunchOf DEF LaunchShape, Planning, Preparing, Staging, Pruning
    <2>3. memo' = [memo EXCEPT ![t] = memo[t]] /\ seen' = [u \in Task |-> seen'[u]]
      BY <1>3, LaunchOf
    <2>4. QED BY <1>1, <1>3, <2>2, <2>3, LaunchMoves, LaunchOf DEF Launch!Goto, Planning
  <1>4. CASE memo[t].tries + 1 < Launch!MaxAttempts /\ Launch!Goto(t, "capture")
             /\ Launch!Remember(t, [Launch!Idle EXCEPT !.release = memo[t].release,
                !.tries = memo[t].tries + 1])
             /\ Launch!Silently /\ UNCHANGED owner
    <2> DEFINE c == [Launch!Idle EXCEPT !.release = memo[t].release, !.tries = memo[t].tries + 1]
    <2>1. memo[t].release \in Launch!Version /\ memo[t].tries \in Attempt
      BY LaunchOf DEF LaunchCall
    <2>2. memo[t].tries + 1 \in Attempt
      BY <1>4, <2>1 DEF Attempt, Launch!MaxAttempts
    <2>3. c \in LaunchCall
      BY <2>1, <2>2, NoCallIs DEF LaunchCall
    <2> HIDE DEF c
    <2>4. Launch!Goto(t, "capture") /\ Launch!Remember(t, c)
            /\ UNCHANGED <<Launch!Others, seen, disturbed, dirs, owner>>
      BY <1>2, <1>4 DEF Launch!Silently, c
    <2>5. LaunchShape(t)'
      <3>1. at'[t] = "capture" /\ memo'[t] = c
        BY <2>4, LaunchAt
      <3>2. QED BY <3>1 DEF LaunchShape, Planning, Preparing, Staging, Pruning
    <2>6. QED BY <1>1, <2>3, <2>4, <2>5, LaunchGoesOn, LaunchOf
  <1>5. CASE Launch!Return(t, "changed")
    BY <1>1, <1>5, LaunchReturns
  <1>6. QED BY <1>3, <1>4, <1>5 DEF Launch!Compare

LEMMA TypesPlan ==
  ASSUME Launch!LaunchAssumption, LaunchTypes, NEW t \in Task,
         Launch!Plan(t) \/ Launch!Unsupported(t)
  PROVE  LaunchTypes'
  <1>1. LaunchWorld' /\ dirs' \subseteq LaunchDir /\ at[t] = "plan"
          /\ UNCHANGED <<Launch!Others, dirs>>
    BY LaunchSame, LaunchOf DEF Launch!Plan, Launch!Unsupported
  <1>2. ASSUME NEW what, Launch!Return(t, what) PROVE LaunchTypes'
    BY <1>1, <1>2, LaunchReturns
  <1> DEFINE i == [config |-> memo[t].config, lock |-> memo[t].lock, skill |-> skill]
             c == [Launch!Idle EXCEPT !.release = memo[t].release, !.input = memo[t].input,
                  !.id = i]
  <1>3. ASSUME Launch!Goto(t, "acquire"), Launch!Remember(t, c), Launch!Silently, UNCHANGED owner
        PROVE  LaunchTypes'
    <2>1. i \in Launch!Id
      BY <1>1, LaunchOf DEF Launch!Id, LaunchShape, LaunchTypes, LaunchWorld
    <2>2. memo[t].release \in Launch!Version /\ memo[t].input \in Launch!Version \X Launch!Version
      BY <1>1, LaunchOf DEF LaunchShape, LaunchCall, Planning
    <2> HIDE DEF i
    <2>3. c \in LaunchCall /\ c.input \in Launch!Version \X Launch!Version /\ c.id \in Launch!Id
      BY <2>1, <2>2, NoCallIs DEF LaunchCall
    <2> HIDE DEF c
    <2>4. Launch!Goto(t, "acquire") /\ Launch!Remember(t, c)
            /\ UNCHANGED <<Launch!Others, seen, disturbed, dirs, owner>>
      BY <1>1, <1>3 DEF Launch!Silently
    <2>5. LaunchShape(t)'
      <3>1. at'[t] = "acquire" /\ memo'[t] = c
        BY <2>4, LaunchAt
      <3>2. QED BY <2>3, <3>1 DEF LaunchShape, Planning, Preparing, Staging, Pruning
    <2>6. QED BY <1>1, <2>3, <2>4, <2>5, LaunchGoesOn, LaunchOf DEF Preparing
  <1>4. QED BY <1>2, <1>3 DEF Launch!Plan, Launch!Unsupported

(* A step that leaves what the call remembers. *)
LEMMA TypesStay ==
  ASSUME LaunchTypes, NEW t \in Task, NEW s \in Staging, Launch!Goto(t, s),
         UNCHANGED <<Launch!Others,
  seen, memo, owner, disturbed>>,
         dirs' \subseteq LaunchDir, at[t] \in Preparing
  PROVE  LaunchTypes'
  <1>1. at'[t] = s /\ memo'[t] = memo[t] /\ memo' = [memo EXCEPT ![t] = memo[t]]
    BY LaunchOf DEF Launch!Goto, LaunchTypes
  <1>2. LaunchShape(t)'
    BY <1>1, LaunchOf DEF LaunchShape, Planning, Preparing, Staging, Pruning
  <1>3. s \in Preparing
    BY DEF Preparing
  <1>4. QED BY <1>1, <1>2, <1>3, LaunchGoesOn, LaunchOf DEF Launch!Remember

LEMMA TypesAbandon ==
  ASSUME Launch!LaunchAssumption, LaunchTypes, NEW t \in Task, NEW what, Launch!Abandon(t, what)
  PROVE  LaunchTypes'
  <1>1. LaunchWorld' /\ dirs' \subseteq LaunchDir
    BY LaunchSame, LaunchOf DEF Launch!Abandon
  <1>2. QED BY <1>1, LaunchReturns DEF Launch!Abandon

LEMMA TypesLock ==
  ASSUME Launch!LaunchAssumption, LaunchTypes, NEW t \in Task, NEW i \in Launch!Id,
         Launch!Acquire(t, i) \/ Launch!TimeOut(t, i)
  PROVE  LaunchTypes'
  <1>1. LaunchWorld' /\ dirs' \subseteq LaunchDir /\ UNCHANGED <<Launch!Others, dirs>>
    BY LaunchSame, LaunchOf DEF Launch!Acquire, Launch!TimeOut
  <1>2. CASE Launch!TimeOut(t, i)
    BY <1>1, <1>2, LaunchReturns DEF Launch!TimeOut
  <1>3. CASE Launch!Acquire(t, i)
    <2> DEFINE c == [memo[t] EXCEPT !.id = i]
    <2>1. c \in LaunchCall /\ c.id = i /\ c.input = memo[t].input
            /\ c.candidates = memo[t].candidates
          /\ c.cutoff = memo[t].cutoff
      <3>1. memo[t] \in LaunchCall /\ i \in Launch!Id \cup {None}
        BY LaunchOf
      <3>2. c \in LaunchCall
        BY <3>1 DEF LaunchCall
      <3>3. QED BY <3>1, <3>2 DEF LaunchCall
    <2>2. PICK s \in {"recover", "quarantine"} :
            Launch!Goto(t, s) /\ ((at[t] = "acquire" /\ s = "recover") \/ (at[t] = "next"
                 /\ s = "quarantine"))
      BY <1>3 DEF Launch!Acquire
    <2>3. Launch!Remember(t, c) /\ owner' = [owner EXCEPT ![i] = t] /\ UNCHANGED <<seen, disturbed>>
      BY <1>3 DEF Launch!Acquire, Launch!Silently
    <2> HIDE DEF c
    <2>4. LaunchShape(t)'
      <3>1. at'[t] = s /\ memo'[t] = c
        BY <2>2, <2>3, LaunchAt
      <3>2. QED BY <2>1, <2>2, <3>1, LaunchOf DEF LaunchShape, Planning, Preparing, Staging, Pruning
    <2>5. owner' \in [Launch!Id -> Task \cup {None}]
      BY <2>3, LaunchOf
    <2>6. QED BY <1>1, <2>1, <2>2, <2>3, <2>4, <2>5, LaunchGoesOn, LaunchOf DEF Preparing, Pruning
  <1>4. QED BY <1>2, <1>3

LEMMA TypesStage ==
  ASSUME Launch!LaunchAssumption, LaunchTypes, NEW t \in Task,
         Launch!Recover(t) \/ Launch!MakeStage(t)
  PROVE  LaunchTypes'
  <1>1. LaunchWorld' /\ UNCHANGED <<Launch!Others, seen, owner, disturbed>>
    BY LaunchSame DEF Launch!Recover, Launch!MakeStage, Launch!Silently
  <1>2. CASE Launch!Recover(t)
    <2> DEFINE there == Launch!At(memo[t].id) # {}
               c == [memo[t] EXCEPT !.found = there]
    <2>1. there \in BOOLEAN
      OBVIOUS
    <2>2. Launch!Remember(t, c) /\ at[t] = "recover" /\ dirs' \subseteq dirs
      BY <1>2 DEF Launch!Recover
    <2>3. PICK s \in {"sources", "mkdir"} : Launch!Goto(t, s)
      BY <1>2 DEF Launch!Recover
    <2> HIDE DEF there
    <2>4. c \in LaunchCall /\ c.id = memo[t].id /\ c.input = memo[t].input
      BY SMTT(30), <2>1, LaunchOf DEF LaunchCall
    <2> HIDE DEF c
    <2>5. LaunchShape(t)'
      <3>1. at'[t] = s /\ memo'[t] = c
        BY <2>2, <2>3, LaunchAt
      <3>2. QED BY <2>2, <2>4, <3>1, LaunchOf DEF LaunchShape, Planning, Preparing, Staging, Pruning
    <2>6. QED BY <1>1, <2>2, <2>3, <2>4, <2>5, LaunchGoesOn, LaunchOf DEF Preparing, Staging
  <1>3. CASE Launch!MakeStage(t)
    <2> DEFINE n == Launch!Suffix("stage", memo[t].id)
               c == [memo[t] EXCEPT !.n = n]
    <2>1. at[t] = "mkdir" /\ dirs' = dirs \cup {Launch!Directory("stage", memo[t].id, n)}
            /\ Launch!Remember(t, c) /\ Launch!Goto(t, "mark")
          /\ Launch!Free("stage", memo[t].id) # {}
      BY <1>3 DEF Launch!MakeStage
    <2>2. n \in Number /\ memo[t].id \in Launch!Id
      BY <2>1, Drawn, LaunchOf DEF LaunchShape, Preparing, Staging
    <2> HIDE DEF n
    <2>3. c \in LaunchCall /\ c.id = memo[t].id /\ c.input = memo[t].input
      BY ZenonT(40), <2>2, LaunchOf DEF LaunchCall
    <2>4. dirs' \subseteq LaunchDir
      BY <2>1, <2>2, DirectoryIs, LaunchOf
    <2> HIDE DEF c
    <2>5. LaunchShape(t)'
      <3>1. at'[t] = "mark" /\ memo'[t] = c
        BY <2>1, LaunchAt
      <3>2. QED BY <2>1, <2>3, <3>1, LaunchOf DEF LaunchShape, Planning, Preparing, Staging, Pruning
    <2>6. QED BY <1>1, <2>1, <2>3, <2>4, <2>5, LaunchGoesOn, LaunchOf DEF Preparing, Staging
  <1>4. QED BY <1>2, <1>3

LEMMA TypesRewrite ==
  ASSUME LaunchTypes, NEW t \in Task, NEW step \in Staging, NEW s \in Staging,
         NEW d \in LaunchDir, Launch!Rewrite(t, step, s, d)
  PROVE  LaunchTypes'
  <1>1. dirs' \subseteq LaunchDir
    BY LaunchOf DEF Launch!Rewrite
  <1>2. QED BY <1>1, TypesStay DEF Launch!Rewrite, Launch!Silently, Preparing

LEMMA TypesWrite ==
  ASSUME Launch!LaunchAssumption, LaunchTypes, NEW t \in Task,
         Launch!MarkStage(t) \/ Launch!Copy(t) \/ Launch!Seal(t)
  PROVE  LaunchTypes'
  <1>1. \A d \in Launch!Stage(t) : d \in LaunchDir
    BY LaunchOf DEF Launch!Stage, Launch!Own
  <1>2. skill \in Launch!Version /\ clock \in Nat /\ memo[t].release \in Launch!Version
    BY LaunchOf DEF LaunchTypes, LaunchWorld, LaunchCall
  <1>3. CASE Launch!MarkStage(t)
    <2>1. PICK d \in Launch!Stage(t) : Launch!Rewrite(t, "mark", "render",
            [d EXCEPT !.marked = TRUE])
      BY <1>3 DEF Launch!MarkStage
    <2>2. [d EXCEPT !.marked = TRUE] \in LaunchDir
      BY <1>1, DirsAre
    <2>3. QED BY <2>1, <2>2, TypesRewrite DEF Staging
  <1>4. CASE Launch!Copy(t)
    <2>1. PICK d \in Launch!Stage(t) : Launch!Rewrite(t, "render", "seal",
            [d EXCEPT !.copied = skill])
      BY <1>4 DEF Launch!Copy
    <2>2. [d EXCEPT !.copied = skill] \in LaunchDir
      BY <1>1, <1>2, DirsAre
    <2>3. QED BY <2>1, <2>2, TypesRewrite DEF Staging
  <1>5. CASE Launch!Seal(t)
    <2>1. PICK d \in Launch!Stage(t) :
            \/ Launch!Rewrite(t, "seal", "sources", [d EXCEPT !.release = memo[t].release,
               !.created = clock])
            \/ Launch!Abandon(t, "changed")
      BY <1>5 DEF Launch!Seal
    <2>2. [d EXCEPT !.release = memo[t].release, !.created = clock] \in LaunchDir
      BY <1>1, <1>2, DirsAre
    <2>3. QED BY <2>1, <2>2, TypesRewrite, TypesAbandon DEF Staging
  <1>6. QED BY <1>3, <1>4, <1>5

LEMMA TypesCheck ==
  ASSUME Launch!LaunchAssumption, LaunchTypes, NEW t \in Task,
         Launch!RecheckSources(t) \/ Launch!RecheckProjection(t) \/ Launch!RecheckInput(t)
              \/ Launch!Reuse(t) \/ Launch!Publish(t)
  PROVE  LaunchTypes'
  <1>1. ASSUME NEW step \in Staging, NEW holds, NEW s \in Staging, NEW what, Launch!Check(t, step,
               holds, s, what)
        PROVE  LaunchTypes'
    <2>1. CASE holds
      <3>1. Launch!Goto(t, s) /\ UNCHANGED <<Launch!Others, seen, memo, owner, disturbed, dirs>>
              /\ at[t] \in Preparing
        BY <1>1, <2>1 DEF Launch!Check, Launch!Silently, Preparing
      <3>2. QED BY <3>1, TypesStay, LaunchOf
    <2>2. CASE ~ holds
      BY <1>1, <2>2, TypesAbandon DEF Launch!Check
    <2>3. QED BY <2>1, <2>2
  <1>2. CASE Launch!RecheckSources(t)
    BY <1>1, <1>2 DEF Launch!RecheckSources, Staging
  <1>3. CASE Launch!RecheckProjection(t)
    BY <1>1, <1>3 DEF Launch!RecheckProjection, Staging
  <1>4. CASE Launch!RecheckInput(t)
    <2>1. PICK s \in {"reuse", "rename"} : Launch!Check(t, "input", Launch!Stable(t), s, "changed")
      BY <1>4 DEF Launch!RecheckInput
    <2>2. QED BY <1>1, <2>1 DEF Staging
  <1>5. CASE Launch!Reuse(t)
    BY <1>5, TypesAbandon DEF Launch!Reuse
  <1>6. CASE Launch!Publish(t)
    <2>1. ASSUME NEW what, Launch!Abandon(t, what) PROVE LaunchTypes'
      BY <2>1, TypesAbandon
    <2>2. CASE dirs' = (dirs \ Launch!Stage(t)) \cup {[d EXCEPT !.kind = "context", !.n = 0] :
            d \in Launch!Stage(t)}
               /\ Launch!Return(t, "ok") /\ UNCHANGED Launch!Others
      <3>1. dirs' \subseteq LaunchDir
        BY <2>2, DirsAre, LaunchOf DEF Launch!Stage, Launch!Own
      <3>2. QED BY <2>2, <3>1, LaunchReturns, LaunchSame
    <2>3. QED BY <1>6, <2>1, <2>2 DEF Launch!Publish
  <1>7. QED BY <1>2, <1>3, <1>4, <1>5, <1>6

LEMMA Renumbered ==
  ASSUME NEW c \in LaunchCall, NEW n \in Number
  PROVE  [c EXCEPT !.n = n] \in LaunchCall
  BY DEF LaunchCall

(* Pruning. *)
LEMMA TypesPrune ==
  ASSUME Launch!LaunchAssumption, LaunchTypes, NEW t \in Task,
         Launch!Scan(t) \/ Launch!Inspect(t) \/ Launch!Choose(t) \/ Launch!EndPrune(t)
  PROVE  LaunchTypes'
  <1>1. LaunchWorld' /\ dirs' \subseteq LaunchDir /\ UNCHANGED <<Launch!Others, dirs>>
    BY LaunchSame, LaunchOf DEF Launch!Scan, Launch!Inspect, Launch!Choose, Launch!EndPrune
  <1>2. ASSUME NEW what, Launch!Return(t, what) PROVE LaunchTypes'
    BY <1>1, <1>2, LaunchReturns
  <1>3. CASE Launch!Scan(t)
    <2> DEFINE P == {Launch!PathOf(d) : d \in dirs}
               c == [memo[t] EXCEPT !.todo = P]
    <2>1. P \in SUBSET Path
      <3>1. ASSUME NEW d \in dirs PROVE Launch!PathOf(d) \in Path
        BY LaunchOf DEF LaunchDir, Launch!PathOf, Path
      <3>2. QED BY <3>1
    <2> HIDE DEF P
    <2>2. memo[t] \in LaunchCall
      BY LaunchOf
    <2>3. c \in LaunchCall /\ c.input = memo[t].input /\ c.candidates = memo[t].candidates
      BY <2>1, <2>2 DEF LaunchCall
    <2>4. CASE Launch!Remember(t, c) /\ Launch!Goto(t, "inspect") /\ Launch!Silently
            /\ UNCHANGED owner
      <3> HIDE DEF c
      <3>1. LaunchShape(t)'
        <4>1. at[t] = "scan" /\ at'[t] = "inspect" /\ memo'[t] = c
          BY <1>3, <2>4, LaunchAt DEF Launch!Scan
        <4>2. memo[t].input = None /\ memo[t].candidates \in SUBSET (Launch!Id \X Nat)
          BY <4>1, LaunchOf DEF LaunchShape, Pruning
        <4>3. QED BY <2>3, <4>1, <4>2 DEF LaunchShape, Planning, Preparing, Staging, Pruning
      <3>2. QED BY <1>1, <2>3, <2>4, <3>1, LaunchGoesOn, LaunchOf DEF Launch!Silently, Pruning
    <2>5. QED BY <1>2, <1>3, <2>4 DEF Launch!Scan, P
  <1>4. CASE Launch!Inspect(t)
    <2> DEFINE name == CHOOSE x \in memo[t].todo : TRUE
               found == {d \in dirs : Launch!PathOf(d) = name /\ Launch!Verified(d)}
               D == memo[t].todo \ {name}
               S == memo[t].candidates \cup {<<d.id, d.created>> : d \in found}
               c == [memo[t] EXCEPT !.todo = D, !.candidates = S]
    <2>1. at[t] = "inspect" /\ Launch!Remember(t, c) /\ UNCHANGED <<at, seen, disturbed, owner>>
      BY <1>4 DEF Launch!Inspect, Launch!Silently
    <2>2. memo[t] \in LaunchCall /\ memo[t].candidates \in SUBSET (Launch!Id \X Nat)
            /\ memo[t].input = None
          /\ memo[t].todo \in SUBSET Path
      BY <2>1, LaunchOf DEF LaunchShape, LaunchCall, Pruning
    <2>3. \A d \in dirs : Launch!Verified(d) => <<d.id, d.created>> \in Launch!Id \X Nat
      BY LaunchOf DEF Launch!Verified, Launch!Sealed, LaunchDir
    <2>4. S \in SUBSET (Launch!Id \X Nat) /\ D \in SUBSET Path
      BY <2>2, <2>3
    <2> HIDE DEF S, D
    <2>5. c \in LaunchCall /\ c.candidates = S /\ c.input = memo[t].input
      BY <2>2, <2>4 DEF LaunchCall
    <2> HIDE DEF c
    <2>6. Launch!Goto(t, "inspect")
      BY <2>1 DEF Launch!Goto, LaunchTypes
    <2>7. LaunchShape(t)'
      <3>1. at'[t] = "inspect" /\ memo'[t] = c
        BY <2>1, <2>6, LaunchAt
      <3>2. QED BY <2>2, <2>4, <2>5, <3>1 DEF LaunchShape, Planning, Preparing, Staging, Pruning
    <2>8. QED BY <1>1, <2>1, <2>5, <2>6, <2>7, LaunchGoesOn, LaunchOf DEF Pruning
  <1>5. CASE Launch!Choose(t)
    <2> DEFINE k == clock - Age
               S == {x[1] : x \in {y \in memo[t].candidates : y[2] <= k}}
               c == [memo[t] EXCEPT !.cutoff = k, !.candidates = S]
    <2>1. at[t] = "inspect" /\ Launch!Remember(t, c) /\ Launch!Goto(t, "next")
            /\ UNCHANGED <<seen, disturbed, owner>>
      BY <1>5 DEF Launch!Choose, Launch!Silently
    <2>2. memo[t] \in LaunchCall /\ memo[t].candidates \in SUBSET (Launch!Id \X Nat)
            /\ memo[t].input = None
      BY <2>1, LaunchOf DEF LaunchShape, Pruning
    <2>3. k \in Int
      BY DEF LaunchTypes, LaunchWorld, Launch!LaunchAssumption
    <2> HIDE DEF k
    <2>4. S \in SUBSET Launch!Id
      BY <2>2
    <2> HIDE DEF S
    <2>5. c \in LaunchCall /\ c.candidates = S /\ c.input = memo[t].input /\ c.cutoff = k
      BY <2>2, <2>3, <2>4 DEF LaunchCall
    <2> HIDE DEF c
    <2>6. LaunchShape(t)'
      <3>1. at'[t] = "next" /\ memo'[t] = c
        BY <2>1, LaunchAt
      <3>2. QED BY <2>2, <2>3, <2>4, <2>5, <3>1 DEF LaunchShape, Planning, Preparing, Staging,
                                                    Pruning
    <2>7. QED BY <1>1, <2>1, <2>5, <2>6, LaunchGoesOn, LaunchOf DEF Pruning
  <1>6. CASE Launch!EndPrune(t)
    BY <1>2, <1>6 DEF Launch!EndPrune
  <1>7. QED BY <1>3, <1>4, <1>5, <1>6

LEMMA TypesMove ==
  ASSUME Launch!LaunchAssumption, LaunchTypes, NEW t \in Task,
         Launch!MoveAside(t) \/ Launch!Empty(t)
  PROVE  LaunchTypes'
  <1>1. LaunchWorld' /\ UNCHANGED Launch!Others
    BY LaunchSame DEF Launch!MoveAside, Launch!Empty
  <1>2. memo[t] \in LaunchCall /\ memo[t].id \in Launch!Id /\ memo[t].input = None
          /\ memo[t].candidates \in SUBSET Launch!Id
        /\ memo[t].cutoff \in Int /\ at[t] \in {"quarantine", "empty"}
    BY LaunchOf DEF LaunchShape, Pruning, Launch!MoveAside, Launch!Empty
  <1>3. CASE Launch!Return(t, "drift") /\ UNCHANGED dirs
    BY <1>1, <1>3, LaunchReturns, LaunchOf
  <1> DEFINE n == Launch!Suffix("prune", memo[t].id)
             c == [memo[t] EXCEPT !.n = n]
  <1>4. CASE /\ Launch!Free("prune", memo[t].id) # {}
             /\ dirs' = (dirs \ Launch!At(memo[t].id)) \cup {[d EXCEPT !.kind = "prune", !.n = n] :
                d \in Launch!At(memo[t].id)}
             /\ Launch!Remember(t, c) /\ Launch!Goto(t, "empty") /\ Launch!DisturbBut(t)
                /\ UNCHANGED <<owner, seen>>
    <2>1. n \in Number
      BY <1>4, Drawn
    <2> HIDE DEF n
    <2>2. c \in LaunchCall /\ c.id = memo[t].id /\ c.input = None
            /\ c.candidates = memo[t].candidates /\ c.cutoff = memo[t].cutoff
      <3>1. memo[t] \in LaunchCall
        BY LaunchOf
      <3>2. c \in LaunchCall
        BY <2>1, <3>1, Renumbered
      <3>3. c.id = memo[t].id /\ c.input = memo[t].input /\ c.candidates = memo[t].candidates
              /\ c.cutoff = memo[t].cutoff
        BY <3>1 DEF LaunchCall
      <3> HIDE DEF c
      <3>4. QED BY <1>2, <3>2, <3>3
    <2>3. dirs' \subseteq LaunchDir
      <3>1. \A d \in Launch!At(memo[t].id) : d \in LaunchDir
        BY LaunchOf DEF Launch!At, Launch!Contexts
      <3>2. \A d \in Launch!At(memo[t].id) : [d EXCEPT !.kind = "prune", !.n = n] \in LaunchDir
        BY <2>1, <3>1, DirsAre
      <3>3. QED BY <1>4, <3>2, LaunchOf DEF n
    <2>4. disturbed' \in [Task -> BOOLEAN]
      BY <1>4 DEF Launch!DisturbBut
    <2> HIDE DEF c
    <2>5. LaunchShape(t)'
      <3>1. at'[t] = "empty" /\ memo'[t] = c
        BY <1>4, LaunchAt
      <3>2. QED BY <1>2, <2>2, <3>1 DEF LaunchShape, Planning, Preparing, Staging, Pruning
    <2>6. QED BY <1>1, <1>4, <2>2, <2>3, <2>4, <2>5, LaunchGoesOn, LaunchOf DEF Pruning
  <1>5. CASE Launch!Empty(t)
    <2> DEFINE S == memo[t].candidates \ {memo[t].id}
               e == [memo[t] EXCEPT !.candidates = S, !.id = None, !.n = 0]
    <2>1. Launch!Remember(t, e) /\ Launch!Goto(t, "next") /\ UNCHANGED <<disturbed, seen>>
            /\ dirs' \subseteq dirs
          /\ owner' = [owner EXCEPT ![memo[t].id] = None]
      BY <1>5 DEF Launch!Empty, Launch!Silently
    <2>2. S \in SUBSET Launch!Id
      BY <1>2
    <2> HIDE DEF S
    <2>3. e \in LaunchCall /\ e.input = None /\ e.candidates = S /\ e.cutoff = memo[t].cutoff
      BY ZenonT(40), <1>2, <2>2, NoCallIs DEF LaunchCall
    <2> HIDE DEF e
    <2>4. LaunchShape(t)'
      <3>1. at'[t] = "next" /\ memo'[t] = e
        BY <2>1, LaunchAt
      <3>2. QED BY <1>2, <2>2, <2>3, <3>1 DEF LaunchShape, Planning, Preparing, Staging, Pruning
    <2>5. dirs' \subseteq LaunchDir /\ owner' \in [Launch!Id -> Task \cup {None}]
      BY <2>1, LaunchOf
    <2>6. QED BY <1>1, <2>1, <2>3, <2>4, <2>5, LaunchGoesOn, LaunchOf DEF Pruning
  <1>6. QED BY <1>3, <1>4, <1>5 DEF Launch!MoveAside

(* Whatever else happens. *)
LEMMA TypesBegin ==
  ASSUME Launch!LaunchAssumption, LaunchTypes, NEW t \in Task,
         Launch!StartPrepare(t) \/ Launch!StartPrune(t) \/ Launch!Crash(t)
  PROVE  LaunchTypes'
  <1>1. Launch!Event => events' \in Number
    BY DEF Launch!Event, LaunchTypes, LaunchWorld, Number, Launch!LaunchAssumption
  <1>2. CASE Launch!Crash(t)
    <2>1. LaunchWorld'
      BY <1>1, <1>2 DEF Launch!Crash, LaunchTypes, LaunchWorld, Launch!project
    <2>2. QED BY <1>2, <2>1, LaunchReturns, LaunchOf DEF Launch!Crash
  <1>3. CASE Launch!StartPrepare(t) \/ Launch!StartPrune(t)
    <2> DEFINE c == [Launch!Idle EXCEPT !.release = release]
    <2>1. PICK s \in {"capture", "scan"} : Launch!Begin(t, s)
      BY <1>3 DEF Launch!StartPrepare, Launch!StartPrune
    <2>2. LaunchWorld' /\ UNCHANGED <<dirs, owner, disturbed>>
      BY <1>1, <2>1 DEF Launch!Begin, LaunchTypes, LaunchWorld, Launch!project
    <2>3. c \in LaunchCall /\ c.input = None /\ c.candidates = {}
      BY NoCallIs DEF LaunchCall, LaunchTypes, LaunchWorld, Launch!Idle
    <2>4. Launch!Goto(t, s) /\ Launch!Remember(t, c) /\ seen' = [u \in Task |-> seen'[u]]
      BY <2>1, LaunchOf DEF Launch!Begin
    <2> HIDE DEF c
    <2>5. LaunchShape(t)'
      <3>1. at'[t] = s /\ memo'[t] = c
        BY <2>4, LaunchAt
      <3>2. QED BY <2>3, <3>1 DEF LaunchShape, Planning, Preparing, Staging, Pruning
    <2>6. QED BY <2>2, <2>3, <2>4, <2>5, LaunchMoves, LaunchOf DEF Launch!Goto, Launch!Remember,
      Pruning
  <1>4. QED BY <1>2, <1>3

LEMMA TypesOutside ==
  ASSUME Launch!LaunchAssumption, LaunchTypes, Launch!Environment \/ UNCHANGED Launch!vars
  PROVE  LaunchTypes'
  <1>1. UNCHANGED <<at, memo, owner>>
    BY DEF Launch!Environment, Launch!CommitConfig, Launch!CommitLock, Launch!Write,
           Launch!EditSkill,
           Launch!Upgrade, Launch!Tick, Launch!Touch, Launch!Edit, Launch!Settle, Launch!vars
  <1>2. disturbed' \in [Task -> BOOLEAN]
    BY DEF Launch!Environment, Launch!CommitConfig, Launch!CommitLock, Launch!Write,
           Launch!EditSkill,
           Launch!Upgrade, Launch!Tick, Launch!Touch, Launch!Edit, Launch!Settle, Launch!vars,
           Launch!DisturbBut, Launch!Silently, LaunchTypes
  <1>3. seen' = [u \in Task |-> seen'[u]]
    BY DEF Launch!Environment, Launch!CommitConfig, Launch!CommitLock, Launch!Write,
           Launch!EditSkill,
           Launch!Upgrade, Launch!Tick, Launch!Touch, Launch!Edit, Launch!Settle, Launch!vars,
           Launch!Seen, Launch!Silently, LaunchTypes
  <1>4. dirs' \subseteq LaunchDir
    <2>1. ASSUME NEW d \in dirs, Launch!Touch(d) PROVE dirs' \subseteq LaunchDir
      BY <2>1, DirsAre DEF Launch!Touch, LaunchTypes
    <2>2. QED BY <2>1 DEF Launch!Environment, Launch!CommitConfig, Launch!CommitLock, Launch!Write,
                          Launch!EditSkill, Launch!Upgrade, Launch!Tick, Launch!Edit, Launch!Settle,
                          Launch!vars,
                          LaunchTypes
  <1>5. LaunchWorld'
    <2>1. Launch!Event => events' \in Number
      BY DEF Launch!Event, LaunchTypes, LaunchWorld, Number, Launch!LaunchAssumption
    <2>2. 1 - config \in Launch!Version /\ 1 - lock \in Launch!Version
            /\ 1 - skill \in Launch!Version /\ 1 \in Launch!Version
      BY DEF LaunchTypes, LaunchWorld, Launch!Version
    <2>3. clock + 1 \in Nat
      BY DEF LaunchTypes, LaunchWorld
    <2>4. CASE Launch!Tick \/ UNCHANGED Launch!vars
      BY <2>3, <2>4 DEF Launch!Tick, LaunchTypes, LaunchWorld, Launch!vars, Launch!project,
                        Launch!bounds
    <2>5. CASE Launch!CommitConfig \/ Launch!EditSkill \/ Launch!Upgrade
            \/ \E d \in dirs : Launch!Touch(d)
      BY <2>1, <2>2, <2>5 DEF Launch!CommitConfig, Launch!EditSkill, Launch!Upgrade, Launch!Touch,
                              Launch!Edit, LaunchTypes, LaunchWorld, Launch!project
    <2>6. CASE Launch!CommitLock \/ Launch!Write
      BY <2>2, <2>6 DEF Launch!CommitLock, Launch!Write, Launch!Settle, LaunchTypes, LaunchWorld,
                        Launch!bounds
    <2>7. QED BY <2>4, <2>5, <2>6 DEF Launch!Environment
  <1>6. \A t \in Task : LaunchShape(t)'
    BY <1>1 DEF LaunchTypes, LaunchShape
  <1>7. QED BY <1>1, <1>2, <1>3, <1>4, <1>5, <1>6 DEF LaunchTypes

LEMMA TypesKept ==
  ASSUME Launch!LaunchAssumption, LaunchTypes, [Launch!Next]_(Launch!vars)
  PROVE  LaunchTypes'
  BY TypesRead, TypesCompare, TypesPlan, TypesLock, TypesStage, TypesWrite, TypesCheck, TypesPrune,
  TypesMove,
     TypesBegin, TypesOutside DEF Launch!Next, Launch!Step, Launch!PrepareStep, Launch!PruneStep,
                                  Launch!LockStep

Staged == {"mark", "render", "seal", "sources", "projection", "input", "rename"}
Locked == {"recover", "quarantine", "empty"} \cup Staging
HasStage(t) == at[t] \in Staged /\ ~ memo[t].found

(* Whom a directory out of sight belongs to before anybody died.            *)
Claims(t, d) ==
  /\ d.kind = "stage" => HasStage(t)
  /\ d.kind = "prune" => at[t] = "empty"

(* The directories and the locks.                                           *)
ContextsHold ==
  /\ \A d \in dirs : d.kind = "context" <=> d.n = 0
  /\ Launch!NamesAreUnique
  /\ \A d \in Launch!Contexts : Launch!Sealed(d) /\ d.copied = d.id.skill
  /\ ~ died => \A d \in dirs \ Launch!Contexts : \E t \in Task : owner[d.id] = t
     /\ d \in Launch!Own(t, d.kind) /\ Claims(t, d)
  /\ \A i \in Launch!Id : owner[i] # None => at[owner[i]] \in Locked /\ memo[owner[i]].id = i

(* What is in the stage of a call at each step.                             *)
Written(t, d) ==
  /\ at[t] # "mark" => d.marked
  /\ at[t] = "seal" => d.copied \in Launch!Version
  /\ at[t] \in {"sources", "projection", "input", "rename"} =>
       d.copied = memo[t].id.skill /\ d.created \in Nat /\ d.release = memo[t].release

LaunchKnows(t) ==
  /\ at[t] \in Locked => owner[memo[t].id] = t
  /\ at[t] \in {"mkdir", "mark", "render", "seal", "rename"} => ~ memo[t].found
  /\ at[t] = "reuse" => memo[t].found
  /\ at[t] \in Staging /\ memo[t].found => Launch!At(memo[t].id) # {}
  /\ HasStage(t) => Launch!Stage(t) # {} /\ \A d \in Launch!Stage(t) : Written(t, d)

ContextInv == LaunchTypes /\ ContextsHold /\ \A t \in Task : LaunchKnows(t)

LEMMA LaunchHas == ASSUME ContextInv, NEW t \in Task PROVE
  /\ LaunchTypes /\ ContextsHold /\ LaunchKnows(t) /\ Launch!NamesAreUnique
  /\ memo[t] \in LaunchCall /\ dirs \subseteq LaunchDir /\ owner \in [Launch!Id -> Task \cup {None}]
  /\ at[t] \in {"idle", "capture"} \cup Planning \cup Preparing \cup Pruning
  /\ at[t] \in Locked => memo[t].id \in Launch!Id /\ owner[memo[t].id] = t
  BY LaunchOf DEF ContextInv, ContextsHold, LaunchKnows, LaunchTypes, LaunchShape, Locked, Preparing

LEMMA StageIsOne == ASSUME ContextInv, NEW t \in Task, NEW d \in Launch!Stage(t) PROVE
  /\ Launch!Stage(t) = {d} /\ d \in dirs /\ d.kind = "stage" /\ d.id = memo[t].id /\ d.n = memo[t].n
  BY LaunchHas DEF Launch!Stage, Launch!Own, Launch!NamesAreUnique, Launch!PathOf

LEMMA ContextIsOne == ASSUME ContextInv, NEW i \in Launch!Id, NEW d \in Launch!At(i) PROVE
  /\ Launch!At(i) = {d} /\ d \in dirs /\ d.kind = "context" /\ d.id = i /\ d.n = 0
  <1>1. ASSUME NEW e \in Launch!At(i) PROVE e.n = 0 /\ e.id = i /\ e.kind = "context" /\ e \in dirs
    BY <1>1 DEF Launch!At, Launch!Contexts, ContextInv, ContextsHold
  <1>2. QED BY <1>1 DEF ContextInv, ContextsHold, Launch!NamesAreUnique, Launch!PathOf

(* What is so of another call stays so if its directories and locks do. *)
LEMMA OthersKnow ==
  ASSUME ContextInv, NEW u \in Task, at'[u] = at[u], memo'[u] = memo[u],
         \A i \in Launch!Id : owner[i] = u => owner'[i] = u,
         HasStage(u) => Launch!Stage(u)' = Launch!Stage(u),
         \A i \in Launch!Id : owner[i] = u /\ Launch!At(i) # {} => Launch!At(i)' # {}
  PROVE  LaunchKnows(u)' /\ HasStage(u)' = HasStage(u)
  <1>1. HasStage(u)' = HasStage(u) /\ \A d : Written(u, d)' = Written(u, d)
    BY DEF HasStage, Written
  <1>2. at[u] \in Staging => at[u] \in Locked
    BY DEF Locked
  <1>3. QED BY <1>1, <1>2, LaunchHas DEF LaunchKnows

(* A step that leaves the directories and the locks, outside of the lock. *)
LEMMA QuietStep ==
  ASSUME Launch!LaunchAssumption, ContextInv, LaunchTypes', NEW t \in Task, UNCHANGED <<dirs, owner,
  died>>,
         \A u \in Task \ {t} : at'[u] = at[u] /\ memo'[u] = memo[u],
         at[t] \notin Locked, at'[t] \notin Locked
  PROVE  ContextInv'
  <1>1. \A u \in Task : Launch!Stage(u)' = Launch!Stage(u) \/ u = t
    BY DEF Launch!Stage, Launch!Own
  <1>2. \A i \in Launch!Id : Launch!At(i)' = Launch!At(i) /\ owner[i] # t
    <2>1. \A i : Launch!At(i)' = Launch!At(i)
      BY DEF Launch!At, Launch!Contexts
    <2>2. ASSUME NEW i \in Launch!Id, owner[i] = t PROVE FALSE
      <3>1. owner[i] # None => at[owner[i]] \in Locked
        BY LaunchHas DEF ContextsHold
      <3>2. t # None
        BY DEF Launch!LaunchAssumption
      <3>3. QED BY <2>2, <3>1, <3>2
    <2>3. QED BY <2>1, <2>2
  <1>3. ASSUME NEW u \in Task \ {t} PROVE LaunchKnows(u)' /\ HasStage(u)' = HasStage(u)
    BY <1>1, <1>2, OthersKnow
  <1>4. LaunchKnows(t)'
    BY DEF LaunchKnows, HasStage, Locked, Staged, Staging
  <1>5. ContextsHold'
    <2>1. ~ died => \A d \in dirs \ Launch!Contexts : \E u \in Task : owner[d.id] = u
            /\ d \in Launch!Own(u, d.kind)' /\ Claims(u, d)'
      <3> SUFFICES ASSUME ~ died, NEW d \in dirs \ Launch!Contexts
                   PROVE  \E u \in Task : owner[d.id] = u /\ d \in Launch!Own(u, d.kind)'
                        /\ Claims(u, d)'
        OBVIOUS
      <3>1. PICK u \in Task : owner[d.id] = u /\ d \in Launch!Own(u, d.kind) /\ Claims(u, d)
        BY DEF ContextInv, ContextsHold
      <3>2. d.id \in Launch!Id
        BY LaunchHas DEF LaunchDir
      <3>3. u # t
        BY <1>2, <3>1, <3>2
      <3>4. QED BY <1>3, <3>1, <3>3 DEF Launch!Own, Claims
    <2>2. \A i \in Launch!Id : owner[i] # None => at'[owner[i]] \in Locked /\ memo'[owner[i]].id = i
      <3> SUFFICES ASSUME NEW i \in Launch!Id, owner[i] # None
                   PROVE  at'[owner[i]] \in Locked /\ memo'[owner[i]].id = i
        OBVIOUS
      <3>1. owner[i] \in Task \ {t}
        BY <1>2, LaunchHas
      <3>2. QED BY <3>1 DEF ContextInv, ContextsHold
    <2>3. QED BY <2>1, <2>2 DEF ContextInv, ContextsHold, Launch!NamesAreUnique, Launch!Contexts
  <1>6. QED BY <1>3, <1>4, <1>5 DEF ContextInv

(* A call returns and leaves no stage, or dies. *)
LEMMA ReturnStep ==
  ASSUME ContextInv, LaunchTypes', NEW t \in Task, NEW what, Launch!Return(t, what),
         dirs' \in {dirs,
  dirs \ Launch!Stage(t)},
         died => died', dirs' = dirs => died' \/ (~ HasStage(t) /\ at[t] # "empty"), dirs' # dirs =>
              at[t] \in Staging
  PROVE  ContextInv'
  <1>1. /\ \A u \in Task \ {t} : at'[u] = at[u] /\ memo'[u] = memo[u]
        /\ at'[t] = "idle" /\ owner' = [i \in Launch!Id |-> IF owner[i] = t THEN None ELSE owner[i]]
    BY LaunchAt, LaunchHas DEF Launch!Return
  <1>2. Launch!Contexts' = Launch!Contexts /\ \A i \in Launch!Id : Launch!At(i)' = Launch!At(i)
    BY DEF Launch!At, Launch!Contexts, Launch!Stage, Launch!Own
  <1>3. ASSUME NEW u \in Task \ {t} PROVE LaunchKnows(u)' /\ HasStage(u)' = HasStage(u)
    <2>1. \A i \in Launch!Id : owner[i] = u => owner'[i] = u
      BY <1>1
    <2>2. HasStage(u) => Launch!Stage(u)' = Launch!Stage(u)
      <3>1. CASE dirs' = dirs
        BY <1>1, <3>1 DEF Launch!Stage, Launch!Own
      <3>2. CASE dirs' # dirs /\ HasStage(u)
        <4>1. at[t] \in Locked /\ at[u] \in Locked
          BY <3>2 DEF HasStage, Staged, Locked, Staging
        <4>2. memo[t].id # memo[u].id
          BY <4>1, LaunchHas
        <4>3. dirs' = dirs \ Launch!Stage(t)
          BY <3>2
        <4>4. QED BY <1>1, <4>2, <4>3 DEF Launch!Stage, Launch!Own
      <3>3. QED BY <3>1, <3>2
    <2>3. QED BY <1>1, <1>2, <2>1, <2>2, OthersKnow
  <1>4. LaunchKnows(t)'
    BY <1>1 DEF LaunchKnows, HasStage, Locked, Staged, Staging
  <1>5. ContextsHold'
    <2>1. ASSUME ~ died', NEW d \in dirs' \ Launch!Contexts
          PROVE  \E u \in Task : owner'[d.id] = u /\ d \in Launch!Own(u, d.kind)' /\ Claims(u, d)'
      <3>1. d \in dirs /\ d.id \in Launch!Id /\ d.kind \in {"context", "stage", "prune"}
        BY <2>1, LaunchHas DEF LaunchDir
      <3>2. PICK u \in Task : owner[d.id] = u /\ d \in Launch!Own(u, d.kind) /\ Claims(u, d)
        BY <2>1, <3>1 DEF ContextInv, ContextsHold
      <3>3. u # t
        <4>1. CASE dirs' = dirs
          BY <2>1, <3>1, <3>2, <4>1 DEF Claims, Launch!Contexts
        <4>2. CASE dirs' = dirs \ Launch!Stage(t) /\ at[t] \in Staging
          <5>1. d.kind = "stage" => u # t
            BY <2>1, <3>2, <4>2 DEF Launch!Stage
          <5>2. d.kind = "prune" => u # t
            BY <3>2, <4>2 DEF Claims, Staging
          <5>3. QED BY <2>1, <3>1, <5>1, <5>2 DEF Launch!Contexts
        <4>3. QED BY <4>1, <4>2
      <3>4. owner'[d.id] = u
        BY <1>1, <3>1, <3>2, <3>3
      <3>5. QED BY <1>1, <1>3, <2>1, <3>2, <3>3, <3>4 DEF Launch!Own, Claims
    <2>2. ASSUME NEW i \in Launch!Id, owner'[i] # None
          PROVE  at'[owner'[i]] \in Locked /\ memo'[owner'[i]].id = i
      <3>1. owner'[i] = owner[i] /\ owner[i] \in Task \ {t}
        BY <1>1, <2>2, LaunchHas
      <3>2. QED BY <1>1, <2>2, <3>1 DEF ContextInv, ContextsHold
    <2>3. dirs' \subseteq dirs
      OBVIOUS
    <2>4. QED BY <1>2, <2>1, <2>2, <2>3 DEF ContextInv, ContextsHold, Launch!NamesAreUnique,
                                            Launch!Contexts
  <1>6. QED BY <1>3, <1>4, <1>5 DEF ContextInv

(* A step of the holder of a lock, who keeps it. *)
LEMMA HolderStep ==
  ASSUME Launch!LaunchAssumption, ContextInv, LaunchTypes', NEW t \in Task, UNCHANGED <<owner,
         died>>,
         \A u \in Task \ {t} : at'[u] = at[u] /\ memo'[u] = memo[u],
         at[t] \in Locked, at'[t] \in Locked, memo'[t].id = memo[t].id,
         \A d \in dirs' : d.kind = "context" <=> d.n = 0,
         Launch!NamesAreUnique', \A d \in Launch!Contexts' : Launch!Sealed(d)
              /\ d.copied = d.id.skill,
         \A d \in dirs \cup dirs' : d.kind = "stage" /\ d.id # memo[t].id => (d \in dirs <=>
              d \in dirs'),
         \A i \in Launch!Id \ {memo[t].id} : Launch!At(i)' = Launch!At(i),
         \A d \in dirs' \ Launch!Contexts' :
            \/ d \in dirs /\ (d \in Launch!Own(t, d.kind) /\ Claims(t, d) =>
               d \in Launch!Own(t, d.kind)' /\ Claims(t, d)')
            \/ d.id = memo[t].id /\ d \in Launch!Own(t, d.kind)' /\ Claims(t, d)',
         LaunchKnows(t)'
  PROVE  ContextInv'
  <1>1. memo[t].id \in Launch!Id /\ owner[memo[t].id] = t
    BY LaunchHas
  <1>2. ASSUME NEW u \in Task \ {t} PROVE LaunchKnows(u)' /\ HasStage(u)' = HasStage(u)
    <2>1. \A i \in Launch!Id : owner[i] = u /\ Launch!At(i) # {} => Launch!At(i)' # {}
      BY <1>1
    <2>2. ASSUME HasStage(u) PROVE Launch!Stage(u)' = Launch!Stage(u)
      <3>1. at[u] \in Locked
        BY <2>2 DEF HasStage, Staged, Locked, Staging
      <3>2. memo[u].id # memo[t].id
        BY <1>1, <3>1, LaunchHas
      <3>3. QED BY <3>2 DEF Launch!Stage, Launch!Own
    <2>3. QED BY <2>1, <2>2, OthersKnow
  <1>3. ASSUME ~ died, NEW d \in dirs' \ Launch!Contexts'
        PROVE  \E u \in Task : owner[d.id] = u /\ d \in Launch!Own(u, d.kind)' /\ Claims(u, d)'
    <2>1. CASE d.id = memo[t].id /\ d \in Launch!Own(t, d.kind)' /\ Claims(t, d)'
      BY <1>1, <2>1
    <2>2. CASE d \in dirs /\ (d \in Launch!Own(t, d.kind) /\ Claims(t, d) =>
            d \in Launch!Own(t, d.kind)' /\ Claims(t, d)')
      <3>1. d \in dirs \ Launch!Contexts
        BY <1>3, <2>2 DEF Launch!Contexts
      <3>2. PICK u \in Task : owner[d.id] = u /\ d \in Launch!Own(u, d.kind) /\ Claims(u, d)
        BY <1>3, <3>1 DEF ContextInv, ContextsHold
      <3>3. CASE u = t
        BY <2>2, <3>2, <3>3
      <3>4. CASE u # t
        <4>1. d \in Launch!Own(u, d.kind)'
          BY <1>3, <3>2, <3>4 DEF Launch!Own
        <4>2. Claims(u, d)'
          BY <1>2, <3>2, <3>4 DEF Claims
        <4>3. QED BY <3>2, <4>1, <4>2
      <3>5. QED BY <3>3, <3>4
    <2>3. QED BY <1>3, <2>1, <2>2
  <1>4. ASSUME NEW i \in Launch!Id, owner[i] # None
        PROVE  at'[owner[i]] \in Locked /\ memo'[owner[i]].id = i
    <2>1. owner[i] \in Task /\ at[owner[i]] \in Locked /\ memo[owner[i]].id = i
      BY <1>4, LaunchHas DEF ContextInv, ContextsHold
    <2>2. QED BY <2>1
  <1>5. ContextsHold'
    BY <1>3, <1>4 DEF ContextsHold
  <1>6. QED BY <1>2, <1>5 DEF ContextInv

LEMMA NoClaim ==
  ASSUME ContextInv, NEW t \in Task, ~ HasStage(t), at[t] # "empty"
  PROVE  \A d \in dirs \ Launch!Contexts : ~ Claims(t, d)
  <1> SUFFICES ASSUME NEW d \in dirs, d.kind # "context" PROVE ~ Claims(t, d)
    BY DEF Launch!Contexts
  <1>1. d.kind \in {"context", "stage", "prune"}
    BY LaunchHas DEF LaunchDir
  <1>2. QED BY <1>1 DEF Claims

LEMMA DiskRecover ==
  ASSUME Launch!LaunchAssumption, ContextInv, LaunchTypes', NEW t \in Task, Launch!Recover(t)
  PROVE  ContextInv'
  <1> DEFINE c == [memo[t] EXCEPT !.found = Launch!At(memo[t].id) # {}]
  <1>1. /\ at[t] = "recover" /\ Launch!Remember(t, c) /\ UNCHANGED <<owner, died>>
        /\ Launch!Goto(t, IF Launch!At(memo[t].id) # {} THEN "sources" ELSE "mkdir")
        /\ dirs' = {d \in dirs : d.kind = "stage" /\ d.id = memo[t].id => ~ d.marked}
    BY DEF Launch!Recover, Launch!Others, Launch!bounds
  <1>2. /\ \A u \in Task \ {t} : at'[u] = at[u] /\ memo'[u] = memo[u]
        /\ at'[t] = (IF Launch!At(memo[t].id) # {} THEN "sources" ELSE "mkdir") /\ memo'[t] = c
    BY <1>1, LaunchHas, LaunchAt
  <1>3. c.found = (Launch!At(memo[t].id) # {}) /\ c.id = memo[t].id
    BY LaunchHas DEF LaunchCall
  <1> HIDE DEF c
  <1>4. \A i \in Launch!Id : Launch!At(i)' = Launch!At(i)
    BY <1>1 DEF Launch!At, Launch!Contexts
  <1>5. Launch!Contexts' = Launch!Contexts /\ dirs' \subseteq dirs
    BY <1>1 DEF Launch!Contexts
  <1>6. memo[t].id \in Launch!Id /\ owner[memo[t].id] = t /\ at[t] \in Locked
    BY <1>1, LaunchHas DEF Locked
  <1>7. ~ HasStage(t) /\ ~ HasStage(t)' /\ at[t] # "empty"
    BY <1>1, <1>2, <1>3 DEF HasStage, Staged
  <1>8. LaunchKnows(t)'
    BY <1>2, <1>3, <1>4, <1>6, <1>1, <1>7 DEF LaunchKnows, Staging
  <1>9. at'[t] \in Locked
    BY <1>2 DEF Locked, Staging
  <1>10. Launch!NamesAreUnique' /\ (\A d \in dirs' : d.kind = "context" <=> d.n = 0)
         /\ \A d \in Launch!Contexts' : Launch!Sealed(d) /\ d.copied = d.id.skill
    BY <1>5, LaunchHas DEF Launch!NamesAreUnique, ContextsHold
  <1>11. \A d \in dirs' \ Launch!Contexts' : d \in dirs /\ ~ Claims(t, d)
    BY <1>5, <1>7, NoClaim
  <1>12. \A d \in dirs \cup dirs' : d.kind = "stage" /\ d.id # memo[t].id => (d \in dirs <=>
           d \in dirs')
    BY <1>1
  <1>13. QED BY <1>1, <1>2, <1>3, <1>4, <1>6, <1>8, <1>9, <1>10, <1>11, <1>12, HolderStep

LEMMA DiskMake ==
  ASSUME Launch!LaunchAssumption, ContextInv, LaunchTypes', NEW t \in Task, Launch!MakeStage(t)
  PROVE  ContextInv'
  <1>a. PICK n : n = Launch!Suffix("stage", memo[t].id)
    OBVIOUS
  <1>b. PICK e : e = Launch!Directory("stage", memo[t].id, n)
    OBVIOUS
  <1> DEFINE c == [memo[t] EXCEPT !.n = n]
  <1>1. /\ at[t] = "mkdir" /\ Launch!Remember(t, c) /\ UNCHANGED <<owner, died>>
           /\ Launch!Goto(t, "mark")
        /\ dirs' = dirs \cup {e} /\ Launch!Free("stage", memo[t].id) # {}
    BY <1>a, <1>b DEF Launch!MakeStage, Launch!Others, Launch!bounds
  <1>2. /\ \A u \in Task \ {t} : at'[u] = at[u] /\ memo'[u] = memo[u]
        /\ at'[t] = "mark" /\ memo'[t] = c
    BY <1>1, LaunchHas, LaunchAt
  <1>3. n \in Number \ {0} /\ \A d \in dirs : <<d.kind, d.id, d.n>> # <<"stage", memo[t].id, n>>
    BY <1>1, <1>a, Drawn
  <1>4. c.found = memo[t].found /\ c.id = memo[t].id /\ c.n = n
    BY LaunchHas DEF LaunchCall
  <1>5. e.kind = "stage" /\ e.id = memo[t].id /\ e.n = n
    BY <1>b DEF Launch!Directory
  <1> HIDE DEF c
  <1>6. Launch!Contexts' = Launch!Contexts /\ \A i \in Launch!Id : Launch!At(i)' = Launch!At(i)
    BY <1>1, <1>5 DEF Launch!At, Launch!Contexts
  <1>7. memo[t].id \in Launch!Id /\ owner[memo[t].id] = t /\ at[t] \in Locked /\ ~ memo[t].found
    BY <1>1, LaunchHas DEF Locked, Staging, LaunchKnows
  <1>8. HasStage(t)' /\ Launch!Stage(t)' = {e}
    BY <1>1, <1>2, <1>3, <1>4, <1>5, <1>7 DEF HasStage, Staged, Launch!Stage, Launch!Own
  <1>9. ~ HasStage(t)
    BY <1>1 DEF HasStage, Staged
  <1>10. LaunchKnows(t)'
    BY <1>1, <1>2, <1>4, <1>7, <1>8 DEF LaunchKnows, Staging, Written
  <1>11. at'[t] \in Locked
    BY <1>2 DEF Locked, Staging
  <1>12. Launch!NamesAreUnique'
    BY <1>1, <1>3, <1>5, LaunchHas DEF Launch!NamesAreUnique, Launch!PathOf
  <1>13. (\A d \in dirs' : d.kind = "context" <=> d.n = 0)
           /\ \A d \in Launch!Contexts' : Launch!Sealed(d) /\ d.copied = d.id.skill
    BY <1>1, <1>3, <1>5, <1>6, LaunchHas DEF ContextsHold
  <1>14. \A d \in dirs' \ Launch!Contexts' :
           \/ d \in dirs /\ ~ Claims(t, d)
           \/ d.id = memo[t].id /\ d \in Launch!Own(t, d.kind)' /\ Claims(t, d)'
    <2>1. e \in Launch!Own(t, e.kind)'
      <3>1. e \in dirs' /\ e.id = memo'[t].id /\ e.n = memo'[t].n
        BY <1>1, <1>2, <1>4, <1>5
      <3>2. QED BY <3>1 DEF Launch!Own
    <2>2. Claims(t, e)'
      BY <1>5, <1>8 DEF Claims
    <2>3. ASSUME NEW d \in dirs \ Launch!Contexts PROVE ~ Claims(t, d)
      BY <1>1, <1>9, NoClaim
    <2>4. ASSUME NEW d \in dirs' \ Launch!Contexts', d # e PROVE d \in dirs \ Launch!Contexts
      BY <1>1, <1>6, <2>4
    <2>5. QED BY <1>5, <2>1, <2>2, <2>3, <2>4
  <1>15. \A d \in dirs \cup dirs' : d.kind = "stage" /\ d.id # memo[t].id => (d \in dirs <=>
           d \in dirs')
    BY <1>1, <1>5
  <1>16. QED BY <1>1, <1>2, <1>4, <1>6, <1>7, <1>10, <1>11, <1>12, <1>13, <1>14, <1>15, HolderStep

LEMMA DiskRewrite ==
  ASSUME Launch!LaunchAssumption, ContextInv, LaunchTypes', NEW t \in Task,
         NEW d \in Launch!Stage(t),
  NEW e,
         NEW step \in Staged, NEW s \in Staged, Launch!Rewrite(t, step, s, e), HasStage(t),
         e.kind = "stage", e.id = d.id, e.n = d.n, Written(t, e)'
  PROVE  ContextInv'
  <1>1. /\ at[t] = step /\ UNCHANGED <<owner, died, memo>> /\ Launch!Goto(t, s)
           /\ dirs' = (dirs \ Launch!Stage(t)) \cup {e}
    BY DEF Launch!Rewrite, Launch!Others, Launch!bounds
  <1>2. (\A u \in Task \ {t} : at'[u] = at[u] /\ memo'[u] = memo[u]) /\ at'[t] = s
          /\ memo'[t] = memo[t]
    BY <1>1, LaunchHas DEF Launch!Goto, LaunchTypes
  <1>3. Launch!Stage(t) = {d} /\ d \in dirs /\ d.kind = "stage" /\ d.id = memo[t].id
          /\ d.n = memo[t].n /\ d.n # 0
    BY StageIsOne, LaunchHas DEF ContextsHold
  <1>4. Launch!Contexts' = Launch!Contexts /\ \A i \in Launch!Id : Launch!At(i)' = Launch!At(i)
    BY <1>1, <1>3 DEF Launch!At, Launch!Contexts
  <1>5. Staged \subseteq Locked
    BY DEF Staged, Locked, Staging
  <1>6. memo[t].id \in Launch!Id /\ owner[memo[t].id] = t /\ at[t] \in Locked
          /\ at'[t] \in Locked /\ ~ memo[t].found
    BY <1>1, <1>2, <1>5, LaunchHas DEF HasStage
  <1>7. HasStage(t)' /\ Launch!Stage(t)' = {e}
    BY <1>1, <1>2, <1>3, <1>6 DEF HasStage, Launch!Stage, Launch!Own
  <1>8. LaunchKnows(t)'
    BY <1>1, <1>2, <1>6, <1>7 DEF LaunchKnows, Staged
  <1>9. Launch!NamesAreUnique'
    BY <1>1, <1>3, LaunchHas DEF Launch!NamesAreUnique, Launch!PathOf
  <1>10. (\A x \in dirs' : x.kind = "context" <=> x.n = 0)
           /\ \A x \in Launch!Contexts' : Launch!Sealed(x) /\ x.copied = x.id.skill
    BY <1>1, <1>3, <1>4, LaunchHas DEF ContextsHold
  <1>11. \A x \in dirs' \ Launch!Contexts' :
           \/ x \in dirs /\ (x \in Launch!Own(t, x.kind) /\ Claims(t, x) =>
              x \in Launch!Own(t, x.kind)' /\ Claims(t, x)')
           \/ x.id = memo[t].id /\ x \in Launch!Own(t, x.kind)' /\ Claims(t, x)'
    <2>1. e.id = memo[t].id /\ e \in Launch!Own(t, e.kind)' /\ Claims(t, e)'
      BY <1>1, <1>2, <1>3, <1>7 DEF Launch!Own, Claims
    <2>2. ASSUME NEW x \in dirs, x \in dirs', x \in Launch!Own(t, x.kind), Claims(t, x)
          PROVE  x \in Launch!Own(t, x.kind)' /\ Claims(t, x)'
      <3>1. x.kind # "prune"
        BY <1>1, <2>2 DEF Claims, Staged
      <3>2. QED BY <1>2, <1>7, <2>2, <3>1 DEF Launch!Own, Claims
    <2>3. QED BY <1>1, <2>1, <2>2
  <1>12. \A x \in dirs \cup dirs' : x.kind = "stage" /\ x.id # memo[t].id => (x \in dirs <=>
           x \in dirs')
    BY <1>1, <1>3
  <1>13. QED BY <1>1, <1>2, <1>4, <1>6, <1>8, <1>9, <1>10, <1>11, <1>12, HolderStep

LEMMA DiskAbandon ==
  ASSUME Launch!LaunchAssumption, ContextInv, LaunchTypes', NEW t \in Task, NEW what,
         Launch!Abandon(t, what), at[t] \in Staging \ {"mkdir"}
  PROVE  ContextInv'
  <1>1. dirs' = dirs \ Launch!Stage(t) /\ Launch!Return(t, what) /\ UNCHANGED died
    BY DEF Launch!Abandon, Launch!Others, Launch!bounds
  <1>2. HasStage(t) => dirs' # dirs
    BY <1>1, LaunchHas DEF LaunchKnows, Launch!Stage, Launch!Own
  <1>3. at[t] # "empty"
    BY DEF Staging
  <1>4. QED BY <1>1, <1>2, <1>3, ReturnStep

LEMMA DiskWrite ==
  ASSUME Launch!LaunchAssumption, ContextInv, LaunchTypes', NEW t \in Task,
         Launch!MarkStage(t) \/ Launch!Copy(t) \/ Launch!Seal(t)
  PROVE  ContextInv'
  <1>1. ASSUME at[t] \in {"mark", "render", "seal"}
        PROVE  HasStage(t) /\ \A d \in Launch!Stage(t) : d \in LaunchDir /\ Written(t, d)
    <2>1. HasStage(t)
      BY <1>1, LaunchHas DEF LaunchKnows, HasStage, Staged
    <2>2. QED BY <2>1, LaunchHas DEF LaunchKnows, Launch!Stage, Launch!Own
  <1>2. skill \in Launch!Version /\ clock \in Nat /\ memo[t].release \in Launch!Version
    BY LaunchHas DEF LaunchTypes, LaunchWorld, LaunchCall
  <1>3. CASE Launch!MarkStage(t)
    <2>1. PICK d \in Launch!Stage(t) : Launch!Rewrite(t, "mark", "render",
            [d EXCEPT !.marked = TRUE])
      BY <1>3 DEF Launch!MarkStage
    <2>0. PICK e : e = [d EXCEPT !.marked = TRUE]
      OBVIOUS
    <2>2. at[t] = "mark" /\ at'[t] = "render" /\ d \in LaunchDir /\ HasStage(t)
      BY <1>1, <2>1, LaunchHas DEF Launch!Rewrite, Launch!Goto, LaunchTypes
    <2>3. e.kind = d.kind /\ e.id = d.id /\ e.n = d.n /\ e.marked
      BY <2>0, <2>2 DEF LaunchDir
    <2>4. Written(t, e)'
      BY <2>2, <2>3 DEF Written
    <2>5. d.kind = "stage"
      BY StageIsOne
    <2>6. QED BY <2>1, <2>2, <2>3, <2>4, <2>5, <2>0, DiskRewrite DEF Staged
  <1>4. CASE Launch!Copy(t)
    <2>1. PICK d \in Launch!Stage(t) : Launch!Rewrite(t, "render", "seal",
            [d EXCEPT !.copied = skill])
      BY <1>4 DEF Launch!Copy
    <2>0. PICK e : e = [d EXCEPT !.copied = skill]
      OBVIOUS
    <2>2. at[t] = "render" /\ at'[t] = "seal" /\ d \in LaunchDir /\ HasStage(t) /\ Written(t, d)
      BY <1>1, <2>1, LaunchHas DEF Launch!Rewrite, Launch!Goto, LaunchTypes
    <2>3. e.kind = d.kind /\ e.id = d.id /\ e.n = d.n /\ e.marked = d.marked /\ e.copied = skill
      BY <2>0, <2>2 DEF LaunchDir
    <2>4. Written(t, e)'
      <3>1. e.marked /\ e.copied \in Launch!Version
        BY <1>2, <2>2, <2>3 DEF Written
      <3>2. QED BY <2>2, <3>1 DEF Written
    <2>5. d.kind = "stage"
      BY StageIsOne
    <2>6. Launch!Rewrite(t, "render", "seal", e)
      BY <2>0, <2>1
    <2>7. {"render", "seal"} \subseteq Staged
      BY DEF Staged
    <2>8. QED BY <2>1, <2>2, <2>3, <2>4, <2>5, <2>6, <2>7, DiskRewrite
  <1>5. CASE Launch!Seal(t)
    <2>1. PICK d \in Launch!Stage(t) :
            IF Launch!CopyMatches(t, d)
            THEN Launch!Rewrite(t, "seal", "sources", [d EXCEPT !.release = memo[t].release,
                 !.created = clock])
            ELSE at[t] = "seal" /\ Launch!Abandon(t, "changed")
      BY <1>5 DEF Launch!Seal
    <2>2. CASE ~ Launch!CopyMatches(t, d)
      <3>1. at[t] = "seal" /\ Launch!Abandon(t, "changed")
        BY <2>1, <2>2
      <3>2. QED BY <3>1, DiskAbandon DEF Staging
    <2>3. CASE Launch!CopyMatches(t, d)
      <3>0. PICK e : e = [d EXCEPT !.release = memo[t].release, !.created = clock]
        OBVIOUS
      <3>1. Launch!Rewrite(t, "seal", "sources", e)
        BY <2>1, <2>3, <3>0
      <3>2. at[t] = "seal" /\ at'[t] = "sources" /\ memo' = memo /\ d \in LaunchDir
              /\ HasStage(t) /\ Written(t, d)
        BY <1>1, <3>1, LaunchHas DEF Launch!Rewrite, Launch!Goto, LaunchTypes
      <3>3. e.kind = d.kind /\ e.id = d.id /\ e.n = d.n /\ e.marked = d.marked
              /\ e.copied = d.copied
            /\ e.release = memo[t].release /\ e.created = clock
        BY <3>0, <3>2 DEF LaunchDir
      <3>4. Written(t, e)'
        <4>1. e.marked /\ e.copied = memo'[t].id.skill /\ e.release = memo'[t].release
          BY <2>3, <3>2, <3>3 DEF Written, Launch!CopyMatches
        <4>2. e.created \in Nat
          BY <1>2, <3>3
        <4>3. QED BY <3>2, <4>1, <4>2 DEF Written
      <3>5. d.kind = "stage"
        BY StageIsOne
      <3>6. {"seal", "sources"} \subseteq Staged
        BY DEF Staged
      <3>7. QED BY <3>1, <3>2, <3>3, <3>4, <3>5, <3>6, DiskRewrite
    <2>4. QED BY <2>2, <2>3
  <1>6. QED BY <1>3, <1>4, <1>5

(* A step of the holder that leaves the directories, and its claims. *)
LEMMA HolderStays ==
  ASSUME Launch!LaunchAssumption, ContextInv, LaunchTypes', NEW t \in Task, UNCHANGED <<dirs, owner,
  died, memo>>,
         NEW s \in Locked, Launch!Goto(t, s), at[t] \in Locked, at[t] # "empty", HasStage(t) =>
              HasStage(t)', LaunchKnows(t)'
  PROVE  ContextInv'
  <1>1. (\A u \in Task \ {t} : at'[u] = at[u] /\ memo'[u] = memo[u]) /\ at'[t] = s
          /\ memo'[t] = memo[t]
    BY LaunchHas DEF Launch!Goto, LaunchTypes
  <1>2. Launch!Contexts' = Launch!Contexts /\ \A i \in Launch!Id : Launch!At(i)' = Launch!At(i)
    BY DEF Launch!At, Launch!Contexts
  <1>3. Launch!NamesAreUnique' /\ (\A d \in dirs' : d.kind = "context" <=> d.n = 0)
        /\ \A d \in Launch!Contexts' : Launch!Sealed(d) /\ d.copied = d.id.skill
    BY <1>2, LaunchHas DEF Launch!NamesAreUnique, ContextsHold
  <1>4. ASSUME NEW d \in dirs, d \in Launch!Own(t, d.kind), Claims(t, d)
        PROVE  d \in Launch!Own(t, d.kind)' /\ Claims(t, d)'
    <2>1. d.kind # "prune"
      BY <1>4 DEF Claims
    <2>2. QED BY <1>1, <1>4, <2>1 DEF Launch!Own, Claims
  <1>5. QED BY <1>1, <1>2, <1>3, <1>4, HolderStep

LEMMA DiskCheck ==
  ASSUME Launch!LaunchAssumption, ContextInv, LaunchTypes', NEW t \in Task,
         Launch!RecheckSources(t) \/ Launch!RecheckProjection(t) \/ Launch!RecheckInput(t)
              \/ Launch!Reuse(t)
  PROVE  ContextInv'
  <1>1. ASSUME NEW what, Launch!Abandon(t, what), at[t] \in {"sources", "projection", "input",
               "reuse"}
        PROVE  ContextInv'
    <2>1. at[t] \in Staging \ {"mkdir"}
      BY <1>1 DEF Staging
    <2>2. QED BY <1>1, <2>1, DiskAbandon
  <1>2. ASSUME at[t] \in {"sources", "projection", "input"}, NEW s \in {"projection", "input",
               "rename",
  "reuse"},
               s = "reuse" => memo[t].found, s = "rename" => ~ memo[t].found,
               Launch!Goto(t, s), Launch!Silently, UNCHANGED <<Launch!Others, dirs, owner, memo>>
        PROVE  ContextInv'
    <2>1. at'[t] = s /\ memo'[t] = memo[t] /\ UNCHANGED <<dirs, owner, died, memo>>
      BY <1>2, LaunchHas DEF Launch!Goto, LaunchTypes, Launch!Others, Launch!bounds
    <2>2. at[t] \in Locked /\ at[t] \in Staging /\ at[t] \in Staged /\ s \in Locked
      BY <1>2 DEF Locked, Staging, Staged
    <2>3. HasStage(t) => s \in Staged
      BY <1>2 DEF HasStage, Staged
    <2>4. HasStage(t) => HasStage(t)'
      BY <2>1, <2>3 DEF HasStage
    <2>5. HasStage(t)' => HasStage(t)
      BY <2>1, <2>2 DEF HasStage
    <2>6. Launch!Stage(t)' = Launch!Stage(t) /\ \A i : Launch!At(i)' = Launch!At(i)
      BY <2>1 DEF Launch!Stage, Launch!Own, Launch!At, Launch!Contexts
    <2>7. \A d : Written(t, d) => Written(t, d)'
      BY <1>2, <2>1 DEF Written
    <2>8. LaunchKnows(t)'
      BY <1>2, <2>1, <2>2, <2>5, <2>6, <2>7, LaunchHas DEF LaunchKnows
    <2>9. QED BY <1>2, <2>1, <2>2, <2>4, <2>8, HolderStays
  <1>3. CASE Launch!RecheckSources(t)
    BY <1>1, <1>2, <1>3 DEF Launch!RecheckSources, Launch!Check
  <1>4. CASE Launch!RecheckProjection(t)
    BY <1>1, <1>2, <1>4 DEF Launch!RecheckProjection, Launch!Check
  <1>5. CASE Launch!RecheckInput(t)
    <2>1. CASE memo[t].found
      BY <1>1, <1>2, <1>5, <2>1 DEF Launch!RecheckInput, Launch!Check
    <2>2. CASE ~ memo[t].found
      BY <1>1, <1>2, <1>5, <2>2 DEF Launch!RecheckInput, Launch!Check
    <2>3. QED BY <2>1, <2>2
  <1>6. CASE Launch!Reuse(t)
    BY <1>1, <1>6 DEF Launch!Reuse
  <1>7. QED BY <1>3, <1>4, <1>5, <1>6

LEMMA DiskPublish ==
  ASSUME Launch!LaunchAssumption, ContextInv, LaunchTypes', NEW t \in Task, Launch!Publish(t)
  PROVE  ContextInv'
  <1>1. CASE Launch!At(memo[t].id) # {}
    <2>1. Launch!Abandon(t, Launch!Verdict(t, Launch!At(memo[t].id))) /\ at[t] = "rename"
      BY <1>1 DEF Launch!Publish
    <2>2. at[t] \in Staging \ {"mkdir"}
      BY <2>1 DEF Staging
    <2>3. QED BY <2>1, <2>2, DiskAbandon
  <1>2. CASE Launch!At(memo[t].id) = {}
    <2>1. /\ at[t] = "rename" /\ Launch!Return(t, "ok") /\ UNCHANGED died
          /\ dirs' = (dirs \ Launch!Stage(t)) \cup {[d EXCEPT !.kind = "context", !.n = 0] :
             d \in Launch!Stage(t)}
      BY <1>2 DEF Launch!Publish, Launch!Others, Launch!bounds
    <2>2. at[t] \in Locked /\ at[t] \in Staged
      BY <2>1 DEF Locked, Staging, Staged
    <2>3. HasStage(t) /\ Launch!Stage(t) # {} /\ memo[t].id \in Launch!Id /\ owner[memo[t].id] = t
      BY <2>1, <2>2, LaunchHas DEF HasStage, LaunchKnows
    <2>4. PICK d \in Launch!Stage(t) : Written(t, d) /\ d \in LaunchDir
      BY <2>3, LaunchHas DEF LaunchKnows, Launch!Stage, Launch!Own
    <2>5. PICK e : e = [d EXCEPT !.kind = "context", !.n = 0]
      OBVIOUS
    <2>6. Launch!Stage(t) = {d} /\ d \in dirs /\ d.kind = "stage" /\ d.id = memo[t].id
            /\ d.n = memo[t].n
      BY StageIsOne
    <2>7. dirs' = (dirs \ {d}) \cup {e}
      BY <2>1, <2>5, <2>6
    <2>8. e.kind = "context" /\ e.n = 0 /\ e.id = d.id /\ e.marked = d.marked
            /\ e.copied = d.copied /\ e.created = d.created
      BY <2>4, <2>5 DEF LaunchDir
    <2>9. Launch!Sealed(e) /\ e.copied = e.id.skill
      <3>1. d.marked /\ d.copied = memo[t].id.skill /\ d.created \in Nat
        BY <2>1, <2>4 DEF Written
      <3>2. d.copied \in Int
        BY <2>3, <3>1 DEF Launch!Id, Launch!Version
      <3>3. QED BY <2>6, <2>8, <3>1, <3>2 DEF Launch!Sealed, Launch!LaunchAssumption
    <2>10. Launch!Contexts' = Launch!Contexts \cup {e}
             /\ \A i \in Launch!Id \ {memo[t].id} : Launch!At(i)' = Launch!At(i)
      BY <2>6, <2>7, <2>8 DEF Launch!Contexts, Launch!At
    <2>11. /\ \A u \in Task \ {t} : at'[u] = at[u] /\ memo'[u] = memo[u]
           /\ at'[t] = "idle"
              /\ owner' = [i \in Launch!Id |-> IF owner[i] = t THEN None ELSE owner[i]]
      BY <2>1, LaunchAt, LaunchHas DEF Launch!Return
    <2>12. ASSUME NEW u \in Task \ {t} PROVE LaunchKnows(u)' /\ HasStage(u)' = HasStage(u)
      <3>1. \A i \in Launch!Id : owner[i] = u => owner'[i] = u
        BY <2>11
      <3>2. ASSUME HasStage(u) PROVE Launch!Stage(u)' = Launch!Stage(u)
        <4>1. at[u] \in Locked
          BY <3>2 DEF HasStage, Staged, Locked, Staging
        <4>2. memo[u].id # memo[t].id
          BY <2>3, <4>1, LaunchHas
        <4>3. QED BY <2>6, <2>7, <2>8, <2>11, <4>2 DEF Launch!Stage, Launch!Own
      <3>3. \A i \in Launch!Id : owner[i] = u /\ Launch!At(i) # {} => Launch!At(i)' # {}
        BY <2>3, <2>10
      <3>4. QED BY <2>11, <3>1, <3>2, <3>3, OthersKnow
    <2>13. LaunchKnows(t)'
      BY <2>11 DEF LaunchKnows, HasStage, Locked, Staged, Staging
    <2>14. ASSUME ~ died', NEW x \in dirs' \ Launch!Contexts'
           PROVE  \E u \in Task : owner'[x.id] = u /\ x \in Launch!Own(u, x.kind)' /\ Claims(u, x)'
      <3>1. x \in dirs \ Launch!Contexts /\ x # d /\ x.id \in Launch!Id
              /\ x.kind \in {"stage", "prune"}
        <4>1. x \in dirs \ Launch!Contexts /\ x # d
          BY <2>7, <2>10, <2>14
        <4>2. QED BY <4>1, LaunchHas DEF LaunchDir, Launch!Contexts
      <3>2. PICK u \in Task : owner[x.id] = u /\ x \in Launch!Own(u, x.kind) /\ Claims(u, x)
        BY <2>1, <2>14, <3>1 DEF ContextInv, ContextsHold
      <3>3. u # t
        BY <2>1, <2>6, <3>1, <3>2 DEF Claims, Launch!Stage
      <3>4. QED BY <2>11, <2>12, <2>14, <3>1, <3>2, <3>3 DEF Launch!Own, Claims
    <2>15. ASSUME NEW i \in Launch!Id, owner'[i] # None
           PROVE  at'[owner'[i]] \in Locked /\ memo'[owner'[i]].id = i
      <3>1. owner'[i] = owner[i] /\ owner[i] \in Task \ {t}
        BY <2>11, <2>15, LaunchHas
      <3>2. QED BY <2>11, <2>15, <3>1 DEF ContextInv, ContextsHold
    <2>16. Launch!NamesAreUnique'
      <3>1. ASSUME NEW x \in dirs PROVE Launch!PathOf(x) # Launch!PathOf(e)
        BY <1>2, <2>6, <2>8 DEF Launch!PathOf, Launch!At, Launch!Contexts
      <3>2. QED BY <2>7, <3>1, LaunchHas DEF Launch!NamesAreUnique, Launch!PathOf
    <2>17. (\A x \in dirs' : x.kind = "context" <=>
             x.n = 0) /\ \A x \in Launch!Contexts' : Launch!Sealed(x) /\ x.copied = x.id.skill
      BY <2>7, <2>8, <2>9, <2>10, LaunchHas DEF ContextsHold
    <2>18. ContextsHold'
      BY <2>14, <2>15, <2>16, <2>17 DEF ContextsHold
    <2>19. QED BY <2>12, <2>13, <2>18 DEF ContextInv
  <1>3. QED BY <1>1, <1>2

LEMMA DiskAcquire ==
  ASSUME Launch!LaunchAssumption, ContextInv, LaunchTypes', NEW t \in Task, NEW i \in Launch!Id,
         Launch!Acquire(t, i)
  PROVE  ContextInv'
  <1>1. /\ at[t] \in {"acquire", "next"} /\ owner[i] = None /\ owner' = [owner EXCEPT ![i] = t]
           /\ UNCHANGED <<dirs, died>>
    BY DEF Launch!Acquire, Launch!Others, Launch!bounds
  <1>2. \A u \in Task \ {t} : at'[u] = at[u] /\ memo'[u] = memo[u]
    BY LaunchAt, LaunchHas DEF Launch!Acquire
  <1>3. at'[t] \in {"recover", "quarantine"} /\ memo'[t].id = i
    <2>1. at'[t] \in {"recover", "quarantine"} /\ memo'[t] = [memo[t] EXCEPT !.id = i]
      BY LaunchAt, LaunchHas DEF Launch!Acquire
    <2>2. QED BY <2>1, LaunchHas DEF LaunchCall
  <1>4. \A j \in Launch!Id : owner[j] # t
    <2>1. at[t] \notin Locked
      BY <1>1 DEF Locked, Staging
    <2>2. t # None
      BY DEF Launch!LaunchAssumption
    <2>3. QED BY <2>1, <2>2, LaunchHas DEF ContextsHold
  <1>5. Launch!Contexts' = Launch!Contexts /\ (\A j \in Launch!Id : Launch!At(j)' = Launch!At(j))
          /\ \A u \in Task \ {t} : Launch!Stage(u)' = Launch!Stage(u)
    BY <1>1, <1>2 DEF Launch!At, Launch!Contexts, Launch!Stage, Launch!Own
  <1>6. ASSUME NEW u \in Task \ {t} PROVE LaunchKnows(u)' /\ HasStage(u)' = HasStage(u)
    <2>1. \A j \in Launch!Id : owner[j] = u => owner'[j] = u
      <3>1. u # None
        BY DEF Launch!LaunchAssumption
      <3>2. QED BY <1>1, <3>1, LaunchHas
    <2>2. QED BY <1>2, <1>5, <2>1, OthersKnow
  <1>7. LaunchKnows(t)'
    <2>1. owner'[i] = t
      BY <1>1, LaunchHas
    <2>2. QED BY <1>3, <2>1 DEF LaunchKnows, HasStage, Staged, Staging
  <1>8. ASSUME ~ died', NEW d \in dirs' \ Launch!Contexts'
        PROVE  \E u \in Task : owner'[d.id] = u /\ d \in Launch!Own(u, d.kind)' /\ Claims(u, d)'
    <2>1. d \in dirs \ Launch!Contexts /\ d.id \in Launch!Id
      BY <1>1, <1>5, <1>8, LaunchHas DEF LaunchDir
    <2>2. PICK u \in Task : owner[d.id] = u /\ d \in Launch!Own(u, d.kind) /\ Claims(u, d)
      BY <1>1, <1>8, <2>1 DEF ContextInv, ContextsHold
    <2>3. u # t /\ u # None
      BY <1>4, <2>1, <2>2 DEF Launch!LaunchAssumption
    <2>4. owner'[d.id] = u
      BY <1>1, <2>1, <2>2, <2>3, LaunchHas
    <2>5. QED BY <1>2, <1>6, <1>1, <2>2, <2>3, <2>4 DEF Launch!Own, Claims
  <1>9. ASSUME NEW j \in Launch!Id, owner'[j] # None
        PROVE  at'[owner'[j]] \in Locked /\ memo'[owner'[j]].id = j
    <2>1. CASE j = i
      <3>1. owner'[j] = t
        BY <1>1, <2>1, LaunchHas
      <3>2. QED BY <1>3, <2>1, <3>1 DEF Locked
    <2>2. CASE j # i
      <3>1. owner'[j] = owner[j] /\ owner[j] \in Task \ {t}
        BY <1>1, <1>4, <1>9, <2>2, LaunchHas
      <3>2. QED BY <1>2, <1>9, <3>1 DEF ContextInv, ContextsHold
    <2>3. QED BY <2>1, <2>2
  <1>10. ContextsHold'
    BY <1>1, <1>5, <1>8, <1>9, LaunchHas DEF ContextsHold, Launch!NamesAreUnique
  <1>11. QED BY <1>6, <1>7, <1>10 DEF ContextInv

(* Steps that return. *)
LEMMA DiskReturn ==
  ASSUME ContextInv, LaunchTypes', NEW t \in Task, NEW what, Launch!Return(t, what), UNCHANGED dirs,
  died => died',
         died' \/ at[t] \notin Staged \cup {"empty"}
  PROVE  ContextInv'
  <1>1. died' \/ (~ HasStage(t) /\ at[t] # "empty")
    BY DEF HasStage
  <1>2. QED BY <1>1, ReturnStep

LEMMA DiskPlan ==
  ASSUME Launch!LaunchAssumption, ContextInv, LaunchTypes', NEW t \in Task,
         Launch!Capture(t) \/ Launch!ReadConfig(t) \/ Launch!ReadLock(t) \/ Launch!ReadBase(t)
              \/ Launch!Compare(t) \/ Launch!Plan(t) \/ Launch!Unsupported(t)
  PROVE  ContextInv'
  <1>1. UNCHANGED <<dirs, died>>
          /\ at[t] \in {"capture", "config", "lock", "base", "compare", "plan"}
    BY DEF Launch!Capture, Launch!ReadConfig, Launch!ReadLock, Launch!ReadBase, Launch!Read,
           Launch!Compare, Launch!Plan, Launch!Unsupported, Launch!Others, Launch!bounds
  <1>2. CASE \E what : Launch!Return(t, what)
    BY <1>1, <1>2, DiskReturn DEF Staged
  <1>3. ASSUME NEW s \in {"capture", "config", "lock", "base", "compare", "plan", "acquire"}, NEW c,
  Launch!Goto(t, s), Launch!Remember(t, c),
               UNCHANGED owner
        PROVE  ContextInv'
    <2>1. (\A u \in Task \ {t} : at'[u] = at[u] /\ memo'[u] = memo[u]) /\ at'[t] = s
      BY <1>3, LaunchAt, LaunchHas
    <2>2. at[t] \notin Locked /\ s \notin Locked
      BY <1>1 DEF Locked, Staging
    <2>3. QED BY <1>1, <1>3, <2>1, <2>2, QuietStep
  <1>4. CASE Launch!Capture(t) \/ Launch!ReadConfig(t) \/ Launch!ReadLock(t) \/ Launch!ReadBase(t)
    BY <1>3, <1>4 DEF Launch!Capture, Launch!ReadConfig, Launch!ReadLock, Launch!ReadBase,
                      Launch!Read
  <1>5. CASE Launch!Compare(t)
    <2>1. Launch!Remember(t, memo[t]) \/ memo' # memo
      BY LaunchHas DEF Launch!Remember, LaunchTypes
    <2>2. CASE Launch!Goto(t, "plan") /\ UNCHANGED <<memo, owner>>
      BY <1>3, <2>1, <2>2
    <2>3. CASE \E c : Launch!Goto(t, "capture") /\ Launch!Remember(t, c) /\ UNCHANGED owner
      BY <1>3, <2>3
    <2>4. QED BY <1>2, <1>5, <2>2, <2>3 DEF Launch!Compare
  <1>6. CASE Launch!Plan(t) \/ Launch!Unsupported(t)
    <2>1. CASE \E c : Launch!Goto(t, "acquire") /\ Launch!Remember(t, c) /\ UNCHANGED owner
      BY <1>3, <2>1
    <2>2. QED BY <1>2, <1>6, <2>1 DEF Launch!Plan, Launch!Unsupported
  <1>7. QED BY <1>4, <1>5, <1>6

LEMMA DiskScan ==
  ASSUME Launch!LaunchAssumption, ContextInv, LaunchTypes', NEW t \in Task,
         Launch!Scan(t) \/ Launch!Inspect(t) \/ Launch!Choose(t) \/ Launch!EndPrune(t)
              \/ Launch!StartPrepare(t) \/ Launch!StartPrune(t)
                 \/ \E i \in Launch!Id : Launch!TimeOut(t, i)
  PROVE  ContextInv'
  <1>1. UNCHANGED <<dirs, died>> /\ at[t] \in {"idle", "scan", "inspect", "next", "acquire"}
    BY DEF Launch!Scan, Launch!Inspect, Launch!Choose, Launch!EndPrune, Launch!StartPrepare,
           Launch!StartPrune, Launch!Begin, Launch!TimeOut, Launch!Others, Launch!bounds
  <1>2. CASE \E what : Launch!Return(t, what)
    BY <1>1, <1>2, DiskReturn DEF Staged
  <1>3. ASSUME NEW s \in {"capture", "scan", "inspect", "next"}, NEW c, Launch!Goto(t, s),
               Launch!Remember(t, c), UNCHANGED owner
        PROVE  ContextInv'
    <2>1. (\A u \in Task \ {t} : at'[u] = at[u] /\ memo'[u] = memo[u]) /\ at'[t] = s
      BY <1>3, LaunchAt, LaunchHas
    <2>2. at[t] \notin Locked /\ s \notin Locked
      BY <1>1 DEF Locked, Staging
    <2>3. QED BY <1>1, <1>3, <2>1, <2>2, QuietStep
  <1>4. CASE Launch!Inspect(t)
    <2>1. Launch!Goto(t, "inspect")
      BY <1>4, LaunchHas DEF Launch!Inspect, Launch!Goto, LaunchTypes
    <2>2. QED BY <1>3, <1>4, <2>1 DEF Launch!Inspect
  <1>5. CASE Launch!Scan(t) \/ Launch!Choose(t)
    BY <1>2, <1>3, <1>5 DEF Launch!Scan, Launch!Choose
  <1>6. CASE Launch!StartPrepare(t) \/ Launch!StartPrune(t)
    BY <1>3, <1>6 DEF Launch!StartPrepare, Launch!StartPrune, Launch!Begin
  <1>7. QED BY <1>2, <1>4, <1>5, <1>6 DEF Launch!EndPrune, Launch!TimeOut

LEMMA DiskMove ==
  ASSUME Launch!LaunchAssumption, ContextInv, LaunchTypes', NEW t \in Task, Launch!MoveAside(t)
  PROVE  ContextInv'
  <1>1. at[t] = "quarantine" /\ UNCHANGED died
    BY DEF Launch!MoveAside, Launch!Others, Launch!bounds
  <1>2. CASE Launch!Return(t, "drift") /\ UNCHANGED dirs
    BY <1>1, <1>2, DiskReturn DEF Staged
  <1>a. PICK n : n = Launch!Suffix("prune", memo[t].id)
    OBVIOUS
  <1>3. CASE /\ \E d \in Launch!At(memo[t].id) : Launch!StillOld(t, d)
             /\ Launch!Free("prune", memo[t].id) # {}
             /\ dirs' = (dirs \ Launch!At(memo[t].id)) \cup {[d EXCEPT !.kind = "prune", !.n = n] :
                d \in Launch!At(memo[t].id)}
             /\ Launch!Remember(t, [memo[t] EXCEPT !.n = n]) /\ Launch!Goto(t, "empty")
                /\ UNCHANGED owner
    <2>1. memo[t].id \in Launch!Id /\ owner[memo[t].id] = t /\ at[t] \in Locked
      BY <1>1, LaunchHas DEF Locked
    <2>2. PICK d \in Launch!At(memo[t].id) : Launch!StillOld(t, d)
      BY <1>3
    <2>3. Launch!At(memo[t].id) = {d} /\ d \in dirs /\ d.kind = "context" /\ d.id = memo[t].id
            /\ d \in LaunchDir
      BY <2>1, ContextIsOne, LaunchHas
    <2>4. PICK e : e = [d EXCEPT !.kind = "prune", !.n = n]
      OBVIOUS
    <2>5. e.kind = "prune" /\ e.n = n /\ e.id = d.id
      BY <2>3, <2>4 DEF LaunchDir
    <2>6. dirs' = (dirs \ {d}) \cup {e}
      BY <1>3, <2>3, <2>4
    <2>7. n \in Number \ {0} /\ \A x \in dirs : <<x.kind, x.id, x.n>> # <<"prune", memo[t].id, n>>
      BY <1>3, <1>a, Drawn
    <2>8. (\A u \in Task \ {t} : at'[u] = at[u] /\ memo'[u] = memo[u]) /\ at'[t] = "empty"
          /\ memo'[t] = [memo[t] EXCEPT !.n = n]
      <3>1. at \in [Task -> {"idle", "capture"} \cup Planning \cup Preparing \cup Pruning]
              /\ memo \in [Task -> LaunchCall]
        BY LaunchHas DEF LaunchTypes
      <3>2. QED BY <1>3, <3>1 DEF Launch!Goto, Launch!Remember
    <2>9. memo'[t].id = memo[t].id /\ memo'[t].n = n
      BY <2>8, LaunchHas DEF LaunchCall
    <2>10. Launch!Contexts' = Launch!Contexts \ {d}
             /\ \A i \in Launch!Id \ {memo[t].id} : Launch!At(i)' = Launch!At(i)
      BY <2>3, <2>5, <2>6 DEF Launch!Contexts, Launch!At
    <2>11. Launch!NamesAreUnique'
      BY <2>3, <2>5, <2>6, <2>7, LaunchHas DEF Launch!NamesAreUnique, Launch!PathOf
    <2>12. (\A x \in dirs' : x.kind = "context" <=>
             x.n = 0) /\ \A x \in Launch!Contexts' : Launch!Sealed(x) /\ x.copied = x.id.skill
      BY <2>5, <2>6, <2>7, <2>10, LaunchHas DEF ContextsHold
    <2>13. e \in Launch!Own(t, e.kind)' /\ Claims(t, e)'
      BY <2>3, <2>5, <2>6, <2>8, <2>9 DEF Launch!Own, Claims
    <2>14. \A x \in dirs' \ Launch!Contexts' :
             \/ x \in dirs /\ ~ Claims(t, x)
             \/ x.id = memo[t].id /\ x \in Launch!Own(t, x.kind)' /\ Claims(t, x)'
      <3>1. ~ HasStage(t) /\ at[t] # "empty"
        BY <1>1 DEF HasStage, Staged
      <3>2. ASSUME NEW x \in dirs' \ Launch!Contexts', x # e PROVE x \in dirs \ Launch!Contexts
        BY <2>6, <2>10, <3>2
      <3>3. QED BY <2>3, <2>5, <2>13, <3>1, <3>2, NoClaim
    <2>15. \A x \in dirs \cup dirs' : x.kind = "stage" /\ x.id # memo[t].id => (x \in dirs <=>
             x \in dirs')
      BY <2>3, <2>5, <2>6
    <2>16. LaunchKnows(t)'
      <3>1. owner'[memo'[t].id] = t
        BY <1>3, <2>1, <2>9
      <3>2. QED BY <2>8, <3>1 DEF LaunchKnows, HasStage, Staged, Staging
    <2>17. at'[t] \in Locked
      BY <2>8 DEF Locked
    <2>18. QED BY <1>1, <1>3, <2>1, <2>8, <2>9, <2>10, <2>11, <2>12, <2>14, <2>15, <2>16, <2>17,
             HolderStep
  <1>4. QED BY <1>2, <1>3, <1>a DEF Launch!MoveAside

LEMMA DiskEmpty ==
  ASSUME Launch!LaunchAssumption, ContextInv, LaunchTypes', NEW t \in Task, Launch!Empty(t)
  PROVE  ContextInv'
  <1>1. /\ at[t] = "empty" /\ UNCHANGED died /\ dirs' = dirs \ Launch!Quarantine(t)
        /\ owner' = [owner EXCEPT ![memo[t].id] = None] /\ Launch!Goto(t, "next")
    BY DEF Launch!Empty, Launch!Others, Launch!bounds
  <1>2. (\A u \in Task \ {t} : at'[u] = at[u] /\ memo'[u] = memo[u]) /\ at'[t] = "next"
    BY LaunchAt, LaunchHas DEF Launch!Empty
  <1>3. memo[t].id \in Launch!Id /\ owner[memo[t].id] = t
    BY <1>1, LaunchHas DEF Locked
  <1>4. \A x \in Launch!Quarantine(t) : x.kind = "prune"
    BY DEF Launch!Quarantine, Launch!Own
  <1>5. Launch!Contexts' = Launch!Contexts /\ (\A i : Launch!At(i)' = Launch!At(i))
          /\ \A u \in Task \ {t} : Launch!Stage(u)' = Launch!Stage(u)
    BY <1>1, <1>2, <1>4 DEF Launch!Contexts, Launch!At, Launch!Stage, Launch!Own
  <1>6. ASSUME NEW u \in Task \ {t}, NEW i \in Launch!Id, owner[i] = u PROVE owner'[i] = u
    BY <1>1, <1>3, <1>6, LaunchHas
  <1>7. ASSUME NEW u \in Task \ {t} PROVE LaunchKnows(u)' /\ HasStage(u)' = HasStage(u)
    BY <1>2, <1>5, <1>6, OthersKnow
  <1>8. LaunchKnows(t)'
    BY <1>2 DEF LaunchKnows, HasStage, Locked, Staged, Staging
  <1>9. ASSUME ~ died', NEW d \in dirs' \ Launch!Contexts'
        PROVE  \E u \in Task : owner'[d.id] = u /\ d \in Launch!Own(u, d.kind)' /\ Claims(u, d)'
    <2>1. d \in dirs \ Launch!Contexts /\ d.id \in Launch!Id /\ d \notin Launch!Quarantine(t)
            /\ d.kind \in {"stage", "prune"}
      <3>1. d \in dirs \ Launch!Contexts /\ d \notin Launch!Quarantine(t)
        BY <1>1, <1>5, <1>9
      <3>2. QED BY <3>1, LaunchHas DEF LaunchDir, Launch!Contexts
    <2>2. PICK u \in Task : owner[d.id] = u /\ d \in Launch!Own(u, d.kind) /\ Claims(u, d)
      BY <1>1, <1>9, <2>1 DEF ContextInv, ContextsHold
    <2>3. u # t
      BY <1>1, <2>1, <2>2 DEF Claims, HasStage, Staged, Launch!Quarantine
    <2>4. QED BY <1>2, <1>6, <1>7, <1>9, <2>1, <2>2, <2>3 DEF Launch!Own, Claims
  <1>10. ASSUME NEW i \in Launch!Id, owner'[i] # None
         PROVE  at'[owner'[i]] \in Locked /\ memo'[owner'[i]].id = i
    <2>1. i # memo[t].id
      BY <1>1, <1>10, LaunchHas
    <2>2. owner'[i] = owner[i] /\ owner[i] \in Task /\ at[owner[i]] \in Locked
            /\ memo[owner[i]].id = i
      BY <1>1, <1>10, <2>1, LaunchHas DEF ContextsHold
    <2>3. owner[i] # t
      BY <2>1, <2>2
    <2>4. QED BY <1>2, <2>2, <2>3
  <1>11. ContextsHold'
    BY <1>1, <1>5, <1>9, <1>10, LaunchHas DEF ContextsHold, Launch!NamesAreUnique
  <1>12. QED BY <1>7, <1>8, <1>11 DEF ContextInv

(* Nothing that happens outside touches a stage, a quarantine or a lock.    *)
LEMMA DiskOutside ==
  ASSUME Launch!LaunchAssumption, ContextInv, LaunchTypes',
         Launch!Environment \/ UNCHANGED Launch!vars
  PROVE  ContextInv'
  <1>1. UNCHANGED <<at, memo, owner, died>>
    BY DEF Launch!Environment, Launch!CommitConfig, Launch!CommitLock, Launch!Write,
           Launch!EditSkill,
           Launch!Upgrade, Launch!Tick, Launch!Touch, Launch!Edit, Launch!Settle, Launch!vars,
                Launch!bounds
  <1>2. ASSUME \A d : d \in Launch!Contexts' => \E x \in Launch!Contexts :
                 d.id = x.id /\ d.n = x.n /\ d.copied = x.copied /\ (Launch!Sealed(x) =>
                      Launch!Sealed(d)),
               \A d : d \in Launch!Contexts => Launch!At(d.id)' # {},
               dirs' \ Launch!Contexts' = dirs \ Launch!Contexts, Launch!NamesAreUnique'
        PROVE  ContextInv'
    <2>1. \A u \in Task : Launch!Stage(u)' = Launch!Stage(u) /\ HasStage(u)' = HasStage(u)
      BY <1>1, <1>2 DEF Launch!Stage, Launch!Own, Launch!Contexts, HasStage
    <2>2. \A i \in Launch!Id : Launch!At(i) # {} => Launch!At(i)' # {}
      BY <1>2 DEF Launch!At
    <2>3. ASSUME NEW u \in Task PROVE LaunchKnows(u)'
      BY <1>1, <2>1, <2>2, OthersKnow
    <2>4. \A u \in Task, d \in dirs \ Launch!Contexts : d \in Launch!Own(u, d.kind)
            /\ Claims(u, d) => d \in Launch!Own(u, d.kind)' /\ Claims(u, d)'
      BY <1>1, <1>2, <2>1 DEF Launch!Own, Claims
    <2>5. \A d \in dirs' : d.kind = "context" <=> d.n = 0
      <3>1. \A d \in dirs : d.kind = "context" <=> d.n = 0
        BY LaunchHas DEF ContextsHold, ContextInv
      <3>2. ASSUME NEW d \in Launch!Contexts' PROVE d.n = 0
        BY <1>2, <3>1 DEF Launch!Contexts
      <3>3. QED BY <1>2, <3>1, <3>2 DEF Launch!Contexts
    <2>6. \A d \in Launch!Contexts' : Launch!Sealed(d) /\ d.copied = d.id.skill
      BY <1>2 DEF ContextInv, ContextsHold
    <2>7. ~ died' => \A d \in dirs' \ Launch!Contexts' : \E u \in Task : owner'[d.id] = u
            /\ d \in Launch!Own(u, d.kind)' /\ Claims(u, d)'
      BY <1>1, <1>2, <2>4 DEF ContextInv, ContextsHold
    <2>8. \A i \in Launch!Id : owner'[i] # None =>
            at'[owner'[i]] \in Locked /\ memo'[owner'[i]].id = i
      BY <1>1 DEF ContextInv, ContextsHold
    <2>9. ContextsHold'
      BY <1>2, <2>5, <2>6, <2>7, <2>8 DEF ContextsHold
    <2>10. QED BY <2>3, <2>9 DEF ContextInv
  <1>3. CASE UNCHANGED dirs
    <2>1. Launch!Contexts' = Launch!Contexts /\ Launch!NamesAreUnique'
            /\ \A i : Launch!At(i)' = Launch!At(i)
      BY <1>3 DEF Launch!Contexts, Launch!NamesAreUnique, ContextInv, ContextsHold, Launch!At
    <2>2. QED BY <1>2, <1>3, <2>1 DEF Launch!At
  <1>4. ASSUME NEW d \in dirs, Launch!Touch(d) PROVE ContextInv'
    <2>1. PICK e : e = [d EXCEPT !.drift = TRUE]
      OBVIOUS
    <2>2. dirs' = (dirs \ {d}) \cup {e} /\ d \in Launch!Contexts
      BY <1>4, <2>1 DEF Launch!Touch
    <2>3. e.kind = d.kind /\ e.id = d.id /\ e.n = d.n /\ e.marked = d.marked
            /\ e.copied = d.copied /\ e.created = d.created
      BY <2>1, LaunchHas, LaunchOf DEF LaunchDir, ContextInv, LaunchTypes
    <2>4. Launch!Contexts' = (Launch!Contexts \ {d}) \cup {e}
      BY <2>2, <2>3 DEF Launch!Contexts
    <2>5. \A x : x \in Launch!Contexts' => \E y \in Launch!Contexts : x.id = y.id /\ x.n = y.n
            /\ x.copied = y.copied /\ (Launch!Sealed(y) => Launch!Sealed(x))
      BY <2>2, <2>3, <2>4 DEF Launch!Sealed
    <2>6. \A x : x \in Launch!Contexts => Launch!At(x.id)' # {}
      BY <2>3, <2>4 DEF Launch!At
    <2>7. dirs' \ Launch!Contexts' = dirs \ Launch!Contexts
      BY <2>2, <2>3, <2>4 DEF Launch!Contexts
    <2>8. Launch!NamesAreUnique'
      BY <2>2, <2>3 DEF Launch!NamesAreUnique, Launch!PathOf, ContextInv, ContextsHold
    <2>9. QED BY <1>2, <2>5, <2>6, <2>7, <2>8
  <1>5. QED BY <1>3, <1>4 DEF Launch!Environment, Launch!CommitConfig, Launch!CommitLock,
                              Launch!Write,
                              Launch!EditSkill, Launch!Upgrade, Launch!Tick, Launch!Edit,
                                   Launch!Settle, Launch!vars

LEMMA ContextsKept ==
  ASSUME Launch!LaunchAssumption, ContextInv, [Launch!Next]_(Launch!vars)
  PROVE  ContextInv'
  <1>1. LaunchTypes'
    BY TypesKept DEF ContextInv
  <1>2. ASSUME NEW t \in Task, Launch!Crash(t) PROVE ContextInv'
    BY <1>1, <1>2, DiskReturn DEF Launch!Crash
  <1>3. QED BY <1>1, <1>2, DiskPlan, DiskScan, DiskAcquire, DiskRecover, DiskMake, DiskWrite,
          DiskCheck,
  DiskPublish,
               DiskMove, DiskEmpty, DiskOutside DEF Launch!Next, Launch!Step, Launch!PrepareStep,
                                                    Launch!PruneStep, Launch!LockStep

LEMMA ContextsStart == ASSUME Launch!LaunchAssumption PROVE Launch!Init => ContextInv
  <1> SUFFICES ASSUME Launch!Init PROVE ContextInv
    OBVIOUS
  <1>1. LaunchTypes
    BY LaunchStarts
  <1>2. \A t \in Task : LaunchKnows(t)
    BY DEF Launch!Init, LaunchKnows, HasStage, Locked, Staging, Staged
  <1>3. \A d \in dirs : d.kind = "context" /\ d.n = 0 /\ Launch!Sealed(d) /\ d.copied = d.id.skill
    <2>1. ASSUME NEW i \in Launch!Id
          PROVE  LET p == Launch!Published(i) IN p.kind = "context" /\ p.n = 0
               /\ Launch!Sealed(p) /\ p.copied = p.id.skill
      <3>1. i.skill \in Int
        BY DEF Launch!Id, Launch!Version
      <3>2. QED BY <3>1 DEF Launch!Published, Launch!Directory, Launch!Sealed,
                            Launch!LaunchAssumption
    <2>2. [config |-> config, lock |-> lock, skill |-> 0] \in Launch!Id
      BY NoCallIs DEF Launch!Init, Launch!Id
    <2>3. QED BY <2>1, <2>2 DEF Launch!Init
  <1>4. Launch!NamesAreUnique /\ dirs = Launch!Contexts
    BY <1>3 DEF Launch!Init, Launch!NamesAreUnique, Launch!Contexts
  <1>5. \A i \in Launch!Id : owner[i] = None
    BY DEF Launch!Init
  <1>6. ContextsHold
    BY <1>3, <1>4, <1>5 DEF ContextsHold
  <1>7. QED BY <1>1, <1>2, <1>6 DEF ContextInv

LEMMA WholeThen == ASSUME ContextInv PROVE Launch!ContextsAreWhole
  <1>1. LaunchTypes /\ ContextsHold
    BY DEF ContextInv
  <1>2. Launch!TypeOK
    <2>1. \A t \in Task : memo[t].id \in Launch!Id \cup {None} /\ memo[t].tries < Launch!MaxAttempts
      <3>1. ASSUME NEW t \in Task
            PROVE  memo[t].id \in Launch!Id \cup {None} /\ memo[t].tries \in Attempt
        BY <1>1 DEF LaunchTypes, LaunchCall
      <3>2. QED BY <3>1 DEF Attempt, Launch!MaxAttempts
    <2>2. \A d \in dirs : d.kind \in {"context", "stage", "prune"} /\ d.id \in Launch!Id
            /\ d.n \in 0 .. MaxLaunchEvents
      BY <1>1 DEF LaunchTypes, LaunchDir, Number
    <2>3. QED BY <1>1, <2>1, <2>2 DEF Launch!TypeOK, LaunchTypes, LaunchWorld, ContextsHold
  <1>3. Launch!PublishedIsWhole /\ Launch!NamesAreUnique /\ Launch!DebrisNeedsCrash
    BY <1>1 DEF Launch!PublishedIsWhole, ContextsHold, Launch!DebrisNeedsCrash
  <1>4. QED BY <1>2, <1>3 DEF Launch!ContextsAreWhole

(* For the launch contexts by themselves. *)
LEMMA WholeInLaunch == ASSUME Launch!LaunchAssumption PROVE Launch!Spec => []Launch!ContextsAreWhole
  <1>1. Launch!Init => ContextInv
    BY ContextsStart
  <1>2. ContextInv /\ [Launch!Next]_(Launch!vars) => ContextInv'
    BY ContextsKept
  <1>3. ContextInv => Launch!ContextsAreWhole
    BY WholeThen
  <1>4. QED BY <1>1, <1>2, <1>3, PTL DEF Launch!Spec

(* What a call knows as long as nothing else happened: of the project, ...  *)
Planned(t) ==
  /\ at[t] \in Planning \cup Preparing => memo[t].input = Launch!Input
  /\ at[t] \in {"lock", "base", "compare", "plan"} => memo[t].config = config
  /\ at[t] \in {"base", "compare", "plan"} => memo[t].lock = lock
  /\ at[t] \in {"compare", "plan"} => memo[t].current = projected
  /\ at[t] \in Preparing => memo[t].id = [config |-> config, lock |-> lock, skill |-> skill]

Copied(t) == at[t] = "seal" => \A d \in Launch!Stage(t) : d.copied = skill

(* ... and of the contexts that it listed.                                  *)
Listed(t) ==
  /\ at[t] = "scan" => memo[t].candidates = {}
  /\ at[t] = "inspect" => \A x \in memo[t].candidates : \E d \in Launch!At(x[1]) :
     Launch!Verified(d) /\ d.created = x[2]
  /\ at[t] \in {"next", "quarantine", "empty"} => \A i \in memo[t].candidates :
       (at[t] = "empty" /\ i = memo[t].id) \/ \E d \in Launch!At(i) : Launch!StillOld(t, d)
  /\ at[t] = "quarantine" => memo[t].id \in memo[t].candidates

Undisturbed(t) == Planned(t) /\ Copied(t) /\ Listed(t)

(* Of the pairs of files that there were while a call planned.              *)
Saw(t) ==
  /\ at[t] \in {"capture", "config", "lock", "base", "compare"} => Launch!Input \in seen[t]
  /\ at[t] \in {"config", "lock", "base", "compare"} =>
       \/ None \in seen[t]
       \/ /\ memo[t].input \in seen[t]
          /\ memo[t].input = Launch!Input =>
               /\ at[t] # "config" => memo[t].config = config
               /\ at[t] \in {"base", "compare"} => memo[t].lock = lock

(* Users change contexts only, and before the upgrade there is one release. *)
Fresh(d) ==
  /\ d.kind = "stage" => ~ d.drift
  /\ d.kind = "context" => d.release \in Launch!Version
  /\ release = 0 => d.release # 1
FreshHolds == (\A d \in dirs : Fresh(d)) /\ (release = 0 => \A t \in Task : memo[t].release = 0)

HonestInv == ContextInv /\ FreshHolds /\ \A t \in Task : Saw(t) /\ (disturbed[t] \/ Undisturbed(t))

(* What a step of a call leaves of the others. *)
Apart(t) ==
  /\ \A u \in Task \ {t} : at'[u] = at[u] /\ memo'[u] = memo[u] /\ seen'[u] = seen[u]
  /\ \A u \in Task \ {t} : disturbed[u] => disturbed'[u]
  /\ \A u \in Task \ {t} : Launch!Contexts \subseteq Launch!Contexts' \/ disturbed'[u]
     \/ ~ Launch!Active(u)
  /\ \A d \in dirs \cup dirs' : d.kind = "stage" /\ d.id # memo[t].id => (d \in dirs <=>
     d \in dirs')
  /\ at[t] \notin Locked => dirs' = dirs
  /\ UNCHANGED Launch!project

LEMMA ReturnApart ==
  ASSUME ContextInv, NEW t \in Task, NEW what, Launch!Return(t, what), dirs' \in {dirs,
  dirs \ Launch!Stage(t)},
         dirs' # dirs => at[t] \in Locked, UNCHANGED Launch!project
  PROVE  Apart(t)
  <1>1. \A u \in Task \ {t} : at'[u] = at[u] /\ memo'[u] = memo[u]
    BY LaunchAt, LaunchHas DEF Launch!Return
  <1>2. \A u \in Task \ {t} : seen'[u] = seen[u] /\ disturbed'[u] = disturbed[u]
    BY LaunchHas DEF Launch!Return, LaunchTypes
  <1>3. \A d \in Launch!Stage(t) : d.kind = "stage" /\ d.id = memo[t].id
    BY DEF Launch!Stage, Launch!Own
  <1>4. Launch!Contexts' = Launch!Contexts
    BY <1>3 DEF Launch!Contexts
  <1>5. QED BY <1>1, <1>2, <1>3, <1>4 DEF Apart

LEMMA SilentApart ==
  ASSUME ContextInv, NEW t \in Task, NEW s, NEW c, Launch!Goto(t, s), Launch!Remember(t, c),
  UNCHANGED <<seen, disturbed, Launch!project>>,
         Launch!Contexts \subseteq Launch!Contexts', at[t] \notin Locked => dirs' = dirs,
         \A d \in dirs \cup dirs' : d.kind = "stage" /\ d.id # memo[t].id => (d \in dirs <=>
              d \in dirs')
  PROVE  Apart(t)
  BY LaunchAt, LaunchHas DEF Apart

LEMMA PlanApart ==
  ASSUME ContextInv, NEW t \in Task,
         Launch!Capture(t) \/ Launch!ReadConfig(t) \/ Launch!ReadLock(t) \/ Launch!ReadBase(t)
              \/ Launch!Compare(t) \/ Launch!Plan(t) \/ Launch!Unsupported(t)
  PROVE  Apart(t)
  <1>1. UNCHANGED <<dirs, Launch!project>>
    BY DEF Launch!Capture, Launch!ReadConfig, Launch!ReadLock, Launch!ReadBase, Launch!Read,
           Launch!Compare, Launch!Plan, Launch!Unsupported, Launch!Others
  <1>2. Launch!Contexts' = Launch!Contexts
    BY <1>1 DEF Launch!Contexts
  <1>3. ASSUME NEW what, Launch!Return(t, what) PROVE Apart(t)
    BY <1>1, <1>3, ReturnApart
  <1>4. ASSUME NEW s, NEW c, Launch!Goto(t, s), Launch!Remember(t, c), UNCHANGED <<seen, disturbed>>
        PROVE  Apart(t)
    BY <1>1, <1>2, <1>4, SilentApart
  <1>5. CASE Launch!Capture(t) \/ Launch!ReadConfig(t) \/ Launch!ReadLock(t) \/ Launch!ReadBase(t)
    BY <1>4, <1>5 DEF Launch!Capture, Launch!ReadConfig, Launch!ReadLock, Launch!ReadBase,
                      Launch!Read,
                      Launch!Silently
  <1>6. CASE Launch!Plan(t) \/ Launch!Unsupported(t)
    BY <1>3, <1>4, <1>6 DEF Launch!Plan, Launch!Unsupported, Launch!Silently
  <1>7. CASE Launch!Compare(t)
    <2>1. CASE Launch!Goto(t, "plan") /\ seen' = [seen EXCEPT ![t] = {}]
            /\ UNCHANGED <<memo, disturbed>>
      <3>1. \A u \in Task \ {t} : at'[u] = at[u] /\ seen'[u] = seen[u]
        BY <2>1, LaunchHas DEF Launch!Goto, LaunchTypes
      <3>2. QED BY <1>1, <1>2, <2>1, <3>1 DEF Apart
    <2>2. QED BY <1>3, <1>4, <1>7, <2>1 DEF Launch!Compare, Launch!Silently
  <1>8. QED BY <1>5, <1>6, <1>7

LEMMA ScanApart ==
  ASSUME ContextInv, NEW t \in Task,
         Launch!Scan(t) \/ Launch!Inspect(t) \/ Launch!Choose(t) \/ Launch!EndPrune(t)
              \/ Launch!StartPrepare(t) \/ Launch!StartPrune(t) \/ Launch!Crash(t)
         \/ \E i \in Launch!Id : Launch!Acquire(t, i) \/ Launch!TimeOut(t, i)
  PROVE  Apart(t)
  <1>1. UNCHANGED <<dirs, Launch!project>>
    BY DEF Launch!Scan, Launch!Inspect, Launch!Choose, Launch!EndPrune, Launch!StartPrepare,
           Launch!StartPrune, Launch!Begin, Launch!Acquire, Launch!TimeOut, Launch!Crash,
                Launch!Others
  <1>2. Launch!Contexts' = Launch!Contexts
    BY <1>1 DEF Launch!Contexts
  <1>3. ASSUME NEW what, Launch!Return(t, what) PROVE Apart(t)
    BY <1>1, <1>3, ReturnApart
  <1>4. ASSUME NEW s, NEW c, Launch!Goto(t, s), Launch!Remember(t, c), UNCHANGED <<seen, disturbed>>
        PROVE  Apart(t)
    BY <1>1, <1>2, <1>4, SilentApart
  <1>5. CASE Launch!Inspect(t)
    <2>1. Launch!Goto(t, at[t])
      BY <1>5, LaunchHas DEF Launch!Inspect, Launch!Goto, LaunchTypes
    <2>2. QED BY <1>4, <1>5, <2>1 DEF Launch!Inspect, Launch!Silently
  <1>6. CASE Launch!Scan(t) \/ Launch!Choose(t)
    BY <1>3, <1>4, <1>6 DEF Launch!Scan, Launch!Choose, Launch!Silently
  <1>7. CASE \E i \in Launch!Id : Launch!Acquire(t, i)
    BY <1>4, <1>7 DEF Launch!Acquire, Launch!Silently
  <1>8. CASE Launch!StartPrepare(t) \/ Launch!StartPrune(t)
    <2>1. PICK s : Launch!Begin(t, s)
      BY <1>8 DEF Launch!StartPrepare, Launch!StartPrune
    <2>2. \A u \in Task \ {t} : at'[u] = at[u] /\ memo'[u] = memo[u]
      BY <2>1, LaunchAt, LaunchHas DEF Launch!Begin
    <2>3. \A u \in Task \ {t} : seen'[u] = seen[u] /\ disturbed'[u] = disturbed[u]
      BY <2>1, LaunchHas DEF Launch!Begin, LaunchTypes
    <2>4. QED BY <1>1, <1>2, <2>2, <2>3 DEF Apart
  <1>9. QED BY <1>3, <1>5, <1>6, <1>7, <1>8 DEF Launch!EndPrune, Launch!Crash, Launch!TimeOut

LEMMA StageApart ==
  ASSUME Launch!LaunchAssumption, ContextInv, NEW t \in Task,
         Launch!Recover(t) \/ Launch!MakeStage(t) \/ Launch!MarkStage(t) \/ Launch!Copy(t)
              \/ Launch!Seal(t)
  PROVE  Apart(t)
  <1>1. UNCHANGED Launch!project /\ at[t] \in Locked
    BY DEF Launch!Recover, Launch!MakeStage, Launch!MarkStage, Launch!Copy, Launch!Seal,
           Launch!Rewrite,
           Launch!Abandon, Launch!Others, Locked, Staging
  <1>2. \A d \in Launch!Stage(t) : d.kind = "stage" /\ d.id = memo[t].id /\ d \in LaunchDir
    BY LaunchHas DEF Launch!Stage, Launch!Own
  <1>4. CASE Launch!Recover(t)
    <2>1. Launch!Contexts' = Launch!Contexts
      BY <1>4 DEF Launch!Recover, Launch!Contexts
    <2>2. QED BY <1>1, <1>4, <2>1, SilentApart DEF Launch!Recover, Launch!Silently
  <1>5. CASE Launch!MakeStage(t)
    <2>1. PICK n : /\ dirs' = dirs \cup {Launch!Directory("stage", memo[t].id, n)}
                      /\ Launch!Goto(t, "mark")
                   /\ Launch!Remember(t, [memo[t] EXCEPT !.n = n]) /\ UNCHANGED <<seen, disturbed>>
      BY <1>5 DEF Launch!MakeStage, Launch!Silently
    <2>2. Launch!Contexts \subseteq Launch!Contexts'
      BY <2>1 DEF Launch!Contexts
    <2>3. Launch!Directory("stage", memo[t].id, n).id = memo[t].id
      BY DEF Launch!Directory
    <2>4. QED BY <1>1, <2>1, <2>2, <2>3, SilentApart
  <1>6. ASSUME NEW step, NEW s, NEW e, Launch!Rewrite(t, step, s, e), e.kind = "stage",
               e.id = memo[t].id
        PROVE  Apart(t)
    <2>1. Launch!Contexts \subseteq Launch!Contexts'
      BY <1>2, <1>6 DEF Launch!Contexts, Launch!Rewrite
    <2>2. \A d \in dirs \cup dirs' : d.kind = "stage" /\ d.id # memo[t].id => (d \in dirs <=>
            d \in dirs')
      BY <1>2, <1>6 DEF Launch!Rewrite
    <2>3. Launch!Remember(t, memo[t]) /\ Launch!Goto(t, s) /\ UNCHANGED <<seen, disturbed>>
      BY <1>6, LaunchHas DEF Launch!Rewrite, Launch!Silently, Launch!Remember, LaunchTypes
    <2>4. QED BY <1>1, <2>1, <2>2, <2>3, SilentApart
  <1>7. ASSUME NEW d \in Launch!Stage(t), NEW r, NEW w PROVE
          /\ [d EXCEPT !.marked = r].kind = "stage" /\ [d EXCEPT !.marked = r].id = memo[t].id
          /\ [d EXCEPT !.copied = r].kind = "stage" /\ [d EXCEPT !.copied = r].id = memo[t].id
          /\ [d EXCEPT !.release = r, !.created = w].kind = "stage"
             /\ [d EXCEPT !.release = r, !.created = w].id = memo[t].id
    BY <1>2 DEF LaunchDir
  <1>8. CASE Launch!MarkStage(t)
    BY <1>6, <1>7, <1>8 DEF Launch!MarkStage
  <1>9. CASE Launch!Copy(t)
    BY <1>6, <1>7, <1>9 DEF Launch!Copy
  <1>10. CASE Launch!Seal(t)
    <2>1. PICK d \in Launch!Stage(t) :
            \/ Launch!Rewrite(t, "seal", "sources", [d EXCEPT !.release = memo[t].release,
               !.created = clock])
            \/ Launch!Abandon(t, "changed")
      BY <1>10 DEF Launch!Seal
    <2>2. CASE Launch!Abandon(t, "changed")
      BY <1>1, <2>2, ReturnApart DEF Launch!Abandon
    <2>3. PICK e : e = [d EXCEPT !.release = memo[t].release, !.created = clock]
      OBVIOUS
    <2>4. e.kind = "stage" /\ e.id = memo[t].id
      BY <1>7, <2>3
    <2>5. CASE Launch!Rewrite(t, "seal", "sources", e)
      BY <1>6, <2>4, <2>5
    <2>6. QED BY <2>1, <2>2, <2>3, <2>5
  <1>11. QED BY <1>4, <1>5, <1>8, <1>9, <1>10

LEMMA CheckApart ==
  ASSUME Launch!LaunchAssumption, ContextInv, NEW t \in Task,
         Launch!RecheckSources(t) \/ Launch!RecheckProjection(t) \/ Launch!RecheckInput(t)
              \/ Launch!Reuse(t) \/ Launch!Publish(t)
  PROVE  Apart(t)
  <1>1. UNCHANGED Launch!project /\ at[t] \in Locked
    BY DEF Launch!RecheckSources, Launch!RecheckProjection, Launch!RecheckInput, Launch!Reuse,
           Launch!Publish, Launch!Check, Launch!Abandon, Launch!Others, Locked, Staging
  <1>2. ASSUME NEW what, Launch!Abandon(t, what) PROVE Apart(t)
    BY <1>1, <1>2, ReturnApart DEF Launch!Abandon
  <1>3. ASSUME NEW s, Launch!Goto(t, s), UNCHANGED <<dirs, memo, seen, disturbed>> PROVE Apart(t)
    <2>1. Launch!Contexts' = Launch!Contexts /\ Launch!Remember(t, memo[t])
      BY <1>3, LaunchHas DEF Launch!Contexts, Launch!Remember, LaunchTypes
    <2>2. QED BY <1>1, <1>3, <2>1, SilentApart
  <1>4. CASE Launch!RecheckSources(t) \/ Launch!RecheckProjection(t) \/ Launch!RecheckInput(t)
    BY <1>2, <1>3, <1>4 DEF Launch!RecheckSources, Launch!RecheckProjection, Launch!RecheckInput,
                            Launch!Check, Launch!Silently
  <1>5. CASE Launch!Reuse(t)
    BY <1>2, <1>5 DEF Launch!Reuse
  <1>6. CASE /\ dirs' = (dirs \ Launch!Stage(t)) \cup {[d EXCEPT !.kind = "context", !.n = 0] :
                d \in Launch!Stage(t)} /\ Launch!Return(t, "ok")
    <2>1. \A d \in Launch!Stage(t) : d.kind = "stage" /\ d.id = memo[t].id /\ d \in LaunchDir
      BY LaunchHas DEF Launch!Stage, Launch!Own
    <2>2. \A d \in Launch!Stage(t) : [d EXCEPT !.kind = "context", !.n = 0].kind = "context"
      BY <2>1 DEF LaunchDir
    <2>3. \A d \in dirs \cup dirs' : d.kind = "stage" /\ d.id # memo[t].id => (d \in dirs <=>
            d \in dirs')
      BY <1>6, <2>1, <2>2
    <2>4. Launch!Contexts \subseteq Launch!Contexts'
      BY <1>6, <2>1 DEF Launch!Contexts
    <2>5. \A u \in Task \ {t} : at'[u] = at[u] /\ memo'[u] = memo[u]
      BY <1>6, LaunchAt, LaunchHas DEF Launch!Return
    <2>6. \A u \in Task \ {t} : seen'[u] = seen[u] /\ disturbed'[u] = disturbed[u]
      BY <1>6, LaunchHas DEF Launch!Return, LaunchTypes
    <2>7. QED BY <1>1, <2>3, <2>4, <2>5, <2>6 DEF Apart
  <1>7. QED BY <1>2, <1>4, <1>5, <1>6 DEF Launch!Publish

LEMMA MoveApart ==
  ASSUME Launch!LaunchAssumption, ContextInv, NEW t \in Task, Launch!MoveAside(t) \/ Launch!Empty(t)
  PROVE  Apart(t)
  <1>1. UNCHANGED Launch!project /\ at[t] \in Locked
    BY DEF Launch!MoveAside, Launch!Empty, Launch!Others, Locked
  <1>2. CASE Launch!Return(t, "drift") /\ UNCHANGED dirs
    BY <1>1, <1>2, ReturnApart
  <1>3. CASE Launch!Empty(t)
    <2>1. \A d \in Launch!Quarantine(t) : d.kind = "prune"
      BY DEF Launch!Quarantine, Launch!Own
    <2>2. Launch!Contexts' = Launch!Contexts /\ \A d \in dirs \cup dirs' : d.kind = "stage" =>
            (d \in dirs <=> d \in dirs')
      BY <1>3, <2>1 DEF Launch!Empty, Launch!Contexts
    <2>3. QED BY <1>1, <1>3, <2>2, SilentApart DEF Launch!Empty, Launch!Silently
  <1>4. ASSUME NEW n, dirs' = (dirs \ Launch!At(memo[t].id)) \cup {[d EXCEPT !.kind = "prune",
  !.n = n] : d \in Launch!At(memo[t].id)},
               NEW c, Launch!Remember(t, c), Launch!Goto(t, "empty"), Launch!DisturbBut(t),
                    UNCHANGED seen
        PROVE  Apart(t)
    <2>1. \A d \in Launch!At(memo[t].id) : d.kind = "context" /\ d \in LaunchDir
      BY LaunchHas DEF Launch!At, Launch!Contexts
    <2>2. \A d \in Launch!At(memo[t].id) : [d EXCEPT !.kind = "prune", !.n = n].kind = "prune"
      BY <2>1 DEF LaunchDir
    <2>3. \A d \in dirs \cup dirs' : d.kind = "stage" => (d \in dirs <=> d \in dirs')
      BY <1>4, <2>1, <2>2
    <2>4. \A u \in Task \ {t} : at'[u] = at[u] /\ memo'[u] = memo[u]
      BY <1>4, LaunchAt, LaunchHas
    <2>5. \A u \in Task \ {t} : disturbed'[u] = (disturbed[u] \/ Launch!Active(u))
      BY <1>4 DEF Launch!DisturbBut
    <2>6. QED BY <1>1, <1>4, <2>3, <2>4, <2>5 DEF Apart
  <1>5. QED BY <1>2, <1>3, <1>4 DEF Launch!MoveAside

Moved(t) == Launch!Step(t) \/ Launch!Crash(t) \/ Launch!StartPrepare(t) \/ Launch!StartPrune(t)

LEMMA StepsApart ==
  ASSUME Launch!LaunchAssumption, ContextInv, NEW t \in Task, Moved(t)
  PROVE  Apart(t)
  BY PlanApart, ScanApart, StageApart, CheckApart, MoveApart
    DEF Moved, Launch!Step, Launch!PrepareStep, Launch!PruneStep, Launch!LockStep

LEMMA IdleIsHonest == ASSUME NEW t \in Task, at[t] = "idle" PROVE Saw(t) /\ Undisturbed(t)
  BY DEF Saw, Undisturbed, Planned, Copied, Listed, Planning, Preparing, Staging

LEMMA OthersHonest ==
  ASSUME Launch!LaunchAssumption, HonestInv, NEW t \in Task, Apart(t), NEW u \in Task \ {t}
  PROVE  Saw(u)' /\ (disturbed'[u] \/ Undisturbed(u)')
  <1>1. ContextInv /\ Saw(u) /\ (disturbed[u] \/ Undisturbed(u))
    BY DEF HonestInv
  <1>2. /\ at'[u] = at[u] /\ memo'[u] = memo[u] /\ seen'[u] = seen[u] /\ (disturbed[u] =>
           disturbed'[u])
        /\ Launch!Contexts \subseteq Launch!Contexts' \/ disturbed'[u] \/ ~ Launch!Active(u)
        /\ UNCHANGED Launch!project
    BY DEF Apart
  <1>3. Saw(u)'
    BY <1>1, <1>2 DEF Saw, Launch!Input, Launch!project
  <1>4. CASE ~ Launch!Active(u)
    <2>1. at'[u] = "idle"
      BY <1>2, <1>4 DEF Launch!Active
    <2>2. Undisturbed(u)'
      BY <2>1 DEF Undisturbed, Planned, Copied, Listed, Planning, Preparing, Staging
    <2>3. QED BY <1>3, <2>2
  <1>5. CASE Launch!Contexts \subseteq Launch!Contexts' /\ Undisturbed(u)
    <2>1. Planned(u)'
      BY <1>2, <1>5 DEF Undisturbed, Planned, Launch!Input, Launch!project
    <2>2. Copied(u)'
      <3>1. SUFFICES ASSUME at[u] = "seal" PROVE Launch!Stage(u)' = Launch!Stage(u)
        BY <1>2, <1>5 DEF Undisturbed, Copied, Launch!project
      <3>2. at[u] \in Locked
        BY <3>1 DEF Locked, Staging
      <3>3. CASE at[t] \notin Locked
        BY <1>2, <3>3 DEF Apart, Launch!Stage, Launch!Own
      <3>4. CASE at[t] \in Locked
        <4>1. memo[u].id # memo[t].id
          BY <1>1, <3>2, <3>4, LaunchHas
        <4>2. QED BY <1>2, <4>1 DEF Apart, Launch!Stage, Launch!Own
      <3>5. QED BY <3>3, <3>4
    <2>3. \A i : Launch!At(i) \subseteq Launch!At(i)'
      BY <1>5 DEF Launch!At
    <2>4. \A d : Launch!StillOld(u, d)' = Launch!StillOld(u, d)
      BY <1>2 DEF Launch!StillOld
    <2>5. Listed(u)'
      BY <1>2, <1>5, <2>3, <2>4 DEF Undisturbed, Listed
    <2>6. QED BY <1>3, <2>1, <2>2, <2>5 DEF Undisturbed
  <1>6. QED BY <1>1, <1>2, <1>3, <1>4, <1>5

LEMMA OutsideHonest ==
  ASSUME Launch!LaunchAssumption, HonestInv, Launch!Environment \/ UNCHANGED Launch!vars,
         NEW u \in Task
  PROVE  Saw(u)' /\ (disturbed'[u] \/ Undisturbed(u)')
  <1>1. ContextInv /\ Saw(u) /\ (disturbed[u] \/ Undisturbed(u)) /\ LaunchTypes /\ u # None
    BY DEF HonestInv, ContextInv, Launch!LaunchAssumption
  <1>2. UNCHANGED <<at, memo>>
    BY DEF Launch!Environment, Launch!CommitConfig, Launch!CommitLock, Launch!Write,
           Launch!EditSkill,
           Launch!Upgrade, Launch!Tick, Launch!Touch, Launch!Edit, Launch!Settle, Launch!vars
  <1>3. Saw(u)'
    <2>1. CASE UNCHANGED <<config, lock>> /\ seen' = seen
      BY <1>1, <1>2, <2>1 DEF Saw, Launch!Input
    <2>2. CASE Launch!Seen
      <3>1. seen'[u] = IF seen[u] = {} THEN {}
                       ELSE seen[u] \cup {Launch!Input'} \cup (IF Launch!Input' \in seen[u]
                            THEN {None} ELSE {})
        BY <2>2 DEF Launch!Seen
      <3>2. at[u] \in {"capture", "config", "lock", "base", "compare"} =>
              Launch!Input' \in seen'[u] /\ seen[u] \subseteq seen'[u]
        BY <1>1, <3>1 DEF Saw
      <3>3. ASSUME at[u] \in {"config", "lock", "base", "compare"}
            PROVE  None \in seen'[u] \/ (memo[u].input \in seen'[u]
                 /\ memo[u].input # Launch!Input')
        <4>1. Launch!Input \in seen[u] /\ (None \in seen[u] \/ memo[u].input \in seen[u])
          BY <1>1, <3>3 DEF Saw
        <4>2. QED BY <3>1, <4>1
      <3>4. QED BY <1>2, <3>2, <3>3 DEF Saw
    <2>3. CASE Launch!CommitConfig \/ Launch!CommitLock
      BY <2>2, <2>3 DEF Launch!CommitConfig, Launch!CommitLock
    <2>4. CASE Launch!Write \/ Launch!EditSkill \/ Launch!Upgrade \/ Launch!Tick
            \/ (\E d \in dirs : Launch!Touch(d)) \/ UNCHANGED Launch!vars
      BY <2>1, <2>4 DEF Launch!Write, Launch!EditSkill, Launch!Upgrade, Launch!Tick, Launch!Touch,
                        Launch!vars, Launch!project, Launch!Silently, Launch!Settle
    <2>5. QED BY <2>3, <2>4 DEF Launch!Environment
  <1>4. ASSUME Launch!DisturbBut(None) PROVE disturbed'[u] \/ Undisturbed(u)'
    <2>1. disturbed'[u] = (disturbed[u] \/ Launch!Active(u))
      BY <1>1, <1>4 DEF Launch!DisturbBut
    <2>2. CASE ~ Launch!Active(u)
      BY <1>2, <2>2 DEF Launch!Active, Undisturbed, Planned, Copied, Listed, Planning, Preparing,
                        Staging
    <2>3. QED BY <2>1, <2>2
  <1>5. CASE UNCHANGED <<Launch!project, dirs, disturbed>>
    <2>1. Planned(u)' = Planned(u)
      BY <1>2, <1>5 DEF Planned, Launch!Input, Launch!project
    <2>2. Copied(u)' = Copied(u)
      BY <1>2, <1>5 DEF Copied, Launch!project, Launch!Stage, Launch!Own
    <2>3. Listed(u)' = Listed(u)
      BY <1>2, <1>5 DEF Listed, Launch!At, Launch!Contexts, Launch!StillOld
    <2>4. Undisturbed(u) => Undisturbed(u)'
      BY <2>1, <2>2, <2>3 DEF Undisturbed
    <2>5. disturbed[u] => disturbed'[u]
      BY <1>5
    <2>6. QED BY <1>1, <1>3, <2>4, <2>5
  <1>6. QED BY <1>3, <1>4, <1>5 DEF Launch!Environment, Launch!CommitConfig, Launch!CommitLock,
                                    Launch!Write, Launch!EditSkill, Launch!Upgrade, Launch!Tick,
                                    Launch!Touch,
                                    Launch!Edit, Launch!Settle, Launch!vars, Launch!Silently

(* What a call reads. *)
LEMMA ReturnHonest ==
  ASSUME ContextInv, NEW t \in Task, NEW what, Launch!Return(t, what)
  PROVE  Saw(t)' /\ (disturbed'[t] \/ Undisturbed(t)')
  <1>1. at'[t] = "idle"
    BY LaunchAt, LaunchHas DEF Launch!Return
  <1>2. QED BY <1>1 DEF Saw, Undisturbed, Planned, Copied, Listed, Planning, Preparing, Staging

LEMMA ReadHonest ==
  ASSUME Launch!LaunchAssumption, HonestInv, NEW t \in Task,
         Launch!Capture(t) \/ Launch!ReadConfig(t) \/ Launch!ReadLock(t) \/ Launch!ReadBase(t)
  PROVE  Saw(t)' /\ (disturbed'[t] \/ Undisturbed(t)')
  <1>1. ContextInv /\ Saw(t) /\ (disturbed[t] \/ Undisturbed(t)) /\ memo[t] \in LaunchCall
    BY LaunchHas DEF HonestInv
  <1>2. UNCHANGED <<Launch!project, seen, disturbed>>
    BY DEF Launch!Capture, Launch!ReadConfig, Launch!ReadLock, Launch!ReadBase, Launch!Read,
           Launch!Silently, Launch!Others
  <1>3. Launch!Input' = Launch!Input /\ config' = config /\ lock' = lock /\ projected' = projected
    BY <1>2 DEF Launch!Input, Launch!project
  <1>4. ASSUME NEW step \in {"capture", "config", "lock", "base"}, at[t] = step,
               NEW s \in {"config",
  "lock", "base", "compare"},
               NEW c, at'[t] = s, memo'[t] = c,
               Launch!Input \in seen[t],
               s = "config" => step = "capture", s # "config" => step # "capture",
               c.input = (IF s = "config" THEN Launch!Input ELSE memo[t].input),
               s # "config" => c.config = IF s = "lock" THEN config ELSE memo[t].config,
               s = "lock" => step = "config",
               s \in {"base", "compare"} => step \in {"lock", "base"},
               s = "base" => step = "lock" /\ c.lock = lock,
               s = "compare" => step = "base" /\ c.lock = memo[t].lock /\ c.current = projected
        PROVE  Saw(t)' /\ (disturbed'[t] \/ Undisturbed(t)')
    <2>1. Saw(t)'
      BY <1>1, <1>2, <1>3, <1>4 DEF Saw
    <2>2. ASSUME Undisturbed(t) PROVE Planned(t)'
      BY <1>2, <1>3, <1>4, <2>2 DEF Undisturbed, Planned, Planning, Preparing, Staging
    <2>3. Copied(t)' /\ Listed(t)'
      BY <1>4 DEF Copied, Listed
    <2>4. QED BY <1>1, <1>2, <2>1, <2>2, <2>3 DEF Undisturbed
  <1>5. at[t] \in {"capture", "config", "lock", "base"} /\ Launch!Input \in seen[t]
    BY <1>1 DEF Launch!Capture, Launch!ReadConfig, Launch!ReadLock, Launch!ReadBase, Launch!Read,
                Saw
  <1>6. CASE Launch!Capture(t)
    <2>1. at[t] = "capture" /\ at'[t] = "config"
            /\ memo'[t] = [memo[t] EXCEPT !.input = Launch!Input]
      BY <1>6, LaunchAt, LaunchHas, <1>1 DEF Launch!Capture, Launch!Read
    <2>2. memo'[t].input = Launch!Input
      BY <1>1, <2>1 DEF LaunchCall
    <2>3. QED BY <1>4, <1>5, <2>1, <2>2
  <1>7. CASE Launch!ReadConfig(t)
    <2>1. at[t] = "config" /\ at'[t] = "lock" /\ memo'[t] = [memo[t] EXCEPT !.config = config]
      BY <1>7, LaunchAt, LaunchHas, <1>1 DEF Launch!ReadConfig, Launch!Read
    <2>2. memo'[t].input = memo[t].input /\ memo'[t].config = config
      BY <1>1, <2>1 DEF LaunchCall
    <2>3. QED BY <1>4, <1>5, <2>1, <2>2
  <1>8. CASE Launch!ReadLock(t)
    <2>1. at[t] = "lock" /\ at'[t] = "base" /\ memo'[t] = [memo[t] EXCEPT !.lock = lock]
      BY <1>8, LaunchAt, LaunchHas, <1>1 DEF Launch!ReadLock, Launch!Read
    <2>2. memo'[t].input = memo[t].input /\ memo'[t].config = memo[t].config /\ memo'[t].lock = lock
      BY <1>1, <2>1 DEF LaunchCall
    <2>3. QED BY <1>4, <1>5, <2>1, <2>2
  <1>9. CASE Launch!ReadBase(t)
    <2>1. at[t] = "base" /\ at'[t] = "compare" /\ memo'[t] = [memo[t] EXCEPT !.current = projected]
      BY <1>9, LaunchAt, LaunchHas, <1>1 DEF Launch!ReadBase, Launch!Read
    <2>2. memo'[t].input = memo[t].input /\ memo'[t].config = memo[t].config
            /\ memo'[t].lock = memo[t].lock
          /\ memo'[t].current = projected
      BY <1>1, <2>1 DEF LaunchCall
    <2>3. QED BY <1>4, <1>5, <2>1, <2>2
  <1>10. QED BY <1>6, <1>7, <1>8, <1>9

LEMMA PlanHonest ==
  ASSUME Launch!LaunchAssumption, HonestInv, NEW t \in Task,
         Launch!Compare(t) \/ Launch!Plan(t) \/ Launch!Unsupported(t) \/ Launch!StartPrepare(t)
              \/ Launch!StartPrune(t)
  PROVE  Saw(t)' /\ (disturbed'[t] \/ Undisturbed(t)')
  <1>1. ContextInv /\ Saw(t) /\ (disturbed[t] \/ Undisturbed(t)) /\ memo[t] \in LaunchCall
    BY LaunchHas DEF HonestInv
  <1>2. UNCHANGED Launch!project
    BY DEF Launch!Compare, Launch!Plan, Launch!Unsupported, Launch!StartPrepare, Launch!StartPrune,
           Launch!Begin, Launch!Others
  <1>3. Launch!Input' = Launch!Input /\ config' = config /\ lock' = lock
          /\ projected' = projected /\ skill' = skill
    BY <1>2 DEF Launch!Input, Launch!project
  <1>4. ASSUME NEW what, Launch!Return(t, what) PROVE Saw(t)' /\ (disturbed'[t] \/ Undisturbed(t)')
    BY <1>1, <1>4, ReturnHonest
  <1>5. CASE Launch!Compare(t) /\ Launch!Goto(t, "plan") /\ seen' = [seen EXCEPT ![t] = {}]
          /\ UNCHANGED <<memo, disturbed>>
    <2>1. at[t] = "compare" /\ at'[t] = "plan"
      BY <1>1, <1>5, LaunchHas DEF Launch!Compare, Launch!Goto, LaunchTypes
    <2>2. Saw(t)' /\ Copied(t)' /\ Listed(t)'
      BY <2>1 DEF Saw, Copied, Listed
    <2>3. Planned(t) => Planned(t)'
      BY <1>3, <1>5, <2>1 DEF Planned, Planning, Preparing, Staging
    <2>4. QED BY <1>1, <1>5, <2>2, <2>3 DEF Undisturbed
  <1>6. ASSUME at[t] = "compare", NEW c, Launch!Goto(t, "capture"), Launch!Remember(t, c),
               UNCHANGED seen
        PROVE  Saw(t)' /\ (disturbed'[t] \/ Undisturbed(t)')
    <2>1. at'[t] = "capture"
      BY <1>1, <1>6, LaunchAt, LaunchHas
    <2>2. Saw(t)'
      BY <1>1, <1>3, <1>6, <2>1 DEF Saw
    <2>3. QED BY <2>1, <2>2 DEF Undisturbed, Planned, Copied, Listed, Planning, Preparing, Staging
  <1>7. CASE Launch!StartPrepare(t) \/ Launch!StartPrune(t)
    <2>1. PICK s \in {"capture", "scan"} : Launch!Begin(t, s)
      BY <1>7 DEF Launch!StartPrepare, Launch!StartPrune
    <2>2. at'[t] = s /\ memo'[t] = [Launch!Idle EXCEPT !.release = release]
      BY <1>1, <2>1, LaunchAt, LaunchHas DEF Launch!Begin
    <2>3. memo'[t].candidates = {}
      BY <2>2 DEF Launch!Idle
    <2>4. s = "capture" => Launch!Input' \in seen'[t]
      BY <1>1, <1>3, <2>1, LaunchHas DEF Launch!Begin, LaunchTypes
    <2>5. Saw(t)'
      BY <2>2, <2>4 DEF Saw
    <2>6. QED BY <2>2, <2>3, <2>5 DEF Undisturbed, Planned, Copied, Listed, Planning, Preparing,
                                      Staging
  <1>8. CASE Launch!Plan(t) \/ Launch!Unsupported(t)
    <2> DEFINE i == [config |-> memo[t].config, lock |-> memo[t].lock, skill |-> skill]
               c == [Launch!Idle EXCEPT !.release = memo[t].release, !.input = memo[t].input,
                    !.id = i]
    <2>1. CASE at[t] = "plan" /\ Launch!Goto(t, "acquire") /\ Launch!Remember(t, c)
            /\ UNCHANGED disturbed
      <3>1. at'[t] = "acquire" /\ memo'[t] = c
        BY <1>1, <2>1, LaunchAt, LaunchHas
      <3>2. c.input = memo[t].input /\ c.id = i
        BY DEF Launch!Idle
      <3>3. Planned(t) => memo[t].input = Launch!Input /\ memo[t].config = config
              /\ memo[t].lock = lock
        BY <2>1 DEF Planned, Planning
      <3>4. Planned(t) => i = [config |-> config', lock |-> lock', skill |-> skill']
        BY <1>3, <3>3
      <3> HIDE DEF i, c
      <3>5. Planned(t) => Planned(t)'
        BY <1>3, <3>1, <3>2, <3>3, <3>4 DEF Planned
      <3>6. Saw(t)' /\ Copied(t)' /\ Listed(t)'
        BY <3>1 DEF Saw, Copied, Listed
      <3>7. QED BY <1>1, <2>1, <3>5, <3>6 DEF Undisturbed
    <2>2. QED BY <1>4, <1>8, <2>1 DEF Launch!Plan, Launch!Unsupported, Launch!Silently
  <1>9. QED BY <1>4, <1>5, <1>6, <1>7, <1>8 DEF Launch!Compare, Launch!Silently

(* Publishing keeps id and input. *)
LEMMA KeepsPlan ==
  ASSUME HonestInv, NEW t \in Task, at[t] \in Preparing, at'[t] \in Preparing \ {"seal"},
  UNCHANGED <<Launch!project, disturbed>>,
         memo'[t].id = memo[t].id, memo'[t].input = memo[t].input
  PROVE  Saw(t)' /\ (disturbed'[t] \/ Undisturbed(t)')
  <1>1. Saw(t)' /\ Copied(t)' /\ Listed(t)'
    BY DEF Saw, Copied, Listed, Preparing, Staging
  <1>2. Undisturbed(t) => Planned(t)'
    BY DEF Undisturbed, Planned, Launch!Input, Launch!project, Preparing, Staging
  <1>3. QED BY <1>1, <1>2 DEF HonestInv, Undisturbed

LEMMA StageHonest ==
  ASSUME Launch!LaunchAssumption, HonestInv, NEW t \in Task,
         Launch!Recover(t) \/ Launch!MakeStage(t) \/ Launch!MarkStage(t) \/ Launch!Copy(t)
              \/ Launch!Seal(t)
         \/ Launch!RecheckSources(t) \/ Launch!RecheckProjection(t) \/ Launch!RecheckInput(t)
            \/ Launch!Reuse(t) \/ Launch!Publish(t)
  PROVE  Saw(t)' /\ (disturbed'[t] \/ Undisturbed(t)')
  <1>1. ContextInv /\ (disturbed[t] \/ Undisturbed(t)) /\ memo[t] \in LaunchCall
    BY LaunchHas DEF HonestInv
  <1>2. UNCHANGED Launch!project /\ at[t] \in Preparing
    BY DEF Launch!Recover, Launch!MakeStage, Launch!MarkStage, Launch!Copy, Launch!Seal,
           Launch!Rewrite,
           Launch!RecheckSources, Launch!RecheckProjection, Launch!RecheckInput, Launch!Reuse,
           Launch!Publish, Launch!Check, Launch!Abandon, Launch!Others, Preparing, Staging
  <1>3. ASSUME NEW what, Launch!Return(t, what) PROVE Saw(t)' /\ (disturbed'[t] \/ Undisturbed(t)')
    BY <1>1, <1>3, ReturnHonest
  <1>4. ASSUME NEW s \in Preparing \ {"seal"}, Launch!Goto(t, s), UNCHANGED <<memo, disturbed>>
        PROVE  Saw(t)' /\ (disturbed'[t] \/ Undisturbed(t)')
    <2>1. at'[t] = s
      BY <1>1, <1>4, LaunchHas DEF Launch!Goto, LaunchTypes
    <2>2. QED BY <1>2, <1>4, <2>1, KeepsPlan
  <1>5. CASE Launch!Recover(t)
    <2>1. at'[t] \in {"sources", "mkdir"}
            /\ memo'[t] = [memo[t] EXCEPT !.found = Launch!At(memo[t].id) # {}]
               /\ UNCHANGED disturbed
      BY <1>1, <1>5, LaunchAt, LaunchHas DEF Launch!Recover, Launch!Silently
    <2>2. memo'[t].id = memo[t].id /\ memo'[t].input = memo[t].input
      BY <1>1, <2>1 DEF LaunchCall
    <2>3. QED BY <1>2, <2>1, <2>2, KeepsPlan DEF Preparing, Staging
  <1>6. CASE Launch!MakeStage(t)
    <2>0. PICK n : n = Launch!Suffix("stage", memo[t].id)
      OBVIOUS
    <2>1. at'[t] = "mark" /\ memo'[t] = [memo[t] EXCEPT !.n = n] /\ UNCHANGED disturbed
      BY <1>1, <1>6, <2>0, LaunchAt, LaunchHas DEF Launch!MakeStage, Launch!Silently
    <2>2. memo'[t].id = memo[t].id /\ memo'[t].input = memo[t].input
      BY <1>1, <2>1 DEF LaunchCall
    <2>3. QED BY <1>2, <2>1, <2>2, KeepsPlan DEF Preparing, Staging
  <1>7. CASE Launch!MarkStage(t)
    <2>1. PICK e : Launch!Rewrite(t, "mark", "render", e)
      BY <1>7 DEF Launch!MarkStage
    <2>2. QED BY <1>4, <2>1 DEF Launch!Rewrite, Launch!Silently, Preparing, Staging
  <1>8. CASE Launch!Copy(t)
    <2>1. PICK d \in Launch!Stage(t) : Launch!Rewrite(t, "render", "seal",
            [d EXCEPT !.copied = skill])
      BY <1>8 DEF Launch!Copy
    <2>2. PICK e : e = [d EXCEPT !.copied = skill]
      OBVIOUS
    <2>3. e.copied = skill /\ Launch!Stage(t) = {d}
      BY <1>1, <2>2, StageIsOne, LaunchHas DEF LaunchDir
    <2>4. at'[t] = "seal" /\ memo'[t] = memo[t] /\ UNCHANGED disturbed
            /\ dirs' = (dirs \ Launch!Stage(t)) \cup {e}
      BY <1>1, <2>1, <2>2, LaunchHas DEF Launch!Rewrite, Launch!Silently, Launch!Goto, LaunchTypes
    <2>5. Copied(t)'
      <3>1. \A x \in Launch!Stage(t)' : x = e
        BY <2>4 DEF Launch!Stage, Launch!Own
      <3>2. QED BY <1>2, <2>3, <3>1 DEF Copied, Launch!project
    <2>6. Saw(t)' /\ Listed(t)'
      BY <2>4 DEF Saw, Listed
    <2>7. Undisturbed(t) => Planned(t)'
      BY <1>2, <2>4 DEF Undisturbed, Planned, Launch!Input, Launch!project, Preparing, Staging
    <2>8. QED BY <1>1, <2>4, <2>5, <2>6, <2>7 DEF Undisturbed
  <1>9. CASE Launch!Seal(t)
    <2>1. PICK e : Launch!Rewrite(t, "seal", "sources", e) \/ Launch!Return(t, "changed")
      BY <1>9 DEF Launch!Seal, Launch!Abandon
    <2>2. QED BY <1>3, <1>4, <2>1 DEF Launch!Rewrite, Launch!Silently, Preparing, Staging
  <1>10. ASSUME NEW step, NEW holds, NEW s \in {"projection", "input", "reuse", "rename"},
                NEW what, Launch!Check(t, step, holds, s, what)
         PROVE  Saw(t)' /\ (disturbed'[t] \/ Undisturbed(t)')
    <2>1. s \in Preparing \ {"seal"}
      BY DEF Preparing, Staging
    <2>2. QED BY <1>3, <1>4, <1>10, <2>1 DEF Launch!Check, Launch!Abandon, Launch!Silently
  <1>11. CASE Launch!RecheckSources(t) \/ Launch!RecheckProjection(t) \/ Launch!RecheckInput(t)
    BY <1>10, <1>11 DEF Launch!RecheckSources, Launch!RecheckProjection, Launch!RecheckInput
  <1>12. CASE Launch!Reuse(t) \/ Launch!Publish(t)
    BY <1>3, <1>12 DEF Launch!Reuse, Launch!Publish, Launch!Abandon
  <1>13. QED BY <1>5, <1>6, <1>7, <1>8, <1>9, <1>11, <1>12

(* What a prune has listed. *)
LEMMA PruneHonest ==
  ASSUME Launch!LaunchAssumption, HonestInv, NEW t \in Task,
         Launch!Scan(t) \/ Launch!Inspect(t) \/ Launch!Choose(t) \/ Launch!MoveAside(t)
              \/ Launch!Empty(t) \/ Launch!EndPrune(t) \/ Launch!Crash(t)
  PROVE  Saw(t)' /\ (disturbed'[t] \/ Undisturbed(t)')
  <1>1. ContextInv /\ (disturbed[t] \/ Undisturbed(t)) /\ memo[t] \in LaunchCall
    BY LaunchHas DEF HonestInv
  <1>2. ASSUME NEW what, Launch!Return(t, what) PROVE Saw(t)' /\ (disturbed'[t] \/ Undisturbed(t)')
    BY <1>1, <1>2, ReturnHonest
  <1>3. ASSUME at'[t] \in Pruning, disturbed[t] => disturbed'[t], Undisturbed(t) => Listed(t)'
        PROVE  Saw(t)' /\ (disturbed'[t] \/ Undisturbed(t)')
    BY <1>1, <1>3 DEF Saw, Undisturbed, Planned, Copied, Pruning, Planning, Preparing, Staging
  <1>4. CASE Launch!Scan(t)
    <2>1. CASE Launch!Goto(t, "inspect")
            /\ Launch!Remember(t, [memo[t] EXCEPT !.todo = {Launch!PathOf(d) : d \in dirs}])
               /\ UNCHANGED disturbed
      <3>1. at[t] = "scan" /\ at'[t] = "inspect"
              /\ memo'[t] = [memo[t] EXCEPT !.todo = {Launch!PathOf(d) : d \in dirs}]
        BY <1>1, <1>4, <2>1, LaunchAt, LaunchHas DEF Launch!Scan
      <3>2. memo'[t].candidates = memo[t].candidates
        BY <1>1, <3>1 DEF LaunchCall
      <3>3. Undisturbed(t) => Listed(t)'
        BY <3>1, <3>2 DEF Undisturbed, Listed
      <3>4. QED BY <1>3, <2>1, <3>1, <3>3 DEF Pruning
    <2>2. QED BY <1>2, <1>4, <2>1 DEF Launch!Scan, Launch!Silently
  <1>5. CASE Launch!Inspect(t)
    <2>1. PICK D, N : /\ \A d \in N : d \in dirs /\ Launch!Verified(d)
                      /\ Launch!Remember(t, [memo[t] EXCEPT !.todo = D,
                         !.candidates = memo[t].candidates \cup {<<d.id, d.created>> : d \in N}])
      BY <1>5 DEF Launch!Inspect
    <2>2. at[t] = "inspect" /\ at'[t] = "inspect" /\ UNCHANGED <<disturbed, dirs>>
      BY <1>5 DEF Launch!Inspect, Launch!Silently
    <2>3. PICK S : S = memo[t].candidates \cup {<<d.id, d.created>> : d \in N}
      OBVIOUS
    <2>4. memo'[t] = [memo[t] EXCEPT !.todo = D, !.candidates = S]
      BY <1>1, <2>1, <2>3, LaunchHas DEF Launch!Remember, LaunchTypes
    <2>5. memo'[t].candidates = S
      BY <1>1, <2>4 DEF LaunchCall
    <2>6. \A i : Launch!At(i)' = Launch!At(i)
      BY <2>2 DEF Launch!At, Launch!Contexts
    <2>7. ASSUME NEW d \in N PROVE d \in Launch!At(d.id) /\ Launch!Verified(d)
      BY <2>1 DEF Launch!At, Launch!Contexts, Launch!Verified
    <2>8. ASSUME Undisturbed(t), NEW x \in S
          PROVE  \E d \in Launch!At(x[1]) : Launch!Verified(d) /\ d.created = x[2]
      <3>1. CASE x \in memo[t].candidates
        BY <2>2, <2>8, <3>1 DEF Undisturbed, Listed
      <3>2. CASE x \notin memo[t].candidates
        <4>1. PICK d \in N : x = <<d.id, d.created>>
          BY <2>3, <2>8, <3>2
        <4>2. QED BY <2>7, <4>1
      <3>3. QED BY <3>1, <3>2
    <2>9. Undisturbed(t) => Listed(t)'
      BY <2>2, <2>5, <2>6, <2>8 DEF Listed
    <2>10. QED BY <1>3, <2>2, <2>9 DEF Pruning
  <1>6. CASE Launch!Choose(t)
    <2>1. PICK k : k = clock - Age
      OBVIOUS
    <2>2. PICK S : S = {x[1] : x \in {y \in memo[t].candidates : y[2] <= k}}
      OBVIOUS
    <2>3. at[t] = "inspect" /\ at'[t] = "next"
            /\ memo'[t] = [memo[t] EXCEPT !.cutoff = k, !.candidates = S]
          /\ UNCHANGED <<disturbed, dirs>>
      BY <1>1, <1>6, <2>1, <2>2, LaunchAt, LaunchHas DEF Launch!Choose, Launch!Silently
    <2>4. memo'[t].candidates = S /\ memo'[t].cutoff = k
      BY <1>1, <2>3 DEF LaunchCall
    <2>5. ASSUME Undisturbed(t), NEW i \in S PROVE \E d \in Launch!At(i)' : Launch!StillOld(t, d)'
      <3>1. PICK x \in memo[t].candidates : x[1] = i /\ x[2] <= k
        BY <2>2, <2>5
      <3>2. PICK d \in Launch!At(i) : Launch!Verified(d) /\ d.created = x[2]
        BY <2>3, <2>5, <3>1 DEF Undisturbed, Listed
      <3>3. d \in Launch!At(i)'
        BY <2>3, <3>2 DEF Launch!At, Launch!Contexts
      <3>4. QED BY <2>4, <3>1, <3>2, <3>3 DEF Launch!StillOld
    <2>6. Undisturbed(t) => Listed(t)'
      BY <2>3, <2>4, <2>5 DEF Listed
    <2>7. QED BY <1>3, <2>3, <2>6 DEF Pruning
  <1>7. ASSUME NEW n, dirs' = (dirs \ Launch!At(memo[t].id)) \cup {[d EXCEPT !.kind = "prune",
  !.n = n] : d \in Launch!At(memo[t].id)},
               Launch!Remember(t, [memo[t] EXCEPT !.n = n]), Launch!Goto(t, "empty"),
                    Launch!DisturbBut(t), at[t] = "quarantine"
        PROVE  Saw(t)' /\ (disturbed'[t] \/ Undisturbed(t)')
    <2>1. at'[t] = "empty" /\ memo'[t] = [memo[t] EXCEPT !.n = n] /\ (disturbed[t] => disturbed'[t])
      <3>1. disturbed[t] => disturbed'[t]
        BY <1>7 DEF Launch!DisturbBut
      <3>2. at'[t] = "empty" /\ memo'[t] = [memo[t] EXCEPT !.n = n]
        <4>1. at \in [Task -> {"idle", "capture"} \cup Planning \cup Preparing \cup Pruning]
                /\ memo \in [Task -> LaunchCall]
          BY <1>1, LaunchHas DEF LaunchTypes
        <4>2. QED BY <1>7, <4>1 DEF Launch!Goto, Launch!Remember
      <3>3. QED BY <3>1, <3>2
    <2>2. memo'[t].id = memo[t].id /\ memo'[t].candidates = memo[t].candidates
            /\ memo'[t].cutoff = memo[t].cutoff
      BY <1>1, <2>1 DEF LaunchCall
    <2>3. ASSUME NEW i, i # memo[t].id, NEW d \in Launch!At(i) PROVE d \in Launch!At(i)'
      BY <1>7, <2>3 DEF Launch!At, Launch!Contexts
    <2>4. \A d : Launch!StillOld(t, d)' = Launch!StillOld(t, d)
      BY <2>2 DEF Launch!StillOld
    <2>5. Undisturbed(t) => Listed(t)'
      BY <1>7, <2>1, <2>2, <2>3, <2>4 DEF Undisturbed, Listed
    <2>6. QED BY <1>3, <2>1, <2>5 DEF Pruning
  <1>8. CASE Launch!MoveAside(t)
    BY <1>2, <1>7, <1>8 DEF Launch!MoveAside
  <1>9. CASE Launch!Empty(t)
    <2>1. PICK S : S = memo[t].candidates \ {memo[t].id}
      OBVIOUS
    <2>2. at[t] = "empty" /\ at'[t] = "next"
            /\ memo'[t] = [memo[t] EXCEPT !.candidates = S, !.id = None, !.n = 0]
          /\ dirs' = dirs \ Launch!Quarantine(t) /\ UNCHANGED disturbed
      BY <1>1, <1>9, <2>1, LaunchAt, LaunchHas DEF Launch!Empty, Launch!Silently
    <2>3. memo'[t].candidates = S /\ memo'[t].cutoff = memo[t].cutoff
      BY <1>1, <2>2 DEF LaunchCall
    <2>4. \A i : Launch!At(i)' = Launch!At(i)
      BY <2>2 DEF Launch!At, Launch!Contexts, Launch!Quarantine, Launch!Own
    <2>5. \A d : Launch!StillOld(t, d)' = Launch!StillOld(t, d)
      BY <2>3 DEF Launch!StillOld
    <2>6. Undisturbed(t) => Listed(t)'
      BY <2>1, <2>2, <2>3, <2>4, <2>5 DEF Undisturbed, Listed
    <2>7. QED BY <1>3, <2>2, <2>6 DEF Pruning
  <1>10. QED BY <1>2, <1>4, <1>5, <1>6, <1>8, <1>9 DEF Launch!EndPrune, Launch!Crash

LEMMA LockHonest ==
  ASSUME Launch!LaunchAssumption, HonestInv, NEW t \in Task, NEW i \in Launch!Id,
         Launch!Acquire(t, i) \/ Launch!TimeOut(t, i)
  PROVE  Saw(t)' /\ (disturbed'[t] \/ Undisturbed(t)')
  <1>1. ContextInv /\ (disturbed[t] \/ Undisturbed(t)) /\ memo[t] \in LaunchCall
    BY LaunchHas DEF HonestInv
  <1>2. CASE Launch!TimeOut(t, i)
    BY <1>1, <1>2, ReturnHonest DEF Launch!TimeOut
  <1>3. CASE Launch!Acquire(t, i)
    <2>1. /\ at[t] \in {"acquire", "next"} /\ i \in Launch!Wanted(t)
             /\ UNCHANGED <<disturbed, dirs, Launch!project>>
          /\ at'[t] = (IF at[t] = "acquire" THEN "recover" ELSE "quarantine")
             /\ memo'[t] = [memo[t] EXCEPT !.id = i]
      BY <1>1, <1>3, LaunchAt, LaunchHas DEF Launch!Acquire, Launch!Silently, Launch!Others
    <2>2. memo'[t].id = i /\ memo'[t].input = memo[t].input
            /\ memo'[t].candidates = memo[t].candidates
          /\ memo'[t].cutoff = memo[t].cutoff
      BY <1>1, <2>1 DEF LaunchCall
    <2>3. CASE at[t] = "acquire"
      BY <2>1, <2>2, <2>3, KeepsPlan DEF Launch!Wanted, Preparing, Staging
    <2>4. CASE at[t] = "next"
      <3>1. at'[t] = "quarantine" /\ i \in memo[t].candidates
        BY <2>1, <2>4 DEF Launch!Wanted
      <3>2. \A j : Launch!At(j)' = Launch!At(j)
        BY <2>1 DEF Launch!At, Launch!Contexts
      <3>3. \A d : Launch!StillOld(t, d)' = Launch!StillOld(t, d)
        BY <2>2 DEF Launch!StillOld
      <3>4. Undisturbed(t) => Listed(t)'
        BY <2>2, <2>4, <3>1, <3>2, <3>3 DEF Undisturbed, Listed
      <3>5. Saw(t)' /\ Planned(t)' /\ Copied(t)'
        BY <3>1 DEF Saw, Planned, Copied, Planning, Preparing, Staging
      <3>6. QED BY <1>1, <2>1, <3>4, <3>5 DEF Undisturbed
    <2>5. QED BY <2>1, <2>3, <2>4
  <1>4. QED BY <1>2, <1>3

LEMMA OwnHonest ==
  ASSUME Launch!LaunchAssumption, HonestInv, NEW t \in Task, Moved(t)
  PROVE  Saw(t)' /\ (disturbed'[t] \/ Undisturbed(t)')
  BY ReadHonest, PlanHonest, StageHonest, PruneHonest, LockHonest
    DEF Moved, Launch!Step, Launch!PrepareStep, Launch!PruneStep, Launch!LockStep

(* Every release that is written is that of a call.                         *)
LEMMA NewIsFresh ==
  ASSUME Launch!LaunchAssumption, HonestInv, NEW t \in Task, Moved(t), NEW d \in dirs'
  PROVE  Fresh(d)'
  <1>1. ContextInv /\ FreshHolds /\ memo[t] \in LaunchCall
    BY LaunchHas DEF HonestInv
  <1>2. release' = release
    BY <1>1, StepsApart DEF Apart, Launch!project
  <1>3. CASE d \in dirs
    BY <1>1, <1>2, <1>3 DEF FreshHolds, Fresh
  <1>4. \A x \in Launch!Stage(t) : x \in LaunchDir /\ Fresh(x) /\ x.kind = "stage"
    BY <1>1, LaunchHas DEF FreshHolds, Launch!Stage, Launch!Own
  <1>5. \A x \in Launch!At(memo[t].id) : x \in LaunchDir /\ Fresh(x) /\ x.kind = "context"
    BY <1>1, LaunchHas DEF FreshHolds, Launch!At, Launch!Contexts
  <1>7. CASE Launch!MakeStage(t)
    <2>1. PICK n : dirs' = dirs \cup {Launch!Directory("stage", memo[t].id, n)}
      BY <1>7 DEF Launch!MakeStage
    <2>2. CASE d = Launch!Directory("stage", memo[t].id, n)
      BY <2>2, <1>1 DEF Launch!Directory, Fresh, Launch!LaunchAssumption
    <2>3. QED BY <1>3, <2>1, <2>2
  <1>8. CASE Launch!MarkStage(t)
    <2>1. PICK x \in Launch!Stage(t) :
            dirs' = (dirs \ Launch!Stage(t)) \cup {[x EXCEPT !.marked = TRUE]}
      BY <1>8 DEF Launch!MarkStage, Launch!Rewrite
    <2>2. CASE d = [x EXCEPT !.marked = TRUE]
      <3>1. d.kind = x.kind /\ d.drift = x.drift /\ d.release = x.release
        BY <1>4, <2>2 DEF LaunchDir
      <3>2. QED BY <1>2, <1>4, <3>1 DEF Fresh
    <2>3. QED BY <1>3, <2>1, <2>2
  <1>9. CASE Launch!Copy(t)
    <2>1. PICK x \in Launch!Stage(t) :
            dirs' = (dirs \ Launch!Stage(t)) \cup {[x EXCEPT !.copied = skill]}
      BY <1>9 DEF Launch!Copy, Launch!Rewrite
    <2>2. CASE d = [x EXCEPT !.copied = skill]
      <3>1. d.kind = x.kind /\ d.drift = x.drift /\ d.release = x.release
        BY <1>4, <2>2 DEF LaunchDir
      <3>2. QED BY <1>2, <1>4, <3>1 DEF Fresh
    <2>3. QED BY <1>3, <2>1, <2>2
  <1>10. CASE Launch!Seal(t)
    <2>1. PICK x \in Launch!Stage(t) :
            \/ dirs' = (dirs \ Launch!Stage(t)) \cup {[x EXCEPT !.release = memo[t].release,
               !.created = clock]}
            \/ dirs' = dirs \ Launch!Stage(t)
      BY <1>10 DEF Launch!Seal, Launch!Rewrite, Launch!Abandon
    <2>2. CASE d = [x EXCEPT !.release = memo[t].release, !.created = clock]
      <3>1. d.kind = x.kind /\ d.drift = x.drift /\ d.release = memo[t].release
        BY <1>4, <2>2 DEF LaunchDir
      <3>2. release = 0 => memo[t].release = 0
        BY <1>1 DEF FreshHolds
      <3>3. QED BY <1>2, <1>4, <3>1, <3>2 DEF Fresh
    <2>3. QED BY <1>3, <2>1, <2>2
  <1>11. CASE Launch!Publish(t)
    <2>1. CASE dirs' \subseteq dirs
      BY <1>3, <2>1
    <2>2. CASE at[t] = "rename"
            /\ dirs' = (dirs \ Launch!Stage(t)) \cup {[x EXCEPT !.kind = "context", !.n = 0] :
               x \in Launch!Stage(t)}
      <3>1. ASSUME NEW x \in Launch!Stage(t), d = [x EXCEPT !.kind = "context", !.n = 0]
            PROVE  Fresh(d)'
        <4>1. d.kind = "context" /\ d.release = x.release
          BY <1>4, <3>1 DEF LaunchDir
        <4>2. HasStage(t)
          BY <1>1, <2>2, LaunchHas DEF LaunchKnows, HasStage, Staged
        <4>3. x.release = memo[t].release
          BY <1>1, <2>2, <4>2, LaunchHas DEF LaunchKnows, Written
        <4>4. x.release \in Launch!Version /\ (release = 0 => x.release # 1)
          BY <1>1, <1>4, <4>3 DEF Fresh, LaunchCall
        <4>5. QED BY <1>2, <4>1, <4>4 DEF Fresh
      <3>2. QED BY <1>3, <2>2, <3>1
    <2>3. QED BY <1>11, <2>1, <2>2 DEF Launch!Publish, Launch!Abandon
  <1>12. CASE Launch!MoveAside(t)
    <2>1. CASE dirs' = dirs
      BY <1>3, <2>1
    <2>2. ASSUME NEW n, dirs' = (dirs \ Launch!At(memo[t].id)) \cup {[x EXCEPT !.kind = "prune",
                 !.n = n] : x \in Launch!At(memo[t].id)}
          PROVE  Fresh(d)'
      <3>1. ASSUME NEW x \in Launch!At(memo[t].id), d = [x EXCEPT !.kind = "prune", !.n = n]
            PROVE  Fresh(d)'
        <4>1. d.kind = "prune" /\ d.release = x.release
          BY <1>5, <3>1 DEF LaunchDir
        <4>2. QED BY <1>2, <1>5, <4>1 DEF Fresh
      <3>2. QED BY <1>3, <2>2, <3>1
    <2>3. QED BY <1>12, <2>1, <2>2 DEF Launch!MoveAside
  <1>13. CASE Launch!Recover(t) \/ Launch!RecheckSources(t) \/ Launch!RecheckProjection(t)
           \/ Launch!RecheckInput(t) \/ Launch!Reuse(t) \/ Launch!Empty(t)
    <2>1. dirs' \subseteq dirs
      BY <1>13 DEF Launch!Recover, Launch!RecheckSources, Launch!RecheckProjection,
                   Launch!RecheckInput,
                   Launch!Reuse, Launch!Empty, Launch!Check, Launch!Abandon
    <2>2. QED BY <1>3, <2>1
  <1>14. CASE dirs' = dirs
    BY <1>3, <1>14
  <1>15. QED BY <1>7, <1>8, <1>9, <1>10, <1>11, <1>12, <1>13, <1>14
    DEF Moved, Launch!Step, Launch!PrepareStep, Launch!PruneStep, Launch!LockStep,
             Launch!Capture, Launch!ReadConfig, Launch!ReadLock, Launch!ReadBase, Launch!Read,
             Launch!Compare, Launch!Plan, Launch!Unsupported, Launch!Scan, Launch!Inspect,
             Launch!Choose, Launch!EndPrune,
             Launch!StartPrepare, Launch!StartPrune, Launch!Begin, Launch!Acquire, Launch!TimeOut,
                  Launch!Crash

LEMMA CallsAreOfRelease ==
  ASSUME Launch!LaunchAssumption, HonestInv, NEW t \in Task, Moved(t)
  PROVE  memo'[t].release \in {memo[t].release, release, 0}
  <1>1. ContextInv /\ LaunchTypes /\ memo[t] \in LaunchCall
    BY LaunchHas DEF HonestInv
  <1> DEFINE Same(c) == c.release \in {memo[t].release, release, 0}
  <1>2. ASSUME NEW c, Launch!Remember(t, c), Same(c)
        PROVE  memo'[t].release \in {memo[t].release, release, 0}
    BY <1>1, <1>2 DEF Launch!Remember, LaunchTypes
  <1>3. Same(Launch!Idle) /\ Same([Launch!Idle EXCEPT !.release = release])
          /\ Same([Launch!Idle EXCEPT !.release = memo[t].release])
    BY DEF Launch!Idle
  <1>4. ASSUME NEW x, NEW y PROVE
          /\ Same([Launch!Idle EXCEPT !.release = memo[t].release, !.tries = x])
          /\ Same([Launch!Idle EXCEPT !.release = memo[t].release, !.input = x, !.id = y])
    BY DEF Launch!Idle
  <1>5. ASSUME NEW x, NEW y PROVE
          /\ Same([memo[t] EXCEPT !.input = x]) /\ Same([memo[t] EXCEPT !.config = x])
             /\ Same([memo[t] EXCEPT !.lock = x])
          /\ Same([memo[t] EXCEPT !.current = x]) /\ Same([memo[t] EXCEPT !.id = x])
             /\ Same([memo[t] EXCEPT !.found = x])
          /\ Same([memo[t] EXCEPT !.n = x]) /\ Same([memo[t] EXCEPT !.todo = x])
             /\ Same([memo[t] EXCEPT !.todo = x, !.candidates = y])
          /\ Same([memo[t] EXCEPT !.cutoff = x, !.candidates = y])
             /\ Same([memo[t] EXCEPT !.candidates = x, !.id = None, !.n = 0])
    BY <1>1 DEF LaunchCall
  <1> HIDE DEF Same
  <1>6. CASE UNCHANGED memo
    BY <1>6
  <1>7. CASE \E what : Launch!Return(t, what)
    BY <1>2, <1>3, <1>7 DEF Launch!Return
  <1>8. CASE Launch!Capture(t) \/ Launch!ReadConfig(t) \/ Launch!ReadLock(t) \/ Launch!ReadBase(t)
    BY <1>2, <1>5, <1>8 DEF Launch!Capture, Launch!ReadConfig, Launch!ReadLock, Launch!ReadBase,
                            Launch!Read
  <1>9. CASE Launch!Compare(t)
    BY <1>2, <1>4, <1>6, <1>7, <1>9 DEF Launch!Compare
  <1>10. CASE Launch!Plan(t) \/ Launch!Unsupported(t)
    BY <1>2, <1>4, <1>7, <1>10 DEF Launch!Plan, Launch!Unsupported
  <1>11. CASE Launch!Recover(t) \/ Launch!MakeStage(t)
    BY <1>2, <1>5, <1>11 DEF Launch!Recover, Launch!MakeStage
  <1>12. CASE Launch!MarkStage(t) \/ Launch!Copy(t) \/ Launch!Seal(t)
    BY <1>6, <1>7, <1>12 DEF Launch!MarkStage, Launch!Copy, Launch!Seal, Launch!Rewrite,
                             Launch!Abandon
  <1>13. CASE Launch!RecheckSources(t) \/ Launch!RecheckProjection(t) \/ Launch!RecheckInput(t)
           \/ Launch!Reuse(t) \/ Launch!Publish(t)
    BY <1>6, <1>7, <1>13 DEF Launch!RecheckSources, Launch!RecheckProjection, Launch!RecheckInput,
                             Launch!Reuse, Launch!Publish, Launch!Check, Launch!Abandon
  <1>14. CASE Launch!Scan(t) \/ Launch!Inspect(t) \/ Launch!Choose(t) \/ Launch!EndPrune(t)
    BY <1>2, <1>5, <1>7, <1>14 DEF Launch!Scan, Launch!Inspect, Launch!Choose, Launch!EndPrune
  <1>15. CASE Launch!MoveAside(t) \/ Launch!Empty(t)
    BY <1>2, <1>5, <1>7, <1>15 DEF Launch!MoveAside, Launch!Empty
  <1>16. CASE Launch!StartPrepare(t) \/ Launch!StartPrune(t) \/ Launch!Crash(t)
    BY <1>2, <1>3, <1>7, <1>16 DEF Launch!StartPrepare, Launch!StartPrune, Launch!Begin,
                                   Launch!Crash
  <1>17. CASE \E i \in Launch!Id : Launch!Acquire(t, i) \/ Launch!TimeOut(t, i)
    BY <1>2, <1>5, <1>7, <1>17 DEF Launch!Acquire, Launch!TimeOut
  <1>18. QED BY <1>8, <1>9, <1>10, <1>11, <1>12, <1>13, <1>14, <1>15, <1>16, <1>17
             DEF Moved, Launch!Step, Launch!PrepareStep, Launch!PruneStep, Launch!LockStep

LEMMA FreshKept ==
  ASSUME Launch!LaunchAssumption, HonestInv, [Launch!Next]_(Launch!vars)
  PROVE  FreshHolds'
  <1>1. ContextInv /\ FreshHolds
    BY DEF HonestInv
  <1>2. ASSUME NEW t \in Task, Moved(t) PROVE FreshHolds'
    <2>1. \A d \in dirs' : Fresh(d)'
      BY <1>2, NewIsFresh
    <2>2. release' = release /\ \A u \in Task \ {t} : memo'[u] = memo[u]
      BY <1>1, <1>2, StepsApart DEF Apart, Launch!project
    <2>3. release = 0 => memo'[t].release = 0
      BY <1>1, <1>2, CallsAreOfRelease DEF FreshHolds
    <2>4. QED BY <1>1, <2>1, <2>2, <2>3 DEF FreshHolds
  <1>3. CASE Launch!Environment \/ UNCHANGED Launch!vars
    <2>1. memo' = memo /\ (release' = release \/ release' = 1)
      BY <1>3 DEF Launch!Environment, Launch!CommitConfig, Launch!CommitLock, Launch!Write,
                  Launch!EditSkill, Launch!Upgrade, Launch!Tick, Launch!Touch, Launch!Edit,
                       Launch!Settle, Launch!vars, Launch!project
    <2>2. ASSUME NEW d \in dirs PROVE Fresh(d)'
      BY <1>1, <2>1 DEF FreshHolds, Fresh
    <2>3. ASSUME NEW d \in dirs, Launch!Touch(d), NEW e \in dirs' PROVE Fresh(e)'
      <3>1. d \in Launch!Contexts /\ dirs' = (dirs \ {d}) \cup {[d EXCEPT !.drift = TRUE]}
              /\ d \in LaunchDir
        BY <1>1, <2>3, LaunchOf DEF Launch!Touch, ContextInv, LaunchTypes
      <3>2. CASE e = [d EXCEPT !.drift = TRUE]
        <4>1. e.kind = d.kind /\ e.release = d.release /\ d.kind = "context"
          BY <3>1, <3>2 DEF LaunchDir, Launch!Contexts
        <4>2. QED BY <2>2, <4>1 DEF Fresh
      <3>3. QED BY <2>2, <3>1, <3>2
    <2>4. dirs' = dirs \/ \E d \in dirs : Launch!Touch(d)
      BY <1>3 DEF Launch!Environment, Launch!CommitConfig, Launch!CommitLock, Launch!Write,
                  Launch!EditSkill, Launch!Upgrade, Launch!Tick, Launch!Edit, Launch!Settle,
                       Launch!vars
    <2>5. \A d \in dirs' : Fresh(d)'
      BY <2>2, <2>3, <2>4
    <2>6. QED BY <1>1, <2>1, <2>5 DEF FreshHolds
  <1>4. QED BY <1>2, <1>3 DEF Launch!Next, Moved

LEMMA HonestKept ==
  ASSUME Launch!LaunchAssumption, HonestInv, [Launch!Next]_(Launch!vars)
  PROVE  HonestInv'
  <1>1. ContextInv' /\ FreshHolds'
    BY ContextsKept, FreshKept DEF HonestInv
  <1>2. ASSUME NEW t \in Task, Moved(t), NEW u \in Task
        PROVE  Saw(u)' /\ (disturbed'[u] \/ Undisturbed(u)')
    <2>1. Apart(t)
      BY <1>2, StepsApart DEF HonestInv
    <2>2. QED BY <1>2, <2>1, OwnHonest, OthersHonest
  <1>3. ASSUME Launch!Environment \/ UNCHANGED Launch!vars, NEW u \in Task
        PROVE  Saw(u)' /\ (disturbed'[u] \/ Undisturbed(u)')
    BY <1>3, OutsideHonest
  <1>4. QED BY <1>1, <1>2, <1>3 DEF Launch!Next, Moved, HonestInv

LEMMA HonestStarts == ASSUME Launch!LaunchAssumption PROVE Launch!Init => HonestInv
  <1> SUFFICES ASSUME Launch!Init PROVE HonestInv
    OBVIOUS
  <1>1. ContextInv
    BY ContextsStart
  <1>2. \A t \in Task : Saw(t) /\ Undisturbed(t)
    BY IdleIsHonest DEF Launch!Init
  <1>3. \A d \in dirs : d.release = 0 /\ d.kind = "context"
    <2>1. ASSUME NEW i PROVE Launch!Published(i).release = 0 /\ Launch!Published(i).kind = "context"
      BY DEF Launch!Published, Launch!Directory
    <2>2. QED BY <2>1 DEF Launch!Init
  <1>4. FreshHolds
    <2>1. \A t \in Task : memo[t].release = 0
      BY DEF Launch!Init, Launch!Idle
    <2>2. QED BY <1>3, <2>1, NoCallIs DEF FreshHolds, Fresh
  <1>5. QED BY <1>1, <1>2, <1>4 DEF HonestInv

LEMMA WhoMoves ==
  ASSUME Launch!LaunchAssumption, ContextInv, [Launch!Next]_(Launch!vars), NEW t \in Task,
         at'[t] # at[t]
  PROVE  Moved(t)
  <1>1. ASSUME NEW u \in Task, Moved(u) PROVE Moved(t)
    <2>1. u = t
      BY <1>1, StepsApart DEF Apart
    <2>2. QED BY <1>1, <2>1
  <1>2. ASSUME Launch!Environment \/ UNCHANGED Launch!vars PROVE FALSE
    BY <1>2 DEF Launch!Environment, Launch!CommitConfig, Launch!CommitLock, Launch!Write,
                Launch!EditSkill, Launch!Upgrade, Launch!Tick, Launch!Touch, Launch!Edit,
                     Launch!Settle, Launch!vars
  <1>3. QED BY <1>1, <1>2 DEF Launch!Next, Moved

(* How a call returns. *)
Refused(t) ==
  \/ answer' = "changed" /\ at[t] \in {"compare", "input"} /\ ~ Launch!Stable(t)
  \/ answer' = "changed" /\ at[t] = "seal" /\ \E d \in Launch!Stage(t) : d.copied # memo[t].id.skill
  \/ answer' = "changed" /\ at[t] = "sources" /\ skill # memo[t].id.skill
  \/ answer' = "stale" /\ (projected => at[t] = "plan" /\ ~ memo[t].current)
  \/ answer' = "busy" /\ at[t] \in {"acquire", "next"} /\ \E i \in Launch!Id : owner[i] # None
  \/ answer' = "drift" /\ at[t] = "quarantine"
     /\ ~ \E d \in Launch!At(memo[t].id) : Launch!StillOld(t, d)
  \/ answer' \in {"unsupported", "limit", "died"}
FoundThere(t) ==
  /\ at[t] \in {"reuse", "rename"} /\ Launch!At(memo[t].id) # {} /\ dirs' = dirs \ Launch!Stage(t)
  /\ answer' = Launch!Verdict(t, Launch!At(memo[t].id))
Made(t) ==
  /\ at[t] = "rename" /\ answer' = "ok"
  /\ dirs' = (dirs \ Launch!Stage(t)) \cup {[d EXCEPT !.kind = "context", !.n = 0] :
     d \in Launch!Stage(t)}
Pruned(t) == at[t] = "next" /\ answer' = "ok"

LEMMA HowItReturns ==
  ASSUME Launch!LaunchAssumption, ContextInv, NEW t \in Task, Moved(t), Launch!Returns(t)
  PROVE  Refused(t) \/ FoundThere(t) \/ Made(t) \/ Pruned(t)
  <1>1. at[t] # "idle" /\ at'[t] = "idle" /\ LaunchTypes /\ LaunchKnows(t)
    BY LaunchHas DEF Launch!Returns, Launch!Active
  <1>2. ASSUME NEW s, s # "idle", Launch!Goto(t, s) PROVE FALSE
    BY <1>1, <1>2 DEF Launch!Goto, LaunchTypes
  <1>3. ASSUME NEW what, Launch!Return(t, what) PROVE answer' = what
    BY <1>3 DEF Launch!Return
  <1>4. CASE Launch!Capture(t) \/ Launch!ReadConfig(t) \/ Launch!ReadLock(t)
          \/ Launch!ReadBase(t) \/ Launch!StartPrepare(t) \/ Launch!StartPrune(t)
             \/ Launch!Choose(t) \/ Launch!Empty(t)
    BY <1>2, <1>4 DEF Launch!Capture, Launch!ReadConfig, Launch!ReadLock, Launch!ReadBase,
                      Launch!Read,
                      Launch!StartPrepare, Launch!StartPrune, Launch!Begin, Launch!Choose,
                           Launch!Empty
  <1>5. CASE Launch!Compare(t)
    <2>1. ~ Launch!Stable(t) /\ Launch!Return(t, "changed") /\ at[t] = "compare"
      BY <1>2, <1>5 DEF Launch!Compare
    <2>2. QED BY <1>3, <2>1 DEF Refused
  <1>6. CASE Launch!Plan(t)
    <2>1. ~ memo[t].current /\ Launch!Return(t, "stale") /\ at[t] = "plan"
      BY <1>2, <1>6 DEF Launch!Plan
    <2>2. QED BY <1>3, <2>1 DEF Refused
  <1>7. CASE Launch!Unsupported(t) \/ Launch!Crash(t)
    BY <1>3, <1>7 DEF Launch!Unsupported, Launch!Crash, Refused
  <1>8. CASE Launch!Scan(t)
    <2>1. Launch!Return(t, "limit")
      BY <1>2, <1>8 DEF Launch!Scan
    <2>2. QED BY <1>3, <2>1 DEF Refused
  <1>9. CASE Launch!Inspect(t)
    BY <1>1, <1>9 DEF Launch!Inspect
  <1>10. CASE Launch!EndPrune(t)
    BY <1>3, <1>10 DEF Launch!EndPrune, Pruned
  <1>11. CASE Launch!MoveAside(t)
    <2>1. at[t] = "quarantine" /\ Launch!Return(t, "drift")
            /\ ~ \E d \in Launch!At(memo[t].id) : Launch!StillOld(t, d)
      BY <1>2, <1>11 DEF Launch!MoveAside
    <2>2. QED BY <1>3, <2>1 DEF Refused
  <1>12. CASE \E i \in Launch!Id : Launch!Acquire(t, i) \/ Launch!TimeOut(t, i)
    <2>1. PICK i \in Launch!Id : at[t] \in {"acquire", "next"} /\ owner[i] # None
            /\ Launch!Return(t, "busy")
      BY <1>2, <1>12 DEF Launch!Acquire, Launch!TimeOut
    <2>2. QED BY <1>3, <2>1 DEF Refused
  <1>13. CASE Launch!Recover(t)
    <2>1. PICK s \in {"sources", "mkdir"} : Launch!Goto(t, s)
      BY <1>13 DEF Launch!Recover
    <2>2. QED BY <1>2, <2>1
  <1>14. CASE Launch!MakeStage(t) \/ Launch!MarkStage(t) \/ Launch!Copy(t)
    BY <1>2, <1>14 DEF Launch!MakeStage, Launch!MarkStage, Launch!Copy, Launch!Rewrite
  <1>15. CASE Launch!Seal(t)
    <2>1. PICK d \in Launch!Stage(t) : ~ Launch!CopyMatches(t, d) /\ at[t] = "seal"
            /\ Launch!Return(t, "changed")
      BY <1>2, <1>15 DEF Launch!Seal, Launch!Rewrite, Launch!Abandon
    <2>2. QED BY <1>3, <2>1 DEF Refused, Launch!CopyMatches
  <1>16. ASSUME NEW step, NEW holds, NEW s \in {"projection", "input", "reuse", "rename"},
                NEW what, Launch!Check(t, step, holds, s, what)
         PROVE  at[t] = step /\ ~ holds /\ answer' = what
    BY <1>2, <1>3, <1>16 DEF Launch!Check, Launch!Abandon
  <1>17. CASE Launch!RecheckSources(t)
    BY <1>16, <1>17 DEF Launch!RecheckSources, Refused
  <1>18. CASE Launch!RecheckProjection(t)
    <2>1. ~ (Launch!NeedsProjection(memo[t].id) => projected) /\ answer' = "stale"
      BY <1>16, <1>18 DEF Launch!RecheckProjection
    <2>2. QED BY <2>1 DEF Refused
  <1>19. CASE Launch!RecheckInput(t)
    <2>1. PICK s \in {"reuse", "rename"} : Launch!Check(t, "input", Launch!Stable(t), s, "changed")
      BY <1>19 DEF Launch!RecheckInput
    <2>2. QED BY <1>16, <2>1 DEF Refused
  <1>20. CASE Launch!Reuse(t)
    <2>1. at[t] = "reuse" /\ dirs' = dirs \ Launch!Stage(t)
            /\ answer' = Launch!Verdict(t, Launch!At(memo[t].id))
      BY <1>3, <1>20 DEF Launch!Reuse, Launch!Abandon
    <2>2. Launch!At(memo[t].id) # {}
      BY <1>1, <2>1 DEF LaunchKnows, Staging
    <2>3. QED BY <2>1, <2>2 DEF FoundThere
  <1>21. CASE Launch!Publish(t)
    BY <1>3, <1>21 DEF Launch!Publish, Launch!Abandon, FoundThere, Made
  <1>22. QED BY <1>4, <1>5, <1>6, <1>7, <1>8, <1>9, <1>10, <1>11, <1>12, <1>13, <1>14, <1>15, <1>17,
  <1>18, <1>19,
                <1>20, <1>21 DEF Moved, Launch!Step, Launch!PrepareStep, Launch!PruneStep,
                                 Launch!LockStep

(* What was found under the id of a call, and what the verdict is.          *)
LEMMA FoundIs ==
  ASSUME Launch!LaunchAssumption, HonestInv, NEW t \in Task, FoundThere(t)
  PROVE  \E d \in Launch!At(memo[t].id) :
           /\ d \in dirs' /\ d.id = memo[t].id /\ d.kind = "context" /\ Launch!Sealed(d)
              /\ d.release \in Launch!Version
           /\ answer' = "ok" => Launch!Verified(d) /\ Launch!Expected(t, d)
           /\ answer' = "foreign" => ~ Launch!Expected(t, d)
           /\ answer' = "drift" => d.drift
           /\ answer' \in {"ok", "foreign", "drift"}
  <1>1. memo[t].id \in Launch!Id /\ ContextInv /\ at[t] \in {"reuse", "rename"}
    BY LaunchHas DEF HonestInv, FoundThere, Locked, Staging
  <1>2. PICK d \in Launch!At(memo[t].id) : TRUE
    BY DEF FoundThere
  <1>3. Launch!At(memo[t].id) = {d} /\ d \in dirs /\ d.kind = "context" /\ d.id = memo[t].id
    BY <1>1, <1>2, ContextIsOne
  <1>4. Launch!Sealed(d) /\ d.release \in Launch!Version
    BY <1>1, <1>3, LaunchHas DEF ContextsHold, Launch!Contexts, HonestInv, FreshHolds, Fresh
  <1>5. d \in dirs'
    BY <1>3 DEF FoundThere, Launch!Stage, Launch!Own
  <1>6. answer' = IF Launch!Sealed(d)
          /\ Launch!Expected(t, d) THEN IF Launch!Verified(d) THEN "ok" ELSE "drift" ELSE "foreign"
    BY <1>3 DEF FoundThere, Launch!Verdict
  <1>7. Launch!Verified(d) \/ d.drift
    BY <1>3, <1>4 DEF Launch!Verified
  <1>8. QED BY <1>2, <1>3, <1>4, <1>5, <1>6, <1>7

LEMMA MadeIs ==
  ASSUME Launch!LaunchAssumption, HonestInv, NEW t \in Task, Made(t)
  PROVE  \E d \in dirs' : Launch!Verified(d) /\ d.id = memo[t].id /\ Launch!Expected(t, d)
  <1>1. ContextInv /\ at[t] = "rename" /\ FreshHolds
    BY DEF HonestInv, Made
  <1>2. HasStage(t) /\ memo[t].id \in Launch!Id
    BY <1>1, LaunchHas DEF LaunchKnows, HasStage, Staged, Locked, Staging
  <1>3. PICK d \in Launch!Stage(t) : Written(t, d)
    BY <1>1, <1>2, LaunchHas DEF LaunchKnows
  <1>4. d \in LaunchDir /\ d.kind = "stage" /\ d.id = memo[t].id /\ ~ d.drift
    BY <1>1, LaunchHas DEF Launch!Stage, Launch!Own, FreshHolds, Fresh
  <1>5. d.marked /\ d.copied = memo[t].id.skill /\ d.created \in Nat /\ d.release = memo[t].release
    BY <1>1, <1>3 DEF Written
  <1>6. d.copied # None /\ d.created # None
    <2>1. d.copied \in Int
      BY <1>2, <1>5 DEF Launch!Id, Launch!Version
    <2>2. QED BY <1>5, <2>1 DEF Launch!LaunchAssumption
  <1>7. PICK e : e = [d EXCEPT !.kind = "context", !.n = 0]
    OBVIOUS
  <1>8. e.kind = "context" /\ e.id = d.id /\ e.marked = d.marked /\ e.copied = d.copied
          /\ e.created = d.created
        /\ e.release = d.release /\ e.drift = d.drift
    BY <1>4, <1>7 DEF LaunchDir
  <1>9. e \in dirs'
    BY <1>7 DEF Made
  <1>10. Launch!Verified(e)
    BY <1>4, <1>5, <1>6, <1>8 DEF Launch!Verified, Launch!Sealed
  <1>11. QED BY <1>4, <1>5, <1>8, <1>9, <1>10 DEF Launch!Expected

Usable(t) ==
  Launch!Prepared(t) =>
    /\ \E d \in dirs' : Launch!Verified(d) /\ d.id = memo[t].id /\ Launch!Expected(t, d)
    /\ disturbed[t] \/ memo[t].id = [config |-> config, lock |-> lock, skill |-> skill]

LEMMA StepUsable ==
  ASSUME Launch!LaunchAssumption, HonestInv, [Launch!Next]_(Launch!vars), NEW t \in Task
  PROVE  Usable(t)
  <1> SUFFICES ASSUME Launch!Prepared(t)
               PROVE  /\ \E d \in dirs' : Launch!Verified(d) /\ d.id = memo[t].id
                         /\ Launch!Expected(t, d)
                      /\ disturbed[t] \/ memo[t].id = [config |-> config, lock |-> lock,
                         skill |-> skill]
    BY DEF Usable
  <1>1. ContextInv /\ Launch!Returns(t) /\ memo[t].input # None /\ answer' = "ok"
    BY DEF HonestInv, Launch!Prepared
  <1>2. Moved(t)
    BY <1>1, WhoMoves DEF Launch!Returns, Launch!Active
  <1>3. ~ Pruned(t)
    BY <1>1, LaunchHas, LaunchOf DEF Pruned, LaunchShape, Pruning
  <1>4. FoundThere(t) \/ Made(t)
    BY <1>1, <1>2, <1>3, HowItReturns DEF Refused
  <1>5. \E d \in dirs' : Launch!Verified(d) /\ d.id = memo[t].id /\ Launch!Expected(t, d)
    BY <1>1, <1>4, FoundIs, MadeIs
  <1>6. at[t] \in Preparing
    BY <1>4 DEF FoundThere, Made, Preparing, Staging
  <1>7. QED BY <1>5, <1>6 DEF HonestInv, Undisturbed, Planned

Explained(t) ==
  /\ answer' = "changed" => disturbed[t]
  /\ answer' = "stale" => disturbed[t] \/ ~ projected
  /\ answer' = "foreign" => release = 1 /\ \E d \in Launch!At(memo[t].id) : ~ Launch!Expected(t, d)
  /\ answer' = "drift" => disturbed[t] \/ \E d \in Launch!At(memo[t].id) : d.drift
  /\ answer' = "busy" => \E id \in Launch!Id : owner[id] \notin {t, None}

LEMMA StepExplained ==
  ASSUME Launch!LaunchAssumption, HonestInv, [Launch!Next]_(Launch!vars), NEW t \in Task,
         Launch!Returns(t)
  PROVE  Explained(t)
  <1>1. ContextInv /\ LaunchTypes /\ LaunchShape(t) /\ memo[t] \in LaunchCall
    BY LaunchHas, LaunchOf DEF HonestInv
  <1>2. Moved(t)
    BY <1>1, WhoMoves DEF Launch!Returns, Launch!Active
  <1>3. Refused(t) \/ FoundThere(t) \/ Made(t) \/ Pruned(t)
    BY <1>1, <1>2, HowItReturns
  <1>4. disturbed[t] \/ Undisturbed(t)
    BY DEF HonestInv
  <1>5. CASE Made(t) \/ Pruned(t)
    BY <1>5 DEF Made, Pruned, Explained
  <1>6. CASE FoundThere(t)
    <2>1. PICK d \in Launch!At(memo[t].id) :
            /\ d \in dirs' /\ d.release \in Launch!Version
            /\ answer' = "foreign" => ~ Launch!Expected(t, d)
            /\ answer' = "drift" => d.drift
            /\ answer' \in {"ok", "foreign", "drift"}
      BY <1>6, FoundIs
    <2>2. d \in dirs /\ memo[t].release \in Launch!Version /\ release \in Launch!Version
      BY <1>1, <2>1 DEF Launch!At, Launch!Contexts, LaunchCall, LaunchTypes, LaunchWorld
    <2>3. release = 0 => d.release = 0 /\ memo[t].release = 0
      BY <2>1, <2>2 DEF HonestInv, FreshHolds, Fresh, Launch!Version
    <2>4. answer' = "foreign" => release = 1
      <3>1. release = 0 => Launch!Expected(t, d)
        BY <2>3 DEF Launch!Expected
      <3>2. release # 0 => release = 1
        BY <2>2 DEF Launch!Version
      <3>3. QED BY <2>1, <3>1, <3>2
    <2>5. QED BY <2>1, <2>4 DEF Explained
  <1>7. CASE Refused(t)
    <2>1. CASE answer' = "changed" /\ at[t] \in {"compare", "input"} /\ ~ Launch!Stable(t)
      <3>1. ~ Planned(t)
        BY <2>1 DEF Planned, Launch!Stable, Planning, Preparing, Staging
      <3>2. QED BY <1>4, <2>1, <3>1 DEF Explained, Undisturbed
    <2>2. CASE answer' = "changed" /\ at[t] = "seal"
            /\ \E d \in Launch!Stage(t) : d.copied # memo[t].id.skill
      <3>1. Planned(t) => memo[t].id.skill = skill
        BY <2>2 DEF Planned, Preparing, Staging
      <3>2. ~ (Planned(t) /\ Copied(t))
        BY <2>2, <3>1 DEF Copied
      <3>3. QED BY <1>4, <2>2, <3>2 DEF Explained, Undisturbed
    <2>3. CASE answer' = "changed" /\ at[t] = "sources" /\ skill # memo[t].id.skill
      <3>1. ~ Planned(t)
        BY <2>3 DEF Planned, Preparing, Staging
      <3>2. QED BY <1>4, <2>3, <3>1 DEF Explained, Undisturbed
    <2>4. CASE answer' = "stale" /\ (projected => at[t] = "plan" /\ ~ memo[t].current)
      <3>1. projected => ~ Planned(t)
        BY <2>4 DEF Planned
      <3>2. QED BY <1>4, <2>4, <3>1 DEF Explained, Undisturbed
    <2>5. CASE answer' = "busy" /\ at[t] \in {"acquire", "next"}
            /\ \E i \in Launch!Id : owner[i] # None
      <3>1. PICK i \in Launch!Id : owner[i] # None
        BY <2>5
      <3>2. owner[i] # t
        BY <1>1, <2>5, <3>1, LaunchHas DEF ContextsHold, Locked, Staging
      <3>3. QED BY <2>5, <3>1, <3>2 DEF Explained
    <2>6. CASE answer' = "drift" /\ at[t] = "quarantine"
            /\ ~ \E d \in Launch!At(memo[t].id) : Launch!StillOld(t, d)
      <3>1. ~ Listed(t)
        BY <2>6 DEF Listed
      <3>2. QED BY <1>4, <2>6, <3>1 DEF Explained, Undisturbed
    <2>7. CASE answer' \in {"unsupported", "limit", "died"}
      BY <2>7 DEF Explained
    <2>8. QED BY <1>7, <2>1, <2>2, <2>3, <2>4, <2>5, <2>6, <2>7 DEF Refused
  <1>8. QED BY <1>3, <1>5, <1>6, <1>7

OfOnePair(t) ==
  at[t] = "compare" /\ at'[t] = "plan" => None \in seen[t]
       \/ <<memo[t].config, memo[t].lock>> \in seen[t]

LEMMA StepOfOnePair ==
  ASSUME Launch!LaunchAssumption, HonestInv, [Launch!Next]_(Launch!vars), NEW t \in Task
  PROVE  OfOnePair(t)
  <1> SUFFICES ASSUME at[t] = "compare", at'[t] = "plan"
               PROVE  None \in seen[t] \/ <<memo[t].config, memo[t].lock>> \in seen[t]
    BY DEF OfOnePair
  <1>1. ContextInv /\ LaunchTypes /\ Saw(t)
    BY LaunchHas DEF HonestInv
  <1>2. Moved(t)
    BY <1>1, WhoMoves
  <1>3. ASSUME NEW s, Launch!Goto(t, s) PROVE s = "plan"
    BY <1>1, <1>3 DEF Launch!Goto, LaunchTypes
  <1>4. ASSUME NEW what, Launch!Return(t, what) PROVE FALSE
    BY <1>3, <1>4 DEF Launch!Return
  <1>5. Launch!Compare(t)
    BY <1>2, <1>4 DEF Moved, Launch!Step, Launch!PrepareStep, Launch!PruneStep, Launch!LockStep,
                      Launch!Capture, Launch!ReadConfig, Launch!ReadLock, Launch!ReadBase,
                           Launch!Read,
                      Launch!Plan,
             Launch!Unsupported, Launch!Recover, Launch!MakeStage, Launch!MarkStage, Launch!Copy,
             Launch!Seal, Launch!Rewrite, Launch!RecheckSources, Launch!RecheckProjection,
             Launch!RecheckInput,
             Launch!Reuse, Launch!Publish, Launch!Check, Launch!Scan, Launch!Inspect, Launch!Choose,
             Launch!MoveAside, Launch!Empty, Launch!EndPrune, Launch!Acquire, Launch!TimeOut,
             Launch!Crash,
             Launch!StartPrepare, Launch!StartPrune, Launch!Begin, Launch!Abandon
  <1>6. Launch!Stable(t)
    BY <1>3, <1>4, <1>5 DEF Launch!Compare
  <1>7. QED BY <1>1, <1>6 DEF Saw, Launch!Stable, Launch!Input

OldGoes(d) ==
  d \notin dirs' =>
    \/ [d EXCEPT !.drift = TRUE] \in dirs'
    \/ /\ Launch!Verified(d)
       /\ \E t \in Task : owner[d.id] = t /\ memo[t].cutoff # None /\ d.created <= memo[t].cutoff

LEMMA StepOldGoes ==
  ASSUME Launch!LaunchAssumption, HonestInv, [Launch!Next]_(Launch!vars), NEW d \in Launch!Contexts
  PROVE  OldGoes(d)
  <1> SUFFICES ASSUME d \notin dirs' PROVE OldGoes(d)
    BY DEF OldGoes
  <1>1. ContextInv /\ d \in dirs /\ d.kind = "context"
    BY DEF HonestInv, Launch!Contexts
  <1>2. CASE Launch!Environment \/ UNCHANGED Launch!vars
    <2>1. PICK e \in dirs : Launch!Touch(e)
      BY <1>1, <1>2 DEF Launch!Environment, Launch!CommitConfig, Launch!CommitLock, Launch!Write,
                        Launch!EditSkill, Launch!Upgrade, Launch!Tick, Launch!Edit, Launch!Settle,
                             Launch!vars
    <2>2. e = d
      BY <1>1, <2>1 DEF Launch!Touch
    <2>3. QED BY <2>1, <2>2 DEF Launch!Touch, OldGoes
  <1>3. ASSUME NEW t \in Task, Moved(t) PROVE OldGoes(d)
    <2>1. ~ (dirs \ Launch!Stage(t) \subseteq dirs')
      BY <1>1 DEF Launch!Stage, Launch!Own
    <2>2. ~ (dirs \subseteq dirs')
      BY <1>1
    <2>3. ~ Launch!Recover(t) /\ ~ Launch!Empty(t)
      BY <1>1 DEF Launch!Recover, Launch!Empty, Launch!Quarantine, Launch!Own
    <2>4. Launch!MoveAside(t)
      BY <1>3, <2>1, <2>2, <2>3 DEF Moved, Launch!Step, Launch!PrepareStep, Launch!PruneStep,
                                    Launch!LockStep, Launch!Capture, Launch!ReadConfig,
                                         Launch!ReadLock,
                                    Launch!ReadBase, Launch!Read,
             Launch!Plan, Launch!Compare, Launch!Unsupported, Launch!MakeStage, Launch!MarkStage,
             Launch!Copy, Launch!Seal, Launch!Rewrite, Launch!RecheckSources,
                  Launch!RecheckProjection,
             Launch!RecheckInput, Launch!Reuse, Launch!Publish, Launch!Check, Launch!Scan,
             Launch!Inspect, Launch!Choose, Launch!EndPrune, Launch!Acquire, Launch!TimeOut,
             Launch!Crash,
             Launch!StartPrepare, Launch!StartPrune, Launch!Begin, Launch!Abandon
    <2>5. at[t] = "quarantine" /\ dirs' # dirs
      BY <1>1, <2>4 DEF Launch!MoveAside
    <2>6. memo[t].id \in Launch!Id /\ owner[memo[t].id] = t /\ memo[t].cutoff \in Int
      BY <1>1, <2>5, LaunchHas, LaunchOf DEF Locked, LaunchShape
    <2>7. PICK e \in Launch!At(memo[t].id) : Launch!StillOld(t, e)
      BY <2>4, <2>5 DEF Launch!MoveAside
    <2>8. d \in Launch!At(memo[t].id)
      BY <1>1, <2>4, <2>5 DEF Launch!MoveAside
    <2>9. d = e /\ d.id = memo[t].id
      BY <1>1, <2>6, <2>7, <2>8, ContextIsOne
    <2>10. memo[t].cutoff # None
      BY <2>6 DEF Launch!LaunchAssumption
    <2>11. QED BY <2>6, <2>7, <2>9, <2>10 DEF Launch!StillOld, OldGoes
  <1>4. QED BY <1>2, <1>3 DEF Launch!Next, Moved

(* For the launch contexts by themselves. *)
LEMMA HonestInLaunch == ASSUME Launch!LaunchAssumption PROVE Launch!Spec => Launch!CallsAreHonest
  <1>1. Launch!Init => HonestInv
    BY HonestStarts
  <1>2. HonestInv /\ [Launch!Next]_(Launch!vars) => HonestInv'
    BY HonestKept
  <1>3. HonestInv /\ [Launch!Next]_(Launch!vars) =>
          [\A t \in Task : at[t] = "compare" /\ at'[t] = "plan" =>
             None \in seen[t] \/ <<memo[t].config, memo[t].lock>> \in seen[t]]_(Launch!vars)
    BY StepOfOnePair DEF OfOnePair
  <1>4. HonestInv /\ [Launch!Next]_(Launch!vars) =>
          [\A t \in Task : Launch!Prepared(t) =>
             /\ \E d \in dirs' : Launch!Verified(d) /\ d.id = memo[t].id /\ Launch!Expected(t, d)
             /\ disturbed[t] \/ memo[t].id = [config |-> config, lock |-> lock,
                skill |-> skill]]_(Launch!vars)
    BY StepUsable DEF Usable
  <1>5. HonestInv /\ [Launch!Next]_(Launch!vars) =>
          [\A t \in Task : Launch!Returns(t) =>
             CASE answer' = "changed" -> disturbed[t]
               [] answer' = "stale" -> disturbed[t] \/ ~ projected
               [] answer' = "foreign" -> release = 1
                    /\ \E d \in Launch!At(memo[t].id) : ~ Launch!Expected(t, d)
               [] answer' = "drift" -> disturbed[t] \/ \E d \in Launch!At(memo[t].id) : d.drift
               [] answer' = "busy" -> \E id \in Launch!Id : owner[id] \notin {t, None}
               [] OTHER -> TRUE]_(Launch!vars)
    BY StepExplained DEF Explained
  <1>6. HonestInv /\ [Launch!Next]_(Launch!vars) =>
          [\A d \in Launch!Contexts : d \notin dirs' =>
             \/ [d EXCEPT !.drift = TRUE] \in dirs'
             \/ /\ Launch!Verified(d)
                /\ \E t \in Task : owner[d.id] = t /\ memo[t].cutoff # None
                   /\ d.created <= memo[t].cutoff]_(Launch!vars)
    BY StepOldGoes DEF OldGoes
  <1>7. QED BY <1>1, <1>2, <1>3, <1>4, <1>5, <1>6, PTL
            DEF Launch!Spec, Launch!CallsAreHonest, Launch!PlansAreOfOnePair, Launch!AnswerIsUsable,
                Launch!RefusalIsExplained, Launch!OnlyOldContextsGo

(* In the composition launching is a part that the others leave alone. *)
LEMMA LaunchIsAPart == OverlapSpec => Launch!Spec
  <1>1. OverlapInit => Launch!Init
    BY DEF OverlapInit
  <1>2. [OverlapNext]_all => [Launch!Next]_(Launch!vars)
    BY DEF OverlapNext, all, launch, Launch!project, Launch!bounds, Launch!vars
  <1>3. QED BY <1>1, <1>2, PTL DEF OverlapSpec, Launch!Spec

(* store.ts, prune.ts of worker-launch-context: whoever publishes, prunes,  *)
(* edits or dies, a name is of one directory, what is published is complete *)
(* and of its id, and what is out of sight has a living owner or is debris. *)
THEOREM ContextsStayWhole == OverlapSpec => []ContextsAreWhole
  <1>1. Launch!Spec => []Launch!ContextsAreWhole
    BY WholeInLaunch, ContextsAssumption
  <1>2. QED BY <1>1, LaunchIsAPart DEF ContextsAreWhole

(* snapshot.ts, service.ts, store.ts, prune.ts: a plan is of one pair of    *)
(* files, a prepared context is there and of the project, a refusal has its *)
(* cause, and only what is whole and old enough is removed.                 *)
THEOREM LaunchesStayHonest == OverlapSpec => CallsAreHonest
  <1>1. Launch!Spec => Launch!CallsAreHonest
    BY HonestInLaunch, ContextsAssumption
  <1>2. QED BY <1>1, LaunchIsAPart DEF CallsAreHonest
=============================================================================
