---------------------------- MODULE LaunchContext ----------------------------
(***************************************************************************)
(* Worker launch contexts: `drwn launch prepare` plans a context from the  *)
(* project's files, publishes it as a directory that is named by a hash of *)
(* what it was made from, and returns it; prune removes old ones           *)
(* (cli/core/worker-launch-context/).  Project commits, writes, edits of a *)
(* skill, upgrades of drwn and users who touch a context go on meanwhile.  *)
(*                                                                         *)
(* Left out: the lock per context is taken or free (its protocol is        *)
(* OwnerLock); what is hashed of a closure is the version of config, lock  *)
(* and skill that was read; the target (one directory per target).         *)
(***************************************************************************)
EXTENDS Integers, FiniteSets

CONSTANTS
  Task,          \* processes that prepare and prune
  None,
  Age,           \* --older-than, in ticks
  MaxContexts,   \* WORKER_LAUNCH_MAX_CONTEXTS
  MaxEvents, MaxClock    \* bounds: calls, edits and deaths together, and names; ticks

LaunchAssumption == None \notin Int \cup Task /\ {Age, MaxEvents} \subseteq Nat

VARIABLES
  config, lock,  \* versions of the two project files; config 0 has no active worker
  torn,          \* a commit replaced config and has not replaced lock
  skill,         \* the content of a capability's source tree
  projected,     \* drwn write has run since the last commit
  release,       \* the drwn version, and with it the warnings of a plan
  clock,
  dirs,          \* the directories under launch-contexts/v1/<target>
  owner,         \* the task that holds the lock of an id
  pc, call,      \* per task: its next step and what it remembers
  disturbed,     \* history: something else happened during the task's call
  seen,          \* history: the pairs of files there were while it planned, None if one came back
  answer,        \* history: what the last step returned, if it was a return
  events, died  \* how much of the bound is used; history: a process died

project == <<config, lock, torn, skill, projected, release>>
bounds == <<clock, events, died>>
vars == <<project, bounds, dirs, owner, pc, call, disturbed, seen, answer>>

Version == 0 .. 1
Id == [config : Version, lock : Version, skill : Version]

(* A directory: a published context, a stage or a quarantine.  n is the     *)
(* random part of its name, marked is publication.json, copied the rendered *)
(* tree, release and created what manifest and receipt say, drift what a    *)
(* user did to it.                                                          *)
Directory(kind, id, n) ==
  [kind |-> kind, id |-> id, n |-> n, marked |-> FALSE, copied |-> None,
   release |-> None, created |-> None, drift |-> FALSE]
Published(id) ==
  [Directory("context", id, 0) EXCEPT !.marked = TRUE, !.copied = id.skill, !.release = 0, !.created = 0]
Contexts == {d \in dirs : d.kind = "context"}
At(id) == {d \in Contexts : d.id = id}
Own(t, kind) == {d \in dirs : d.kind = kind /\ d.id = call[t].id /\ d.n = call[t].n}
Stage(t) == Own(t, "stage")
Quarantine(t) == Own(t, "prune")
Free(kind, id) == {n \in 1 .. MaxEvents : \A d \in dirs : <<d.kind, d.id, d.n>> # <<kind, id, n>>}
Suffix(kind, id) == CHOOSE n \in Free(kind, id) : TRUE

Idle == [release |-> 0, tries |-> 0, input |-> None, config |-> None, lock |-> None,
         current |-> FALSE, id |-> None, n |-> 0, found |-> FALSE,
         todo |-> {}, candidates |-> {}, cutoff |-> None]

Init ==
  /\ config \in Version /\ lock = config /\ torn = FALSE /\ skill = 0
  /\ projected = TRUE /\ release = 0 /\ clock = 0
  /\ dirs \in {{}, {Published([config |-> config, lock |-> lock, skill |-> 0])}}
  /\ owner = [i \in Id |-> None]
  /\ pc = [t \in Task |-> "idle"] /\ call = [t \in Task |-> Idle]
  /\ disturbed = [t \in Task |-> FALSE] /\ seen = [t \in Task |-> {}] /\ answer = None
  /\ events = 0 /\ died = FALSE

Goto(t, step) == pc' = [pc EXCEPT ![t] = step]
Remember(t, c) == call' = [call EXCEPT ![t] = c]
Active(t) == pc[t] # "idle"
Others == <<project, bounds>>
Silently == UNCHANGED <<disturbed, seen>> /\ answer' = None

(* The call returns or throws; what it held is released by the finally of   *)
(* withWorkerLaunchContextLock.                                             *)
Return(t, what) ==
  /\ Goto(t, "idle") /\ Remember(t, Idle)
  /\ answer' = what
  /\ disturbed' = [disturbed EXCEPT ![t] = FALSE] /\ seen' = [seen EXCEPT ![t] = {}]
  /\ owner' = [i \in Id |-> IF owner[i] = t THEN None ELSE owner[i]]

(* Something happens that the calls under way did not do, but t's.          *)
DisturbBut(t) ==
  /\ disturbed' = [u \in Task |-> disturbed[u] \/ (u # t /\ Active(u))]
  /\ answer' = None

-----------------------------------------------------------------------------
(* Planning: capture, buildEffectiveState, planRepositoryProjection,        *)
(* capture, compare, up to three times.  A capture reads both files at once *)
(* (Promise.all); the other two read one after the other.                   *)
Input == <<config, lock>>

Event == events < MaxEvents /\ events' = events + 1

Begin(t, step) ==
  /\ pc[t] = "idle" /\ Event
  /\ Goto(t, step) /\ Remember(t, [Idle EXCEPT !.release = release])
  /\ seen' = [seen EXCEPT ![t] = IF step = "capture" THEN {Input} ELSE {}] /\ answer' = None
  /\ UNCHANGED <<project, clock, dirs, owner, died, disturbed>>

StartPrepare(t) == Begin(t, "capture")
StartPrune(t) == Begin(t, "scan")

Read(t, step, next, c) ==
  /\ pc[t] = step
  /\ Goto(t, next) /\ Remember(t, c)
  /\ Silently /\ UNCHANGED <<Others, dirs, owner>>

Capture(t) == Read(t, "capture", "config", [call[t] EXCEPT !.input = Input])
ReadConfig(t) == Read(t, "config", "lock", [call[t] EXCEPT !.config = config])
ReadLock(t) == Read(t, "lock", "base", [call[t] EXCEPT !.lock = lock])
ReadBase(t) == Read(t, "base", "compare", [call[t] EXCEPT !.current = projected])

(* Mutant: what was captured first is taken without a second look. *)
TakenAtOnce(t) == TRUE
Stable(t) == call[t].input = Input

MaxAttempts == 3
Compare(t) ==
  /\ pc[t] = "compare"
  /\ UNCHANGED <<Others, dirs>>
  /\ LET c == call[t] IN
     \/ /\ Stable(t) /\ Goto(t, "plan")
        /\ seen' = [seen EXCEPT ![t] = {}]
        /\ answer' = None /\ UNCHANGED <<call, owner, disturbed>>
     \/ /\ ~ Stable(t) /\ c.tries + 1 < MaxAttempts
        /\ Goto(t, "capture")
        /\ Remember(t, [Idle EXCEPT !.release = c.release, !.tries = c.tries + 1])
        /\ Silently /\ UNCHANGED owner
     \/ ~ Stable(t) /\ c.tries + 1 = MaxAttempts /\ Return(t, "changed")

NeedsProjection(id) == id.config # 0

(* planWorkerLaunchContext: the base projection was current, the sources    *)
(* are hashed, the id is the hash of it all; then the target is probed.     *)
Plan(t) ==
  /\ pc[t] = "plan"
  /\ UNCHANGED <<Others, dirs>>
  /\ LET c == call[t]
         id == [config |-> c.config, lock |-> c.lock, skill |-> skill]
     IN IF NeedsProjection(id) /\ ~ c.current
        THEN Return(t, "stale")
        ELSE /\ Goto(t, "acquire")
             /\ Remember(t, [Idle EXCEPT !.release = c.release, !.input = c.input, !.id = id])
             /\ Silently /\ UNCHANGED owner

(* The client is missing or too old, or a closure, consent or an ambient    *)
(* server refuses the plan.                                                 *)
Unsupported(t) ==
  /\ pc[t] = "plan" /\ Return(t, "unsupported")
  /\ UNCHANGED <<Others, dirs>>

-----------------------------------------------------------------------------
(* withWorkerLaunchContextLock: wait for the lock, for a minute at most.    *)
Wanted(t) == IF pc[t] = "acquire" THEN {call[t].id} ELSE call[t].candidates

Acquire(t, id) ==
  /\ pc[t] \in {"acquire", "next"} /\ id \in Wanted(t) /\ owner[id] = None
  /\ owner' = [owner EXCEPT ![id] = t]
  /\ Goto(t, IF pc[t] = "acquire" THEN "recover" ELSE "quarantine")
  /\ Remember(t, [call[t] EXCEPT !.id = id])
  /\ Silently /\ UNCHANGED <<Others, dirs>>

TimeOut(t, id) ==
  /\ pc[t] \in {"acquire", "next"} /\ id \in Wanted(t) /\ owner[id] # None
  /\ Return(t, "busy")
  /\ UNCHANGED <<Others, dirs>>

(* recoverOwnedStages, and whether the artifact is there. *)
Recover(t) ==
  /\ pc[t] = "recover"
  /\ LET there == At(call[t].id) # {} IN
     /\ Remember(t, [call[t] EXCEPT !.found = there])
     /\ Goto(t, IF there THEN "sources" ELSE "mkdir")
  /\ dirs' = {d \in dirs : d.kind = "stage" /\ d.id = call[t].id => ~ d.marked}
  /\ Silently /\ UNCHANGED <<Others, owner>>

MakeStage(t) ==
  /\ pc[t] = "mkdir"
  /\ LET id == call[t].id
         n == Suffix("stage", id)
     IN /\ Free("stage", id) # {}
        /\ dirs' = dirs \cup {Directory("stage", id, n)}
        /\ Remember(t, [call[t] EXCEPT !.n = n])
  /\ Goto(t, "mark")
  /\ Silently /\ UNCHANGED <<Others, owner>>

Rewrite(t, step, next, d) ==
  /\ pc[t] = step
  /\ dirs' = (dirs \ Stage(t)) \cup {d}
  /\ Goto(t, next)
  /\ Silently /\ UNCHANGED <<Others, owner, call>>

(* The finally block: the stage goes, then the lock. *)
Abandon(t, what) ==
  /\ dirs' = dirs \ Stage(t)
  /\ Return(t, what)
  /\ UNCHANGED Others

MarkStage(t) == \E d \in Stage(t) : Rewrite(t, "mark", "render", [d EXCEPT !.marked = TRUE])

(* The renderers copy the trees ...                                         *)
Copy(t) == \E d \in Stage(t) : Rewrite(t, "render", "seal", [d EXCEPT !.copied = skill])

(* Mutant: what was copied is not hashed. *)
CopiedAnything(t, d) == TRUE
CopyMatches(t, d) == d.copied = call[t].id.skill

(* ... and hash the copies; then manifest and receipt, and all is flushed.  *)
Seal(t) == \E d \in Stage(t) :
  IF CopyMatches(t, d)
  THEN Rewrite(t, "seal", "sources", [d EXCEPT !.release = call[t].release, !.created = clock])
  ELSE pc[t] = "seal" /\ Abandon(t, "changed")

(* What the stage, or the context that is there already, was made from is   *)
(* compared with what there is now: sources, base projection, inputs.       *)
Check(t, step, holds, next, what) ==
  /\ pc[t] = step
  /\ IF holds
     THEN Goto(t, next) /\ Silently /\ UNCHANGED <<Others, dirs, owner, call>>
     ELSE Abandon(t, what)

RecheckSources(t) == Check(t, "sources", skill = call[t].id.skill, "projection", "changed")
RecheckProjection(t) ==
  Check(t, "projection", NeedsProjection(call[t].id) => projected, "input", "stale")
RecheckInput(t) ==
  Check(t, "input", Stable(t), IF call[t].found THEN "reuse" ELSE "rename", "changed")

(* verifyWorkerLaunchContext; Verdict adds what a plan expects. *)
Sealed(d) == d.marked /\ d.copied # None /\ d.created # None
Verified(d) == Sealed(d) /\ d.kind = "context" /\ ~ d.drift
Expected(t, d) == d.release = call[t].release
Verdict(t, found) ==
  IF \E d \in found : Sealed(d) /\ Expected(t, d)
  THEN IF \E d \in found : Verified(d) THEN "ok" ELSE "drift"
  ELSE "foreign"

Reuse(t) == pc[t] = "reuse" /\ Abandon(t, Verdict(t, At(call[t].id)))

(* The rename finds the place taken, or takes it. *)
Publish(t) ==
  /\ pc[t] = "rename"
  /\ IF At(call[t].id) # {}
     THEN Abandon(t, Verdict(t, At(call[t].id)))
     ELSE /\ dirs' = (dirs \ Stage(t)) \cup {[d EXCEPT !.kind = "context", !.n = 0] : d \in Stage(t)}
          /\ Return(t, "ok")
          /\ UNCHANGED Others

-----------------------------------------------------------------------------
(* listProjectWorkerLaunchContexts reads the directory without a lock and   *)
(* verifies one entry after the other.                                      *)
PathOf(d) == <<d.kind, d.id, d.n>>

Scan(t) ==
  /\ pc[t] = "scan"
  /\ UNCHANGED <<Others, dirs>>
  /\ IF Cardinality(dirs) > MaxContexts
     THEN Return(t, "limit")
     ELSE /\ Remember(t, [call[t] EXCEPT !.todo = {PathOf(d) : d \in dirs}])
          /\ Goto(t, "inspect")
          /\ Silently /\ UNCHANGED owner

Inspect(t) ==
  /\ pc[t] = "inspect" /\ call[t].todo # {}
  /\ LET name == CHOOSE x \in call[t].todo : TRUE
         found == {d \in dirs : PathOf(d) = name /\ Verified(d)}
     IN Remember(t, [call[t] EXCEPT !.todo = @ \ {name},
                       !.candidates = @ \cup {<<d.id, d.created>> : d \in found}])
  /\ Silently /\ UNCHANGED <<Others, dirs, owner, pc>>

(* The cutoff is taken when the listing is done. *)
Choose(t) ==
  /\ pc[t] = "inspect" /\ call[t].todo = {}
  /\ LET cutoff == clock - Age IN
     Remember(t, [call[t] EXCEPT !.cutoff = cutoff,
       !.candidates = {x[1] : x \in {y \in @ : y[2] <= cutoff}}])
  /\ Goto(t, "next")
  /\ Silently /\ UNCHANGED <<Others, dirs, owner>>

(* Mutant: what was listed is removed, whatever is there now. *)
AsListed(t, d) == Verified(d)
StillOld(t, d) == Verified(d) /\ d.created <= call[t].cutoff

(* Under its lock the context is verified again and renamed out of sight.   *)
MoveAside(t) ==
  /\ pc[t] = "quarantine"
  /\ LET id == call[t].id
         n == Suffix("prune", id)
     IN IF \E d \in At(id) : StillOld(t, d)
        THEN /\ Free("prune", id) # {}
             /\ dirs' = (dirs \ At(id)) \cup {[d EXCEPT !.kind = "prune", !.n = n] : d \in At(id)}
             /\ Remember(t, [call[t] EXCEPT !.n = n])
             /\ Goto(t, "empty")
             /\ DisturbBut(t) /\ UNCHANGED <<Others, owner, seen>>
        ELSE Return(t, "drift") /\ UNCHANGED <<Others, dirs>>

Empty(t) ==
  /\ pc[t] = "empty"
  /\ dirs' = dirs \ Quarantine(t)
  /\ owner' = [owner EXCEPT ![call[t].id] = None]
  /\ Goto(t, "next")
  /\ Remember(t, [call[t] EXCEPT !.candidates = @ \ {call[t].id}, !.id = None, !.n = 0])
  /\ Silently /\ UNCHANGED Others

EndPrune(t) ==
  /\ pc[t] = "next" /\ call[t].cutoff # None /\ call[t].candidates = {}
  /\ Return(t, "ok")
  /\ UNCHANGED <<Others, dirs>>

-----------------------------------------------------------------------------
(* The process dies; its lock is recovered as a stale one. *)
Crash(t) ==
  /\ Active(t) /\ Event /\ died' = TRUE
  /\ Return(t, "died")
  /\ UNCHANGED <<project, clock, dirs>>

(* Everything else that happens to the project; bounded by MaxEvents.       *)
Edit ==
  /\ Event /\ DisturbBut(None)
  /\ UNCHANGED <<clock, died, owner, pc, call>>

Seen == seen' = [t \in Task |->
  IF seen[t] = {} THEN {}
  ELSE seen[t] \cup {Input'} \cup (IF Input' \in seen[t] THEN {None} ELSE {})]
Settle ==
  /\ DisturbBut(None)
  /\ UNCHANGED <<config, skill, release, bounds, dirs, owner, pc, call>>

(* commitProjectState renames config, then lock; it may stop in between.    *)
CommitConfig ==
  /\ ~ torn /\ Edit
  /\ config' = 1 - config /\ torn' = TRUE /\ projected' = FALSE
  /\ UNCHANGED <<lock, skill, release, dirs>>
  /\ Seen
CommitLock ==
  /\ torn /\ Settle
  /\ torn' = FALSE /\ lock' = 1 - lock
  /\ UNCHANGED projected
  /\ Seen
Write ==
  /\ ~ projected /\ ~ torn /\ Settle
  /\ projected' = TRUE
  /\ UNCHANGED <<lock, torn, seen>>
EditSkill ==
  /\ Edit /\ skill' = 1 - skill
  /\ UNCHANGED <<config, lock, torn, projected, release, dirs, seen>>
Upgrade ==
  /\ release = 0 /\ Edit /\ release' = 1
  /\ UNCHANGED <<config, lock, torn, skill, projected, dirs, seen>>

(* A user changes a published context. *)
Touch(d) ==
  /\ d \in Contexts /\ ~ d.drift /\ Edit
  /\ dirs' = (dirs \ {d}) \cup {[d EXCEPT !.drift = TRUE]}
  /\ UNCHANGED <<project, seen>>

Tick ==
  /\ clock < MaxClock /\ clock' = clock + 1
  /\ Silently /\ UNCHANGED <<project, dirs, owner, pc, call, events, died>>

-----------------------------------------------------------------------------
PrepareStep(t) ==
  \/ Capture(t) \/ ReadConfig(t) \/ ReadLock(t) \/ ReadBase(t) \/ Compare(t) \/ Plan(t)
  \/ Unsupported(t) \/ Recover(t) \/ MakeStage(t) \/ MarkStage(t) \/ Copy(t) \/ Seal(t)
  \/ RecheckSources(t) \/ RecheckProjection(t) \/ RecheckInput(t)
  \/ Reuse(t) \/ Publish(t)
PruneStep(t) == Scan(t) \/ Inspect(t) \/ Choose(t) \/ MoveAside(t) \/ Empty(t) \/ EndPrune(t)
LockStep(t) == \E id \in Id : Acquire(t, id) \/ TimeOut(t, id)
Step(t) == PrepareStep(t) \/ PruneStep(t) \/ LockStep(t)

Environment ==
  \/ CommitConfig \/ CommitLock \/ Write \/ EditSkill \/ Upgrade \/ Tick
  \/ \E d \in dirs : Touch(d)

Next ==
  \/ \E t \in Task : StartPrepare(t) \/ StartPrune(t) \/ Step(t) \/ Crash(t)
  \/ Environment

Spec == Init /\ [][Next]_vars

-----------------------------------------------------------------------------
TypeOK ==
  /\ {config, lock, skill, release} \subseteq Version /\ {torn, projected} \subseteq BOOLEAN
  /\ \A d \in dirs : /\ d.kind \in {"context", "stage", "prune"} /\ d.id \in Id
                    /\ d.n \in 0 .. MaxEvents /\ (d.kind = "context" <=> d.n = 0)
  /\ owner \in [Id -> Task \cup {None}]
  /\ \A t \in Task : call[t].id \in Id \cup {None} /\ call[t].tries < MaxAttempts

(* A name stands for one directory, whoever publishes, prunes or dies.      *)
NamesAreUnique == \A d, e \in dirs : PathOf(d) = PathOf(e) => d = e

(* What stands under an id was made from what the id says, complete, unless *)
(* a user changed it since: no interrupted publication shows.               *)
PublishedIsWhole == \A d \in Contexts : ~ d.drift => Sealed(d) /\ d.copied = d.id.skill

(* A directory out of sight belongs to a call under way or to one that died.*)
DebrisNeedsCrash ==
  ~ died => \A d \in dirs \ Contexts : \E t \in Task : owner[d.id] = t /\ d \in Own(t, d.kind)

(* The launch context store, at every moment.                               *)
ContextsAreWhole == TypeOK /\ NamesAreUnique /\ PublishedIsWhole /\ DebrisNeedsCrash

(* prune.ts:2: "Never removes drifted, corrupt, foreign, symlinked, or      *)
(* arbitrary paths."  What goes is whole and was old enough when the prune  *)
(* took its cutoff, also if it was removed and made again in between; and a *)
(* context that stays is not replaced by another.                           *)
OnlyOldContextsGo ==
  [][\A d \in Contexts : d \notin dirs' =>
       \/ [d EXCEPT !.drift = TRUE] \in dirs'
       \/ /\ Verified(d)
          /\ \E t \in Task : owner[d.id] = t /\ call[t].cutoff # None /\ d.created <= call[t].cutoff]_vars

Returns(t) == Active(t) /\ ~ Active(t)'
Prepared(t) == Returns(t) /\ call[t].input # None /\ answer' = "ok"

(* What is planned is a config and a lock that stood on disk together during *)
(* the call, unless a pair came back meanwhile (an ABA that no digest of    *)
(* before and after can see).                                               *)
PlansAreOfOnePair ==
  [][\A t \in Task : pc[t] = "compare" /\ pc'[t] = "plan" =>
       None \in seen[t] \/ <<call[t].config, call[t].lock>> \in seen[t]]_vars

(* A prepared context is there, whole, when the call returns, and of this   *)
(* release; undisturbed, it is of the project as it is.                     *)
AnswerIsUsable ==
  [][\A t \in Task : Prepared(t) =>
       /\ \E d \in dirs' : Verified(d) /\ d.id = call[t].id /\ Expected(t, d)
       /\ disturbed[t] \/ call[t].id = [config |-> config, lock |-> lock, skill |-> skill]]_vars

(* A call is refused only for a cause: an edit, a commit, a write or a      *)
(* prune during it, an upgrade or a user's change before it, a projection   *)
(* that is not current, a lock that another call holds.                     *)
RefusalIsExplained ==
  [][\A t \in Task : Returns(t) =>
       CASE answer' = "changed" -> disturbed[t]
         [] answer' = "stale" -> disturbed[t] \/ ~ projected
         [] answer' = "foreign" -> release = 1 /\ \E d \in At(call[t].id) : ~ Expected(t, d)
         [] answer' = "drift" -> disturbed[t] \/ \E d \in At(call[t].id) : d.drift
         [] answer' = "busy" -> \E id \in Id : owner[id] \notin {t, None}
         [] OTHER -> TRUE]_vars

(* What a prepare or a prune answers is true of the store it leaves, and    *)
(* what a prune takes is old.                                               *)
CallsAreHonest == PlansAreOfOnePair /\ AnswerIsUsable /\ RefusalIsExplained /\ OnlyOldContextsGo

(* snapshot.ts:2: "Uses before/after digest equality to reject torn         *)
(* committed or local Worker state."  A pair that stays torn, because the   *)
(* commit died, is stable.                                                  *)
TornIsRejected == [][\A t \in Task : Prepared(t) => disturbed[t] \/ ~ torn]_vars

(* store.ts:2: "reuses winners, and refuses drift."  A context that another *)
(* release of drwn made is neither: it has the same id and is refused as    *)
(* foreign.                                                                 *)
WinnersAreReused ==
  [][\A t \in Task : Returns(t) /\ answer' = "foreign" => ~ \E d \in At(call[t].id) : Verified(d)]_vars

(* Stages of other ids and quarantines of dead prunes are never cleaned,    *)
(* and count: in the end every list and prune is refused.                   *)
PruneIsNeverRefused == answer # "limit"
=============================================================================
