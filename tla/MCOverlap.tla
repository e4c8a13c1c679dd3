------------------------------- MODULE MCOverlap -------------------------------
(***************************************************************************)
(* Two drwn commands at once, at each of the places that they share: the   *)
(* journals of client operations, the launch contexts, a card with the     *)
(* project that vendors it, the repositories of cards from git, and what   *)
(* is selected in the cloud.  The five share no state, so that each        *)
(* behaviour is about one of them.                                         *)
(***************************************************************************)
EXTENDS MCClientOperation, Integers

CONSTANTS
  Age, MaxContexts, MaxClock, MaxLaunchEvents,   \* of LaunchContext
  Bytes, MaxCardEvents,                          \* of CardStore
  Url, CardName, MaxBindingEvents,               \* of CardBinding
  Profile, Org, Worker, MaxMoves, e1, e2, w1, w2 \* of CloudSelection

VARIABLES
  place,    \* where the commands meet
  config, lock, torn, skill, projected, release, clock, dirs, owner,
  disturbed, seen, answer, died, at, memo, events,              \* LaunchContext
  repo, tags, main, meta, legacy, override, extracted, seed, remote, source,
  entry, vendor, sidecar, promised, late, cardAt, cardMemo, cardEvents,    \* CardStore
  repos, known, declared, doomed, bindingAt, bindingMemo, bindingEvents,   \* CardBinding
  machine, project, visible, cloudAt, cloudMemo, org, target, offered, moves    \* CloudSelection

Launch == INSTANCE LaunchContext WITH pc <- at, call <- memo, MaxEvents <- MaxLaunchEvents
Card == INSTANCE CardStore WITH
  pc <- cardAt, call <- cardMemo, events <- cardEvents, MaxEvents <- MaxCardEvents
Binding == INSTANCE CardBinding WITH
  pc <- bindingAt, call <- bindingMemo, events <- bindingEvents,
  Name <- CardName, MaxEvents <- MaxBindingEvents

HomeOf == w1 :> e1 @@ w2 :> e2
Cloud == INSTANCE CloudSelection WITH Home <- HomeOf, pc <- cloudAt, call <- cloudMemo

ASSUME CloudAssumption == Cloud!SelectionAssumption
ASSUME NamesAssumption == Binding!BindingAssumption
ASSUME CardsAssumption == Card!CardAssumption
ASSUME ContextsAssumption == Launch!LaunchAssumption

launch == <<config, lock, torn, skill, projected, release, clock, dirs, owner,
            disturbed, seen, answer, died, at, memo, events>>
card == <<repo, tags, main, meta, legacy, override, extracted, seed, remote, source,
          entry, vendor, sidecar, promised, late, cardAt, cardMemo, cardEvents>>
binding == <<repos, known, declared, doomed, bindingAt, bindingMemo, bindingEvents>>
cloud == <<machine, project, visible, cloudAt, cloudMemo, org, target, offered, moves>>

(* Of the places where they do not meet, one initial state is enough.       *)
OverlapInit ==
  /\ place \in {"operation", "launch", "card", "binding", "cloud"}
  /\ Init /\ Launch!Init /\ Card!Init /\ Binding!Init /\ Cloud!Init
  /\ place # "launch" => config = 0 /\ dirs = {}
  /\ place # "card" => repo /\ \A t \in Task : source[t] = seed
  /\ place # "binding" => \A u \in Url : declared[u] = CHOOSE n \in CardName : TRUE
  /\ visible = Org
  /\ place # "cloud" => machine = [p \in Profile |-> None]

OverlapNext ==
  /\ UNCHANGED place
  /\ \/ place = "operation" /\ Next /\ UNCHANGED <<launch, card, binding, cloud>>
     \/ place = "launch" /\ Launch!Next /\ UNCHANGED <<vars, card, binding, cloud>>
     \/ place = "card" /\ Card!Next /\ UNCHANGED <<vars, launch, binding, cloud>>
     \/ place = "binding" /\ Binding!Next /\ UNCHANGED <<vars, launch, card, cloud>>
     \/ place = "cloud" /\ Cloud!Next /\ UNCHANGED <<vars, launch, card, binding>>

all == <<vars, place, launch, card, binding, cloud>>
OverlapSpec == OverlapInit /\ [][OverlapNext]_all

OverlapSymmetry == Symmetry \cup Permutations(Bytes) \cup Permutations(Profile)
-----------------------------------------------------------------------------
(* store.ts of worker-launch-context: what is published is complete.        *)
ContextsAreWhole == Launch!ContextsAreWhole

(* service.ts, store.ts, prune.ts: what prepare and prune answer is true,   *)
(* and only what is whole and old enough is removed.                        *)
CallsAreHonest == Launch!CallsAreHonest

(* card-store.ts, card-meta.ts: extractions are whole, deprecations stay.   *)
CardsAreKept == Card!CardsAreKept

(* card-store.ts, vendor-reconcile.ts: a published version is immutable, and *)
(* a write leaves the tree of the lock.                                     *)
TreesAreKept == Card!TreesAreKept

(* card-store.ts, url-card-map.ts: names are bound once and to what was     *)
(* cloned, and a URL resolves to its own card.                              *)
ResolvesToItsUrl == Binding!ResolvesToItsUrl

(* organizations.ts, workers.ts, selector.ts: what is operated on is what   *)
(* the caller selected.                                                     *)
TargetsAreTheCallers == Cloud!TargetsAreTheCallers
=============================================================================
