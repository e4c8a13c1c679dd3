------------------------------- MODULE MCProject -------------------------------
(***************************************************************************)
(* What is read, changed and written back in a project and beside it: its  *)
(* two files, config.json and card.lock, on two levels, how a transaction  *)
(* replaces them effect by effect (ProjectStateTransaction), and what the  *)
(* commands make of their contents (WorkerRoots); and the source of a card *)
(* (CardSource).  Each behaviour is about one of the three.                *)
(***************************************************************************)
EXTENDS ProjectStateTransaction, TLC

CONSTANTS
  Task, Card, Caret, Text, None, MaxVersion, MaxCalls, MaxStops,   \* of WorkerRoots
  MaxRev, MaxNumber, MaxActs,   \* of CardSource
  a, b, x, y

VARIABLES
  level,    \* files, roots or source
  published, requirements, locked, draft, holder, at, call, read, calls, stops,
  granted, clobbered,   \* WorkerRoots
  manifest, contents, synced, upstream, pkg, versions, stage, memo, acked, causes, acts    \* CardSource

AllRanges == {{1}, {2}, {1, 2}}
Carets == <<{1, 2}, {2}>>

(* b is a blueprint that requires a.                                        *)
Composed == a :> {} @@ b :> {[card |-> a, range |-> {1, 2}]}
Texts == a :> <<x, y>> @@ b :> <<None, None>>

Caretted(c) == [card |-> c, range |-> {1, 2}]
Calls ==
  {[kind |-> k, spec |-> Caretted(c)] : k \in {"add", "use"}, c \in Card}
    \cup {[kind |-> "pin", spec |-> [card |-> a, range |-> {1}]], [kind |-> "remove", card |-> a],
          [kind |-> "apply", specs |-> <<Caretted(b)>>, active |-> "first"]}
    \cup [kind : {"update", "off", "install", "up"}]
    \cup [kind : {"trust"}, card : {a}, surfaces : {{"hooks", "text"}}, range : {None, {1}}]
    \cup [kind : {"untrust"}, card : {a}, surfaces : {{"text"}}]

Roots == INSTANCE WorkerRoots WITH
  Ranges <- AllRanges, Composes <- Composed, Hooked <- {a}, Asked <- Calls,
  config <- requirements, lock <- locked, journal <- draft, pc <- at, seen <- read,
  faults <- stops, MaxFaults <- MaxStops

Source == INSTANCE CardSource WITH
  MaxVersion <- MaxNumber, card <- manifest, files <- contents, published <- versions, pc <- stage, call <- memo

ASSUME RootsAssumptionHolds == Roots!RootsAssumption
ASSUME SourceAssumptionHolds == Source!SourceAssumption

roots == <<published, requirements, locked, draft, holder, at, call, read, calls, stops,
           granted, clobbered>>
source == <<manifest, contents, synced, upstream, pkg, versions, stage, memo, acked, causes, acts>>
all == <<vars, level, roots, source>>

(* The level that does not run is in one of its initial states.             *)
ProjectInit ==
  /\ level \in {"files", "roots", "source"}
  /\ Init /\ Roots!Init /\ Source!Init
  /\ level # "files" => config = Missing /\ lock = Missing
  /\ level # "roots" => locked = Roots!NoLock
  /\ level # "source" => pkg = 0 /\ ~ manifest.tracked

ProjectNext ==
  /\ UNCHANGED level
  /\ \/ level = "files" /\ Next /\ UNCHANGED <<roots, source>>
     \/ level = "roots" /\ Roots!Next /\ UNCHANGED <<vars, source>>
     \/ level = "source" /\ Source!Next /\ UNCHANGED <<vars, roots>>

ProjectSpec ==
  /\ ProjectInit /\ [][ProjectNext]_all
  /\ \A c \in Client : WF_vars(level = "files" /\ Step(c))
-----------------------------------------------------------------------------
(* worker-project.ts, card-project.ts: requirements, lock and consent agree.*)
RootsAreConsistent == Roots!RootsAreConsistent

(* card-source.ts, release-pipeline.ts: a source stays whole, and so is     *)
(* what is published of it.                                                 *)
SourceIsHonest == Source!SourceIsHonest
=============================================================================
