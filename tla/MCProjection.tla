----------------------------- MODULE MCProjection -----------------------------
(***************************************************************************)
(* What a machine is told and what becomes of it: small instances of       *)
(* Projection, and the settings that precede it (MachineSettings).  Each   *)
(* behaviour is about one of the two.                                      *)
(***************************************************************************)
EXTENDS Projection, TLC

CONSTANTS
  f, b, s, x, d, g, r1, r2,
  Task, Asked, MaxCalls, MaxActs      \* of MachineSettings

VARIABLES
  stage,    \* projection or settings
  machine, prefs, project, acks, latest, spoilt, holder, at, asked, kept, projected,
  granted, shown, twice, causes, calls, acts      \* MachineSettings

\* A Worker file, the instructions, a server in JSON, one in TOML, a skill and
\* the hook file of Cursor, in the order of syncRepository.
AllItems == <<f, b, s, x, d, g>>
AllKinds == f :> "content" @@ b :> "block" @@ s :> "server" @@ x :> "codex"
            @@ d :> "directory" @@ g :> "guarded"
AllSurfaces == f :> "worker" @@ b :> "instructions" @@ s :> "mcp" @@ x :> "mcp"
               @@ d :> "skill" @@ g :> "hook"

\* Everything; and everything changed, except that part of it is gone.
TwoPlans == {[i \in {f, b, s, x, d, g} |-> r1],
             f :> r2 @@ b :> Absent @@ s :> r2 @@ x :> Absent @@ d :> Absent @@ g :> Absent}

\* Every command, on a root, a member or a card of another root; an addition
\* to the preferences, and a list that replaces what is there.
AllCalls ==
  [op : {"init"}, guided : BOOLEAN, force : BOOLEAN]
    \cup {[op |-> "apply", roots |-> {}, active |-> "none"],
          [op |-> "apply", roots |-> {"own"}, active |-> "own"],
          [op |-> "use", root |-> "none", bare |-> TRUE], [op |-> "use", root |-> "own", bare |-> FALSE],
          [op |-> "untrust", card |-> "own", surface |-> "hooks"],
          [op |-> "trust", card |-> "own", surface |-> "hooks", range |-> {}, store |-> {}],
          [op |-> "trust", card |-> "m", surface |-> "text", range |-> {1}, store |-> {}],
          [op |-> "write", store |-> {}]}
    \cup [op : {"use"}, root : {"own", "m"}, bare : {TRUE}]
    \cup {[op |-> "set", adds |-> n = 1, value |-> {n}] : n \in 1..2}

Settings == INSTANCE MachineSettings WITH pc <- at, call <- asked, memo <- kept

ASSUME SettingsAssumptionHolds == Settings!SettingsAssumption

settings == <<machine, prefs, project, acks, latest, spoilt, holder, at, asked, kept, projected,
              granted, shown, twice, causes, calls, acts>>
all == <<vars, stage, settings>>

(* What does not run is in one of its initial states, and a project is      *)
(* there before the first command only on a machine that has no file, as is *)
(* nothing but the Worker own on one that has a file.                       *)
MachineInit ==
  /\ stage \in {"projection", "settings"}
  /\ Init /\ Settings!Init
  /\ stage = "projection" => machine = Settings!NoMachine /\ project.config = Settings!NoConfig
  /\ stage = "settings" => scope = "project" /\ plan = CHOOSE p \in Plans : TRUE
  /\ project.config # Settings!NoConfig => machine = Settings!NoMachine
  /\ Settings!Seen(machine).active # "rec"

MachineNext ==
  /\ UNCHANGED stage
  /\ \/ stage = "projection" /\ Next /\ UNCHANGED settings
     \/ stage = "settings" /\ Settings!Next /\ UNCHANGED vars

MachineSpec == MachineInit /\ [][MachineNext]_all

Symmetry == Permutations(Write)
-----------------------------------------------------------------------------
(* worker-machine.ts, machine-worker-init.ts, hook-consent-ack.ts,          *)
(* write.ts: roots, consents and notices change by choice only.             *)
SettingsAreHonest == Settings!SettingsAreHonest
=============================================================================
