----------------------------- MODULE ProjectState -----------------------------
(***************************************************************************)
(* What a caller of cli/core/project-state-transaction.ts may rely on: the *)
(* project has one state, a config and a lock graph that belong together;  *)
(* a commit replaces both at once, a config write replaces the config of   *)
(* the current state, and a snapshot is the current state, never a mixture *)
(* of two commits and never the state behind an interrupted one.           *)
(***************************************************************************)

CONSTANTS Client, Bytes, Missing

VARIABLES
  state,     \* the pair of files, as a value
  snapshot   \* what each client was last given (NoPair: nothing)

Pair == [config : Bytes \cup {Missing}, lock : Bytes \cup {Missing}]

NoPair == [config |-> Missing, lock |-> Missing]

StateInit ==
  /\ state \in Pair
  /\ snapshot = [c \in Client |-> NoPair]

Commit == state' \in [config : Bytes, lock : Bytes] /\ UNCHANGED snapshot

SetConfig ==
  /\ \E b \in Bytes : state' = [state EXCEPT !.config = b]
  /\ UNCHANGED snapshot

Read(c) == snapshot' = [snapshot EXCEPT ![c] = state] /\ UNCHANGED state

Forget(c) == snapshot' = [snapshot EXCEPT ![c] = NoPair] /\ UNCHANGED state

StateNext == Commit \/ SetConfig \/ \E c \in Client : Read(c) \/ Forget(c)

StateSpec == StateInit /\ [][StateNext]_<<state, snapshot>>
=============================================================================
