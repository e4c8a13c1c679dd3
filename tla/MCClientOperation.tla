-------------------------- MODULE MCClientOperation --------------------------
(***************************************************************************)
(* Small instances of ClientOperation.                                     *)
(***************************************************************************)
EXTENDS ClientOperation, TLC

CONSTANTS a, o1

(* The worker that is deployed and retired is the one registered as o1. *)
OneName == {a}
AllRoutes ==
  {[route |-> "register", target |-> a],
   [route |-> "deploy", target |-> o1],
   [route |-> "retire", target |-> o1]}

Symmetry == Permutations(Task)
=============================================================================
