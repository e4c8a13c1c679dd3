---------------------------- MODULE MCOwnerLock ----------------------------
(***************************************************************************)
(* Small instances of OwnerLock.                                           *)
(***************************************************************************)
EXTENDS OwnerLock, TLC

CONSTANTS t1, t2, t3, t4, p1, p2, p3, here, elsewhere

(* Two calls in one process, a call in another process of the machine, and *)
(* one on another machine.                                                 *)
FourCalls == (t1 :> p1) @@ (t2 :> p1) @@ (t3 :> p2) @@ (t4 :> p3)
TwoHosts == (p1 :> here) @@ (p2 :> here) @@ (p3 :> elsewhere)
=============================================================================
