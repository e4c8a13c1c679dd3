------------------------------- MODULE MCRetries -------------------------------
(***************************************************************************)
(* The two journaled procedures of a project: a client operation against   *)
(* the server (ClientOperation), and the materialization of an Org Worker  *)
(* (OrgWorkerMaterialization).  Both are stopped at any step and asked for *)
(* again.  They share no file: each behaviour is about one of them.        *)
(***************************************************************************)
EXTENDS MCClientOperation

CONSTANTS MaxStops, MaxEdits    \* of OrgWorkerMaterialization

VARIABLES
  procedure,    \* operation or materialization
  project, projection, record, receipts, temp, draft, at, op, action,
  stops, edits    \* OrgWorkerMaterialization

Worker == INSTANCE OrgWorkerMaterialization WITH
  journal <- draft, pc <- at, faults <- stops, MaxFaults <- MaxStops

ASSUME WorkerAssumption == Worker!MaterializationAssumption

worker == <<project, projection, record, receipts, temp, draft, at, op, action, stops, edits>>
both == <<vars, procedure, worker>>

RetriesInit ==
  /\ procedure \in {"operation", "materialization"}
  /\ Init /\ Worker!Init

RetriesNext ==
  /\ UNCHANGED procedure
  /\ \/ procedure = "operation" /\ Next /\ UNCHANGED worker
     \/ procedure = "materialization" /\ Worker!Next /\ UNCHANGED vars

(* The fairness of the two, each where it is the one that runs.             *)
RetriesSpec ==
  /\ RetriesInit /\ [][RetriesNext]_both
  /\ \A t \in Task :
       /\ WF_vars(procedure = "operation" /\ Go(t))
       /\ \A i \in Intent : SF_vars(procedure = "operation" /\ Retry(t, i))
  /\ WF_worker(procedure = "materialization" /\ Worker!Step)
  /\ WF_worker(procedure = "materialization" /\ Worker!Resume)
-----------------------------------------------------------------------------
(* org-worker-materializer.ts: what the receipts and the record say was     *)
(* done, was, and once; and a record is only ever written for the operation *)
(* whose journal is retained.                                               *)
MaterializationIsHonest == Worker!MaterializationIsHonest

(* registration.ts, org-worker-materializer.ts: what was interrupted        *)
(* finishes when it is asked for again.                                     *)
InterruptedWorkFinishes ==
  RetriedOperationFinishes /\ Worker!InterruptedOperationFinishes
=============================================================================
