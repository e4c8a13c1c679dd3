-------------------------------- MODULE MCCloud --------------------------------
(***************************************************************************)
(* What a machine does with the cloud: the custody of its credential       *)
(* (StoredCredential), the login that earns one (DeviceFlow), a request    *)
(* that shows it (ManagementRequest), and the ceremonies that qualify a    *)
(* staging slot (StagingCeremony).  They share no state but the            *)
(* credential, which the others give or take: each behaviour is about one  *)
(* of them.                                                                *)
(***************************************************************************)
EXTENDS StoredCredential

CONSTANTS
  MaxLifetime, MaxInterval, DefaultInterval, MaxLate,    \* of DeviceFlow
  MaxAttempts, MaxExpiries,                              \* of ManagementRequest
  Ceremonies, NumChecks, MaxActs, MaxFaults              \* of StagingCeremony

VARIABLES
  part,    \* custody, login, request or ceremony
  clock, stage, interval, expiresAt, wake, approval, lastPoll, asked,
  session, minted, tokens, result,    \* DeviceFlow
  shown, at, step, accepted, rejected, refreshed, retries, sends, answered,
  attempt, applied, ended, outcome, expiries,   \* ManagementRequest
  files, temps, phase, blamed, undo, armed, stuck, strays, passed, grants, late, cleanups,
  freed, acts, faults    \* StagingCeremony

AllOps == {Login, Refresh, Logout, StrictLogout}

Flow == INSTANCE DeviceFlow WITH pc <- stage, outcome <- result

(* routes.ts: the errors of runs.create and runs.read. *)
RunErrors == {"consent_required", "authorization_denied", "validation_failed",
              "resource_unavailable", "rate_limited", "temporarily_unavailable"}
Request == INSTANCE ManagementRequest WITH
  Allowed <- RunErrors, credential <- shown, pc <- at

Ceremony == INSTANCE StagingCeremony WITH
  pc <- phase, stage <- blamed, asked <- cleanups

ASSUME FlowAssumption == Flow!FlowAssumption
ASSUME RequestAssumption == Request!RequestAssumption
ASSUME CeremonyAssumption == Ceremony!CeremonyAssumption

flow == <<clock, stage, interval, expiresAt, wake, approval, lastPoll, asked,
          session, minted, tokens, result>>
request == <<shown, at, step, accepted, rejected, refreshed, retries, sends, answered,
             attempt, applied, ended, outcome, expiries>>
ceremony == <<files, temps, phase, blamed, undo, armed, stuck, strays, passed, grants, late, cleanups,
              freed, acts, faults>>
all == <<part, vars, flow, request, ceremony>>

(* A part that does not run is in one of its initial states.               *)
CloudInit ==
  /\ part \in {"custody", "login", "request", "ceremony"}
  /\ Init /\ Flow!Init /\ Request!Init /\ Ceremony!Init
  /\ part # "custody" => envelope = None
  /\ part # "request" => shown = "none" /\ ~ accepted

(* What has ended rests, as the custody does.                               *)
Ended ==
  /\ part = "login" => stage = "done"
  /\ part = "request" => at = "done"
  /\ part = "ceremony" => \A c \in Ceremonies : phase[c] \in Ceremony!Ends

CloudNext ==
  /\ UNCHANGED part
  /\ \/ part = "custody" /\ Next /\ UNCHANGED <<flow, request, ceremony>>
     \/ part = "login" /\ Flow!Next /\ UNCHANGED <<vars, request, ceremony>>
     \/ part = "request" /\ Request!Next /\ UNCHANGED <<vars, flow, ceremony>>
     \/ part = "ceremony" /\ Ceremony!Next /\ UNCHANGED <<vars, flow, request>>
     \/ part # "custody" /\ Ended /\ UNCHANGED all

CloudSpec ==
  /\ CloudInit /\ [][CloudNext]_all
  /\ \A c \in Command : WF_vars(part = "custody" /\ Step(c))
  /\ WF_flow(part = "login" /\ Flow!Act) /\ WF_flow(part = "login" /\ Flow!Tick)
  /\ WF_request(part = "request" /\ Request!Act)
  /\ WF_ceremony(part = "ceremony" /\ \E c \in Ceremonies : Ceremony!Step(c))
-----------------------------------------------------------------------------
(* device-flow.ts, transport.ts: the hub is polled as it asks and for as    *)
(* long as the code lives, a credential is earned, and a request is sent as *)
(* often as it may be and reported as it went.                              *)
CloudIsHonest ==
  /\ Flow!FlowIsHonest
  /\ Request!RequestIsHonest /\ [][Request!RequestIsHonest']_request

(* phase-a-ceremony.ts, phase-a-output.ts: what fails leaves nothing of its *)
(* own at the runner or at the adapter, and nothing of the others' is taken.*)
CeremonyIsFailClosed == Ceremony!CeremonyIsFailClosed

(* device-flow.ts, transport.ts, phase-a-ceremony.ts, resolve-token.ts: a   *)
(* login, a request and a ceremony end, and a login that runs alone repairs *)
(* what overlapping ones left.                                              *)
CloudCommandsEnd ==
  /\ part # "custody" ~> Ended
  /\ LoginRepairs
=============================================================================
