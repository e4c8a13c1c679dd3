--------------------------- MODULE ManagementRequest ---------------------------
(***************************************************************************)
(* Requests to the management service (cli/core/management): one run is    *)
(* created and polled until it ends, as `drwn worker chat` does (runs.ts), *)
(* each request sent, refreshed, retried and judged by transport.ts.       *)
(*                                                                         *)
(* The service is external: it applies one request id at most once, and a  *)
(* success it reports with the id of the request is true.  Any other      *)
(* answer may come from something between it and here, or be of another   *)
(* request, whatever was applied.                                         *)
(***************************************************************************)
EXTENDS Naturals

CONSTANTS
  Allowed,        \* the wire errors the contract admits for the route
  MaxAttempts,    \* how often a run is polled
  MaxExpiries     \* bound: how often the service stops to accept a bearer

RequestAssumption == MaxAttempts \in Nat \ {0} /\ MaxExpiries \in Nat

VARIABLES
  credential,     \* what the caller has to show
  pc,             \* resolve, send, refresh, wait or done
  step,           \* create or poll
  accepted,       \* the service accepts the bearer in use
  rejected,       \* history: it has answered that bearer with 401
  refreshed, retries,   \* of the request in progress
  sends,          \* history: how often that request was sent
  answered,       \* history: its last send got an answer
  attempt,        \* polls so far
  applied,        \* the run exists at the service
  ended,          \* the run has reached a terminal status
  outcome,        \* what the command reports
  expiries

request == <<refreshed, retries, sends, answered>>
service == <<accepted, applied, ended, expiries>>
vars == <<credential, pc, step, rejected, request, attempt, service, outcome>>

MaxTypedRetries == 2

(* env: DRWN_TOKEN; stored: a delegated credential; stale: one that expires *)
(* within the skew; undelegated: one without consent, of another profile,   *)
(* or with claims that are refused.                                         *)
Credentials == {"none", "env", "stored", "stale", "undelegated"}
Stored == credential \in {"stored", "stale"}

NoOutcome == [kind |-> "none"]
Succeeded(end) == [kind |-> "succeeded", terminal |-> end]
Refused(code, again) == [kind |-> "refused", code |-> code, retryable |-> again]
Indeterminate == [kind |-> "indeterminate"]
Thrown == [kind |-> "thrown"]

Init ==
  /\ credential \in Credentials
  /\ pc = "resolve" /\ step = "create"
  /\ accepted \in BOOLEAN /\ rejected = FALSE
  /\ refreshed = FALSE /\ retries = 0 /\ sends = 0 /\ answered = FALSE
  /\ attempt = 0 /\ applied = FALSE /\ ended = FALSE
  /\ outcome = NoOutcome /\ expiries = 0

Report(result) == pc' = "done" /\ outcome' = result

-----------------------------------------------------------------------------
(* The closed error vocabulary: what each wire error must come with.       *)
Status ==
  [consent_required |-> 403, authorization_denied |-> 403, resource_unavailable |-> 404,
   validation_failed |-> 400, revision_conflict |-> 409, rate_limited |-> 429,
   temporarily_unavailable |-> 503, mind_contract_removed |-> 410,
   client_protocol_unsupported |-> 426]
Wire == DOMAIN Status
Retryable == {"rate_limited", "temporarily_unavailable"}

(* An answer: its status, and its body as far as it is told apart.  A body  *)
(* is unreadable where readSafeManagementJson refuses it: a type, a size, a *)
(* header, a key or a value that is not allowed.                            *)
Answers ==
  [status : {401}, body : {"unreadable"}, sameId : {FALSE}, retryAfter : {FALSE}]
    \cup [status : {200, 500}, body : {"success", "otherRun", "unreadable"}, sameId : BOOLEAN, retryAfter : {FALSE}]
    \cup [status : {200, 404, 410, 426, 429, 503}, body : Wire, sameId : BOOLEAN, retryAfter : BOOLEAN]

(* parseManagementPublicError *)
IsPublicError(a) ==
  \/ a.status = 410 /\ a.body = "mind_contract_removed"
  \/ a.status = 426 /\ a.body = "client_protocol_unsupported"
  \/ /\ a.status \notin {410, 426}
     /\ a.body \in Wire \cap Allowed /\ Status[a.body] = a.status
     /\ a.sameId
     /\ a.retryAfter => a.body \in Retryable

(* parseRouteSuccess and the id that must come back. *)
(* Mutant: the id is not compared. *)
AnySuccess(a) == a.body \in {"success", "otherRun"}
IsSuccess(a) == a.body \in {"success", "otherRun"} /\ a.sameId

Invalid == Refused("server_response_invalid", FALSE)
(* executeManagementRequest, and readRun, which compares the run as well.   *)
Judge(a) ==
  IF a.status = 200 /\ IsSuccess(a)
  THEN IF a.body = "success" THEN Succeeded(ended') ELSE Refused("resource_unavailable", FALSE)
  ELSE IF a.status # 200 /\ IsPublicError(a) THEN Refused(a.body, a.body \in Retryable) ELSE Invalid

-----------------------------------------------------------------------------
(* resolveDelegationReadyToken: done anew for each request.                *)
Resolve ==
  /\ pc = "resolve"
  /\ refreshed' = FALSE /\ retries' = 0 /\ sends' = 0 /\ answered' = FALSE
  /\ \/ credential = "none" /\ Report(Refused("authorization_denied", FALSE)) /\ UNCHANGED <<accepted, rejected>>
     \/ credential \in {"env", "stored"} /\ pc' = "send" /\ UNCHANGED <<outcome, accepted, rejected>>
     \/ credential = "stale" /\ pc' = "send" /\ accepted' = TRUE /\ rejected' = FALSE /\ UNCHANGED outcome
     \/ credential \in {"stale", "undelegated"} /\ Report(Thrown) /\ UNCHANGED <<accepted, rejected>>
  /\ UNCHANGED <<credential, step, attempt, applied, ended, expiries>>

(* readRun answers for the run it was asked for; the poll goes on until the *)
(* run has ended or the attempts are used up.                               *)
Continue(result) ==
  IF result.kind = "succeeded" /\ step = "create"
  THEN pc' = "resolve" /\ step' = "poll" /\ attempt' = 0 /\ UNCHANGED outcome
  ELSE IF result.kind = "succeeded" /\ ~ result.terminal /\ attempt + 1 < MaxAttempts
  THEN pc' = "resolve" /\ attempt' = attempt + 1 /\ UNCHANGED <<step, outcome>>
  ELSE Report(result) /\ UNCHANGED <<step, attempt>>

(* What the service does with a request that reaches it.                    *)
Served ==
  /\ applied' \in IF accepted THEN {applied, TRUE} ELSE {applied}
  /\ ended' \in IF applied /\ step = "poll" THEN {ended, TRUE} ELSE {ended}

(* Mutant: the bearer may be refreshed again and again. *)
AlwaysRefresh(a) == a.status = 401 /\ Stored
MayRefresh(a) == a.status = 401 /\ Stored /\ ~ refreshed

(* executeManagementRequest: the same id and the same bytes every time.     *)
Send ==
  /\ pc = "send"
  /\ sends' = sends + 1
  /\ Served
  /\ \/ (* no answer *)
        /\ answered' = FALSE
        /\ Report(Indeterminate)
        /\ UNCHANGED <<step, attempt, rejected, retries>>
     \/ \E a \in Answers :
        /\ a.status = 401 => ~ accepted
        /\ a.status = 200 /\ a.body \in {"success", "otherRun"} /\ a.sameId => accepted /\ applied'
        /\ a.body = "otherRun" => step = "poll"
        /\ answered' = TRUE
        /\ rejected' = (rejected \/ a.status = 401)
        /\ LET result == Judge(a) IN
           \/ MayRefresh(a) /\ pc' = "refresh" /\ UNCHANGED <<step, attempt, retries, outcome>>
           \/ /\ ~ MayRefresh(a)
              /\ result.kind = "refused" /\ result.retryable /\ retries < MaxTypedRetries
              /\ retries' = retries + 1
              /\ pc' = "wait"
              /\ UNCHANGED <<step, attempt, outcome>>
           \/ /\ ~ MayRefresh(a)
              /\ ~ (result.kind = "refused" /\ result.retryable /\ retries < MaxTypedRetries)
              /\ Continue(result)
              /\ UNCHANGED retries
  /\ UNCHANGED <<credential, accepted, refreshed, expiries>>

(* refreshStoredCredential: a new bearer, or the command is denied.         *)
Refresh ==
  /\ pc = "refresh"
  /\ \/ /\ pc' = "send" /\ refreshed' = TRUE
        /\ accepted' = TRUE /\ rejected' = FALSE
        /\ UNCHANGED outcome
     \/ Report(Refused("authorization_denied", FALSE)) /\ UNCHANGED <<refreshed, accepted, rejected>>
  /\ UNCHANGED <<credential, step, retries, sends, answered, attempt, applied, ended, expiries>>

Sleep ==
  /\ pc = "wait" /\ pc' = "send"
  /\ UNCHANGED <<credential, step, rejected, request, attempt, service, outcome>>

(* The service stops to accept the bearer: it expires or is revoked.        *)
Expire ==
  /\ accepted /\ expiries < MaxExpiries
  /\ accepted' = FALSE /\ expiries' = expiries + 1
  /\ UNCHANGED <<credential, pc, step, rejected, request, attempt, applied, ended, outcome>>

Act == Resolve \/ Send \/ Refresh \/ Sleep
Next == Act \/ Expire
Spec == Init /\ [][Next]_vars
LiveSpec == Spec /\ WF_vars(Act)

-----------------------------------------------------------------------------
(* However answers, refreshes and retries interleave, a request is sent at  *)
(* most once for each refresh and retry it is granted, and never again with *)
(* a bearer the service has turned down.                                    *)
SendsAreBounded ==
  /\ sends <= 2 + MaxTypedRetries
  /\ pc = "send" /\ sends > 0 /\ Stored => ~ rejected

(* What the command reports is what happened: success only of what was      *)
(* applied, an end only of a run that ended, "indeterminate" only without   *)
(* an answer, and an error that may be tried again only after every try.    *)
OutcomeIsHonest ==
  /\ outcome.kind = "succeeded" => applied /\ (outcome.terminal => ended)
  /\ outcome.kind = "succeeded" /\ ~ outcome.terminal => attempt + 1 = MaxAttempts
  /\ outcome.kind = "indeterminate" => ~ answered
  /\ outcome.kind = "refused" =>
       outcome.retryable <=> outcome.code \in Retryable /\ retries = MaxTypedRetries

RequestIsHonest == SendsAreBounded /\ OutcomeIsHonest

(* Every command ends. *)
RequestEnds == <>(pc = "done")

(* What does not hold: a refusal says nothing of what was applied, and a    *)
(* command that is given again sends another request id.                    *)
RefusedIsNotApplied == outcome.kind = "refused" /\ step = "create" => ~ applied
=============================================================================
