------------------------------- MODULE DeviceFlow -------------------------------
(***************************************************************************)
(* The device flow of `drwn login` (cli/core/auth/device-flow.ts): a code  *)
(* is requested, the user approves it elsewhere, the command polls until   *)
(* it gets a session, and exchanges the session for tokens it checks.      *)
(*                                                                         *)
(* Time is counted in units of the shortest polling interval.  Answers     *)
(* take time, a sleep may last longer than asked.  The hub and the user    *)
(* are external: the hub hands out a session only to an approved code and  *)
(* tokens only to a session.                                               *)
(***************************************************************************)
EXTENDS Naturals

CONSTANTS
  MaxLifetime,   \* MAX_DEVICE_FLOW_SECONDS
  MaxInterval,   \* MAX_DEVICE_POLL_INTERVAL_SECONDS
  DefaultInterval,
  MaxLate        \* bound: how much longer than needed a sleep or an answer takes

FlowAssumption ==
  /\ MaxLifetime \in Nat \ {0} /\ MaxInterval \in Nat \ {0}
  /\ DefaultInterval \in 1..MaxInterval /\ MaxLate \in Nat

VARIABLES
  clock,
  pc,          \* start, sleep, poll, authorize, consent, token, check or done
  interval, expiresAt, wake,    \* what the command keeps
  approval,    \* the user's: pending, approved or denied
  lastPoll,    \* history: when it polled, 0 before
  asked,       \* history: the interval the hub asks it to keep
  session,     \* the hub has handed out a session
  minted,      \* the hub has handed out tokens for it
  tokens,      \* what came back of them
  outcome

times == <<interval, expiresAt, wake>>
hub == <<approval, session, minted>>
vars == <<clock, pc, times, hub, lastPoll, asked, tokens, outcome>>

(* requireTokenFields, assertJwtAudience, assertDelegationReadyClaims and   *)
(* credentialFromTokens: what they tell apart.  untimely: issued more than  *)
(* a minute ahead of this clock, or expired by it.                          *)
Tokens == {"good", "otherAudience", "incomplete", "undelegated", "untimely"}

Init ==
  /\ clock = 0 /\ pc = "start"
  /\ interval = 0 /\ expiresAt = 0 /\ wake = 0
  /\ approval = "pending" /\ session = FALSE /\ minted = FALSE
  /\ lastPoll = 0 /\ asked = 0
  /\ tokens = "none" /\ outcome = "none"

(* A qualification run is told the stage only; a login the error itself.    *)
End(result) == pc' = "done" /\ outcome' = result
Sleep(span) == pc' = "sleep" /\ wake' = clock + span

-----------------------------------------------------------------------------
(* startDeviceFlow: the answer may be refused by the checks of its fields;   *)
(* 0 stands for no interval.                                                *)
Valid(lifetime, span) == lifetime \in 1..MaxLifetime /\ span \in 0..MaxInterval
Start ==
  /\ pc = "start"
  /\ \/ /\ \E lifetime \in 0..MaxLifetime + 1, span \in 0..MaxInterval + 1 :
             \/ /\ Valid(lifetime, span)
                /\ LET first == IF span = 0 THEN DefaultInterval ELSE span IN
                   interval' = first /\ asked' = first /\ Sleep(first)
                /\ expiresAt' = clock + lifetime
                /\ UNCHANGED outcome
             \/ ~ Valid(lifetime, span) /\ End("device_authorization_failed") /\ UNCHANGED <<times, asked>>
     \/ End("device_authorization_failed") /\ UNCHANGED <<times, asked>>
  /\ UNCHANGED <<clock, hub, lastPoll, tokens>>

(* Mutant: the code's expiry is not looked at. *)
NeverExpired == FALSE
Expired == clock > expiresAt
Wake ==
  /\ pc = "sleep" /\ clock >= wake
  /\ IF Expired THEN End("device_authorization_failed") ELSE pc' = "poll" /\ UNCHANGED outcome
  /\ UNCHANGED <<clock, times, hub, lastPoll, asked, tokens>>

(* What the hub may answer now; "other" stands for every other error and    *)
(* for a request that fails.                                                *)
Answers ==
  {"other", "expired_token", "slow_down"}
    \cup CASE approval = "pending" -> {"authorization_pending"}
           [] approval = "approved" -> {"access_token"}
           [] approval = "denied" -> {"access_denied"}

(* Mutant: the interval stays. *)
SameInterval(answer) == interval
NextInterval(answer) == IF answer = "slow_down" THEN 2 * interval ELSE interval
Poll ==
  /\ pc = "poll"
  /\ lastPoll' = clock
  /\ \E answer \in Answers :
       \/ /\ answer \in {"authorization_pending", "slow_down"}
          /\ interval' = NextInterval(answer)
          /\ asked' = IF answer = "slow_down" THEN 2 * asked ELSE asked
          /\ Sleep(interval')
          /\ UNCHANGED <<session, outcome>>
       \/ /\ answer = "access_token"
          /\ session' = TRUE /\ pc' = "authorize"
          /\ UNCHANGED <<interval, wake, asked, outcome>>
       \/ /\ answer \in {"access_denied", "expired_token", "other"}
          /\ End("device_authorization_failed")
          /\ UNCHANGED <<interval, wake, asked, session>>
  /\ UNCHANGED <<clock, expiresAt, approval, minted, tokens>>

(* exchangeDeviceSession: a code at once, or after the consent its own      *)
(* redirect leads to and whose state comes back.                            *)
Authorize ==
  /\ pc = "authorize"
  /\ \/ pc' \in {"token", "consent"} /\ UNCHANGED outcome
     \/ End("oauth_consent_failed")
  /\ UNCHANGED <<clock, times, hub, lastPoll, asked, tokens>>

Redirects == [sameCallback : BOOLEAN, sameState : BOOLEAN, hasCode : BOOLEAN]
Consent ==
  /\ pc = "consent"
  /\ \/ \E r \in Redirects :
          IF r.sameCallback /\ r.sameState /\ r.hasCode
          THEN pc' = "token" /\ UNCHANGED outcome
          ELSE End("oauth_consent_failed")
     \/ End("oauth_consent_failed")
  /\ UNCHANGED <<clock, times, hub, lastPoll, asked, tokens>>

(* tokenBundleFromResponse *)
Token ==
  /\ pc = "token"
  /\ minted' \in BOOLEAN
  /\ \/ End("oauth_consent_failed") /\ UNCHANGED tokens
     \/ /\ minted'
        /\ tokens' \in Tokens
        /\ IF tokens' = "otherAudience" THEN End("access_token_validation_failed")
           ELSE pc' = "check" /\ UNCHANGED outcome
  /\ UNCHANGED <<clock, times, approval, session, lastPoll, asked>>

(* Mutant: claims are taken as they come. *)
AnyTokens == tokens \in {"good", "undelegated"}
Accepted == tokens = "good"
Check ==
  /\ pc = "check"
  /\ End(IF Accepted THEN "credential" ELSE "access_token_validation_failed")
  /\ UNCHANGED <<clock, times, hub, lastPoll, asked, tokens>>

-----------------------------------------------------------------------------
Tick ==
  /\ pc # "done" /\ clock < wake + MaxLate
  /\ clock' = clock + 1
  /\ UNCHANGED <<pc, times, hub, lastPoll, asked, tokens, outcome>>

Decide ==
  /\ pc # "done" /\ approval = "pending" /\ pc # "start"
  /\ approval' \in {"approved", "denied"}
  /\ UNCHANGED <<clock, pc, times, session, minted, lastPoll, asked, tokens, outcome>>

Act == Start \/ Wake \/ Poll \/ Authorize \/ Consent \/ Token \/ Check
Next == Act \/ Tick \/ Decide
Spec == Init /\ [][Next]_vars
(* Requests have no timeout of their own: their answers are assumed.        *)
LiveSpec == Spec /\ WF_vars(Act) /\ WF_vars(Tick)

-----------------------------------------------------------------------------
(* The hub is polled no faster than it has asked for so far and not after   *)
(* the code has expired, however late sleeps end and answers come.          *)
PollsArePaced == [][Poll => clock >= lastPoll + asked]_vars
PollsEndWithTheCode == [][Wake /\ pc' = "poll" => clock <= expiresAt]_vars

(* A credential is kept only of an approved code whose session was          *)
(* exchanged for tokens this profile can use.                               *)
CredentialIsEarned ==
  outcome = "credential" => approval = "approved" /\ session /\ minted /\ tokens = "good"

(* The stage that is named is the one that failed. *)
StageIsTold ==
  /\ outcome = "device_authorization_failed" => ~ session
  /\ outcome = "oauth_consent_failed" => session /\ tokens = "none"
  /\ outcome = "access_token_validation_failed" => minted

OutcomeIsTrue == CredentialIsEarned /\ StageIsTold

FlowIsHonest ==
  /\ PollsArePaced /\ PollsEndWithTheCode
  /\ OutcomeIsTrue /\ [][OutcomeIsTrue']_vars

(* Every login ends. *)
FlowEnds == <>(pc = "done")

(* What does not hold: one slow_down doubles the interval for good, so that *)
(* the last sleep may pass the expiry of a code that was approved, and any  *)
(* failed request ends the flow; and tokens that are refused here, or do    *)
(* not arrive, stay alive at the hub.                                       *)
ApprovedIsServed == approval = "approved" => outcome # "device_authorization_failed"
RefusedTokensAreRevoked == outcome # "none" /\ outcome # "credential" => ~ minted
=============================================================================
