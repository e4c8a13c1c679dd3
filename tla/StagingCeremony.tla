--------------------------- MODULE StagingCeremony ---------------------------
(***************************************************************************)
(* The hidden qualification of a staging slot: `drwn` asks a person to     *)
(* approve a device login through a notice file, withdraws the notice,     *)
(* sends the checks of the executor to a loopback adapter, has the adapter *)
(* clean up, and publishes two receipts as a pair                          *)
(* (cli/core/management/phase-a-ceremony.ts and the modules it calls).     *)
(*                                                                         *)
(* Every file is made under a temporary name, linked to its place (a link  *)
(* never replaces anything) and recognised by its inode afterwards.        *)
(* Several ceremonies and whoever else writes to the runner's directory    *)
(* share the three places; a ceremony may die, or meet an error, at any    *)
(* step; a request may be lost, or be served after the client gave it up.  *)
(***************************************************************************)
EXTENDS Naturals, FiniteSets

CONSTANTS
  Ceremonies,  \* invocations of the command with one plan
  NumChecks,   \* the requests the executor sends before it cleans up
  MaxActs,     \* bound: files the others create or remove
  MaxFaults    \* bound: deaths and errors

VARIABLES
  files,       \* what is at each place: Nothing, a ceremony's file or Other's
  temps,       \* the temporary names of a ceremony that still exist
  pc,          \* where a ceremony is
  stage,       \* what it will report, or has reported, as failed
  undo,        \* the places it has to check before it takes its file back
  armed,       \* the places where it has found its own file and will unlink
  stuck,       \* the places an error kept it from looking at or clearing, unreported
  strays,      \* the temporary names an error kept it from removing, unreported
  passed,      \* checks that passed
  grants,      \* the adapter holds temporary sessions of the ceremony
  late,        \* a check the client gave up before the adapter served it
  asked,       \* how often the adapter was asked to clean up
  freed,       \* the places others removed a file from
  acts, faults

fileVars == <<files, temps, undo, armed, stuck, strays, freed, acts>>
adapterVars == <<passed, grants, late, asked>>
vars == <<fileVars, adapterVars, pc, stage, faults>>

Outputs == {"readiness", "community"}
Places == Outputs \cup {"notice"}
Nothing == "none"
Other == "other"

FlowStages == {"device_authorization_failed", "oauth_consent_failed", "access_token_validation_failed"}
Stages == FlowStages \cup {"phase_a_execution_failed", "normal_cleanup_failed",
                           "receipt_projection_failed", "public_output_commit_failed"}
Ends == {"done", "failed", "dead"}

CeremonyAssumption ==
  /\ {Nothing, Other} \cap Ceremonies = {}
  /\ NumChecks \in Nat \ {0} /\ MaxActs \in Nat /\ MaxFaults \in Nat

Init ==
  /\ files = [p \in Places |-> Nothing] /\ temps = [c \in Ceremonies |-> {}]
  /\ pc = [c \in Ceremonies |-> "start"] /\ stage = [c \in Ceremonies |-> Nothing]
  /\ undo = [c \in Ceremonies |-> {}] /\ armed = [c \in Ceremonies |-> {}]
  /\ stuck = [c \in Ceremonies |-> {}] /\ strays = [c \in Ceremonies |-> {}]
  /\ passed = [c \in Ceremonies |-> 0] /\ grants = [c \in Ceremonies |-> FALSE]
  /\ late = [c \in Ceremonies |-> "no"] /\ asked = [c \in Ceremonies |-> 0]
  /\ freed = {} /\ acts = 0 /\ faults = 0

Go(c, place) == pc' = [pc EXCEPT ![c] = place]
Blame(c, s) == stage' = [stage EXCEPT ![c] = s]
Refuse(c, s) == Go(c, "failed") /\ Blame(c, s)

(***************************************************************************)
(* Nothing may be at the three places yet.                                 *)
(***************************************************************************)
PreflightOutputs(c) ==
  /\ pc[c] = "start"
  /\ IF \A p \in Outputs : files[p] = Nothing
       THEN Go(c, "noticePath") /\ UNCHANGED stage
       ELSE Refuse(c, "phase_a_execution_failed")
  /\ UNCHANGED <<fileVars, adapterVars, faults>>

PreflightNotice(c) ==
  /\ pc[c] = "noticePath"
  /\ \/ files["notice"] = Nothing /\ Go(c, "flow") /\ UNCHANGED stage
     \/ Refuse(c, "phase_a_execution_failed")    \* this place, or the plan read next
  /\ UNCHANGED <<fileVars, adapterVars, faults>>

(***************************************************************************)
(* The device flow. It may end before it has an address for the notice;    *)
(* a notice that cannot be published ends it, too. Once the notice is out  *)
(* the flow is approved or not, and the notice is withdrawn either way.    *)
(***************************************************************************)
FlowFails(c) ==
  /\ pc[c] = "flow"
  /\ Refuse(c, "device_authorization_failed")
  /\ UNCHANGED <<fileVars, adapterVars, faults>>

PrepareNotice(c) ==
  /\ pc[c] = "flow"
  /\ IF files["notice"] = Nothing
       THEN /\ temps' = [temps EXCEPT ![c] = {"notice"}]
            /\ Go(c, "linkNotice") /\ UNCHANGED stage
       ELSE Refuse(c, "device_authorization_failed") /\ UNCHANGED temps
  /\ UNCHANGED <<files, undo, armed, stuck, strays, freed, acts, adapterVars, faults>>

\* A bug: the body is renamed to its place.
Renames(c, p) == files' = [files EXCEPT ![p] = c]

\* link(): the place is taken only when it is free.
Links(c, p) == files[p] = Nothing /\ files' = [files EXCEPT ![p] = c]

\* A bug: the first of the two receipts stays.
Forget(c, places, s) == undo' = [undo EXCEPT ![c] = {}] /\ Go(c, "undo") /\ Blame(c, s)

\* What the catch blocks start: the places to check are in undo.
TakeBack(c, places, s) ==
  /\ undo' = [undo EXCEPT ![c] = places]
  /\ Go(c, "undo") /\ Blame(c, s)

LinkNotice(c) ==
  /\ pc[c] = "linkNotice"
  /\ \/ /\ Links(c, "notice")
        /\ Go(c, "verifyNotice") /\ UNCHANGED <<undo, stage>>
     \/ /\ files["notice"] # Nothing
        /\ TakeBack(c, {"notice"}, "device_authorization_failed") /\ UNCHANGED files
  /\ UNCHANGED <<temps, armed, stuck, strays, freed, acts, adapterVars, faults>>

VerifyNotice(c) ==
  /\ pc[c] = "verifyNotice"
  /\ temps' = [temps EXCEPT ![c] = {}]
  /\ IF files["notice"] = c
       THEN Go(c, "approval") /\ UNCHANGED <<undo, stage>>
       ELSE TakeBack(c, {"notice"}, "device_authorization_failed")
  /\ UNCHANGED <<files, armed, stuck, strays, freed, acts, adapterVars, faults>>

Approval(c) ==
  /\ pc[c] = "approval"
  /\ Go(c, "checkNotice")
  /\ \/ UNCHANGED stage
     \/ \E s \in FlowStages : Blame(c, s)
  /\ UNCHANGED <<fileVars, adapterVars, faults>>

\* The flow's failure is reported only now.
NoticeWithdrawn(c) ==
  /\ Go(c, IF stage[c] = Nothing THEN "checks" ELSE "failed")
  /\ UNCHANGED stage

\* The notice is compared with the inode that is still open.
CheckNotice(c) ==
  /\ pc[c] = "checkNotice"
  /\ \/ files["notice"] = Nothing /\ NoticeWithdrawn(c)
     \/ files["notice"] = c /\ Go(c, "unlinkNotice") /\ UNCHANGED stage
     \/ files["notice"] \notin {Nothing, c} /\ Refuse(c, "normal_cleanup_failed")
  /\ UNCHANGED <<fileVars, adapterVars, faults>>

\* By now the name may stand for another file, or for none.
UnlinkNotice(c) ==
  /\ pc[c] = "unlinkNotice"
  /\ files' = [files EXCEPT !["notice"] = Nothing]
  /\ IF files["notice"] # Nothing
       THEN Go(c, "noticeGone") /\ UNCHANGED stage
       ELSE Refuse(c, "normal_cleanup_failed")
  /\ UNCHANGED <<temps, undo, armed, stuck, strays, freed, acts, adapterVars, faults>>

NoticeGone(c) ==
  /\ pc[c] = "noticeGone"
  /\ IF files["notice"] = Nothing
       THEN NoticeWithdrawn(c)
       ELSE Refuse(c, "normal_cleanup_failed")
  /\ UNCHANGED <<fileVars, adapterVars, faults>>

(***************************************************************************)
(* The executor: the checks one after the other, each with a time limit,   *)
(* and one request to clean up whatever became of them.  Without a client   *)
(* for the adapter no check is sent.                                       *)
(***************************************************************************)
NoPort(c) ==
  /\ pc[c] = "checks" /\ passed[c] = 0
  /\ Refuse(c, "phase_a_execution_failed")
  /\ UNCHANGED <<fileVars, adapterVars, faults>>

CheckPasses(c) ==
  /\ pc[c] = "checks"
  /\ passed' = [passed EXCEPT ![c] = @ + 1]
  /\ grants' = [grants EXCEPT ![c] = TRUE]
  /\ Go(c, IF passed[c] + 1 = NumChecks THEN "cleanup" ELSE "checks")
  /\ UNCHANGED <<fileVars, late, asked, stage, faults>>

\* A bug: the failure is reported without a cleanup.
CheckRejects(c) ==
  /\ pc[c] = "checks"
  /\ grants' = [grants EXCEPT ![c] = TRUE] /\ Refuse(c, "phase_a_execution_failed")
  /\ UNCHANGED <<fileVars, passed, late, asked, faults>>

CheckFails(c) ==
  /\ pc[c] = "checks"
  /\ \/ grants' = [grants EXCEPT ![c] = TRUE] /\ UNCHANGED late       \* answered, or the answer is lost
     \/ late' = [late EXCEPT ![c] = "pending"] /\ UNCHANGED grants    \* given up before it is served
     \/ UNCHANGED <<grants, late>>                                    \* refused, or never sent
  /\ Go(c, "cleanup") /\ Blame(c, "phase_a_execution_failed")
  /\ UNCHANGED <<fileVars, passed, asked, faults>>

ServedLate(c) ==
  /\ late[c] = "pending"
  /\ late' = [late EXCEPT ![c] = "served"]
  /\ grants' = [grants EXCEPT ![c] = TRUE]
  /\ UNCHANGED <<fileVars, passed, asked, pc, stage, faults>>

CleanupPasses(c) ==
  /\ pc[c] = "cleanup"
  /\ asked' = [asked EXCEPT ![c] = @ + 1]
  /\ grants' = [grants EXCEPT ![c] = FALSE]
  /\ Go(c, IF stage[c] = Nothing THEN "project" ELSE "failed")
  /\ UNCHANGED <<fileVars, passed, late, stage, faults>>

\* The same rejected promise is awaited again: there is no second request.
CleanupFails(c) ==
  /\ pc[c] = "cleanup"
  /\ asked' = [asked EXCEPT ![c] = @ + 1]
  /\ \E done \in BOOLEAN : grants' = [grants EXCEPT ![c] = @ /\ ~done]
  /\ Refuse(c, "normal_cleanup_failed")
  /\ UNCHANGED <<fileVars, passed, late, faults>>

Project(c) ==
  /\ pc[c] = "project"
  /\ \/ Go(c, "prepare") /\ UNCHANGED stage
     \/ Refuse(c, "receipt_projection_failed")
  /\ UNCHANGED <<fileVars, adapterVars, faults>>

(***************************************************************************)
(* The two receipts: both places free, both bodies under temporary names,  *)
(* both links, and then each place is looked at once more.                 *)
(***************************************************************************)
PrepareOutputs(c) ==
  /\ pc[c] = "prepare"
  /\ IF \A p \in Outputs : files[p] = Nothing
       THEN /\ temps' = [temps EXCEPT ![c] = Outputs]
            /\ Go(c, "linkReadiness") /\ UNCHANGED stage
       ELSE Refuse(c, "public_output_commit_failed") /\ UNCHANGED temps
  /\ UNCHANGED <<files, undo, armed, stuck, strays, freed, acts, adapterVars, faults>>

LinkReadiness(c) ==
  /\ pc[c] = "linkReadiness"
  /\ \/ /\ Links(c, "readiness")
        /\ Go(c, "linkCommunity") /\ UNCHANGED <<undo, stage>>
     \/ /\ files["readiness"] # Nothing
        /\ TakeBack(c, {}, "public_output_commit_failed") /\ UNCHANGED files
  /\ UNCHANGED <<temps, armed, stuck, strays, freed, acts, adapterVars, faults>>

LinkCommunity(c) ==
  /\ pc[c] = "linkCommunity"
  /\ \/ /\ Links(c, "community")
        /\ Go(c, "verifyReadiness") /\ UNCHANGED <<undo, stage>>
     \/ /\ files["community"] # Nothing
        /\ TakeBack(c, {"readiness"}, "public_output_commit_failed") /\ UNCHANGED files
  /\ UNCHANGED <<temps, armed, stuck, strays, freed, acts, adapterVars, faults>>

VerifyOutput(c, p, here, next) ==
  /\ pc[c] = here
  /\ temps' = [temps EXCEPT ![c] = @ \ {p}]
  /\ IF files[p] = c
       THEN Go(c, next) /\ UNCHANGED <<undo, stage>>
       ELSE TakeBack(c, Outputs, "public_output_commit_failed")
  /\ UNCHANGED <<files, armed, stuck, strays, freed, acts, adapterVars, faults>>

VerifyOutputs(c) ==
  \/ VerifyOutput(c, "readiness", "verifyReadiness", "verifyCommunity")
  \/ VerifyOutput(c, "community", "verifyCommunity", "done")

(***************************************************************************)
(* Taking back: a file is unlinked when the place still shows its inode,   *)
(* the notice's temporary name before and the receipts' after that.  An    *)
(* error of one of these calls is swallowed: what it was about stays, the  *)
(* rest is gone on with, and the report is the same.                       *)
(***************************************************************************)
Fault == faults < MaxFaults /\ faults' = faults + 1

Sticks(c, p) == Fault /\ stuck' = [stuck EXCEPT ![c] = @ \cup {p}]

UndoCheck(c, p) ==
  /\ pc[c] = "undo" /\ p \in undo[c]
  /\ p = "notice" => temps[c] \subseteq strays[c]
  /\ undo' = [undo EXCEPT ![c] = @ \ {p}]
  /\ \/ armed' = [armed EXCEPT ![c] = IF files[p] = c THEN @ \cup {p} ELSE @]
        /\ UNCHANGED <<stuck, faults>>
     \/ Sticks(c, p) /\ UNCHANGED armed
  /\ UNCHANGED <<files, temps, strays, freed, acts, adapterVars, pc, stage>>

UndoUnlink(c, p) ==
  /\ pc[c] = "undo" /\ p \in armed[c]
  /\ armed' = [armed EXCEPT ![c] = @ \ {p}]
  /\ \/ files' = [files EXCEPT ![p] = Nothing] /\ UNCHANGED <<stuck, faults>>
     \/ Sticks(c, p) /\ UNCHANGED files
  /\ UNCHANGED <<temps, undo, strays, freed, acts, adapterVars, pc, stage>>

UndoTemp(c, p) ==
  /\ pc[c] = "undo" /\ p \in temps[c] \ strays[c]
  /\ p = "notice" \/ undo[c] \cup armed[c] = {}
  /\ \/ temps' = [temps EXCEPT ![c] = @ \ {p}] /\ UNCHANGED <<strays, faults>>
     \/ Fault /\ strays' = [strays EXCEPT ![c] = @ \cup {p}] /\ UNCHANGED temps
  /\ UNCHANGED <<files, undo, armed, stuck, freed, acts, adapterVars, pc, stage>>

UndoEnds(c) ==
  /\ pc[c] = "undo" /\ undo[c] \cup armed[c] = {} /\ temps[c] \subseteq strays[c]
  /\ Go(c, "failed")
  /\ UNCHANGED <<fileVars, adapterVars, stage, faults>>

(***************************************************************************)
(* The others, and what goes wrong.                                        *)
(***************************************************************************)
OtherCreates(p) ==
  /\ acts < MaxActs /\ files[p] = Nothing
  /\ files' = [files EXCEPT ![p] = Other] /\ acts' = acts + 1
  /\ UNCHANGED <<temps, undo, armed, stuck, strays, freed, adapterVars, pc, stage, faults>>

OtherRemoves(p) ==
  /\ acts < MaxActs /\ files[p] # Nothing
  /\ files' = [files EXCEPT ![p] = Nothing] /\ acts' = acts + 1 /\ freed' = freed \cup {p}
  /\ UNCHANGED <<temps, undo, armed, stuck, strays, adapterVars, pc, stage, faults>>

Dies(c) ==
  /\ pc[c] \notin Ends \cup {"start"} /\ Fault
  /\ Go(c, "dead")
  /\ UNCHANGED <<fileVars, adapterVars, stage>>

\* An error of the file system while something is published or withdrawn.
Errs(c) ==
  /\ Fault
  /\ \/ /\ pc[c] \in {"linkNotice", "verifyNotice"}
        /\ TakeBack(c, {"notice"}, "device_authorization_failed")
     \/ /\ pc[c] \in {"checkNotice", "unlinkNotice", "noticeGone"}
        /\ Refuse(c, "normal_cleanup_failed") /\ UNCHANGED undo
     \/ pc[c] = "linkReadiness" /\ TakeBack(c, {}, "public_output_commit_failed")
     \/ pc[c] = "linkCommunity" /\ TakeBack(c, {"readiness"}, "public_output_commit_failed")
     \/ /\ pc[c] \in {"verifyReadiness", "verifyCommunity"}
        /\ TakeBack(c, Outputs, "public_output_commit_failed")
  /\ UNCHANGED <<files, temps, armed, stuck, strays, freed, acts, adapterVars>>

Step(c) ==
  \/ PreflightOutputs(c) \/ PreflightNotice(c) \/ FlowFails(c) \/ PrepareNotice(c)
  \/ LinkNotice(c) \/ VerifyNotice(c) \/ Approval(c)
  \/ CheckNotice(c) \/ UnlinkNotice(c) \/ NoticeGone(c)
  \/ NoPort(c) \/ CheckPasses(c) \/ CheckFails(c) \/ CleanupPasses(c) \/ CleanupFails(c) \/ Project(c)
  \/ PrepareOutputs(c) \/ LinkReadiness(c) \/ LinkCommunity(c) \/ VerifyOutputs(c)
  \/ UndoEnds(c)
  \/ \E p \in Places : UndoCheck(c, p) \/ UndoUnlink(c, p) \/ UndoTemp(c, p)

Next ==
  \/ \E c \in Ceremonies : Step(c) \/ ServedLate(c) \/ Dies(c) \/ Errs(c)
  \/ \E p \in Places : OtherCreates(p) \/ OtherRemoves(p)

(***************************************************************************)
(* Every request has a time limit and the device flow ends by the life of  *)
(* its code, so a ceremony that is alive goes on.                          *)
(***************************************************************************)
Fairness == WF_vars(\E c \in Ceremonies : Step(c))

Spec == Init /\ [][Next]_vars /\ Fairness

-----------------------------------------------------------------------------
TypeOK ==
  /\ files \in [Places -> Ceremonies \cup {Nothing, Other}]
  /\ temps \in [Ceremonies -> SUBSET Places]
  /\ undo \in [Ceremonies -> SUBSET Places] /\ armed \in [Ceremonies -> SUBSET Places]
  /\ stuck \in [Ceremonies -> SUBSET Places] /\ strays \in [Ceremonies -> SUBSET Places]
  /\ stage \in [Ceremonies -> Stages \cup {Nothing}]
  /\ passed \in [Ceremonies -> 0..NumChecks] /\ grants \in [Ceremonies -> BOOLEAN]
  /\ late \in [Ceremonies -> {"no", "pending", "served"}] /\ asked \in [Ceremonies -> 0..1]
  /\ freed \subseteq Places /\ acts \in 0..MaxActs /\ faults \in 0..MaxFaults

Refused(c) == pc[c] = "failed"

(***************************************************************************)
(* A ceremony that reports a failure leaves nothing of its own behind: no  *)
(* receipt, no temporary name, and no notice, unless it reports that the   *)
(* cleanup is what failed.  Each of them may stay when an error of the     *)
(* very call that was to remove it was swallowed, and no other with it.    *)
(***************************************************************************)
NothingIsLeft ==
  \A c \in Ceremonies : Refused(c) =>
    /\ temps[c] \subseteq strays[c]
    /\ \A p \in Places : files[p] = c =>
         p \in stuck[c] \/ (p = "notice" /\ stage[c] = "normal_cleanup_failed")

(***************************************************************************)
(* Not so, and checked by no configuration: the report tells when          *)
(* something stayed.  The errors of the clean-up are swallowed.            *)
(***************************************************************************)
ReportTellsWhatStays ==
  \A c \in Ceremonies, p \in Places :
    Refused(c) /\ files[p] = c => stage[c] = "normal_cleanup_failed"

(***************************************************************************)
(* The notice, an address that approves a login, is withdrawn before the   *)
(* credential it obtained is used, and stays so.                           *)
(***************************************************************************)
NoticeIsWithdrawn ==
  \A c \in Ceremonies :
    passed[c] > 0 \/ asked[c] > 0 \/ pc[c] \in {"checks", "done"} => files["notice"] # c

(***************************************************************************)
(* Whoever sent a check has asked the adapter, once, to clean up before it *)
(* reports, and the report tells whether that worked: sessions remain only *)
(* behind normal_cleanup_failed, or when the adapter served a request the  *)
(* client had given up.                                                    *)
(***************************************************************************)
AdapterIsClean ==
  \A c \in Ceremonies :
    /\ pc[c] \in {"done", "failed"} /\ (passed[c] > 0 \/ grants[c] \/ late[c] # "no") => asked[c] = 1
    /\ pc[c] \in {"done", "failed"} /\ stage[c] # "normal_cleanup_failed" /\ late[c] # "served" => ~grants[c]

(***************************************************************************)
(* Success means that every check passed, that the cleanup was answered    *)
(* and that both places show the ceremony's own receipts, but for one that *)
(* another actor has removed since.                                        *)
(***************************************************************************)
SuccessIsEarned ==
  \A c \in Ceremonies : pc'[c] = "done" /\ pc[c] # "done" =>
    /\ passed'[c] = NumChecks /\ asked'[c] = 1 /\ late'[c] = "no"
    /\ \A p \in Outputs : files'[p] = c \/ p \in freed'

(***************************************************************************)
(* Nothing replaces a file, and nobody takes away what is not its own,     *)
(* until somebody removes files that ceremonies still look after.          *)
(***************************************************************************)
OthersAreSpared ==
  \A p \in Places : files[p] # Nothing /\ files'[p] # files[p] =>
    \/ acts' # acts
    \/ p \in freed
    \/ files[p] \in Ceremonies /\ armed'[files[p]] # armed[files[p]]
    \/ files[p] \in Ceremonies /\ pc[files[p]] = "unlinkNotice" /\ pc'[files[p]] # "unlinkNotice"

(***************************************************************************)
(* The ceremony as a whole, at every step of every actor.                  *)
(***************************************************************************)
CeremonyIsFailClosed ==
  /\ NothingIsLeft /\ NoticeIsWithdrawn /\ AdapterIsClean
  /\ [][ /\ NothingIsLeft' /\ NoticeIsWithdrawn' /\ AdapterIsClean'
         /\ SuccessIsEarned /\ OthersAreSpared ]_vars

(***************************************************************************)
(* A ceremony that is not killed reports an end.                           *)
(***************************************************************************)
CeremoniesEnd == \A c \in Ceremonies : <>(pc[c] \in Ends)
=============================================================================
