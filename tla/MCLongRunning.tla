---------------------------- MODULE MCLongRunning ----------------------------
(***************************************************************************)
(* The two processes of this program that stay up: the command bridge and  *)
(* the watch.  They share no state, so that each behaviour is about one.   *)
(***************************************************************************)
EXTENDS MCCommandBridge

CONSTANTS
  Root, Overlapping, Extra, Config, Agents, NoRoot, Invalid, Lossy, MaxEdits

VARIABLES
  process,    \* bridge or watch
  command, edits, link, unread, events, linked, unpolled, unseen, timer, queued,
  phase, memo, first, firstMemo, alive, late, dropped, crossed     \* WriteWatch

Watch == INSTANCE WriteWatch

ASSUME WatchAssumptionHolds == Watch!WatchAssumption

watch == <<command, edits, link, unread, events, linked, unpolled, unseen, timer, queued,
           phase, memo, first, firstMemo, alive, late, dropped, crossed>>
both == <<vars, process, watch>>

(* The other process is in one of its initial states, and stays there.      *)
LongInit ==
  /\ process \in {"bridge", "watch"}
  /\ Init /\ Watch!Init
  /\ process = "bridge" => command = "write" /\ link = NoRoot

LongNext ==
  /\ UNCHANGED process
  /\ \/ process = "bridge" /\ Next /\ UNCHANGED watch
     \/ process = "watch" /\ Watch!Next /\ UNCHANGED vars

(* The fairness of WriteWatch, where it is the watch that runs.             *)
Runs(A) == process = "watch" /\ A

WatchProgress ==
  /\ WF_watch(Runs(Watch!Fire)) /\ WF_watch(Runs(Watch!Trigger))
  /\ WF_watch(Runs(Watch!FirstLoad)) /\ WF_watch(Runs(Watch!FirstApply))
  /\ \A f \in Watch!Polled : WF_watch(Runs(Watch!Poll(f)))
  /\ \A burst \in Watch!Bursts \ (IF Lossy THEN {Watch!Own} ELSE {}) :
       WF_watch(Runs(Watch!Deliver(burst)))

LongSpec == LongInit /\ [][LongNext]_both /\ Progress /\ WatchProgress
-----------------------------------------------------------------------------
(* Types of the watch; server.ts, log.ts: nothing runs unannounced.         *)
AuditedAndTyped == CommandsAreAudited /\ Watch!TypeOK

(* write-watch.ts: each edit reaches a write.                               *)
EditsAreWritten == Watch!EditsAreWritten
=============================================================================
