------------------------------ MODULE WriteWatch ------------------------------
(***************************************************************************)
(* drwn write --watch and drwn dev: the loop of cli/core/write-watch.ts    *)
(* that writes the project again when a file changes.                      *)
(*                                                                         *)
(* Three kinds of file are watched.  What is under .agents/drwn (Config    *)
(* here) has file system events and is polled as well; AGENTS.md and       *)
(* .claude/CLAUDE.md (Agents) are only polled; a linked source root has    *)
(* events, and which roots are linked is read from config.local.json each  *)
(* time.  Events may be lost where the system says so, polls are not.      *)
(*                                                                         *)
(* A write puts its record under .agents/drwn through a temporary file and *)
(* its block into AGENTS.md: it changes files that it watches.  The steps  *)
(* are those between the awaits of one event loop.                         *)
(***************************************************************************)
EXTENDS Naturals

CONSTANTS
  Root,         \* source roots that may be linked
  Overlapping,  \* those inside the project, or around it
  Extra,        \* the roots that drwn dev links by itself
  Config, Agents,
  NoRoot,       \* config.local.json links nothing
  Invalid,      \* config.local.json does not parse
  Lossy,        \* the file system may lose events
  MaxEdits      \* bound: edits by the user in one behaviour

WatchAssumption ==
  /\ Overlapping \subseteq Root /\ Extra \subseteq Root
  /\ Config # Agents /\ {Config, Agents} \cap Root = {}
  /\ {NoRoot, Invalid} \cap Root = {} /\ NoRoot # Invalid
  /\ Lossy \in BOOLEAN /\ MaxEdits \in Nat

File == Root \cup {Config, Agents}
Polled == {Config, Agents}          \* polledFiles
Own == {"record", "draft"}          \* write-record.json, write-record.json.tmp
Bursts == {{f} : f \in File} \cup {Own}   \* events that come together

VARIABLES
  command,    \* write or dev
  edits,      \* bounded counter: how often the user has changed a file
  link,       \* the root that config.local.json links
  unread,     \* files changed since a write last read them
  events,     \* file system events on their way
  linked,     \* linkedRoots, the keys of linkedWatchers
  unpolled,   \* files whose state is not what the poller last saw
  unseen,     \* files whose state is not what observedFileState holds
  timer, queued,
  phase,      \* where runTrigger is: idle when inProgress is false
  memo,       \* the roots it has read
  first, firstMemo,   \* the refresh that startWriteWatch begins with
  alive,
  late, dropped, crossed
    \* history: edits that the last write did not read, because they came
    \* later or it failed; edits whose event is lost, was spent on a failed
    \* write or came before there was a watcher; whether the first refresh
    \* ended after a later one

polls == <<unpolled, unseen>>
loop == <<timer, queued, phase, memo>>
start == <<first, firstMemo>>
history == <<late, dropped, crossed>>
vars == <<command, edits, link, unread, events, linked, polls, loop, start, alive, history>>

Links(l) == (IF l \in Root THEN {l} ELSE {}) \cup (IF command = "dev" THEN Extra ELSE {})

Init ==
  /\ command \in {"write", "dev"}
  /\ edits = 0 /\ link \in Root \cup {NoRoot}
  /\ unread = {} /\ events = {} /\ linked = {} /\ unpolled = {} /\ unseen = {}
  /\ timer = FALSE /\ queued = FALSE /\ phase = "idle" /\ memo = {}
  /\ first = "load" /\ firstMemo = {}
  /\ alive = TRUE
  /\ late = {} /\ dropped = {} /\ crossed = FALSE

(* An unhandled rejection ends the process, and with it what it remembers.  *)
Die ==
  /\ alive' = FALSE
  /\ events' = {} /\ linked' = {} /\ unpolled' = {} /\ unseen' = {}
  /\ timer' = FALSE /\ queued' = FALSE /\ phase' = "idle" /\ memo' = {}
  /\ first' = "done" /\ firstMemo' = {}
  /\ late' = {} /\ dropped' = {} /\ crossed' = FALSE
  /\ UNCHANGED <<command, edits, link, unread>>

Stop == alive /\ Die                \* SIGINT

Changed(f) ==
  /\ unpolled' = unpolled \cup ({f} \cap Polled)
  /\ unseen' = unseen \cup ({f} \cap Polled)

(* The user saves a file; a new config may link another root, or be broken. *)
Edit(f) ==
  /\ alive /\ edits < MaxEdits
  /\ edits' = edits + 1
  /\ \E l \in Root \cup {NoRoot, Invalid} : link' = l /\ (f # Config => l = link)
  /\ unread' = unread \cup {f}
  /\ events' = IF f \in linked \cup {Config} THEN events \cup {f} ELSE events
  /\ Changed(f)
  /\ late' = IF phase \in {"render", "rewrite", "observe"} THEN late \cup {f} ELSE late
  /\ dropped' = IF first # "done" THEN dropped \cup ({f} \cap Root) ELSE dropped
  /\ UNCHANGED <<command, linked, loop, start, alive, crossed>>

(* Mutant: events of linked roots are taken for outputs too.                *)
IgnoredWithRoots(e) == linked \cap Overlapping # {} /\ e \in Own \cup Root

(* shouldIgnoreWatchEvent: only where a linked root overlaps the project,   *)
(* and then only the record itself.                                         *)
Ignored(e) == linked \cap Overlapping # {} /\ e = "record"

(* A watcher calls schedule, once for each event: the timer starts again.   *)
Deliver(burst) ==
  /\ alive /\ burst \cap events # {}
  /\ events' = events \ burst
  /\ timer' = (timer \/ \E e \in burst : ~ Ignored(e))
  /\ UNCHANGED <<command, edits, link, unread, linked, polls, queued, phase, memo,
                 start, alive, history>>

Drop(f) ==
  /\ Lossy /\ alive /\ f \in events
  /\ events' = events \ {f}
  /\ dropped' = dropped \cup {f}
  /\ UNCHANGED <<command, edits, link, unread, linked, polls, loop, start, alive, late, crossed>>

(* Mutant: a polled change counts only while no write runs.                 *)
IsNewsWhenIdle(f) == f \in unseen /\ phase = "idle"

(* The listener of watchFile asks whether the loop has seen this state.     *)
IsNews(f) == f \in unseen

Poll(f) ==
  /\ alive /\ f \in unpolled
  /\ unpolled' = unpolled \ {f}
  /\ unseen' = unseen \ {f}
  /\ timer' = (timer \/ IsNews(f))
  /\ UNCHANGED <<command, edits, link, unread, events, linked, queued, phase, memo,
                 start, alive, history>>

(* The debounce is over: runTrigger, or a note that it must run once more.  *)
Fire ==
  /\ alive /\ timer
  /\ timer' = FALSE
  /\ IF phase = "idle"
     THEN phase' = "load" /\ UNCHANGED queued
     ELSE queued' = TRUE /\ UNCHANGED phase
  /\ UNCHANGED <<command, edits, link, unread, events, linked, polls, memo,
                 start, alive, history>>

(* refreshLinkedWatchers: loadConfigLocal throws on a broken file, which    *)
(* nobody catches; then the watchers are those of the roots it names.       *)
Load ==
  /\ alive /\ phase = "load"
  /\ IF link = Invalid
     THEN Die
     ELSE /\ memo' = Links(link) /\ phase' = "apply"
          /\ UNCHANGED <<command, edits, link, unread, events, linked, polls, timer, queued,
                         start, alive, history>>

Apply ==
  /\ alive /\ phase = "apply"
  /\ linked' = memo /\ memo' = {}
  /\ phase' = "read"
  /\ crossed' = FALSE
  /\ UNCHANGED <<command, edits, link, unread, events, polls, timer, queued,
                 start, alive, late, dropped>>

(* The refresh that is started with the watch and not waited for.           *)
FirstLoad ==
  /\ alive /\ first = "load"
  /\ IF link = Invalid
     THEN Die
     ELSE /\ first' = "apply" /\ firstMemo' = Links(link)
          /\ UNCHANGED <<command, edits, link, unread, events, linked, polls, loop, alive, history>>

FirstApply ==
  /\ alive /\ first = "apply"
  /\ first' = "done" /\ firstMemo' = {}
  /\ linked' = firstMemo
  /\ crossed' = ~ (linked \subseteq firstMemo)
  /\ UNCHANGED <<command, edits, link, unread, events, polls, loop, alive, late, dropped>>

(* onTrigger reads the project.  A write that fails is reported by drwn     *)
(* write; drwn dev does not catch it.                                       *)
Read ==
  /\ alive /\ phase = "read" /\ link # Invalid
  /\ unread' = unread \ (Polled \cup Links(link))
  /\ phase' = IF Config \in unread THEN "rewrite" ELSE "render"
  /\ late' = {} /\ dropped' = {}
  /\ UNCHANGED <<command, edits, link, events, linked, polls, timer, queued, memo,
                 start, alive, crossed>>

Fail ==
  /\ alive /\ phase = "read"
  /\ IF command = "dev"
     THEN Die
     ELSE /\ phase' = "observe"
          /\ late' = late \cup unread /\ dropped' = dropped \cup unread
          /\ UNCHANGED <<command, edits, link, unread, events, linked, polls, timer, queued, memo,
                         start, alive, crossed>>

(* It writes its outputs: a block that is new into AGENTS.md, and always    *)
(* its record.                                                              *)
Render ==
  /\ alive /\ phase \in {"render", "rewrite"}
  /\ IF phase = "rewrite" THEN Changed(Agents) ELSE UNCHANGED polls
  /\ events' = events \cup Own
  /\ phase' = "observe"
  /\ UNCHANGED <<command, edits, link, unread, linked, timer, queued, memo,
                 start, alive, history>>

(* Mutant: what came in while the write ran is forgotten.                   *)
Forget == "idle"

NextPhase == IF queued THEN "load" ELSE "idle"

(* What is on disk now counts as seen; the finally block runs a queued one. *)
Observe ==
  /\ alive /\ phase = "observe"
  /\ unseen' = {}
  /\ phase' = NextPhase
  /\ queued' = FALSE
  /\ UNCHANGED <<command, edits, link, unread, events, linked, unpolled, timer, memo,
                 start, alive, history>>

Trigger == Load \/ Apply \/ Read \/ Fail \/ Render \/ Observe

Next ==
  \/ Stop \/ Fire \/ Trigger \/ FirstLoad \/ FirstApply
  \/ \E f \in File : Edit(f) \/ Drop(f)
  \/ \E f \in Polled : Poll(f)
  \/ \E burst \in Bursts : Deliver(burst)

Spec == Init /\ [][Next]_vars

(* Timers, events and polls come; the steps of the loop do not wait.  Where *)
(* events may be lost, those of the loop's own outputs need not come.       *)
Progress ==
  /\ WF_vars(Fire) /\ WF_vars(Trigger)
  /\ WF_vars(FirstLoad) /\ WF_vars(FirstApply)
  /\ \A f \in Polled : WF_vars(Poll(f))
  /\ \A burst \in Bursts \ (IF Lossy THEN {Own} ELSE {}) : WF_vars(Deliver(burst))
FairSpec == Spec /\ Progress
-----------------------------------------------------------------------------
TypeOK ==
  /\ command \in {"write", "dev"} /\ edits \in 0..MaxEdits
  /\ link \in Root \cup {NoRoot, Invalid}
  /\ unread \subseteq File /\ events \subseteq File \cup Own
  /\ linked \subseteq Root /\ memo \subseteq Root /\ firstMemo \subseteq Root
  /\ unpolled \subseteq Polled /\ unseen \subseteq unpolled
  /\ {timer, queued, alive, crossed} \subseteq BOOLEAN
  /\ phase \in {"idle", "load", "apply", "read", "render", "rewrite", "observe"}
  /\ first \in {"load", "apply", "done"}
  /\ late \subseteq File /\ dropped \subseteq File

Stale(f) == f \in unread \cap (Polled \cup Links(link))

(* A polled file's edit can hide behind the state that the loop records     *)
(* after its write; a root's event can be lost, or its watcher replaced.    *)
Excused(f) ==
  \/ ~ alive
  \/ f = Agents /\ f \in late
  \/ Config \in late \cap dropped
  \/ f \in Root /\ (f \in dropped \/ crossed)

(* Every edit of a watched file reaches a write that reads it, though a     *)
(* write may be running when it is made.                                    *)
EditsAreWritten == \A f \in File : Stale(f) ~> (~ Stale(f) \/ Excused(f))

(* .ai/tasks/68_drwn-card-model-unified-sequential-plan.md:204: outputs are *)
(* not watched "to avoid self-trigger loops": once nobody edits, the loop   *)
(* comes to rest.  The code breaks it: each write renames its record, by a  *)
(* temporary file, in the directory that is watched.                        *)
WatchSettles == <>[](phase = "idle" /\ ~ timer)
=============================================================================
