---------------------------- MODULE MachineSettings ----------------------------
(***************************************************************************)
(* What a machine remembers for its user: machine.json (the Worker roots,  *)
(* the active one, consents, a policy edited by hand), which notices of    *)
(* consents were shown, and the preferences of authors; and `drwn init`,   *)
(* which makes the first machine.json and a project's config.json          *)
(* (machine-config.ts, worker-machine.ts, machine-worker-init.ts,          *)
(* hook-consent-ack.ts, instruction-consent-ack.ts, user-preferences.ts).  *)
(*                                                                         *)
(* Most commands change machine.json under the inventory lock.  init reads *)
(* it, may ask its user, and writes it without the lock; notices have none.*)
(***************************************************************************)
EXTENDS Naturals, FiniteSets, Sequences

CONSTANTS
  Task,
  Asked,       \* the calls users make
  MaxCalls,    \* bound: calls
  MaxActs      \* bound: what others do: publish, edit, copy files, kill

VARIABLES
  machine,     \* machine.json, or NoMachine
  prefs,       \* config.json of the user: the checkouts of card collections
  project,     \* a project's config.json, its card.lock, and whether it is registered
  acks,        \* the two stores of notices shown, each a set of keys, and whether it was cut off
  latest,      \* the newest version of each card
  spoilt,      \* cards whose extracted content was edited or removed
  holder,      \* who holds the inventory lock
  pc, call, memo,
  projected,   \* the consents the last machine write acted on
  granted,     \* history: the consents users gave and did not take back
  shown,       \* history: notices, and consents given here
  twice,       \* history: a notice was shown again
  causes,      \* history: init wrote the machine, a store of notices was lost, an overlap
  calls, acts

files == <<machine, prefs, project, acks>>
history == <<granted, shown, twice, causes>>
vars == <<files, latest, spoilt, holder, pc, call, memo, projected, history, calls, acts>>

NoMachine == <<>>
NoConfig == {"absent"}
Torn == {"torn"}
Nobody == "nobody"

(* rec is the recommended blueprint, own another; both compose the card m.  *)
Root == {"rec", "own"}
Cards == Root \cup {"m"}
Version == {1, 2}
Surfaces == {"hooks", "text"}
Declares(c) == IF c = "own" THEN {"hooks"} ELSE IF c = "m" THEN {"text"} ELSE {}
Ranges == {{1}, {2}, {1, 2}}
NoWorker == "none"
NoCall == [op |-> "none"]
NoAcks == [keys |-> {}, torn |-> FALSE]

EmptyMachine == [active |-> NoWorker, roots |-> {}, cards |-> <<>>, policy |-> 0]
Seen(file) == IF file = NoMachine THEN EmptyMachine ELSE file

(* An entry of the lock: a version and the range of each consent.           *)
Entry == [version : Version, consent : [Surfaces -> Ranges \cup {{}}]]
Consents(file) ==
  LET cards == Seen(file).cards IN
  {k \in [card : DOMAIN cards, surface : Surfaces, range : Ranges] : cards[k.card].consent[k.surface] = k.range}

Closure(roots) == roots \cup IF roots = {} THEN {} ELSE {"m"}
Active(file) == IF Seen(file).active = NoWorker THEN {} ELSE Closure({Seen(file).active})

(* What users may ask for; store is where a command keeps what it has read  *)
(* of a store of notices.                                                   *)
Command ==
  [op : {"init"}, guided : BOOLEAN, force : BOOLEAN]
    \cup [op : {"apply"}, roots : SUBSET Cards, active : Cards \cup {NoWorker}]
    \cup [op : {"use"}, root : Cards \cup {NoWorker}, bare : BOOLEAN]
    \cup [op : {"trust"}, card : Cards, surface : Surfaces, range : Ranges \cup {{}}, store : {{}}]
    \cup [op : {"untrust"}, card : Cards, surface : Surfaces]
    \cup [op : {"write"}, store : {{}}] \cup [op : {"set"}, adds : BOOLEAN, value : SUBSET Nat]
SettingsAssumption == Asked \subseteq Command /\ Nobody \notin Task

(* Files of another machine, whose user had consented.                      *)
Elsewhere ==
  {[active |-> w, roots |-> Root, policy |-> 0,
    cards |-> [c \in Cards |-> [version |-> 1,
      consent |-> [s \in Surfaces |-> IF s \notin Declares(c) THEN {} ELSE IF s = "hooks" THEN {1} ELSE {1, 2}]]]] :
    w \in Root}

Init ==
  /\ machine \in {NoMachine} \cup Elsewhere /\ prefs = {}
  /\ \E own \in BOOLEAN :
       project = [config |-> IF own THEN {"own"} ELSE NoConfig, lock |-> IF own THEN {"own"} ELSE {},
                  registered |-> FALSE]
  /\ acks = [s \in Surfaces |-> NoAcks]
  /\ latest = [c \in Cards |-> 1] /\ spoilt = {} /\ holder = Nobody
  /\ pc = [t \in Task |-> "idle"] /\ call = [t \in Task |-> NoCall]
  /\ memo = [t \in Task |-> NoCall]
  /\ projected = {} /\ granted = Consents(machine) /\ shown = {} /\ twice = FALSE /\ causes = {}
  /\ calls = 0 /\ acts = 0
-----------------------------------------------------------------------------
Goto(t, step) == pc' = [pc EXCEPT ![t] = step]
Keep(t, value) == memo' = [memo EXCEPT ![t] = value]
End(t) ==
  /\ Goto(t, "idle") /\ Keep(t, NoCall) /\ call' = [call EXCEPT ![t] = NoCall]
  /\ holder' = IF holder = t THEN Nobody ELSE holder
Quiet == UNCHANGED <<latest, spoilt, calls, acts>>

First(op) ==
  CASE op = "init" -> "check" [] op = "write" -> "preflight" [] OTHER -> "enter"
Start(t) ==
  /\ pc[t] = "idle" /\ t = (CHOOSE u \in Task : pc[u] = "idle")
  /\ calls < MaxCalls /\ calls' = calls + 1
  /\ \E c \in Asked : call' = [call EXCEPT ![t] = c] /\ Goto(t, First(c.op))
  /\ causes' = IF \E u \in Task : pc[u] # "idle" THEN causes \cup {"overlap"} ELSE causes
  /\ UNCHANGED <<files, latest, spoilt, holder, memo, projected, granted, shown, twice, acts>>
-----------------------------------------------------------------------------
(* resolveWorkerGraph: the recommended blueprint is an exact release, and   *)
(* so are its members; others take the newest.  One card has one version.   *)
Picks(root, c) == IF root = "rec" THEN 1 ELSE latest[c]
Resolves(roots) == \A r, s \in roots : Picks(r, "m") = Picks(s, "m")
Resolved(roots, c) ==
  IF c \in roots THEN Picks(c, c) ELSE Picks(CHOOSE r \in roots : TRUE, c)

(* Mutant: consent is carried to whatever version comes.                    *)
CarriedAnyway(old, c, v) ==
  [version |-> v, consent |-> IF c \in DOMAIN old THEN old[c].consent ELSE [s \in Surfaces |-> {}]]
(* preserveConsent: a consent whose range admits the version is carried.    *)
Carried(old, c, v) ==
  [version |-> v,
   consent |-> [s \in Surfaces |->
     IF c \in DOMAIN old /\ v \in old[c].consent[s] THEN old[c].consent[s] ELSE {}]]

(* resolveNextLock: roots that resolve, and are blueprints.                 *)
Locks(roots) == roots \subseteq Root /\ Resolves(roots)
WithRoots(m, roots, active) ==
  [m EXCEPT !.active = active, !.roots = roots,
     !.cards = [c \in Closure(roots) |-> Carried(m.cards, c, Resolved(roots, c))]]

(* useMachineWorker: a bare name of an installed root is selected as it is; *)
(* anything else resolves all roots again, with it.                         *)
Selects(c, m) == c.op = "use" /\ c.bare /\ c.root \in m.roots
IsMember(c, m) == c.op = "use" /\ c.bare /\ c.root \in DOMAIN m.cards \ m.roots

(* The closure of the active Worker, which consents are about.              *)
(* Mutant: any card of the lock.                                            *)
TargetsAny(c, m) == m.active # NoWorker /\ c.card \in DOMAIN m.cards
Targets(c, m) == m.active # NoWorker /\ c.card \in Active(m)

(* resolveMachineCapabilities: whatever is active has the content locked.   *)
(* Mutant: content is not looked at.                                        *)
Unverified(m) == m.active \in m.roots \cup {NoWorker}
Verified(m) == m.active \in m.roots \cup {NoWorker} /\ Active(m) \cap spoilt = {}

Range(c, entry) == IF c.range = {} THEN {v \in Version : v >= entry.version} ELSE c.range
Accepts(c, m) ==
  CASE c.op = "apply" -> Locks(c.roots) /\ c.active \in c.roots \cup {NoWorker}
    [] c.op = "use" -> c.root = NoWorker \/ Selects(c, m) \/ (~ IsMember(c, m) /\ Locks(m.roots \cup {c.root}))
    [] c.op = "init" -> Locks({"rec"})
    [] c.op = "trust" ->
         /\ Targets(c, m) /\ c.surface \in Declares(c.card)
         /\ m.cards[c.card].version \in Range(c, m.cards[c.card])
    [] c.op = "untrust" -> Targets(c, m)
    [] OTHER -> TRUE

Changed(c, m) ==
  CASE c.op = "apply" -> WithRoots(m, c.roots, c.active)
    [] c.op = "init" -> WithRoots(m, {"rec"}, "rec")
    [] c.op = "use" -> IF c.root = NoWorker \/ Selects(c, m) THEN [m EXCEPT !.active = c.root]
                       ELSE WithRoots(m, m.roots \cup {c.root}, c.root)
    [] OTHER -> m

(* An entry with the consent of one surface given or taken back, and a lock *)
(* with an entry in the place of the one it has, if it has one.             *)
Consented(c, entry) ==
  [entry EXCEPT !.consent = [@ EXCEPT ![c.surface] = IF c.op = "trust" THEN Range(c, entry) ELSE {}]]
Placed(m, card, entry) ==
  [m EXCEPT !.cards = [d \in DOMAIN m.cards |-> IF d = card THEN entry ELSE m.cards[d]]]

(* buildHookConsentAckKey, buildInstructionConsentAckKey.                   *)
Key(worker, c, entry, s) ==
  [worker |-> worker, card |-> c, surface |-> s, version |-> entry.version,
   range |-> entry.consent[s]]
(* The consents a machine write acts on: they admit the version.            *)
Valid(m) ==
  {Key(m.active, p[1], m.cards[p[1]], p[2]) : p \in {q \in Active(m) \X Surfaces :
     q[2] \in Declares(q[1]) /\ m.cards[q[1]].version \in m.cards[q[1]].consent[q[2]]}}
-----------------------------------------------------------------------------
(* Mutant: the lock is not asked for.                                       *)
EnterFreely(t) ==
  /\ pc[t] = "enter" /\ Goto(t, "read") /\ UNCHANGED <<call, memo, holder>>
  /\ UNCHANGED <<files, projected, history>> /\ Quiet

(* mutateMachineConfig, mutateUserPreferences: the lock, or nothing.        *)
Enter(t) ==
  /\ pc[t] = "enter"
  /\ IF holder # Nobody THEN End(t)
     ELSE holder' = t /\ Goto(t, "read") /\ UNCHANGED <<call, memo>>
  /\ UNCHANGED <<files, projected, history>> /\ Quiet

Read(t) ==
  /\ pc[t] = "read"
  /\ Keep(t, IF call[t].op = "set" THEN [prefs |-> prefs] ELSE [machine |-> Seen(machine)])
  /\ Goto(t, IF call[t].op \in {"trust", "untrust"} THEN "verify" ELSE "commit")
  /\ UNCHANGED <<files, holder, call, projected, history>> /\ Quiet

(* mutateMachineCardConsent: the capabilities are resolved from machine.json *)
(* as it is now, and the entry that is changed is taken from there.         *)
Verify(t) ==
  /\ pc[t] = "verify"
  /\ LET now == Seen(machine) IN
     IF Verified(now) /\ memo[t].machine.active # NoWorker /\ Accepts(call[t], now)
     THEN /\ Goto(t, "commit") /\ UNCHANGED <<holder, call>>
          /\ Keep(t, [machine |-> memo[t].machine,
                      target |-> Consented(call[t], now.cards[call[t].card])])
     ELSE End(t)
  /\ UNCHANGED <<files, projected, history>> /\ Quiet

Given(c, entry) ==
  IF c.op # "trust" THEN {}
  ELSE {[card |-> c.card, surface |-> c.surface, range |-> entry.consent[c.surface]]}
Withdrawn(c) ==
  IF c.op # "untrust" THEN {} ELSE {g \in granted : g.card = c.card /\ g.surface = c.surface}

(* The file is replaced by what was read, changed.                          *)
Commit(t) ==
  /\ pc[t] = "commit" /\ call[t].op \notin {"trust", "untrust", "set"}
  /\ IF Accepts(call[t], memo[t].machine)
     THEN /\ machine' = Changed(call[t], memo[t].machine)
          /\ IF call[t].op = "init"
             THEN Goto(t, "scaffold") /\ holder' = Nobody /\ UNCHANGED <<call, memo>>
             ELSE End(t)
     ELSE End(t) /\ UNCHANGED machine
  /\ UNCHANGED <<prefs, project, acks, projected, history>> /\ Quiet

(* It is replaced by what was read first, with the entry read later.  A     *)
(* consent is then also remembered as shown.                                *)
CommitConsent(t) ==
  /\ pc[t] = "commit" /\ call[t].op \in {"trust", "untrust"}
  /\ LET c == call[t]  m == memo[t].machine  entry == memo[t].target
         key == Key(m.active, c.card, entry, c.surface)
     IN  /\ machine' = Placed(m, c.card, entry)
         /\ granted' = (granted \ Withdrawn(c)) \cup Given(c, entry)
         /\ \/ /\ c.op = "trust" /\ Goto(t, "load") /\ holder' = Nobody /\ UNCHANGED call
               /\ Keep(t, [keys |-> {key}]) /\ shown' = shown \cup {key}
            \/ c.op = "untrust" /\ End(t) /\ UNCHANGED shown
  /\ UNCHANGED <<prefs, project, acks, projected, twice, causes>> /\ Quiet

(* config set replaces the list, init and the others add to it.             *)
SetPreference(t) ==
  /\ pc[t] = "commit" /\ call[t].op = "set" /\ End(t)
  /\ prefs' = IF call[t].adds THEN memo[t].prefs \cup call[t].value ELSE call[t].value
  /\ UNCHANGED <<machine, project, acks, projected, history>> /\ Quiet
-----------------------------------------------------------------------------
(* drwn init: a project that has a config is refused without --force.       *)
Check(t) ==
  /\ pc[t] = "check"
  /\ IF project.config # NoConfig /\ ~ call[t].force THEN End(t)
     ELSE Goto(t, "look") /\ UNCHANGED <<holder, call, memo>>
  /\ UNCHANGED <<files, projected, history>> /\ Quiet

(* initializeMachineWorker: a machine that has its file keeps it.  Without  *)
(* one a guided init asks its user, which may take a while.                 *)
Look(t) ==
  /\ pc[t] = "look"
  /\ \/ machine # NoMachine /\ Goto(t, "scaffold")
     \/ machine = NoMachine /\ call[t].guided /\ Goto(t, "ask")
     \/ machine = NoMachine /\ ~ call[t].guided /\ Goto(t, "decline")
  /\ UNCHANGED <<files, holder, call, memo, projected, history>> /\ Quiet
Answer(t) ==
  /\ pc[t] = "ask"
  /\ \/ Goto(t, "decline") \/ Goto(t, "enter")
  /\ UNCHANGED <<files, holder, call, memo, projected, history>> /\ Quiet
(* Without the lock, and without another look.                              *)
Decline(t) ==
  /\ pc[t] = "decline" /\ Goto(t, "scaffold")
  /\ machine' = EmptyMachine
  /\ causes' = causes \cup IF machine = NoMachine THEN {} ELSE {"declined"}
  /\ UNCHANGED <<prefs, project, acks, holder, call, memo, projected, granted, shown, twice>> /\ Quiet

(* scaffoldProjectConfig: what is there has to be readable and is removed;  *)
(* the file is opened and filled.  card.lock is not looked at.              *)
Scaffold(t) ==
  /\ pc[t] = "scaffold"
  /\ IF project.config = Torn \/ (project.config # NoConfig /\ ~ call[t].force)
     THEN End(t) /\ UNCHANGED project
     ELSE /\ project' = [project EXCEPT !.config = IF call[t].force THEN NoConfig ELSE @]
          /\ Goto(t, "open") /\ UNCHANGED <<holder, call, memo>>
  /\ UNCHANGED <<machine, prefs, acks, projected, history>> /\ Quiet
Open(t) ==
  /\ pc[t] = "open" /\ project' = [project EXCEPT !.config = Torn] /\ Goto(t, "fill")
  /\ UNCHANGED <<machine, prefs, acks, holder, call, memo, projected, history>> /\ Quiet
Fill(t) ==
  /\ pc[t] = "fill" /\ project' = [project EXCEPT !.config = {}] /\ Goto(t, "register")
  /\ UNCHANGED <<machine, prefs, acks, holder, call, memo, projected, history>> /\ Quiet
Register(t) ==
  /\ pc[t] = "register" /\ project' = [project EXCEPT !.registered = TRUE] /\ End(t)
  /\ UNCHANGED <<machine, prefs, acks, projected, history>> /\ Quiet
-----------------------------------------------------------------------------
(* drwn write --root: what is active and verifies; the consents found there *)
(* have to be acknowledged on this machine.                                 *)
Preflight(t) ==
  /\ pc[t] = "preflight"
  /\ LET m == Seen(machine) IN
     IF ~ Verified(m) THEN End(t)
     ELSE /\ Keep(t, [keys |-> Valid(m)]) /\ Goto(t, IF Valid(m) = {} THEN "project" ELSE "notice")
          /\ UNCHANGED <<holder, call>>
  /\ UNCHANGED <<files, projected, history>> /\ Quiet

(* A store that cannot be parsed ends the command.  What is not in it is    *)
(* told to the user, then recorded.                                         *)
Current(t) == CHOOSE k \in memo[t].keys : TRUE
Done(t) ==
  IF memo[t].keys # {Current(t)} THEN Keep(t, [keys |-> memo[t].keys \ {Current(t)}]) /\ Goto(t, "notice") /\ UNCHANGED <<call, holder>>
  ELSE IF call[t].op = "write" THEN Keep(t, NoCall) /\ Goto(t, "project") /\ UNCHANGED <<call, holder>>
  ELSE End(t)
Notice(t) ==
  /\ pc[t] = "notice"
  /\ LET k == Current(t) IN
     CASE acks[k.surface].torn -> End(t) /\ UNCHANGED <<shown, twice>>
       [] ~ acks[k.surface].torn /\ k \in acks[k.surface].keys -> Done(t) /\ UNCHANGED <<shown, twice>>
       [] OTHER -> /\ Goto(t, "load") /\ shown' = shown \cup {k} /\ twice' = (twice \/ k \in shown)
                   /\ UNCHANGED <<holder, call, memo>>
  /\ UNCHANGED <<files, projected, granted, causes>> /\ Quiet

(* recordHookConsentAck, recordInstructionConsentAck: the store is read     *)
(* again, opened, and filled with what was read and the new key.            *)
Load(t) ==
  /\ pc[t] = "load"
  /\ LET k == Current(t) IN
     CASE acks[k.surface].torn -> End(t)
       [] ~ acks[k.surface].torn /\ k \in acks[k.surface].keys -> Done(t)
       [] OTHER -> /\ Goto(t, "save") /\ UNCHANGED <<holder, memo>>
                   /\ call' = [call EXCEPT ![t].store = acks[k.surface].keys]
  /\ UNCHANGED <<files, projected, history>> /\ Quiet
Save(t) ==
  /\ pc[t] = "save" /\ Goto(t, "saved") /\ acks' = [acks EXCEPT ![Current(t).surface].torn = TRUE]
  /\ UNCHANGED <<machine, prefs, project, holder, call, memo, projected, history>> /\ Quiet
(* Mutant: the store is filled with the new key alone.                      *)
SavedAlone(t) ==
  /\ pc[t] = "saved" /\ Done(t) /\ acks' = [acks EXCEPT ![Current(t).surface] = [keys |-> {Current(t)}, torn |-> FALSE]]
  /\ UNCHANGED <<machine, prefs, project, projected, history>> /\ Quiet
Saved(t) ==
  /\ pc[t] = "saved" /\ Done(t)
  /\ acks' = [acks EXCEPT ![Current(t).surface] = [keys |-> call[t].store \cup {Current(t)}, torn |-> FALSE]]
  /\ UNCHANGED <<machine, prefs, project, projected, history>> /\ Quiet

(* syncRepository resolves what is active again.                            *)
Project(t) ==
  /\ pc[t] = "project" /\ End(t)
  /\ projected' = IF Verified(Seen(machine)) THEN Valid(Seen(machine)) ELSE projected
  /\ UNCHANGED <<files, history>> /\ Quiet
-----------------------------------------------------------------------------
(* What others do: a release of a card, content of a card edited or gone, a *)
(* policy edited by hand, a machine.json copied from another machine, and   *)
(* the death of a process.                                                  *)
Busy == \E t \in Task : pc[t] # "idle"
Act(cause) ==
  /\ acts < MaxActs /\ acts' = acts + 1
  /\ causes' = causes \cup IF Busy THEN {cause} ELSE {}
Others == UNCHANGED <<prefs, project, acks, projected, shown, twice, calls>>

Publish(c) ==
  /\ c # "rec" /\ latest[c] = 1 /\ latest' = [latest EXCEPT ![c] = 2] /\ Act("published")
  /\ UNCHANGED <<machine, spoilt, holder, pc, call, memo, granted>> /\ Others
Spoil(c) ==
  /\ c \in Active(machine) \ spoilt /\ spoilt' = spoilt \cup {c} /\ Act("spoilt")
  /\ UNCHANGED <<machine, latest, holder, pc, call, memo, granted>> /\ Others
EditPolicy ==
  /\ machine # NoMachine /\ machine' = [machine EXCEPT !.policy = 1 - @] /\ Act("edited")
  /\ UNCHANGED <<latest, spoilt, holder, pc, call, memo, granted>> /\ Others
Copy ==
  \E m \in Elsewhere :
    /\ machine' = m /\ machine # m /\ Act("edited") /\ granted' = granted \cup Consents(m)
    /\ UNCHANGED <<latest, spoilt, holder, pc, call, memo>> /\ Others
Kill(t) ==
  /\ pc[t] # "idle" /\ End(t) /\ acts < MaxActs /\ acts' = acts + 1 /\ causes' = causes \cup {"kill"}
  /\ UNCHANGED <<machine, latest, spoilt, granted>> /\ Others

Step(t) ==
  \/ Start(t) \/ Enter(t) \/ Read(t) \/ Verify(t) \/ Commit(t) \/ CommitConsent(t) \/ SetPreference(t)
  \/ Check(t) \/ Look(t) \/ Answer(t) \/ Decline(t) \/ Scaffold(t) \/ Open(t) \/ Fill(t) \/ Register(t)
  \/ Preflight(t) \/ Notice(t) \/ Load(t) \/ Save(t) \/ Saved(t) \/ Project(t) \/ Kill(t)
Next ==
  \/ \E t \in Task : Step(t)
  \/ \E c \in Cards : Publish(c) \/ Spoil(c)
  \/ EditPolicy \/ Copy
SettingsSpec == Init /\ [][Next]_vars
-----------------------------------------------------------------------------
TypeOK ==
  /\ machine # NoMachine => /\ machine.roots \subseteq Root /\ machine.policy \in {0, 1}
                            /\ DOMAIN machine.cards = Closure(machine.roots)
                            /\ \A c \in DOMAIN machine.cards : machine.cards[c] \in Entry
  /\ holder \in Task \cup {Nobody}

(* worker-machine.ts, machine-worker-init.ts: a root or a policy goes from  *)
(* machine.json only by a command that replaces the roots, whatever         *)
(* overlaps; but an init that found no file writes an empty one later, and  *)
(* an edit by hand can meet a command.                                      *)
RootsLeaveByChoice ==
  [][/\ Seen(machine).roots \ Seen(machine').roots # {} =>
          \/ \E t \in Task : pc[t] \in {"commit", "decline"} /\ pc'[t] # pc[t] /\ call[t].op \in {"apply", "init"}
          \/ "edited" \in causes' \/ machine' \in Elsewhere
     /\ Seen(machine).policy # Seen(machine').policy =>
          acts' # acts \/ causes' \cap {"declined", "edited"} # {}]_vars

(* worker-machine.ts: every consent in machine.json is one that a user gave *)
(* to this card and has not taken back, it admits the version locked; and   *)
(* the active Worker is one of the roots.                                   *)
ConsentIsGiven ==
  /\ "edited" \in causes \/ Consents(machine) \subseteq granted
  /\ \A k \in Consents(machine) : Seen(machine).cards[k.card].version \in k.range
  /\ Seen(machine).active \in Seen(machine).roots \cup {NoWorker}

(* worker-machine.ts: a consent is given only to a card of the active       *)
(* Worker, when the content of all of that is what was locked; but for what *)
(* was edited by hand, spoilt or declined while the command ran.            *)
ConsentIsInformed ==
  [][\A k \in Consents(machine') \ Consents(machine) :
       (\E t \in Task : pc[t] = "commit" /\ pc'[t] # "commit" /\ call[t].op = "trust") =>
         /\ k.card \in Active(machine') \/ causes' \cap {"edited", "declined"} # {}
         /\ spoilt \cap Active(machine') = {} \/ causes' \cap {"edited", "spoilt"} # {}]_vars

(* write.ts: no consent that came from elsewhere has an effect before its   *)
(* user was told; and nobody is told twice, unless a process died or        *)
(* commands overlapped.                                                     *)
NoticesAreGiven ==
  /\ projected \subseteq shown \/ causes \cap {"overlap", "edited"} # {}
  /\ twice => causes \cap {"overlap", "kill"} # {}

(* hook-consent-ack.ts, instruction-consent-ack.ts: a notice that was given *)
(* stays recorded, with the same exceptions.                                *)
NoticesAreKept ==
  [][\A kind \in Surfaces : acks[kind].keys \subseteq acks'[kind].keys \/ "overlap" \in causes']_vars

(* user-preferences.ts: of two commands that add, none loses the other's.   *)
PreferencesAreKept ==
  [][prefs \subseteq prefs' \/ \E t \in Task : pc[t] = "commit" /\ call[t].op = "set" /\ ~ call[t].adds]_vars

(* init.ts, project.ts: an init without --force leaves a project as it is,  *)
(* but for another command between its last look and its write.             *)
InitSparesProjects ==
  [][project.config \notin {NoConfig, Torn} /\ project'.config # project.config =>
       \/ "overlap" \in causes
       \/ \E t \in Task : pc[t] \in {"scaffold", "open"} /\ pc'[t] # pc[t] /\ call[t].force]_vars

SettingsAreHonest ==
  /\ [](TypeOK /\ ConsentIsGiven /\ NoticesAreGiven)
  /\ RootsLeaveByChoice /\ ConsentIsInformed /\ NoticesAreKept /\ PreferencesAreKept /\ InitSparesProjects

(* None of these holds.  Roots installed while an init asks its user are    *)
(* lost when the answer is no; a forced init leaves the lock of other       *)
(* roots; a process that dies while it fills a store of notices ends every  *)
(* later write, and one that dies while it fills config.json every later    *)
(* init.                                                                    *)
DeclineSparesOthers == "declined" \notin causes
ForcedInitKeepsThePair == project.config \in {NoConfig, Torn, project.lock}
NoticesNeverBlock == Busy \/ \A s \in Surfaces : ~ acks[s].torn
InitCanBeRepeated == Busy \/ project.config # Torn
=============================================================================
