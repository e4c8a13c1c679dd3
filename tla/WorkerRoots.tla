------------------------------ MODULE WorkerRoots ------------------------------
(***************************************************************************)
(* What a project requires (config.json: the Worker requirements and the   *)
(* active one) and what that is locked to (card.lock: the roots, the       *)
(* version of every card, the user's consent to its hooks and its          *)
(* instructions).  Most commands replace both files in one transaction     *)
(* (worker-project.ts over project-state-transaction.ts, whose two renames *)
(* anybody can see apart).  drwn up, drwn card trust and drwn card untrust *)
(* read the files and write the lock without that transaction              *)
(* (card-project.ts), at the same time as the others.                      *)
(***************************************************************************)
EXTENDS Naturals, SequencesExt

CONSTANTS
  Task,
  Card,
  Ranges,       \* ranges of versions, each the set of versions it admits
  Caret,       \* the range ^v of each version v
  Composes,    \* the members a blueprint requires; none for a plain card
  Hooked,      \* the cards with hooks
  Text,        \* the instructions of each version of each card, or None
  Asked,       \* the calls users make
  None,
  MaxVersion, MaxCalls, MaxFaults    \* bounds

Version == 1..MaxVersion
Requirement == [card : Card, range : Ranges]
Surface == {"hooks", "text"}
Call ==
  [kind : {"add", "pin", "use"}, spec : Requirement]
    \cup [kind : {"apply"}, specs : Seq(Requirement), active : Card \cup {None, "first"}]
    \cup [kind : {"remove"}, card : Card] \cup [kind : {"update", "off", "install", "up"}]
    \cup [kind : {"trust"}, card : Card, surfaces : SUBSET Surface, range : Ranges \cup {None}]
    \cup [kind : {"untrust"}, card : Card, surfaces : SUBSET Surface]

RootsAssumption ==
  /\ Ranges \subseteq SUBSET Version /\ Composes \in [Card -> SUBSET Requirement]
  /\ Caret \in [Version -> Ranges] /\ \A v \in Version : v \in Caret[v]
  /\ Hooked \subseteq Card /\ DOMAIN Text = Card /\ \A c \in Asked : c \in Call
  /\ None \notin Task \cup Card \cup Ranges /\ MaxVersion \in Nat \ {0}

VARIABLES
  published,    \* the newest version of each card in the store
  config,       \* config.json: the requirements and the active root
  lock,         \* card.lock, or NoLock
  journal,      \* what a transaction is about to install, and what it read;
                \* or NoTransaction
  holder,       \* who holds the project-state lock
  pc, call,
  seen,         \* what each task has read
  calls, faults,
  granted,      \* history: what users consented to
  clobbered     \* history: a write replaced what its writer had not read

vars == <<published, config, lock, journal, holder, pc, call, seen, calls, faults, granted,
          clobbered>>
files == <<config, lock, journal>>
-----------------------------------------------------------------------------
(* The version a requirement resolves to.                                   *)
Candidates(r) == {v \in r.range : v <= published[r.card]}
Resolved(r) == Max(Candidates(r))

NoRoots == [specs |-> <<>>, active |-> None]
NoLock == <<>>
NoTransaction == <<>>
Names(specs) == {specs[i].card : i \in DOMAIN specs}

(* The requirements of the roots and of the members they compose.           *)
Closure(specs) ==
  UNION {{specs[i]} \cup Composes[specs[i].card] : i \in DOMAIN specs}

(* resolveWorkerGraph accepts them, and createCardLockfile what comes out:  *)
(* all resolve, no card twice, no two versions, no member that is composed  *)
(* itself or also a root.                                                   *)
Resolves(specs) ==
  /\ \A r \in Closure(specs) : Candidates(r) # {}
  /\ \A i, j \in DOMAIN specs : specs[i].card = specs[j].card => i = j
  /\ \A r, s \in Closure(specs) : r.card = s.card => Resolved(r) = Resolved(s)
  /\ \A i \in DOMAIN specs : \A m \in Composes[specs[i].card] :
       Composes[m.card] = {} /\ m.card \notin Names(specs)

(* Mutants: consent that outlives its range; consent to a text that is not  *)
(* there any more.                                                          *)
CarriedAnyway(c, version, old) ==
  [version |-> version, hooks |-> IF old # None THEN old.hooks ELSE None,
   text |-> IF old # None /\ old.text # None /\ Text[c][version] # None
            THEN [range |-> old.text.range, digest |-> Text[c][version]] ELSE None]
CarriedAsIs(c, version, old) ==
  [version |-> version,
   hooks |-> IF old # None /\ old.hooks # None /\ version \in old.hooks THEN old.hooks ELSE None,
   text |-> IF old # None /\ old.text # None /\ version \in old.text.range THEN old.text ELSE None]

(* carryCardConsent: the consent of the previous entry as far as its range  *)
(* covers the new version; the digest follows the new version's text.       *)
Carried(c, version, old) ==
  [version |-> version,
   hooks |-> IF old # None /\ old.hooks # None /\ version \in old.hooks THEN old.hooks ELSE None,
   text |-> IF /\ old # None /\ old.text # None
               /\ version \in old.text.range /\ Text[c][version] # None
            THEN [range |-> old.text.range, digest |-> Text[c][version]] ELSE None]

NoEntry == [c \in Card |-> None]
Entries(l) == IF l = NoLock THEN NoEntry ELSE l.cards
Roots(l) == IF l = NoLock THEN <<>> ELSE l.roots

NewLock(specs, old) ==
  [roots |-> specs,
   cards |-> [c \in Card |->
     IF \E r \in Closure(specs) : r.card = c
     THEN Carried(c, Resolved(CHOOSE r \in Closure(specs) : r.card = c), Entries(old)[c])
     ELSE None]]

(* parseSnapshot: the requirements are those the lock was made of.          *)
Parses(snapshot) == Roots(snapshot.lock) = snapshot.config.specs

(* selectProjectWorker, as far as the two files decide.                     *)
Selectable(snapshot) ==
  /\ snapshot.lock # NoLock /\ Parses(snapshot)
  /\ snapshot.config.active \in Names(Roots(snapshot.lock)) \cup {None}

Without(specs, name) == RemoveFirstMatch(specs, LAMBDA r : r.card = name)

(* Whether a call fits the requirements it finds.                           *)
Accepts(c, old) ==
  CASE c.kind = "add" -> c.spec.card \notin Names(Roots(old.lock))
    [] c.kind = "remove" -> c.card \in Names(Roots(old.lock))
    [] c.kind = "pin" -> c.spec.card \in Names(Roots(old.lock))
    [] c.kind = "use" -> c.spec.card \in Names(Roots(old.lock)) \/ Entries(old.lock)[c.spec.card] = None
    [] OTHER -> TRUE

(* The calls that select among the roots and leave the lock as it is.       *)
Selects(c, old) ==
  \/ c.kind \in {"off", "install"}
  \/ c.kind = "use" /\ c.spec.card \in Names(Roots(old.lock))

Change(c, old) ==
  CASE c.kind = "add" ->
         [specs |-> Append(old.specs, c.spec),
          active |-> IF old = NoRoots THEN c.spec.card ELSE old.active]
    [] c.kind = "apply" ->
         [specs |-> c.specs,
          active |-> IF c.specs = <<>> THEN None
                     ELSE IF c.active = "first" THEN Head(c.specs).card ELSE c.active]
    [] c.kind = "remove" ->
         [specs |-> Without(old.specs, c.card),
          active |-> IF old.active = c.card THEN None ELSE old.active]
    [] c.kind = "pin" ->
         [old EXCEPT !.specs =
            [i \in DOMAIN @ |-> IF @[i].card = c.spec.card THEN c.spec ELSE @[i]]]
    [] c.kind = "use" ->
         [specs |-> IF c.spec.card \in Names(old.specs) THEN old.specs ELSE Append(old.specs, c.spec),
          active |-> c.spec.card]
    [] c.kind = "off" -> [old EXCEPT !.active = None]
    [] OTHER -> old    \* update, install

(* The two files a call makes of a snapshot, and whether it goes that far.  *)
Pair(c, old) ==
  LET new == Change(c, old.config) IN
  [config |-> new,
   lock |-> IF Selects(c, old) /\ old.lock # NoLock THEN old.lock ELSE NewLock(new.specs, old.lock)]

(* Mutant: of what install had read, only the roots are compared.           *)
UnchangedRoots(t, old) == Parses(old)

Unchanged(t, old) == old = [config |-> seen[t].config, lock |-> seen[t].lock]

Goes(t, old) ==
  LET new == Change(call[t], old.config) IN
  IF call[t].kind = "install" THEN Unchanged(t, old)
  ELSE /\ Parses(old) /\ Accepts(call[t], old)
       /\ Selects(call[t], old) \/ Resolves(new.specs)
       /\ new.active \in Names(new.specs) \cup {None}
-----------------------------------------------------------------------------
Goto(t, step) == pc' = [pc EXCEPT ![t] = step]
Release(t) == holder' = IF holder = t THEN None ELSE holder
End(t) == Goto(t, "idle") /\ Release(t)
See(t, s) == seen' = [seen EXCEPT ![t] = s]

Init ==
  /\ published = [c \in Card |-> 1]
  /\ \/ config = NoRoots /\ lock = NoLock /\ granted = {}
     \/ \E c \in Hooked : LET specs == <<[card |-> c, range |-> Caret[1]]>> IN
          /\ Resolves(specs)
          /\ config = [specs |-> specs, active |-> c]
          /\ lock = [NewLock(specs, NoLock) EXCEPT !.cards[c].hooks = Caret[1]]
          /\ granted = {[card |-> c, surface |-> "hooks", range |-> Caret[1]]}
  /\ journal = NoTransaction /\ holder = None
  /\ pc = [t \in Task |-> "idle"] /\ call = [t \in Task |-> None] /\ seen = [t \in Task |-> None]
  /\ calls = 0 /\ faults = 0 /\ clobbered = FALSE

(* Authors publish.                                                         *)
Publish(c) ==
  /\ published[c] < MaxVersion /\ published' = [published EXCEPT ![c] = @ + 1]
  /\ UNCHANGED <<files, holder, pc, call, seen, calls, faults, granted, clobbered>>

(* A command starts.  pin resolves its requirement before anything else.    *)
First(kind) ==
  CASE kind = "up" -> "look" [] kind \in {"trust", "untrust"} -> "read" [] OTHER -> "enter"
Start(t) ==
  /\ pc[t] = "idle" /\ calls < MaxCalls /\ calls' = calls + 1
  /\ \E c \in Asked :
       /\ c.kind = "pin" => Resolves(<<c.spec>>)
       /\ call' = [call EXCEPT ![t] = c] /\ Goto(t, First(c.kind))
  /\ See(t, None)
  /\ UNCHANGED <<published, files, holder, faults, granted, clobbered>>

(* withProjectStateLock: who finds it held is refused; who gets it finishes *)
(* the transaction that is journaled.                                       *)
Enter(t) ==
  /\ pc[t] = "enter"
  /\ IF holder # None THEN End(t) ELSE holder' = t /\ Goto(t, IF journal = NoTransaction THEN "inside" ELSE "recover")
  /\ UNCHANGED <<published, files, call, seen, calls, faults, granted, clobbered>>

(* Each file that is installed again.                                       *)
RecoverConfig(t) ==
  /\ pc[t] = "recover" /\ Goto(t, "recover lock")
  /\ config' = journal.config
  /\ clobbered' = (clobbered \/ config \notin {journal.config, journal.was.config})
  /\ UNCHANGED <<published, lock, journal, holder, call, seen, calls, faults, granted>>
RecoverLock(t) ==
  /\ pc[t] = "recover lock" /\ Goto(t, "recovered")
  /\ lock' = journal.lock
  /\ clobbered' = (clobbered \/ lock \notin {journal.lock, journal.was.lock})
  /\ UNCHANGED <<published, config, journal, holder, call, seen, calls, faults, granted>>

Transacts(t) == call[t].kind \notin {"up", "trust", "untrust"}
Hydrates(t) == call[t].kind = "install" /\ seen[t] = None

(* readSnapshotUnlocked: the two files one after the other.                 *)
ReadConfig(t) ==
  /\ pc[t] = "inside" /\ Transacts(t) /\ ~ Hydrates(t)
  /\ Goto(t, "derive")
  /\ See(t, IF call[t].kind = "install"
            THEN [config |-> seen[t].config, lock |-> seen[t].lock, again |-> config]
            ELSE [config |-> config])
  /\ UNCHANGED <<published, files, holder, call, calls, faults, granted, clobbered>>

(* mutateProjectState: the lock is read, the next pair computed, and from   *)
(* the journal's rename on that pair is what the project will be.           *)
Snapshot(t) ==
  [config |-> IF call[t].kind = "install" THEN seen[t].again ELSE seen[t].config, lock |-> lock]
Derive(t) ==
  /\ pc[t] = "derive"
  /\ IF Goes(t, Snapshot(t))
     THEN /\ LET pair == Pair(call[t], IF call[t].kind = "install"
                                       THEN [config |-> seen[t].config, lock |-> seen[t].lock]
                                       ELSE Snapshot(t))
             IN journal' = [config |-> pair.config, lock |-> pair.lock, was |-> Snapshot(t)]
          /\ Goto(t, "config") /\ UNCHANGED holder
     ELSE End(t) /\ UNCHANGED journal
  /\ UNCHANGED <<published, config, lock, call, seen, calls, faults, granted, clobbered>>
InstallConfig(t) ==
  /\ pc[t] = "config" /\ Goto(t, "lock")
  /\ config' = journal.config /\ clobbered' = (clobbered \/ config # journal.was.config)
  /\ UNCHANGED <<published, lock, journal, holder, call, seen, calls, faults, granted>>
InstallLock(t) ==
  /\ pc[t] = "lock" /\ Goto(t, "verify")
  /\ lock' = journal.lock /\ clobbered' = (clobbered \/ lock # journal.was.lock)
  /\ UNCHANGED <<published, config, journal, holder, call, seen, calls, faults, granted>>

(* Both files are as they were installed, or the journal stays.             *)
Installed == config = journal.config /\ lock = journal.lock
Verify(t) ==
  /\ pc[t] = "verify" /\ End(t)
  /\ journal' = IF Installed THEN NoTransaction ELSE journal
  /\ UNCHANGED <<published, config, lock, call, seen, calls, faults, granted, clobbered>>
VerifyRecovered(t) ==
  /\ pc[t] = "recovered"
  /\ IF Installed THEN journal' = NoTransaction /\ Goto(t, "inside") /\ UNCHANGED holder
     ELSE End(t) /\ UNCHANGED journal
  /\ UNCHANGED <<published, config, lock, call, seen, calls, faults, granted, clobbered>>

(* drwn install: the snapshot, outside of which the cards are fetched.      *)
ReadInstalled(t) ==
  /\ pc[t] = "inside" /\ Hydrates(t)
  /\ IF Selectable([config |-> config, lock |-> lock])
     THEN Goto(t, "enter") /\ Release(t) ELSE End(t)
  /\ See(t, [config |-> config, lock |-> lock])
  /\ UNCHANGED <<published, files, call, calls, faults, granted, clobbered>>

(* drwn up: something newer than what is locked has to be there.  Lock and  *)
(* requirements are looked at together here, and read again below.          *)
Outdated(r) ==
  /\ Entries(lock)[r.card] # None
  /\ Resolved(r) > Entries(lock)[r.card].version \/ published[r.card] > Resolved(r)
Look(t) ==
  /\ pc[t] = "look"
  /\ IF Resolves(config.specs) /\ \E r \in Closure(config.specs) : Outdated(r)
     THEN Goto(t, "specs") /\ UNCHANGED holder ELSE End(t)
  /\ UNCHANGED <<published, files, call, seen, calls, faults, granted, clobbered>>

(* The requirements, the config again, and the lock.                        *)
ReadSpecs(t) ==
  /\ pc[t] = "specs" /\ Goto(t, "rest")
  /\ See(t, [specs |-> config.specs])
  /\ UNCHANGED <<published, files, holder, call, calls, faults, granted, clobbered>>
ReadRest(t) ==
  /\ pc[t] = "rest" /\ Goto(t, "read")
  /\ See(t, [specs |-> seen[t].specs, config |-> config])
  /\ UNCHANGED <<published, files, holder, call, calls, faults, granted, clobbered>>

(* loadCardLock, by up, trust and untrust.                                  *)
ReadLock(t) ==
  /\ pc[t] = "read"
  /\ IF call[t].kind = "up"
     THEN /\ Goto(t, "enter")
          /\ See(t, [specs |-> seen[t].specs, config |-> seen[t].config, lock |-> lock])
     ELSE Goto(t, "write") /\ See(t, [lock |-> lock])
  /\ UNCHANGED <<published, files, holder, call, calls, faults, granted, clobbered>>

(* writeProjectConfigForWrite holds the project's lock for this write.      *)
WriteConfig(t) ==
  /\ pc[t] = "inside" /\ call[t].kind = "up" /\ Goto(t, "write") /\ Release(t)
  /\ config' = [seen[t].config EXCEPT !.specs = seen[t].specs]
  /\ clobbered' = (clobbered \/ config # seen[t].config \/ config.specs # seen[t].specs)
  /\ UNCHANGED <<published, lock, journal, call, seen, calls, faults, granted>>

(* setCardConsent: the range has to cover the locked version, and there has *)
(* to be something to consent to.                                           *)
Granted(c, entry) ==
  LET range == IF c.range = None THEN Caret[entry.version] ELSE c.range IN
  [entry EXCEPT
     !.hooks = IF "hooks" \in c.surfaces THEN range ELSE @,
     !.text = IF "text" \in c.surfaces THEN [range |-> range, digest |-> Text[c.card][entry.version]] ELSE @]
(* Mutant: the range is not compared with the version.                      *)
GrantableAnyhow(c, entry) == "hooks" \in c.surfaces => c.card \in Hooked
Grantable(c, entry) ==
  /\ c.range # None => entry.version \in c.range
  /\ "hooks" \in c.surfaces => c.card \in Hooked
  /\ "text" \in c.surfaces => Text[c.card][entry.version] # None
Withdrawn(c, entry) ==
  [entry EXCEPT !.hooks = IF "hooks" \in c.surfaces THEN None ELSE @,
                !.text = IF "text" \in c.surfaces THEN None ELSE @]
(* The lock that up, trust or untrust writes, without the project's lock,   *)
(* of what it has read; a call that is refused here ends.                   *)
Entry(t) == Entries(seen[t].lock)[call[t].card]
Writable(t) ==
  IF call[t].kind = "up" THEN Resolves(seen[t].specs)
  ELSE Entry(t) # None /\ (call[t].kind = "trust" => Grantable(call[t], Entry(t)))
Written(t) ==
  CASE call[t].kind = "up" -> NewLock(seen[t].specs, seen[t].lock)
    [] call[t].kind = "trust" -> [seen[t].lock EXCEPT !.cards[call[t].card] = Granted(call[t], @)]
    [] OTHER -> [seen[t].lock EXCEPT !.cards[call[t].card] = Withdrawn(call[t], @)]
Given(t) ==
  IF call[t].kind # "trust" THEN {}
  ELSE [card : {call[t].card}, surface : call[t].surfaces,
        range : {IF call[t].range = None THEN Caret[Entry(t).version] ELSE call[t].range}]

WriteLock(t) ==
  /\ pc[t] = "write" /\ Writable(t) /\ End(t)
  /\ lock' = Written(t) /\ granted' = granted \cup Given(t)
  /\ clobbered' = \/ clobbered \/ lock # seen[t].lock
                  \/ call[t].kind = "up" /\ config.specs # seen[t].specs
  /\ UNCHANGED <<published, config, journal, call, seen, calls, faults>>
RefuseLock(t) ==
  /\ pc[t] = "write" /\ ~ Writable(t) /\ End(t)
  /\ UNCHANGED <<published, files, call, seen, calls, faults, granted, clobbered>>

(* A refusal, an error or the death of the process, at any step.            *)
Stop(t) ==
  /\ pc[t] # "idle" /\ faults < MaxFaults /\ faults' = faults + 1 /\ End(t)
  /\ UNCHANGED <<published, files, call, seen, calls, granted, clobbered>>

Step(t) ==
  \/ Start(t) \/ Enter(t) \/ RecoverConfig(t) \/ RecoverLock(t) \/ ReadConfig(t) \/ Derive(t)
  \/ InstallConfig(t) \/ InstallLock(t) \/ Verify(t) \/ VerifyRecovered(t) \/ ReadInstalled(t) \/ Look(t)
  \/ ReadSpecs(t) \/ ReadRest(t) \/ ReadLock(t) \/ WriteConfig(t) \/ WriteLock(t)
  \/ RefuseLock(t) \/ Stop(t)
Next == (\E c \in Card : Publish(c)) \/ \E t \in Task : Step(t)
RootsSpec == Init /\ [][Next]_vars
-----------------------------------------------------------------------------
(* card-project.ts: whatever overlaps, a consent in the lock is one that a  *)
(* user gave to this card, it covers the version that is locked, and a      *)
(* consent to instructions names the text of that version.                  *)
ConsentIsGiven ==
  \A c \in Card : Entries(lock)[c] # None =>
    LET e == Entries(lock)[c] IN
    /\ e.hooks # None =>
         e.version \in e.hooks /\ [card |-> c, surface |-> "hooks", range |-> e.hooks] \in granted
    /\ e.text # None =>
         /\ e.version \in e.text.range /\ e.text.digest = Text[c][e.version]
         /\ [card |-> c, surface |-> "text", range |-> e.text.range] \in granted

(* worker-project.ts: the lock is that of the requirements and the active   *)
(* Worker one of its roots, whenever no transaction is on its way, as long  *)
(* as no command has written over what it had not read.                     *)
RootsAreLocked ==
  journal = NoTransaction /\ ~ clobbered =>
    /\ Parses([config |-> config, lock |-> lock])
    /\ config.active \in Names(config.specs) \cup {None}

(* card-project.ts, install.ts: a consent that was withdrawn or dropped does *)
(* not come back but by drwn card trust, with the same exception.            *)
Consents(l) ==
  {[card |-> c, surface |-> "hooks"] : c \in {d \in Card : Entries(l)[d] # None /\ Entries(l)[d].hooks # None}}
    \cup {[card |-> c, surface |-> "text"] : c \in {d \in Card : Entries(l)[d] # None /\ Entries(l)[d].text # None}}
ConsentStaysWithdrawn == [][\A consent \in Consents(lock') \ Consents(lock) :
  \/ clobbered'
  \/ \E t \in Task : /\ pc[t] = "write" /\ pc'[t] = "idle" /\ call[t].kind = "trust"
                     /\ call[t].card = consent.card /\ consent.surface \in call[t].surfaces]_vars

RootsAreConsistent == [](ConsentIsGiven /\ RootsAreLocked) /\ ConsentStaysWithdrawn

(* Neither holds without the exception: an overlapping up, trust or untrust *)
(* brings back a consent that was withdrawn, or leaves a lock of other      *)
(* requirements.                                                            *)
RootsMatchLock == journal = NoTransaction => Parses([config |-> config, lock |-> lock])
=============================================================================
