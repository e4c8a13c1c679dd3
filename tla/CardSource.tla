------------------------------ MODULE CardSource ------------------------------
(***************************************************************************)
(* The source of a card while its author works on it: card.json, the       *)
(* skills, hooks and servers beside it, package.json and the record of the *)
(* last synchronisation with an upstream (card-source.ts,                  *)
(* card-source-sync.ts), and how it becomes a version (publishCard of      *)
(* card-store.ts, release-pipeline.ts).                                    *)
(*                                                                         *)
(* Every command reads the whole manifest, changes files and writes the    *)
(* whole manifest; there is no lock.  Commands of one author may overlap,  *)
(* be killed at any step, and meet edits by hand.                          *)
(***************************************************************************)
EXTENDS Naturals, FiniteSets

CONSTANTS
  Task,
  MaxRev,      \* bound: revisions of a content
  MaxVersion,  \* bound: versions of the card
  MaxActs      \* bound: commands and acts of the user or an upstream, where one
               \* that begins while a command runs counts twice

SourceAssumption ==
  /\ Task # {} /\ {MaxRev, MaxVersion} \subseteq Nat \ {0} /\ MaxActs \in Nat

VARIABLES
  card,        \* card.json
  files,       \* what is in the place of an entry
  synced,      \* .upstream-sync.json: the revision of the skill, or Torn
  upstream,    \* the upstream's revision
  pkg,         \* the version in package.json, Absent without one
  published,   \* what each version of the card consists of
  pc, call,
  acked,       \* history: entries that were added with success
  causes,      \* history: what else happened: overlap, kill, keep, edit
  acts

source == <<card, files, synced, pkg>>
vars == <<source, upstream, published, pc, call, acked, causes, acts>>

(* A hook stands for hooks, personas and beliefs: one file from a template.*)
Entry == {"skill", "hook", "server"}
Rev == 1..MaxRev
Absent == 0
Torn == MaxRev + 1
Version == 1..MaxVersion
CardJson == [version : Version, named : SUBSET Entry, def : {Absent} \cup Rev,
             tracked : BOOLEAN, torn : BOOLEAN]

Ops == {"add", "remove", "set", "sync", "publish", "release"}
NoCall == [op |-> "none"]

Active == {t \in Task : pc[t] # "idle"}

Init ==
  /\ \E kind \in {"new", "package", "tracked"} :
       /\ card = [version |-> 1, named |-> IF kind = "tracked" THEN {"skill"} ELSE {}, def |-> Absent,
                  tracked |-> kind = "tracked", torn |-> FALSE]
       /\ files = [e \in Entry |-> IF e = "skill" /\ kind = "tracked" THEN 1 ELSE Absent]
       /\ pkg = IF kind = "package" THEN 1 ELSE Absent
  /\ synced = Absent /\ upstream = 1 /\ published = [v \in Version |-> NoCall]
  /\ pc = [t \in Task |-> "idle"] /\ call = [t \in Task |-> NoCall]
  /\ acked = {} /\ causes = {} /\ acts = 0

Act(cause, others) ==
  /\ acts' = acts + (IF others = {} THEN 1 ELSE 2) /\ acts' <= MaxActs
  /\ causes' = causes \cup cause \cup (IF others = {} THEN {} ELSE {"overlap"})

Goto(t, place) == pc' = [pc EXCEPT ![t] = place]
Return(t) == Goto(t, "idle") /\ call' = [call EXCEPT ![t] = NoCall]
Still == UNCHANGED <<upstream, causes, acts>>

-----------------------------------------------------------------------------
(* flag is --replace of an addition, which brings another revision, or     *)
(* --keep-files of a removal; a hook has no --replace.  Who is idle has no *)
(* state, so that any one of them may stand for the next command.          *)
Begin(t, op, e, flag) ==
  /\ t = CHOOSE u \in Task : Active = Task \/ u \notin Active
  /\ pc[t] = "idle"
  /\ e = "hook" /\ op = "add" => ~ flag
  /\ op \notin {"add", "remove"} => e = "skill" /\ ~ flag
  /\ Act(IF op = "remove" /\ flag THEN {"keep"} ELSE {}, Active)
  /\ call' = [call EXCEPT ![t] = [op |-> op, e |-> e, rev |-> IF flag THEN MaxRev ELSE 1,
                                 flag |-> flag, card |-> NoCall]]
  /\ Goto(t, CASE op = "publish" -> "manifest" [] op = "release" -> "syncCheck" [] OTHER -> "read")
  /\ acked' = IF op = "remove" THEN acked \ {e} ELSE acked
  /\ UNCHANGED <<source, upstream, published>>

Keep(t) == call' = [call EXCEPT ![t].card = card]

(* readSourceManifestForMutation, readCardSourceManifest                   *)
Read(t) ==
  /\ pc[t] = "read"
  /\ \/ card.torn /\ Return(t)
     \/ /\ ~ card.torn /\ Keep(t)
        /\ Goto(t, CASE call[t].op = "set" -> "write" [] call[t].op = "sync" -> "fetch" [] OTHER -> "decide")
  /\ Still /\ UNCHANGED <<source, published, acked>>

Named(t) == call[t].e \in call[t].card.named
Present(t) == files[call[t].e] # Absent

(* A bug: what lies there without being named is not noticed.              *)
OnlyNamed(t) == Named(t)
Exists(t) == Named(t) \/ Present(t)

Admitted(t) ==
  IF call[t].op = "add"
  THEN call[t].flag \/ ~ Exists(t)
  ELSE Named(t) \/ (call[t].e # "hook" /\ Present(t))

FirstEffect(t) ==
  IF call[t].op = "add"
    THEN IF call[t].e = "skill" THEN "clear" ELSE "put"
    ELSE IF call[t].flag THEN "write" ELSE "clear"

Decide(t) ==
  /\ pc[t] = "decide"
  /\ \/ Admitted(t) /\ Goto(t, FirstEffect(t)) /\ UNCHANGED call
     \/ ~ Admitted(t) /\ Return(t)
  /\ Still /\ UNCHANGED <<source, published, acked>>

Clear(t) ==
  /\ pc[t] = "clear"
  /\ files' = [files EXCEPT ![call[t].e] = Absent]
  /\ Goto(t, IF call[t].op = "remove" THEN "write" ELSE "start")
  /\ Still /\ UNCHANGED <<card, synced, pkg, published, call, acked>>

StartCopy(t) ==
  /\ pc[t] = "start"
  /\ files' = [files EXCEPT !["skill"] = Torn]
  /\ Goto(t, "copy")
  /\ Still /\ UNCHANGED <<card, synced, pkg, published, call, acked>>

(* With others at the same directory the copy may be of both.              *)
EndCopy(t) ==
  /\ pc[t] = "copy"
  /\ \E now \in {call[t].rev} \cup (IF "overlap" \in causes THEN {Torn} ELSE {}) :
       files' = [files EXCEPT !["skill"] = now]
  /\ Goto(t, IF call[t].op = "sync" THEN "record" ELSE "write")
  /\ Still /\ UNCHANGED <<card, synced, pkg, published, call, acked>>

(* writeAtomically of a policy, a persona, a belief or a server             *)
Put(t) ==
  /\ pc[t] = "put"
  /\ files' = [files EXCEPT ![call[t].e] = call[t].rev]
  /\ Goto(t, "write")
  /\ Still /\ UNCHANGED <<card, synced, pkg, published, call, acked>>

(* The manifest that was read, with the one change.                         *)
NextCard(t) ==
  LET old == call[t].card  e == call[t].e IN
  CASE call[t].op = "add" ->
         [old EXCEPT !.named = @ \cup {e}, !.def = IF e = "server" THEN call[t].rev ELSE @]
    [] call[t].op = "remove" ->
         [old EXCEPT !.named = @ \ {e}, !.def = IF e = "server" THEN Absent ELSE @]
    [] OTHER -> [old EXCEPT !.version = @ + 1]

(* assertValidCardManifest: what is tracked upstream must be named.         *)
Valid(c) == c.tracked => "skill" \in c.named

WriteCard(t) ==
  /\ pc[t] = "write"
  /\ NextCard(t).version \in Version
  /\ IF Valid(NextCard(t))
       THEN /\ card' = NextCard(t)
            /\ acked' = IF call[t].op = "add" THEN acked \cup {call[t].e} ELSE acked
       ELSE UNCHANGED <<card, acked>>
  /\ Return(t)
  /\ Still /\ UNCHANGED <<files, synced, pkg, published>>

-----------------------------------------------------------------------------
(* card source sync: a skill that differs from its upstream is replaced.   *)
Fetch(t) ==
  /\ pc[t] = "fetch"
  /\ \/ synced = Torn /\ Return(t)
     \/ /\ synced # Torn /\ ~ call[t].card.tracked
        /\ call' = [call EXCEPT ![t].rev = Absent] /\ Goto(t, "record")
     \/ /\ synced # Torn /\ call[t].card.tracked
        /\ call' = [call EXCEPT ![t].rev = upstream]
        /\ Goto(t, IF files["skill"] = upstream THEN "record" ELSE "clear")
  /\ Still /\ UNCHANGED <<source, published, acked>>

Record(t) ==
  /\ pc[t] = "record"
  /\ synced' = IF call[t].rev = Absent THEN synced ELSE call[t].rev
  /\ Return(t)
  /\ Still /\ UNCHANGED <<card, files, pkg, published, acked>>

(* A bug: only the recorded revision is compared.                           *)
NeverStale == FALSE
Stale == files["skill"] # upstream
Moved == synced # Absent /\ synced # upstream

(* runRelease begins with a check that writes nothing.                      *)
SyncCheck(t) ==
  /\ pc[t] = "syncCheck"
  /\ \/ ~ card.torn /\ synced # Torn /\ ~ (card.tracked /\ (Stale \/ Moved))
        /\ Goto(t, "doctor") /\ UNCHANGED call
     \/ (card.torn \/ synced = Torn \/ (card.tracked /\ (Stale \/ Moved))) /\ Return(t)
  /\ Still /\ UNCHANGED <<source, published, acked>>

(* readCardSourceState: no issue.  Of a skill only SKILL.md is looked for,  *)
(* so that one that is half there passes or not.                            *)
Whole(c, f) ==
  /\ \A e \in {"skill", "hook"} : e \in c.named <=> f[e] # Absent
  /\ "server" \in c.named /\ f["server"] # Absent => c.def = f["server"]
Fits(c) == pkg \in {Absent, c.version}
Healthy(c, f) == Whole(c, f) /\ Fits(c)

Doctor(t) ==
  /\ pc[t] = "doctor"
  /\ \/ /\ ~ card.torn /\ Healthy(card, files)
        /\ Keep(t) /\ Goto(t, "bump")
     \/ /\ card.torn \/ ~ Healthy(card, files) \/ files["skill"] = Torn
        /\ Return(t)
  /\ Still /\ UNCHANGED <<source, published, acked>>

(* The bump is written in place: for a moment card.json is not whole.       *)
Bump(t) ==
  /\ pc[t] = "bump" /\ call[t].card.version < MaxVersion
  /\ card' = [card EXCEPT !.torn = TRUE]
  /\ Goto(t, "bumped")
  /\ Still /\ UNCHANGED <<files, synced, pkg, published, call, acked>>

EndBump(t) ==
  /\ pc[t] = "bumped"
  /\ card' = [call[t].card EXCEPT !.version = @ + 1]
  /\ Goto(t, "manifest")
  /\ Still /\ UNCHANGED <<files, synced, pkg, published, call, acked>>

-----------------------------------------------------------------------------
(* publishCard: the manifest, the checks, the tree and the tag.             *)
Manifest(t) ==
  /\ pc[t] = "manifest"
  /\ \/ card.torn /\ Return(t)
     \/ ~ card.torn /\ Keep(t) /\ Goto(t, "check")
  /\ Still /\ UNCHANGED <<source, published, acked>>

(* A bug: the content is not looked at.                                     *)
Assumed(c, f) == TRUE
Complete(c, f) == \A e \in c.named \cap {"skill", "hook"} : f[e] # Absent
Free(c) == published[c.version] = NoCall

Check(t) ==
  /\ pc[t] = "check"
  /\ \/ /\ Complete(call[t].card, files) /\ Fits(call[t].card) /\ Free(call[t].card)
        /\ Goto(t, "tree") /\ UNCHANGED call
     \/ /\ \/ ~ Complete(call[t].card, files) \/ ~ Fits(call[t].card) \/ ~ Free(call[t].card)
           \/ files["skill"] = Torn
           \/ \E v \in Version : published[v] # NoCall    \* a bump that does not fit the change
        /\ Return(t)
  /\ Still /\ UNCHANGED <<source, published, acked>>

Tree(t) ==
  /\ pc[t] = "tree"
  /\ \/ /\ Complete(call[t].card, files) /\ Goto(t, "tag")
        /\ call' = [call EXCEPT ![t] =
             [op |-> @.op, read |-> @.card, card |-> card, files |-> files]]
     \/ (~ Complete(call[t].card, files) \/ files["skill"] = Torn) /\ Return(t)
  /\ Still /\ UNCHANGED <<source, published, acked>>

Tag(t) ==
  /\ pc[t] = "tag"
  /\ published' = IF Free(call[t].read)
       THEN [published EXCEPT ![call[t].read.version] = call[t]]
       ELSE published
  /\ Return(t)
  /\ Still /\ UNCHANGED <<source, acked>>

-----------------------------------------------------------------------------
(* Whoever is killed while files are cleared or a record is written leaves *)
(* them half done.                                                         *)
Kill(t) ==
  /\ pc[t] # "idle" /\ causes' = causes \cup {"kill"} /\ UNCHANGED acts
  /\ \/ UNCHANGED <<files, synced>>
     \/ /\ pc[t] = "clear" /\ call[t].e = "skill" /\ files["skill"] # Absent
        /\ files' = [files EXCEPT !["skill"] = Torn] /\ UNCHANGED synced
     \/ pc[t] = "record" /\ synced' = Torn /\ UNCHANGED files
  /\ Return(t)
  /\ UNCHANGED <<card, pkg, upstream, published, acked>>

Edit(e, rev) ==
  /\ files[e] \notin {Absent, rev} /\ Act({"edit"}, Active)
  /\ files' = [files EXCEPT ![e] = rev]
  /\ UNCHANGED <<card, synced, pkg, upstream, published, pc, call, acked>>

EditPackage ==
  /\ pkg # Absent /\ ~ card.torn /\ pkg # card.version /\ Act({}, Active)
  /\ pkg' = card.version
  /\ UNCHANGED <<card, files, synced, upstream, published, pc, call, acked>>

Advance ==
  /\ upstream < MaxRev /\ Act({}, Active) /\ upstream' = upstream + 1
  /\ UNCHANGED <<source, published, pc, call, acked>>

Step(t) ==
  \/ Read(t) \/ Decide(t) \/ Clear(t) \/ StartCopy(t) \/ EndCopy(t) \/ Put(t) \/ WriteCard(t)
  \/ Fetch(t) \/ Record(t)
  \/ SyncCheck(t) \/ Doctor(t) \/ Bump(t) \/ EndBump(t)
  \/ Manifest(t) \/ Check(t) \/ Tree(t) \/ Tag(t)

Next ==
  \/ \E t \in Task : Step(t) \/ Kill(t)
  \/ \E t \in Task, op \in Ops, e \in Entry, flag \in BOOLEAN : Begin(t, op, e, flag)
  \/ \E e \in Entry, rev \in Rev : Edit(e, rev)
  \/ EditPackage \/ Advance

Spec == Init /\ [][Next]_vars

-----------------------------------------------------------------------------
TypeOK ==
  /\ card \in CardJson /\ files \in [Entry -> 0..Torn] /\ synced \in 0..Torn
  /\ upstream \in Rev /\ pkg \in 0..MaxVersion /\ acked \subseteq Entry
  /\ causes \subseteq {"overlap", "kill", "keep", "edit"} /\ acts \in 0..MaxActs

Untroubled(those) == causes \cap those = {}

(* Whatever commands run, one after the other and to their end, the doctor *)
(* finds nothing wrong between manifest and files; a removal of a skill    *)
(* that is tracked upstream is the exception: its files are gone before    *)
(* the manifest without it is found invalid.                               *)
StaysWhole ==
  Active = {} /\ causes = {} =>
    \/ Whole(card, files)
    \/ card.tracked /\ files["skill"] = Absent

(* An entry that was added stays, until somebody removes it, edits at the  *)
(* same time or is killed while he replaces it.                            *)
AddedStays ==
  Untroubled({"overlap", "kill"}) /\ Active = {} =>
    \A e \in acked : e \in card.named /\ files[e] \notin {Absent, Torn}

(* A version contains what the manifest that was read names, whoever edits *)
(* the source meanwhile; without that it contains that manifest, and half  *)
(* a skill gets into it only after a kill.                                 *)
PublishedIsWhole ==
  \A v \in Version : published[v] # NoCall =>
    LET made == published[v] IN
    /\ \A e \in made.read.named : made.files[e] = Absent => e = "server"
    /\ "overlap" \in causes \/ made.card = made.read
    /\ causes \cap {"overlap", "kill"} # {} \/ \A e \in Entry : made.files[e] # Torn

(* What `release` publishes is in addition what its doctor accepts, and    *)
(* the upstream's.                                                         *)
ReleasedIsHealthy ==
  [][\A v \in Version : published[v] = NoCall /\ published'[v] # NoCall /\ published'[v].op = "release" =>
       \/ "overlap" \in causes
       \/ /\ Healthy(published'[v].card, published'[v].files)
          /\ published'[v].card.tracked => published'[v].files["skill"] = upstream]_vars

(* An addition without --replace touches nothing that was there.           *)
AddSpares ==
  [][\A t \in Task : pc[t] \in {"clear", "put"} /\ call[t].op = "add" /\ ~ call[t].flag
        /\ files'[call[t].e] # files[call[t].e] /\ pc'[t] # pc[t] =>
       files[call[t].e] = Absent \/ "overlap" \in causes]_vars

(* card.json can be read, but while a release writes it and after one was  *)
(* killed there.                                                           *)
StaysReadable ==
  card.torn => "kill" \in causes \/ \E t \in Task : pc[t] = "bumped"

(* The author's source, whatever commands he gives.                        *)
SourceIsHonest ==
  /\ TypeOK /\ StaysWhole /\ AddedStays /\ PublishedIsWhole /\ StaysReadable
  /\ [][TypeOK' /\ StaysWhole' /\ AddedStays' /\ PublishedIsWhole' /\ StaysReadable']_vars
  /\ ReleasedIsHealthy /\ AddSpares

-----------------------------------------------------------------------------
(* Not so: a removal that is refused has removed the files of a tracked    *)
(* skill.                                                                  *)
RefusedRemovesNothing ==
  [][\A t \in Task : WriteCard(t) => Valid(NextCard(t)) \/ call[t].flag]_vars

(* Not so: a hook whose addition was killed before the manifest can be     *)
(* neither added nor removed.                                              *)
OrphansAreAccepted ==
  Active = {} /\ "keep" \notin causes /\ files["hook"] # Absent => "hook" \in card.named

(* Not so: a version never holds half a skill; after a kill neither the    *)
(* doctor nor publishCard looks beyond SKILL.md.                           *)
HalvesAreRefused ==
  "overlap" \in causes \/ \A v \in Version : published[v] # NoCall => \A e \in Entry : published[v].files[e] # Torn
=============================================================================
