------------------------------ MODULE CardStore ------------------------------
(***************************************************************************)
(* One card in the machine's store and in a project: a bare git repository *)
(* with a tag per published version, the trees extracted from it           *)
(* (cli/core/card-store.ts), its deprecations (card-meta.ts), the seeding  *)
(* of the store (store-seed.ts), and the trees that `drwn write` vendors   *)
(* into the project that locks the card (vendor.ts, vendor-reconcile.ts).  *)
(*                                                                         *)
(* No lock guards any of it; every git or file system effect is a step.    *)
(* Left out: temporary directories, which have names of their own and are  *)
(* read by nobody; the read-only bits; pushing, which changes the remote   *)
(* as another machine's publish does; a read-only store, which refuses.    *)
(***************************************************************************)
EXTENDS Integers

CONSTANTS
  Task, None,
  Bytes,       \* what may be in a source but for the version in card.json
  MaxEvents    \* bound: calls, edits, deaths and remote publishes together

Version == 1 .. 2
Tree == [version : Version, bytes : Bytes]

VARIABLES
  repo,        \* the bare repository exists
  tags,        \* the tree of each published version
  main,        \* the publishes that refs/heads/main leads to
  meta,        \* the deprecated versions on refs/meta/cards
  legacy,      \* the deprecated versions in the repository's config
  override,    \* the versions published with --force-bump-mismatch
  extracted,   \* what is in the directory of each tree: see Content
  seed,        \* the tree in the seed snapshot, published there as its version
  remote,      \* origin: its tags, main and deprecations
  source,      \* the directory that each task publishes from
  entry,       \* the project's lock entry: a tree and an integrity
  vendor,      \* what is in the vendored directory of each tree
  sidecar,     \* the integrity that its vendor manifest records
  pc, call, events,
  promised,    \* history: the versions whose deprecation was acknowledged
  late         \* history: whose source, and which tree of whom, others changed meanwhile

store == <<repo, tags, main, meta, legacy, override, extracted>>
project == <<entry, vendor, sidecar>>
outside == <<seed, remote, source>>
vars == <<store, project, outside, pc, call, events, promised, late>>

(* A directory of a tree holds nothing, an unfinished copy, the tree, the   *)
(* tree as someone edited it in the store, or as edited in the project.     *)
(* Equal contents have equal digests (content-manifest.ts).                 *)
Content == {"none", "partial", "whole", "forged", "edited"}

CardAssumption == None \notin Tree \cup Version \cup Content

NoTags == [v \in Version |-> None]
Published == {v \in Version : tags[v] # None}
Tagged(t) == {[version |-> v, tree |-> t[v]] : v \in {w \in Version : t[w] # None}}
Highest(S) == CHOOSE v \in S : \A w \in S : w <= v

Idle == [op |-> None, version |-> None, tree |-> None, parent |-> {}, digest |-> None,
         last |-> None, after |-> None, copy |-> None, stale |-> None, todo |-> {},
         lost |-> FALSE]

(* No store yet, or one with both versions published, and the first of them *)
(* locked and vendored.                                                     *)
Unused ==
  /\ repo = FALSE /\ tags = NoTags
  /\ extracted = [x \in Tree |-> "none"]
  /\ entry = None /\ vendor = [x \in Tree |-> "none"] /\ sidecar = [x \in Tree |-> None]
InUse ==
  LET second == [seed EXCEPT !.version = 2] IN
  /\ repo = TRUE /\ tags = <<seed, second>>
  /\ extracted = [x \in Tree |-> IF x \in {seed, second} THEN "whole" ELSE "none"]
  /\ entry = [tree |-> seed, digest |-> "whole"]
  /\ vendor = [x \in Tree |-> IF x = seed THEN "whole" ELSE "none"]
  /\ sidecar = [x \in Tree |-> IF x = seed THEN "whole" ELSE None]

Init ==
  /\ seed \in [version : {1}, bytes : Bytes]
  /\ Unused \/ InUse
  /\ main = Tagged(tags) /\ meta = {} /\ legacy = {} /\ override = {}
  /\ remote = [tags |-> tags, meta |-> {}]
  /\ source \in [Task -> [version : {1}, bytes : Bytes]]
  /\ pc = [t \in Task |-> "idle"] /\ call = [t \in Task |-> Idle]
  /\ events = 0 /\ promised = {} /\ late = {}

Event == events < MaxEvents /\ events' = events + 1
Goto(t, step) == pc' = [pc EXCEPT ![t] = step]
Remember(t, c) == call' = [call EXCEPT ![t] = c]
Same == UNCHANGED <<outside, events, promised, late>>

Busy == {t \in Task : pc[t] # "idle"}
Return(t) == Goto(t, "idle") /\ Remember(t, Idle)

Begin(t, op, step) ==
  /\ pc[t] = "idle" /\ Event
  /\ Goto(t, step)
  /\ late' = {l \in late : l[1] # t}

(* A step of t that returns or throws without another effect. *)
Quit(t) == Return(t) /\ UNCHANGED <<store, project>> /\ Same

(* A step that only reads: it goes on, remembering c. *)
Look(t, next, c) == Goto(t, next) /\ Remember(t, c) /\ UNCHANGED <<store, project>> /\ Same

-----------------------------------------------------------------------------
(* ensureExtracted: a tree that is there is taken as it is; another is      *)
(* unpacked in a temporary directory and renamed into place.  Whoever comes *)
(* second finds the place taken, which is as good.                          *)
Extract(t, x, after, c) ==
  IF extracted[x] # "none"
  THEN Look(t, after, c)
  ELSE Look(t, "unpack", [c EXCEPT !.tree = x, !.after = after])

(* Mutant: the archive is unpacked where the tree belongs. *)
UnpackedInPlace(x) == [extracted EXCEPT ![x] = IF @ = "none" THEN "partial" ELSE @]
Unpacked(x) == extracted

(* The objects of a tree: it was published, or the call wrote it.           *)
InRepo(t, x) ==
  /\ repo
  /\ \/ \E v \in Version : tags[v] = x
     \/ \E m \in main : m.tree = x
     \/ call[t].op = "publish" /\ ~ call[t].lost

Unpack(t) ==
  /\ pc[t] = "unpack" /\ InRepo(t, call[t].tree)
  /\ extracted' = Unpacked(call[t].tree)
  /\ Goto(t, "place")
  /\ UNCHANGED <<repo, tags, main, meta, legacy, override, project, call>> /\ Same

Place(t) ==
  /\ pc[t] = "place"
  /\ extracted' = [extracted EXCEPT ![call[t].tree] = IF @ \in {"none", "partial"} THEN "whole" ELSE @]
  /\ Goto(t, call[t].after)
  /\ UNCHANGED <<repo, tags, main, meta, legacy, override, project, call>> /\ Same

-----------------------------------------------------------------------------
(* publishCard: the manifest is read and validated first, the tree is       *)
(* written from the directory later.                                        *)
StartPublish(t) ==
  /\ Begin(t, "publish", "check")
  /\ Remember(t, [Idle EXCEPT !.op = "publish", !.version = source[t].version])
  /\ UNCHANGED <<store, project, outside, promised>>

(* The repository is made if need be, the tag must be free.                 *)
Check(t) ==
  /\ pc[t] = "check"
  /\ LET v == call[t].version
         last == Highest(Published)
         found == extracted[tags[last]] # "none"
     IN
     /\ repo' = TRUE
     /\ UNCHANGED <<tags, main, meta, legacy, override, extracted, project>> /\ Same
     /\ IF tags[v] # None THEN Return(t)
        ELSE IF Published = {} THEN Goto(t, "write") /\ UNCHANGED call
        ELSE /\ Goto(t, IF found THEN "bump" ELSE "unpack")
             /\ Remember(t, [call[t] EXCEPT !.tree = tags[last], !.last = last, !.after = "bump"])

(* The last version's own manifest must name it; then the new one must be   *)
(* greater, by as much as the diff of the two asks, or the bump is forced.  *)
Bump(t, forced) ==
  /\ pc[t] = "bump"
  /\ LET c == call[t]
         named == extracted[c.tree] # "none" /\ c.tree.version = c.last
     IN
     \/ (~ named \/ ~ forced) /\ Quit(t)
     \/ /\ named /\ forced /\ repo
        /\ override' = override \cup {c.version}
        /\ Goto(t, "write")
        /\ UNCHANGED <<repo, tags, main, meta, legacy, extracted, project, call>> /\ Same
     \/ named /\ ~ forced /\ c.version > c.last /\ Look(t, "write", c)

WriteTree(t) ==
  /\ pc[t] = "write" /\ repo
  /\ Extract(t, source[t], "commit", [call[t] EXCEPT !.tree = source[t], !.lost = FALSE])

(* The directories that the manifest names are looked for in what was       *)
(* extracted; main is read and the commit made.                             *)
ReadParent(t) ==
  /\ pc[t] = "commit"
  /\ \/ repo /\ extracted[call[t].tree] \in {"whole", "forged"}
        /\ Look(t, "head", [call[t] EXCEPT !.parent = main])
     \/ (extracted[call[t].tree] # "whole" \/ <<t, None>> \in late) /\ Quit(t)

UpdateHead(t) ==
  /\ pc[t] = "head" /\ repo /\ ~ call[t].lost
  /\ main' = call[t].parent \cup {[version |-> call[t].version, tree |-> call[t].tree]}
  /\ Goto(t, "tag")
  /\ UNCHANGED <<repo, tags, meta, legacy, override, extracted, project, call>> /\ Same

(* Mutant: git tag -f. *)
ForcedTag(v, x) == [tags EXCEPT ![v] = x]
NewTag(v, x) == IF tags[v] = None THEN [tags EXCEPT ![v] = x] ELSE tags

CreateTag(t) ==
  /\ pc[t] = "tag" /\ repo /\ ~ call[t].lost
  /\ tags' = NewTag(call[t].version, call[t].tree)
  /\ Return(t)
  /\ UNCHANGED <<repo, main, meta, legacy, override, extracted, project>> /\ Same

(* A git command fails when the repository, or what it names, is not there. *)
NoRepository(t) ==
  /\ \/ ~ repo /\ pc[t] \in {"bump", "write", "commit", "setmeta", "config"}
     \/ ~ (repo /\ ~ call[t].lost) /\ pc[t] \in {"head", "tag"}
     \/ pc[t] = "unpack" /\ ~ InRepo(t, call[t].tree)
  /\ Quit(t)

-----------------------------------------------------------------------------
(* deprecateCardVersion: the card is resolved, then refs/meta/cards is      *)
(* read, merged and moved, twice if the config has more than it; then the   *)
(* config is set.                                                           *)
StartDeprecate(t, v) ==
  /\ v \in Published
  /\ Begin(t, "deprecate", "read")
  /\ Remember(t, [Idle EXCEPT !.op = "deprecate", !.version = v])
  /\ UNCHANGED <<store, project, outside, promised>>

ReadMeta(t) ==
  /\ pc[t] = "read"
  /\ Look(t, "setmeta", [call[t] EXCEPT !.parent = meta \cup legacy])

SetMeta(t) ==
  /\ pc[t] = "setmeta" /\ repo
  /\ meta' = call[t].parent \cup {call[t].version}
  /\ Goto(t, "config")
  /\ UNCHANGED <<repo, tags, main, legacy, override, extracted, project, call>> /\ Same

(* Mutant: refs/meta/cards is thought to be enough. *)
NoConfig(v) == legacy
WithConfig(v) == legacy \cup {v}

SetConfig(t) ==
  /\ pc[t] = "config" /\ repo
  /\ legacy' = WithConfig(call[t].version)
  /\ promised' = promised \cup {call[t].version}
  /\ Return(t)
  /\ UNCHANGED <<repo, tags, main, meta, override, extracted, project, outside, events, late>>

(* getCardDeprecation *)
Deprecated(v) == v \in meta \cup legacy

-----------------------------------------------------------------------------
(* git fetch origin: a tag that is there is not moved, main is only moved   *)
(* forward, refs/meta/cards is overwritten (resolveFromGit) or left alone   *)
(* (drwn up, drwn card fetch).                                              *)
Fetch(t, withMeta) ==
  /\ pc[t] = "idle" /\ repo /\ Event
  /\ tags' = [v \in Version |-> IF tags[v] = None THEN remote.tags[v] ELSE tags[v]]
  /\ main' = IF main \subseteq Tagged(remote.tags) THEN Tagged(remote.tags) ELSE main
  /\ meta' = IF withMeta THEN remote.meta ELSE meta
  /\ UNCHANGED <<repo, legacy, override, extracted, project, outside, pc, call, promised, late>>

-----------------------------------------------------------------------------
(* resolveCard and the write of the lock (`drwn apply`, `drwn install`): a  *)
(* version is selected, its tree extracted, the digest of what is there     *)
(* taken for its integrity.                                                 *)
StartResolve(t, v) ==
  /\ v \in Published
  /\ Begin(t, "resolve", "extract")
  /\ Remember(t, [Idle EXCEPT !.op = "resolve", !.version = v, !.tree = tags[v]])
  /\ UNCHANGED <<store, project, outside, promised>>

ExtractResolved(t) ==
  /\ pc[t] = "extract"
  /\ Extract(t, call[t].tree, "digest", call[t])

ReadCard(t) ==
  /\ pc[t] = "digest"
  /\ IF extracted[call[t].tree] = "none"
     THEN Quit(t)
     ELSE Look(t, "lock", [call[t] EXCEPT !.digest = extracted[call[t].tree]])

(* createCardLockfile: the entry's version is its manifest's. *)
Lockable(c) == c.tree.version = c.version

WriteLock(t) ==
  /\ pc[t] = "lock"
  /\ entry' = IF Lockable(call[t]) THEN [tree |-> call[t].tree, digest |-> call[t].digest] ELSE entry
  /\ Return(t)
  /\ UNCHANGED <<store, vendor, sidecar>> /\ Same

-----------------------------------------------------------------------------
(* reconcileVendorTrees, with the lock as it was when the write began.      *)
StartVendor(t) ==
  /\ entry # None
  /\ Begin(t, "vendor", "verify")
  /\ Remember(t, [Idle EXCEPT !.op = "vendor", !.tree = entry.tree, !.digest = entry.digest])
  /\ UNCHANGED <<store, project, outside, promised>>

Verify(t) ==
  /\ pc[t] = "verify"
  /\ LET x == call[t].tree IN
     IF vendor[x] = call[t].digest
     THEN Look(t, "ensure", call[t])
     ELSE IF ~ repo THEN Quit(t)
     ELSE Extract(t, x, "compare", call[t])

(* verifyStoreDirAgainstLock *)
CompareStore(t) ==
  /\ pc[t] = "compare"
  /\ IF extracted[call[t].tree] = call[t].digest
     THEN Look(t, "copy", call[t])
     ELSE Quit(t)

(* A tree that was there and has been repaired meanwhile is left alone.     *)
Copy(t) ==
  /\ pc[t] = "copy"
  /\ LET x == call[t].tree IN
     \/ Look(t, "clear", [call[t] EXCEPT !.copy = extracted[x]])
     \/ vendor[x] = call[t].digest /\ Look(t, "record", call[t])

SetVendor(t, step, next, x, content) ==
  /\ pc[t] = step
  /\ vendor' = [vendor EXCEPT ![x] = content]
  /\ late' = late \cup ((Busy \ {t}) \X {x})
  /\ Goto(t, next)
  /\ UNCHANGED <<store, entry, sidecar, outside, call, events, promised>>

Clear(t) == SetVendor(t, "clear", "rename", call[t].tree, "none")
Rename(t) ==
  /\ pc[t] = "rename" /\ vendor[call[t].tree] = "none"
  /\ SetVendor(t, "rename", "check2", call[t].tree, call[t].copy)
RenameFails(t) == pc[t] = "rename" /\ vendor[call[t].tree] # "none" /\ Quit(t)

(* Mutant: what was copied is not verified again. *)
TrustTheCopy(x, digest) == TRUE
Arrived(x, digest) == vendor[x] = digest

VerifyCopy(t) ==
  /\ pc[t] = "check2"
  /\ IF Arrived(call[t].tree, call[t].digest) THEN Look(t, "record", call[t]) ELSE Quit(t)

SetSidecar(t, step, next, x, digest) ==
  /\ pc[t] = step
  /\ sidecar' = [sidecar EXCEPT ![x] = digest]
  /\ late' = late \cup ((Busy \ {t}) \X {x})
  /\ Goto(t, next)
  /\ Remember(t, [call[t] EXCEPT !.todo = IF next = "prune" /\ step # "unrecord" THEN Tree \ {call[t].tree} ELSE @])
  /\ UNCHANGED <<store, entry, vendor, outside, events, promised>>

(* ensureSidecarForVerifiedVendor *)
Ensure(t) ==
  SetSidecar(t, "ensure", "prune", call[t].tree,
             IF sidecar[call[t].tree] = None THEN call[t].digest ELSE sidecar[call[t].tree])
Record(t) == SetSidecar(t, "record", "prune", call[t].tree, call[t].digest)

(* Mutant: a tree is pruned without a look at what is in it. *)
RecordedOnce(x) == sidecar[x] # None
Prunable(x) == sidecar[x] # None /\ vendor[x] = sidecar[x]

(* pruneVendorTrees: a tree that is not wanted goes if it has a sidecar and *)
(* is as the sidecar says.                                                  *)
Inspect(t, x) ==
  /\ pc[t] = "prune" /\ x \in call[t].todo
  /\ LET c == [call[t] EXCEPT !.todo = @ \ {x}] IN
     IF vendor[x] # "none" /\ Prunable(x)
     THEN /\ Goto(t, "remove") /\ Remember(t, [c EXCEPT !.stale = x])
          /\ late' = late \ {<<t, x>>}
          /\ UNCHANGED <<store, project, outside, events, promised>>
     ELSE Look(t, "prune", c)

RemoveStale(t) == SetVendor(t, "remove", "unrecord", call[t].stale, "none")
DropSidecar(t) == SetSidecar(t, "unrecord", "prune", call[t].stale, None)
EndVendor(t) == pc[t] = "prune" /\ call[t].todo = {} /\ Quit(t)

-----------------------------------------------------------------------------
(* seedStore without --force: the store must be empty when it starts; then  *)
(* a snapshot is staged, the store removed, the snapshot renamed.           *)
Empty == ~ repo /\ \A x \in Tree : extracted[x] = "none"

StartSeed(t) ==
  /\ Empty
  /\ Begin(t, "seed", "wipe")
  /\ Remember(t, [Idle EXCEPT !.op = "seed"])
  /\ UNCHANGED <<store, project, outside, promised>>

Cleared ==
  /\ meta' = {} /\ legacy' = {} /\ override' = {}
  /\ extracted' = [x \in Tree |-> "none"]
  /\ promised' = {}

Wipe(t) ==
  /\ pc[t] = "wipe"
  /\ repo' = FALSE /\ tags' = NoTags /\ main' = {} /\ Cleared
  /\ Goto(t, "seed")
  /\ call' = [u \in Task |-> IF call[u].op = "publish" THEN [call[u] EXCEPT !.lost = TRUE] ELSE call[u]]
  /\ UNCHANGED <<project, outside, events, late>>

(* The rename fails if someone has begun a store there meanwhile. *)
PutSeed(t) ==
  /\ pc[t] = "seed"
  /\ Return(t)
  /\ UNCHANGED <<project, outside, events, late>>
  /\ \/ /\ Empty
        /\ repo' = TRUE /\ tags' = [NoTags EXCEPT ![1] = seed] /\ main' = Tagged(tags') /\ Cleared
     \/ /\ ~ Empty \/ \E u \in Task \ {t} : pc[u] # "idle"
        /\ UNCHANGED <<store, promised>>

-----------------------------------------------------------------------------
(* Processes die; a user edits; another machine publishes. *)
Crash(t) ==
  /\ pc[t] # "idle" /\ Event /\ Return(t)
  /\ UNCHANGED <<store, project, outside, promised, late>>

EditSource(t, x) ==
  /\ x # source[t] /\ x.version >= source[t].version /\ Event
  /\ source' = [source EXCEPT ![t] = x]
  /\ late' = IF t \in Busy THEN late \cup {<<t, None>>} ELSE late
  /\ UNCHANGED <<store, project, seed, remote, pc, call, promised>>

EditExtracted(x) ==
  /\ extracted[x] = "whole" /\ Event
  /\ extracted' = [extracted EXCEPT ![x] = "forged"]
  /\ UNCHANGED <<repo, tags, main, meta, legacy, override, project, outside, pc, call, promised, late>>

EditVendor(x) ==
  /\ vendor[x] \in {"whole", "forged"} /\ Event
  /\ vendor' = [vendor EXCEPT ![x] = "edited"]
  /\ late' = late \cup (Busy \X {x})
  /\ UNCHANGED <<store, entry, sidecar, outside, pc, call, promised>>

RemotePublish(x) ==
  /\ remote.tags[x.version] = None /\ Event
  /\ remote' = [remote EXCEPT !.tags[x.version] = x]
  /\ UNCHANGED <<store, project, seed, source, pc, call, promised, late>>

-----------------------------------------------------------------------------
PublishStep(t) ==
  \/ StartPublish(t) \/ Check(t) \/ WriteTree(t) \/ ReadParent(t) \/ UpdateHead(t) \/ CreateTag(t)
  \/ \E forced \in BOOLEAN : Bump(t, forced)
StoreStep(t) ==
  \/ Unpack(t) \/ Place(t) \/ NoRepository(t)
  \/ ReadMeta(t) \/ SetMeta(t) \/ SetConfig(t)
  \/ StartSeed(t) \/ Wipe(t) \/ PutSeed(t)
  \/ \E v \in Version : StartDeprecate(t, v) \/ StartResolve(t, v)
  \/ \E withMeta \in BOOLEAN : Fetch(t, withMeta)
ProjectStep(t) ==
  \/ ExtractResolved(t) \/ ReadCard(t) \/ WriteLock(t)
  \/ StartVendor(t) \/ Verify(t) \/ CompareStore(t) \/ Copy(t) \/ Clear(t) \/ Rename(t)
  \/ RenameFails(t) \/ VerifyCopy(t) \/ Ensure(t) \/ Record(t)
  \/ RemoveStale(t) \/ DropSidecar(t) \/ EndVendor(t)
  \/ \E x \in Tree : Inspect(t, x)
Environment ==
  \/ \E t \in Task, x \in Tree : EditSource(t, x)
  \/ \E x \in Tree : EditExtracted(x) \/ EditVendor(x) \/ RemotePublish(x)

Next ==
  \/ \E t \in Task : PublishStep(t) \/ StoreStep(t) \/ ProjectStep(t) \/ Crash(t)
  \/ Environment

Spec == Init /\ [][Next]_vars
-----------------------------------------------------------------------------
TypeOK ==
  /\ repo \in BOOLEAN /\ tags \in [Version -> Tree \cup {None}]
  /\ {p.tree : p \in main} \subseteq Tree /\ meta \cup legacy \cup override \subseteq Version
  /\ extracted \in [Tree -> Content] /\ vendor \in [Tree -> Content]
  /\ sidecar \in [Tree -> {None, "whole", "forged", "partial"}]

(* What was ever extracted under the hash of a tree is that tree or what a  *)
(* user made of it: no interrupted or doubled extraction is reused.         *)
ExtractionsAreWhole == \A x \in Tree : extracted[x] \in {"none", "whole", "forged"}

(* A deprecation that was acknowledged is found, though another command or  *)
(* a fetch may have overwritten refs/meta/cards.                            *)
DeprecationsAreKept == \A v \in promised : Deprecated(v)

(* Of a card in the store, at every moment.                                 *)
CardsAreKept == TypeOK /\ ExtractionsAreWhole /\ DeprecationsAreKept

(* card-store.ts:1: "immutable published versions".  Whoever publishes or   *)
(* fetches at the same time, a version keeps its tree until a seed replaces *)
(* the store; and it names a tree whose manifest has its version, unless    *)
(* the source was edited during the publish.                                *)
Wiped == \E t \in Task : pc[t] = "wipe" /\ pc'[t] = "seed"
VersionsKeepTheirTree ==
  [][\A v \in Version :
       /\ tags[v] # None => (tags'[v] = tags[v] \/ Wiped)
       /\ \A t \in Task : (CreateTag(t) /\ tags[v] # tags'[v] /\ <<t, None>> \notin late) => tags'[v].version = v]_vars

(* A write that succeeds leaves the tree that the lock names in the         *)
(* project, as the lock says and recorded; and an edited tree goes only if  *)
(* it is the one to repair, or was edited after it was verified.            *)
WritesVendorTheLock ==
  [][/\ \A t \in Task : EndVendor(t) =>
          \/ vendor[call[t].tree] = call[t].digest /\ sidecar[call[t].tree] # None
          \/ <<t, call[t].tree>> \in late
     /\ \A x \in Tree : vendor[x] = "edited" /\ vendor'[x] # "edited" =>
          \E t \in Task : \/ pc[t] = "clear" /\ call[t].tree = x
                          \/ pc[t] = "remove" /\ call[t].stale = x /\ <<t, x>> \in late]_vars

(* card-store.ts, vendor-reconcile.ts: a published version is immutable, and *)
(* a write leaves the tree of the lock.                                     *)
TreesAreKept == VersionsKeepTheirTree /\ WritesVendorTheLock

(* store-seed.ts:1: "Populates an empty drwn store": the look is before the *)
(* staging, the removal after it.                                           *)
OnlyEmptyIsSeeded == [][Wiped => Published = {}]_vars

(* card-meta.ts:2: "Union-merges deprecations and successor pointers        *)
(* without force-clobber."                                                  *)
MetaOnlyGrows == [][meta \subseteq meta' \/ Wiped]_vars

(* main leads to every published version: it is read, and moved later.      *)
MainHasAll == \A v \in Published : [version |-> v, tree |-> tags[v]] \in main
=============================================================================
