# Verification of darwinian-worker

`drwn` (`cli/`) is a command line program that many processes run at once against shared
files: agents, editors, hooks, CI jobs and people. It installs skills and MCP servers, applies
worker cards to projects, materializes organization workers, talks to a management server
and keeps a credential. There is no daemon and no database. Everything that makes it
correct is a file protocol: an owner-record lock, a write to a temporary file and a rename,
a journal, a tombstone, a receipt. A process can be killed between any two of these, an
error can be thrown from any of them, and another process can run between any two.

This directory models those protocols in TLA+, checks them with TLC on small instances and
proves the central ones with TLAPS for every instance. `PROJECT.json` names, for every
definition that models code, the lines it models, and for every property a mutation of the
model that breaks it.

## 1. Inventory

State is on disk unless said otherwise. "Source" paths are under `cli/core` unless they
begin with another directory.

| component | source | state | operations | what is hard | what makes it correct |
|---|---|---|---|---|---|
| owner-record lock | `owner-lock.ts` | one file per lock: id, PID, host | publish by hard link, inspect, probe, quarantine by rename, verified release | three system calls of one process interleave with another's; dead owners, reused PIDs | one live holder; no live record is probed as dead; release removes the caller's own record; every acquisition ends |
| lock nesting | `inventory-lock.ts`, and all its callers | async-local list of held locks | inventory, machine, project and materialization locks, nested and reentrant | order by path text; reentrancy by memory, not by file | no deadlock; list and files agree; nesting the commands use is permitted |
| project state | `project-state-transaction.ts`, `project-writes.ts` | `config.json`, `card.lock`, journal, transaction directories | commit of both files, single write, recovery, sweep | crash between the two renames, and inside recovery | the pair changes at once; recovery always gets through; one directory at most is left |
| inventory references | `inventory-references.ts`, `project-registry.ts`, `skill-packages.ts`, `project-writes.ts`, `cli/commands/machine/skill.ts` | `projects.json`, project configs, installed packages | register, unregister, prune, include, install, update, uninstall | values read before the lock and used under it | nothing a known project names is removed; the index loses nothing |
| inventory store | `skill-packages.ts`, `mcp-library.ts`, `inventory-tombstones.ts`, `inventory-gc.ts` | version directories, pointer, MCP records, tombstones | commit, uninstall, remove, collect, read | a removal has four effects, a commit three; readers take no lock | a pointer leads to a whole version; payloads stay named; versions are immutable |
| client operations | `management/operation-journal.ts`, `registration.ts`, `deployments.ts`, `retirement.ts`, `context-store.ts`, `private-file.ts` | one journal per operation, project cloud context | find or create a journal, send, verify, read back, commit the context, remove | lost answers, two invocations, a search outside the lock | an intent is applied once; journals and server agree; a retry completes |
| Org Worker materialization | `org-worker-materializer.ts`, its journal, record and receipt modules | journal, receipts, record, config and lock, projection | materialize, reconcile, remove, each resumable | seven phases; four stores; edits by others in between | no second receipt, no evidence without its effect, an interrupted operation finishes |
| stored credential | `auth/*`, `secret-store.ts`, `cli/commands/auth/*` | encrypted file, keychain key; the server's sessions | login, refresh, logout, strict logout | no lock; token rotation at the server; file and key are two stores | the stored token is never older than one stored before; a login repairs everything |
| launch contexts | `worker-launch-context/*` | content-addressed directories, stages, receipts | plan, publish, reuse, prune | sources change between plan and publication; stages and quarantines of the dead | what is returned is whole and of the files that were read; only old contexts go |
| projection (`drwn write`) | `sync*.ts`, `write-record.ts`, `projection-*.ts`, `managed-*.ts`, `materialize.ts`, the generators | files and fields in agent directories, the write record, backups | check, write, remove, save the record; full, partial, forced; project or machine | no lock; ownership against user edits; a write that stops halfway or overlaps another | what the user owns or changed is kept; the record says what is on disk; a partial write touches nothing else |
| write watch | `write-watch.ts`, `write-watch-recursive.ts`, `cli/commands/write.ts`, `cli/commands/dev.ts` | timers and flags in memory, polled files, watchers of linked roots | debounce, trigger, queue, poll, refresh the watchers | edits during a trigger; lost events; its own output | every edit is written in the end |
| card store and vendored cards | `card-store.ts`, `card-meta.ts`, `store-seed.ts`, `vendor*.ts` | a bare git repository per card, extracted trees, deprecations; trees in a project | publish, fetch, extract, deprecate, remove, seed; vendor, verify, reconcile | no lock; every git command is an effect of its own | a version's tree never changes; a lock names a tree that is there; acknowledged deprecations stay |
| cards from git | `card-store.ts`, `url-card-map.ts` | repositories bound to URLs, an unlocked map | resolve, clone, bind, map | the name is known only after the clone; two resolutions at once | a URL leads to what was cloned from it |
| machine settings | `machine-config.ts`, `worker-machine.ts`, `machine-worker-init.ts`, `hook-consent-ack.ts`, `instruction-consent-ack.ts`, `user-preferences.ts`, `cli/commands/init.ts` | `machine.json`, two stores of notices, preferences, a project's first `config.json` | apply, use, trust, untrust for the machine; init; config set; write --root | some writers hold the lock, init and the notices do not; init waits for its user | roots and consents change by choice; nothing from elsewhere takes effect before its user was told |
| worker roots | `worker-project.ts`, `card-project.ts`, `card-lock.ts`, `hook-consent.ts` | requirements, active worker, lock entries, consents | add, use, pin, apply, remove, update, install, off, up, trust, untrust | commands outside the transaction beside those inside it | the lock is that of the requirements; consents are those that were given |
| card sources | `card-source.ts`, `card-source-sync.ts`, `release-pipeline.ts` | `card.json`, files of skills, hooks and servers, a record of the last synchronisation | add, remove, replace, set, sync, publish, release | files change before the manifest; no lock; edits by hand | manifest and files stay one; a version is what its manifest names |
| inventory transfer | `inventory-transfer.ts`, `inventory-bundle.ts`, `inventory-portable.ts` | a bundle, the inventory | export, sync | decided before the lock and again under it; the bundle is replaced meanwhile | a sync installs exactly what it reports |
| management requests and selection | `management/transport.ts`, `workers.ts`, `organizations.ts`, `selector.ts`, `context-store.ts` | nothing; the selected organization, the project's binding | one request with retries and one token refresh; list, use, deploy | an unknown outcome; what was read before the service answered | no request is applied twice; an operation goes to the organization that was verified |
| device flow | `auth/device-flow.ts` | nothing | start, poll, exchange, check | lifetimes, `slow_down`, late answers | no poll too soon, no session without approval |
| staging qualification | `management/phase-a-*.ts`, `staging-community-qualification.ts` | a notice, two receipts, sessions of an adapter | one ceremony | several ceremonies and others in one directory, deaths between two links | receipts come as a pair, of a run that passed; sessions are cleaned up |
| command bridge | `drwn-command-bridge/src` | policy and audit log | decide, ask, execute, record | calls at once, a torn log, children that do not end | no command runs that was not allowed and recorded; every call is answered |

`PROJECT.json` lists the remaining parts (schemas, rendering, catalogs, hooks, analysis,
release scripts) with the reason each is left out.

How they interact:

- Every locked operation goes through `withOwnerLock`. `OwnerLock` shows in which sense it is
  an exclusive lock; `ExclusiveLock` is that sense as an abstract specification, and
  `ProjectStateTransaction` is built on it (`OwnerLock == INSTANCE ExclusiveLock`).
- `commitProjectState` is used by every command that changes a project. `ProjectState` states
  what it promises (a pair replaced at once); `OrgWorkerMaterialization` uses that promise and has
  the commit as one step.
- `InventoryLock` is about which locks a command may nest; `InventoryReferences` and
  `InventoryStore` each assume the outcome, one holder of the inventory lock at a time.
- `Projection` is what `drwn write` does with a resolved configuration; `OrgWorkerMaterialization` sees
  it only as applied, drifted or absent. Its inputs, configuration and lock of the project, change by
  `commitProjectState`; here they are a plan that another command may change between writes.
- `InventoryReferences` sees the store as "which version is installed"; `InventoryStore` is
  what lies under that on disk.

## 2. Modules

`OwnerLock` -> `cli/core/owner-lock.ts`. One action per system call: `Publish` (hard link of the
written claim), `Inspect` (read and parse), `Probe` (host, PID, `kill(pid, 0)`), `Quarantine`
(unconditional rename, back to `Publish`), `Finish`, `Verify` (read back), `Unlink`; `Crash` kills a
process with all its tasks, `Restart` reuses its PID. `evicted` is a history variable: the ids that were
renamed away while their holder lived. `ExclusiveLock` is the abstract lock.

`ProjectStateTransaction` -> `cli/core/project-state-transaction.ts` and the single write of
`project-writes.ts`. A client acquires, recovers (`Recover`, which joins the installing steps at the
phase on disk, in mode "recover"), sweeps, reads the two files one after the other and then writes
one file or commits: directory, two sources, journal, rename, phase, rename, phase, check, unlink of
the journal, removal of the directory. `Throw` releases the lock and leaves the files, `Crash` leaves
both until the lock is taken over. A digest stands for the bytes it was taken of. `ProjectState` is
the abstract pair; `LogicalState` in the detailed module is the refinement mapping: the files, or the
journal's pair while a journal is on disk.

`InventoryLock` -> `cli/core/inventory-lock.ts` and its callers. The order check is
`localeCompare`, with the collation of the Unicode algorithm as ICU's root locale has it: `Weights` gives a root's weights
at each of three levels (letters and signs, accents, capitals), `Before` compares level by level, and what is appended to a
path is appended at each level. The scan sorts roots (`Sorted`; those that collate alike may come in either order), the check
compares the lock paths under them. Not modelled: locales that tailor the levels (capitals first, accents from the end),
and letters that collate as one only when they meet at the end of a root. `Plans` lists the nestings the commands of the repository
use. Acquisition never waits: it is reentrant, out of order, busy or granted, and what fails unwinds.

`InventoryReferences` -> the commands that create, remove or need references. `Start*` is what a command
reads before it asks for the lock; the steps after are one file access each. Projects leave and come
back (a moved checkout), and a user edits configs by hand.

`InventoryStore` -> the same packages on disk, with MCP records, tombstones and the garbage collection.
`Place`/`Point` are the two renames of a commit, `Mark`/`Move`/`Empty`/`Unmark` the four effects of a
removal, `Recover`/`SweepTemp`/`SweepVersion` what the collection does about leftovers.

`ClientOperation` -> registration, deployment and retirement over one operation journal. `List`/`Load` is
the unlocked search, `Create`/`Advance`/`Publish` the journal writes, `Succeed`/`Indeterminate`/`Refuse`
the server's answers, then `Readback`, `CheckContext`, `CommitContext`, `Remove`. The server is external: it
applies an operation id at most once, possibly without the client hearing of it.

`OrgWorkerMaterialization` -> the phases of materialize, reconcile and remove: `Begin` journals,
`Commit` replaces config and lock, `Sync` writes trees and instructions, `ReadBack` verifies, `Draft`/`Link`/`Clean`
persist a receipt, then the record, `MarkDurable`, `Complete`, `Forget`. `Start` is the
decision an invocation makes from journal, record and receipts on disk, including every refusal.

`StoredCredential` -> login, refresh, logout and strict logout. `LoadKey`, `StoreKey`, `Install` are the steps
of `encryptToDisk`, `Unlink` and `DeleteKey` of `clear`. The server is external: one refresh token per
session is honoured, and every refresh replaces it. (With a server that does not rotate tokens a refresh
returns the same generation; the model does not cover that.)

`Projection` -> `syncRepository`. An item is what is owned: a path, or one field of a shared file; its
kind (`content`, `guarded`, `directory`, `server`, `codex`, `block`) says which of the code's checks, ways
of writing and ways of removing apply. `Begin` reads the plan, `Verify`/`Refuse` are
`assertMachineProjectionPreflight` and `verifyManagedPaths`, then the items are visited in order:
`Pass`, or `Displace` (rename to a backup, or removal of the directory) and `Place` (rename of the
new one), or `Fail` where the code throws in the middle of a write. `Diff` and `CleanUp` are `diffWriteRecord` and
`cleanupRemovedManagedPaths`, `Save` and `Rename` the two halves of `saveWriteRecord`. `touched` and `torn` are history
variables: what the user changed since a write settled it, and whether a write ever died, failed or
overlapped another. Fields of one file are separate items: that a rename of the file moves all of
them, so that a crash inside it takes the neighbours along into the backup, is not in the model.

`LaunchContext` -> `worker-launch-context/`. A prepare reads config, lock and sources (`snapshot.ts`), plans, and
publishes: lock of the id, stage, copy, marker, comparison of the sources, rename, release (`store.ts`);
a prune lists, takes a cutoff, locks, renames to a quarantine and removes. Commits, writes, edits of a skill, upgrades,
and users who touch a context are steps in between. A directory is a record of what is in it; its id is what it was
made from. The four files that a reading of the sources starts to read together (`Promise.all`) are read in one step: they are compared with a
second reading later, and what a torn pair may lead to is among the steps anyway. The project begins in step, possibly with one whole context.

`CardStore` -> `card-store.ts`, `card-meta.ts`, `store-seed.ts`, `vendor.ts`, `vendor-reconcile.ts`. One card: every git
command (`WriteTree`, `CommitTree`, `UpdateRef`, `CreateTag`, ...) and every renaming is a step; a remote and another
machine's publication are external. `CardBinding` -> `resolveFromGit` and `url-card-map.ts`: which repository
stands for which URL.

`WorkerRoots` -> `worker-project.ts`, `card-project.ts`, the parts of `card-lock.ts` and `hook-consent.ts` they call. The
commands that replace config and lock in one transaction (`Commit`, with the two renames visible), and `up`, `trust`
and `untrust`, which read both and write the lock alone. A version range is the set of versions it admits.

`MachineSettings` -> `worker-machine.ts`, `machine-config.ts`, `machine-worker-init.ts`, the two stores of notices and
`user-preferences.ts`. `Enter`/`Read`/`Commit` is a change under the lock, `Enter`/`Read`/`Verify`/`CommitConsent` one of a consent, which
reads the file twice and puts the entry of the second reading (`Consented`) into the lock of the first (`Placed`); an init is `Check`, `Look`, `Answer`, `Decline`
or the change, `Scaffold`/`Open`/`Fill`, `Register`; a write is `Preflight`, per notice `Notice`/`Load`/`Save`/`Saved`, `Project`.
Three cards: the recommended blueprint (an exact release), another one, and a member of both.

`CardSource` -> `card-source.ts`, `card-source-sync.ts`, `release-pipeline.ts` and `publishCard`. A command reads the
manifest (`Read`), decides (`Decide`), changes files (`Clear`, `StartCopy`/`EndCopy`, `Put`) and writes the manifest it had
read with its change (`WriteCard`); publication and release read the source step by step (`Manifest`, `Check`, `Tree`,
`Tag`). A hook stands for what is made from a template (hooks, personas, beliefs).

`InventoryTransfer` -> `inventory-transfer.ts`, `inventory-bundle.ts`. Export reads the inventory entry by entry without
its lock and publishes a bundle; sync extracts, decides, takes the lock, decides again, installs one by one.

`ManagementRequest` -> `management/transport.ts`: credential, send, answers by class, retries, the one refresh.
`CloudSelection` -> `organizations.ts`, `workers.ts`, `selector.ts`, `context-store.ts`: what a command read before it
waited for the service and writes afterwards. A deployment (and `worker status`, which ends after the same reads) reads the
selection (`Load`) and then the project (`Choose`); `offered` is a history of what the project was bound to in between. `DeviceFlow` -> `auth/device-flow.ts`, with a clock that only the
command's waits move. `StagingCeremony` -> `management/phase-a-*.ts`: temporary names, links, inode checks and unlinks
of the notice and the two receipts, and the checks at the adapter. What a failed ceremony takes back (`UndoCheck`, `UndoUnlink`,
`UndoTemp`) may fail call by call; such an error is swallowed, as in the code, and `stuck` and `strays` are a history of what it was about.

`WriteWatch` -> `write-watch.ts` and the commands around it: steps are those between awaits of one event loop.
`CommandBridge` -> `drwn-command-bridge/src`: policy, consent, audit, child process and the handler. A spawn
that fails is an outcome (`Spawn`), one that throws leaves an attempt without one (`SpawnThrows`).

Composition. `MCLocks`, `MCProject`, `MCInventory`, `MCOverlap`, `MCRetries`, `MCCloud`, `MCProjection` and `MCLongRunning` each put parts
of the program that share no state into one run: a variable that never changes says which part a behaviour is about, the
other parts rest in one of their initial states. Such a run checks each part completely; its number of states is the
sum of the parts'. `MCClientOperation`, `MCInventoryReferences`, `MCOrgWorkerMaterialization`, `MCOwnerLock`
and `MCCommandBridge` give constants of a single module their values.

Definitions introduced by "Mutant" comments are wrong variants of the definition that follows them;
nothing uses them but the mutants of `PROJECT.json`.

## 3. Runs

Every run ends in about three minutes with two workers. Counts are distinct states.

| run | question | instance | states |
|---|---|---|---|
| `locks` (MCLocks) | In what sense is the owner lock exclusive, and does every acquisition end? Can commands that nest locks deadlock or leave one behind, and which nestings are refused? | owner lock: four tasks, two in one process, one in another, one on another machine; 3 calls, 1 crash, PID reuse (58,548). Nesting: 2 commands, roots `/A`, `/à`, `/a-b`, which differ at one level each, every plan (46,199) | 104,747 |
| `owner_lock_exclusive` | Is the owner lock exclusive without qualification? (no: finding 1) | the same tasks | stops at the violation |
| `project_state` (MCProject) | Do the two files behave as one value, and does recovery always get through? Is the lock that of the requirements, and are consents those users gave? Does a card's source stay whole? | files: 2 clients, 2 contents, 2 transaction ids, 3 faults (151,738). Roots: 2 commands that overlap, 2 cards, one a blueprint that composes the other, 2 versions, 1 stop (about 169,000). Source: 2 commands, 3 entries, 2 revisions, 3 acts (about 62,000) | 383,197 |
| `inventory` (MCInventory) | Does the registry lose anything, can references be taken away, what does an interruption leave on disk, and does a sync install what it says? | references: 2 processes, 2 commands, 2 projects that come and go, 2 packages that export one skill (about 286,000). Store: 2 processes, 2 versions, 2 contents, 1 record, 2 faults (about 320,000). Transfer: 2 packages, 2 servers, 3 bundles, 1 edit, 1 fault (about 52,000) | 658,271 |
| `overlapping_commands` (MCOverlap) | What do two commands do to each other at the journals, the launch contexts, the cards and the selection? | operations: 2 ids, 2 faults (177,409). Launch: 3 events, 1 tick. Card: 2 versions, 3 events. Binding: 2 URLs, 2 names, 6 events. Selection: 2 profiles, 2 organizations, 1 move (about 201,000) | 907,191 |
| `retries` (MCRetries) | Does what was interrupted finish when it is asked for again, and once? | operations: 1 invocation at a time, 3 ids, 4 faults (119,506). Org Worker: 3 operation ids, 4 faults, 2 edits by others (126,310) | 245,816 |
| `org_worker_record` | Can a receipt always be followed by its record? (no: finding 2) | the same | stops at the violation |
| `projection` (MCProjection) | Does `drwn write` keep what is the user's, and does its record stay true? Do roots, consents and notices of a machine change by choice only? | 2 processes, 3 writes, 6 items (one of each kind), 2 plans and a change between them, 1 edit, overlap or crash; full and `--mcp-only`, forced or not, project and machine (459,169). Settings: 2 commands of 16, 1 release, edit, copied file or death (about 280,000) | 739,358 |
| `credential` (MCCloud) | What do overlapping and interrupted auth commands do to the credential? Does a login keep to the protocol, a request apply once, and what may a failed ceremony leave? | custody: 3 commands of 4 kinds, each may stop anywhere. Device flow: lifetime 6, intervals up to 2. Request: 3 attempts. Ceremony: two at once, 2 checks, 1 act of others, 2 faults, so that what fails may fail again while it is taken back (about 155,600) | 335,625 |
| `long_running` (MCLongRunning) | Does every edit reach a write while a watch runs? Does the bridge run only what it announced, and answer? | watch: 2 roots, 1 edit, lost events (about 86,000). Bridge: 2 calls, 1 fault (about 176,000) | 262,027 |
| `watch_settles` | Does the watch come to rest when nobody edits? (no: finding 3) | no edits | stops at the violation |
| `bridge_audit` | Does the log of an undisturbed server verify? (no: finding 4) | 2 calls, no fault | stops at the violation |

Why the bounds are enough to be interesting. Two actors suffice for nearly every race in this code, because
each is between one reader and one writer of one file; where a third matters (the owner lock: a dead
owner and two contenders; the credential: an earlier session, a login and a refresh) there is a third.
Faults are counted, not placed: with three faults TLC tries a crash, a crash inside the recovery
from it, and one more, at every step. Two contents tell "old", "new" and "mixed" apart. Ids are
reused where the code may draw the same one again, and bounded where it may not (`MaxCalls`, `Op`).
In `projection` one edit, overlap or crash is enough for each exception the properties
name; the three writes are what made the record, what goes wrong, and what comes after it. Two commands in
the references are enough because projects may start with references, so that the installation and the inclusion that
would come first need no command. `MaxRev` = 2 in the sources is the old and the new content; three acts are an addition,
a second command or an edit, and a publication, and one that overlaps counts twice.
Larger instances were checked once: roots with three calls (2,457,996 states), sources where an overlapping act counts once (502,806) and five acts of one author (931,600).
Every bound is a constant of its module marked "bound"; `SYMMETRY` is used only in runs
without liveness properties.

`CHECK_DEADLOCK FALSE` is set where behaviours really end: no calls left, all ids, faults or edits used up, or a
refusal that never goes away, which is part of what those runs are about.

Fairness. Liveness assumes weak fairness of the steps a live process takes by itself: node's event loop runs whatever
can run, and no step waits for another task (locks are never waited for). Nothing makes anybody call, crash,
restart or edit. For `ClientOperation` and `OrgWorkerMaterialization` an interrupted operation is asked for again
(strong fairness of the retry, weak of the resumption), which is what their properties are about, not something the code
promises. In the watch its timer, its trigger, its polls and the delivery of events are fair; with `Lossy` the delivery of
the events of its own output is not, since the system may drop them. In the bridge a call's steps are fair, and a
dialog ends by its timeout. In the device flow the command and the clock, in a request its steps are fair; of the
ceremonies some step of some one is taken while there is one.

The properties, by hazard:

- *Owner lock and nesting.* `ImplementsLockUntilEviction`: up to the first rename of a live record the file protocol
  implements `ExclusiveLock`. `ProbedOwnerIsGone`: no live holder's record is ever probed as dead, PID reuse
  included. `ReleaseIsHonest`: a release takes away the caller's own record, or the caller is told.
  `CallsNestSafely`: files and lists agree, refusals are for roots that begin with one another up to accents and capitals. `LockCallsEnd`: acquisitions and nested calls end.
- *Project.* `ImplementsProjectState` (refinement), `CrashesAreRecoverable` (a true journal, one directory at most),
  `RecoverySucceeds` (liveness). `RootsAreConsistent`: consents are given by a user for that range and stay withdrawn
  (`ConsentIsGiven`, `ConsentStaysWithdrawn`), and the lock is that of the requirements unless the command outside the
  transaction overlapped (`RootsAreLocked`). `SourceIsHonest`: manifest and files agree after commands that did not
  overlap (`StaysWhole`), an entry that was added stays (`AddedStays`), an addition spares what was there (`AddSpares`), a
  version is what the manifest read for it names (`PublishedIsWhole`), a release is what its doctor accepted and the
  upstream's (`ReleasedIsHealthy`), `card.json` can be read (`StaysReadable`).
- *Inventory.* `NoRegistrationIsLost` (until a prune), `CheckedReferencesHold` (what was scanned for is not taken away, what
  is included is installed, a skill has two owners only by a stale update), `StoreIsWhole`, `VersionsAreImmutable`,
  `TransfersAreExact`.
- *Overlapping commands.* `JournalCoversTheServer`, `PhasesOnlyAdvance`; `ContextsAreWhole` (names, contents, leftovers),
  `CallsAreHonest` (plans are of one pair, what is answered is usable, refusals have causes, only old contexts go);
  `CardsAreKept`, `TreesAreKept` (`VersionsKeepTheirTree` and `WritesVendorTheLock`); `ResolvesToItsUrl` (names are bound once, collisions have
  causes, nothing is overwritten); `TargetsAreTheCallers`: bindings are verified, a target is of the organization that was
  read and, without an id, one the project was bound to for it since that read (`BoundForTheProfile`), and a selection changes
  by a command of its own profile.
- *Retries.* `RetriesAreHarmless` (one application per intent, no retired worker), `MaterializationIsHonest` (receipts,
  record and journal claim no more than is on disk, one receipt per operation), `InterruptedWorkFinishes` (with named
  exceptions, each a divergence below).
- *Projection.* `WritesSpareTheRest` (what is foreign or changed is kept, a partial write touches nothing else),
  `CompletedWriteIsExact`, `RecordMatchesDisk`, `RefusalIsExplained`.
- *Machine settings.* `SettingsAreHonest`: roots leave by a command that replaces them (`RootsLeaveByChoice`), consents are a
  user's and admit the version (`ConsentIsGiven`), given to verified content of the active Worker (`ConsentIsInformed`),
  told before they take effect (`NoticesAreGiven`, `NoticesAreKept`); `PreferencesAreKept`, `InitSparesProjects`.
- *Cloud.* `StaleTokenIsExplained`, `GenerationNeverFalls`, `SequentialCustodyIsReadable`, `CloudIsHonest` (polls and requests
  keep to the protocol), `CeremonyIsFailClosed` (success is earned, the adapter is cleaned up, and a failed
  ceremony leaves of its own only what an error of the very call that was to remove it kept there: `NothingIsLeft`), `CloudCommandsEnd`.
- *Long-running.* `AuditedAndTyped`, `CallsAreAnswered`, `EditsAreWritten`.

## 4. Proofs

`tlapm` checks these for every value of the constants that satisfies the named assumptions.

- `OwnerLockProofs`: `TypeCorrect`, `Exclusion`, `ProbeIsSound`, `HonestRelease` and `Refinement`, from
  `LockAssumption`. The inductive invariant adds to the types that dead tasks are idle, that ids of
  records are fresh and never ahead of the counter (`IdsAreFresh`, `RecordsAreDated`), and that a holder that was
  not evicted owns the path. The last two are why PID reuse is harmless: a record is recognized
  by its id, and an id is never drawn twice.
  Its second half is about the nesting of locks: `NestingStaysSafe`, `DistinctProjectsArePermitted`, from `PathAssumption`, for any roots, any weights and any
  number of commands. The lemmas show that the order at one level (`Precedes`) is strict and total, by the
  least position at which two texts differ, and so is `Before` up to roots that collate alike; that a common suffix keeps
  the order of the letters unless one root's begin the other's (`SuffixesKeepOrder`), which
  is why `/A` and `/a-b` are refused in an order that two unrelated roots are not; that it keeps the order of accents and
  capitals in any case, because a suffix without either has the least weights (`LeastSuffixKeepsOrder`); and that therefore
  every plan asks for its locks upwards (`PlansAreOrderly`). The invariant `Nests` says that
  a call holds what its plan has asked for so far, the last request innermost.
- `ProjectStateProofs`: `TypeCorrect`, `JournalIsTrusted`, `NoDebris`, `RecoverableAfterCrashes` and `Refinement`, from `TransactionAssumption`.
  The strengthening is `LockMatchesSteps` (whoever is past the lock holds it, so one client is under way)
  and `StepsAreDated` (what each step knows of journal, directory and files). The refinement
  is by cases over the actions: only the journal write and the single write change the logical pair, and a
  crash inside recovery never does.
  Its second part is `RootsStayConsistent`, from `RootsAssumption`, for any cards, versions, ranges and calls, of the composition
  `ProjectSpec`. `RootsInv` says that whatever is kept of the two files is as whole as the files themselves: the lock, the one
  a transaction has journaled and the one any command has read are `Sealed` (each consent was given to that card and
  covers the version), what is journaled fits together (`Journaled`), and so do the files while nothing is journaled and nothing
  was clobbered (`Matched`); `Told` says what each step of a command has read. The attempt found a defect of the
  model: `up` reads the requirements some steps before the lock, so with enough commands in between the lock can be
  as it was read while the requirements are not, and what it then writes was not counted as written over what it had not read.
  Its third part is `SourceStaysHonest`, from `SourceAssumption`, for any commands, revisions and versions, of `ProjectSpec` too.
  The commands take no lock, so the argument is that until two overlap whoever is at work is alone. `SourceInv` says what a
  command carries at each step whoever else is at work (`Carries`: a manifest that was whole and valid when it was read) and,
  while nothing has overlapped, that what it read is so still (`Undisturbed`), that of the entries only the one it is replacing
  (`Busy`) may be missing from the manifest or the files (`Unbroken`), and that all the others agree (`Proper`). A removal that
  is refused is the exception inside `Fine`: the files of a skill that is tracked upstream are gone and its name stays.
- `ClientOperationProofs`: `SpecTypeOK`, `ServerAndJournalsAgree`, `PhasesNeverGoBack`, from
  `OperationAssumption` and `PhaseAssumption`, for any number of invocations, lost answers and crashes; and `RetryingIsHarmless`, with the
  hypothesis that there is one task (`Task = {me}`), which is what the run `retries` instantiates: one invocation at
  a time, crashing and repeated at will. Its strengthening `SInv` adds that no two
  journals are of one intent (`OneJournal`) and that what the search listed, the readback saw and the context says
  is still so at the step that relies on it (`Alone`). With two tasks it is false: two searches may both find no journal of the intent.
  `MaterializationStaysHonest`, of `RetriesSpec` and from `MaterializationAssumption`, for any operations, faults and edits by
  others: the evidence is not inductive by itself. `WorkerInv` adds `RunIsSound`, what a run under way may rely on (no receipt
  before the link and one after it, its own journal, the record once written), `JournalIsSound`, the same of a
  journal left behind, from which any later invocation resumes, and `WorkStays`, that what was done to the project
  stays done until somebody edits it.
- `StoredCredentialProofs`: `TypeCorrect`, `ForwardOnly`, `StaleOnlyWithCause`, `ReadableInSequence`, from
  `CredentialAssumption` and `AbsenceAssumption`. The strengthening says who can carry which generation: of the newest
  generation of a session there is at most one carrier, and what anybody holds is not ahead of the server. For the
  last of them `Alone` adds, as long as no command has overlapped another, that the key a command encrypts under is
  the keychain's and that a key is deleted only after the file. `CloudStaysHonest`, of `CloudSpec` and with
  `FlowAssumption` and `RequestAssumption`, for any lifetimes, intervals, delays and number of polls: `FlowInv` relates the time at
  which a login wakes to the interval it was last asked for and says that a session is that of an approved
  code; `RequestInv` bounds the sends of a request by its retries and its refresh, and says that a bearer that was
  turned down is replaced or given up. `CeremonyStaysFailClosed`, of `CloudSpec` and from `CeremonyAssumption`, for any ceremonies,
  number of checks, other writers, errors and deaths: `CeremonyInv` says for each step of a ceremony which places it
  may own (`Owning`), that what it will unlink is its own unless others removed a file there (`Unlinking`, where `freed`
  is the exception), that what is still there at the end is what it gave up on after an error (`stuck`, `strays`), and what the adapter still holds for it and whether it was asked to clean up (`Cleaning`).
- `InventoryReferencesProofs`: `TypeCorrect`, `RegistrationsAreKept`, `ReferencesHold` and its four parts
  (`ScansAreHeeded`, `InclusionsAreInstalled`, `UnregistrationsAreSafe`, `CollisionsNeedStaleRecords`), from
  `ReferencesAssumption`. The invariant is `Knows`: what a command has found out under the lock and not yet
  acted on (the index it read, the projects still to scan, the names that do not collide) is still
  so. It holds because the holder of the lock is the only writer, with two exceptions that it names: a prune that has
  rewritten the index outside the lock (`rewritten`), and users, whose edits in the model only take references away.
  Its second part is about the store, `StoreStaysWhole` and `StoredVersionsStay`, from `StoreAssumption`, for any packages,
  versions, processes, crashes and errors. `StoreIsWhole` alone is not inductive: a rename is safe because of what its process has
  made sure of before. `Knows` says that for the commit, the write of a record, the removal and the collection;
  `HalfDoneIsOwned` says that before the first fault whatever is half done belongs to a process at work, hence that
  debris needs a fault; `ContentsHaveRoot` that a version is under a package root.
  Its third part is `TransfersStayExact`, from `TransferAssumption`, for any inventories and bundles: `TransferInv` says that the holder of the
  lock has accepted a report without conflicts (`Agreed`), and that under it each entry of the bundle is installed
  as the bundle has it or is one of those still missing, and the extras are those of the report (`Installing`).
- `OverlapProofs`: six properties of the composition `OverlapSpec`, for any number of commands at each place.
  `TargetsStayTheCallers`, from `SelectionAssumption`: `CloudInv` says what a command found out before it asked (`Knows`), and that what a command will find in the project, or has
  chosen from it, was offered to it since it read its organization (`Offered`).
  `UrlsResolveToTheirOwn`, from `BindingAssumption`: `BindingInv` says that a clone without a binding is claimed
  by the call that made it or is doomed (`ClonesAreClaimed`), that no two calls claim one (`OneOwner`), and that what a
  call relies on is a clone of its URL (`Found`). The attempt found a defect of the model: a call that had found a
  repository and had still to read its card was not counted among those that another's clean-up disturbs (`Relies`), which two
  more interruptions make visible to TLC, so `MaxBindingEvents` is now 6. `CardStaysKept` and `TreesStayKept`, from
  `CardAssumption`: `CardInv` says what a publish, a resolution, a write and a prune know at each step, either for certain
  or unless another changed the source or that very tree meanwhile (`late`), which is how each of them is excused.
  `ContextsStayWhole` and `LaunchesStayHonest`, from `LaunchAssumption`: `ContextInv` says who holds the lock of an id, what
  the stage of a call contains at each of its steps (`Written`), and that until a process dies every stage and
  quarantine is claimed by the holder of its lock (`Claims`), hence that a rename puts a complete tree at a free
  place. `HonestInv` adds what a call that nothing disturbed still knows of the files, the source and the contexts it
  listed (`Undisturbed`), and which pairs of files there were while it planned (`Saw`), from which every refusal has its
  cause. The two parts are separate: wholeness needs no assumption on what disturbs a call.
- `LongRunningProofs`: `BridgeIsAudited` and `LongRunningIsAudited`, from `BridgeAssumption` and `WatchAssumption`, for any commands, rules,
  calls, deaths and failed appends. `BridgeInv` says for each step of a call what those before it have made sure of (`Follows`: announced,
  permitted, consented, and how a call ends fits what became of it). What is logged stays logged, or a torn line has made the
  log unreadable and every later call is refused. `AppendsInTurn` says that until two appends overlap, the one under way has
  read the last record, which is why the chain breaks in no other way, by a crash for one.
- `ProjectionProofs`: `RecordIsRight` (the record agrees with the disk at every item the user left alone), `OthersAreSpared`,
  `CompletionIsExact` and `RefusalsAreExplained`, from `ProjectionAssumption`, for any items, plans, processes and bounds. `ProjectionInv`
  says for each step of a write what it knows (`Knows`): what the check that came first has ruled out (`Ruled`), and at each item whether
  it is as it was read, as planned, removed with its replacement outstanding, or recorded (`ExactAt` for a write that
  nothing mixed with, `TrackedAt` for what the user left alone). `OneAtATime`, `TempIsItsOwn` and `Rest` say how far this
  carries over from one write to the next: until two overlap or one dies, there is one, and between writes record and
  disk agree. `NumbersAreNew` is why a change that the user made after the check is told from what was read.
  Its second part is `SettingsStayHonest`, from `SettingsAssumption`, for any commands. `Carries` says what a command has
  from its reading to its write: a machine.json that commands write (`Proper`), which is the one there but for an edit by hand or an init
  that declined in between (`Unaltered`), whose consents were given (`Granted`) and, before a consent, whose content
  verified (`Informed`) and the entry to be written was made of the one it read (`Aimed`); the lock makes this last while others run (`Calm`). `Undisturbed` and `Recorded` say what only holds until two commands overlap:
  notices told are in their store, or being put there. The attempt found an exception that the property lacked and one
  act by others could not show: a machine.json copied by hand between a command's reading and its verification is what
  is verified, and the entry found there goes into what was read first.

What is proved of `InventoryStore`, `CardStore`, `CardBinding`, `CloudSelection`, `LaunchContext`, `InventoryLock` and
`OrgWorkerMaterialization` is of the compositions that TLC runs: `StoreStaysWhole` and `StoredVersionsStay` (of
`InventorySpec`, in `InventoryReferencesProofs`), the six of `OverlapProofs`, `NestingStaysSafe` (of `LocksSpec`, in `OwnerLockProofs`), `MaterializationStaysHonest` (of `RetriesSpec`, in
`ClientOperationProofs`). Each shows that the composition implements the part's `Spec`, the other parts' steps being
stutters of it (`CardIsAPart`, `BindingIsAPart`, `CloudIsAPart`, ...), and cites what is proved of the part; the part's
assumption is the composition's own, which TLC evaluates for the run's values. This is why those modules extend the
composition.

Every strengthening was, in its first form, an invariant of a TLC run before it was proved (`InventoryStore` with 1.2, `InventoryReferences` with
1.4 million states, the settings with 1.8, those of `OverlapProofs` with 0.8, `Projection` with 0.5, `CommandBridge` and launch contexts with 0.2). The assumptions on the constants (`StoreAssumption`, `PathAssumption`,
`MaterializationAssumption`, `CeremonyAssumption`, `RootsAssumption`, `SourceAssumption`, `SettingsAssumption`, `BindingAssumption`, `CardAssumption`, `SelectionAssumption`, `LaunchAssumption`, `ProjectionAssumption`, `BridgeAssumption`) say that `None`, `Nobody` and the
texts are apart from what they are compared with, that the age and the bounds of `LaunchContext` are natural numbers,
and that weights are, none below that of a small letter without accent.

Every invariant and every action property that a run checks is stated by a theorem. Only model-checked, and out of the
prover's reach, are liveness under fairness (`LockCallsEnd`, `RecoverySucceeds`, `InterruptedWorkFinishes`, `CloudCommandsEnd`,
`CallsAreAnswered`, `EditsAreWritten`), anything about `ENABLED`, and what a definition computes by
induction over data. The type invariants of `OwnerLock`, `ProjectStateTransaction`, `ClientOperation` and `StoredCredential`
are only proved.

## 5. Where code and text disagree

Four are runs of their own.

1. `owner_lock_exclusive`, `MutualExclusion`. `owner-lock.ts:1` says the module "Provides exclusive owner-record
   locks with conservative stale-owner recovery." Two contenders read the record of a dead process. The first
   renames it away and publishes its own; the second then renames whatever the path holds
   (line 141), which is the first one's live record, and publishes too.
2. `org_worker_record`, `ReceiptCanBeRecorded`. A reconciliation or second materialization that stops between
   its receipt and its record finds the record of the earlier operation, which is not the expected one, and is refused
   with DRIFT from then on (`org-worker-materializer.ts:803`), while
   `test/core-org-worker-materializer.test.ts:320` says it "recovers crashes after receipt and record durability
   boundaries without duplicating evidence".

3. `watch_settles`, `WatchSettles`. `.ai/tasks/68_drwn-card-model-unified-sequential-plan.md:204` says that generated
   outputs are not watched "to avoid self-trigger loops". Every write renames its record, by a temporary file, in the
   directory that is watched: the watch triggers itself for good.
4. `bridge_audit`, `AuditChainIsWhole`. `drwn-command-bridge/README.md:35` says "Each JSONL record is hash chained". Two
   calls at once read the same last record, and both append after it: the log no longer verifies.

The models state more that the code does not keep. Each is a definition of its module; adding it to the
module's cfg (or, for a module that an MC module instantiates, its instance there) shows the behaviour.

| definition (module, cfg) | what happens | what the repository says |
|---|---|---|
| `SortedProjectsArePermitted` (InventoryLock) | roots are sorted as roots and compared as lock paths; with `/a` (or `/A`) and `/a-b` registered every uninstall or update is refused as out of order | `test/core-inventory-lock.test.ts:36`: "permits inventory to machine to sorted projects" |
| `KnownReferencesAreKept` (InventoryReferences) | uninstall scans for the ids it read before the lock; an update and `add skill` in between make a project name another one | `test/scenarios-inventory-reference-races.test.ts:2`: "project intent cannot race into missing standalone inventory" |
| `PruneRemovesOnlyStale` (InventoryReferences) | prune writes the index outside the lock and drops a project registered since its read | `project-registry.ts:209`: "Removes registered project roots whose `.agents/drwn/config.json` no longer exists." |
| `SkillHasOnePackage` (InventoryReferences) | records read before the lock come first in the collision check, so an update may take a name another package owns by now | `test/core-skill-packages.test.ts:386`: "rejects other collisions" |
| `TombstonesAreRecoverable` (InventoryStore) | after an interrupted removal the same item may be installed again; original and payload then both exist and every plan and prune is refused | `test/core-inventory-gc.test.ts:143`: "valid interrupted tombstones are planned and recovered" |
| `LibraryIsReadable` (InventoryStore) | a temporary file among the records makes `loadMcpLibrary` throw, so one writer makes every reader fail | `docs/cli-quickref.md:712`: "live as record-level atomic files" |
| `RetryNeverDuplicates` with two tasks (ClientOperation, part of `RetriesAreHarmless`) | the search for a journal is outside the lock of its creation; two invocations register two workers | `management/operation-journal.ts:2`: "one fingerprint may resume at most one operation" |
| `RetainedIsResumable` (ClientOperation) | a crash in `writePrivateFile` leaves a temporary file that every later search refuses | `management/operation-journal.ts:1`: "Persists resumable non-secret management mutation bytes" |
| `CommittedCanFinish` (ClientOperation) | a retained `context_committed` journal whose context was written by another operation since is refused for good | `test/core-management-registration.test.ts:196`: "resumes safely after an injected ${checkpoint} crash" |
| `CompletedIsCleared` (OrgWorker) | a journal marked completed but not removed is refused as drift or in progress; no command clears it | `docs/cli-quickref.md:1010`: "A retained journal resumes the same" operation |
| `ReceiptsStayReadable` (OrgWorker) | the draft of a receipt outlives a crash and every later search for receipts refuses the directory | `docs/contracts/project-worker-v1.md:213`: "A retained operation journal resumes the same" |
| `StrictDeletesRevoked` (StoredCredential) | strict logout deletes whatever file is there after it revoked the credential it had read; a login in between loses its credential, still honoured | `logout.md:27`: "deletes local custody only after a confirmed 2xx remote revoke" |
| `RemovalDeletesOnlyUnchanged` (Projection) | with `--force` an item that is no longer planned is removed although the user changed it, a file or directory without a backup; `test/scenarios-cleanup.test.ts` expects it | `docs/cli-quickref.md:122`: "Removal deletes only unchanged prior-owned bytes" |
| `UserContentSurvives` without its exceptions (Projection) | in a project `materializeDir` removes a directory that nobody recorded, or what the user put in the place of a recorded one, without a backup and without `--force` | `materialize.ts:24`: "drift safety is enforced separately by verifyManagedPaths" |
| `RefusalIsExplained` without `torn` (Projection) | after a write that died before its record, its instructions block or its machine files are nobody's, and every later write is refused, also with `--force` | `README.md:134`: "Machine writes claim only paths or MCP fields they create and record" |
| `OnlyLoginEstablishesCustody` (StoredCredential) | a refresh that overlaps a logout stores its result afterwards and signs the user in again | `refresh.md:21`: "Missing custody reports `CREDENTIAL_ABSENT`" |
| `QuietCustodyIsReadable` (StoredCredential) | two first logins each store a key; the file may be under the one that lost | `login.md:49`: "encrypted inside a credential-scope-bound envelope v2" |
| `MainHasAll` (CardStore) | main is read, and moved later: of two publications at once one is no longer reached from it | `card-store.ts:1`: "immutable published versions" |
| `MetaOnlyGrows` (CardStore) | deprecations are read, merged and written without a lock: of two at once one is lost | `card-meta.ts:2`: "Union-merges deprecations and successor pointers without force-clobber." |
| `OnlyEmptyIsSeeded` (CardStore) | the store is found empty, the archive unpacked, the store removed: what was published meanwhile goes | `store-seed.ts:1`: "Populates an empty drwn store" |
| `PublishedIsNotRemoved`, `NoSelfCollision`, `OriginIsWhatItHolds` (CardBinding) | a version published into a clone that turns out to be misnamed goes with it; one URL resolved twice at once collides with itself; and a call that fails removes its clone (`card-store.ts:660`) under another that has found it good, which then puts its URL on whatever takes the place | `card-store.ts:1`, the same |
| `TornIsRejected` (LaunchContext) | a pair left torn by a commit that died is stable, and is accepted | `snapshot.ts:2`: "Uses before/after digest equality to reject torn committed or local Worker state." |
| `WinnersAreReused` (LaunchContext) | a context of another release has the same id and is refused as foreign | `store.ts:2`: "reuses winners, and refuses drift" |
| `PruneIsNeverRefused` (LaunchContext) | stages of other ids and quarantines of dead prunes count, until every list and prune is refused | `diagnostics.ts:67`: "Worker launch context store exceeds" the maximum, a bound meant for contexts |
| `RefusedRemovesNothing` (CardSource) | the removal of a skill with an upstream deletes its files, then the manifest without it is found invalid | nothing; a later doctor reports the missing directory |
| `OrphansAreAccepted` (CardSource) | a hook whose addition was killed before the manifest can be neither added ("already exists") nor removed ("not declared") | the two messages contradict each other |
| `HalvesAreRefused` (CardSource) | doctor and publication look for SKILL.md only: half a skill, left by a kill, is published | `card-store.ts:390`: "must be republished from a complete source" |
| `InstalledIsHashed` (InventoryTransfer) | a bundle replaced between extraction and report is installed under the hash of the other | the hash is taken at `inventory-bundle.ts:589`, after the extraction |
| `TargetIsStillSelected` (CloudSelection) | the organization that counts is the one read first; another may be selected when the deployment is made, even before the project is read | `management/workers.ts:58` and `:60` are two reads |
| `RefusedSelectionGoes`, `RefusedIsNotApplied` (CloudSelection, ManagementRequest) | the selection that is cleared after a refusal is the one of that moment, which may be another than the refused one; a request reported as refused may have been applied | `management/workers.ts:144` clears it |
| `ApprovedIsServed`, `RefusedTokensAreRevoked` (DeviceFlow) | an approval that comes in the last interval is lost; tokens that fail the local checks stay alive at the hub | |
| `ReportTellsWhatStays` (StagingCeremony, MCCloud.cfg) | while a failed ceremony takes back its files an error is swallowed: a receipt, a temporary name or the notice, an address that approves a login, stays behind a report that names the first failure only | `phase-a-output.ts:85` to `:87`, `staging-community-qualification.ts:361` to `:365` catch it |
| `RootsMatchLock` (WorkerRoots) | `up`, `trust` and `untrust` write a lock they read before another command's transaction, and put the old roots back | `card-project.ts` reads and writes the lock alone |
| `DeclineSparesOthers` (MachineSettings) | init found no machine.json, asks, and on a no writes an empty one without the lock: roots installed meanwhile are gone | `machine-worker-init.ts:2`: "Keeps guided acceptance fail-closed" |
| `ForcedInitKeepsThePair`, `InitCanBeRepeated` (MachineSettings) | a forced init leaves `card.lock` of other roots beside an empty config; a death while it is written leaves a file that no init accepts | `init.ts:47`: "Overwrite an existing project config." |
| `NoticesNeverBlock` (MachineSettings) | a store of notices cut off by a death ends every later write of that kind with a parse error | nothing; no command repairs it |

(`logout.md`, `refresh.md`, `login.md` are under `docs-docusaurus/docs/reference/cli/`.)

Other facts met while modelling, not stated as a property because no run is about them:

- A consent is kept, or granted again, when a new version is within the range it was given for
  (`card-project.ts:162`), while `docs/cli-quickref.md:331` says "Version-range or content changes drop consent".
- `drwn up` says "Nothing to update" when requirements and lock differ but nothing is outdated, and every
  transactional command refuses such a project (`PROJECT_LOCK_INVALID`): nothing repairs it.
- A broken `config.local.json` ends `drwn write --watch`, because the refresh of linked watchers rejects outside the
  catch; `drwn dev` ends on any failed write; and there is no write at the start of `--watch`.
- A release of a source whose `package.json` has a version always fails after it has written the bump, and `card.json`
  is written in place there.
- In the bridge a sandbox is looked for as a file `bwrap` in the working directory; `consent_cache_ttl_ms` is
  parsed and never used; SIGTERM is sent once; a spawn that throws leaves
  an attempt without an outcome in the log.
- In the device flow a `slow_down` doubles the interval for good, one failed poll ends the login, and requests have
  no timeout. `chat` creates runs with a random request id and without a journal.
- After a ceremony whose client gave up a check that the adapter then served, sessions remain although the cleanup
  succeeded; a death between the two links leaves half a pair and the next ceremony refuses.
- A retried direct publication to a catalog from
  one's own worktree reports that there is nothing to do without pushing; a killed session export leaves an
  archive that `analyze` uploads.

## 6. Not modelled, and why

- Inside the modelled parts: dry runs of a project commit, which read without the lock and whose result is only
  shown; the bound of 100 retained journals; the schemas of receipts, records and journals, which are
  abstracted to values that fit or do not; tampering with files; of the launch contexts more than one target.
- Other components: section 1 and `PROJECT.json` say which and why. Most of it is pure code (schemas, rendering,
  diffing, argument parsing), which has no behaviour that TLC would find and a unit test would not, or build and release
  scripts.
- The server, the keychain, git and the file system are external: they are modelled by what the code
  relies on (atomic rename and link, an operation id applied once, one honoured refresh token).

## 7. Plan

1. Card catalogs: publication as a sequence of git commands against a remote others push to.
2. Pure algorithms against reference definitions: resolution of card graphs, layering of configuration,
   merge of capabilities.
