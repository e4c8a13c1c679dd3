--------------------------- MODULE InventoryTransfer ---------------------------
(***************************************************************************)
(* Carrying the standalone inventory between machines                      *)
(* (cli/core/inventory-transfer.ts, inventory-bundle.ts): an export writes *)
(* the inventory into a bundle, a sync adds what a bundle has and this     *)
(* machine lacks.  The bundle is a file that its owner may replace at any  *)
(* time; the sync decides without the inventory lock, then takes it and    *)
(* decides again.                                                          *)
(*                                                                         *)
(* An inventory maps each id to its bytes or to None.  What happens under  *)
(* the inventory lock between its acquisition and the first installation   *)
(* is one step.                                                            *)
(***************************************************************************)
EXTENDS Naturals, FiniteSets

CONSTANTS
  Task,        \* invocations of drwn
  Package,     \* ids of skill packages
  Server,      \* ids of MCP records
  Exports,     \* the skills each package exports
  Reserved,    \* skills and MCP servers of the repository
  Value,       \* bytes of an entry
  Bundles,     \* bundles made on other machines
  None,        \* no entry, no file, nobody
  MaxEdits,    \* bound: commands of others and replacements of the bundle
  MaxFaults    \* bound: failed installations and crashes

Item == Package \cup Server
Inventory == [Item -> Value \cup {None}]
Empty == [i \in Item |-> None]
Has(inv) == {i \in Item : inv[i] # None}

(* validateManifestInvariants: a skill has one owner. *)
Clash(p, q) == p # q /\ Exports[p] \cap Exports[q] # {}
WellFormed(inv) == \A p, q \in Has(inv) \cap Package : ~ Clash(p, q)
IsReserved(i) == IF i \in Package THEN Exports[i] \cap Reserved # {} ELSE i \in Reserved

TransferAssumption ==
  /\ DOMAIN Exports = Package /\ Package \cap Server = {}
  /\ None \notin Value \cup Task
  /\ Bundles \subseteq Inventory /\ \A b \in Bundles : WellFormed(b)
  /\ MaxEdits \in Nat /\ MaxFaults \in Nat

VARIABLES
  inventory,   \* what is installed here
  holder,      \* who holds the inventory lock
  archive,     \* the bundle at the path that is read and written
  bundle,      \* the bundle a task has extracted, or is about to publish
  stamp,       \* the archive whose hash it took
  seen,        \* what it has read of the inventory so far
  unread,      \* the entries it has still to read, or to install
  accepted,    \* the report of its first decision
  pc, edits, faults

task == <<bundle, stamp, seen, unread, accepted, pc>>
vars == <<inventory, holder, archive, task, edits, faults>>

(* What this machine can have: it was installed with the same checks.      *)
Inventories == {inv \in Inventory : WellFormed(inv) /\ \A i \in Has(inv) : ~ IsReserved(i)}
Init ==
  /\ inventory \in Inventories
  /\ holder = None
  /\ archive \in Bundles
  /\ bundle = [t \in Task |-> Empty] /\ stamp = [t \in Task |-> Empty]
  /\ seen = [t \in Task |-> Empty] /\ unread = [t \in Task |-> {}]
  /\ accepted = [t \in Task |-> None]
  /\ pc = [t \in Task |-> "idle"]
  /\ edits = 0 /\ faults = 0

Goto(t, step) == pc' = [pc EXCEPT ![t] = step]
End(t) ==
  /\ Goto(t, "idle")
  /\ bundle' = [bundle EXCEPT ![t] = Empty]
  /\ stamp' = [stamp EXCEPT ![t] = Empty]
  /\ seen' = [seen EXCEPT ![t] = Empty]
  /\ unread' = [unread EXCEPT ![t] = {}]
  /\ accepted' = [accepted EXCEPT ![t] = None]

-----------------------------------------------------------------------------
(* comparePortableInventory *)
(* Mutant: an owner of the same skill is not looked for. *)
DispositionByName(source, target, i) ==
  IF IsReserved(i) THEN "conflicting"
  ELSE IF target[i] = None THEN "missing"
  ELSE IF source[i] = target[i] THEN "identical" ELSE "conflicting"
Disposition(source, target, i) ==
  IF IsReserved(i) THEN "conflicting"
  ELSE IF target[i] # None
       THEN IF source[i] = target[i] THEN "identical" ELSE "conflicting"
       ELSE IF i \in Package /\ (\E p \in Has(target) \cap Package : Clash(i, p))
            THEN "conflicting" ELSE "missing"
Report(source, target) ==
  [entries |-> [i \in Has(source) |-> Disposition(source, target, i)],
   extras |-> Has(target) \ Has(source)]
ConflictFree(report) == \A i \in DOMAIN report.entries : report.entries[i] # "conflicting"
Missing(report) == {i \in DOMAIN report.entries : report.entries[i] = "missing"}

(* validatePortableInventoryBundle: the file is extracted and checked, and *)
(* then read once more for its hash.                                       *)
Extract(t) ==
  /\ pc[t] = "idle" /\ archive # None
  /\ bundle' = [bundle EXCEPT ![t] = archive]
  /\ Goto(t, "hash")
  /\ UNCHANGED <<inventory, holder, archive, stamp, seen, unread, accepted, edits, faults>>

Hash(t) ==
  /\ pc[t] = "hash"
  /\ \/ /\ archive = None /\ End(t)
     \/ /\ archive # None
        /\ stamp' = [stamp EXCEPT ![t] = archive]
        /\ unread' = [unread EXCEPT ![t] = Item]
        /\ Goto(t, "read")
        /\ UNCHANGED <<bundle, seen, accepted>>
  /\ UNCHANGED <<inventory, holder, archive, edits, faults>>

(* snapshotPortableInventory without the lock: packages and MCP records    *)
(* are listed at the same time, each set as it is when its turn comes.     *)
Kinds == {Package, Server}
Look(t) ==
  /\ pc[t] = "read" /\ unread[t] # {}
  /\ \E kind \in Kinds :
       /\ kind \subseteq unread[t]
       /\ seen' = [seen EXCEPT ![t] = [i \in Item |-> IF i \in kind THEN inventory[i] ELSE @[i]]]
       /\ unread' = [unread EXCEPT ![t] = @ \ kind]
  /\ UNCHANGED <<inventory, holder, archive, bundle, stamp, accepted, pc, edits, faults>>

(* The first decision; a dry run ends with it. *)
Preflight(t) == LET report == Report(bundle[t], seen[t]) IN
  /\ pc[t] = "read" /\ unread[t] = {}
  /\ \/ End(t)
     \/ /\ ConflictFree(report)
        /\ accepted' = [accepted EXCEPT ![t] = report]
        /\ Goto(t, "verify")
        /\ UNCHANGED <<bundle, stamp, seen, unread>>
  /\ UNCHANGED <<inventory, holder, archive, edits, faults>>

Verify(t) ==
  /\ pc[t] = "verify"
  /\ IF archive = stamp[t]
     THEN Goto(t, "lock") /\ UNCHANGED <<bundle, stamp, seen, unread, accepted>>
     ELSE End(t)
  /\ UNCHANGED <<inventory, holder, archive, edits, faults>>

(* Mutant: the first decision is trusted. *)
AcceptedStands(t) == archive = stamp[t]
(* What must still be so under the lock. *)
DecisionStands(t) ==
  /\ archive = stamp[t]
  /\ Report(bundle[t], inventory) = accepted[t]

(* A refusal releases the lock as it ends. *)
Lock(t) ==
  /\ pc[t] = "lock" /\ holder = None
  /\ \/ /\ DecisionStands(t)
        /\ holder' = t
        /\ unread' = [unread EXCEPT ![t] = Missing(accepted[t])]
        /\ Goto(t, "install")
        /\ UNCHANGED <<bundle, stamp, seen, accepted>>
     \/ ~ DecisionStands(t) /\ UNCHANGED holder /\ End(t)
  /\ UNCHANGED <<inventory, archive, edits, faults>>

(* installSkillBundleRoot or createMcpLibraryRecord, in the bundle's order; *)
(* whose skills are taken by now is refused.                                *)
First(ids) == IF ids \cap Package # {} THEN ids \cap Package ELSE ids
Owned(i) == i \in Package /\ \E p \in Has(inventory) \cap Package : Clash(i, p)
Install(t) ==
  /\ pc[t] = "install" /\ unread[t] # {}
  /\ \E i \in First(unread[t]) :
       \/ /\ ~ Owned(i)
          /\ inventory' = [inventory EXCEPT ![i] = bundle[t][i]]
          /\ unread' = [unread EXCEPT ![t] = @ \ {i}]
          /\ UNCHANGED <<holder, bundle, stamp, seen, accepted, pc>>
       \/ /\ Owned(i)
          /\ holder' = None /\ End(t) /\ UNCHANGED inventory
  /\ UNCHANGED <<archive, edits, faults>>

Complete(t) ==
  /\ pc[t] = "install" /\ unread[t] = {}
  /\ holder' = None
  /\ End(t)
  /\ UNCHANGED <<inventory, archive, edits, faults>>

-----------------------------------------------------------------------------
(* createPortableInventoryBundle: staged under the lock, published later.  *)
Stage(t) ==
  /\ pc[t] = "idle" /\ holder = None
  /\ bundle' = [bundle EXCEPT ![t] = inventory]
  /\ Goto(t, "publish")
  /\ UNCHANGED <<inventory, holder, archive, stamp, seen, unread, accepted, edits, faults>>

(* publishPortableOutput: what is there already is not replaced. *)
(* Mutant: renamed over what is there. *)
PublishedOver(t) == bundle[t]
Published(t) == IF archive = None THEN bundle[t] ELSE archive
Publish(t) ==
  /\ pc[t] = "publish"
  /\ archive' = Published(t)
  /\ End(t)
  /\ UNCHANGED <<inventory, holder, edits, faults>>

-----------------------------------------------------------------------------
(* Another command installs, updates or removes an entry under the lock.   *)
Command ==
  /\ holder = None /\ edits < MaxEdits
  /\ \E i \in Item, v \in Value \cup {None} :
       /\ inventory[i] # v
       /\ inventory' = [inventory EXCEPT ![i] = v]
  /\ inventory' \in Inventories
  /\ edits' = edits + 1
  /\ UNCHANGED <<holder, archive, task, faults>>

(* The owner of the bundle removes it or puts another one in its place.    *)
Replace ==
  /\ edits < MaxEdits
  /\ \E b \in Bundles \cup {None} : b # archive /\ archive' = b
  /\ edits' = edits + 1
  /\ UNCHANGED <<inventory, holder, task, faults>>

(* An error or a crash: the lock is released, or taken from the dead; what *)
(* was installed stays.                                                    *)
Fail(t) ==
  /\ pc[t] # "idle" /\ faults < MaxFaults
  /\ faults' = faults + 1
  /\ holder' = IF holder = t THEN None ELSE holder
  /\ End(t)
  /\ UNCHANGED <<inventory, archive, edits>>

Step(t) ==
  \/ Extract(t) \/ Hash(t) \/ Look(t) \/ Preflight(t) \/ Verify(t) \/ Lock(t)
  \/ Install(t) \/ Complete(t) \/ Stage(t) \/ Publish(t)
Next == (\E t \in Task : Step(t) \/ Fail(t)) \/ Command \/ Replace
Spec == Init /\ [][Next]_vars

-----------------------------------------------------------------------------
(* A skill has one owner, whoever installs what at the same time; a sync   *)
(* leaves entries of its bundle only where the accepted report found       *)
(* nothing, and replaces or removes no entry.                              *)
SkillsHaveOneOwner == WellFormed(inventory)
AddsOnlyAccepted == [][\A t \in Task :
  holder = t /\ inventory' # inventory =>
    \E i \in Missing(accepted[t]) :
      inventory[i] = None /\ inventory' = [inventory EXCEPT ![i] = bundle[t][i]]]_vars

(* A sync that ends with nothing left to install has made the machine what *)
(* the report promised: each entry of the bundle as it is there, and       *)
(* beside them exactly the extras it named.                                *)
CompletedIsExact == [][\A t \in Task :
  holder = t /\ unread[t] = {} /\ holder' = None =>
    /\ \A i \in Has(bundle[t]) : inventory[i] = bundle[t][i]
    /\ Has(inventory) \ Has(bundle[t]) = accepted[t].extras]_vars

(* An export replaces no file. *)
ExportsReplaceNothing == [][archive' # archive => archive = None \/ edits' > edits]_vars

TransfersAreExact ==
  /\ []SkillsHaveOneOwner /\ AddsOnlyAccepted /\ CompletedIsExact /\ ExportsReplaceNothing

(* What is installed is what the checked hash is of.  It does not hold:    *)
(* the hash is taken of the file after its extraction.                     *)
InstalledIsHashed == \A t \in Task : pc[t] = "install" => bundle[t] = stamp[t]
=============================================================================
