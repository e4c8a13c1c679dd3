------------------------------ MODULE MCInventory ------------------------------
(***************************************************************************)
(* Three views of the inventory under its lock: what is installed and who  *)
(* uses it (InventoryReferences), how it lies on disk (InventoryStore),    *)
(* and how it gets to another machine (InventoryTransfer).  None reads the *)
(* state of another: each behaviour is about one of them.                  *)
(***************************************************************************)
EXTENDS MCInventoryReferences

CONSTANTS Root, Number, Bytes, Server, Id, Temp, MaxFaults,  \* of InventoryStore
  p1, p2, b1, b2,
  i1, i2, MaxEdits       \* of InventoryTransfer

VARIABLES
  half,    \* references, store or transfer
  mutex, dirs, contents, current, records, temps, metadata, payload,
  at, memo, read, faults,    \* InventoryStore
  inventory, holder, archive, bundle, stamp, glimpsed, unread, accepted, place,
  edits, mishaps    \* InventoryTransfer

Store == INSTANCE InventoryStore WITH
  Package <- Root, Version <- Number, lock <- mutex, pc <- at, call <- memo

(* Two packages that export the same skill, and a record whose name the     *)
(* repository has taken; bundles with either package and with that record.  *)
SameSkill == [k \in Package |-> {s1}]
Bundle(ids) == [i \in Package \cup {i1, i2} |-> IF i \in ids THEN "theirs" ELSE None]
Incoming == {Bundle({k1, i1}), Bundle({k2, i1}), Bundle({i1, i2})}
Transfer == INSTANCE InventoryTransfer WITH
  Server <- {i1, i2}, Exports <- SameSkill, Reserved <- {i2}, Value <- {"ours", "theirs"},
  Bundles <- Incoming, seen <- glimpsed, pc <- place, faults <- mishaps, MaxFaults <- 1

ASSUME TransferAssumption == Transfer!TransferAssumption
ASSUME InventoryStoreAssumption == Store!StoreAssumption

store == <<mutex, dirs, contents, current, records, temps, metadata, payload,
           at, memo, read, faults>>
transfer == <<inventory, holder, archive, bundle, stamp, glimpsed, unread, accepted, place,
              edits, mishaps>>
all == <<vars, half, store, transfer>>

(* The views that are not taken are in one of their initial states, and a   *)
(* transfer begins with one entry at most.                                  *)
InventoryInit ==
  /\ half \in {"references", "store", "transfer"}
  /\ Init /\ Store!Init /\ Transfer!Init
  /\ Cardinality(Transfer!Has(inventory)) <= IF half = "transfer" THEN 1 ELSE 0
  /\ half # "transfer" => archive = Bundle({i1, i2})
  /\ half # "references" => registry = {} /\ live = [q \in Package |-> Absent]

InventoryNext ==
  /\ UNCHANGED half
  /\ \/ half = "references" /\ Next /\ UNCHANGED <<store, transfer>>
     \/ half = "store" /\ Store!Next /\ UNCHANGED <<vars, transfer>>
     \/ half = "transfer" /\ Transfer!Next /\ UNCHANGED <<vars, store>>

InventorySpec == InventoryInit /\ [][InventoryNext]_all

(* Projects and bytes never meet: one exchange of both is as good as two.   *)
Exchange == p1 :> p2 @@ p2 :> p1 @@ b1 :> b2 @@ b2 :> b1
InventorySymmetry == Permutations(Task) \cup {Exchange}
-----------------------------------------------------------------------------
(* skill-packages.ts, mcp-library.ts, inventory-gc.ts: the store is whole.  *)
StoreIsWhole == Store!StoreIsWhole

(* skill-packages.ts: a version's bytes stay.                               *)
VersionsAreImmutable == Store!VersionsAreImmutable

(* inventory-transfer.ts, inventory-bundle.ts: a sync adds what it said.    *)
TransfersAreExact == Transfer!TransfersAreExact
=============================================================================
