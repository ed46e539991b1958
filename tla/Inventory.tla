------------------------------ MODULE Inventory ------------------------------
(***************************************************************************)
(* Assets, vulnerabilities and the findings that link them, and everything  *)
(* that fills these tables: the scanner webhooks (api/v1/webhooks.py), the  *)
(* imports (import_api.py, assets.py), the discovery's orchestrator, and    *)
(* the creation and deletion of single assets.                              *)
(*                                                                          *)
(* All of them look a row up and insert it if it is missing.  What is       *)
(* unique and what must exist is left to the database: a unit of work that  *)
(* breaks a constraint is refused as a whole, with all it carried.          *)
(***************************************************************************)
EXTENDS Requests

CONSTANTS Assets,   \* identifiers of assets, one tenant
          Cves      \* identifiers of vulnerabilities

VARIABLES inventory,   \* the committed tables
          reported     \* history: findings some delivery was thanked for, with
                       \* their assets, which nobody deleted since

inventoryVars == <<inventory, reported>>

Findings == Assets \X Cves

Inventories == [assets : SUBSET Assets, cves : SUBSET Cves, findings : SUBSET Findings]

InventoryTypeOK ==
  /\ inventory \in Inventories
  /\ reported \in SUBSET Findings
  /\ \A s \in UnderWay : seen[s] \in Inventories

InventoryInit ==
  /\ RequestsInit
  /\ inventory = [assets |-> {}, cves |-> {}, findings |-> {}]
  /\ reported = {}

ReadInventory(s) ==
  /\ ReadBy(s, inventory)
  /\ UNCHANGED inventoryVars

RefusedInventory(s) ==
  /\ EndOf(s)
  /\ UNCHANGED inventoryVars

-----------------------------------------------------------------------------
(* A delivery names assets, vulnerabilities and findings; "repeats" says     *)
(* whether it names one of them twice.                                       *)

Deliveries ==
  [assets : SUBSET Assets, cves : SUBSET Cves, findings : SUBSET Findings,
   repeats : BOOLEAN]

\* Each finding comes with its asset and its vulnerability.
WellFormed(d) ==
  \A f \in d.findings : f[1] \in d.assets /\ f[2] \in d.cves

\* What the delivery inserts: the rows it did not find.
Missing(s, d) ==
  [assets |-> d.assets \ seen[s].assets, cves |-> d.cves \ seen[s].cves,
   findings |-> d.findings \ seen[s].findings]

\* The unique indexes on assets, vulnerabilities and asset_vulnerabilities.
Unique(new) ==
  /\ new.assets \cap inventory.assets = {}
  /\ new.cves \cap inventory.cves = {}
  /\ new.findings \cap inventory.findings = {}

\* As if the columns were no foreign keys.
ReferencedUnchecked(new, d) == TRUE

\* The foreign keys of asset_vulnerabilities: the rows found are still there.
Referenced(new, d) ==
  \A f \in new.findings : f[1] \in new.assets \cup inventory.assets
                          /\ f[2] \in new.cves \cup inventory.cves

Store(new) ==
  inventory' = [assets |-> inventory.assets \cup new.assets,
                cves |-> inventory.cves \cup new.cves,
                findings |-> inventory.findings \cup new.findings]

\* published_at must not be null and no webhook sets it: the insertion of a
\* vulnerability is refused.
KnowsCves(s, d) == d.cves \subseteq seen[s].cves

\* Links are added without a flush and looked up in the database only, so that
\* one named twice is inserted twice.
LinksOnce(s, d) == d.repeats => d.findings \subseteq seen[s].findings

\* A webhook that leaves out what it cannot store, as the imports look as if
\* they did.
UpsertKnown(s, d) ==
  LET new == [Missing(s, d) EXCEPT !.cves = {},
                                   !.findings = {f \in @ : f[2] \in inventory.cves}] IN
  /\ Unique(new)
  /\ Store(new)
  /\ reported' = reported \cup d.findings
  /\ EndOf(s)

\* _upsert_asset, _upsert_vulnerability and _link_asset_vulnerability, for each
\* line of the delivery, and the commit.
Upsert(s, d) ==
  LET new == Missing(s, d) IN
  /\ Unique(new)
  /\ Referenced(new, d)
  /\ Store(new)
  /\ reported' = reported \cup d.findings
  /\ EndOf(s)

\* The detections of the assets that the export lists.
Listed(d) == [d EXCEPT !.findings = {f \in @ : f[1] \in d.assets}]

\* Any other detection is counted as processed, and not linked.
tenable_webhook(s) ==
  \E d \in Deliveries :
    /\ \A f \in d.findings : f[2] \in d.cves
    /\ KnowsCves(s, d) /\ LinksOnce(s, Listed(d)) /\ Upsert(s, Listed(d))

\* Detections are listed under their assets.
qualys_webhook(s) ==
  \E d \in Deliveries :
    /\ WellFormed(d)
    /\ \A c \in d.cves : \E a \in d.assets : <<a, c>> \in d.findings
    /\ KnowsCves(s, d) /\ LinksOnce(s, d) /\ Upsert(s, d)

rapid7_webhook(s) == qualys_webhook(s)

\* Each line is one finding; a missing vulnerability is stored with a date.
import_vulnerabilities_csv(s) ==
  \E d \in Deliveries :
    /\ d.assets = {f[1] : f \in d.findings}
    /\ d.cves = {f[2] : f \in d.findings}
    /\ LinksOnce(s, d)
    /\ Upsert(s, d)

\* The import of a file of assets, which are not flushed one by one either, the
\* creation of a single one, and what a discovery found, without duplicates.
AddAssets(s, d) ==
  /\ d.cves = {} /\ d.findings = {}
  /\ d.repeats => d.assets \subseteq seen[s].assets
  /\ Upsert(s, d)

import_assets_csv(s) == \E d \in Deliveries : AddAssets(s, d)

bulk_import_assets(s) == \E d \in Deliveries : AddAssets(s, d)

create_asset(s) ==
  \E d \in Deliveries :
    /\ ~d.repeats /\ Cardinality(d.assets) = 1
    /\ d.assets \cap seen[s].assets = {}
    /\ AddAssets(s, d)

persist_assets(s) == \E d \in Deliveries : ~d.repeats /\ AddAssets(s, d)

\* "Delete an asset and its vulnerability associations", it says, and "cascades
\* to asset_vulnerabilities".  The relationship has no cascade: the unit of work
\* sets the findings' asset to NULL, which the column forbids, and the deletion
\* of an asset with findings is refused as a whole (RefusedInventory).
Deletable(a) == \A f \in inventory.findings : f[1] # a

\* What was reported of the asset is deleted along with it, on request.
delete_asset(s) ==
  \E a \in seen[s].assets \cap inventory.assets :
    /\ Deletable(a)
    /\ EndOf(s)
    /\ inventory' = [inventory EXCEPT !.assets = @ \ {a},
                                      !.findings = {f \in @ : f[1] # a}]
    /\ reported' = {f \in reported : f[1] # a}

InventoryHandler(s) ==
  \/ ReadInventory(s)
  \/ s \in UnderWay /\ \/ RefusedInventory(s)
                       \/ tenable_webhook(s)
                       \/ qualys_webhook(s)
                       \/ rapid7_webhook(s)
                       \/ import_vulnerabilities_csv(s)
                       \/ import_assets_csv(s)
                       \/ bulk_import_assets(s)
                       \/ create_asset(s)
                       \/ persist_assets(s)
                       \/ delete_asset(s)

InventoryNext == \E s \in Sessions : InventoryHandler(s)

InventorySpec == InventoryInit /\ [][InventoryNext]_<<inventoryVars, requestVars>>

-----------------------------------------------------------------------------
(* Properties *)

\* A finding that was acknowledged to a scanner or an import along with its
\* asset is there for as long as nobody deletes that asset, whatever else was
\* delivered, deleted or refused meanwhile: a refused unit of work takes down
\* only its own lines.  It does not say whether a deletion succeeds.
AcknowledgedKept == reported \subseteq inventory.findings

\* No finding outlives its asset or its vulnerability.
FindingsLinked ==
  \A f \in inventory.findings : f[1] \in inventory.assets /\ f[2] \in inventory.cves

\* What was acknowledged stays, and nothing that stays hangs in the air, however
\* deliveries, imports and deletions overlap.
FindingsKept == AcknowledgedKept /\ FindingsLinked
=============================================================================
