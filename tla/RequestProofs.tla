----------------------------- MODULE RequestProofs -----------------------------
(***************************************************************************)
(* Proofs about the components whose handlers are requests and that take    *)
(* one invariant each: the inventory and the scans that fill it, tags,      *)
(* settings, connections, snapshots and the discussion, for any sessions    *)
(* and any data.                                                            *)
(***************************************************************************)
EXTENDS Inventory, Scanners, Tags, TenantSettings, Connections, SnapshotRollback, Collaboration,
        FiniteSetTheorems, TLAPS

-----------------------------------------------------------------------------
(* Requests *)

\* Requests that do not overlap are under way one at a time.
OneAtATime == isolated => \A s, t \in UnderWay : s = t

\* What the end of a request leaves.
LEMMA EndLeaves ==
  ASSUME NEW s, EndOf(s)
  PROVE  /\ isolated' = isolated /\ left' = left
         /\ s \in UnderWay
         /\ UnderWay' = UnderWay \ {s}
         /\ \A t \in UnderWay' : seen'[t] = seen[t]
         /\ OneAtATime => OneAtATime' /\ (isolated => UnderWay' = {})
  <1>1. /\ isolated' = isolated /\ left' = left /\ s \in UnderWay
        /\ seen' = [t \in UnderWay \ {s} |-> seen[t]]
    BY DEF EndOf
  <1>2. UnderWay' = UnderWay \ {s} /\ \A t \in UnderWay' : seen'[t] = seen[t]
    BY <1>1 DEF UnderWay
  <1> QED BY <1>1, <1>2 DEF OneAtATime

\* What its beginning leaves.
LEMMA ReadingLeaves ==
  ASSUME NEW s, NEW tables, ReadBy(s, tables)
  PROVE  /\ isolated' = isolated /\ left' = left - 1 /\ left > 0
         /\ s \notin UnderWay
         /\ UnderWay' = UnderWay \cup {s}
         /\ seen'[s] = tables
         /\ \A t \in UnderWay : seen'[t] = seen[t]
         /\ OneAtATime => OneAtATime'
         /\ isolated => UnderWay = {}
  <1>1. /\ isolated' = isolated /\ left' = left - 1 /\ left > 0 /\ s \notin UnderWay
        /\ isolated => UnderWay = {}
        /\ seen' = [t \in UnderWay \cup {s} |-> IF t = s THEN tables ELSE seen[t]]
    BY DEF ReadBy
  <1>2. /\ UnderWay' = UnderWay \cup {s} /\ seen'[s] = tables
        /\ \A t \in UnderWay : seen'[t] = seen[t]
    BY <1>1 DEF UnderWay
  <1> QED BY <1>1, <1>2 DEF OneAtATime

-----------------------------------------------------------------------------
(* The inventory *)

\* A finding that a session has read is still there when it commits: nothing
\* deletes findings.
SeenKept == \A s \in UnderWay : seen[s].findings \subseteq inventory.findings

InventoryInv == InventoryTypeOK /\ SeenKept /\ AcknowledgedKept /\ FindingsLinked

-----------------------------------------------------------------------------
\* What the database does in a commit of an Upsert and in the deletion of an
\* asset.
LEMMA UpsertStores ==
  ASSUME InventoryInv, NEW s \in UnderWay, NEW d \in Deliveries, Upsert(s, d)
  PROVE  /\ inventory' \in Inventories
         /\ inventory.findings \subseteq inventory'.findings
         /\ reported' = reported \cup d.findings
         /\ reported' \subseteq inventory'.findings
         /\ FindingsLinked'
  <1> DEFINE new == Missing(s, d)
  <1>1. /\ inventory \in Inventories /\ seen[s] \in Inventories
        /\ seen[s].findings \subseteq inventory.findings
    BY DEF InventoryInv, InventoryTypeOK, SeenKept
  <1>2. d.assets \subseteq Assets /\ d.cves \subseteq Cves /\ d.findings \subseteq Findings
    BY DEF Deliveries
  <1>3. /\ new.assets = d.assets \ seen[s].assets
        /\ new.cves = d.cves \ seen[s].cves
        /\ new.findings = d.findings \ seen[s].findings
    BY DEF Missing
  <1>4. /\ inventory' = [assets |-> inventory.assets \cup new.assets,
                         cves |-> inventory.cves \cup new.cves,
                         findings |-> inventory.findings \cup new.findings]
        /\ reported' = reported \cup d.findings
        /\ Referenced(new, d)
    BY DEF Upsert, Store
  <1>5. /\ inventory'.assets = inventory.assets \cup new.assets
        /\ inventory'.cves = inventory.cves \cup new.cves
        /\ inventory'.findings = inventory.findings \cup new.findings
    BY <1>4
  <1> HIDE DEF new
  <1>6. inventory' \in Inventories
    BY <1>1, <1>2, <1>3, <1>4 DEF Inventories
  <1>7. reported' \subseteq inventory'.findings
    BY <1>1, <1>3, <1>4, <1>5 DEF InventoryInv, AcknowledgedKept
  <1>8. FindingsLinked'
    BY <1>4, <1>5 DEF InventoryInv, FindingsLinked, Referenced
  <1> QED BY <1>4, <1>5, <1>6, <1>7, <1>8

LEMMA DeletionKeeps ==
  ASSUME InventoryInv, NEW s \in UnderWay, delete_asset(s)
  PROVE  /\ inventory' \in Inventories
         /\ inventory'.findings = inventory.findings
         /\ reported' \subseteq reported
         /\ FindingsLinked'
  <1>1. PICK a \in seen[s].assets \cap inventory.assets :
          /\ Deletable(a)
          /\ inventory' = [inventory EXCEPT !.assets = @ \ {a},
                                            !.findings = {f \in @ : f[1] # a}]
          /\ reported' \subseteq reported
    BY DEF delete_asset
  <1>2. inventory \in Inventories
    BY DEF InventoryInv, InventoryTypeOK
  <1>3. {f \in inventory.findings : f[1] # a} = inventory.findings
    BY <1>1 DEF Deletable
  <1>4. /\ inventory'.assets = inventory.assets \ {a}
        /\ inventory'.cves = inventory.cves
        /\ inventory'.findings = inventory.findings
        /\ inventory' \in Inventories
    BY <1>1, <1>2, <1>3 DEF Inventories
  <1>5. FindingsLinked'
    BY <1>1, <1>4 DEF InventoryInv, FindingsLinked, Deletable
  <1> QED BY <1>1, <1>4, <1>5

\* Every way of filling the tables is an Upsert of some delivery.
LEMMA AllUpsert ==
  ASSUME NEW s \in UnderWay,
         \/ tenable_webhook(s) \/ qualys_webhook(s) \/ rapid7_webhook(s)
         \/ import_vulnerabilities_csv(s) \/ import_assets_csv(s)
         \/ bulk_import_assets(s) \/ create_asset(s) \/ persist_assets(s)
  PROVE  \E d \in Deliveries : Upsert(s, d)
  <1>1. \A d \in Deliveries : Listed(d) \in Deliveries
    BY DEF Deliveries, Listed
  <1> QED
    BY <1>1 DEF tenable_webhook, qualys_webhook, rapid7_webhook, import_vulnerabilities_csv,
                import_assets_csv, bulk_import_assets, create_asset, persist_assets, AddAssets

\* Requests come and go without touching what others have read.
LEMMA RequestsKeep ==
  ASSUME NEW s, SeenKept, EndOf(s),
         inventory.findings \subseteq inventory'.findings,
         \A t \in UnderWay : seen[t] \in Inventories
  PROVE  SeenKept' /\ \A t \in UnderWay' : seen'[t] \in Inventories
  BY DEF SeenKept, EndOf, UnderWay

-----------------------------------------------------------------------------
LEMMA InventoryStarts == InventoryInit => InventoryInv
  BY DEF InventoryInit, RequestsInit, InventoryInv, InventoryTypeOK, SeenKept, AcknowledgedKept,
         FindingsLinked, Inventories, UnderWay

LEMMA InventoryStep == InventoryInv /\ [InventoryNext]_<<inventoryVars, requestVars>> => InventoryInv'
  <1> SUFFICES ASSUME InventoryInv, [InventoryNext]_<<inventoryVars, requestVars>> PROVE InventoryInv'
    OBVIOUS
  <1>1. ASSUME NEW s \in Sessions, ReadInventory(s)
        PROVE  InventoryInv'
    <2>1. inventory' = inventory /\ reported' = reported
      BY <1>1 DEF ReadInventory, inventoryVars
    <2>2. seen' = [t \in UnderWay \cup {s} |-> IF t = s THEN inventory ELSE seen[t]]
      BY <1>1 DEF ReadInventory, ReadBy
    <2>3. \A t \in UnderWay' : /\ seen'[t] \in Inventories
                               /\ seen'[t].findings \subseteq inventory.findings
      BY <2>2 DEF UnderWay, InventoryInv, InventoryTypeOK, SeenKept
    <2> QED BY <2>1, <2>3
            DEF InventoryInv, InventoryTypeOK, SeenKept, AcknowledgedKept, FindingsLinked
  <1>2. ASSUME NEW s \in UnderWay, RefusedInventory(s)
        PROVE  InventoryInv'
    <2>1. inventory' = inventory /\ reported' = reported /\ EndOf(s)
      BY <1>2 DEF RefusedInventory, inventoryVars
    <2> QED BY <2>1, RequestsKeep
            DEF InventoryInv, InventoryTypeOK, AcknowledgedKept, FindingsLinked
  <1>3. ASSUME NEW s \in UnderWay, NEW d \in Deliveries, Upsert(s, d)
        PROVE  InventoryInv'
    <2>1. EndOf(s)
      BY <1>3 DEF Upsert
    <2>2. reported' \subseteq Findings
      BY <1>3, UpsertStores DEF Inventories
    <2> QED BY <1>3, <2>1, <2>2, UpsertStores, RequestsKeep
            DEF InventoryInv, InventoryTypeOK, AcknowledgedKept
  <1>4. ASSUME NEW s \in UnderWay, delete_asset(s)
        PROVE  InventoryInv'
    <2>1. EndOf(s)
      BY <1>4 DEF delete_asset
    <2> QED BY <1>4, <2>1, DeletionKeeps, RequestsKeep
            DEF InventoryInv, InventoryTypeOK, AcknowledgedKept
  <1>5. CASE UNCHANGED <<inventoryVars, requestVars>>
    BY <1>5 DEF inventoryVars, requestVars, InventoryInv, InventoryTypeOK, SeenKept,
                AcknowledgedKept, FindingsLinked, UnderWay
  <1> QED BY <1>1, <1>2, <1>3, <1>4, <1>5, AllUpsert DEF InventoryNext, InventoryHandler

\* The strengthened invariant, for all constants.
THEOREM InventoryInvariance == InventorySpec => []InventoryInv
  BY InventoryStarts, InventoryStep, PTL DEF InventorySpec

\* What a scanner or an import was thanked for is in the tables, with its asset
\* and its vulnerability, whatever other deliveries and deletions it overlaps with.
THEOREM FindingsAreKept == InventorySpec => []FindingsKept
  <1>1. InventoryInv => FindingsKept
    BY DEF InventoryInv, FindingsKept
  <1> QED BY <1>1, InventoryInvariance, PTL

-----------------------------------------------------------------------------
(* Tags *)

\* With one client, a request has read the labels as they are, and they are what
\* the requests before it said, up to the names of merged tags.
LabelsAgree(names) == \A a \in Tagged : tagging.labels[a] \ names = wanted[a] \ names

LabelsCurrent ==
  isolated => /\ LabelsAgree(mergedNames)
              /\ \A s \in UnderWay : seen[s].labels = tagging.labels

TagsInv == TagsTypeOK /\ OneAtATime /\ LabelsCurrent

\* A request that ends, and at most changes the catalogue.
LEMMA CatalogueStep ==
  ASSUME TagsInv, NEW s, EndOf(s), IsTagging(tagging'), UniqueNames(tagging'.catalogue),
         tagging'.labels = tagging.labels,
         wanted' \in [Tagged -> SUBSET Labels],
         mergedNames \subseteq mergedNames', mergedNames' \in SUBSET Labels,
         \A a \in Tagged : wanted'[a] \ mergedNames' = wanted[a] \ mergedNames'
  PROVE  TagsInv'
  <1>1. TagsTypeOK'
    BY EndLeaves DEF TagsInv, TagsTypeOK
  <1>2. ASSUME isolated, NEW a \in Tagged
        PROVE  tagging.labels[a] \ mergedNames' = wanted'[a] \ mergedNames'
    <2>1. tagging.labels[a] \ mergedNames = wanted[a] \ mergedNames
      BY <1>2 DEF TagsInv, LabelsCurrent, LabelsAgree
    <2>2. wanted'[a] \ mergedNames' = wanted[a] \ mergedNames'
      OBVIOUS
    <2> QED BY <2>1, <2>2
  <1>3. LabelsCurrent'
    BY <1>2, EndLeaves DEF TagsInv, LabelsCurrent, LabelsAgree
  <1> QED BY <1>1, <1>3, EndLeaves DEF TagsInv

\* What is put in place of the catalogue is one.
LEMMA CataloguedTables ==
  ASSUME TagsInv, NEW catalogue, Catalogued(catalogue),
         DOMAIN catalogue \subseteq TagIds,
         \A t \in DOMAIN catalogue : catalogue[t] \in [name : Labels, aliases : SUBSET Labels]
  PROVE  /\ IsTagging(tagging') /\ UniqueNames(tagging'.catalogue)
         /\ tagging'.labels = tagging.labels
  <1>1. tagging' = [tagging EXCEPT !.catalogue = catalogue] /\ UniqueNames(catalogue)
    BY DEF Catalogued
  <1>2. IsTagging(tagging)
    BY DEF TagsInv, TagsTypeOK
  <1>3. /\ DOMAIN tagging' = {"catalogue", "labels"}
        /\ tagging'.catalogue = catalogue /\ tagging'.labels = tagging.labels
    BY <1>1, <1>2 DEF IsTagging
  <1>4. tagging'.labels \in [Tagged -> SUBSET Labels]
    BY <1>2, <1>3 DEF IsTagging
  <1> QED BY <1>1, <1>3, <1>4 DEF IsTagging

\* Lists are written as a whole; with one client that is as if what was asked for
\* were done to the lists as they are.
LEMMA RelabelStep ==
  ASSUME TagsInv, NEW s \in Sessions, NEW assets \in SUBSET Tagged,
         NEW add \in [Tagged -> SUBSET Labels], NEW remove \in [Tagged -> SUBSET Labels],
         Relabel(s, assets, add, remove)
  PROVE  TagsInv'
  <1>1. s \in UnderWay /\ EndOf(s)
    BY DEF Relabel, EndOf
  <1>2. /\ IsTagging(tagging) /\ UniqueNames(tagging.catalogue) /\ IsTagging(seen[s])
        /\ wanted \in [Tagged -> SUBSET Labels]
    BY <1>1 DEF TagsInv, TagsTypeOK
  <1>3. PICK old \in [Tagged -> SUBSET Labels] : old = seen[s].labels
    BY <1>2 DEF IsTagging
  <1>31. PICK reordered \in SUBSET assets :
          \E labels :
            /\ tagging' = [tagging EXCEPT !.labels = labels]
            /\ labels = [a \in Tagged |->
                 IF a \notin assets THEN tagging.labels[a]
                 ELSE IF a \in reordered THEN AddAndRemove(old[a], add[a], remove[a])
                 ELSE Put(old[a], AddAndRemove(old[a], add[a], remove[a]), tagging.labels[a])]
    BY <1>3 DEF Relabel
  <1>4. PICK labels :
          /\ tagging' = [tagging EXCEPT !.labels = labels]
          /\ labels = [a \in Tagged |->
               IF a \notin assets THEN tagging.labels[a]
               ELSE IF a \in reordered THEN AddAndRemove(old[a], add[a], remove[a])
               ELSE Put(old[a], AddAndRemove(old[a], add[a], remove[a]), tagging.labels[a])]
    BY <1>31
  <1>5. /\ DOMAIN tagging' = {"catalogue", "labels"}
        /\ tagging'.catalogue = tagging.catalogue /\ tagging'.labels = labels
    BY <1>2, <1>4 DEF IsTagging
  <1>6. labels \in [Tagged -> SUBSET Labels]
    BY <1>2, <1>4 DEF IsTagging, AddAndRemove, Put
  <1>7. IsTagging(tagging') /\ UniqueNames(tagging'.catalogue)
    BY <1>2, <1>5, <1>6 DEF IsTagging
  <1>8. wanted' = [a \in Tagged |-> IF a \notin assets THEN wanted[a]
                                   ELSE (wanted[a] \ remove[a]) \cup (add[a] \ remove[a])]
    BY DEF Relabel
  <1>81. mergedNames' = mergedNames
    BY DEF Relabel
  <1>9. wanted' \in [Tagged -> SUBSET Labels]
    BY <1>2, <1>8
  <1>10. TagsTypeOK'
    BY <1>1, <1>7, <1>81, <1>9, EndLeaves DEF TagsInv, TagsTypeOK
  <1>11. ASSUME isolated, NEW a \in Tagged
         PROVE  labels[a] \ mergedNames = wanted'[a] \ mergedNames
    <2>1. old[a] = tagging.labels[a] /\ old[a] \ mergedNames = wanted[a] \ mergedNames
      BY <1>1, <1>3, <1>11 DEF TagsInv, LabelsCurrent, LabelsAgree
    <2>2. CASE a \notin assets
      BY <1>4, <1>8, <2>1, <2>2
    <2>3. CASE a \in assets
      <3>1. labels[a] = (old[a] \cup add[a]) \ remove[a]
        BY <1>4, <2>1, <2>3 DEF AddAndRemove, Put
      <3>2. wanted'[a] = (wanted[a] \ remove[a]) \cup (add[a] \ remove[a])
        BY <1>8, <2>3
      <3> QED BY <2>1, <3>1, <3>2
    <2> QED BY <2>2, <2>3
  <1>12. LabelsCurrent'
    BY <1>1, <1>5, <1>81, <1>11, EndLeaves DEF TagsInv, LabelsCurrent, LabelsAgree
  <1> QED BY <1>1, <1>10, <1>12, EndLeaves DEF TagsInv

LEMMA CatalogueHandlers ==
  ASSUME TagsInv, NEW s \in UnderWay,
         create_tag(s) \/ update_tag(s) \/ delete_tag(s) \/ merge_tags(s)
  PROVE  TagsInv'
  <1> DEFINE Row == [name : Labels, aliases : SUBSET Labels]
             History == /\ wanted' \in [Tagged -> SUBSET Labels]
                        /\ mergedNames \subseteq mergedNames' /\ mergedNames' \in SUBSET Labels
                        /\ \A a \in Tagged : wanted'[a] \ mergedNames' = wanted[a] \ mergedNames'
  <1>1. PICK listed : listed = tagging.catalogue
    OBVIOUS
  <1>2. PICK loaded : loaded = seen[s].catalogue
    OBVIOUS
  <1>3. /\ DOMAIN listed \subseteq TagIds /\ \A t \in DOMAIN listed : listed[t] \in Row
        /\ DOMAIN loaded \subseteq TagIds /\ \A t \in DOMAIN loaded : loaded[t] \in Row
    BY <1>1, <1>2 DEF TagsInv, TagsTypeOK, IsTagging
  <1>31. wanted \in [Tagged -> SUBSET Labels] /\ mergedNames \in SUBSET Labels
    BY DEF TagsInv, TagsTypeOK
  <1>32. wanted' = wanted /\ mergedNames' = mergedNames => History
    BY <1>31
  <1>4. \E catalogue :
          /\ EndOf(s) /\ History /\ Catalogued(catalogue)
          /\ DOMAIN catalogue \subseteq TagIds
          /\ \A t \in DOMAIN catalogue : catalogue[t] \in Row
    <2>1. CASE create_tag(s)
      <3>1. PICK t \in TagIds \ DOMAIN listed, label \in Labels, aliases \in SUBSET Labels :
              /\ EndOf(s) /\ History
              /\ Catalogued(Inserted(listed, t, [name |-> label, aliases |-> aliases]))
        <4> HIDE DEF History
        <4> QED BY <1>1, <1>32, <2>1 DEF create_tag
      <3>2. PICK new : new = Inserted(listed, t, [name |-> label, aliases |-> aliases])
        OBVIOUS
      <3>3. DOMAIN new \subseteq TagIds /\ \A u \in DOMAIN new : new[u] \in Row
        BY <1>3, <3>2 DEF Inserted
      <3> QED BY <3>1, <3>2, <3>3
    <2>2. CASE update_tag(s)
      <3>1. PICK t \in DOMAIN loaded \cap DOMAIN listed, label \in Labels, aliases \in SUBSET Labels :
              /\ EndOf(s) /\ History
              /\ Catalogued([listed EXCEPT ![t].name = Put(loaded[t].name, label, @),
                                           ![t].aliases = Put(loaded[t].aliases, aliases, @)])
        <4> HIDE DEF History
        <4> QED BY <1>1, <1>2, <1>3, <1>32, <2>2 DEF update_tag
      <3>2. PICK new : new = [listed EXCEPT ![t].name = Put(loaded[t].name, label, @),
                                           ![t].aliases = Put(loaded[t].aliases, aliases, @)]
        OBVIOUS
      <3>3. DOMAIN new \subseteq TagIds /\ \A u \in DOMAIN new : new[u] \in Row
        BY <1>3, <3>2 DEF Put
      <3> QED BY <3>1, <3>2, <3>3
    <2>3. CASE delete_tag(s)
      <3>1. PICK t \in DOMAIN loaded :
              EndOf(s) /\ History /\ Catalogued(Without(t, listed))
        <4> HIDE DEF History
        <4> QED BY <1>1, <1>2, <1>32, <2>3 DEF delete_tag
      <3>2. PICK new : new = Without(t, listed)
        OBVIOUS
      <3>3. DOMAIN new \subseteq TagIds /\ \A u \in DOMAIN new : new[u] \in Row
        BY <1>3, <3>2 DEF Without
      <3> QED BY <3>1, <3>2, <3>3
    <2>4. CASE merge_tags(s)
      <3>0. PICK source \in DOMAIN loaded, target \in DOMAIN loaded \cap DOMAIN listed :
              /\ EndOf(s)
              /\ wanted' = [a \in Tagged |-> Replaced(wanted[a], loaded[source].name,
                                                     loaded[target].name)]
              /\ mergedNames' = mergedNames \cup {loaded[source].name, loaded[target].name}
              /\ Catalogued(Without(source,
                   [listed EXCEPT ![target].aliases =
                      Put(loaded[target].aliases,
                          loaded[target].aliases \cup {loaded[source].name}, @)]))
        <4> HIDE DEF History
        <4> QED BY <1>1, <1>2, <2>4 DEF merge_tags
      <3>1. PICK merged :
              merged = [listed EXCEPT ![target].aliases =
                          Put(loaded[target].aliases,
                              loaded[target].aliases \cup {loaded[source].name}, @)]
        OBVIOUS
      <3>2. PICK new : new = Without(source, merged)
        OBVIOUS
      <3>3. DOMAIN merged = DOMAIN listed /\ \A u \in DOMAIN merged : merged[u] \in Row
        BY <1>3, <3>1 DEF Put
      <3>4. DOMAIN new \subseteq TagIds /\ \A u \in DOMAIN new : new[u] \in Row
        BY <1>3, <3>2, <3>3 DEF Without
      <3>5. loaded[source].name \in Labels /\ loaded[target].name \in Labels
        BY <1>3
      <3>6. wanted' \in [Tagged -> SUBSET Labels] /\ mergedNames' \in SUBSET Labels
        BY <1>31, <3>0, <3>5 DEF Replaced
      <3>7. ASSUME NEW a \in Tagged
            PROVE  wanted'[a] \ mergedNames' = wanted[a] \ mergedNames'
        BY <1>31, <3>0 DEF Replaced
      <3>8. History
        BY <3>0, <3>6, <3>7
      <3> HIDE DEF History
      <3> QED BY <3>0, <3>1, <3>2, <3>4, <3>8
    <2> QED BY <2>1, <2>2, <2>3, <2>4
  <1>5. PICK catalogue :
          /\ EndOf(s) /\ History /\ Catalogued(catalogue)
          /\ DOMAIN catalogue \subseteq TagIds
          /\ \A t \in DOMAIN catalogue : catalogue[t] \in Row
    <2> HIDE DEF History
    <2> QED BY <1>4
  <1>6. /\ IsTagging(tagging') /\ UniqueNames(tagging'.catalogue)
        /\ tagging'.labels = tagging.labels
    BY <1>5, CataloguedTables
  <1> QED BY <1>5, <1>6, CatalogueStep

LEMMA LabelHandlers ==
  ASSUME TagsInv, NEW s \in Sessions,
         \/ update_asset_tags(s) \/ patch_asset_tags(s)
         \/ bulk_tag_assets(s) \/ enrich_assets(s)
  PROVE  TagsInv'
  <1>1. \A labels \in SUBSET Labels : ForAll(labels) \in [Tagged -> SUBSET Labels]
    BY DEF ForAll
  <1>2. PICK assets \in SUBSET Tagged,
             add \in [Tagged -> SUBSET Labels], remove \in [Tagged -> SUBSET Labels] :
          Relabel(s, assets, add, remove)
    BY <1>1 DEF update_asset_tags, patch_asset_tags, bulk_tag_assets, enrich_assets
  <1> QED BY <1>2, RelabelStep

LEMMA TagsStep == TagsInv /\ [TagsNext]_<<tagVars, requestVars>> => TagsInv'
  <1> SUFFICES ASSUME TagsInv, [TagsNext]_<<tagVars, requestVars>>
               PROVE  TagsInv'
    OBVIOUS
  <1>1. ASSUME NEW s \in Sessions, ReadTagging(s)
        PROVE  TagsInv'
    <2>1. PICK tables : tables = tagging
      OBVIOUS
    <2>2. /\ ReadBy(s, tables) /\ tagging' = tagging /\ wanted' = wanted
          /\ mergedNames' = mergedNames
      BY <1>1, <2>1 DEF ReadTagging, tagVars
    <2>3. TagsTypeOK'
      BY <2>1, <2>2, ReadingLeaves DEF TagsInv, TagsTypeOK
    <2>4. LabelsCurrent'
      BY <2>1, <2>2, ReadingLeaves DEF TagsInv, LabelsCurrent, LabelsAgree
    <2> QED BY <2>2, <2>3, <2>4, ReadingLeaves DEF TagsInv
  <1>2. ASSUME NEW s \in Sessions, RefusedTag(s)
        PROVE  TagsInv'
    <2>1. EndOf(s) /\ tagging' = tagging /\ wanted' = wanted /\ mergedNames' = mergedNames
      BY <1>2 DEF RefusedTag, tagVars
    <2>2. /\ IsTagging(tagging) /\ UniqueNames(tagging.catalogue)
          /\ wanted \in [Tagged -> SUBSET Labels] /\ mergedNames \in SUBSET Labels
      BY DEF TagsInv, TagsTypeOK
    <2> QED BY <2>1, <2>2, CatalogueStep
  <1>3. CASE UNCHANGED <<tagVars, requestVars>>
    <2>1. /\ tagging' = tagging /\ wanted' = wanted /\ mergedNames' = mergedNames
          /\ seen' = seen /\ isolated' = isolated
      BY <1>3 DEF tagVars, requestVars
    <2> QED BY <2>1 DEF TagsInv, TagsTypeOK, OneAtATime, LabelsCurrent,
                   LabelsAgree, UnderWay
  <1> QED BY <1>1, <1>2, <1>3, CatalogueHandlers, LabelHandlers DEF TagsNext, TagHandler

LEMMA TagsStart == TagsInit => TagsInv
  BY DEF TagsInit, RequestsInit, TagsInv, TagsTypeOK, IsTagging, UniqueNames, OneAtATime,
         LabelsCurrent, LabelsAgree, UnderWay

\* With a single client an asset has the labels that the requests say, whichever of
\* the four endpoints they went to, the names of merged tags apart.
THEOREM LabelsFollow == TagsInit /\ [][TagsNext]_<<tagVars, requestVars>> => []TagsFollow
  <1>1. TagsInv => TagsFollow
    BY DEF TagsInv, LabelsCurrent, LabelsAgree, TagsFollow
  <1> QED BY TagsStart, <1>1, TagsStep, PTL

-----------------------------------------------------------------------------
(* Settings *)

\* With one client, a request has read the document as it is.  (It is not always
\* the document that the answers imply: a Slack workspace is not written.)
DocumentCurrent ==
  isolated => /\ settings.stored = told.stored
              /\ \A s \in UnderWay : seen[s] = settings

SettingsInv == SettingsTypeOK /\ OneAtATime /\ DocumentCurrent

\* A commit, whatever it writes.
LEMMA SettingsCommit ==
  ASSUME SettingsInv, NEW s, EndOf(s), settings' \in Documents, told' \in Documents,
         isolated => settings'.stored = told'.stored
  PROVE  SettingsInv'
  <1>1. SettingsTypeOK'
    BY EndLeaves DEF SettingsInv, SettingsTypeOK
  <1>2. DocumentCurrent'
    BY EndLeaves DEF SettingsInv, DocumentCurrent
  <1> QED BY <1>1, <1>2, EndLeaves DEF SettingsInv

LEMMA UpdateSettings ==
  ASSUME SettingsInv, NEW s \in UnderWay, update_settings(s)
  PROVE  SettingsInv'
  <1>1. settings \in Documents /\ told \in Documents /\ seen[s] \in Documents
    BY DEF SettingsInv, SettingsTypeOK
  <1>2. PICK section \in Sections, keys \in SUBSET Keys :
          \E sent \in [{section} \X keys -> Values] :
            /\ EndOf(s)
            /\ settings' = Put(seen[s],
                               [seen[s] EXCEPT !.stored = deep_merge(@, sent, section)],
                               settings)
            /\ told' = [told EXCEPT !.stored =
                          [k \in DOMAIN @ |-> IF k \in DOMAIN sent THEN sent[k] ELSE @[k]]]
    BY Zenon DEF update_settings
  <1>3. PICK sent \in [{section} \X keys -> Values] :
          /\ EndOf(s)
          /\ settings' = Put(seen[s],
                             [seen[s] EXCEPT !.stored = deep_merge(@, sent, section)],
                             settings)
          /\ told' = [told EXCEPT !.stored =
                        [k \in DOMAIN @ |-> IF k \in DOMAIN sent THEN sent[k] ELSE @[k]]]
    BY <1>2, Zenon
  <1>4. PICK old \in Documents : old = seen[s]
    BY <1>1
  <1>5. PICK result : result = deep_merge(old.stored, sent, section)
    OBVIOUS
  <1>6. PICK kept : kept = [k \in DOMAIN told.stored |->
                             IF k \in DOMAIN sent THEN sent[k] ELSE told.stored[k]]
    OBVIOUS
  <1>7. /\ result \in [Sections \X Keys -> Values \cup {Unset}]
        /\ kept \in [Sections \X Keys -> Values \cup {Unset}]
    BY <1>1, <1>4, <1>5, <1>6 DEF deep_merge, Documents
  <1>8. /\ settings' = Put(old, [old EXCEPT !.stored = result], settings)
        /\ told' = [told EXCEPT !.stored = kept]
    BY <1>3, <1>4, <1>5, <1>6, Zenon
  <1>9. /\ [old EXCEPT !.stored = result] \in Documents
        /\ [old EXCEPT !.stored = result].stored = result
        /\ told' \in Documents /\ told'.stored = kept
    BY <1>1, <1>7, <1>8 DEF Documents
  <1>10. settings' \in Documents
    BY <1>1, <1>8, <1>9 DEF Put
  <1>11. ASSUME isolated
         PROVE  settings'.stored = told'.stored
    <2>1. old = settings /\ settings.stored = told.stored
      BY <1>4, <1>11 DEF SettingsInv, DocumentCurrent
    <2>2. result = kept
      BY <1>1, <1>5, <1>6, <2>1 DEF deep_merge, Documents
    <2>3. settings' = [old EXCEPT !.stored = result]
      BY <1>8, <2>1 DEF Put
    <2> QED BY <1>9, <2>2, <2>3
  <1> QED BY <1>3, <1>9, <1>10, <1>11, SettingsCommit

LEMMA SettingsStep == SettingsInv /\ [SettingsNext]_<<settingsVars, requestVars>> => SettingsInv'
  <1> SUFFICES ASSUME SettingsInv, [SettingsNext]_<<settingsVars, requestVars>>
               PROVE  SettingsInv'
    OBVIOUS
  <1>1. settings \in Documents /\ told \in Documents
    BY DEF SettingsInv, SettingsTypeOK
  <1>2. ASSUME NEW s \in Sessions, ReadSettings(s)
        PROVE  SettingsInv'
    <2>1. PICK document : document = settings
      OBVIOUS
    <2>2. ReadBy(s, document) /\ settings' = settings /\ told' = told
      BY <1>2, <2>1 DEF ReadSettings, settingsVars
    <2>3. SettingsTypeOK'
      BY <2>1, <2>2, ReadingLeaves DEF SettingsInv, SettingsTypeOK
    <2>4. DocumentCurrent'
      BY <2>1, <2>2, ReadingLeaves DEF SettingsInv, DocumentCurrent
    <2> QED BY <2>2, <2>3, <2>4, ReadingLeaves DEF SettingsInv
  <1>3. ASSUME NEW s \in Sessions, RefusedSettings(s)
        PROVE  SettingsInv'
    <2>1. EndOf(s) /\ settings' = settings /\ told' = told
      BY <1>3 DEF RefusedSettings, settingsVars
    <2>2. isolated => settings'.stored = told'.stored
      BY <2>1 DEF SettingsInv, DocumentCurrent
    <2> QED BY <1>1, <2>1, <2>2, SettingsCommit
  <1>4. ASSUME NEW s \in UnderWay, reset_settings(s)
        PROVE  SettingsInv'
    <2>1. EndOf(s) /\ settings' = Put(seen[s], NoSettings, settings) /\ told' = NoSettings
      BY <1>4 DEF reset_settings
    <2>2. NoSettings \in Documents
      BY DEF NoSettings, Documents
    <2>3. settings' \in Documents /\ told' \in Documents
      BY <1>1, <2>1, <2>2 DEF Put
    <2>4. isolated => settings' = NoSettings
      BY <2>1 DEF SettingsInv, DocumentCurrent, Put
    <2> QED BY <2>1, <2>3, <2>4, SettingsCommit
  <1>5. ASSUME NEW s \in UnderWay, handle_slack_callback(s) \/ disconnect_slack(s)
        PROVE  SettingsInv'
    <2>1. PICK team \in Teams \cup {Unset} :
            EndOf(s) /\ settings' = settings /\ told' = [told EXCEPT !.slack = team]
      BY <1>5 DEF handle_slack_callback, disconnect_slack
    <2>2. told' \in Documents /\ told'.stored = told.stored
      BY <1>1, <2>1 DEF Documents
    <2>3. isolated => settings'.stored = told'.stored
      BY <2>1, <2>2 DEF SettingsInv, DocumentCurrent
    <2> QED BY <1>1, <2>1, <2>2, <2>3, SettingsCommit
  <1>6. CASE UNCHANGED <<settingsVars, requestVars>>
    <2>1. settings' = settings /\ told' = told /\ seen' = seen /\ isolated' = isolated
      BY <1>6 DEF settingsVars, requestVars
    <2> QED BY <2>1 DEF SettingsInv, SettingsTypeOK, OneAtATime, DocumentCurrent, UnderWay
  <1> QED BY <1>2, <1>3, <1>4, <1>5, <1>6, UpdateSettings DEF SettingsNext, SettingsHandler

LEMMA SettingsStart == SettingsInit => SettingsInv
  BY DEF SettingsInit, RequestsInit, SettingsInv, SettingsTypeOK, Documents, NoSettings,
         OneAtATime, DocumentCurrent, UnderWay

\* With one client, every setting has the value of the last answer about it,
\* however often the document is merged, reset and written as a whole.
THEOREM SettingsKept == SettingsSpec => []UpdatesKept
  <1>1. SettingsInv => UpdatesKept
    BY DEF SettingsInv, DocumentCurrent, UpdatesKept
  <1> QED BY SettingsStart, <1>1, SettingsStep, PTL DEF SettingsSpec

-----------------------------------------------------------------------------
(* Connections *)

\* What a connection shows is what its last test said.
Shown(row, verdict) ==
  verdict # "edited" =>
    /\ row.status = IF verdict = "none" THEN "active" ELSE "error"
    /\ row.last_error = verdict
    /\ verdict = "missing" => ~(PROVIDER_METADATA[row.provider] \subseteq row.filled)

\* With one client, a request has read the rows as they are.
RowsCurrent ==
  isolated => /\ \A c \in DOMAIN connections : Shown(connections[c], verdicts[c])
              /\ \A s \in UnderWay : seen[s] = connections

ConnectionsInv == ConnectionsTypeOK /\ OneAtATime /\ RowsCurrent

\* The providers and what each requires.
LEMMA ProviderNames ==
  Providers = {"aws", "azure", "gcp", "slack", "jira", "servicenow", "webhook",
               "tenable", "qualys", "rapid7"}
  BY DEF Providers, PROVIDER_METADATA

\* Each check agrees with the table of required fields: it finds something
\* missing only if one of them is empty.
LEMMA ChecksAgree ==
  ASSUME NEW provider \in Providers, NEW filled, NEW answer \in Answers
  PROVE  LET error == check_health(provider, filled, answer) IN
         /\ error \in Errors
         /\ error = "missing" => ~(PROVIDER_METADATA[provider] \subseteq filled)
  <1>1. "missing" \notin Answers /\ "none" # "missing"
    BY DEF Answers
  <1>2. \A fields, accepted :
          LET error == Needing(fields, filled, Only(accepted, answer)) IN
          /\ error \in Errors
          /\ error = "missing" => ~(fields \subseteq filled)
    BY <1>1 DEF Needing, Only, Errors
  <1>3. CASE provider = "aws"
    <2>1. {"access_key_id", "secret_access_key"} \subseteq PROVIDER_METADATA["aws"]
      BY DEF PROVIDER_METADATA
    <2> QED BY <1>2, <1>3, <2>1 DEF check_health, check_aws
  <1>4. CASE provider = "azure"
    BY <1>2, <1>4 DEF check_health, check_azure, PROVIDER_METADATA
  <1>5. CASE provider = "gcp"
    BY <1>2, <1>5 DEF check_health, check_gcp, PROVIDER_METADATA
  <1>6. CASE provider = "slack"
    BY <1>2, <1>6 DEF check_health, check_slack, PROVIDER_METADATA
  <1>7. CASE provider = "jira"
    BY <1>2, <1>7 DEF check_health, check_jira, PROVIDER_METADATA
  <1>8. CASE provider = "servicenow"
    BY <1>2, <1>8 DEF check_health, check_servicenow, PROVIDER_METADATA
  <1>9. CASE provider = "webhook"
    BY <1>2, <1>9 DEF check_health, check_webhook, PROVIDER_METADATA
  <1>10. CASE provider = "tenable"
    BY <1>2, <1>10 DEF check_health, check_tenable, PROVIDER_METADATA
  <1>11. CASE provider = "qualys"
    BY <1>2, <1>11 DEF check_health, check_qualys, PROVIDER_METADATA
  <1>12. CASE provider = "rapid7"
    BY <1>2, <1>12 DEF check_health, check_rapid7, PROVIDER_METADATA
  <1> QED BY <1>3, <1>4, <1>5, <1>6, <1>7, <1>8, <1>9, <1>10, <1>11, <1>12, ProviderNames

\* An UPDATE leaves a row, which is what the request meant if it read it as it was.
LEMMA UpdatedRow ==
  ASSUME NEW row \in ConnectionRows, NEW old \in ConnectionRows,
         NEW status \in Statuses, NEW error \in Errors, NEW filled \in SUBSET AllFields
  PROVE  LET new == [provider |-> row.provider,
                     status |-> Put(old.status, status, row.status),
                     last_error |-> Put(old.last_error, error, row.last_error),
                     filled |-> Put(old.filled, filled, row.filled)] IN
         /\ new \in ConnectionRows
         /\ old = row => /\ new.provider = row.provider /\ new.status = status
                         /\ new.last_error = error /\ new.filled = filled
  BY DEF ConnectionRows, Put

LEMMA UpdateStores ==
  ASSUME ConnectionsInv, NEW s \in UnderWay, NEW c, NEW status \in Statuses,
         NEW error \in Errors, NEW filled \in SUBSET AllFields,
         UpdateRow(s, c, status, error, filled)
  PROVE  /\ EndOf(s) /\ c \in DOMAIN connections /\ IsTable(connections')
         /\ DOMAIN connections' = DOMAIN connections
         /\ \A d \in DOMAIN connections \ {c} : connections'[d] = connections[d]
         /\ isolated => /\ connections'[c].provider = connections[c].provider
                        /\ connections'[c].status = status
                        /\ connections'[c].last_error = error
                        /\ connections'[c].filled = filled
  <1>1. IsTable(connections) /\ IsTable(seen[s]) /\ c \in DOMAIN seen[s] \cap DOMAIN connections
    BY DEF ConnectionsInv, ConnectionsTypeOK, UpdateRow
  <1>2. PICK row \in ConnectionRows : row = connections[c]
    BY <1>1 DEF IsTable
  <1>3. PICK old \in ConnectionRows : old = seen[s][c]
    BY <1>1 DEF IsTable
  <1>4. PICK new : new = [row EXCEPT !.status = Put(old.status, status, @),
                                     !.last_error = Put(old.last_error, error, @),
                                     !.filled = Put(old.filled, filled, @)]
    OBVIOUS
  <1>5. new = [provider |-> row.provider,
               status |-> Put(old.status, status, row.status),
               last_error |-> Put(old.last_error, error, row.last_error),
               filled |-> Put(old.filled, filled, row.filled)]
    BY <1>4 DEF ConnectionRows
  <1>6. connections' = [connections EXCEPT ![c] = new]
    BY <1>2, <1>3, <1>4 DEF UpdateRow
  <1>7. /\ new \in ConnectionRows
        /\ old = row => /\ new.provider = row.provider /\ new.status = status
                        /\ new.last_error = error /\ new.filled = filled
    BY <1>5, UpdatedRow
  <1>8. /\ DOMAIN connections' = DOMAIN connections /\ connections'[c] = new
        /\ \A d \in DOMAIN connections \ {c} : connections'[d] = connections[d]
    BY <1>1, <1>6
  <1>9. IsTable(connections')
    BY <1>1, <1>7, <1>8 DEF IsTable
  <1>10. isolated => old = row
    BY <1>2, <1>3 DEF ConnectionsInv, RowsCurrent
  <1>11. EndOf(s)
    BY DEF UpdateRow
  <1> QED BY <1>1, <1>2, <1>7, <1>8, <1>9, <1>10, <1>11

\* A commit leaves the rows typed, and the shown ones as they should be.
LEMMA ConnectionCommit ==
  ASSUME ConnectionsInv, NEW s, EndOf(s), IsTable(connections'),
         DOMAIN connections' \subseteq DOMAIN verdicts',
         \A c \in DOMAIN verdicts' : verdicts'[c] \in Errors \cup {"edited"},
         isolated => \A c \in DOMAIN connections' : Shown(connections'[c], verdicts'[c])
  PROVE  ConnectionsInv'
  <1>1. ConnectionsTypeOK'
    BY EndLeaves DEF ConnectionsInv, ConnectionsTypeOK
  <1>2. RowsCurrent'
    <2>1. ASSUME isolated', NEW c \in DOMAIN connections'
          PROVE  Shown(connections[c], verdicts[c])'
      <3>1. Shown(connections'[c], verdicts'[c])
        BY <2>1, EndLeaves
      <3> QED BY <3>1 DEF Shown
    <2> QED BY <2>1, EndLeaves DEF ConnectionsInv, RowsCurrent
  <1> QED BY <1>1, <1>2, EndLeaves DEF ConnectionsInv

LEMMA SentFields == \A provider \in Providers : Sent(provider) \subseteq SUBSET AllFields
  BY DEF Sent, AllFields

LEMMA CreateConnection ==
  ASSUME ConnectionsInv, NEW s \in UnderWay, create_connection(s)
  PROVE  ConnectionsInv'
  <1>1. PICK c \in ConnectionIds \ DOMAIN verdicts, p \in Providers :
          \E filled \in Sent(p) :
            /\ EndOf(s)
            /\ connections' =
                 Inserted(connections, c, [provider |-> p, filled |-> filled,
                                           status |-> "pending", last_error |-> "none"])
            /\ verdicts' = Inserted(verdicts, c, "edited")
    BY DEF create_connection
  <1>2. PICK filled \in Sent(p) :
            /\ EndOf(s)
            /\ connections' =
                 Inserted(connections, c, [provider |-> p, filled |-> filled,
                                           status |-> "pending", last_error |-> "none"])
            /\ verdicts' = Inserted(verdicts, c, "edited")
    BY <1>1
  <1>3. PICK row : row = [provider |-> p, filled |-> filled,
                          status |-> "pending", last_error |-> "none"]
    OBVIOUS
  <1>4. row \in ConnectionRows
    BY <1>3, SentFields DEF ConnectionRows, Statuses, Errors
  <1>5. /\ IsTable(connections) /\ DOMAIN connections \subseteq DOMAIN verdicts
        /\ \A d \in DOMAIN verdicts : verdicts[d] \in Errors \cup {"edited"}
    BY DEF ConnectionsInv, ConnectionsTypeOK
  <1>6. /\ DOMAIN connections' = DOMAIN connections \cup {c}
        /\ DOMAIN verdicts' = DOMAIN verdicts \cup {c}
        /\ connections'[c] = row /\ verdicts'[c] = "edited"
        /\ \A d \in DOMAIN connections : connections'[d] = connections[d]
        /\ \A d \in DOMAIN verdicts : verdicts'[d] = verdicts[d]
    BY <1>2, <1>3, <1>5 DEF Inserted
  <1>7. IsTable(connections')
    BY <1>4, <1>5, <1>6 DEF IsTable
  <1>8. isolated => \A d \in DOMAIN connections' : Shown(connections'[d], verdicts'[d])
    BY <1>5, <1>6 DEF ConnectionsInv, RowsCurrent, Shown
  <1> QED BY <1>2, <1>5, <1>6, <1>7, <1>8, ConnectionCommit

LEMMA UpdateConnection ==
  ASSUME ConnectionsInv, NEW s \in UnderWay, update_connection(s)
  PROVE  ConnectionsInv'
  <1>1. PICK c \in DOMAIN seen[s] :
          \E filled \in Sent(seen[s][c].provider),
             status \in {seen[s][c].status, "active", "disabled"} :
            /\ UpdateRow(s, c, status, seen[s][c].last_error, filled)
            /\ verdicts' = [verdicts EXCEPT ![c] = "edited"]
    BY DEF update_connection
  <1>2. PICK old \in ConnectionRows : old = seen[s][c]
    BY DEF ConnectionsInv, ConnectionsTypeOK, IsTable
  <1>3. PICK filled \in Sent(old.provider), status \in {old.status, "active", "disabled"} :
          /\ UpdateRow(s, c, status, old.last_error, filled)
          /\ verdicts' = [verdicts EXCEPT ![c] = "edited"]
    BY <1>1, <1>2
  <1>4. filled \in SUBSET AllFields /\ status \in Statuses /\ old.last_error \in Errors
    BY SentFields DEF ConnectionRows, Statuses
  <1>5. PICK error \in Errors : error = old.last_error
    BY <1>4
  <1>6. UpdateRow(s, c, status, error, filled)
    BY <1>3, <1>5
  <1>7. /\ EndOf(s) /\ IsTable(connections') /\ DOMAIN connections' = DOMAIN connections
        /\ \A d \in DOMAIN connections \ {c} : connections'[d] = connections[d]
    BY <1>4, <1>6, UpdateStores
  <1>8. /\ DOMAIN connections \subseteq DOMAIN verdicts
        /\ \A d \in DOMAIN verdicts : verdicts[d] \in Errors \cup {"edited"}
    BY DEF ConnectionsInv, ConnectionsTypeOK
  <1>9. /\ DOMAIN verdicts' = DOMAIN verdicts
        /\ \A d \in DOMAIN verdicts : verdicts'[d] = IF d = c THEN "edited" ELSE verdicts[d]
    BY <1>3
  <1>10. isolated => \A d \in DOMAIN connections' : Shown(connections'[d], verdicts'[d])
    BY <1>7, <1>8, <1>9 DEF ConnectionsInv, RowsCurrent, Shown
  <1> QED BY <1>7, <1>8, <1>9, <1>10, ConnectionCommit

LEMMA DeleteConnection ==
  ASSUME ConnectionsInv, NEW s \in UnderWay, delete_connection(s)
  PROVE  ConnectionsInv'
  <1>1. PICK c \in DOMAIN seen[s] :
          /\ EndOf(s)
          /\ connections' = [d \in DOMAIN connections \ {c} |-> connections[d]]
          /\ verdicts' = verdicts
    BY DEF delete_connection
  <1>2. /\ IsTable(connections) /\ DOMAIN connections \subseteq DOMAIN verdicts
        /\ \A d \in DOMAIN verdicts : verdicts[d] \in Errors \cup {"edited"}
    BY DEF ConnectionsInv, ConnectionsTypeOK
  <1>3. IsTable(connections')
    BY <1>1, <1>2 DEF IsTable
  <1>4. isolated => \A d \in DOMAIN connections' : Shown(connections'[d], verdicts'[d])
    BY <1>1 DEF ConnectionsInv, RowsCurrent
  <1> QED BY <1>1, <1>2, <1>3, <1>4, ConnectionCommit

LEMMA TestConnection ==
  ASSUME ConnectionsInv, NEW s \in UnderWay, test_connection(s)
  PROVE  ConnectionsInv'
  <1>1. PICK c \in DOMAIN seen[s], answer \in Answers :
          LET old == seen[s][c]
              error == check_health(old.provider, old.filled, answer)
          IN /\ UpdateRow(s, c, IF error = "none" THEN "active" ELSE "error", error, old.filled)
             /\ verdicts' = [verdicts EXCEPT ![c] = error]
    BY DEF test_connection
  <1>2. PICK old \in ConnectionRows : old = seen[s][c]
    BY DEF ConnectionsInv, ConnectionsTypeOK, IsTable
  <1>3. PICK error \in Errors :
          /\ error = check_health(old.provider, old.filled, answer)
          /\ error = "missing" => ~(PROVIDER_METADATA[old.provider] \subseteq old.filled)
    BY ChecksAgree DEF ConnectionRows
  <1>4. PICK status \in Statuses : status = IF error = "none" THEN "active" ELSE "error"
    BY DEF Statuses
  <1>5. PICK filled \in SUBSET AllFields : filled = old.filled
    BY DEF ConnectionRows
  <1>6. /\ UpdateRow(s, c, status, error, filled)
        /\ verdicts' = [verdicts EXCEPT ![c] = error]
    BY <1>1, <1>2, <1>3, <1>4, <1>5
  <1>7. error = "missing" => ~(PROVIDER_METADATA[old.provider] \subseteq old.filled)
    BY <1>3
  <1>8. /\ EndOf(s) /\ IsTable(connections') /\ DOMAIN connections' = DOMAIN connections
        /\ c \in DOMAIN connections
        /\ \A d \in DOMAIN connections \ {c} : connections'[d] = connections[d]
        /\ isolated => /\ connections'[c].provider = connections[c].provider
                       /\ connections'[c].status = status
                       /\ connections'[c].last_error = error
                       /\ connections'[c].filled = filled
    <2>1. UpdateRow(s, c, status, error, filled)
      BY <1>6
    <2>2. /\ EndOf(s) /\ IsTable(connections') /\ DOMAIN connections' = DOMAIN connections
          /\ c \in DOMAIN connections
          /\ \A d \in DOMAIN connections \ {c} : connections'[d] = connections[d]
      BY <2>1, UpdateStores
    <2>3. isolated => /\ connections'[c].provider = connections[c].provider
                      /\ connections'[c].status = status
                      /\ connections'[c].last_error = error
                      /\ connections'[c].filled = filled
      BY <2>1, UpdateStores
    <2> QED BY <2>2, <2>3, Zenon
  <1>9. /\ DOMAIN connections \subseteq DOMAIN verdicts
        /\ \A d \in DOMAIN verdicts : verdicts[d] \in Errors \cup {"edited"}
    BY DEF ConnectionsInv, ConnectionsTypeOK
  <1>10. /\ DOMAIN verdicts' = DOMAIN verdicts
         /\ \A d \in DOMAIN verdicts : verdicts'[d] = IF d = c THEN error ELSE verdicts[d]
    BY <1>6
  <1>11. isolated => old.provider = connections[c].provider
    BY <1>2 DEF ConnectionsInv, RowsCurrent
  <1>12. isolated => Shown(connections'[c], verdicts'[c])
    BY <1>4, <1>5, <1>7, <1>8, <1>9, <1>10, <1>11 DEF Shown
  <1>13. isolated => \A d \in DOMAIN connections' : Shown(connections'[d], verdicts'[d])
    BY <1>8, <1>9, <1>10, <1>12 DEF ConnectionsInv, RowsCurrent
  <1> QED BY <1>8, <1>9, <1>10, <1>13, ConnectionCommit

LEMMA ConnectionsStep ==
  ConnectionsInv /\ [ConnectionsNext]_<<connectionVars, requestVars>> => ConnectionsInv'
  <1> SUFFICES ASSUME ConnectionsInv, [ConnectionsNext]_<<connectionVars, requestVars>>
               PROVE  ConnectionsInv'
    OBVIOUS
  <1>1. ASSUME NEW s \in Sessions, ReadConnections(s)
        PROVE  ConnectionsInv'
    <2>1. PICK table : table = connections
      OBVIOUS
    <2>2. ReadBy(s, table) /\ connections' = connections /\ verdicts' = verdicts
      BY <1>1, <2>1 DEF ReadConnections, connectionVars
    <2>3. ConnectionsTypeOK'
      BY <2>1, <2>2, ReadingLeaves DEF ConnectionsInv, ConnectionsTypeOK
    <2>4. RowsCurrent'
      <3>1. \A c \in DOMAIN connections : Shown(connections[c], verdicts[c])
                                         => Shown(connections[c], verdicts[c])'
        BY <2>2 DEF Shown
      <3> QED BY <2>1, <2>2, <3>1, ReadingLeaves DEF ConnectionsInv, RowsCurrent
    <2> QED BY <2>2, <2>3, <2>4, ReadingLeaves DEF ConnectionsInv
  <1>2. ASSUME NEW s \in Sessions, RefusedConnection(s)
        PROVE  ConnectionsInv'
    <2>1. EndOf(s) /\ connections' = connections /\ verdicts' = verdicts
      BY <1>2 DEF RefusedConnection, connectionVars
    <2>2. /\ IsTable(connections') /\ DOMAIN connections' \subseteq DOMAIN verdicts'
          /\ \A c \in DOMAIN verdicts' : verdicts'[c] \in Errors \cup {"edited"}
          /\ isolated => \A c \in DOMAIN connections' : Shown(connections'[c], verdicts'[c])
      BY <2>1 DEF ConnectionsInv, ConnectionsTypeOK, RowsCurrent
    <2> QED BY <2>1, <2>2, ConnectionCommit
  <1>3. CASE UNCHANGED <<connectionVars, requestVars>>
    <2>1. /\ connections' = connections /\ verdicts' = verdicts
          /\ seen' = seen /\ isolated' = isolated
      BY <1>3 DEF connectionVars, requestVars
    <2> QED BY <2>1 DEF ConnectionsInv, ConnectionsTypeOK, OneAtATime, RowsCurrent, Shown,
                        UnderWay
  <1> QED BY <1>1, <1>2, <1>3, CreateConnection, UpdateConnection, DeleteConnection,
             TestConnection
             DEF ConnectionsNext, ConnectionHandler

LEMMA ConnectionsStart == ConnectionsInit => ConnectionsInv
  BY DEF ConnectionsInit, RequestsInit, ConnectionsInv, ConnectionsTypeOK, IsTable,
         OneAtATime, RowsCurrent, UnderWay

\* With one client, a connection that was not edited since its last test shows
\* the answer to that test, and the ten checks ask for no more than the table of
\* required fields does.
THEOREM VerdictsShown ==
  ConnectionsInit /\ [][ConnectionsNext]_<<connectionVars, requestVars>> => []ConnectionVerdicts
  <1>1. ConnectionsInv => ConnectionVerdicts
    BY DEF ConnectionsInv, RowsCurrent, Shown, ConnectionVerdicts
  <1> QED BY ConnectionsStart, <1>1, ConnectionsStep, PTL

-----------------------------------------------------------------------------
(* Snapshots and rollbacks *)

\* Without the bounds on what is counted, which nothing below depends on.
RollbackTables ==
  [snapshots : Nat, status : [Rollbacks -> RollbackStatus], restores : [Rollbacks -> Nat]]

RollbacksTyped ==
  /\ records \in RollbackTables
  /\ runs \in [Rollbacks -> Nat]
  /\ UnderWay \subseteq Sessions
  /\ \A s \in UnderWay : seen[s] \in [tables : RollbackTables, executing : SUBSET Rollbacks]

\* The requests that may still start a rollback: they have read that it is PENDING.
Starters(r) ==
  {s \in UnderWay : seen[s].executing = {} /\ Executable(seen[s].tables.status[r])}

\* A rollback that has not left PENDING was not started, and it does not return
\* there: who will start it later has read it already.
StartsBounded ==
  \A r \in Rollbacks :
    /\ records.status[r] \in {"absent", "PENDING"} => runs[r] = 0
    /\ runs[r] + Cardinality(Starters(r)) <= Cardinality(Sessions)

\* With one client, who may start a rollback has read the tables as they are.
TablesCurrent ==
  isolated => /\ \A r \in Rollbacks : runs[r] <= 1
              /\ \A s \in UnderWay : seen[s].executing = {} => seen[s].tables = records

\* Whoever works on a rollback works on one that was made, for the first snapshot.
Made ==
  /\ RollbackRestoresOriginal
  /\ \A s \in UnderWay : \A r \in Rollbacks :
       r \in seen[s].executing \/ seen[s].tables.status[r] # "absent"
         => records.status[r] # "absent"

SnapshotInv ==
  RollbacksTyped /\ OneAtATime /\ StartsBounded /\ TablesCurrent /\ Made

LEMMA FewerStarters ==
  ASSUME NEW S \in SUBSET Sessions, NEW T \in SUBSET S
  PROVE  /\ Cardinality(S) \in Nat /\ Cardinality(T) \in Nat
         /\ Cardinality(Sessions) \in Nat
         /\ Cardinality(T) <= Cardinality(S) /\ Cardinality(S) <= Cardinality(Sessions)
         /\ \A s \in S : Cardinality(S \ {s}) = Cardinality(S) - 1
  <1>1. IsFiniteSet(Sessions) /\ IsFiniteSet(S) /\ IsFiniteSet(T)
    BY SnapshotAssumption, FS_Subset
  <1>2. Cardinality(T) <= Cardinality(S) /\ Cardinality(S) <= Cardinality(Sessions)
    BY <1>1, FS_Subset
  <1>3. \A s \in S : Cardinality(S \ {s}) = Cardinality(S) - 1
    BY <1>1, FS_RemoveElement
  <1> QED BY <1>1, <1>2, <1>3, FS_CardinalityType

\* A request that ends, and whose commit moves at most one rollback, and that one
\* on.
LEMMA RollbackCommit ==
  ASSUME SnapshotInv, NEW s, EndOf(s), records' \in RollbackTables, runs' = runs,
         \A r \in Rollbacks :
           /\ records.status[r] # "absent" => records'.status[r] # "absent"
           /\ records'.status[r] \in {"absent", "PENDING"}
                => records.status[r] \in {"absent", "PENDING"}
           /\ records'.status[r] # "absent" => records'.restores[r] = 1
  PROVE  SnapshotInv'
  <1>1. RollbacksTyped'
    BY EndLeaves DEF SnapshotInv, RollbacksTyped
  <1>2. StartsBounded'
    <2> SUFFICES ASSUME NEW r \in Rollbacks
                 PROVE  /\ records'.status[r] \in {"absent", "PENDING"} => runs'[r] = 0
                        /\ runs'[r] + Cardinality(Starters(r)') <= Cardinality(Sessions)
      BY DEF StartsBounded
    <2>1. Starters(r)' \subseteq Starters(r)
      BY EndLeaves DEF Starters, Executable
    <2>2. Starters(r) \subseteq Sessions
      BY DEF Starters, SnapshotInv, RollbacksTyped
    <2>3. PICK S \in SUBSET Sessions : S = Starters(r)
      BY <2>2
    <2>4. PICK T \in SUBSET S : T = Starters(r)'
      BY <2>1, <2>3
    <2>5. runs[r] + Cardinality(S) <= Cardinality(Sessions) /\ runs[r] \in Nat
      BY <2>3 DEF SnapshotInv, StartsBounded, RollbacksTyped
    <2>6. runs[r] + Cardinality(T) <= Cardinality(Sessions)
      BY <2>5, FewerStarters
    <2> QED BY <2>4, <2>6 DEF SnapshotInv, StartsBounded
  <1>3. TablesCurrent'
    BY EndLeaves DEF SnapshotInv, TablesCurrent
  <1>4. Made'
    BY EndLeaves DEF SnapshotInv, Made, RollbackRestoresOriginal
  <1> QED BY <1>1, <1>2, <1>3, <1>4, EndLeaves DEF SnapshotInv

LEMMA RecordsRead ==
  ASSUME SnapshotInv, NEW s \in Sessions, ReadRecords(s)
  PROVE  SnapshotInv'
  <1>1. PICK copy : copy = [tables |-> records, executing |-> {}]
    OBVIOUS
  <1>2. ReadBy(s, copy) /\ records' = records /\ runs' = runs
    BY <1>1 DEF ReadRecords, snapshotVars
  <1>3. records \in RollbackTables /\ copy \in [tables : RollbackTables, executing : SUBSET Rollbacks]
    BY <1>1 DEF SnapshotInv, RollbacksTyped
  <1>4. RollbacksTyped'
    BY <1>2, <1>3, ReadingLeaves DEF SnapshotInv, RollbacksTyped
  <1>5. StartsBounded'
    <2> SUFFICES ASSUME NEW r \in Rollbacks
                 PROVE  runs[r] + Cardinality(Starters(r)') <= Cardinality(Sessions)
      BY <1>2 DEF SnapshotInv, StartsBounded
    <2>1. Starters(r) \subseteq Sessions /\ Starters(r)' \subseteq Sessions
      BY <1>4 DEF Starters, SnapshotInv, RollbacksTyped
    <2>2. runs[r] + Cardinality(Starters(r)) <= Cardinality(Sessions) /\ runs[r] \in Nat
      BY DEF SnapshotInv, StartsBounded, RollbacksTyped
    <2>3. CASE Executable(records.status[r])
      <3>1. runs[r] = 0
        BY <2>3 DEF Executable, SnapshotInv, StartsBounded
      <3>2. PICK T \in SUBSET Sessions : T = Starters(r)'
        BY <2>1
      <3>3. Cardinality(T) <= Cardinality(Sessions) /\ Cardinality(T) \in Nat
        BY FewerStarters
      <3> QED BY <3>1, <3>2, <3>3
    <2>4. CASE ~Executable(records.status[r])
      <3>1. Starters(r)' = Starters(r)
        BY <1>1, <1>2, <2>4, ReadingLeaves DEF Starters, Executable
      <3> QED BY <2>2, <3>1
    <2> QED BY <2>3, <2>4
  <1>6. TablesCurrent'
    <2>1. copy.tables = records
      BY <1>1
    <2>2. seen'[s].tables = records /\ \A t \in UnderWay : seen'[t] = seen[t]
      BY <1>2, <2>1, ReadingLeaves
    <2>3. ASSUME isolated, NEW t \in UnderWay'
          PROVE  seen'[t].tables = records'
      BY <1>2, <2>2, <2>3, ReadingLeaves
    <2>4. \A q \in Rollbacks : isolated => runs'[q] <= 1
      BY <1>2 DEF SnapshotInv, TablesCurrent
    <2> QED BY <1>2, <2>3, <2>4, ReadingLeaves DEF TablesCurrent
  <1>7. Made'
    BY <1>1, <1>2, ReadingLeaves DEF SnapshotInv, Made, RollbackRestoresOriginal
  <1> QED BY <1>2, <1>4, <1>5, <1>6, <1>7, ReadingLeaves DEF SnapshotInv

LEMMA SnapshotCaptured ==
  ASSUME SnapshotInv, NEW s \in Sessions, capture_snapshot(s)
  PROVE  SnapshotInv'
  <1>1. /\ EndOf(s) /\ runs' = runs
        /\ records' = [records EXCEPT !.snapshots = @ + 1]
    BY DEF capture_snapshot
  <1>2. records \in RollbackTables
    BY DEF SnapshotInv, RollbacksTyped
  <1>3. /\ records' \in RollbackTables
        /\ records'.status = records.status /\ records'.restores = records.restores
    BY <1>1, <1>2 DEF RollbackTables
  <1> QED BY <1>1, <1>3, RollbackCommit DEF SnapshotInv, Made, RollbackRestoresOriginal

LEMMA RollbackInitiated ==
  ASSUME SnapshotInv, NEW s \in Sessions, initiate_rollback(s)
  PROVE  SnapshotInv'
  <1>1. PICK r \in Rollbacks, n \in SnapshotFound(seen[s].tables) :
          /\ records.status[r] = "absent"
          /\ records' = [records EXCEPT !.status[r] = "PENDING", !.restores[r] = n]
    BY DEF initiate_rollback
  <1>2. EndOf(s) /\ runs' = runs /\ n = 1
    BY DEF initiate_rollback, SnapshotFound
  <1>3. records \in RollbackTables
    BY DEF SnapshotInv, RollbacksTyped
  <1>4. PICK status : status = [records.status EXCEPT ![r] = "PENDING"]
    OBVIOUS
  <1>5. PICK restores : restores = [records.restores EXCEPT ![r] = 1]
    OBVIOUS
  <1>6. status \in [Rollbacks -> RollbackStatus] /\ restores \in [Rollbacks -> Nat]
    BY <1>3, <1>4, <1>5 DEF RollbackTables, RollbackStatus
  <1>7. /\ records' \in RollbackTables
        /\ records'.status = status /\ records'.restores = restores
    BY <1>1, <1>2, <1>3, <1>4, <1>5, <1>6 DEF RollbackTables
  <1>8. \A q \in Rollbacks :
          /\ status[q] = IF q = r THEN "PENDING" ELSE records.status[q]
          /\ restores[q] = IF q = r THEN 1 ELSE records.restores[q]
    BY <1>3, <1>4, <1>5 DEF RollbackTables
  <1>9. \A q \in Rollbacks :
          /\ records.status[q] # "absent" => records'.status[q] # "absent"
          /\ records'.status[q] \in {"absent", "PENDING"}
               => records.status[q] \in {"absent", "PENDING"}
          /\ records'.status[q] # "absent" => records'.restores[q] = 1
    BY <1>1, <1>7, <1>8 DEF SnapshotInv, Made, RollbackRestoresOriginal
  <1> QED BY <1>2, <1>7, <1>9, RollbackCommit

LEMMA RollbackFinished ==
  ASSUME SnapshotInv, NEW s \in Sessions, finish_rollback(s)
  PROVE  SnapshotInv'
  <1>1. PICK r \in seen[s].executing, outcome \in {"COMPLETED", "FAILED"} :
          records' = [records EXCEPT !.status[r] = outcome]
    BY DEF finish_rollback
  <1>2. EndOf(s) /\ runs' = runs /\ s \in UnderWay
    BY DEF finish_rollback
  <1>3. records \in RollbackTables /\ r \in Rollbacks /\ records.status[r] # "absent"
    BY <1>2 DEF SnapshotInv, RollbacksTyped, Made
  <1>4. PICK status : status = [records.status EXCEPT ![r] = outcome]
    OBVIOUS
  <1>5. status \in [Rollbacks -> RollbackStatus]
    BY <1>3, <1>4 DEF RollbackTables, RollbackStatus
  <1>6. /\ records' \in RollbackTables
        /\ records'.status = status /\ records'.restores = records.restores
    BY <1>1, <1>3, <1>4, <1>5 DEF RollbackTables
  <1>7. \A q \in Rollbacks : status[q] = IF q = r THEN outcome ELSE records.status[q]
    BY <1>3, <1>4 DEF RollbackTables
  <1> QED BY <1>2, <1>3, <1>6, <1>7, RollbackCommit
          DEF SnapshotInv, Made, RollbackRestoresOriginal

\* A rollback is started: by one less of those that may start it.
LEMMA RollbackExecuted ==
  ASSUME SnapshotInv, NEW s \in Sessions, execute_rollback(s)
  PROVE  SnapshotInv'
  <1>1. PICK r \in Rollbacks :
          /\ Executable(seen[s].tables.status[r])
          /\ GoesOn(s, [seen[s] EXCEPT !.executing = {r}])
          /\ records' = [records EXCEPT !.status[r] = "IN_PROGRESS"]
          /\ runs' = [runs EXCEPT ![r] = @ + 1]
    BY DEF execute_rollback
  <1>2. s \in UnderWay /\ seen[s].executing = {}
    BY DEF execute_rollback
  <1>3. PICK old \in [tables : RollbackTables, executing : SUBSET Rollbacks] : old = seen[s]
    BY <1>2 DEF SnapshotInv, RollbacksTyped
  <1>4. PICK x : x = [old EXCEPT !.executing = {r}]
    OBVIOUS
  <1>5. /\ x \in [tables : RollbackTables, executing : SUBSET Rollbacks]
        /\ x.tables = old.tables /\ x.executing = {r}
    BY <1>4
  <1>6. /\ UnderWay' = UnderWay /\ isolated' = isolated
        /\ seen'[s] = x /\ \A t \in UnderWay \ {s} : seen'[t] = seen[t]
    BY <1>1, <1>2, <1>3, <1>4 DEF GoesOn, UnderWay
  <1>7. records \in RollbackTables /\ runs \in [Rollbacks -> Nat]
    BY DEF SnapshotInv, RollbacksTyped
  <1>8. PICK status : status = [records.status EXCEPT ![r] = "IN_PROGRESS"]
    OBVIOUS
  <1>9. status \in [Rollbacks -> RollbackStatus]
    BY <1>7, <1>8 DEF RollbackTables, RollbackStatus
  <1>10. /\ records' \in RollbackTables
         /\ records'.status = status /\ records'.restores = records.restores
    BY <1>1, <1>7, <1>8, <1>9 DEF RollbackTables
  <1>11. \A q \in Rollbacks :
           /\ status[q] = IF q = r THEN "IN_PROGRESS" ELSE records.status[q]
           /\ runs'[q] = IF q = r THEN runs[r] + 1 ELSE runs[q]
    BY <1>1, <1>7, <1>8 DEF RollbackTables
  <1>12. records.status[r] # "absent"
    BY <1>1, <1>2 DEF SnapshotInv, Made, Executable
  <1>13. RollbacksTyped'
    <2>1. runs' \in [Rollbacks -> Nat]
      BY <1>1, <1>7
    <2> QED BY <1>5, <1>6, <1>10, <2>1 DEF SnapshotInv, RollbacksTyped
  <1>14. StartsBounded'
    <2> SUFFICES ASSUME NEW q \in Rollbacks
                 PROVE  /\ records'.status[q] \in {"absent", "PENDING"} => runs'[q] = 0
                        /\ runs'[q] + Cardinality(Starters(q)') <= Cardinality(Sessions)
      BY DEF StartsBounded
    <2>1. /\ Starters(q) \subseteq Sessions
          /\ Starters(q)' = Starters(q) \ {s}
          /\ q = r => s \in Starters(q)
      BY <1>1, <1>2, <1>5, <1>6 DEF Starters, Executable, SnapshotInv, RollbacksTyped
    <2>2. PICK S \in SUBSET Sessions : S = Starters(q)
      BY <2>1
    <2>3. PICK T \in SUBSET S : T = S \ {s}
      OBVIOUS
    <2>4. Starters(q)' = T
      BY <2>1, <2>2, <2>3
    <2>5. /\ Cardinality(S) \in Nat /\ Cardinality(T) \in Nat
          /\ Cardinality(Sessions) \in Nat
          /\ Cardinality(T) <= Cardinality(S)
          /\ q = r => Cardinality(T) = Cardinality(S) - 1
      BY <2>1, <2>2, <2>3, FewerStarters
    <2>6. runs[q] + Cardinality(S) <= Cardinality(Sessions) /\ runs[q] \in Nat
      BY <1>7, <2>2 DEF SnapshotInv, StartsBounded
    <2>7. runs'[q] + Cardinality(T) <= Cardinality(Sessions)
      BY <1>11, <2>5, <2>6
    <2>8. records'.status[q] \in {"absent", "PENDING"} => runs'[q] = 0
      BY <1>10, <1>11 DEF SnapshotInv, StartsBounded
    <2> QED BY <2>4, <2>7, <2>8
  <1>15. TablesCurrent'
    <2> SUFFICES ASSUME isolated
                 PROVE  /\ \A q \in Rollbacks : runs'[q] <= 1
                        /\ \A t \in UnderWay : seen'[t].executing # {}
      BY <1>6 DEF TablesCurrent
    <2>1. runs[r] = 0
      BY <1>1, <1>2 DEF SnapshotInv, TablesCurrent, StartsBounded, Executable
    <2>2. \A q \in Rollbacks : runs'[q] <= 1
      BY <1>11, <2>1 DEF SnapshotInv, TablesCurrent
    <2>3. \A t \in UnderWay : t = s
      BY <1>2 DEF SnapshotInv, OneAtATime
    <2> QED BY <1>5, <1>6, <2>2, <2>3
  <1>16. Made'
    <2>1. RollbackRestoresOriginal'
      BY <1>10, <1>11, <1>12 DEF SnapshotInv, Made, RollbackRestoresOriginal
    <2>2. ASSUME NEW t \in UnderWay, NEW q \in Rollbacks,
                 q \in seen'[t].executing \/ seen'[t].tables.status[q] # "absent"
          PROVE  records'.status[q] # "absent"
      <3>1. q = r \/ q \in seen[t].executing \/ seen[t].tables.status[q] # "absent"
        BY <1>3, <1>5, <1>6, <2>2
      <3> QED BY <1>10, <1>11, <1>12, <3>1 DEF SnapshotInv, Made
    <2> QED BY <1>6, <2>1, <2>2 DEF Made
  <1>17. OneAtATime'
    BY <1>6 DEF SnapshotInv, OneAtATime
  <1> QED BY <1>13, <1>14, <1>15, <1>16, <1>17 DEF SnapshotInv

LEMMA SnapshotStep == SnapshotInv /\ [SnapshotNext]_<<snapshotVars, requestVars>> => SnapshotInv'
  <1> SUFFICES ASSUME SnapshotInv, [SnapshotNext]_<<snapshotVars, requestVars>>
               PROVE  SnapshotInv'
    OBVIOUS
  <1>1. ASSUME NEW s \in Sessions, RefusedRecords(s) \/ DeathWhileExecuting(s)
        PROVE  SnapshotInv'
    <2>1. EndOf(s) /\ records' = records /\ runs' = runs
      BY <1>1 DEF RefusedRecords, DeathWhileExecuting, snapshotVars
    <2>2. records \in RollbackTables
      BY DEF SnapshotInv, RollbacksTyped
    <2> QED BY <2>1, <2>2, RollbackCommit DEF SnapshotInv, Made, RollbackRestoresOriginal
  <1>2. CASE UNCHANGED <<snapshotVars, requestVars>>
    <2>1. /\ records' = records /\ runs' = runs /\ seen' = seen /\ isolated' = isolated
      BY <1>2 DEF snapshotVars, requestVars
    <2>2. RollbacksTyped' /\ OneAtATime' /\ TablesCurrent' /\ Made'
      BY <2>1 DEF SnapshotInv, RollbacksTyped, OneAtATime, TablesCurrent, Made,
                  RollbackRestoresOriginal, UnderWay
    <2>3. \A r \in Rollbacks : Starters(r)' = Starters(r)
      BY <2>1 DEF Starters, UnderWay
    <2>4. StartsBounded'
      BY <2>1, <2>3 DEF SnapshotInv, StartsBounded
    <2> QED BY <2>2, <2>4 DEF SnapshotInv
  <1> QED BY <1>1, <1>2, RecordsRead, SnapshotCaptured, RollbackInitiated, RollbackExecuted,
             RollbackFinished
             DEF SnapshotNext, SnapshotHandler

LEMMA SnapshotStart == SnapshotInit => SnapshotInv
  <1> SUFFICES ASSUME SnapshotInit PROVE SnapshotInv
    OBVIOUS
  <1>1. UnderWay = {} /\ runs = [r \in Rollbacks |-> 0]
    BY DEF SnapshotInit, RequestsInit, UnderWay
  <1>2. RollbacksTyped /\ OneAtATime /\ TablesCurrent /\ Made
    BY <1>1 DEF SnapshotInit, RollbacksTyped, RollbackTables, RollbackStatus, OneAtATime,
                TablesCurrent, Made, RollbackRestoresOriginal
  <1>3. \A r \in Rollbacks : Starters(r) = {}
    BY <1>1 DEF Starters
  <1>4. Cardinality({}) = 0 /\ Cardinality(Sessions) \in Nat
    BY SnapshotAssumption, FS_EmptySet, FS_CardinalityType
  <1>5. StartsBounded
    BY <1>1, <1>3, <1>4 DEF StartsBounded
  <1> QED BY <1>2, <1>5 DEF SnapshotInv

LEMMA RollbacksCounted == SnapshotInv => RollbackOnceToOriginal
  <1> SUFFICES ASSUME SnapshotInv, NEW r \in Rollbacks
               PROVE  runs[r] <= 1 + Overlap
    BY DEF RollbackOnceToOriginal, RollbackRunsOnce, SnapshotInv, Made
  <1>1. PICK S \in SUBSET Sessions : S = Starters(r)
    BY DEF SnapshotInv, RollbacksTyped, Starters
  <1>2. Cardinality(S) \in Nat /\ Cardinality(Sessions) \in Nat
    BY FewerStarters
  <1>3. runs[r] + Cardinality(S) <= Cardinality(Sessions) /\ runs[r] \in Nat
    BY <1>1 DEF SnapshotInv, StartsBounded, RollbacksTyped
  <1>4. isolated => runs[r] <= 1
    BY DEF SnapshotInv, TablesCurrent
  <1> QED BY <1>2, <1>3, <1>4 DEF Overlap

\* A rollback is started at most once for each request that can overlap with
\* another, and once if none does; and it is one to the first snapshot.
THEOREM RollbacksAsAsked == SnapshotSpec => []RollbackOnceToOriginal
  <1> QED BY SnapshotStart, RollbacksCounted, SnapshotStep, PTL DEF SnapshotSpec

-----------------------------------------------------------------------------
(* The discussion *)

\* What a request has read of comments is there when it commits: rows are marked,
\* never deleted.
DiscussionInv ==
  /\ CollaborationTypeOK
  /\ \A s \in UnderWay : DOMAIN seen[s].comments \subseteq DOMAIN discussion.comments
  /\ IsFiniteSet(DOMAIN discussion.activities)

\* What any commit does: marks stay, and what is new or unread again is among as
\* many entries as a comment can have.
Onward(entries) ==
  /\ IsTables(discussion')
  /\ DOMAIN discussion.comments \subseteq DOMAIN discussion'.comments
  /\ \A c \in DOMAIN discussion.comments :
       discussion.comments[c].deleted => discussion'.comments[c].deleted
  /\ DOMAIN discussion'.activities \subseteq DOMAIN discussion.activities \cup entries
  /\ \A a \in DOMAIN discussion.activities :
       discussion'.activities[a] = discussion.activities[a] \/ discussion'.activities[a].read

LEMMA PairsGrow ==
  \A C, D, S, T : C \subseteq D /\ S \subseteq T => C \X S \subseteq D \X T
  OBVIOUS

\* The entries of a comment.
LEMMA EntriesOf ==
  ASSUME NEW c, NEW n \in 0..MaxMentions
  PROVE  /\ IsFiniteSet({c} \X (0..n))
         /\ Cardinality({c} \X (0..n)) <= MaxMentions + 1
  <1>1. n \in Nat /\ n <= MaxMentions /\ MaxMentions \in Nat
    BY CollaborationAssumption
  <1>2. IsFiniteSet(0..n) /\ Cardinality(0..n) = n + 1
    BY <1>1, FS_Interval
  <1>3. IsFiniteSet({c}) /\ Cardinality({c}) = 1
    BY FS_Singleton
  <1>4. /\ IsFiniteSet({c} \X (0..n))
        /\ Cardinality({c} \X (0..n)) = Cardinality({c}) * Cardinality(0..n)
    BY <1>2, <1>3, FS_Product
  <1> QED BY <1>1, <1>2, <1>3, <1>4

LEMMA MoreUnread ==
  ASSUME DiscussionInv, NEW entries, Onward(entries), IsFiniteSet(entries),
         Cardinality(entries) <= MaxMentions + 1, NEW user
  PROVE  get_unread_count(user)' <= get_unread_count(user) + MaxMentions + 1
  <1>1. PICK S : S = {a \in DOMAIN discussion.activities :
                       discussion.activities[a] = [user |-> user, read |-> FALSE]}
    OBVIOUS
  <1>2. PICK T : T = {a \in DOMAIN discussion'.activities :
                       discussion'.activities[a] = [user |-> user, read |-> FALSE]}
    OBVIOUS
  <1>3. IsFiniteSet(S)
    BY <1>1, FS_Subset DEF DiscussionInv
  <1>4. T \subseteq S \cup entries
    <2> SUFFICES ASSUME NEW a \in T, a \notin entries
                 PROVE  a \in S
      OBVIOUS
    <2>1. a \in DOMAIN discussion.activities
      BY <1>2 DEF Onward
    <2>2. ~discussion'.activities[a].read
      BY <1>2
    <2> QED BY <1>1, <1>2, <2>1, <2>2 DEF Onward
  <1>5. IsFiniteSet(S \cup entries) /\ Cardinality(S \cup entries) <= Cardinality(S) + Cardinality(entries)
    <2>1. /\ IsFiniteSet(S \cup entries)
          /\ Cardinality(S \cup entries) =
               Cardinality(S) + Cardinality(entries) - Cardinality(S \cap entries)
      BY <1>3, FS_Union
    <2>2. /\ Cardinality(S) \in Nat /\ Cardinality(entries) \in Nat
          /\ Cardinality(S \cap entries) \in Nat
      BY <1>3, FS_Intersection, FS_CardinalityType
    <2> QED BY <2>1, <2>2
  <1>6. IsFiniteSet(T) /\ Cardinality(T) <= Cardinality(S \cup entries)
    BY <1>4, <1>5, FS_Subset
  <1>7. /\ Cardinality(S) \in Nat /\ Cardinality(T) \in Nat
        /\ Cardinality(entries) \in Nat /\ Cardinality(S \cup entries) \in Nat
    BY <1>3, <1>5, <1>6, FS_CardinalityType
  <1>8. get_unread_count(user) = Cardinality(S) /\ get_unread_count(user)' = Cardinality(T)
    BY <1>1, <1>2 DEF get_unread_count
  <1> QED BY <1>5, <1>6, <1>7, <1>8, CollaborationAssumption

\* A commit keeps the invariant and is as the property says.
Final ==
  /\ \A c \in DOMAIN discussion.comments :
       discussion.comments[c].deleted => discussion'.comments[c].deleted
  /\ \A a \in DOMAIN discussion.activities :
       discussion.activities[a].read => discussion'.activities[a].read
  /\ \A user \in Participants :
       get_unread_count(user)' <= get_unread_count(user) + MaxMentions + 1

LEMMA DiscussionCommit ==
  ASSUME DiscussionInv, NEW s, EndOf(s), NEW entries, Onward(entries),
         IsFiniteSet(entries), Cardinality(entries) <= MaxMentions + 1
  PROVE  DiscussionInv' /\ Final
  <1>1. CollaborationTypeOK'
    BY EndLeaves DEF DiscussionInv, CollaborationTypeOK, Onward
  <1>2. \A t \in UnderWay' : DOMAIN seen'[t].comments \subseteq DOMAIN discussion'.comments
    BY EndLeaves DEF DiscussionInv, Onward
  <1>3. IsFiniteSet(DOMAIN discussion'.activities)
    <2>1. IsFiniteSet(DOMAIN discussion.activities \cup entries)
      BY FS_Union DEF DiscussionInv
    <2> QED BY <2>1, FS_Subset DEF Onward
  <1>4. \A a \in DOMAIN discussion.activities :
          discussion.activities[a].read => discussion'.activities[a].read
    BY DEF Onward
  <1>5. \A user \in Participants :
          get_unread_count(user)' <= get_unread_count(user) + MaxMentions + 1
    BY MoreUnread
  <1> QED BY <1>1, <1>2, <1>3, <1>4, <1>5 DEF DiscussionInv, Final, Onward

LEMMA CommentAdded ==
  ASSUME DiscussionInv, NEW s \in UnderWay, add_comment(s)
  PROVE  DiscussionInv' /\ Final
  <1>1. PICK c \in CommentIds \ DOMAIN discussion.comments, author \in Participants,
             n \in 0..MaxMentions :
          \E mentions \in [1..n -> Participants] :
            LET entry(i) == [user |-> IF i = 0 THEN author ELSE mentions[i], read |-> FALSE]
                entries == {c} \X (0..n)
            IN /\ EndOf(s)
               /\ discussion' =
                    [discussion EXCEPT
                       !.comments = Inserted(@, c, [edited |-> FALSE, deleted |-> FALSE]),
                       !.activities = [a \in DOMAIN @ \cup entries |->
                                         IF a \in DOMAIN @ THEN @[a] ELSE entry(a[2])]]
    BY Zenon DEF add_comment
  <1>2. PICK mentions \in [1..n -> Participants] :
            LET entry(i) == [user |-> IF i = 0 THEN author ELSE mentions[i], read |-> FALSE]
                entries == {c} \X (0..n)
            IN /\ EndOf(s)
               /\ discussion' =
                    [discussion EXCEPT
                       !.comments = Inserted(@, c, [edited |-> FALSE, deleted |-> FALSE]),
                       !.activities = [a \in DOMAIN @ \cup entries |->
                                         IF a \in DOMAIN @ THEN @[a] ELSE entry(a[2])]]
    BY <1>1, Zenon
  <1>3. PICK entries : entries = {c} \X (0..n)
    OBVIOUS
  <1>4. PICK comments : comments = Inserted(discussion.comments, c,
                                            [edited |-> FALSE, deleted |-> FALSE])
    OBVIOUS
  <1>5. PICK entry : entry = [i \in 0..n |->
          [user |-> IF i = 0 THEN author ELSE mentions[i], read |-> FALSE]]
    OBVIOUS
  <1>6. entry \in [0..n -> [user : Participants, read : BOOLEAN]]
    BY <1>5
  <1>7. PICK activities : activities =
          [a \in DOMAIN discussion.activities \cup entries |->
             IF a \in DOMAIN discussion.activities THEN discussion.activities[a]
             ELSE [user |-> IF a[2] = 0 THEN author ELSE mentions[a[2]], read |-> FALSE]]
    OBVIOUS
  <1>8. discussion' = [discussion EXCEPT !.comments = comments, !.activities = activities]
    BY <1>2, <1>3, <1>4, <1>7, Zenon
  <1>9. \A a \in entries : a[1] = c /\ a[2] \in 0..n /\ a = <<c, a[2]>>
    BY <1>3
  <1>10. IsTables(discussion) /\ EndOf(s)
    BY <1>2 DEF DiscussionInv, CollaborationTypeOK
  <1>11. /\ DOMAIN discussion' = {"comments", "reactions", "activities"}
         /\ discussion'.comments = comments /\ discussion'.activities = activities
         /\ discussion'.reactions = discussion.reactions
    BY <1>8, <1>10 DEF IsTables
  <1>12. /\ DOMAIN comments = DOMAIN discussion.comments \cup {c}
         /\ comments[c] = [edited |-> FALSE, deleted |-> FALSE]
         /\ \A d \in DOMAIN discussion.comments : comments[d] = discussion.comments[d]
    BY <1>4 DEF Inserted
  <1>13. /\ DOMAIN activities = DOMAIN discussion.activities \cup entries
         /\ \A a \in DOMAIN discussion.activities : activities[a] = discussion.activities[a]
         /\ \A a \in entries \ DOMAIN discussion.activities : activities[a] = entry[a[2]]
    BY <1>5, <1>7, <1>9
  <1>14. /\ DOMAIN discussion.comments \subseteq CommentIds
         /\ \A d \in DOMAIN discussion.comments :
              discussion.comments[d] \in [edited : BOOLEAN, deleted : BOOLEAN]
         /\ discussion.reactions \subseteq CommentIds \X Participants
         /\ DOMAIN discussion.activities \subseteq (DOMAIN discussion.comments) \X (0..MaxMentions)
         /\ \A a \in DOMAIN discussion.activities :
              discussion.activities[a] \in [user : Participants, read : BOOLEAN]
    <2>1. IsTables(discussion)
      BY <1>10
    <2> QED BY <2>1, Zenon DEF IsTables
  <1>15. IsTables(discussion')
    <2>1. \A d \in DOMAIN comments : comments[d] \in [edited : BOOLEAN, deleted : BOOLEAN]
      <3>1. [edited |-> FALSE, deleted |-> FALSE] \in [edited : BOOLEAN, deleted : BOOLEAN]
        OBVIOUS
      <3> QED BY <1>12, <1>14, <3>1, Zenon
    <2>2. DOMAIN comments \subseteq CommentIds
      BY <1>12, <1>14
    <2>3. DOMAIN activities \subseteq (DOMAIN comments) \X (0..MaxMentions)
      <3>1. (DOMAIN discussion.comments) \X (0..MaxMentions)
              \subseteq (DOMAIN comments) \X (0..MaxMentions)
        <4>1. DOMAIN discussion.comments \subseteq DOMAIN comments
          BY <1>12
        <4> QED BY <4>1, PairsGrow
      <3>2. entries \subseteq (DOMAIN comments) \X (0..MaxMentions)
        <4>1. {c} \subseteq DOMAIN comments
          BY <1>12
        <4>2. 0..n \subseteq 0..MaxMentions
          BY CollaborationAssumption
        <4> QED BY <1>3, <4>1, <4>2, PairsGrow
      <3> QED BY <1>13, <1>14, <3>1, <3>2, Zenon
    <2>4. \A a \in DOMAIN activities : activities[a] \in [user : Participants, read : BOOLEAN]
      <3>1. \A a \in entries : entry[a[2]] \in [user : Participants, read : BOOLEAN]
        BY <1>6, <1>9
      <3> QED BY <1>13, <1>14, <3>1, Zenon
    <2> QED BY <1>11, <1>14, <2>1, <2>2, <2>3, <2>4, Zenon DEF IsTables
  <1>16. Onward(entries)
    BY <1>11, <1>12, <1>13, <1>15 DEF Onward
  <1>17. IsFiniteSet(entries) /\ Cardinality(entries) <= MaxMentions + 1
    BY <1>3, EntriesOf
  <1> QED BY <1>10, <1>16, <1>17, DiscussionCommit

\* A commit that adds no entry.
LEMMA QuietCommit ==
  ASSUME DiscussionInv, NEW s, EndOf(s), Onward({})
  PROVE  DiscussionInv' /\ Final
  <1>1. IsFiniteSet({}) /\ Cardinality({}) = 0
    BY FS_EmptySet
  <1>2. Cardinality({}) <= MaxMentions + 1
    BY <1>1, CollaborationAssumption
  <1> QED BY <1>1, <1>2, DiscussionCommit

\* A column of a comment is set that the request has read.
LEMMA CommentMarked ==
  ASSUME DiscussionInv, NEW s \in UnderWay, edit_comment(s) \/ delete_comment(s)
  PROVE  DiscussionInv' /\ Final
  <1>1. IsTables(discussion)
    BY DEF DiscussionInv, CollaborationTypeOK
  <1>2. PICK c \in DOMAIN discussion.comments :
          /\ EndOf(s)
          /\ \/ discussion' = [discussion EXCEPT !.comments[c].edited = TRUE]
             \/ discussion' = [discussion EXCEPT !.comments[c].deleted = TRUE]
    BY DEF DiscussionInv, edit_comment, delete_comment
  <1>3. PICK old \in [edited : BOOLEAN, deleted : BOOLEAN] : old = discussion.comments[c]
    BY <1>1 DEF IsTables
  <1>4. \E new \in [edited : BOOLEAN, deleted : BOOLEAN] :
          /\ old.deleted => new.deleted
          /\ discussion' = [discussion EXCEPT !.comments = [discussion.comments EXCEPT ![c] = new]]
    <2>1. PICK x : x = [old EXCEPT !.edited = TRUE]
      OBVIOUS
    <2>2. PICK y : y = [old EXCEPT !.deleted = TRUE]
      OBVIOUS
    <2>3. /\ x \in [edited : BOOLEAN, deleted : BOOLEAN] /\ x.deleted = old.deleted
          /\ y \in [edited : BOOLEAN, deleted : BOOLEAN] /\ y.deleted
      BY <2>1, <2>2
    <2>4. \/ discussion' = [discussion EXCEPT !.comments = [discussion.comments EXCEPT ![c] = x]]
          \/ discussion' = [discussion EXCEPT !.comments = [discussion.comments EXCEPT ![c] = y]]
      BY <1>1, <1>2, <1>3, <2>1, <2>2 DEF IsTables
    <2> QED BY <2>3, <2>4
  <1>5. PICK new \in [edited : BOOLEAN, deleted : BOOLEAN] :
          /\ old.deleted => new.deleted
          /\ discussion' = [discussion EXCEPT !.comments = [discussion.comments EXCEPT ![c] = new]]
    BY <1>4
  <1>6. PICK comments : comments = [discussion.comments EXCEPT ![c] = new]
    OBVIOUS
  <1>7. /\ DOMAIN discussion' = {"comments", "reactions", "activities"}
        /\ discussion'.comments = comments
        /\ discussion'.reactions = discussion.reactions
        /\ discussion'.activities = discussion.activities
    BY <1>1, <1>5, <1>6 DEF IsTables
  <1>8. /\ DOMAIN comments = DOMAIN discussion.comments
        /\ \A d \in DOMAIN comments :
             comments[d] = IF d = c THEN new ELSE discussion.comments[d]
    BY <1>6
  <1>9. IsTables(discussion')
    <2>1. \A d \in DOMAIN comments : comments[d] \in [edited : BOOLEAN, deleted : BOOLEAN]
      BY <1>1, <1>8 DEF IsTables
    <2> QED BY <1>1, <1>7, <1>8, <2>1 DEF IsTables
  <1>10. Onward({})
    BY <1>3, <1>5, <1>7, <1>8, <1>9 DEF Onward
  <1> QED BY <1>2, <1>10, QuietCommit

LEMMA ReactionAdded ==
  ASSUME DiscussionInv, NEW s \in UnderWay, add_reaction(s)
  PROVE  DiscussionInv' /\ Final
  <1>1. IsTables(discussion)
    BY DEF DiscussionInv, CollaborationTypeOK
  <1>0. PICK c \in DOMAIN seen[s].comments, user \in Participants :
          \E reactions :
            /\ EndOf(s)
            /\ reactions \subseteq discussion.reactions \cup {<<c, user>>}
            /\ discussion' = [discussion EXCEPT !.reactions = reactions]
    <2>1. PICK c \in DOMAIN seen[s].comments, user \in Participants :
            /\ EndOf(s)
            /\ discussion' =
                 [discussion EXCEPT !.reactions = IF <<c, user>> \in seen[s].reactions
                                                    THEN @ \ {<<c, user>>} ELSE @ \cup {<<c, user>>}]
      BY DEF add_reaction
    <2>2. PICK reactions : reactions = IF <<c, user>> \in seen[s].reactions
                                         THEN discussion.reactions \ {<<c, user>>}
                                         ELSE discussion.reactions \cup {<<c, user>>}
      OBVIOUS
    <2>3. reactions \subseteq discussion.reactions \cup {<<c, user>>}
      BY <2>2
    <2>4. discussion' = [discussion EXCEPT !.reactions = reactions]
      BY <2>1, <2>2
    <2> QED BY <2>1, <2>3, <2>4
  <1>2. PICK reactions :
          /\ EndOf(s)
          /\ reactions \subseteq discussion.reactions \cup {<<c, user>>}
          /\ discussion' = [discussion EXCEPT !.reactions = reactions]
    BY <1>0
  <1>3. c \in CommentIds
    BY DEF DiscussionInv, CollaborationTypeOK, IsTables
  <1>4. /\ DOMAIN discussion' = {"comments", "reactions", "activities"}
        /\ discussion'.comments = discussion.comments
        /\ discussion'.reactions = reactions
        /\ discussion'.activities = discussion.activities
    BY <1>1, <1>2 DEF IsTables
  <1>5. reactions \subseteq CommentIds \X Participants
    BY <1>1, <1>2, <1>3 DEF IsTables
  <1>6. IsTables(discussion')
    BY <1>1, <1>4, <1>5 DEF IsTables
  <1>7. Onward({})
    BY <1>4, <1>6 DEF Onward
  <1> QED BY <1>2, <1>7, QuietCommit

LEMMA EntriesRead ==
  ASSUME DiscussionInv, NEW s \in UnderWay, mark_as_read(s)
  PROVE  DiscussionInv' /\ Final
  <1>1. IsTables(discussion)
    BY DEF DiscussionInv, CollaborationTypeOK
  <1>2. PICK chosen :
          /\ EndOf(s)
          /\ discussion' =
               [discussion EXCEPT !.activities =
                  [a \in DOMAIN @ |-> IF a \in chosen THEN [@[a] EXCEPT !.read = TRUE] ELSE @[a]]]
    BY DEF mark_as_read
  <1>3. PICK activities : activities =
          [a \in DOMAIN discussion.activities |->
             IF a \in chosen THEN [discussion.activities[a] EXCEPT !.read = TRUE]
             ELSE discussion.activities[a]]
    OBVIOUS
  <1>4. discussion' = [discussion EXCEPT !.activities = activities]
    BY <1>2, <1>3, Zenon
  <1>5. /\ DOMAIN discussion' = {"comments", "reactions", "activities"}
        /\ discussion'.comments = discussion.comments
        /\ discussion'.reactions = discussion.reactions
        /\ discussion'.activities = activities
    BY <1>1, <1>4 DEF IsTables
  <1>6. DOMAIN activities = DOMAIN discussion.activities
    BY <1>3
  <1>7. ASSUME NEW a \in DOMAIN discussion.activities
        PROVE  /\ activities[a] \in [user : Participants, read : BOOLEAN]
               /\ activities[a] = discussion.activities[a] \/ activities[a].read
    <2>1. PICK old \in [user : Participants, read : BOOLEAN] : old = discussion.activities[a]
      BY <1>1 DEF IsTables
    <2>2. PICK new : new = [old EXCEPT !.read = TRUE]
      OBVIOUS
    <2>3. new \in [user : Participants, read : BOOLEAN] /\ new.read
      BY <2>2
    <2>4. activities[a] = IF a \in chosen THEN new ELSE old
      BY <1>3, <2>1, <2>2
    <2> QED BY <2>1, <2>3, <2>4
  <1>8. IsTables(discussion')
    BY <1>1, <1>5, <1>6, <1>7 DEF IsTables
  <1>9. Onward({})
    BY <1>5, <1>6, <1>7, <1>8 DEF Onward
  <1> QED BY <1>2, <1>9, QuietCommit

LEMMA DiscussionStep ==
  DiscussionInv /\ [CollaborationNext]_<<discussion, requestVars>>
    => DiscussionInv' /\ [Final]_discussion
  <1> SUFFICES ASSUME DiscussionInv, [CollaborationNext]_<<discussion, requestVars>>
               PROVE  DiscussionInv' /\ [Final]_discussion
    OBVIOUS
  <1>1. ASSUME NEW s \in Sessions, ReadDiscussion(s)
        PROVE  DiscussionInv' /\ UNCHANGED discussion
    <2>1. PICK tables : tables = discussion
      OBVIOUS
    <2>2. ReadBy(s, tables) /\ discussion' = discussion
      BY <1>1, <2>1 DEF ReadDiscussion
    <2>3. CollaborationTypeOK'
      BY <2>1, <2>2, ReadingLeaves DEF DiscussionInv, CollaborationTypeOK
    <2>4. \A t \in UnderWay' : DOMAIN seen'[t].comments \subseteq DOMAIN discussion.comments
      BY <2>1, <2>2, ReadingLeaves DEF DiscussionInv
    <2> QED BY <2>2, <2>3, <2>4 DEF DiscussionInv
  <1>2. ASSUME NEW s \in Sessions, RefusedDiscussion(s)
        PROVE  DiscussionInv' /\ UNCHANGED discussion
    <2>1. EndOf(s) /\ discussion' = discussion
      BY <1>2 DEF RefusedDiscussion
    <2> QED BY <2>1, EndLeaves DEF DiscussionInv, CollaborationTypeOK
  <1>3. ASSUME UNCHANGED <<discussion, requestVars>>
        PROVE  DiscussionInv' /\ UNCHANGED discussion
    <2>1. discussion' = discussion /\ seen' = seen
      BY <1>3 DEF requestVars
    <2> QED BY <2>1 DEF DiscussionInv, CollaborationTypeOK, UnderWay
  <1> QED BY <1>1, <1>2, <1>3, CommentAdded, CommentMarked, ReactionAdded, EntriesRead
             DEF CollaborationNext, DiscussionHandler

LEMMA DiscussionStart == CollaborationInit => DiscussionInv
  <1> SUFFICES ASSUME CollaborationInit PROVE DiscussionInv
    OBVIOUS
  <1>1. /\ UnderWay = {}
        /\ discussion = [comments |-> <<>>, reactions |-> {}, activities |-> <<>>]
    BY DEF CollaborationInit, RequestsInit, UnderWay
  <1>2. DOMAIN discussion.comments = {} /\ DOMAIN discussion.activities = {}
    BY <1>1
  <1>3. IsTables(discussion)
    BY <1>1, <1>2 DEF IsTables
  <1> QED BY <1>1, <1>2, <1>3, FS_EmptySet DEF DiscussionInv, CollaborationTypeOK

\* Whatever requests overlap, a deleted comment is not shown again, an entry that
\* was read does not count as unread again, and a commit adds no more unread
\* entries than one comment has.
THEOREM DeletionsAreFinal ==
  CollaborationInit /\ [][CollaborationNext]_<<discussion, requestVars>> => DeletionIsFinal
  <1>1. DiscussionInv /\ [CollaborationNext]_<<discussion, requestVars>>
          => DiscussionInv' /\ [Final]_discussion
    BY DiscussionStep
  <1>2. CollaborationInit /\ [][CollaborationNext]_<<discussion, requestVars>>
          => [][Final]_discussion
    BY DiscussionStart, <1>1, PTL
  <1> QED BY <1>2 DEF DeletionIsFinal, Final

-----------------------------------------------------------------------------
(* Scanners *)

\* What a scanner asks for at the places it went to.
Asked(s) == CallsOf(s, SetToSeq(scanned[s]))

Answered(request, assets) ==
  Identifiers(request.where, request.lister, AllPages) \subseteq assets

\* One that is done has all of it; the one under way has what it has no more to
\* ask for.
NothingLeft(s) == \A i \in DOMAIN Asked(s) : Answered(Asked(s)[i], found[s])

LeftToDo ==
  /\ registered # <<>> /\ Current \in DOMAIN scanned
  /\ \E X : work \in Seq(X)
  /\ \A i \in DOMAIN Asked(Current) :
       \/ Answered(Asked(Current)[i], found[Current])
       \/ \E j \in DOMAIN work : work[j] = Asked(Current)[i]

ScanInv ==
  failing = {} =>
    /\ registered \in Seq(Scanners)
    /\ DOMAIN scanned = DOMAIN found
    /\ \A s \in DOMAIN scanned : NothingLeft(s) \/ (phase = "listing" /\ s = Current)
    /\ phase = "listing" => LeftToDo
    /\ phase = "ended" => stored = _deduplicate_assets

\* A finite set, listed, has all its elements in the list.
LEMMA ListedSet ==
  ASSUME NEW P, IsFiniteSet(P)
  PROVE  /\ SetToSeq(P) \in [1..Cardinality(P) -> P] /\ Cardinality(P) \in Nat
         /\ ToSet(SetToSeq(P)) = P
  <1> DEFINE n == Cardinality(P)
             f == SetToSeq(P)
  <1>1. n \in Nat  BY FS_CardinalityType
  <1>2. IsFiniteSet(1..n) /\ Cardinality(1..n) = n
    BY <1>1, FS_Interval
  <1>3. \E g \in [1..n -> P] : IsInjective(g)
    <2>1. ExistsBijection(1..n, P)  BY <1>2, FS_SameCardinalityBij
    <2> QED BY <2>1 DEF ExistsBijection, Bijection, Injection
  <1>4. f \in [1..n -> P] /\ IsInjective(f)
    BY <1>3 DEF SetToSeq
  <1> HIDE DEF f
  <1>5. f \in Bijection(1..n, ToSet(f))
    BY <1>4 DEF Bijection, Injection, Surjection, ToSet, IsInjective
  <1>6. Cardinality(ToSet(f)) = n
    BY <1>2, <1>5, FS_Bijection DEF ExistsBijection
  <1>7. ToSet(f) \in SUBSET P
    BY <1>4 DEF ToSet
  <1>8. ToSet(f) = P  BY <1>6, <1>7, FS_Subset
  <1> QED BY <1>1, <1>4, <1>8 DEF f

\* What a scanner is to do is a sequence.
LEMMA RequestsAreSequence ==
  ASSUME NEW s \in Scanners \ {"trivy", "nmap"}, NEW places, Len(places) \in Nat
  PROVE  \E X : CallsOf(s, places) \in Seq(X)
  <1>1. \A n \in Nat : \A f : f = [i \in 1..n |-> f[i]] => f \in Seq({f[i] : i \in 1..n})
    OBVIOUS
  <1>2. ASSUME NEW listers, Len(listers) \in Nat
        PROVE  \E X : ForEach(places, listers) \in Seq(X)
    <2> DEFINE n == Len(places) * Len(listers)
               f == ForEach(places, listers)
    <2>1. n \in Nat  BY <1>2
    <2>2. f = [i \in 1..n |-> f[i]]  BY DEF ForEach
    <2> HIDE DEF n, f
    <2>3. f \in Seq({f[i] : i \in 1..n})  BY <1>1, <2>1, <2>2
    <2> QED BY <2>3 DEF f
  <1>3. CASE s = "aws"
    BY <1>2, <1>3 DEF CallsOf, scan_aws
  <1>4. CASE s = "azure"
    BY <1>2, <1>4 DEF CallsOf, scan_azure
  <1>5. CASE s = "gcp"
    BY <1>2, <1>5 DEF CallsOf, scan_gcp
  <1>6. CASE s = "jira_assets"
    BY <1>2, <1>6 DEF CallsOf, scan_jira_assets
  <1>7. CASE s = "servicenow"
    BY <1>2, <1>7 DEF CallsOf, scan_servicenow
  <1>8. \A a, b, c, d : /\ <<a, b>> \in Seq({a, b}) /\ <<a, b, c>> \in Seq({a, b, c})
                        /\ <<a, b, c, d>> \in Seq({a, b, c, d})
    OBVIOUS
  <1>9. CASE s = "cloudquery"
    BY <1>8, <1>9 DEF CallsOf, scan_cloudquery
  <1>10. CASE s = "device42"
    BY <1>8, <1>10 DEF CallsOf, scan_device42
  <1>11. CASE s = "kubescape"
    BY <1>8, <1>11 DEF CallsOf, scan_kubescape
  <1> QED BY <1>3, <1>4, <1>5, <1>6, <1>7, <1>9, <1>10, <1>11 DEF Scanners

LEMMA ScannerOpens ==
  ASSUME ScanInv, failing = {}, failing' = {}, Opening,
         NEW P \in SUBSET Places, Opens(SetToSeq(P)),
         Current \notin {"trivy", "nmap"}, work' = CallsOf(Current, SetToSeq(P))
  PROVE  ScanInv'
  <1> DEFINE places == SetToSeq(P)
             cs == CallsOf(Current, places)
  <1>1. /\ registered \in Seq(Scanners) /\ registered' = registered /\ phase' = "listing"
        /\ Current \in Scanners /\ Current' = Current
    BY DEF Opening, Opens, ScanInv, Current
  <1>2. ToSet(places) = P /\ Len(places) \in Nat
    <2>1. IsFiniteSet(P)  BY ScannersAssumption, FS_Subset
    <2> QED BY <2>1, ListedSet
  <1>3. \E X : cs \in Seq(X)
    BY <1>1, <1>2, RequestsAreSequence
  <1>4. /\ DOMAIN scanned' = DOMAIN scanned \cup {Current} /\ DOMAIN found' = DOMAIN scanned'
        /\ scanned'[Current] = P
        /\ \A s \in DOMAIN scanned \ {Current} : scanned'[s] = scanned[s] /\ found'[s] = found[s]
    BY <1>2 DEF Opens, ScanInv
  <1>5. \A s \in DOMAIN scanned \ {Current} : NothingLeft(s)'
    BY <1>4 DEF NothingLeft, Asked, ScanInv, Opening
  <1>6. Asked(Current)' = cs  BY <1>1, <1>4 DEF Asked
  <1>7. LeftToDo'
    <2> HIDE DEF cs
    <2>1. work' = cs  BY DEF cs
    <2>2. registered' # <<>>  BY <1>1 DEF Opening
    <2>3. Current' \in DOMAIN scanned'  BY <1>1, <1>4
    <2>4. \A i \in DOMAIN Asked(Current)' : \E j \in DOMAIN work' : work'[j] = Asked(Current)'[i]
      BY <1>6, <2>1
    <2>5. \E X : work' \in Seq(X)  BY <1>3, <2>1
    <2> QED BY <2>2, <2>3, <2>4, <2>5 DEF LeftToDo
  <1> QED BY <1>1, <1>4, <1>5, <1>7 DEF ScanInv

\* The rest of a sequence is one, and has all but its first element.
LEMMA TailKeeps ==
  ASSUME NEW X, NEW q \in Seq(X), q # <<>>
  PROVE  /\ Tail(q) \in Seq(X)
         /\ \A j \in DOMAIN q : q[j] = Head(q) \/ \E k \in DOMAIN Tail(q) : Tail(q)[k] = q[j]
  <1>1. Tail(q) \in Seq(X) /\ Len(Tail(q)) = Len(q) - 1
    OBVIOUS
  <1>2. \A k \in 1..(Len(q) - 1) : Tail(q)[k] = q[k + 1]
    OBVIOUS
  <1>3. DOMAIN Tail(q) = 1..(Len(q) - 1) /\ DOMAIN q = 1..Len(q) /\ Len(q) \in Nat
    BY <1>1
  <1>4. ASSUME NEW j \in 1..Len(q), j # 1
        PROVE  j - 1 \in DOMAIN Tail(q) /\ Tail(q)[j - 1] = q[j]
    BY <1>2, <1>3, <1>4
  <1>5. Head(q) = q[1]  OBVIOUS
  <1> QED BY <1>1, <1>3, <1>4, <1>5

LEMMA ScannerLists ==
  ASSUME ScanInv, failing = {}, list
  PROVE  ScanInv'
  <1> DEFINE first == Head(work)
             new == Identifiers(first.where, first.lister, AllPages)
  <1>1. /\ LeftToDo /\ DOMAIN scanned = DOMAIN found /\ registered \in Seq(Scanners)
        /\ phase = "listing" /\ work # <<>>
    BY DEF list, Listing, ScanInv
  <1>2. /\ phase' = phase /\ registered' = registered /\ scanned' = scanned
        /\ Current' = Current /\ failing' = {} /\ work' = Tail(work)
        /\ found' = [found EXCEPT ![Current] = @ \cup new]
    BY DEF list, Finds, Current
  <1>3. /\ DOMAIN found' = DOMAIN found
        /\ found'[Current] = found[Current] \cup new
        /\ \A s \in DOMAIN found \ {Current} : found'[s] = found[s]
    BY <1>1, <1>2 DEF LeftToDo
  <1>4. \A s : Asked(s)' = Asked(s)  BY <1>2 DEF Asked
  <1>5. \A s \in DOMAIN scanned \ {Current} : NothingLeft(s)'
    BY <1>1, <1>3, <1>4 DEF NothingLeft, ScanInv
  <1>6. PICK X : work \in Seq(X)  BY <1>1 DEF LeftToDo
  <1>7. /\ Tail(work) \in Seq(X)
        /\ \A j \in DOMAIN work : work[j] = first \/ \E k \in DOMAIN Tail(work) : Tail(work)[k] = work[j]
    BY <1>1, <1>6, TailKeeps
  <1>8. LeftToDo'
    <2>1. ASSUME NEW i \in DOMAIN Asked(Current)
          PROVE  \/ Answered(Asked(Current)[i], found'[Current])
                 \/ \E k \in DOMAIN work' : work'[k] = Asked(Current)[i]
      <3>1. CASE Answered(Asked(Current)[i], found[Current])
        BY <1>3, <3>1 DEF Answered
      <3>2. CASE Asked(Current)[i] = first
        BY <1>3, <3>2 DEF Answered
      <3> QED BY <1>1, <1>2, <1>7, <3>1, <3>2 DEF LeftToDo
    <2> QED BY <1>1, <1>2, <1>4, <1>7, <2>1 DEF LeftToDo
  <1> QED BY <1>1, <1>2, <1>3, <1>5, <1>8 DEF ScanInv

LEMMA ScanStep == ScanInv /\ [ScannersNext]_scannerVars => ScanInv'
  <1> SUFFICES ASSUME ScanInv, [ScannersNext]_scannerVars, failing' = {}
               PROVE  ScanInv'
    BY DEF ScanInv
  <1>1. failing = {}
    BY DEF ScannersNext, scannerVars, open, open_without_target, open_failing,
           open_gcp_partly, list, list_failing, list_raising, finish_scanner, discover_all
  <1>2. CASE UNCHANGED scannerVars
    BY <1>1, <1>2 DEF scannerVars, ScanInv, NothingLeft, LeftToDo, Asked, Current,
                      _deduplicate_assets
  <1>3. CASE open
    <2>1. PICK P \in SUBSET Places : Opens(SetToSeq(P)) /\ work' = CallsOf(Current, SetToSeq(P))
      BY <1>3 DEF open
    <2> QED BY <1>1, <1>3, <2>1, ScannerOpens DEF open
  <1>4. CASE open_gcp_partly
    <2>1. PICK P \in SUBSET Places : Opens(SetToSeq(P)) /\ work' = scan_gcp(SetToSeq(P))
      BY <1>4 DEF open_gcp_partly
    <2>2. work' = CallsOf(Current, SetToSeq(P)) /\ Current \notin {"trivy", "nmap"}
      BY <1>4, <2>1 DEF open_gcp_partly, CallsOf
    <2> QED BY <1>1, <1>4, <2>1, <2>2, ScannerOpens DEF open_gcp_partly
  <1>5. ~open_without_target /\ ~open_failing /\ ~list_failing /\ ~list_raising
    BY DEF open_without_target, open_failing, list_failing, list_raising
  <1>6. CASE list  BY <1>1, <1>6, ScannerLists
  <1>7. CASE finish_scanner
    <2>1. /\ phase = "listing" /\ work = <<>> /\ phase' = "opening"
          /\ scanned' = scanned /\ found' = found /\ registered' = Tail(registered)
      BY <1>7 DEF finish_scanner
    <2>2. NothingLeft(Current)
      BY <1>1, <2>1 DEF ScanInv, LeftToDo, NothingLeft
    <2>3. \A s \in DOMAIN scanned : NothingLeft(s)'
      BY <1>1, <2>1, <2>2 DEF ScanInv, NothingLeft, Asked
    <2>4. Tail(registered) \in Seq(Scanners)
      <3>1. registered \in Seq(Scanners) /\ registered # <<>>
        BY <1>1, <2>1 DEF ScanInv, LeftToDo
      <3> QED BY <3>1
    <2> QED BY <1>1, <2>1, <2>3, <2>4 DEF ScanInv
  <1>8. CASE discover_all
    BY <1>1, <1>8 DEF discover_all, ScanInv, NothingLeft, Asked, _deduplicate_assets
  <1> QED BY <1>2, <1>3, <1>4, <1>5, <1>6, <1>7, <1>8 DEF ScannersNext

LEMMA ScanStart == ScannersInit => ScanInv
  <1>1. \A n : \A f \in [1..n -> Scanners] : n \in Nat => f \in Seq(Scanners)
    OBVIOUS
  <1> QED BY <1>1 DEF ScannersInit, ScanInv

LEMMA ScanMissesNothing == ScanInv => NothingMissedSilently
  <1> SUFFICES ASSUME ScanInv, phase = "ended", failing = {}, NEW s \in DOMAIN scanned,
                      NEW i \in DOMAIN Asked(s)
               PROVE  Answered(Asked(s)[i], stored)
    BY DEF NothingMissedSilently, Asked, Answered
  <1>1. Answered(Asked(s)[i], found[s])  BY DEF ScanInv, NothingLeft
  <1>2. found[s] \subseteq stored  BY DEF ScanInv, _deduplicate_assets
  <1> QED BY <1>1, <1>2 DEF Answered

\* A scan without errors stores, under its identifier, all that its scanners read at
\* the places they went to, whatever these are and whichever scanners run.
THEOREM NothingIsMissed ==
  ScannersInit /\ [][ScannersNext]_scannerVars => []NothingMissedSilently
  <1> QED BY ScanStart, ScanMissesNothing, ScanStep, PTL
=============================================================================
