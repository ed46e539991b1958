--------------------------------- MODULE Tags ---------------------------------
(***************************************************************************)
(* The catalogue of tags (api/v1/tags.py) and the tags of assets            *)
(* (api/v1/assets.py), which are plain labels: nothing links them to the    *)
(* catalogue, and no change of it reaches them.  One namespace.             *)
(***************************************************************************)
EXTENDS Requests

CONSTANTS Labels,      \* names of tags
          Tagged,      \* the assets
          TagIds       \* identities of rows of the catalogue

VARIABLES tagging,  \* the committed tables
          wanted,   \* history: the labels each asset should have by the
                    \* requests that were answered
          mergedNames  \* history: the names of tags that were merged

tagVars == <<tagging, wanted, mergedNames>>

IsTagging(tables) ==
  /\ DOMAIN tables = {"catalogue", "labels"}
  /\ DOMAIN tables.catalogue \subseteq TagIds
  /\ \A t \in DOMAIN tables.catalogue :
       tables.catalogue[t] \in [name : Labels, aliases : SUBSET Labels]
  /\ tables.labels \in [Tagged -> SUBSET Labels]

\* The index on (tenant, namespace, name).
UniqueNames(catalogue) ==
  \A t, u \in DOMAIN catalogue : catalogue[t].name = catalogue[u].name => t = u

TagsTypeOK ==
  /\ IsTagging(tagging)
  /\ UniqueNames(tagging.catalogue)
  /\ \A s \in UnderWay : IsTagging(seen[s])
  /\ wanted \in [Tagged -> SUBSET Labels]
  /\ mergedNames \in SUBSET Labels

TagsInit ==
  /\ RequestsInit
  /\ tagging = [catalogue |-> <<>>, labels |-> [a \in Tagged |-> {}]]
  /\ wanted = [a \in Tagged |-> {}]
  /\ mergedNames = {}

ReadTagging(s) ==
  /\ ReadBy(s, tagging)
  /\ UNCHANGED tagVars

RefusedTag(s) ==
  /\ EndOf(s)
  /\ UNCHANGED tagVars

-----------------------------------------------------------------------------
(* The catalogue *)

Catalogued(catalogue) ==
  /\ UniqueNames(catalogue)
  /\ tagging' = [tagging EXCEPT !.catalogue = catalogue]

create_tag(s) ==
  \E t \in TagIds \ DOMAIN tagging.catalogue, label \in Labels, aliases \in SUBSET Labels :
    /\ \A u \in DOMAIN seen[s].catalogue : seen[s].catalogue[u].name # label
    /\ EndOf(s)
    /\ Catalogued(Inserted(tagging.catalogue, t, [name |-> label, aliases |-> aliases]))
    /\ UNCHANGED <<wanted, mergedNames>>

\* That the name is free is left to the index.  The row may be gone: then the
\* UPDATE fails.
update_tag(s) ==
  \E t \in DOMAIN seen[s].catalogue \cap DOMAIN tagging.catalogue :
    LET old == seen[s].catalogue[t] IN
    \E label \in Labels, aliases \in {old.aliases} \cup SUBSET Labels :
      /\ EndOf(s)
      /\ Catalogued([tagging.catalogue EXCEPT ![t].name = Put(old.name, label, @),
                                              ![t].aliases = Put(old.aliases, aliases, @)])
      /\ UNCHANGED <<wanted, mergedNames>>

Without(t, catalogue) == [u \in DOMAIN catalogue \ {t} |-> catalogue[u]]

\* No tag is a system tag, nothing makes one.
delete_tag(s) ==
  \E t \in DOMAIN seen[s].catalogue :
    /\ EndOf(s)
    /\ Catalogued(Without(t, tagging.catalogue))
    /\ UNCHANGED <<wanted, mergedNames>>

Replaced(labels, name, other) ==
  IF name \in labels THEN (labels \ {name}) \cup {other} ELSE labels

\* The source's name becomes an alias, its aliases are dropped with it, and no
\* asset is told, although the endpoint says that it "updates all entity
\* references": "wanted" follows what it says.  A tag that is merged into itself
\* is deleted.
merge_tags(s) ==
  \E source, target \in DOMAIN seen[s].catalogue :
    LET old == seen[s].catalogue[target]
        name == seen[s].catalogue[source].name
        aliases == old.aliases \cup {name}
    IN /\ target \in DOMAIN tagging.catalogue
       /\ EndOf(s)
       /\ Catalogued(Without(source, [tagging.catalogue EXCEPT
                                        ![target].aliases = Put(old.aliases, aliases, @)]))
       /\ wanted' = [a \in Tagged |-> Replaced(wanted[a], name, old.name)]
       /\ mergedNames' = mergedNames \cup {name, old.name}

-----------------------------------------------------------------------------
(* The labels of assets.  Each request reads the lists, changes them in      *)
(* memory and assigns new ones.                                              *)

\* As if an addition were to win over a removal: a variant of the next.
AddAndRemoveSwapped(labels, add, remove) == (labels \ remove) \cup add

\* What is both added and removed is removed.
AddAndRemove(labels, add, remove) == (labels \cup add) \ remove

\* One request for some assets, with what it adds to and removes from each.  A
\* list with the same labels may come out of the set in another order: then it
\* is written as well.
Relabel(s, assets, add, remove) ==
  /\ EndOf(s)
  /\ \E reordered \in SUBSET assets :
       tagging' =
         [tagging EXCEPT !.labels =
            [a \in Tagged |->
               LET new == AddAndRemove(seen[s].labels[a], add[a], remove[a]) IN
               IF a \notin assets THEN @[a]
               ELSE IF a \in reordered THEN new ELSE Put(seen[s].labels[a], new, @[a])]]
  /\ wanted' =
       [a \in Tagged |->
          IF a \notin assets THEN wanted[a]
          ELSE (wanted[a] \ remove[a]) \cup (add[a] \ remove[a])]
  /\ UNCHANGED mergedNames

ForAll(labels) == [a \in Tagged |-> labels]

\* PUT replaces the list, like any other column.
update_asset_tags(s) ==
  \E a \in Tagged, given \in SUBSET Labels :
    Relabel(s, {a}, ForAll(given), ForAll(Labels \ given))

bulk_tag_assets(s) ==
  \E assets \in SUBSET Tagged \ {{}}, add, remove \in SUBSET Labels :
    Relabel(s, assets, ForAll(add), ForAll(remove))

patch_asset_tags(s) ==
  \E a \in Tagged, add, remove \in SUBSET Labels :
    Relabel(s, {a}, ForAll(add), ForAll(remove))

\* What a scanner has to add to several assets, in one transaction: labels are
\* merged here, and not replaced.
enrich_assets(s) ==
  \E assets \in SUBSET Tagged \ {{}} : \E given \in [Tagged -> SUBSET Labels] :
    Relabel(s, assets, given, ForAll({}))

TagHandler(s) ==
  \/ ReadTagging(s)
  \/ s \in UnderWay /\ \/ RefusedTag(s)
                       \/ create_tag(s)
                       \/ update_tag(s)
                       \/ delete_tag(s)
                       \/ merge_tags(s)
                       \/ update_asset_tags(s)
                       \/ patch_asset_tags(s)
                       \/ bulk_tag_assets(s)
                       \/ enrich_assets(s)

TagsNext == \E s \in Sessions : TagHandler(s)

-----------------------------------------------------------------------------
(* Property *)

\* With a single client an asset has the labels that the requests say, the last
\* one for each label, whichever of the four endpoints they went to and whatever
\* else happened to the catalogue, except for the names of tags that were merged:
\* these an asset keeps as they were, and not as the merge says they are.
\* Overlapping requests lose each other's labels, since the whole list is assigned.
TagsFollow ==
  isolated =>
    \A a \in Tagged : tagging.labels[a] \ mergedNames = wanted[a] \ mergedNames
=============================================================================
