----------------------------- MODULE MCServices -----------------------------
(* Small instances of the services around the patching workflow.  They share *)
(* no state: a behaviour is one of a single part, which is chosen at its     *)
(* start, while the variables of the other parts keep a fixed initial value. *)
EXTENDS SnapshotRollback, Inventory, RateLimiter, Backups, Accounts, Discovery,
        CircuitBreaker, TenantSettings, Scoring, Connections, Scanners,
        Collaboration, Notifications, Tags, Cache, Alerts, ErrorTracking

CONSTANTS s1, s2, p1, p2, a1, a2, v1, v2, t1, t2, e1, e2, NoValue

VARIABLE part

vars ==
  <<snapshotVars, inventoryVars, accountVars, settingsVars, connectionVars,
    discussion, tagVars, requestVars,
    rateVars, backupVars, discoveryVars, circuitVars, scannerVars,
    notificationVars, cacheVars, alertVars, errorVars, factors, part>>

\* The parts whose handlers are requests, and the others.
RequestParts ==
  {"snapshots", "inventory", "accounts", "settings", "connections", "discussion", "tags"}

OtherParts ==
  {"rate", "backups", "discovery", "circuit", "scanners", "notifications", "cache",
   "alerts", "errors", "scoring"}

ExampleErrors ==
  [type : {"OperationalError"}, mentions : {{"database"}, {"transient"}, {}}]
  \cup {[type |-> "ValueError", mentions |-> {"database"}]}

\* A finding of which nothing is known.
Unremarkable ==
  [severity |-> "MEDIUM", epss |-> 0, kev |-> FALSE, exploit |-> FALSE, patch |-> FALSE,
   criticality |-> 3, exposure |-> "ISOLATED", executed |-> FALSE, loaded |-> FALSE,
   controls |-> FALSE]

Init ==
  /\ part \in RequestParts \cup OtherParts
  /\ part \in RequestParts \/ isolated = FALSE
  /\ part = "snapshots" \/ deaths = FALSE
  /\ part = "settings" \/ settings = NoSettings
  /\ part = "rate" \/ serial = FALSE
  /\ part = "backups" \/ (exclusive = FALSE /\ crashes = FALSE)
  /\ part = "discovery" \/ (sequential = FALSE /\ faults = FALSE)
  /\ part = "scanners" \/ registered = <<"aws">>
  /\ part = "notifications" \/ routing = [f \in {"slack_enabled", "slack_webhook_url",
                                                 "legacy_url"} |-> FALSE]
  /\ part = "cache" \/ (alone = FALSE /\ failures = FALSE)
  /\ part = "alerts" \/ (oneByOne = FALSE /\ rules = SetToSeq(Rules))
  /\ part = "scoring" \/ factors = Unremarkable
  /\ SnapshotInit /\ InventoryInit /\ AccountsInit /\ SettingsInit
  /\ ConnectionsInit /\ CollaborationInit /\ TagsInit
  /\ RateInit /\ BackupInit /\ DiscoveryInit /\ CircuitInit /\ ScannersInit
  /\ NotificationsInit /\ CacheInit /\ AlertsInit /\ ErrorInit /\ ScoringInit

\* Fewer requests of the parts in which one may do more.
Bound ==
  /\ part \in {"connections", "discussion"} => left' > 1
  /\ part = "tags" => left' > 2

Next ==
  /\ \/ part = "snapshots" /\ SnapshotNext
     \/ part = "inventory" /\ InventoryNext
     \/ part = "accounts" /\ AccountsNext
     \/ part = "settings" /\ SettingsNext
     \/ part = "connections" /\ ConnectionsNext
     \/ part = "discussion" /\ CollaborationNext
     \/ part = "tags" /\ TagsNext
     \/ part = "rate" /\ RateNext
     \/ part = "backups" /\ BackupNext
     \/ part = "discovery" /\ DiscoveryNext
     \/ part = "circuit" /\ CircuitNext
     \/ part = "scanners" /\ ScannersNext
     \/ part = "notifications" /\ NotificationsNext
     \/ part = "cache" /\ CacheNext
     \/ part = "alerts" /\ AlertsNext
     \/ part = "errors" /\ ErrorNext
     \/ part = "scoring" /\ ScoringNext
  /\ part # "snapshots" => UNCHANGED snapshotVars
  /\ part # "inventory" => UNCHANGED inventoryVars
  /\ part # "accounts" => UNCHANGED accountVars
  /\ part # "settings" => UNCHANGED settingsVars
  /\ part # "connections" => UNCHANGED connectionVars
  /\ part # "discussion" => UNCHANGED discussion
  /\ part # "tags" => UNCHANGED tagVars
  /\ part \notin RequestParts => UNCHANGED requestVars
  /\ part # "rate" => UNCHANGED rateVars
  /\ part # "backups" => UNCHANGED backupVars
  /\ part # "discovery" => UNCHANGED discoveryVars
  /\ part # "circuit" => UNCHANGED circuitVars
  /\ part # "scanners" => UNCHANGED scannerVars
  /\ part # "notifications" => UNCHANGED notificationVars
  /\ part # "cache" => UNCHANGED cacheVars
  /\ part # "alerts" => UNCHANGED alertVars
  /\ part # "errors" => UNCHANGED errorVars
  /\ part # "scoring" => UNCHANGED factors
  /\ UNCHANGED part
  /\ Bound

\* What has been started by a process that lives goes on.
Fairness ==
  /\ \A s \in Sessions :
       WF_<<snapshotVars, requestVars>>(part = "snapshots" /\ finish_rollback(s))
  /\ \A n \in Scans : WF_discoveryVars(DiscoveryTask(n))

Spec == Init /\ [][Next]_vars /\ Fairness

TypeOK ==
  /\ part = "snapshots" => SnapshotTypeOK
  /\ part = "inventory" => InventoryTypeOK
  /\ part = "accounts" => AccountsTypeOK
  /\ part = "settings" => SettingsTypeOK
  /\ part = "connections" => ConnectionsTypeOK
  /\ part = "discussion" => CollaborationTypeOK
  /\ part = "tags" => TagsTypeOK
  /\ RateTypeOK /\ BackupTypeOK /\ DiscoveryTypeOK /\ CircuitTypeOK /\ ScannersTypeOK
  /\ NotificationsTypeOK /\ CacheTypeOK /\ AlertsTypeOK /\ ErrorTypeOK /\ ScoringTypeOK
=============================================================================
