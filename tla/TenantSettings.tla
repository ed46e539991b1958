--------------------------- MODULE TenantSettings ---------------------------
(***************************************************************************)
(* The settings of a tenant, one JSON document in the column                *)
(* tenants.settings: api/v1/settings.py updates and resets it, and the      *)
(* Slack integration (api/v1/slack.py, services/slack_service.py) keeps its *)
(* token under the key "slack".                                             *)
(*                                                                          *)
(* The column has the plain JSON type: a document that is changed in place  *)
(* is not known to be changed and is not written.                           *)
(***************************************************************************)
EXTENDS Requests

CONSTANTS Sections,   \* keys of the document
          Keys,       \* keys of a section
          Values,     \* values of a setting
          Teams,      \* Slack workspaces
          Unset

VARIABLES settings,   \* the committed document
          told        \* history: the document the last answer implies

settingsVars == <<settings, told>>

Documents ==
  [stored : [Sections \X Keys -> Values \cup {Unset}], slack : Teams \cup {Unset}]

SettingsTypeOK ==
  /\ settings \in Documents
  /\ told \in Documents
  /\ \A s \in UnderWay : seen[s] \in Documents

NoSettings == [stored |-> [k \in Sections \X Keys |-> Unset], slack |-> Unset]

\* The tenant of the demo comes with a Slack workspace (scripts/seed_demo.py).
SettingsInit ==
  /\ RequestsInit
  /\ settings \in [stored : {NoSettings.stored}, slack : Teams \cup {Unset}]
  /\ told = settings

ReadSettings(s) ==
  /\ ReadBy(s, settings)
  /\ UNCHANGED settingsVars

RefusedSettings(s) ==
  /\ EndOf(s)
  /\ UNCHANGED settingsVars

-----------------------------------------------------------------------------
\* A merge one level deep only: a section that is sent replaces the stored one.
deep_merge_shallow(base, sent, section) ==
  [k \in Sections \X Keys |->
     IF k \in DOMAIN sent THEN sent[k]
     ELSE IF k[1] = section THEN Unset ELSE base[k]]

\* What is sent of a section, over what is there.
deep_merge(base, sent, section) ==
  [k \in Sections \X Keys |-> IF k \in DOMAIN sent THEN sent[k] ELSE base[k]]

\* The whole document is written, as merged into the one that was read.
update_settings(s) ==
  \E section \in Sections : \E keys \in SUBSET Keys : \E sent \in [{section} \X keys -> Values] :
    /\ EndOf(s)
    /\ settings' = Put(seen[s],
                       [seen[s] EXCEPT !.stored = deep_merge(@, sent, section)],
                       settings)
    /\ told' = [told EXCEPT !.stored =
                  [k \in DOMAIN @ |-> IF k \in DOMAIN sent THEN sent[k] ELSE @[k]]]

reset_settings(s) ==
  /\ EndOf(s)
  /\ settings' = Put(seen[s], NoSettings, settings)
  /\ told' = NoSettings

\* The token is put into the document that was loaded, and the commit writes
\* nothing.
handle_slack_callback(s) ==
  \E team \in Teams :
    /\ EndOf(s)
    /\ told' = [told EXCEPT !.slack = team]
    /\ UNCHANGED settings

disconnect_slack(s) ==
  /\ EndOf(s)
  /\ told' = [told EXCEPT !.slack = Unset]
  /\ UNCHANGED settings

SettingsHandler(s) ==
  \/ ReadSettings(s)
  \/ s \in UnderWay /\ \/ RefusedSettings(s)
                       \/ update_settings(s)
                       \/ reset_settings(s)
                       \/ handle_slack_callback(s)
                       \/ disconnect_slack(s)

SettingsNext == \E s \in Sessions : SettingsHandler(s)

SettingsSpec == SettingsInit /\ [][SettingsNext]_<<settingsVars, requestVars>>

-----------------------------------------------------------------------------
(* Properties *)

\* With one client, every setting has the value of the last answer about it: an
\* update of some settings of a section keeps its others, and other sections.
\* (Two updates that overlap lose one of them, each writing the whole document.)
UpdatesKept == isolated => settings.stored = told.stored

\* "Exchanges code for access token and stores in tenant settings", "Removes
\* Slack configuration from tenant settings": with one client, the workspace
\* that is connected is the one of the last answer.
SlackFollows == isolated => settings.slack = told.slack
=============================================================================
