----------------------------- MODULE Notifications -----------------------------
(***************************************************************************)
(* Notifications to a tenant (services/notifications.py) and what its users *)
(* do with them (api/v1/notifications.py).                                  *)
(*                                                                          *)
(* No caller names the channels, so that those of the notification's type   *)
(* are used, which are Slack and the table of the application: Teams, email *)
(* and the webhook are in no list.  They are called one after               *)
(* the other; the table is written in a session of its own, whatever        *)
(* becomes of the caller's transaction.                                     *)
(***************************************************************************)
EXTENDS Integers, Sequences

CONSTANTS Sends   \* the notifications that are sent

VARIABLES routing,        \* the tenant's settings: what is enabled and known
          sends,          \* for each one sent, the channels left
          results,        \* and what became of those before
          notifications   \* the committed rows, each with its flag "read"

notificationVars == <<routing, sends, results, notifications>>

NotificationTypes ==
  {"critical_vulnerability", "kev_added", "bundle_ready", "approval_needed",
   "patch_success", "patch_failed", "sla_breach", "weekly_digest"}

Channels == {"slack", "in_app"}

\* The address of Slack's webhook may be found in two places.
Routings == [slack_enabled : BOOLEAN, slack_webhook_url : BOOLEAN, legacy_url : BOOLEAN]

\* The types that also go to Slack.
Urgent ==
  {"critical_vulnerability", "kev_added", "approval_needed", "patch_failed", "sla_breach"}

_get_channels_for_type(type) ==
  IF type \in Urgent /\ routing.slack_enabled /\ routing.slack_webhook_url
    THEN <<"slack", "in_app">> ELSE <<"in_app">>

NotificationsTypeOK ==
  /\ routing \in Routings
  /\ DOMAIN sends \subseteq Sends /\ DOMAIN results = DOMAIN sends
  /\ \A n \in DOMAIN sends :
       /\ sends[n] \in Seq(Channels)
       /\ DOMAIN results[n] \subseteq Channels
       /\ \A c \in DOMAIN results[n] : results[n][c] \in BOOLEAN
  /\ DOMAIN notifications \subseteq DOMAIN sends
  /\ \A n \in DOMAIN notifications : notifications[n] \in BOOLEAN

NotificationsInit ==
  /\ routing \in Routings
  /\ sends = [n \in {} |-> <<>>] /\ results = [n \in {} |-> 0]
  /\ notifications = [n \in {} |-> FALSE]

\* The settings change between notifications, and during them.
change_routing ==
  /\ routing' \in Routings
  /\ UNCHANGED <<sends, results, notifications>>

send_notification(n) ==
  /\ n \notin DOMAIN sends
  /\ \E type \in NotificationTypes :
       sends' = [m \in DOMAIN sends \cup {n} |->
                   IF m = n THEN _get_channels_for_type(type) ELSE sends[m]]
  /\ results' = [m \in DOMAIN sends' |-> IF m = n THEN [c \in {} |-> TRUE] ELSE results[m]]
  /\ UNCHANGED <<routing, notifications>>

Next_is(n, channel) == n \in DOMAIN sends /\ sends[n] # <<>> /\ Head(sends[n]) = channel

Recorded(n, channel, success) ==
  results' = [results EXCEPT ![n] =
                [c \in DOMAIN @ \cup {channel} |-> IF c = channel THEN success ELSE @[c]]]

\* As if the first channel to fail ended it: a variant of the next.
AfterFailureStops(n) == <<>>

\* An exception is recorded and the next channel is tried.
AfterFailure(n) == Tail(sends[n])

\* The tenant was loaded by the caller, before the settings may have changed:
\* whether there is an address still is open.
_send_slack(n) ==
  /\ Next_is(n, "slack")
  /\ \/ Recorded(n, "slack", TRUE) /\ sends' = [sends EXCEPT ![n] = Tail(@)]
     \/ Recorded(n, "slack", FALSE) /\ sends' = [sends EXCEPT ![n] = AfterFailure(n)]
  /\ UNCHANGED <<routing, notifications>>

\* A row for all users of the tenant.  It is committed and then read again: if only
\* that fails, or the answer to the commit is lost, there is a row and a failure.
_send_in_app(n) ==
  /\ Next_is(n, "in_app")
  /\ sends' = [sends EXCEPT ![n] = Tail(@)]
  /\ \/ /\ \E success \in BOOLEAN : Recorded(n, "in_app", success)
        /\ notifications' = [m \in DOMAIN notifications \cup {n} |->
                               m # n /\ notifications[m]]
     \/ /\ Recorded(n, "in_app", FALSE)
        /\ UNCHANGED notifications
  /\ UNCHANGED routing

\* One user reads it, and it is read for all.
_mark_one_read(n) ==
  /\ n \in DOMAIN notifications
  /\ notifications' = [notifications EXCEPT ![n] = TRUE]
  /\ UNCHANGED <<routing, sends, results>>

_mark_all_read ==
  /\ notifications' = [n \in DOMAIN notifications |-> TRUE]
  /\ UNCHANGED <<routing, sends, results>>

SendStep(n) == _send_slack(n) \/ _send_in_app(n)

NotificationsNext ==
  \/ \E n \in Sends : send_notification(n) \/ SendStep(n) \/ _mark_one_read(n)
  \/ change_routing \/ _mark_all_read

-----------------------------------------------------------------------------
(* Property *)

\* Whatever happens to the other channel, and whether or not it is set up, every
\* notification that was sent has been tried for the table, and it is there if the
\* result says so.  Of one whose result says it failed nothing follows: the row may
\* be there all the same.
InAppAlways ==
  \A n \in DOMAIN sends :
    sends[n] = <<>> =>
      /\ "in_app" \in DOMAIN results[n]
      /\ results[n]["in_app"] => n \in DOMAIN notifications
=============================================================================
