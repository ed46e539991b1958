----------------------------- MODULE Connections -----------------------------
(***************************************************************************)
(* The connections to other systems (api/v1/connections.py) and the test   *)
(* of one (services/connection_health.py), which asks the other system      *)
(* while the row stays as it was loaded.                                    *)
(*                                                                          *)
(* A configuration is the set of its fields, and of those that are not      *)
(* empty.  What the other system says is one of Answers,                    *)
(* "malformed" being a success whose body cannot be read.                   *)
(***************************************************************************)
EXTENDS Requests

CONSTANT ConnectionIds

VARIABLES connections,  \* the committed rows
          verdicts      \* history: the answer to the last test of a connection
                        \* that was not edited since

connectionVars == <<connections, verdicts>>

PROVIDER_METADATA ==
  [aws        |-> {"access_key_id", "secret_access_key", "region"},
   azure      |-> {"tenant_id", "client_id", "client_secret"},
   gcp        |-> {"service_account_json"},
   slack      |-> {"access_token"},
   jira       |-> {"url", "email", "api_token"},
   servicenow |-> {"instance_url", "username", "password"},
   webhook    |-> {"url"},
   tenable    |-> {"access_key", "secret_key"},
   qualys     |-> {"username", "password"},
   rapid7     |-> {"host", "api_key"}]

Providers == DOMAIN PROVIDER_METADATA

Answers ==
  {"accepted", "refused", "not_found", "server_error", "unreachable", "malformed"}

Errors == {"none", "missing"} \cup Answers

Statuses == {"pending", "active", "error", "disabled"}

-----------------------------------------------------------------------------
(* The checks.  Each gives the error to show, or "none".                     *)

Needing(fields, filled, error) == IF fields \subseteq filled THEN error ELSE "missing"

Only(accepted, answer) == IF answer \in accepted THEN "none" ELSE answer

check_aws(filled, answer) ==
  Needing({"access_key_id", "secret_access_key"}, filled, Only({"accepted"}, answer))

check_azure(filled, answer) ==
  Needing({"tenant_id", "client_id", "client_secret"}, filled, Only({"accepted"}, answer))

\* Nothing is asked: the key file only has to be one, and not "malformed".
check_gcp(filled, answer) ==
  Needing({"service_account_json"}, filled, Only(Answers \ {"malformed"}, answer))

check_slack(filled, answer) ==
  Needing({"access_token"}, filled, Only({"accepted"}, answer))

check_jira(filled, answer) ==
  Needing({"url", "email", "api_token"}, filled, Only({"accepted"}, answer))

\* Here and below the body of the answer is not looked at.
check_servicenow(filled, answer) ==
  Needing({"instance_url", "username", "password"}, filled,
          Only({"accepted", "malformed"}, answer))

\* Any answer will do that is not an error of the server.
check_webhook(filled, answer) ==
  Needing({"url"}, filled, Only(Answers \ {"server_error", "unreachable"}, answer))

check_tenable(filled, answer) ==
  Needing({"access_key", "secret_key"}, filled, Only({"accepted", "malformed"}, answer))

check_qualys(filled, answer) ==
  Needing({"username", "password"}, filled, Only({"accepted", "malformed"}, answer))

check_rapid7(filled, answer) ==
  Needing({"host", "api_key"}, filled, Only({"accepted", "malformed"}, answer))

check_health(provider, filled, answer) ==
  CASE provider = "aws"        -> check_aws(filled, answer)
    [] provider = "azure"      -> check_azure(filled, answer)
    [] provider = "gcp"        -> check_gcp(filled, answer)
    [] provider = "slack"      -> check_slack(filled, answer)
    [] provider = "jira"       -> check_jira(filled, answer)
    [] provider = "servicenow" -> check_servicenow(filled, answer)
    [] provider = "webhook"    -> check_webhook(filled, answer)
    [] provider = "tenable"    -> check_tenable(filled, answer)
    [] provider = "qualys"     -> check_qualys(filled, answer)
    [] provider = "rapid7"     -> check_rapid7(filled, answer)

-----------------------------------------------------------------------------
AllFields == UNION {PROVIDER_METADATA[p] : p \in Providers}

ConnectionRows ==
  [provider : Providers, filled : SUBSET AllFields, status : Statuses, last_error : Errors]

IsTable(table) ==
  /\ DOMAIN table \subseteq ConnectionIds
  /\ \A c \in DOMAIN table : table[c] \in ConnectionRows

ConnectionsTypeOK ==
  /\ IsTable(connections)
  /\ DOMAIN connections \subseteq DOMAIN verdicts
  /\ \A c \in DOMAIN verdicts : verdicts[c] \in Errors \cup {"edited"}
  /\ \A s \in UnderWay : IsTable(seen[s])

ConnectionsInit ==
  /\ RequestsInit
  /\ connections = [c \in {} |-> 0]
  /\ verdicts = [c \in {} |-> "edited"]

ReadConnections(s) ==
  /\ ReadBy(s, connections)
  /\ UNCHANGED connectionVars

RefusedConnection(s) ==
  /\ EndOf(s)
  /\ UNCHANGED connectionVars

\* The configurations that are sent: with at most one of the fields missing.
Sent(provider) ==
  {PROVIDER_METADATA[provider]} \cup
  {PROVIDER_METADATA[provider] \ {f} : f \in PROVIDER_METADATA[provider]}

\* Every required field has to be given; it may be empty.
create_connection(s) ==
  \E c \in ConnectionIds \ DOMAIN verdicts : \E p \in Providers : \E filled \in Sent(p) :
    /\ EndOf(s)
    /\ connections' =
         Inserted(connections, c, [provider |-> p, filled |-> filled,
                                   status |-> "pending", last_error |-> "none"])
    /\ verdicts' = Inserted(verdicts, c, "edited")

\* The UPDATE of a row: it fails when the row is gone.
UpdateRow(s, c, status, error, filled) ==
  LET old == seen[s][c] IN
  /\ c \in DOMAIN seen[s] \cap DOMAIN connections
  /\ EndOf(s)
  /\ connections' =
       [connections EXCEPT ![c].status = Put(old.status, status, @),
                           ![c].last_error = Put(old.last_error, error, @),
                           ![c].filled = Put(old.filled, filled, @)]

\* What is sent is stored, unchecked; an error that was shown stays.
update_connection(s) ==
  \E c \in DOMAIN seen[s] :
    LET old == seen[s][c] IN
    \E filled \in Sent(old.provider), status \in {old.status, "active", "disabled"} :
      /\ UpdateRow(s, c, status, old.last_error, filled)
      /\ verdicts' = [verdicts EXCEPT ![c] = "edited"]

delete_connection(s) ==
  \E c \in DOMAIN seen[s] :
    /\ EndOf(s)
    /\ connections' = [d \in DOMAIN connections \ {c} |-> connections[d]]
    /\ UNCHANGED verdicts

\* The error of an earlier test is left in place: a variant of the next.
test_keeps_error(s) ==
  \E c \in DOMAIN seen[s] : \E answer \in Answers :
    LET old == seen[s][c]
        error == check_health(old.provider, old.filled, answer)
    IN /\ UpdateRow(s, c, IF error = "none" THEN "active" ELSE "error",
                 IF error = "none" THEN old.last_error ELSE error, old.filled)
       /\ verdicts' = [verdicts EXCEPT ![c] = error]

\* The other system is asked with the configuration that was loaded.
test_connection(s) ==
  \E c \in DOMAIN seen[s] : \E answer \in Answers :
    LET old == seen[s][c]
        error == check_health(old.provider, old.filled, answer)
    IN /\ UpdateRow(s, c, IF error = "none" THEN "active" ELSE "error", error, old.filled)
       /\ verdicts' = [verdicts EXCEPT ![c] = error]

ConnectionHandler(s) ==
  \/ ReadConnections(s)
  \/ s \in UnderWay /\ \/ RefusedConnection(s)
                       \/ create_connection(s)
                       \/ update_connection(s)
                       \/ delete_connection(s)
                       \/ test_connection(s)

ConnectionsNext == \E s \in Sessions : ConnectionHandler(s)

-----------------------------------------------------------------------------
(* Property *)

\* With one client, a connection that was not edited since its last test shows
\* the answer to that test, and the answer was not that something is missing if
\* the fields PROVIDER_METADATA requires of its provider have values: the two
\* tables agree on what a provider needs, the one that admits a connection and
\* the one that tests it.
ConnectionVerdicts ==
  isolated =>
    \A c \in DOMAIN connections :
      LET row == connections[c] IN
      verdicts[c] # "edited" =>
        /\ row.status = IF verdicts[c] = "none" THEN "active" ELSE "error"
        /\ row.last_error = verdicts[c]
        /\ verdicts[c] = "missing" => ~(PROVIDER_METADATA[row.provider] \subseteq row.filled)
=============================================================================
