------------------------------- MODULE Scanners -------------------------------
(***************************************************************************)
(* What a scan collects (services/discovery): the orchestrator runs the     *)
(* scanners that were asked for and stores the assets they found between    *)
(* them.  A scanner goes through places (regions, subscriptions, projects,  *)
(* schemas) and, in each, calls its listers one after the other.            *)
(*                                                                          *)
(* Scanners that run in parallel share nothing, and are taken one after the *)
(* other here.  What there is to be found is fixed: in every place          *)
(* two resources of each kind, of which the second is on a later page.  An  *)
(* asset is its identifier, which several resources may have: then they     *)
(* are stored as one, and no error says so.  A call of another system may   *)
(* raise the exception its library has for refusals, "api", or any "other". *)
(***************************************************************************)
EXTENDS Integers, Sequences, FiniteSets, SequencesExt

CONSTANTS Places,
          MaxScanners,  \* bound on the scanners of one scan
          MaxFaults     \* bound on the calls that fail

ASSUME ScannersAssumption == IsFiniteSet(Places) /\ MaxFaults \in Nat

VARIABLES registered,  \* the orchestrator's scanners, in order
          phase,       \* of the first of them, or of the whole scan when it ended
          work,        \* what the first of them has still to do
          scanned,     \* the places each one went to (the result's metadata)
          found,       \* the assets of each one's result
          failing,     \* those whose result has errors
          stored,      \* the assets handed to _persist_assets
          faultsLeft

scannerVars == <<registered, phase, work, scanned, found, failing, stored, faultsLeft>>

Scanners ==
  {"aws", "azure", "gcp", "cloudquery", "device42", "jira_assets", "servicenow",
   "kubescape", "trivy", "nmap"}

Faults == {"api", "other"}

FirstPage == {1}

AllPages == {1, 2}

-----------------------------------------------------------------------------
(* Identifiers *)

\* What the identifiers of a kind look like.  Names and numbers stand alone in
\* them: one name may be a database's and a function's, and Device42 and Jira
\* number their objects each on its own.  The others have a prefix or a form that
\* no other kind has, Google's numbers by their length.
Form(kind) ==
  CASE kind \in {"rds", "lambda", "cloud_sql"} -> "name"
    [] kind \in {"device", "object"}           -> "number"
    [] OTHER                                   -> kind

\* The kinds whose identifiers do not tell places apart: names that are given once
\* in a region, account or project, addresses without their network, and racks
\* without their room.
SamePlaces == {"rds", "lambda", "ecs", "eks", "cloud_sql", "ip", "rack"}

Identifier(kind, place, n) ==
  <<Form(kind), IF kind \in SamePlaces THEN "anywhere" ELSE place, n>>

-----------------------------------------------------------------------------
(* The listers: the kinds of resources each asks for, the pages of the       *)
(* answer it reads, the exceptions it catches, and whether it then returns   *)
(* what it had.                                                              *)

Lister(kinds, pages, catches, keeps) ==
  [kinds |-> kinds, pages |-> pages, catches |-> catches, keeps |-> keeps]

_discover_ec2 == Lister({"ec2"}, FirstPage, {"api"}, TRUE)

_discover_rds == Lister({"rds"}, FirstPage, {"api"}, TRUE)

_discover_lambda == Lister({"lambda"}, AllPages, {"api"}, TRUE)

_discover_ecs == Lister({"ecs"}, FirstPage, {"api"}, TRUE)

_discover_eks == Lister({"eks"}, FirstPage, {"api"}, TRUE)

_discover_vms == Lister({"vm"}, AllPages, Faults, TRUE)

_discover_sql == Lister({"sql"}, AllPages, Faults, TRUE)

_discover_container_instances == Lister({"aci"}, AllPages, Faults, TRUE)

_discover_aks == Lister({"aks"}, AllPages, Faults, TRUE)

_discover_app_services == Lister({"app"}, AllPages, Faults, TRUE)

_discover_compute_vms == Lister({"compute"}, AllPages, Faults, TRUE)

_discover_cloud_sql == Lister({"cloud_sql"}, FirstPage, Faults, TRUE)

\* The answer to this one comes in one page.
_discover_gke == Lister({"gke"}, AllPages, Faults, TRUE)

_discover_cloud_run == Lister({"run"}, AllPages, Faults, TRUE)

_discover_cloud_functions == Lister({"functions"}, AllPages, Faults, TRUE)

\* All the queries of a provider, or nothing.
_query_aws_assets == Lister({"ec2", "rds"}, AllPages, Faults, FALSE)

_query_azure_assets == Lister({"vm"}, AllPages, Faults, FALSE)

_query_gcp_assets == Lister({"compute"}, AllPages, Faults, FALSE)

_query_k8s_assets == Lister({"pod"}, AllPages, Faults, FALSE)

_discover_devices == Lister({"device"}, AllPages, {"api"}, TRUE)

\* Addresses without a device are left out.
_discover_ip_addresses == Lister({"ip"}, AllPages, {"api"}, TRUE)

_discover_rack_devices == Lister({"rack"}, AllPages, {"api"}, TRUE)

\* The listing of a schema's types, which finds nothing itself.
_get_object_types == Lister({}, AllPages, {}, TRUE)

\* One type of a schema: "page": 1 of the answer is all that is asked for.
_get_objects_by_type == Lister({"object"}, FirstPage, Faults, TRUE)

\* One class: "sysparm_limit" is 1000.
_discover_ci_class == Lister({"ci"}, FirstPage, {"api"}, TRUE)

\* Resources without a failed control are left out, and the frameworks scan the
\* same cluster.
_scan_framework == Lister({"k8s"}, AllPages, Faults, FALSE)

-----------------------------------------------------------------------------
(* What a scanner does: a sequence of listers, each with the places it       *)
(* asks about.                                                               *)

Call(where, lister) == [where |-> where, lister |-> lister]

\* For each place, all the listers.
ForEach(places, listers) ==
  LET m == Len(listers)
  IN [n \in 1..(Len(places) * m) |->
        Call({places[((n - 1) \div m) + 1]}, listers[((n - 1) % m) + 1])]

scan_aws(places) ==
  ForEach(places, <<_discover_ec2, _discover_rds, _discover_lambda, _discover_ecs, _discover_eks>>)

scan_azure(places) ==
  ForEach(places, <<_discover_vms, _discover_sql, _discover_container_instances,
                    _discover_aks, _discover_app_services>>)

scan_gcp(places) ==
  ForEach(places, <<_discover_compute_vms, _discover_cloud_sql, _discover_gke,
                    _discover_cloud_run, _discover_cloud_functions>>)

scan_cloudquery(places) ==
  LET everywhere == ToSet(places) IN
  <<Call(everywhere, _query_aws_assets), Call(everywhere, _query_azure_assets),
    Call(everywhere, _query_gcp_assets), Call(everywhere, _query_k8s_assets)>>

scan_device42(places) ==
  LET everywhere == ToSet(places) IN
  <<Call(everywhere, _discover_devices), Call(everywhere, _discover_ip_addresses),
    Call(everywhere, _discover_rack_devices)>>

scan_jira_assets(places) == ForEach(places, <<_get_object_types, _get_objects_by_type>>)

\* The classes are the places here, two of the seven.
scan_servicenow(places) == ForEach(places, <<_discover_ci_class>>)

\* Two frameworks.
scan_kubescape(places) ==
  LET everywhere == ToSet(places) IN
  <<Call(everywhere, _scan_framework), Call(everywhere, _scan_framework)>>

CallsOf(scanner, places) ==
  CASE scanner = "aws"         -> scan_aws(places)
    [] scanner = "azure"       -> scan_azure(places)
    [] scanner = "gcp"         -> scan_gcp(places)
    [] scanner = "cloudquery"  -> scan_cloudquery(places)
    [] scanner = "device42"    -> scan_device42(places)
    [] scanner = "jira_assets" -> scan_jira_assets(places)
    [] scanner = "servicenow"  -> scan_servicenow(places)
    [] scanner = "kubescape"   -> scan_kubescape(places)

\* Those that have a "try" around each place, besides that of the lister.
PlaceByPlace == {"aws", "azure", "gcp", "jira_assets"}

Identifiers(where, lister, pages) ==
  {Identifier(k, p, n) : k \in lister.kinds, p \in where, n \in lister.pages \cap pages}

-----------------------------------------------------------------------------
ScannersTypeOK ==
  /\ registered \in Seq(Scanners)
  /\ phase \in {"opening", "listing", "ended"}
  /\ failing \subseteq Scanners
  /\ DOMAIN scanned = DOMAIN found /\ DOMAIN scanned \subseteq Scanners
  /\ \A s \in DOMAIN scanned : scanned[s] \subseteq Places
  /\ faultsLeft \in 0..MaxFaults

\* An unknown scanner, or one without its library or its configuration, makes
\* the request fail before anything is stored.
ScannersInit ==
  /\ registered \in UNION {[1..n -> Scanners] : n \in 1..MaxScanners}
  /\ IsInjective(registered)
  /\ phase = "opening" /\ work = <<>>
  /\ scanned = [s \in {} |-> {}] /\ found = [s \in {} |-> {}]
  /\ failing = {} /\ stored = {}
  /\ faultsLeft = MaxFaults

Current == Head(registered)

Opening == phase = "opening" /\ registered # <<>>

Fault == faultsLeft > 0 /\ faultsLeft' = faultsLeft - 1

Finds(assets) == found' = [found EXCEPT ![Current] = @ \cup assets]

Opens(places) ==
  /\ phase' = "listing"
  /\ scanned' = [s \in DOMAIN scanned \cup {Current} |->
                   IF s = Current THEN ToSet(places) ELSE scanned[s]]
  /\ found' = [s \in DOMAIN found \cup {Current} |-> IF s = Current THEN {} ELSE found[s]]
  /\ UNCHANGED <<registered, stored>>

\* The places are configured, or listed first.
open ==
  /\ Opening
  /\ Current \notin {"trivy", "nmap"}
  /\ \E places \in {SetToSeq(P) : P \in SUBSET Places \ {{}}} :
       /\ Opens(places)
       /\ work' = CallsOf(Current, places)
  /\ UNCHANGED <<failing, faultsLeft>>

\* The orchestrator calls scan() without a target, without which these two
\* have nothing to scan.
open_without_target ==
  /\ Opening
  /\ Current \in {"trivy", "nmap"}
  /\ Opens(<<>>)
  /\ work' = <<>>
  /\ failing' = failing \cup {Current}
  /\ UNCHANGED faultsLeft

\* The subscriptions or the schemas cannot be listed, CloudQuery's sync fails,
\* or scan() itself raises, as it does if its places are configured as null.
open_failing ==
  /\ Opening
  /\ Opens(<<>>)
  /\ Fault
  /\ work' = <<>>
  /\ failing' = failing \cup {Current}

\* _list_projects returns what it had, without a word.
open_gcp_partly ==
  /\ Opening
  /\ Current = "gcp"
  /\ \E P \in SUBSET Places \ {Places} :
       Opens(SetToSeq(P)) /\ work' = scan_gcp(SetToSeq(P))
  /\ Fault
  /\ UNCHANGED failing

Listing == phase = "listing" /\ work # <<>>

list ==
  /\ Listing
  /\ Finds(Identifiers(Head(work).where, Head(work).lister, AllPages))
  /\ work' = Tail(work)
  /\ UNCHANGED <<registered, phase, scanned, failing, stored, faultsLeft>>

\* The lister catches the exception, and may return what it had until then.
list_failing ==
  /\ Listing
  /\ Fault
  /\ LET call == Head(work) IN
     \E fault \in call.lister.catches, pages \in {{}, FirstPage} :
       Finds(IF call.lister.keeps THEN Identifiers(call.where, call.lister, pages) ELSE {})
  /\ work' = Tail(work)
  /\ failing' = failing \cup {Current}
  /\ UNCHANGED <<registered, phase, scanned, stored>>

\* What is left to do when an exception got out of the lister of a call.
AfterRaise(call, rest) ==
  IF Current \in PlaceByPlace
    THEN SelectSeq(rest, LAMBDA other : other.where # call.where)
    ELSE rest

\* As if it went unnoticed: a variant of the next.
list_raising_silently ==
  /\ Listing
  /\ Fault
  /\ Faults \ Head(work).lister.catches # {}
  /\ work' = AfterRaise(Head(work), Tail(work))
  /\ UNCHANGED <<registered, phase, scanned, found, failing, stored>>

\* The lister does not catch it: the loop over the places does, and goes on
\* with the next place.
list_raising ==
  /\ Listing
  /\ Fault
  /\ Faults \ Head(work).lister.catches # {}
  /\ work' = AfterRaise(Head(work), Tail(work))
  /\ failing' = failing \cup {Current}
  /\ UNCHANGED <<registered, phase, scanned, found, stored>>

finish_scanner ==
  /\ phase = "listing" /\ work = <<>>
  /\ registered' = Tail(registered)
  /\ phase' = "opening"
  /\ UNCHANGED <<work, scanned, found, failing, stored, faultsLeft>>

\* Assets of the same identifier become one.
_deduplicate_assets == UNION {found[s] : s \in DOMAIN found}

discover_all ==
  /\ phase = "opening" /\ registered = <<>>
  /\ phase' = "ended"
  /\ stored' = _deduplicate_assets
  /\ UNCHANGED <<registered, work, scanned, found, failing, faultsLeft>>

ScannersNext ==
  \/ open \/ open_without_target \/ open_failing \/ open_gcp_partly
  \/ list \/ list_failing \/ list_raising
  \/ finish_scanner \/ discover_all

-----------------------------------------------------------------------------
(* Property *)

\* A scan that reports no error has passed over nothing: of the places its scanners
\* say they went to, every resource on a page they read is stored under its
\* identifier, wherever in the loops over places and listers it was.  Three ways
\* to miss something are not excluded, since the code has them: resources that share
\* an identifier are stored as one asset, further pages may not be read, and the
\* projects that _list_projects did not get to are not among those places.
NothingMissedSilently ==
  phase = "ended" /\ failing = {} =>
    \A s \in DOMAIN scanned :
      LET calls == CallsOf(s, SetToSeq(scanned[s])) IN
      \A i \in DOMAIN calls :
        Identifiers(calls[i].where, calls[i].lister, AllPages) \subseteq stored
=============================================================================
