-------------------------- MODULE BundleLifecycle --------------------------
(***************************************************************************)
(* What the backend promises of a bundle's status, seen from outside: it     *)
(* moves by the table of legal transitions, in which "completed" and         *)
(* "cancelled" are final, and a deployment starts from "approved" only.      *)
(* Four writers of the status never look at the table, and neither does a    *)
(* deployment that ends: each of them is an action of its own, so that a     *)
(* status which leaves the table says who wrote it, and with the four unused *)
(* the table is all there is while no deployment ends.                       *)
(***************************************************************************)
CONSTANTS Sessions,   \* the requests that may run a deployment
          Overriding  \* those of the four writers that are in use

VARIABLES status,  \* the status of the bundle
          running  \* the deployments under way

\* The transitions that the API calls legal.
Legal ==
  {<<"draft", "scheduled">>, <<"draft", "approved">>, <<"draft", "cancelled">>,
   <<"scheduled", "approved">>, <<"scheduled", "draft">>, <<"scheduled", "cancelled">>,
   <<"approved", "in_progress">>, <<"approved", "draft">>, <<"approved", "cancelled">>,
   <<"in_progress", "completed">>, <<"in_progress", "failed">>, <<"failed", "draft">>}

Init == status \in {"draft", "scheduled"} /\ running = {}

Become(new) == status' = new /\ UNCHANGED running

\* A request that keeps to the table, also by hand, the deployment being done
\* elsewhere.
Move == \E new \in {t[2] : t \in Legal} : <<status, new>> \in Legal /\ Become(new)

\* The writers that do not ask what the status was.
AssignWindow == "assign_window" \in Overriding /\ Become("scheduled")
ApproveRequest == "approve_request" \in Overriding /\ Become("approved")
RejectRequest == "reject_request" \in Overriding /\ Become("cancelled")
RollBack == "rollback" \in Overriding /\ Become("failed")

Start(s) ==
  /\ status = "approved"
  /\ s \notin running
  /\ status' = "in_progress"
  /\ running' = running \cup {s}

\* A deployment that ends reports its result over whatever it finds ...
Finish(s) ==
  /\ s \in running
  /\ status' = "completed"
  /\ running' = running \ {s}

\* ... unless it dies, which leaves the status as it is.
Die(s) ==
  /\ s \in running
  /\ running' = running \ {s}
  /\ UNCHANGED status

Next ==
  \/ Move \/ AssignWindow \/ ApproveRequest \/ RejectRequest \/ RollBack
  \/ \E s \in Sessions : Start(s) \/ Finish(s) \/ Die(s)

Spec == Init /\ [][Next]_<<status, running>>
=============================================================================
