--------------------------------- MODULE Goals ---------------------------------
(***************************************************************************)
(* The goals of api/v1/goals.py, for one tenant, as the class Goal of       *)
(* models/goal.py lets their endpoints work.                                *)
(*                                                                          *)
(* The endpoints use names the API had for what the class calls otherwise.  *)
(* The class has properties with these names, which can be read and not     *)
(* assigned, and for two of them nothing at all: an endpoint that assigns   *)
(* the former or reads the latter raises.  Whether one does follows here    *)
(* from the attributes.  An endpoint works on one row, and nothing that is  *)
(* kept depends on what it has read: it is one step.                        *)
(***************************************************************************)
EXTENDS Integers, FiniteSets

CONSTANTS GoalIds,          \* goals that exist or may be created
          MaxGoalRequests

ASSUME GoalAssumption == MaxGoalRequests \in Nat

VARIABLES goals,       \* the table: for each goal where each attribute has its
                       \* value from
          recent,      \* goals with a bundle made within the last 24 hours
          planned,     \* goals that the optimizer has made bundles for
          asked,       \* history: goals whose creation was asked for, rightly
          requests

goalVars == <<goals, recent, planned, asked, requests>>

Columns ==
  {"tenant_id", "name", "description", "goal_type", "target_completion_date",
   "target_risk_score", "target_vulnerability_count", "risk_tolerance",
   "max_patches_per_window", "max_downtime_minutes", "status", "patches_completed",
   "current_risk_score", "current_vulnerability_count", "updated_at"}

\* @property, and @hybrid_property for the last, without a setter.
Properties ==
  {"type", "target_date", "estimated_completion_date", "target_metric",
   "target_value", "risk_score_current", "risk_score_initial",
   "vulnerabilities_total", "vulnerabilities_addressed", "max_downtime_hours",
   "max_vulns_per_window", "min_patch_weather_score", "require_vendor_approval",
   "progress_percentage", "active"}

Assignable(attributes) == attributes \subseteq Columns

Readable(attributes) == attributes \subseteq Columns \cup Properties

GoalCreate ==
  {"tenant_id", "name", "type", "description", "active", "target_date",
   "target_metric", "target_value", "risk_tolerance", "max_vulns_per_window",
   "max_downtime_hours", "require_vendor_approval", "min_patch_weather_score",
   "asset_filters", "vulnerability_filters", "progress_percentage",
   "vulnerabilities_total", "vulnerabilities_addressed", "risk_score_initial",
   "risk_score_current"}

GoalUpdate ==
  {"name", "description", "active", "risk_tolerance", "max_vulns_per_window",
   "max_downtime_hours", "require_vendor_approval", "min_patch_weather_score"}

Inactive(g) == goals[g]["active"] = "seeded inactive"

GoalsTypeOK ==
  /\ DOMAIN goals \subseteq GoalIds
  /\ \A g \in DOMAIN goals :
       goals[g] \in [GoalUpdate -> {"seeded", "seeded inactive", "requested"}]
  /\ recent \subseteq GoalIds /\ planned \subseteq GoalIds
  /\ asked \subseteq GoalIds
  /\ requests \in 0..MaxGoalRequests

\* Rows come from scripts/seed_demo.py.
Seeded(active) ==
  [a \in GoalUpdate |-> IF a = "active" /\ ~active THEN "seeded inactive" ELSE "seeded"]

GoalsInit ==
  /\ \E G \in SUBSET GoalIds :
       /\ goals \in [G -> {Seeded(TRUE), Seeded(FALSE)}]
       /\ recent \in SUBSET G
  /\ planned = {} /\ asked = {}
  /\ requests = 0

Request == requests < MaxGoalRequests /\ requests' = requests + 1

\* A compliance deadline without its date, a reduction of risk without its
\* target and a date in the past are refused before anything is done.
create_goal(g) ==
  /\ Request
  /\ g \notin DOMAIN goals
  /\ asked' = asked \cup {g}
  /\ goals' = IF Assignable(GoalCreate)
                THEN [h \in DOMAIN goals \cup {g} |->
                        IF h = g THEN [a \in GoalUpdate |-> "requested"] ELSE goals[h]]
                ELSE goals
  /\ UNCHANGED <<recent, planned>>

\* All the fields of the request are assigned, or none is kept.
update_goal(g, fields) ==
  /\ Request
  /\ goals' = IF Assignable(fields)
                THEN [goals EXCEPT ![g] =
                        [a \in GoalUpdate |-> IF a \in fields THEN "requested" ELSE @[a]]]
                ELSE goals
  /\ UNCHANGED <<recent, planned, asked>>

\* What calculate_goal_metrics looks at first.
Metrics == Readable({"tenant_id", "asset_filters", "vulnerability_filters"})

\* Refused for an inactive goal, skipped if there is a recent bundle; a failure
\* is caught and answered with success = False.
optimize_goal(g, force_reoptimize, preview_only) ==
  /\ Request
  /\ ~Inactive(g)
  /\ force_reoptimize \/ g \notin recent
  /\ planned' = IF Metrics /\ ~preview_only THEN planned \cup {g} ELSE planned
  /\ UNCHANGED <<goals, recent, asked>>

\* calculate_goal_metrics raises; were it not so, the assignment of the limits
\* of each of the three previews would.
recommend_plans(g) ==
  /\ Request
  /\ ~Inactive(g)
  /\ UNCHANGED <<goals, recent, planned, asked>>

\* The UPDATE of the scheduled bundles is written as a method of a SELECT, which
\* has none such: nothing is cancelled or deleted.
delete_goal(g) ==
  /\ Request
  /\ UNCHANGED <<goals, recent, planned, asked>>

list_goals(active_only) == {g \in DOMAIN goals : active_only => ~Inactive(g)}

GoalsNext ==
  \/ \E g \in GoalIds : create_goal(g)
  \/ \E g \in DOMAIN goals :
       \/ \E fields \in SUBSET GoalUpdate :
            Cardinality(fields) \in 1..2 /\ update_goal(g, fields)
       \/ \E forced, preview \in BOOLEAN : optimize_goal(g, forced, preview)
       \/ recommend_plans(g)
       \/ delete_goal(g)

GoalsSpec == GoalsInit /\ [][GoalsNext]_goalVars

-----------------------------------------------------------------------------
(* Properties *)

\* What the tests of the API say of every valid request to create a goal:
\* "Goals created via POST appear in the list."
\* (tests/integration/test_api_goals.py)
CreatedGoalsAppear == asked \subseteq list_goals(FALSE)
=============================================================================
