----------------------------- MODULE PlanLimits -----------------------------
(***************************************************************************)
(* What is promised of a patch plan (services/optimization.py): it only     *)
(* grows, a vulnerability is in one maintenance window at most and stays    *)
(* there, and no window gets more than the goal allows, or than one.        *)
(***************************************************************************)
EXTENDS Integers, FiniteSets

CONSTANTS Vulns, Windows
VARIABLES limit,   \* max_vulns_per_window
          plan     \* the vulnerabilities of each window

Allowed(p) ==
  /\ \A u, w \in Windows : u # w => p[u] \cap p[w] = {}
  /\ \A w \in Windows : Cardinality(p[w]) <= limit \/ Cardinality(p[w]) <= 1

Init ==
  /\ limit \in Nat
  /\ plan = [w \in Windows |-> {}]

Extend ==
  /\ plan' \in [Windows -> SUBSET Vulns]
  /\ \A w \in Windows : plan[w] \subseteq plan'[w]
  /\ Allowed(plan')
  /\ UNCHANGED limit

Spec == Init /\ [][Extend]_<<limit, plan>>
=============================================================================
