----------------------------- MODULE MCPlanning -----------------------------
(* Small instances of the modules about when something may be deployed.      *)
(* They share no state: a behaviour is one of a single part, which is chosen *)
(* at its start, while the variables of the other parts keep a fixed value.  *)
EXTENDS WindowCapacity, Optimizer, RuleEngine, Goals, TLC

CONSTANTS w1, w2, b1, b2, b3, s1, s2

HalfHours == [b \in Bundles |-> 30]

Rule(scope, value, tags, condition, action) ==
  [scope_type |-> scope, scope_value |-> value, scope_tags |-> tags,
   condition |-> condition, days_before |-> 3, days |-> {4, 5}, after_hour |-> 12,
   action_type |-> action, enabled |-> TRUE, is_default |-> FALSE]

ExampleRules ==
  {[Rule("global", "", {}, "quarter_end", "block") EXCEPT !.is_default = TRUE],
   [Rule("global", "", {}, "always", "warn") EXCEPT !.enabled = FALSE],
   Rule("global", "", {}, "month_end", "require_approval"),
   Rule("environment", "production", {}, "day_of_week", "block"),
   Rule("tag", "", {"pci", "db"}, "always", "warn"),
   Rule("tag", "pci", {}, "risk_threshold", "block")}

ExampleTargets ==
  {[environment |-> "production", tags |-> {"pci", "db"}, assets |-> {"a1"}]}

VARIABLE part

vars == <<windowVars, requestVars, optimizerVars, ruleVars, goalVars, part>>

\* What a part is while another is chosen: one of its initial states.
NoWindows ==
  /\ isolated = FALSE
  /\ calendar = [phase |-> [w \in Windows |-> "absent"],
                 status |-> [b \in Bundles |-> "draft"],
                 at |-> [b \in Bundles |-> NoWindow]]

NoOptimization ==
  /\ goal = [max_vulns |-> 1, max_downtime |-> 60] /\ length = [w \in Slots |-> 90]
  /\ score = [v \in Vulns |-> 70] /\ solver = "absent"

NoRules ==
  /\ rules = <<>> /\ target = CHOOSE t \in ExampleTargets : TRUE
  /\ today = [year |-> 2024, month |-> 1, day |-> 1, hour |-> 9]

NoGoals == goals = [g \in {} |-> 0]

Init ==
  /\ part \in {"windows", "optimizer", "rules", "goals"}
  /\ part = "windows" \/ NoWindows
  /\ part = "optimizer" \/ NoOptimization
  /\ part = "rules" \/ NoRules
  /\ part = "goals" \/ NoGoals
  /\ WindowInit /\ OptimizerInit /\ RuleInit /\ GoalsInit

Next ==
  /\ UNCHANGED part
  /\ \/ part = "windows" /\ WindowNext /\ UNCHANGED <<optimizerVars, ruleVars, goalVars>>
     \/ part = "optimizer" /\ OptimizerNext
        /\ UNCHANGED <<windowVars, requestVars, ruleVars, goalVars>>
     \/ part = "rules" /\ RuleNext
        /\ UNCHANGED <<windowVars, requestVars, optimizerVars, goalVars>>
     \/ part = "goals" /\ GoalsNext
        /\ UNCHANGED <<windowVars, requestVars, optimizerVars, ruleVars>>

Spec == Init /\ [][Next]_vars

TypeOK == WindowTypeOK /\ OptimizerTypeOK /\ RuleTypeOK /\ GoalsTypeOK

Symmetry == Permutations(Bundles) \cup Permutations(Sessions) \cup Permutations(Windows)
=============================================================================
