SPECIFICATION Spec
CONSTANTS
  s1 = s1
  s2 = s2
  w1 = w1
  w2 = w2
  b1 = b1
  b2 = b2
  b3 = b3
  Sessions = {s1, s2}
  MaxRequests = 4
  Windows = {w1, w2}
  Bundles = {b1, b2, b3}
  NoWindow = NoWindow
  WindowMinutes = 30
  Minutes <- HalfHours
  NVulns = 3
  NWindows = 3
  MaxVulns = {1, 2}
  Downtimes = {60, 120}
  Lengths = {20, 90}
  Scores = {50, 70, 90}
  Solvers = {"absent", "slow", "done"}
  Rules = {1, 2}
  Bodies <- ExampleRules
  Targets <- ExampleTargets
  GoalIds = {1, 2}
  MaxGoalRequests = 3
SYMMETRY Symmetry
INVARIANTS
  TypeOK
  PlanWithinLimits
  GreedyByRisk
  CalendarAgrees
PROPERTIES
  WindowsKept
  ImplementsPlanLimits
  RulesOnlyRestrict
CHECK_DEADLOCK FALSE
