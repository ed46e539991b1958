SPECIFICATION Spec
CONSTANTS
  s1 = s1
  s2 = s2
  w1 = w1
  w2 = w2
  b1 = b1
  b2 = b2
  b3 = b3
  Sessions = {s1}
  MaxRequests = 0
  Windows = {w1}
  Bundles = {b1}
  NoWindow = NoWindow
  WindowMinutes = 30
  Minutes <- HalfHours
  NVulns = 2
  NWindows = 2
  MaxVulns = {1}
  Downtimes = {60}
  Lengths = {90}
  Scores = {70}
  Solvers = {"absent", "done"}
  Rules = {}
  Bodies <- ExampleRules
  Targets <- ExampleTargets
  GoalIds = {1, 2}
  MaxGoalRequests = 3
INVARIANTS
  CreatedGoalsAppear
CHECK_DEADLOCK FALSE
