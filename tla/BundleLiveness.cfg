\* Deployments under fairness, without rollbacks and deletions.
CONSTANTS
  i1 = i1
  i2 = i2
  s1 = s1
  s2 = s2
  s3 = s3
  Items = {i1, i2}
  Sessions = {s1, s2}
  Endpoints <- DeploymentEndpoints
  Modes = {TRUE, FALSE}
  CanCrash = FALSE
  MaxRequests = 5
SPECIFICATION FairSpec
CHECK_DEADLOCK FALSE
PROPERTIES
  RunSettlesBundle
  ImplementsLifecycle
