\* One client rolls back a bundle that was never deployed.
CONSTANTS
  i1 = i1
  i2 = i2
  s1 = s1
  s2 = s2
  s3 = s3
  Items = {i1}
  Sessions = {s1}
  Endpoints <- AllEndpoints
  Modes = {TRUE}
  CanCrash = FALSE
  MaxRequests = 4
SPECIFICATION Spec
CHECK_DEADLOCK FALSE
PROPERTIES
  RollbackNeedsDeployment
