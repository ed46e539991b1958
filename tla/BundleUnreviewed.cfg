\* Requests one after the other, while the bundle is deployed.
CONSTANTS
  i1 = i1
  i2 = i2
  s1 = s1
  s2 = s2
  s3 = s3
  Items = {i1, i2}
  Sessions = {s1, s2}
  Endpoints <- WindowEndpoints
  Modes = {TRUE}
  CanCrash = FALSE
  MaxRequests = 4
SPECIFICATION Spec
CHECK_DEADLOCK FALSE
PROPERTIES
  DeploysReviewed
