\* One client rolls a deployment back and deploys again.
CONSTANTS
  i1 = i1
  i2 = i2
  s1 = s1
  s2 = s2
  s3 = s3
  Items = {i1}
  Sessions = {s1}
  Endpoints <- RetryEndpoints
  Modes = {TRUE}
  CanCrash = FALSE
  MaxRequests = 8
SPECIFICATION FairSpec
CHECK_DEADLOCK FALSE
PROPERTIES
  RunSettlesBundle
