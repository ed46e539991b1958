\* Three requests overlap.
CONSTANTS
  i1 = i1
  i2 = i2
  s1 = s1
  s2 = s2
  s3 = s3
  Items = {i1}
  Sessions = {s1, s2, s3}
  Endpoints <- AllEndpoints
  Modes = {FALSE}
  CanCrash = FALSE
  MaxRequests = 6
SPECIFICATION Spec
CHECK_DEADLOCK FALSE
INVARIANTS
  ApprovedHasApprover
