\* Requests that overlap in every way, and requests one after the other.
CONSTANTS
  i1 = i1
  i2 = i2
  s1 = s1
  s2 = s2
  s3 = s3
  Items = {i1, i2}
  Sessions = {s1, s2}
  Endpoints <- AllEndpoints
  Modes = {TRUE, FALSE}
  CanCrash = TRUE
  MaxRequests = 7
SYMMETRY Symmetry
SPECIFICATION Spec
CHECK_DEADLOCK FALSE
INVARIANTS
  TypeOK
  NothingDeployedUnapproved
  ContentReviewed
  ApproverKept
PROPERTIES
  NeverSkipsExecution
