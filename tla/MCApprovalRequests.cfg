\* An approver and a delegate vote on two requests through two sessions.
CONSTANTS
  r1 = r1
  r2 = r2
  b1 = b1
  ann = ann
  bob = bob
  s1 = s1
  s2 = s2
  p1 = p1
  p2 = p2
  Requests = {r1, r2}
  Bundles = {b1}
  BundleOf <- MCBundleOf
  Users = {ann, bob}
  Approvers = {ann}
  Sessions = {s1, s2}
  Risks = {"low", "high"}
  LowRisk = "low"
  PolicyIds = {p1, p2}
  Policies <- MCPolicies
  None = None
SYMMETRY Symmetry
SPECIFICATION Spec
INVARIANTS
  TypeOK
  FourEyes
  CountKept
  ApprovedBundleHasQuorum
