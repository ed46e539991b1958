\* Two users approve the same request at the same time.
CONSTANTS
  r1 = r1
  r2 = r2
  b1 = b1
  ann = ann
  bob = bob
  s1 = s1
  s2 = s2
  p1 = p1
  p2 = p2
  Requests = {r1}
  Bundles = {b1}
  BundleOf <- MCBundleOfOne
  Users = {ann, bob}
  Approvers = {ann}
  Sessions = {s1, s2}
  Risks = {"low", "high"}
  LowRisk = "low"
  PolicyIds = {p1, p2}
  Policies <- MCPolicies
  None = None
SPECIFICATION Spec
INVARIANTS
  QuorumDecides
