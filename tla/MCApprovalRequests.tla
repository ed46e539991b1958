------------------------ MODULE MCApprovalRequests ------------------------
(* Small instance of ApprovalRequests for TLC. *)
EXTENDS ApprovalRequests, TLC

CONSTANTS r1, r2, b1, ann, bob, s1, s2, p1, p2

\* Two requests about the same bundle.
MCBundleOf == (r1 :> b1) @@ (r2 :> b1)

MCBundleOfOne == r1 :> b1

\* An auto-approving policy for low risk; for high risk a two-person policy
\* that delegates to other roles, and a one-person policy that does not.
MCPolicies ==
  {[risk |-> "low", required |-> 1, auto |-> TRUE, delegates |-> FALSE],
   [risk |-> "high", required |-> 2, auto |-> TRUE, delegates |-> TRUE],
   [risk |-> "high", required |-> 1, auto |-> FALSE, delegates |-> FALSE]}

\* Requests, sessions and policies are interchangeable; the two users are not.
Symmetry == Permutations(Requests) \cup Permutations(Sessions)
              \cup Permutations(PolicyIds)
=============================================================================
