-------------------------- MODULE MCBundleWorkflow --------------------------
(* Small instances of BundleWorkflow for TLC. *)
EXTENDS BundleWorkflow, TLC

CONSTANTS i1, i2, s1, s2, s3

\* Items and sessions are interchangeable.
Symmetry == Permutations(Items) \cup Permutations(Sessions)

\* Neither rollbacks nor deletions, which can make a deployment fail.
DeploymentEndpoints == {"approve", "execute", "add_item", "update", "status",
                        "reject_request"}

\* A window, an item and a deployment.
WindowEndpoints == {"approve", "execute", "assign_window", "add_item"}

\* What it takes to roll a deployment back and try again.
RetryEndpoints == {"approve", "execute", "rollback", "status"}
=============================================================================
