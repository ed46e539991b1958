-------------------------- MODULE ApprovalRequests --------------------------
(***************************************************************************)
(* The approval workflow of services/approval_service.py and               *)
(* api/v1/approvals.py: policies per risk level, approval requests, the    *)
(* votes cast on them and the bundle status a decision writes.             *)
(*                                                                         *)
(* Every request handler runs in a database session of its own, at         *)
(* Postgres' READ COMMITTED level and without row locks: it SELECTs,       *)
(* decides in memory and COMMITs later, so that the handlers of two users  *)
(* interleave between their reads and their writes.  A session is an       *)
(* element of Sessions; one action is one SELECT or one commit.            *)
(***************************************************************************)
EXTENDS Integers, FiniteSets

CONSTANTS Requests,   \* identities of approval requests
          Bundles,    \* identities of bundles
          BundleOf,   \* the bundle each request is about
          Users,      \* users of the tenant
          Approvers,  \* the users whose role is ADMIN or APPROVER
          Sessions,   \* concurrent database sessions
          Risks,      \* risk levels
          LowRisk,    \* RiskLevel.LOW
          PolicyIds,  \* identities of approval policies
          Policies,   \* the bodies an administrator may give a policy
          None        \* no user, no request

Policy == [risk : Risks, required : Nat \ {0}, auto : BOOLEAN,
           delegates : BOOLEAN]

ASSUME ApprovalAssumption ==
  /\ BundleOf \in [Requests -> Bundles]
  /\ Approvers \subseteq Users
  /\ IsFiniteSet(Users)
  /\ LowRisk \in Risks
  /\ Policies \subseteq Policy

VARIABLES policies,  \* table approval_policies
          requests,  \* table approval_requests
          overdue,   \* the requests whose expires_at has passed
          votes,     \* table approval_actions
          bundles,   \* column status of table bundles
          sess       \* the open database sessions

vars == <<policies, requests, overdue, votes, bundles, sess>>

Statuses == {"none", "pending", "approved", "rejected"}

\* "auto" tells how the request was created.
Request == [status : Statuses, risk : Risks, required : Nat, current : Nat,
            auto : BOOLEAN]

NoRequest == [status |-> "none", risk |-> LowRisk, required |-> 1,
              current |-> 0, auto |-> FALSE]

Vote == [request : Requests, user : Users, verdict : {"approved", "rejected"}]

BundleStatuses == {"draft", "approved", "cancelled"}

\* A session serves one vote of one user on one request: "row" is the request
\* as it was loaded, "bundle" the status of its bundle as it was loaded.
Session == [step : {"idle", "row", "bundle", "approve", "reject"},
            user : Users \cup {None}, request : Requests \cup {None},
            row : Request, bundle : BundleStatuses]

Idle == [step |-> "idle", user |-> None, request |-> None, row |-> NoRequest,
         bundle |-> "draft"]

TypeOK ==
  /\ policies \subseteq [id : PolicyIds, body : Policies]
  /\ requests \in [Requests -> Request]
  /\ overdue \subseteq Requests
  /\ votes \subseteq Vote
  /\ bundles \in [Bundles -> BundleStatuses]
  /\ sess \in [Sessions -> Session]
  /\ \A s \in Sessions : sess[s].step # "idle" =>
       sess[s].user \in Users /\ sess[s].request \in Requests

\* The users whose approval of request r is on record.
ApproversOf(r) ==
  {u \in Users : [request |-> r, user |-> u, verdict |-> "approved"] \in votes}

Init ==
  /\ policies = {}
  /\ requests = [r \in Requests |-> NoRequest]
  /\ overdue = {}
  /\ votes = {}
  /\ bundles = [b \in Bundles |-> "draft"]
  /\ sess = [s \in Sessions |-> Idle]

-----------------------------------------------------------------------------
(* Policies *)

PoliciesFor(risk) == {p \in policies : p.body.risk = risk}

\* Nothing keeps the risk levels of two policies apart.
CreatePolicy(id, body) ==
  /\ \A p \in policies : p.id # id
  /\ policies' = policies \cup {[id |-> id, body |-> body]}
  /\ UNCHANGED <<requests, overdue, votes, bundles, sess>>

UpdatePolicy(id, body) ==
  /\ \E p \in policies : p.id = id /\ p.body.risk = body.risk
  /\ policies' = {p \in policies : p.id # id} \cup {[id |-> id, body |-> body]}
  /\ UNCHANGED <<requests, overdue, votes, bundles, sess>>

\* scalar_one_or_none: no policy, the policy, or (two of them) an exception
\* that fails the handler, so that only the first two cases appear here.
CanApprove(u, risk) ==
  \/ u \in Approvers
  \/ \E p \in policies : PoliciesFor(risk) = {p} /\ p.body.delegates

-----------------------------------------------------------------------------
(* Requests *)

\* A low-risk request under an auto-approving policy is born approved; the
\* bundle's status is left alone.
NewRequest(risk, required, auto) ==
  [NoRequest EXCEPT !.risk = risk, !.required = required, !.auto = auto,
                    !.status = IF auto THEN "approved" ELSE "pending",
                    !.current = IF auto THEN required ELSE 0]

CreateRequest(r, risk) ==
  /\ requests[r].status = "none"
  /\ \/ /\ PoliciesFor(risk) = {}
        /\ requests' = [requests EXCEPT ![r] = NewRequest(risk, 1, FALSE)]
     \/ \E p \in policies :
          /\ PoliciesFor(risk) = {p}
          /\ requests' = [requests EXCEPT ![r] =
                 NewRequest(risk, p.body.required,
                            p.body.auto /\ risk = LowRisk)]
  /\ UNCHANGED <<policies, overdue, votes, bundles, sess>>

\* Time passes expires_at.  Nothing in the code runs then.
Deadline(r) ==
  /\ requests[r].status = "pending"
  /\ overdue' = overdue \cup {r}
  /\ UNCHANGED <<policies, requests, votes, bundles, sess>>

-----------------------------------------------------------------------------
(* Votes: approve_request and reject_request *)

\* Both begin with the SELECT of the request row.
LoadRequest(s, u, r) ==
  /\ sess[s].step = "idle"
  /\ requests[r].status # "none"
  /\ sess' = [sess EXCEPT ![s] = [step |-> "row", user |-> u, request |-> r,
                                  row |-> requests[r], bundle |-> "draft"]]
  /\ UNCHANGED <<policies, requests, overdue, votes, bundles>>

\* "if approval_request.current_approvals >= required_approvals", after += 1.
ReachesQuorumOffByOne(row) == row.current + 1 > row.required
ReachesQuorumEarly(row) == row.current + 2 >= row.required
ReachesQuorum(row) == row.current + 1 >= row.required

\* The SELECT of the votes, and the checks on what was loaded.  (An expired
\* request is marked EXPIRED and then raises: the mark is rolled back.)
LoadVotesWithoutDuplicateCheck(s) ==
  LET x == sess[s] IN
  /\ x.step = "row"
  /\ x.row.status = "pending"
  /\ x.request \notin overdue
  /\ CanApprove(x.user, x.row.risk)
  /\ sess' = [sess EXCEPT ![s].step =
                 IF ReachesQuorum(x.row) THEN "bundle" ELSE "approve"]
  /\ UNCHANGED <<policies, requests, overdue, votes, bundles>>

LoadVotes(s) ==
  LET x == sess[s] IN
  /\ x.step = "row"
  /\ x.row.status = "pending"
  /\ x.request \notin overdue
  /\ CanApprove(x.user, x.row.risk)
  /\ x.user \notin ApproversOf(x.request)
  /\ sess' = [sess EXCEPT ![s].step =
                 IF ReachesQuorum(x.row) THEN "bundle" ELSE "approve"]
  /\ UNCHANGED <<policies, requests, overdue, votes, bundles>>

\* The SELECT of the bundle, once the vote completes the quorum.
LoadBundle(s) ==
  /\ sess[s].step = "bundle"
  /\ sess' = [sess EXCEPT ![s].bundle = bundles[BundleOf[sess[s].request]],
                          ![s].step = "approve"]
  /\ UNCHANGED <<policies, requests, overdue, votes, bundles>>

\* The unit of work emits a column in the UPDATE only when its value differs
\* from the one that was loaded.
Put(loaded, new, stored) == IF new = loaded THEN stored ELSE new

CastVote(s, verdict) ==
  votes' = votes \cup {[request |-> sess[s].request, user |-> sess[s].user,
                        verdict |-> verdict]}

Decide(s, bundleStatus) ==
  LET b == BundleOf[sess[s].request] IN
  bundles' = [bundles EXCEPT ![b] = Put(sess[s].bundle, bundleStatus, @)]

\* The commit: the vote, the counter as loaded plus one, and at the quorum the
\* two statuses.  The loaded request was pending, so "approved" is a change.
CommitApprove(s) ==
  LET x == sess[s] IN
  /\ x.step = "approve"
  /\ CastVote(s, "approved")
  /\ \/ /\ ReachesQuorum(x.row)
        /\ requests' = [requests EXCEPT ![x.request].current = x.row.current + 1,
                                        ![x.request].status = "approved"]
        /\ Decide(s, "approved")
     \/ /\ ~ReachesQuorum(x.row)
        /\ requests' = [requests EXCEPT ![x.request].current = x.row.current + 1]
        /\ UNCHANGED bundles
  /\ sess' = [sess EXCEPT ![s] = Idle]
  /\ UNCHANGED <<policies, overdue>>

\* reject_request: no look at the deadline or at earlier votes.
LoadRejected(s) ==
  LET x == sess[s] IN
  /\ x.step = "row"
  /\ x.row.status = "pending"
  /\ CanApprove(x.user, x.row.risk)
  /\ sess' = [sess EXCEPT ![s].bundle = bundles[BundleOf[x.request]],
                          ![s].step = "reject"]
  /\ UNCHANGED <<policies, requests, overdue, votes, bundles>>

CommitRejectAsCancelled(s) ==
  LET x == sess[s] IN
  /\ x.step = "reject"
  /\ CastVote(s, "rejected")
  /\ requests' = [requests EXCEPT ![x.request].status = "cancelled"]
  /\ Decide(s, "cancelled")
  /\ sess' = [sess EXCEPT ![s] = Idle]
  /\ UNCHANGED <<policies, overdue>>

CommitReject(s) ==
  LET x == sess[s] IN
  /\ x.step = "reject"
  /\ CastVote(s, "rejected")
  /\ requests' = [requests EXCEPT ![x.request].status = "rejected"]
  /\ Decide(s, "cancelled")
  /\ sess' = [sess EXCEPT ![s] = Idle]
  /\ UNCHANGED <<policies, overdue>>

\* A check fails, the handler raises or the process dies: the session is rolled
\* back and nothing it did is kept.
Abort(s) ==
  /\ sess[s].step # "idle"
  /\ sess' = [sess EXCEPT ![s] = Idle]
  /\ UNCHANGED <<policies, requests, overdue, votes, bundles>>

-----------------------------------------------------------------------------

Next ==
  \/ \E id \in PolicyIds, body \in Policies :
       CreatePolicy(id, body) \/ UpdatePolicy(id, body)
  \/ \E r \in Requests : Deadline(r) \/ \E risk \in Risks : CreateRequest(r, risk)
  \/ \E s \in Sessions :
       \/ \E u \in Users, r \in Requests : LoadRequest(s, u, r)
       \/ LoadVotes(s) \/ LoadBundle(s) \/ CommitApprove(s)
       \/ LoadRejected(s) \/ CommitReject(s)
       \/ Abort(s)

Spec == Init /\ [][Next]_vars

-----------------------------------------------------------------------------
(* Properties *)

\* The counter never runs ahead of the people: current_approvals of a request
\* that was not auto-approved is at most the number of distinct users whose
\* approval is on record, although "+= 1" works on a stale copy and nothing
\* makes (request, user) unique in approval_actions.
CountBackedByVotes ==
  \A r \in Requests :
    ~requests[r].auto => requests[r].current <= Cardinality(ApproversOf(r))

\* Four eyes: a request that was voted on is APPROVED only if at least
\* required_approvals different users approved it, whatever the interleaving.
Quorate(r) == Cardinality(ApproversOf(r)) >= requests[r].required

FourEyes ==
  \A r \in Requests :
    requests[r].status = "approved" /\ ~requests[r].auto => Quorate(r)

\* The approval service moves a bundle to "approved" only on the strength of a
\* request about that bundle which a full quorum of different users approved.
ApprovedBundleHasQuorum ==
  \A b \in Bundles : bundles[b] = "approved" =>
    \E r \in Requests : BundleOf[r] = b /\ requests[r].status # "none" /\ Quorate(r)

\* A pending request is always still short of its quorum by its own count:
\* no interleaving of votes leaves it counted full and undecided.
PendingBelowQuorum ==
  \A r \in Requests :
    requests[r].status = "pending" => requests[r].current < requests[r].required

\* Both: the counter is between what was voted and what would decide.
CountKept == CountBackedByVotes /\ PendingBelowQuorum

\* "... and updates the request status if enough approvals have been collected"
\* (approval_service.py, approve_request): once enough users have approved,
\* the request is no longer pending.
QuorumDecides ==
  \A r \in Requests : requests[r].status = "pending" => ~Quorate(r)
=============================================================================
