----------------------- MODULE ApprovalRequestsProofs -----------------------
(* Proofs about ApprovalRequests, for any users, requests and sessions. *)
EXTENDS ApprovalRequests, FiniteSetTheorems, TLAPS

\* The values that stand for no request and no session have their types.
LEMMA IdleTyped == NoRequest \in Request /\ Idle \in Session
  <1>1. NoRequest \in Request
    BY ApprovalAssumption DEF NoRequest, Request, Statuses
  <1> QED BY <1>1 DEF Idle, Session, BundleStatuses

\* The tables of a new tenant have their types.
LEMMA TypingInit == Init => TypeOK
  BY IdleTyped, ApprovalAssumption DEF Init, TypeOK, Idle, BundleStatuses

\* Every step of the approval workflow (approve_request, reject_request,
\* create_approval_request, the policy endpoints) keeps the types.
LEMMA TypingStep ==
  ASSUME TypeOK, [Next]_vars
  PROVE  TypeOK'
  <1> USE ApprovalAssumption DEF TypeOK
  <1>1. ASSUME NEW id \in PolicyIds, NEW body \in Policies,
               CreatePolicy(id, body) \/ UpdatePolicy(id, body)
        PROVE TypeOK'
    BY <1>1 DEF CreatePolicy, UpdatePolicy
  <1>2. ASSUME NEW r \in Requests, Deadline(r) PROVE TypeOK'
    BY <1>2 DEF Deadline
  <1>3. ASSUME NEW r \in Requests, NEW risk \in Risks, CreateRequest(r, risk)
        PROVE TypeOK'
    <2>1. \A n \in Nat, a \in BOOLEAN : NewRequest(risk, n, a) \in Request
      BY DEF NewRequest, NoRequest, Request, Statuses
    <2>2. \A p \in policies : /\ p.body.required \in Nat
                              /\ (p.body.auto /\ risk = LowRisk) \in BOOLEAN
      BY DEF Policy
    <2>3. \E q \in Request : requests' = [requests EXCEPT ![r] = q]
      <3>1. NewRequest(risk, 1, FALSE) \in Request
        BY <2>1
      <3>2. \A p \in policies :
              NewRequest(risk, p.body.required, p.body.auto /\ risk = LowRisk)
                \in Request
        BY <2>1, <2>2, Zenon
      <3> QED BY <1>3, <3>1, <3>2, Zenon DEF CreateRequest
    <2> QED BY <1>3, <2>3 DEF CreateRequest
  <1>4. ASSUME NEW s \in Sessions, NEW u \in Users, NEW r \in Requests,
               LoadRequest(s, u, r)
        PROVE TypeOK'
    <2>1. [step |-> "row", user |-> u, request |-> r, row |-> requests[r],
           bundle |-> "draft"] \in Session
      BY DEF Session, BundleStatuses
    <2> QED BY <1>4, <2>1 DEF LoadRequest
  <1>5. ASSUME NEW s \in Sessions, LoadVotes(s) PROVE TypeOK'
    BY <1>5 DEF LoadVotes, Session
  <1>6. ASSUME NEW s \in Sessions, LoadBundle(s) PROVE TypeOK'
    BY <1>6 DEF LoadBundle, Session
  <1>7. ASSUME NEW s \in Sessions, LoadRejected(s) PROVE TypeOK'
    BY <1>7 DEF LoadRejected, Session
  <1>8. ASSUME NEW s \in Sessions, CommitApprove(s) PROVE TypeOK'
    <2>1. sess[s].user \in Users /\ sess[s].request \in Requests
      BY <1>8 DEF CommitApprove
    <2>2. sess[s].row \in Request /\ sess[s].bundle \in BundleStatuses
      BY DEF Session
    <2>3. votes' \subseteq Vote
      BY <1>8, <2>1 DEF CommitApprove, CastVote, Vote
    <2>4. requests' \in [Requests -> Request]
      <3>1. sess[s].row.current + 1 \in Nat /\ requests[sess[s].request] \in Request
        BY <2>1, <2>2 DEF Request
      <3>2. CASE ReachesQuorum(sess[s].row)
        BY <1>8, <2>1, <3>1, <3>2 DEF CommitApprove, Request, Statuses
      <3>3. CASE ~ReachesQuorum(sess[s].row)
        BY <1>8, <2>1, <3>1, <3>3 DEF CommitApprove, Request
      <3> QED BY <3>2, <3>3
    <2>5. bundles' \in [Bundles -> BundleStatuses]
      BY <1>8, <2>1, <2>2 DEF CommitApprove, Decide, Put, BundleStatuses
    <2> QED BY <1>8, <2>3, <2>4, <2>5, IdleTyped DEF CommitApprove, Idle
  <1>9. ASSUME NEW s \in Sessions, CommitReject(s) PROVE TypeOK'
    <2>1. sess[s].user \in Users /\ sess[s].request \in Requests
      BY <1>9 DEF CommitReject
    <2>2. sess[s].bundle \in BundleStatuses
      BY DEF Session
    <2>3. votes' \subseteq Vote
      BY <1>9, <2>1 DEF CommitReject, CastVote, Vote
    <2>4. requests' \in [Requests -> Request]
      BY <1>9, <2>1 DEF CommitReject, Request, Statuses
    <2>5. bundles' \in [Bundles -> BundleStatuses]
      BY <1>9, <2>1, <2>2 DEF CommitReject, Decide, Put, BundleStatuses
    <2> QED BY <1>9, <2>3, <2>4, <2>5, IdleTyped DEF CommitReject, Idle
  <1>10. ASSUME NEW s \in Sessions, Abort(s) PROVE TypeOK'
    BY <1>10, IdleTyped DEF Abort, Idle
  <1>11. CASE UNCHANGED vars
    BY <1>11 DEF vars
  <1> QED
    BY <1>1, <1>2, <1>3, <1>4, <1>5, <1>6, <1>7, <1>8, <1>9, <1>10, <1>11
       DEF Next

\* Types hold throughout.
THEOREM Typing == Spec => []TypeOK
  <1>1. TypeOK /\ [Next]_vars => TypeOK'
    BY TypingStep
  <1> QED BY TypingInit, <1>1, PTL DEF Spec

-----------------------------------------------------------------------------
(* The inductive invariant *)

\* What holds of each request row: only pending requests can change, and an
\* auto-approved one is never pending.
RequestInv ==
  \A r \in Requests :
    /\ requests[r].auto => requests[r].status = "approved"
    /\ requests[r].status = "none" => requests[r].current = 0
    /\ requests[r].required >= 1

\* What a session x may rely on although its copy of the row is stale: the
\* terms of the request are fixed, the counter it read was backed by votes then
\* and so is now, and past the duplicate check its own vote is one more.
CopyOK(x) ==
  x.step # "idle" =>
    /\ requests[x.request].status # "none"
    /\ x.row.required = requests[x.request].required
    /\ x.row.auto = requests[x.request].auto
    /\ x.row.status = "pending" => ~x.row.auto
    /\ ~x.row.auto => x.row.current <= Cardinality(ApproversOf(x.request))
    /\ x.step # "row" => x.row.status = "pending"
    /\ x.step \in {"bundle", "approve"} =>
         x.row.current + 1 <= Cardinality(ApproversOf(x.request) \cup {x.user})

SessionInv == \A s \in Sessions : CopyOK(sess[s])

IInv ==
  /\ TypeOK
  /\ RequestInv
  /\ SessionInv
  /\ CountBackedByVotes
  /\ FourEyes
  /\ PendingBelowQuorum
  /\ ApprovedBundleHasQuorum

-----------------------------------------------------------------------------
(* Lemmas *)

\* Votes are only added, and the terms of a request are fixed at its creation.
VotesGrow == votes \subseteq votes'

TermsKept ==
  \A r \in Requests : requests[r].status # "none" =>
    /\ requests'[r].status # "none"
    /\ requests'[r].required = requests[r].required
    /\ requests'[r].auto = requests[r].auto

\* The users who approved a request form a finite set.
LEMMA ApproversFinite ==
  ASSUME NEW r, NEW u
  PROVE  /\ IsFiniteSet(ApproversOf(r)) /\ Cardinality(ApproversOf(r)) \in Nat
         /\ IsFiniteSet(ApproversOf(r) \cup {u})
         /\ Cardinality(ApproversOf(r) \cup {u}) \in Nat
  <1>1. ApproversOf(r) \subseteq Users
    BY DEF ApproversOf
  <1>2. IsFiniteSet(ApproversOf(r))
    BY <1>1, FS_Subset, ApprovalAssumption
  <1>3. IsFiniteSet(ApproversOf(r) \cup {u})
    BY <1>2, FS_AddElement
  <1> QED BY <1>2, <1>3, FS_CardinalityType

\* The same in the next state.
LEMMA ApproversFiniteNext ==
  ASSUME NEW r, NEW u
  PROVE  /\ IsFiniteSet(ApproversOf(r)') /\ Cardinality(ApproversOf(r)') \in Nat
         /\ IsFiniteSet(ApproversOf(r)' \cup {u})
         /\ Cardinality(ApproversOf(r)' \cup {u}) \in Nat
  <1>1. ApproversOf(r)' \subseteq Users
    BY DEF ApproversOf
  <1>2. IsFiniteSet(ApproversOf(r)')
    BY <1>1, FS_Subset, ApprovalAssumption
  <1>3. IsFiniteSet(ApproversOf(r)' \cup {u})
    BY <1>2, FS_AddElement
  <1> QED BY <1>2, <1>3, FS_CardinalityType

\* More votes never mean fewer approvers.
LEMMA ApproversGrow ==
  ASSUME VotesGrow, NEW r, NEW u
  PROVE  /\ ApproversOf(r) \subseteq ApproversOf(r)'
         /\ Cardinality(ApproversOf(r)) <= Cardinality(ApproversOf(r)')
         /\ Cardinality(ApproversOf(r) \cup {u})
              <= Cardinality(ApproversOf(r)' \cup {u})
  <1>1. ApproversOf(r) \subseteq ApproversOf(r)'
    BY DEF ApproversOf, VotesGrow
  <1>2. ApproversOf(r) \cup {u} \subseteq ApproversOf(r)' \cup {u}
    BY <1>1
  <1> QED BY <1>1, <1>2, ApproversFiniteNext, FS_Subset

\* A session as TypeOK has it: an open one serves a user and a request.
Open(x) ==
  /\ x \in Session
  /\ x.step # "idle" => x.user \in Users /\ x.request \in Requests

\* A session that takes no part in a step keeps what it may rely on.
LEMMA OtherSession ==
  ASSUME NEW x, Open(x), CopyOK(x), VotesGrow, TermsKept
  PROVE  CopyOK(x)'
  <1> SUFFICES ASSUME x.step # "idle" PROVE CopyOK(x)'
    BY DEF CopyOK
  <1>1. x.request \in Requests /\ x.user \in Users /\ x.row.current \in Nat
    BY DEF Open, Session, Request
  <1>2. /\ Cardinality(ApproversOf(x.request)) <= Cardinality(ApproversOf(x.request)')
        /\ Cardinality(ApproversOf(x.request) \cup {x.user})
             <= Cardinality(ApproversOf(x.request)' \cup {x.user})
    BY ApproversGrow
  <1>3. /\ Cardinality(ApproversOf(x.request)) \in Nat
        /\ Cardinality(ApproversOf(x.request)') \in Nat
        /\ Cardinality(ApproversOf(x.request) \cup {x.user}) \in Nat
        /\ Cardinality(ApproversOf(x.request)' \cup {x.user}) \in Nat
    BY ApproversFinite, ApproversFiniteNext
  <1> QED BY <1>1, <1>2, <1>3 DEF CopyOK, TermsKept

\* A quorum, once reached, stays.
LEMMA QuorumKept ==
  ASSUME TypeOK, NEW r \in Requests, requests[r].status # "none", Quorate(r),
         VotesGrow, TermsKept
  PROVE  Quorate(r)'
  <1>1. /\ Cardinality(ApproversOf(r)) <= Cardinality(ApproversOf(r)')
        /\ Cardinality(ApproversOf(r)) \in Nat
        /\ Cardinality(ApproversOf(r)') \in Nat
    BY ApproversGrow, ApproversFinite, ApproversFiniteNext
  <1>2. requests[r].required \in Nat
    BY DEF TypeOK, Request
  <1> QED BY <1>1, <1>2 DEF Quorate, TermsKept

\* An approved bundle that a step leaves alone keeps the quorum behind it.
LEMMA BundleKept ==
  ASSUME TypeOK, ApprovedBundleHasQuorum, VotesGrow, TermsKept,
         NEW b \in Bundles, bundles[b] = "approved"
  PROVE  \E r \in Requests : /\ BundleOf[r] = b
                             /\ requests'[r].status # "none" /\ Quorate(r)'
  <1>1. PICK r \in Requests : /\ BundleOf[r] = b
                              /\ requests[r].status # "none" /\ Quorate(r)
    BY DEF ApprovedBundleHasQuorum
  <1>2. Quorate(r)'
    BY <1>1, QuorumKept
  <1> QED BY <1>1, <1>2 DEF TermsKept

\* A step that leaves requests, votes and bundles alone keeps what is said of
\* them; a session that only reads has to be looked at by itself.
LEMMA TablesKept ==
  ASSUME IInv, UNCHANGED <<requests, votes, bundles>>
  PROVE  /\ VotesGrow /\ TermsKept
         /\ RequestInv' /\ CountBackedByVotes' /\ FourEyes'
         /\ PendingBelowQuorum' /\ ApprovedBundleHasQuorum'
  <1>1. \A r : ApproversOf(r)' = ApproversOf(r)
    BY DEF ApproversOf
  <1>2. \A r : Quorate(r)' <=> Quorate(r)
    BY <1>1 DEF Quorate
  <1>3. RequestInv' /\ PendingBelowQuorum'
    BY DEF IInv, RequestInv, PendingBelowQuorum
  <1>4. CountBackedByVotes'
    BY <1>1 DEF IInv, CountBackedByVotes
  <1>5. FourEyes' /\ ApprovedBundleHasQuorum'
    BY <1>2 DEF IInv, FourEyes, ApprovedBundleHasQuorum
  <1> QED BY <1>3, <1>4, <1>5 DEF VotesGrow, TermsKept

\* Of the sessions, a step changes at most the one that takes it.
LEMMA SessionsKept ==
  ASSUME IInv, VotesGrow, TermsKept, NEW s,
         \A t \in Sessions \ {s} : sess'[t] = sess[t],
         s \in Sessions => CopyOK(sess[s])'
  PROVE  SessionInv'
  <1> SUFFICES ASSUME NEW t \in Sessions PROVE CopyOK(sess[t])'
    BY DEF SessionInv
  <1>1. CASE t = s
    BY <1>1
  <1>2. CASE t # s
    <2>1. Open(sess[t]) /\ CopyOK(sess[t])
      BY DEF IInv, SessionInv, TypeOK, Open
    <2>2. \A x : x = sess[t] => CopyOK(x)'
      BY <2>1, OtherSession
    <2>3. sess'[t] = sess[t]
      BY <1>2
    <2> QED BY <2>2, <2>3 DEF CopyOK, ApproversOf
  <1> QED BY <1>1, <1>2

\* A step of no session keeps what all of them may rely on.
LEMMA StepSameSessions ==
  ASSUME IInv, VotesGrow, TermsKept, sess' = sess
  PROVE  SessionInv'
  <1> SUFFICES ASSUME NEW s \in Sessions PROVE CopyOK(sess[s])'
    BY DEF SessionInv
  <1>1. Open(sess[s]) /\ CopyOK(sess[s])
    BY DEF IInv, SessionInv, TypeOK, Open
  <1>2. \A x : x = sess[s] => CopyOK(x)'
    BY <1>1, OtherSession
  <1> QED BY <1>2 DEF CopyOK, ApproversOf

\* CreatePolicy, UpdatePolicy, Deadline, Abort and stuttering.
LEMMA StepElsewhere ==
  ASSUME IInv, UNCHANGED <<requests, votes, bundles>>,
         sess' = sess \/ \E s \in Sessions : sess' = [sess EXCEPT ![s] = Idle]
  PROVE  SessionInv'
  <1>1. VotesGrow /\ TermsKept
    BY TablesKept
  <1>2. CASE sess' = sess
    BY <1>1, <1>2, StepSameSessions
  <1>3. ASSUME NEW s \in Sessions, sess' = [sess EXCEPT ![s] = Idle]
        PROVE  SessionInv'
    <2>1. /\ \A t \in Sessions \ {s} : sess'[t] = sess[t]
          /\ sess'[s] = Idle
      BY <1>3 DEF IInv, TypeOK
    <2>2. CopyOK(sess[s])'
      BY <2>1 DEF CopyOK, Idle
    <2> QED BY <1>1, <2>1, <2>2, SessionsKept
  <1> QED BY <1>2, <1>3

\* The SELECTs of approve_request and reject_request.
LEMMA StepReads ==
  ASSUME IInv, NEW s \in Sessions,
         \/ \E u \in Users, r \in Requests : LoadRequest(s, u, r)
         \/ LoadVotes(s) \/ LoadBundle(s) \/ LoadRejected(s)
  PROVE  SessionInv'
  <1>1. VotesGrow /\ TermsKept /\ \A r : ApproversOf(r)' = ApproversOf(r)
    <2>1. UNCHANGED <<requests, votes, bundles>>
      BY DEF LoadRequest, LoadVotes, LoadBundle, LoadRejected
    <2> QED BY <2>1, TablesKept DEF ApproversOf
  <1>2. \A t \in Sessions \ {s} : sess'[t] = sess[t]
    BY DEF LoadRequest, LoadVotes, LoadBundle, LoadRejected, IInv, TypeOK
  <1>3. CopyOK(sess[s])'
    <2>1. ASSUME NEW u \in Users, NEW r \in Requests, LoadRequest(s, u, r)
          PROVE  CopyOK(sess[s])'
      <3>1. /\ sess'[s].step = "row" /\ sess'[s].request = r
            /\ sess'[s].row = requests[r] /\ requests' = requests
            /\ requests[r].status # "none"
        BY <2>1 DEF LoadRequest, IInv, TypeOK
      <3>2. /\ requests[r].auto => requests[r].status = "approved"
            /\ ~requests[r].auto =>
                 requests[r].current <= Cardinality(ApproversOf(r))
        BY DEF IInv, RequestInv, CountBackedByVotes
      <3> QED BY <1>1, <3>1, <3>2 DEF CopyOK
    <2>2. CASE LoadVotes(s)
      <3> DEFINE x == sess[s]
                 A == ApproversOf(x.request)
      <3>1. /\ x.step = "row" /\ x.row.status = "pending" /\ x.user \notin A
            /\ requests' = requests
            /\ sess'[s].step \in {"bundle", "approve"}
            /\ sess'[s].request = x.request /\ sess'[s].row = x.row
            /\ sess'[s].user = x.user
        BY <2>2 DEF LoadVotes, IInv, TypeOK, Session
      <3>2. /\ requests[x.request].status # "none"
            /\ x.row.required = requests[x.request].required
            /\ x.row.auto = requests[x.request].auto
            /\ ~x.row.auto /\ x.row.current <= Cardinality(A)
        BY <3>1 DEF IInv, SessionInv, CopyOK
      <3>3. x.row.current \in Nat /\ Cardinality(A) \in Nat
        BY ApproversFinite DEF IInv, TypeOK, Session, Request
      <3>4. Cardinality(A \cup {x.user}) = Cardinality(A) + 1
        BY <3>1, ApproversFinite, FS_AddElement
      <3>5. x.row.current + 1 <= Cardinality(A \cup {x.user})
        BY <3>2, <3>3, <3>4
      <3>6. ApproversOf(sess[s].request)' = A
        BY <2>2, <3>1 DEF LoadVotes, ApproversOf
      <3> QED BY <3>1, <3>2, <3>5, <3>6 DEF CopyOK
    <2>3. CASE LoadBundle(s)
      <3>1. /\ sess[s].step = "bundle" /\ requests' = requests
            /\ sess'[s].step = "approve"
            /\ sess'[s].request = sess[s].request /\ sess'[s].row = sess[s].row
            /\ sess'[s].user = sess[s].user
        BY <2>3 DEF LoadBundle, IInv, TypeOK, Session
      <3>2. CopyOK(sess[s])
        BY DEF IInv, SessionInv
      <3> QED BY <3>1, <3>2, <1>1 DEF CopyOK
    <2>4. CASE LoadRejected(s)
      <3>1. /\ sess[s].step = "row" /\ sess[s].row.status = "pending"
            /\ requests' = requests /\ sess'[s].step = "reject"
            /\ sess'[s].request = sess[s].request /\ sess'[s].row = sess[s].row
            /\ sess'[s].user = sess[s].user
        BY <2>4 DEF LoadRejected, IInv, TypeOK, Session
      <3>2. CopyOK(sess[s])
        BY DEF IInv, SessionInv
      <3> QED BY <3>1, <3>2, <1>1 DEF CopyOK
    <2> QED BY <2>1, <2>2, <2>3, <2>4
  <1> QED BY <1>1, <1>2, <1>3, SessionsKept

\* create_approval_request: the new row has no votes to its credit, and is
\* pending short of its quorum or approved by its policy.
LEMMA StepCreate ==
  ASSUME IInv, NEW r \in Requests, NEW risk \in Risks, CreateRequest(r, risk)
  PROVE  /\ VotesGrow /\ TermsKept
         /\ RequestInv' /\ CountBackedByVotes' /\ FourEyes'
         /\ PendingBelowQuorum' /\ ApprovedBundleHasQuorum' /\ SessionInv'
  <1> DEFINE Fresh(q) ==
        /\ q.required \in Nat /\ q.required >= 1
        /\ \/ q.auto /\ q.status = "approved"
           \/ ~q.auto /\ q.status = "pending" /\ q.current = 0
  <1>1. \E q : requests' = [requests EXCEPT ![r] = q] /\ Fresh(q)
    <2>1. \A n \in Nat, a \in BOOLEAN : n >= 1 => Fresh(NewRequest(risk, n, a))
      BY DEF NewRequest, NoRequest
    <2>2. Fresh(NewRequest(risk, 1, FALSE))
      <3>1. 1 \in Nat /\ 1 >= 1
        OBVIOUS
      <3> HIDE DEF Fresh
      <3> QED BY <2>1, <3>1, Zenon
    <2>3. \A p \in policies : /\ p.body.required \in Nat
                              /\ p.body.required >= 1
                              /\ (p.body.auto /\ risk = LowRisk) \in BOOLEAN
      BY ApprovalAssumption DEF IInv, TypeOK, Policy
    <2>4. \A p \in policies :
            Fresh(NewRequest(risk, p.body.required, p.body.auto /\ risk = LowRisk))
      <3> HIDE DEF Fresh
      <3> QED BY <2>1, <2>3, Zenon
    <2> HIDE DEF Fresh
    <2> QED BY <2>2, <2>4, Zenon DEF CreateRequest
  <1>2. requests[r].status = "none" /\ UNCHANGED <<votes, bundles, sess>>
    BY DEF CreateRequest
  <1>3. PICK q : requests' = [requests EXCEPT ![r] = q] /\ Fresh(q)
    BY <1>1
  <1>4. /\ requests'[r] = q
        /\ \A o \in Requests \ {r} : requests'[o] = requests[o]
    BY <1>3 DEF IInv, TypeOK
  <1>5. \A o : ApproversOf(o)' = ApproversOf(o) /\ Cardinality(ApproversOf(o)) \in Nat
    BY <1>2, ApproversFinite DEF ApproversOf
  <1>6. VotesGrow /\ TermsKept
    BY <1>2, <1>4 DEF VotesGrow, TermsKept
  <1>7. RequestInv'
    BY <1>3, <1>4 DEF IInv, RequestInv
  <1>8. CountBackedByVotes'
    BY <1>3, <1>4, <1>5 DEF IInv, CountBackedByVotes
  <1>9. FourEyes'
    BY <1>3, <1>4, <1>5 DEF IInv, FourEyes, Quorate
  <1>10. PendingBelowQuorum'
    <2>1. q.status = "pending" => q.current < q.required
      BY <1>3
    <2> HIDE DEF Fresh
    <2> QED BY <1>4, <2>1 DEF IInv, PendingBelowQuorum
  <1>11. ApprovedBundleHasQuorum'
    <2>1. \A b \in Bundles : bundles[b] = "approved" =>
            \E o \in Requests : /\ BundleOf[o] = b
                                /\ requests'[o].status # "none" /\ Quorate(o)'
      BY <1>6, BundleKept DEF IInv
    <2> QED BY <1>2, <2>1 DEF ApprovedBundleHasQuorum
  <1>12. SessionInv'
    BY <1>2, <1>6, StepSameSessions
  <1> QED BY <1>6, <1>7, <1>8, <1>9, <1>10, <1>11, <1>12

\* What a session is about to commit: its vote is the approver the stale
\* counter has not seen, so the counter it writes is still backed.
LEMMA CommitFacts ==
  ASSUME IInv, NEW s \in Sessions, sess[s].step \in {"approve", "reject"}
  PROVE  /\ sess[s].request \in Requests /\ sess[s].user \in Users
         /\ sess[s].row.current \in Nat /\ sess[s].row.required \in Nat
         /\ requests[sess[s].request].status # "none"
         /\ requests[sess[s].request].required = sess[s].row.required
         /\ requests[sess[s].request].auto = sess[s].row.auto
         /\ ~sess[s].row.auto
         /\ sess[s].step = "approve" => sess[s].row.current + 1 <=
              Cardinality(ApproversOf(sess[s].request) \cup {sess[s].user})
  <1>1. /\ CopyOK(sess[s]) /\ sess[s] \in Session
        /\ sess[s].request \in Requests /\ sess[s].user \in Users
    BY DEF IInv, SessionInv, TypeOK
  <1>2. sess[s].row.current \in Nat /\ sess[s].row.required \in Nat
    BY <1>1 DEF Session, Request
  <1> QED BY <1>1, <1>2 DEF CopyOK

\* The commit of approve_request.
LEMMA StepApprove ==
  ASSUME IInv, NEW s \in Sessions, CommitApprove(s)
  PROVE  /\ VotesGrow /\ TermsKept
         /\ RequestInv' /\ CountBackedByVotes' /\ FourEyes'
         /\ PendingBelowQuorum' /\ ApprovedBundleHasQuorum' /\ SessionInv'
  <1>1. PICK r \in Requests, u \in Users, n \in Nat, m \in Nat :
          /\ requests[r].status # "none" /\ requests[r].required = m
          /\ ~requests[r].auto
          /\ n <= Cardinality(ApproversOf(r) \cup {u})
          /\ votes' = votes \cup
               {[request |-> r, user |-> u, verdict |-> "approved"]}
          /\ sess' = [sess EXCEPT ![s] = Idle]
          /\ \/ /\ n >= m /\ Decide(s, "approved")
                /\ requests' = [requests EXCEPT ![r].current = n,
                                                ![r].status = "approved"]
             \/ /\ ~(n >= m) /\ bundles' = bundles
                /\ requests' = [requests EXCEPT ![r].current = n]
          /\ r = sess[s].request
    <2>1. sess[s].step = "approve"
      BY DEF CommitApprove
    <2>2. /\ sess[s].request \in Requests /\ sess[s].user \in Users
          /\ sess[s].row.current \in Nat /\ sess[s].row.required \in Nat
      BY <2>1, CommitFacts
    <2> /\ sess[s].request \in Requests /\ sess[s].user \in Users
        /\ sess[s].row.current + 1 \in Nat /\ sess[s].row.required \in Nat
      BY <2>2
    <2> WITNESS sess[s].request \in Requests, sess[s].user \in Users,
                sess[s].row.current + 1 \in Nat, sess[s].row.required \in Nat
    <2> QED BY <2>1, CommitFacts DEF CommitApprove, CastVote, ReachesQuorum
  <1>2. /\ \A q \in Requests \ {r} : requests'[q] = requests[q]
        /\ requests'[r].required = m /\ requests'[r].current = n
        /\ requests'[r].auto = requests[r].auto
        /\ \/ n >= m /\ requests'[r].status = "approved"
           \/ ~(n >= m) /\ requests'[r].status = requests[r].status
    BY <1>1 DEF IInv, TypeOK, Request
  <1>3. VotesGrow /\ TermsKept
    BY <1>1, <1>2 DEF VotesGrow, TermsKept
  <1>4. \A q \in Requests \ {r} : ApproversOf(q)' = ApproversOf(q)
    BY <1>1 DEF ApproversOf
  <1>5. Cardinality(ApproversOf(r)') \in Nat /\ n <= Cardinality(ApproversOf(r)')
    <2>1. ApproversOf(r)' = ApproversOf(r) \cup {u}
      BY <1>1 DEF ApproversOf
    <2> QED BY <1>1, <2>1, ApproversFiniteNext
  <1>6. RequestInv'
    BY <1>1, <1>2 DEF IInv, RequestInv
  <1>7. CountBackedByVotes'
    BY <1>1, <1>2, <1>4, <1>5 DEF IInv, CountBackedByVotes
  <1>8. n >= m => Quorate(r)'
    BY <1>2, <1>5 DEF Quorate
  <1>9. FourEyes'
    <2> SUFFICES ASSUME NEW q \in Requests, requests'[q].status = "approved",
                        ~requests'[q].auto
                 PROVE  Quorate(q)'
      BY DEF FourEyes
    <2>1. CASE q = r /\ n >= m
      BY <1>8, <2>1
    <2>2. CASE ~(q = r /\ n >= m)
      <3>1. requests[q].status = "approved" /\ ~requests[q].auto
        BY <1>2, <2>2
      <3> QED BY <1>3, <3>1, QuorumKept DEF IInv, FourEyes
    <2> QED BY <2>1, <2>2
  <1>10. PendingBelowQuorum'
    <2>1. ~(n >= m) => n < m
      OBVIOUS
    <2> QED BY <1>2, <2>1 DEF IInv, PendingBelowQuorum
  <1>11. ApprovedBundleHasQuorum'
    <2> SUFFICES ASSUME NEW b \in Bundles, bundles'[b] = "approved"
                 PROVE  \E q \in Requests : /\ BundleOf[q] = b
                                            /\ requests'[q].status # "none"
                                            /\ Quorate(q)'
      BY DEF ApprovedBundleHasQuorum
    <2>1. CASE bundles[b] = "approved"
      BY <1>3, <2>1, BundleKept DEF IInv
    <2>2. CASE bundles[b] # "approved"
      <3>1. n >= m /\ b = BundleOf[r]
        BY <1>1, <2>2 DEF Decide, IInv, TypeOK
      <3> QED BY <1>2, <1>8, <3>1
    <2> QED BY <2>1, <2>2
  <1>12. SessionInv'
    <2>1. /\ \A t \in Sessions \ {s} : sess'[t] = sess[t]
          /\ sess'[s] = Idle
      BY <1>1 DEF IInv, TypeOK
    <2>2. CopyOK(sess[s])'
      BY <2>1 DEF CopyOK, Idle
    <2> QED BY <1>3, <2>1, <2>2, SessionsKept
  <1> QED BY <1>3, <1>6, <1>7, <1>9, <1>10, <1>11, <1>12

\* The commit of reject_request: a rejected vote is nobody's approval, and the
\* bundle it writes to does not become approved.
LEMMA StepReject ==
  ASSUME IInv, NEW s \in Sessions, CommitReject(s)
  PROVE  /\ RequestInv' /\ CountBackedByVotes' /\ FourEyes'
         /\ PendingBelowQuorum' /\ ApprovedBundleHasQuorum' /\ SessionInv'
  <1>1. PICK r \in Requests, u \in Users :
          /\ requests[r].status # "none" /\ ~requests[r].auto
          /\ votes' = votes \cup
               {[request |-> r, user |-> u, verdict |-> "rejected"]}
          /\ sess' = [sess EXCEPT ![s] = Idle]
          /\ Decide(s, "cancelled")
          /\ requests' = [requests EXCEPT ![r].status = "rejected"]
    <2>1. sess[s].step = "reject"
      BY DEF CommitReject
    <2> sess[s].request \in Requests /\ sess[s].user \in Users
      BY <2>1, CommitFacts
    <2> WITNESS sess[s].request \in Requests, sess[s].user \in Users
    <2> QED BY <2>1, CommitFacts DEF CommitReject, CastVote
  <1>2. /\ \A q \in Requests \ {r} : requests'[q] = requests[q]
        /\ requests'[r].required = requests[r].required
        /\ requests'[r].current = requests[r].current
        /\ requests'[r].auto = requests[r].auto
        /\ requests'[r].status = "rejected"
    BY <1>1 DEF IInv, TypeOK, Request
  <1>3. VotesGrow /\ TermsKept
    BY <1>1, <1>2 DEF VotesGrow, TermsKept
  <1>4. \A q \in Requests : ApproversOf(q)' = ApproversOf(q)
    BY <1>1 DEF ApproversOf
  <1>5. RequestInv'
    BY <1>1, <1>2 DEF IInv, RequestInv
  <1>6. CountBackedByVotes' /\ PendingBelowQuorum'
    BY <1>2, <1>4 DEF IInv, CountBackedByVotes, PendingBelowQuorum
  <1>7. FourEyes'
    BY <1>2, <1>4 DEF IInv, FourEyes, Quorate
  <1>8. ApprovedBundleHasQuorum'
    <2>1. \A b \in Bundles : bundles'[b] = "approved" => bundles[b] = "approved"
      BY <1>1 DEF Decide, Put, IInv, TypeOK
    <2> QED BY <1>3, <2>1, BundleKept DEF IInv, ApprovedBundleHasQuorum
  <1>9. SessionInv'
    <2>1. /\ \A t \in Sessions \ {s} : sess'[t] = sess[t]
          /\ sess'[s] = Idle
      BY <1>1 DEF IInv, TypeOK
    <2>2. CopyOK(sess[s])'
      BY <2>1 DEF CopyOK, Idle
    <2> QED BY <1>3, <2>1, <2>2, SessionsKept
  <1> QED BY <1>5, <1>6, <1>7, <1>8, <1>9

-----------------------------------------------------------------------------
(* Safety *)

\* The inductive invariant holds of every behaviour of the approval workflow.
THEOREM Inductive == Spec => []IInv
  <1>1. Init => IInv
    <2> SUFFICES ASSUME Init PROVE IInv
      OBVIOUS
    <2>1. TypeOK
      BY TypingInit
    <2>2. RequestInv /\ FourEyes /\ PendingBelowQuorum /\ ApprovedBundleHasQuorum
      BY DEF Init, NoRequest, RequestInv, FourEyes, PendingBelowQuorum,
             ApprovedBundleHasQuorum
    <2>3. CountBackedByVotes
      <3>1. \A r : Cardinality(ApproversOf(r)) \in Nat
        BY ApproversFinite
      <3>2. \A r \in Requests : requests[r].current = 0
        BY DEF Init, NoRequest
      <3> QED BY <3>1, <3>2 DEF CountBackedByVotes
    <2>4. SessionInv
      BY DEF Init, SessionInv, CopyOK, Idle
    <2> QED BY <2>1, <2>2, <2>3, <2>4 DEF IInv
  <1>2. IInv /\ [Next]_vars => IInv'
    <2> SUFFICES ASSUME IInv, [Next]_vars PROVE IInv'
      OBVIOUS
    <2> DEFINE Rest == /\ RequestInv' /\ CountBackedByVotes' /\ FourEyes'
                       /\ PendingBelowQuorum' /\ ApprovedBundleHasQuorum'
                       /\ SessionInv'
    <2>1. TypeOK'
      BY TypingStep DEF IInv
    <2>2. ASSUME NEW id \in PolicyIds, NEW body \in Policies,
                 CreatePolicy(id, body) \/ UpdatePolicy(id, body)
          PROVE Rest
      <3>1. UNCHANGED <<requests, votes, bundles, sess>>
        BY <2>2 DEF CreatePolicy, UpdatePolicy
      <3> QED BY <3>1, TablesKept, StepElsewhere
    <2>3. ASSUME NEW r \in Requests, Deadline(r) PROVE Rest
      <3>1. UNCHANGED <<requests, votes, bundles, sess>>
        BY <2>3 DEF Deadline
      <3> QED BY <3>1, TablesKept, StepElsewhere
    <2>4. ASSUME NEW r \in Requests, NEW risk \in Risks, CreateRequest(r, risk)
          PROVE Rest
      BY <2>4, StepCreate
    <2>5. ASSUME NEW s \in Sessions,
                 \/ \E u \in Users, r \in Requests : LoadRequest(s, u, r)
                 \/ LoadVotes(s) \/ LoadBundle(s) \/ LoadRejected(s)
          PROVE Rest
      <3>1. UNCHANGED <<requests, votes, bundles>>
        BY <2>5 DEF LoadRequest, LoadVotes, LoadBundle, LoadRejected
      <3> QED BY <2>5, <3>1, TablesKept, StepReads
    <2>6. ASSUME NEW s \in Sessions, CommitApprove(s) PROVE Rest
      BY <2>6, StepApprove
    <2>7. ASSUME NEW s \in Sessions, CommitReject(s) PROVE Rest
      BY <2>7, StepReject
    <2>8. ASSUME NEW s \in Sessions, Abort(s) PROVE Rest
      <3>1. /\ UNCHANGED <<requests, votes, bundles>>
            /\ sess' = [sess EXCEPT ![s] = Idle]
        BY <2>8 DEF Abort
      <3> QED BY <3>1, TablesKept, StepElsewhere
    <2>9. ASSUME UNCHANGED vars PROVE Rest
      <3>1. UNCHANGED <<requests, votes, bundles, sess>>
        BY <2>9 DEF vars
      <3> QED BY <3>1, TablesKept, StepElsewhere
    <2>10. Rest
      <3> HIDE DEF Rest
      <3> QED BY <2>2, <2>3, <2>4, <2>5, <2>6, <2>7, <2>8, <2>9 DEF Next
    <2> QED BY <2>1, <2>10 DEF IInv
  <1> QED BY <1>1, <1>2, PTL DEF Spec

\* Whatever the interleaving of the handlers, a request that was voted on is
\* approved only by a quorum of different users (approve_request).
THEOREM FourEyesHolds == Spec => []FourEyes
  <1>1. IInv => FourEyes
    BY DEF IInv
  <1> QED BY <1>1, Inductive, PTL

\* The counter that approve_request keeps never exceeds the votes on record.
THEOREM CountBacked == Spec => []CountBackedByVotes
  <1>1. IInv => CountBackedByVotes
    BY DEF IInv
  <1> QED BY <1>1, Inductive, PTL

\* The approval service approves a bundle only with a quorum behind it.
THEOREM ApprovedBundles == Spec => []ApprovedBundleHasQuorum
  <1>1. IInv => ApprovedBundleHasQuorum
    BY DEF IInv
  <1> QED BY <1>1, Inductive, PTL

\* No pending request has counted its quorum.
THEOREM PendingBelow == Spec => []PendingBelowQuorum
  <1>1. IInv => PendingBelowQuorum
    BY DEF IInv
  <1> QED BY <1>1, Inductive, PTL

\* The counter of a request never exceeds its votes, nor, while it is pending,
\* reaches its quorum.
THEOREM CountIsKept == Spec => []CountKept
  <1>1. IInv => CountKept
    BY DEF IInv, CountKept
  <1> QED BY <1>1, Inductive, PTL

-----------------------------------------------------------------------------
(* Votes that do not overlap *)

\* The handlers of the service take turns, as with a single client.
OneByOne ==
  \A s, t \in Sessions : sess[s].step # "idle" /\ sess[t].step # "idle" => s = t

\* Until a request is decided, each approval is counted, once.
ExactCount ==
  \A r \in Requests : requests[r].status \in {"none", "pending"}
                      => requests[r].current = Cardinality(ApproversOf(r))

\* The session that is open has the request as it is.
RowsCurrent ==
  \A s \in Sessions :
    /\ sess[s].step # "idle" => sess[s].row = requests[sess[s].request]
    /\ sess[s].step \in {"bundle", "approve"}
         => sess[s].user \notin ApproversOf(sess[s].request)

\* An approval adds one approver, of one request.
LEMMA ApprovalAdds ==
  ASSUME NEW r \in Requests, NEW u \in Users,
         votes' = votes \cup {[request |-> r, user |-> u, verdict |-> "approved"]}
  PROVE  /\ ApproversOf(r)' = ApproversOf(r) \cup {u}
         /\ \A q \in Requests \ {r} : ApproversOf(q)' = ApproversOf(q)
         /\ u \notin ApproversOf(r)
              => Cardinality(ApproversOf(r)') = Cardinality(ApproversOf(r)) + 1
  <1>1. ApproversOf(r)' = ApproversOf(r) \cup {u}
    BY DEF ApproversOf
  <1>2. \A q \in Requests \ {r} : ApproversOf(q)' = ApproversOf(q)
    BY DEF ApproversOf
  <1>3. u \notin ApproversOf(r)
          => Cardinality(ApproversOf(r) \cup {u}) = Cardinality(ApproversOf(r)) + 1
    BY ApproversFinite, FS_AddElement
  <1> QED BY <1>1, <1>2, <1>3

\* Each step keeps the count exact and the copies current.
LEMMA TurnStep ==
  ASSUME IInv, IInv', OneByOne, OneByOne', ExactCount, RowsCurrent, [Next]_vars
  PROVE  ExactCount' /\ RowsCurrent'
  <1>1. ASSUME UNCHANGED <<requests, votes>>
        PROVE  ExactCount' /\ \A q : ApproversOf(q)' = ApproversOf(q)
    BY <1>1 DEF ExactCount, ApproversOf
  <1>2. ASSUME NEW s \in Sessions, \A t \in Sessions \ {s} : sess'[t] = sess[t],
               UNCHANGED <<requests, votes>>,
               sess'[s].step # "idle" => sess'[s].row = requests[sess'[s].request],
               sess'[s].step \in {"bundle", "approve"}
                 => sess'[s].user \notin ApproversOf(sess'[s].request)
        PROVE  ExactCount' /\ RowsCurrent'
    BY <1>1, <1>2 DEF RowsCurrent
  <1>3. sess \in [Sessions -> Session]
    BY DEF IInv, TypeOK
  <1>4. CASE UNCHANGED <<requests, votes, sess>>
    BY <1>1, <1>4 DEF RowsCurrent
  <1>5. ASSUME NEW s \in Sessions, NEW u \in Users, NEW r \in Requests, LoadRequest(s, u, r)
        PROVE  ExactCount' /\ RowsCurrent'
    <2>1. /\ sess' = [sess EXCEPT ![s] = [step |-> "row", user |-> u, request |-> r,
                                          row |-> requests[r], bundle |-> "draft"]]
          /\ UNCHANGED <<requests, votes>>
      BY <1>5 DEF LoadRequest
    <2>2. /\ sess'[s].step = "row" /\ sess'[s].row = requests[r] /\ sess'[s].request = r
          /\ \A t \in Sessions \ {s} : sess'[t] = sess[t]
      BY <1>3, <2>1
    <2> QED BY <1>2, <2>1, <2>2
  <1>6. ASSUME NEW s \in Sessions, LoadVotes(s) \/ LoadBundle(s) \/ LoadRejected(s)
        PROVE  ExactCount' /\ RowsCurrent'
    <2>1. /\ UNCHANGED <<requests, votes>>
          /\ \A t \in Sessions \ {s} : sess'[t] = sess[t]
      BY <1>3, <1>6 DEF LoadVotes, LoadBundle, LoadRejected
    <2>2. /\ sess'[s].row = sess[s].row /\ sess'[s].request = sess[s].request
          /\ sess'[s].user = sess[s].user /\ sess[s].step # "idle"
      BY <1>3, <1>6 DEF LoadVotes, LoadBundle, LoadRejected, Session
    <2>3. CASE LoadVotes(s)
      <3>1. sess[s].user \notin ApproversOf(sess[s].request)
        BY <2>3 DEF LoadVotes
      <3> QED BY <1>2, <2>1, <2>2, <3>1 DEF RowsCurrent
    <2>4. CASE LoadBundle(s)
      <3>1. sess[s].step = "bundle"
        BY <2>4 DEF LoadBundle
      <3> QED BY <1>2, <2>1, <2>2, <3>1 DEF RowsCurrent
    <2>5. CASE LoadRejected(s)
      <3>1. sess'[s].step = "reject"
        BY <1>3, <2>5 DEF LoadRejected, Session
      <3> QED BY <1>2, <2>1, <2>2, <3>1 DEF RowsCurrent
    <2> QED BY <1>6, <2>3, <2>4, <2>5
  <1>7. ASSUME NEW s \in Sessions, Abort(s)
        PROVE  ExactCount' /\ RowsCurrent'
    <2>1. /\ UNCHANGED <<requests, votes>> /\ sess'[s] = Idle
          /\ \A t \in Sessions \ {s} : sess'[t] = sess[t]
      BY <1>3, <1>7 DEF Abort
    <2>2. Idle.step = "idle"
      BY DEF Idle
    <2> QED BY <1>2, <2>1, <2>2
  <1>8. ASSUME NEW r \in Requests, NEW risk \in Risks, CreateRequest(r, risk)
        PROVE  ExactCount' /\ RowsCurrent'
    <2>1. /\ requests[r].status = "none" /\ votes' = votes /\ sess' = sess
          /\ \A q \in Requests \ {r} : requests'[q] = requests[q]
      BY <1>8 DEF CreateRequest, IInv, TypeOK
    <2>2. /\ requests'[r].status # "none"
          /\ requests'[r].status = "pending" => requests'[r].current = 0
      <3>1. PICK required, auto : requests' = [requests EXCEPT ![r] = NewRequest(risk, required, auto)]
        BY <1>8 DEF CreateRequest
      <3>2. requests'[r] = NewRequest(risk, required, auto)
        BY <3>1 DEF IInv, TypeOK
      <3> QED BY <3>2 DEF NewRequest, NoRequest
    <2>3. \A q : ApproversOf(q)' = ApproversOf(q)
      BY <2>1 DEF ApproversOf
    <2>4. requests[r].current = 0 /\ Cardinality(ApproversOf(r)) = 0
      BY <2>1 DEF IInv, RequestInv, ExactCount
    <2>5. ExactCount'
      BY <2>1, <2>2, <2>3, <2>4 DEF ExactCount
    <2>6. \A s \in Sessions : sess[s].step # "idle"
            => sess[s].request \in Requests /\ sess[s].request # r
      BY <2>1 DEF IInv, TypeOK, SessionInv, CopyOK
    <2>7. RowsCurrent'
      BY <2>1, <2>3, <2>6 DEF RowsCurrent
    <2> QED BY <2>5, <2>7
  <1>9. ASSUME NEW s \in Sessions, CommitApprove(s) \/ CommitReject(s)
        PROVE  ExactCount' /\ RowsCurrent'
    <2>1. /\ sess[s].step \in {"approve", "reject"} /\ sess' = [sess EXCEPT ![s] = Idle]
      BY <1>9 DEF CommitApprove, CommitReject
    <2>2. \A t \in Sessions : sess'[t].step = "idle"
      BY <1>3, <2>1 DEF OneByOne, Idle
    <2>3. RowsCurrent'
      BY <2>2 DEF RowsCurrent
    <2>4. PICK r \in Requests, u \in Users : r = sess[s].request /\ u = sess[s].user
      BY <2>1 DEF IInv, TypeOK
    <2>5. \A q \in Requests \ {r} : requests'[q] = requests[q]
      BY <1>9, <2>4 DEF CommitApprove, CommitReject, IInv, TypeOK
    <2>6. CASE CommitApprove(s)
      <3>1. /\ sess[s].step = "approve"
            /\ votes' = votes \cup {[request |-> r, user |-> u, verdict |-> "approved"]}
        BY <2>4, <2>6 DEF CommitApprove, CastVote
      <3>2. sess[s].row = requests[r] /\ requests[r].status = "pending" /\ u \notin ApproversOf(r)
        <4>1. sess[s].row.status = "pending"
          BY <3>1 DEF IInv, SessionInv, CopyOK
        <4> QED BY <2>4, <3>1, <4>1 DEF RowsCurrent
      <3>3. requests'[r].current = requests[r].current + 1
        BY <2>4, <2>6, <3>2 DEF CommitApprove, IInv, TypeOK, Request
      <3>4. requests[r].current = Cardinality(ApproversOf(r))
        BY <3>2 DEF ExactCount
      <3> QED BY <2>3, <2>5, <3>1, <3>2, <3>3, <3>4, ApprovalAdds DEF ExactCount
    <2>7. CASE CommitReject(s)
      <3>1. requests'[r].status = "rejected"
        BY <2>4, <2>7 DEF CommitReject, IInv, TypeOK, Request
      <3>2. votes' = votes \cup {[request |-> r, user |-> u, verdict |-> "rejected"]}
        BY <2>4, <2>7 DEF CommitReject, CastVote
      <3>3. \A q \in Requests : ApproversOf(q)' = ApproversOf(q)
        BY <3>2 DEF ApproversOf
      <3> QED BY <2>3, <2>5, <3>1, <3>3 DEF ExactCount
    <2> QED BY <1>9, <2>6, <2>7
  <1>10. ASSUME NEW id, NEW body, CreatePolicy(id, body) \/ UpdatePolicy(id, body)
         PROVE  UNCHANGED <<requests, votes, sess>>
    BY <1>10 DEF CreatePolicy, UpdatePolicy
  <1>11. ASSUME NEW r, Deadline(r)
         PROVE  UNCHANGED <<requests, votes, sess>>
    BY <1>11 DEF Deadline
  <1>12. CASE UNCHANGED vars
    BY <1>4, <1>12 DEF vars
  <1> QED BY <1>4, <1>5, <1>6, <1>7, <1>8, <1>9, <1>10, <1>11, <1>12 DEF Next

\* As approve_request promises, a request that enough users have approved is not
\* pending any more, if the handlers of votes take turns: it is to the overlap of
\* two of them that an approval is lost.
THEOREM TurnsDecide == Spec /\ []OneByOne => []QuorumDecides
  <1> DEFINE TInv == IInv /\ ExactCount /\ RowsCurrent
  <1>1. Init => ExactCount /\ RowsCurrent
    <2> SUFFICES ASSUME Init PROVE ExactCount /\ RowsCurrent
      OBVIOUS
    <2>1. \A r \in Requests : ApproversOf(r) = {} /\ requests[r].current = 0
      BY DEF Init, ApproversOf, NoRequest
    <2>2. RowsCurrent
      BY DEF Init, RowsCurrent, Idle
    <2> QED BY <2>1, <2>2, FS_EmptySet DEF ExactCount
  <1>2. IInv /\ ExactCount => QuorumDecides
    <2> SUFFICES ASSUME IInv, ExactCount, NEW r \in Requests, requests[r].status = "pending"
                 PROVE  ~Quorate(r)
      BY DEF QuorumDecides
    <2>1. /\ requests[r].current < requests[r].required
          /\ requests[r].current = Cardinality(ApproversOf(r))
          /\ requests[r].current \in Nat /\ requests[r].required \in Nat
      BY DEF IInv, PendingBelowQuorum, ExactCount, TypeOK, Request
    <2> QED BY <2>1 DEF Quorate
  <1> QED BY <1>1, <1>2, Inductive, TurnStep, PTL DEF Spec
=============================================================================
