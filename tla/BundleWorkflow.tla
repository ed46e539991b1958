--------------------------- MODULE BundleWorkflow ---------------------------
(***************************************************************************)
(* One bundle of patches, from draft to deployed: the endpoints of          *)
(* api/v1/bundles.py that change it, the two other writers of its status    *)
(* (api/v1/agent.py, services/approval_service.py) and the deployment of    *)
(* services/deployment_service.py.                                          *)
(*                                                                          *)
(* A handler loads the bundle row into its session, decides on that copy    *)
(* and writes it back at its commit.  The database runs at READ COMMITTED,  *)
(* without row locks or version counters, so anything may happen to the row *)
(* between the two.  A deployment is one such session that commits many     *)
(* times and never looks at the row again.                                  *)
(*                                                                          *)
(* Of the row only the columns that some handler's decision or promise      *)
(* depends on are kept: window, names, counts and timestamps are left out,  *)
(* and a check on anything left out may fail at any time (Fail).            *)
(***************************************************************************)
EXTENDS Integers

CONSTANTS Items,        \* identities of rows of bundle_items
          Sessions,     \* concurrent requests
          Endpoints,    \* the endpoints that clients use
          Modes,        \* the values of isolated to look at
          CanCrash,     \* TRUE: the process may die during a deployment
          MaxRequests   \* bound on the requests that are made

AllEndpoints ==
  {"status", "execute", "assign_window", "add_item", "remove_item", "update",
   "approve", "agent_approve", "rollback", "approve_request", "reject_request"}

ASSUME WorkflowAssumption ==
  /\ Endpoints \subseteq AllEndpoints
  /\ Modes \subseteq BOOLEAN
  /\ CanCrash \in BOOLEAN
  /\ MaxRequests \in Nat

VARIABLES isolated,     \* TRUE: no request overlaps another one's read and commit
          bundle,       \* the row of table bundles
          items,        \* the rows of table bundle_items
          sess,         \* the sessions
          left,         \* requests still to be made
          reviewed,     \* history: the items of the bundle when it was last approved
          everApproved  \* history: whether it ever was

vars == <<isolated, bundle, items, sess, left, reviewed, everApproved>>

Statuses == {"draft", "scheduled", "approved", "in_progress", "completed",
             "failed", "cancelled"}

\* VALID_TRANSITIONS, and "new_status != bundle.status and" before its use.
Allowed ==
  [draft       |-> {"draft", "scheduled", "approved", "cancelled"},
   scheduled   |-> {"scheduled", "approved", "draft", "cancelled"},
   approved    |-> {"approved", "in_progress", "draft", "cancelled"},
   in_progress |-> {"in_progress", "completed", "failed"},
   completed   |-> {"completed"},
   failed      |-> {"failed", "draft"},
   cancelled   |-> {"cancelled"}]

Editable == {"draft", "scheduled", "approved"}

\* The kinds of value that are written to bundles.approved_by.
Approvers == {"nobody", "system", "current_user", "AI Agent", "email"}

\* execution_log is NULL, the progress dict of a deployment or the list of
\* entries of rollbacks.
Logs == {"null", "dict", "list"}

Row == [status : Statuses, approvedBy : Approvers, log : Logs]

\* "unused" and "deleted": no such row, not yet or not any more.
ItemStatuses == {"unused", "pending", "in_progress", "success", "rolled_back",
                 "deleted"}

Absent == {"unused", "deleted"}
Content == {i \in Items : items[i] \notin Absent}

RunStages == {"started", "run", "patching", "patched"}

\* A session: "row" after the SELECT of the bundle, "items" after that of its
\* items; the rest are the points between the commits of a deployment.
Session == [stage : {"idle", "row", "items"} \cup RunStages,
            row : Row,                      \* the bundle as the session knows it
            seen : [Items -> ItemStatuses], \* the items as it loaded them
            todo : SUBSET Items,            \* those still to be patched
            item : SUBSET Items]            \* the one being patched

Nothing == [i \in Items |-> "unused"]

NewRow(status) == [status |-> status, approvedBy |-> "nobody", log |-> "null"]

Idle == [stage |-> "idle", row |-> NewRow("draft"), seen |-> Nothing,
         todo |-> {}, item |-> {}]

TypeOK ==
  /\ isolated \in BOOLEAN
  /\ bundle \in Row
  /\ items \in [Items -> ItemStatuses]
  /\ sess \in [Sessions -> Session]
  /\ left \in Nat
  /\ reviewed \subseteq Items
  /\ everApproved \in BOOLEAN

\* The optimizer makes bundles "scheduled", the asset page makes them "draft".
Init ==
  /\ isolated \in Modes
  /\ bundle \in {NewRow("draft"), NewRow("scheduled")}
  /\ items \in [Items -> {"unused", "pending"}]
  /\ sess = [s \in Sessions |-> Idle]
  /\ left = MaxRequests
  /\ reviewed = {}
  /\ everApproved = FALSE

Running == {s \in Sessions : sess[s].stage \in RunStages}
Holding == {s \in Sessions : sess[s].stage \in {"row", "items"}}

\* When requests are isolated, nothing happens between a read and its commit.
Quiet(s) == isolated => Holding \subseteq {s}

-----------------------------------------------------------------------------
(* Sessions and the unit of work *)

\* The SELECT of the bundle.
LoadRow(s) ==
  /\ sess[s].stage = "idle"
  /\ left > 0
  /\ Quiet(s)
  /\ left' = left - 1
  /\ sess' = [sess EXCEPT ![s] = [Idle EXCEPT !.stage = "row", !.row = bundle]]
  /\ UNCHANGED <<bundle, items, reviewed, everApproved>>

\* The SELECT of the bundle's items, by the handlers that look at them.
LoadItems(s) ==
  /\ sess[s].stage = "row"
  /\ Endpoints \cap {"rollback", "remove_item"} # {}
  /\ sess' = [sess EXCEPT ![s].stage = "items", ![s].seen = items]
  /\ UNCHANGED <<bundle, items, left, reviewed, everApproved>>

\* A check fails (a rule blocks, capacity, a missing window, an argument), the
\* handler raises or its process dies: nothing is kept.
Fail(s) ==
  /\ \/ sess[s].stage \in {"row", "items"}
     \/ CanCrash /\ sess[s].stage \in RunStages
  /\ sess' = [sess EXCEPT ![s] = Idle]
  /\ UNCHANGED <<bundle, items, left, reviewed, everApproved>>

\* The UPDATE names only the columns whose value differs from the loaded one.
Put(loaded, new, stored) == IF new = loaded THEN stored ELSE new

Write(row, new) ==
  bundle' = [status |-> Put(row.status, new.status, bundle.status),
             approvedBy |-> Put(row.approvedBy, new.approvedBy, bundle.approvedBy),
             log |-> Put(row.log, new.log, bundle.log)]

\* The commit that ends a request, of endpoint e, at the given stage.
Reply(s, e, stage) ==
  /\ e \in Endpoints
  /\ sess[s].stage = stage
  /\ sess' = [sess EXCEPT ![s] = Idle]
  /\ UNCHANGED left

Unreviewed == UNCHANGED <<reviewed, everApproved>>
Reviewed == reviewed' = Content /\ everApproved' = TRUE

-----------------------------------------------------------------------------
(* The endpoints *)

WithoutApproval(row) == [row EXCEPT !.status = "draft", !.approvedBy = "nobody"]

\* "If bundle was approved, reset to draft since content changed."
AfterEditKeepsApproval(row) == row
AfterEdit(row) == IF row.status = "approved" THEN WithoutApproval(row) ELSE row

\* PATCH /bundles/{id}/status.
update_bundle_status_anonymous(s) ==
  LET row == sess[s].row IN
  \E new \in Allowed[row.status] :
    /\ Reply(s, "status", "row")
    /\ Write(row, [row EXCEPT !.status = new])
    /\ IF new = "approved" THEN Reviewed ELSE Unreviewed
    /\ UNCHANGED items

update_bundle_status(s) ==
  LET row == sess[s].row IN
  \E new \in Allowed[row.status] :
    /\ Reply(s, "status", "row")
    /\ Write(row, [row EXCEPT !.status = new,
                              !.approvedBy = IF new = "approved" THEN "system" ELSE @])
    /\ IF new = "approved" THEN Reviewed ELSE Unreviewed
    /\ UNCHANGED items

\* PATCH /bundles/{id}/assign-window, with a window or with null.
assign_bundle_to_window(s) ==
  LET row == sess[s].row IN
  /\ Reply(s, "assign_window", "row")
  /\ \/ Write(row, [row EXCEPT !.status = "scheduled"])
     \/ Write(row, [row EXCEPT !.status = IF @ = "scheduled" THEN "draft" ELSE @])
  /\ Unreviewed
  /\ UNCHANGED items

\* POST /bundles/{id}/items; a vulnerability-asset pair that the bundle already
\* has is refused (Fail), so that the new row is a new pair.
add_bundle_item(s) ==
  /\ Reply(s, "add_item", "row")
  /\ sess[s].row.status \in Editable
  /\ \E i \in Items : items[i] = "unused" /\ items' = [items EXCEPT ![i] = "pending"]
  /\ Write(sess[s].row, AfterEdit(sess[s].row))
  /\ Unreviewed

\* DELETE /bundles/{id}/items/{item}; an item deleted meanwhile is no error.
remove_bundle_item(s) ==
  /\ Reply(s, "remove_item", "items")
  /\ sess[s].row.status \in Editable
  /\ \E i \in Items : /\ sess[s].seen[i] \notin Absent
                      /\ items' = [items EXCEPT ![i] = "deleted"]
  /\ Write(sess[s].row, AfterEdit(sess[s].row))
  /\ Unreviewed

\* PATCH /bundles/{id}: name, window, schedule, risk level.
update_bundle(s) ==
  /\ Reply(s, "update", "row")
  /\ sess[s].row.status \in Editable
  /\ Write(sess[s].row, AfterEdit(sess[s].row))
  /\ Unreviewed
  /\ UNCHANGED items

ApproveAs(s, e, name) ==
  /\ Reply(s, e, "row")
  /\ Write(sess[s].row, [sess[s].row EXCEPT !.status = "approved", !.approvedBy = name])
  /\ Reviewed
  /\ UNCHANGED items

\* POST /bundles/{id}/approve.
approve_bundle(s) ==
  /\ sess[s].row.status \in {"draft", "scheduled"}
  /\ ApproveAs(s, "approve", "current_user")

\* The chat agent: "approve bundle ...".
handle_approve_bundle(s) ==
  /\ sess[s].row.status \in {"draft", "scheduled"}
  /\ ApproveAs(s, "agent_approve", "AI Agent")

\* The decision of an approval request, whatever the bundle's status.
approve_request(s) == ApproveAs(s, "approve_request", "email")

reject_request_as_rejected(s) ==
  /\ Reply(s, "reject_request", "row")
  /\ Write(sess[s].row, [sess[s].row EXCEPT !.status = "rejected"])
  /\ Unreviewed
  /\ UNCHANGED items

reject_request(s) ==
  /\ Reply(s, "reject_request", "row")
  /\ Write(sess[s].row, [sess[s].row EXCEPT !.status = "cancelled"])
  /\ Unreviewed
  /\ UNCHANGED items

\* POST /bundles/{id}/rollback, at any status.  The list of log entries grows,
\* so that column is always written.  An UPDATE of an item deleted meanwhile
\* fails the whole request.
RollBack(s, reverted) ==
  /\ Reply(s, "rollback", "items")
  /\ reverted \cap {i \in Items : items[i] = "deleted"} = {}
  /\ items' = [i \in Items |-> IF i \in reverted THEN "rolled_back" ELSE items[i]]
  /\ bundle' = [bundle EXCEPT !.status = Put(sess[s].row.status, "failed", @),
                              !.log = "list"]
  /\ Unreviewed

rollback_bundle_all(s) ==
  RollBack(s, {i \in Items : sess[s].seen[i] \notin Absent})

rollback_bundle(s) ==
  RollBack(s, {i \in Items : sess[s].seen[i] \in {"in_progress", "success"}})

-----------------------------------------------------------------------------
(* DeploymentService.execute_bundle *)

StartWithoutGuard(s) ==
  /\ "execute" \in Endpoints
  /\ sess[s].stage = "row"
  /\ Write(sess[s].row, [sess[s].row EXCEPT !.status = "in_progress"])
  /\ sess' = [sess EXCEPT ![s].stage = "started", ![s].row.status = "in_progress"]
  /\ UNCHANGED <<items, left, reviewed, everApproved>>

\* "Update bundle status to in_progress", after the guard and the rules.
Start(s) ==
  /\ "execute" \in Endpoints
  /\ sess[s].stage = "row"
  /\ sess[s].row.status = "approved"
  /\ Write(sess[s].row, [sess[s].row EXCEPT !.status = "in_progress"])
  /\ sess' = [sess EXCEPT ![s].stage = "started", ![s].row.status = "in_progress"]
  /\ UNCHANGED <<items, left, reviewed, everApproved>>

\* "Load bundle items", once, for the whole deployment.
LoadRunItems(s) ==
  /\ sess[s].stage = "started"
  /\ Quiet(s)
  /\ sess' = [sess EXCEPT ![s].stage = "run", ![s].seen = items, ![s].todo = Content]
  /\ UNCHANGED <<bundle, items, left, reviewed, everApproved>>

\* The first commit of _execute_bundle_item.  The order is by priority, which
\* users may edit meanwhile: any order.  An UPDATE of a row that was deleted
\* raises (RunFails).
BeginItem(s, i) ==
  /\ sess[s].stage = "run"
  /\ Quiet(s)
  /\ i \in sess[s].todo
  /\ items[i] # "deleted"
  /\ items' = [items EXCEPT ![i] = Put(sess[s].seen[i], "in_progress", @)]
  /\ sess' = [sess EXCEPT ![s].stage = "patching", ![s].todo = @ \ {i},
                          ![s].item = {i}]
  /\ UNCHANGED <<bundle, left, reviewed, everApproved>>

\* Its second commit, once the patch is applied.
EndItem(s) ==
  /\ sess[s].stage = "patching"
  /\ Quiet(s)
  /\ \A i \in sess[s].item : items[i] # "deleted"
  /\ items' = [i \in Items |-> IF i \in sess[s].item THEN "success" ELSE items[i]]
  /\ sess' = [sess EXCEPT ![s].stage = "patched", ![s].item = {}]
  /\ UNCHANGED <<bundle, left, reviewed, everApproved>>

\* _update_bundle_progress: an empty log becomes a dict; a dict is changed in
\* place, which the session does not notice; a list raises (RunFails).
update_bundle_progress(s) ==
  /\ sess[s].stage = "patched"
  /\ Quiet(s)
  /\ sess[s].row.log # "list" \/ Content = {}
  /\ LET log == IF Content = {} THEN sess[s].row.log ELSE "dict" IN
       /\ Write(sess[s].row, [sess[s].row EXCEPT !.log = log])
       /\ sess' = [sess EXCEPT ![s].stage = "run", ![s].row.log = log]
  /\ UNCHANGED <<items, left, reviewed, everApproved>>

\* Patching is simulated and never fails: failure_count is 0.
FinishWithoutResult(s) ==
  /\ sess[s].stage = "run"
  /\ Quiet(s)
  /\ sess[s].todo = {}
  /\ sess' = [sess EXCEPT ![s] = Idle]
  /\ UNCHANGED <<bundle, items, left, reviewed, everApproved>>

Finish(s) ==
  /\ sess[s].stage = "run"
  /\ Quiet(s)
  /\ sess[s].todo = {}
  /\ Write(sess[s].row, [sess[s].row EXCEPT !.status = "completed"])
  /\ sess' = [sess EXCEPT ![s] = Idle]
  /\ UNCHANGED <<items, left, reviewed, everApproved>>

\* The exceptions named above: the deployment is over, and nobody is left to
\* say so in the database.
RunFails(s) ==
  /\ Quiet(s)
  /\ \/ /\ sess[s].stage = "run"
        /\ \E i \in sess[s].todo : items[i] = "deleted"
     \/ /\ sess[s].stage = "patching"
        /\ \E i \in sess[s].item : items[i] = "deleted"
     \/ /\ sess[s].stage = "patched"
        /\ sess[s].row.log = "list" /\ Content # {}
  /\ sess' = [sess EXCEPT ![s] = Idle]
  /\ UNCHANGED <<bundle, items, left, reviewed, everApproved>>

-----------------------------------------------------------------------------

Answer(s) ==
  \/ update_bundle_status(s) \/ assign_bundle_to_window(s)
  \/ add_bundle_item(s) \/ remove_bundle_item(s) \/ update_bundle(s)
  \/ approve_bundle(s) \/ handle_approve_bundle(s)
  \/ approve_request(s) \/ reject_request(s) \/ rollback_bundle(s)

Work(s) ==
  \/ LoadRunItems(s) \/ (\E i \in Items : BeginItem(s, i)) \/ EndItem(s)
  \/ update_bundle_progress(s) \/ Finish(s) \/ RunFails(s)

Next ==
  /\ UNCHANGED isolated
  /\ \E s \in Sessions :
       LoadRow(s) \/ LoadItems(s) \/ Answer(s) \/ Start(s) \/ Work(s) \/ Fail(s)

Spec == Init /\ [][Next]_vars

\* A deployment is a coroutine that waits for nothing but the database and a
\* sleep.  Clients need not call.  Where requests do not overlap a deployment
\* also waits for the request under way, whose handler ends in one way or other.
FairSpec ==
  /\ Spec
  /\ \A s \in Sessions :
       /\ WF_vars(Work(s) /\ UNCHANGED isolated)
       /\ WF_vars(/\ isolated /\ UNCHANGED isolated /\ s \in Holding
                  /\ Answer(s) \/ Start(s) \/ Fail(s))

-----------------------------------------------------------------------------
(* Properties *)

\* Nothing is deployed before somebody approved the bundle at least once: an
\* item leaves "pending" only through a deployment, and a deployment starts on
\* a row that was read as approved, however stale that reading is.
NothingDeployedUnapproved ==
  \A i \in Items : items[i] \notin {"unused", "pending", "deleted"} => everApproved

\* No handler reports an item that no deployment took up: from "pending" an
\* item goes to "in_progress", or is deleted, and in particular a rollback
\* working on an old list of items never touches one.
NeverSkipsExecution ==
  [][\A i \in Items : items[i] = "pending" =>
        items'[i] \in {"pending", "in_progress", "deleted"}]_vars

\* A row that says "approved", or "in_progress", goes with the items that were
\* approved: every way to change them (add_bundle_item, remove_bundle_item)
\* takes the approval back or is refused.  This is about the row for as long as
\* it says so, and for requests that do not overlap; what a deployment takes up
\* is another matter (DeploysReviewed).
RowReviewed == bundle.status \in {"approved", "in_progress"} => Content = reviewed
ContentReviewed == isolated => RowReviewed

\* An approved bundle names its approver ("Sets status to 'approved', records
\* approved_by/approved_at").
ApprovedHasApprover == bundle.status = "approved" => bundle.approvedBy # "nobody"

\* So it does while requests do not overlap: the endpoints that withdraw the
\* approval clear both columns together.
ApproverKept == isolated => ApprovedHasApprover

\* A deployment takes up only what was in the bundle at its last approval.  The
\* code means it to: an edit withdraws the approval ("If bundle was approved,
\* reset to draft since content changed"), a bundle in progress cannot be
\* edited, and a bundle "must be approved before execution".
DeploysReviewed ==
  [][\A i \in Items : items[i] = "pending" /\ items'[i] = "in_progress" =>
        i \in reviewed]_vars

\* While requests do not overlap, the status moves as BundleLifecycle says: by
\* VALID_TRANSITIONS, but for the endpoints that write it without asking, as
\* far as clients use them, and for the end of a deployment.  Where requests
\* overlap nothing is claimed: no bundle is shown to the lifecycle.
LoneStatus == IF isolated THEN bundle.status ELSE "draft"
LoneRunning == IF isolated THEN Running ELSE {}
Lifecycle == INSTANCE BundleLifecycle WITH
               Overriding <- Endpoints \cap {"assign_window", "approve_request",
                                             "reject_request", "rollback"},
               status <- LoneStatus, running <- LoneRunning
ImplementsLifecycle == Lifecycle!Spec

\* A deployment ends, and when it does the bundle is not left "in_progress".
RunSettlesBundle ==
  \A s \in Sessions :
    s \in Running ~> s \notin Running /\ bundle.status # "in_progress"

\* "Can't rollback something that hasn't been applied" (test_api_bundles.py):
\* a draft does not become a failed deployment.
RollbackNeedsDeployment ==
  [][bundle.status = "draft" => bundle'.status # "failed"]_vars
=============================================================================
