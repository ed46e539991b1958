------------------------ MODULE BundleWorkflowProofs ------------------------
(* Proofs about BundleWorkflow, for any items, sessions and endpoints. *)
EXTENDS BundleWorkflow, TLAPS

\* A write through the unit of work yields a row, and makes the bundle approved
\* only if the handler meant it to be.
LEMMA WriteTyped ==
  ASSUME bundle \in Row, NEW row \in Row, NEW new \in Row, Write(row, new)
  PROVE  /\ bundle' \in Row
         /\ bundle'.status = "approved" =>
              new.status = "approved" \/ bundle.status = "approved"
  BY DEF Write, Put, Row

\* The session without a request has its type.
LEMMA IdleTyped == NewRow("draft") \in Row /\ Idle \in Session
  <1>1. NewRow("draft") \in Row
    BY DEF NewRow, Row, Statuses, Approvers, Logs
  <1>2. Nothing \in [Items -> ItemStatuses]
    BY DEF Nothing, ItemStatuses
  <1> QED BY <1>1, <1>2 DEF Idle, Session

\* What a handler computes from the row it loaded is a row.
LEMMA RowsTyped ==
  ASSUME NEW row \in Row
  PROVE  /\ \A new \in Statuses : [row EXCEPT !.status = new] \in Row
         /\ \A new \in Statuses, name \in Approvers :
              [row EXCEPT !.status = new, !.approvedBy = name] \in Row
         /\ \A log \in Logs : [row EXCEPT !.log = log] \in Row
         /\ AfterEdit(row) \in Row
         /\ AfterEdit(row).status = "approved" => FALSE
  BY DEF Row, AfterEdit, WithoutApproval, Statuses, Approvers

-----------------------------------------------------------------------------
(* The inductive invariant *)

Untouched == {"unused", "pending"}

\* An approved bundle was approved.
ApprovedInv ==
  /\ bundle.status = "approved" => everApproved
  /\ NothingDeployedUnapproved

\* So was a bundle that a session has read as approved, or deploys; and an item
\* that a session has seen in a deployment, or patches, was in one.
SessionOK(s) ==
  /\ sess[s].row.status = "approved" => everApproved
  /\ sess[s].stage \in RunStages => everApproved
  /\ \A i \in Items : sess[s].seen[i] \notin Untouched => items[i] \notin Untouched
  /\ \A i \in sess[s].item : items[i] \notin Untouched

SessionInv == \A s \in Sessions : SessionOK(s)

IInv == TypeOK /\ ApprovedInv /\ SessionInv

\* What one step may do to the items and to the history of approvals.
ItemsMove ==
  \A i \in Items :
    \/ items'[i] \in {items[i], "deleted"}
    \/ items[i] = "unused" /\ items'[i] = "pending"
    \/ everApproved /\ items'[i] = "in_progress"
    \/ /\ items[i] \notin {"unused", "pending", "deleted"}
       /\ items'[i] \notin Untouched

ApprovalKept ==
  /\ everApproved => everApproved'
  /\ bundle'.status = "approved" => everApproved'

\* The handlers that answer a request keep the types and move the items and
\* the approval as they may.
LEMMA AnswerStep ==
  ASSUME IInv, NEW s \in Sessions, Answer(s)
  PROVE  /\ sess' = [sess EXCEPT ![s] = Idle] /\ left' = left
         /\ bundle' \in Row /\ items' \in [Items -> ItemStatuses]
         /\ reviewed' \subseteq Items /\ everApproved' \in BOOLEAN
         /\ ItemsMove /\ ApprovalKept
  <1> DEFINE row == sess[s].row
  <1>1. /\ row \in Row /\ bundle \in Row /\ items \in [Items -> ItemStatuses]
        /\ reviewed \subseteq Items /\ everApproved \in BOOLEAN
        /\ sess[s].seen \in [Items -> ItemStatuses]
        /\ row.status = "approved" => everApproved
        /\ bundle.status = "approved" => everApproved
    BY DEF IInv, TypeOK, Session, SessionInv, SessionOK, ApprovedInv
  <1>2. /\ Unreviewed \/ Reviewed =>
             /\ everApproved' \in BOOLEAN /\ reviewed' \subseteq Items
             /\ everApproved => everApproved'
        /\ Reviewed => everApproved'
    BY <1>1 DEF Unreviewed, Reviewed, Content
  <1>3. items' = items => items' \in [Items -> ItemStatuses] /\ ItemsMove
    BY <1>1 DEF ItemsMove
  <1>4. \A new \in Row :
          Write(row, new) /\ (new.status = "approved" => everApproved')
            /\ (everApproved => everApproved')
          => bundle' \in Row /\ ApprovalKept
    BY <1>1, WriteTyped DEF ApprovalKept
  <1>5. \A e, stage : Reply(s, e, stage) =>
          sess' = [sess EXCEPT ![s] = Idle] /\ left' = left
    BY DEF Reply
  <1> HIDE DEF row
  <1>6. /\ row = sess[s].row
        /\ AfterEdit(row) \in Row /\ AfterEdit(row).status # "approved"
    BY <1>1, RowsTyped DEF row
  <1>7. CASE update_bundle_status(s)
    <2>1. PICK new \in Allowed[row.status] :
            /\ Reply(s, "status", "row")
            /\ Write(row, [row EXCEPT !.status = new, !.approvedBy =
                                        IF new = "approved" THEN "system" ELSE @])
            /\ IF new = "approved" THEN Reviewed ELSE Unreviewed
            /\ items' = items
      BY <1>6, <1>7 DEF update_bundle_status
    <2>2. new \in Statuses
      BY <1>1 DEF Allowed, Row, Statuses
    <2>3. [row EXCEPT !.status = new, !.approvedBy =
                        IF new = "approved" THEN "system" ELSE @] \in Row
      BY <1>1, <2>2 DEF Row, Approvers
    <2>4. [row EXCEPT !.status = new, !.approvedBy =
             IF new = "approved" THEN "system" ELSE @].status = new
      BY <1>1 DEF Row
    <2>5. (Unreviewed \/ Reviewed) /\ (new = "approved" => everApproved')
      BY <1>2, <2>1
    <2>6. bundle' \in Row /\ ApprovalKept
      BY <1>2, <1>4, <2>1, <2>3, <2>4, <2>5
    <2> QED BY <1>2, <1>3, <1>5, <2>1, <2>5, <2>6
  <1>8. CASE assign_bundle_to_window(s)
    <2>1. \E new \in Row : Write(row, new) /\ (new.status = "approved" => everApproved)
      <3>1. CASE Write(row, [row EXCEPT !.status = "scheduled"])
        BY <1>1, <3>1 DEF Row, Statuses
      <3>2. CASE Write(row, [row EXCEPT !.status = IF @ = "scheduled" THEN "draft" ELSE @])
        BY <1>1, <3>2 DEF Row, Statuses
      <3> QED BY <1>6, <1>8, <3>1, <3>2 DEF assign_bundle_to_window
    <2> QED BY <1>1, <1>2, <1>3, <1>4, <1>5, <1>8, <2>1 DEF assign_bundle_to_window
  <1>9. CASE add_bundle_item(s)
    <2>1. items' \in [Items -> ItemStatuses] /\ ItemsMove
      BY <1>1, <1>9 DEF add_bundle_item, ItemsMove, ItemStatuses
    <2> QED BY <1>1, <1>2, <1>4, <1>5, <1>6, <1>9, <2>1 DEF add_bundle_item
  <1>10. CASE remove_bundle_item(s)
    <2>1. items' \in [Items -> ItemStatuses] /\ ItemsMove
      BY <1>1, <1>10 DEF remove_bundle_item, ItemsMove, ItemStatuses
    <2> QED BY <1>1, <1>2, <1>4, <1>5, <1>6, <1>10, <2>1 DEF remove_bundle_item
  <1>11. CASE update_bundle(s)
    BY <1>1, <1>2, <1>3, <1>4, <1>5, <1>6, <1>11 DEF update_bundle
  <1>12. ASSUME NEW e, NEW name \in Approvers, ApproveAs(s, e, name)
         PROVE  /\ sess' = [sess EXCEPT ![s] = Idle] /\ left' = left
                /\ bundle' \in Row /\ items' \in [Items -> ItemStatuses]
                /\ reviewed' \subseteq Items /\ everApproved' \in BOOLEAN
                /\ ItemsMove /\ ApprovalKept
    <2>1. [row EXCEPT !.status = "approved", !.approvedBy = name] \in Row
      BY <1>1, RowsTyped DEF Statuses
    <2> QED BY <1>1, <1>2, <1>3, <1>4, <1>5, <1>6, <1>12, <2>1 DEF ApproveAs
  <1>13. CASE approve_bundle(s) \/ handle_approve_bundle(s) \/ approve_request(s)
    <2>1. {"current_user", "AI Agent", "email"} \subseteq Approvers
      BY DEF Approvers
    <2> QED
      BY <1>12, <1>13, <2>1 DEF approve_bundle, handle_approve_bundle, approve_request
  <1>14. CASE reject_request(s)
    <2>1. /\ [row EXCEPT !.status = "cancelled"] \in Row
          /\ [row EXCEPT !.status = "cancelled"].status # "approved"
      BY <1>1 DEF Row, Statuses
    <2>2. /\ Reply(s, "reject_request", "row") /\ Unreviewed /\ items' = items
          /\ Write(row, [row EXCEPT !.status = "cancelled"])
      BY <1>6, <1>14 DEF reject_request
    <2>3. bundle' \in Row /\ ApprovalKept
      BY <1>2, <1>4, <2>1, <2>2
    <2> QED BY <1>2, <1>3, <1>5, <2>2, <2>3
  <1>15. CASE rollback_bundle(s)
    <2>1. /\ Reply(s, "rollback", "items") /\ Unreviewed
          /\ bundle' = [bundle EXCEPT !.status = Put(row.status, "failed", @),
                                      !.log = "list"]
      BY <1>6, <1>15 DEF rollback_bundle, RollBack
    <2>2. bundle' \in Row /\ ApprovalKept
      <3>1. bundle' \in Row
        BY <1>1, <2>1 DEF Row, Put, Statuses, Logs
      <3>2. bundle'.status = "approved" => bundle.status = "approved"
        BY <1>1, <2>1 DEF Row, Put
      <3> QED BY <1>1, <1>2, <2>1, <3>1, <3>2 DEF ApprovalKept
    <2>3. items' \in [Items -> ItemStatuses]
      BY <1>1, <1>15 DEF rollback_bundle, RollBack, ItemStatuses
    <2>4. ItemsMove
      <3> SUFFICES ASSUME NEW i \in Items, items'[i] # items[i]
                   PROVE  /\ items[i] \notin {"unused", "pending", "deleted"}
                          /\ items'[i] \notin Untouched
        BY DEF ItemsMove
      <3>1. /\ items'[i] = "rolled_back" /\ items[i] # "deleted"
            /\ sess[s].seen[i] \in {"in_progress", "success"}
        BY <1>15 DEF rollback_bundle, RollBack
      <3>2. items[i] \notin Untouched
        BY <3>1 DEF IInv, SessionInv, SessionOK, Untouched
      <3> QED BY <3>1, <3>2 DEF Untouched
    <2> QED BY <1>1, <1>2, <1>5, <2>1, <2>2, <2>3, <2>4
  <1> QED
    BY <1>7, <1>8, <1>9, <1>10, <1>11, <1>13, <1>14, <1>15 DEF Answer

\* The SELECTs, the failures, and the commits of a deployment but for those of
\* its items, leave the items alone.
LEMMA DeploymentStep ==
  ASSUME IInv, NEW s \in Sessions,
         \/ LoadRow(s) \/ LoadItems(s) \/ Fail(s) \/ Start(s) \/ LoadRunItems(s)
         \/ update_bundle_progress(s) \/ Finish(s) \/ RunFails(s)
  PROVE  /\ \E x \in Session :
              /\ sess' = [sess EXCEPT ![s] = x]
              /\ x.row.status = "approved" => everApproved
              /\ x.stage \in RunStages => everApproved
              /\ x.seen \in {sess[s].seen, items, Nothing}
              /\ x.item \in {sess[s].item, {}}
         /\ left' \in Nat /\ bundle' \in Row
         /\ UNCHANGED <<items, reviewed, everApproved>> /\ ApprovalKept
  <1> DEFINE row == sess[s].row
  <1> DEFINE Good(x) == /\ x \in Session
                        /\ x.row.status = "approved" => everApproved
                        /\ x.stage \in RunStages => everApproved
                        /\ x.seen \in {sess[s].seen, items, Nothing}
                        /\ x.item \in {sess[s].item, {}}
  <1>1. /\ sess[s] \in Session /\ sess \in [Sessions -> Session]
        /\ row \in Row /\ bundle \in Row /\ items \in [Items -> ItemStatuses]
        /\ left \in Nat /\ Content \subseteq Items
        /\ row.status = "approved" => everApproved
        /\ sess[s].stage \in RunStages => everApproved
        /\ bundle.status = "approved" => everApproved
    BY DEF IInv, TypeOK, Session, SessionInv, SessionOK, ApprovedInv, Content
  <1>2. everApproved' = everApproved =>
          /\ bundle' = bundle => bundle' \in Row /\ ApprovalKept
          /\ \A new \in Row :
               Write(row, new) /\ (new.status = "approved" => everApproved)
                 => bundle' \in Row /\ ApprovalKept
    BY <1>1, WriteTyped DEF ApprovalKept
  <1>3. Good(Idle) /\ Good([Idle EXCEPT !.stage = "row", !.row = bundle])
    BY <1>1, IdleTyped DEF Idle, Session, NewRow, RunStages
  <1>4. CASE LoadRow(s)
    <2>1. left' \in Nat
      BY <1>1, <1>4 DEF LoadRow
    <2> HIDE DEF Good
    <2>2. \E x : Good(x) /\ sess' = [sess EXCEPT ![s] = x]
      BY <1>3, <1>4 DEF LoadRow
    <2> QED BY <1>2, <1>4, <2>1, <2>2 DEF LoadRow, Good
  <1>5. CASE Fail(s) \/ RunFails(s)
    <2> HIDE DEF Good
    <2>1. \E x : Good(x) /\ sess' = [sess EXCEPT ![s] = x]
      BY <1>3, <1>5 DEF Fail, RunFails
    <2> QED BY <1>1, <1>2, <1>5, <2>1 DEF Fail, RunFails, Good
  <1>6. CASE LoadItems(s)
    <2>1. Good([sess[s] EXCEPT !.stage = "items", !.seen = items])
      BY <1>1 DEF Session, RunStages
    <2>2. sess' = [sess EXCEPT ![s] = [sess[s] EXCEPT !.stage = "items", !.seen = items]]
      BY <1>1, <1>6 DEF LoadItems
    <2> QED BY <1>1, <1>2, <1>6, <2>1, <2>2 DEF LoadItems
  <1>7. CASE Start(s)
    <2> DEFINE x == [sess[s] EXCEPT !.stage = "started", !.row.status = "in_progress"]
               new == [row EXCEPT !.status = "in_progress"]
    <2>1. Good(x)
      BY <1>1, <1>7 DEF Start, Session, RunStages, Row, Statuses
    <2>2. sess' = [sess EXCEPT ![s] = x]
      BY <1>1, <1>7 DEF Start
    <2>3. new \in Row /\ new.status # "approved"
      BY <1>1 DEF Row, Statuses
    <2>4. Write(row, new)
      BY <1>7 DEF Start
    <2> HIDE DEF x, new
    <2> QED BY <1>1, <1>2, <1>7, <2>1, <2>2, <2>3, <2>4 DEF Start
  <1>8. CASE LoadRunItems(s)
    <2> DEFINE x == [sess[s] EXCEPT !.stage = "run", !.seen = items, !.todo = Content]
    <2>1. Good(x)
      BY <1>1, <1>8 DEF LoadRunItems, Session, RunStages
    <2>2. sess' = [sess EXCEPT ![s] = x]
      BY <1>1, <1>8 DEF LoadRunItems
    <2> HIDE DEF x
    <2> QED BY <1>1, <1>2, <1>8, <2>1, <2>2 DEF LoadRunItems
  <1>9. CASE update_bundle_progress(s)
    <2>1. PICK log \in Logs :
            /\ Write(row, [row EXCEPT !.log = log])
            /\ sess' = [sess EXCEPT ![s].stage = "run", ![s].row.log = log]
      BY <1>1, <1>9 DEF update_bundle_progress, Row, Logs
    <2> DEFINE x == [sess[s] EXCEPT !.stage = "run", !.row.log = log]
               new == [row EXCEPT !.log = log]
    <2>2. new \in Row /\ (new.status = "approved" => everApproved)
      BY <1>1 DEF Row
    <2>3. Good(x)
      BY <1>1, <1>9 DEF update_bundle_progress, Session, RunStages, Row
    <2>4. sess' = [sess EXCEPT ![s] = x]
      BY <1>1, <2>1
    <2>5. Write(row, new)
      BY <2>1
    <2> HIDE DEF x, new
    <2> QED BY <1>1, <1>2, <1>9, <2>2, <2>3, <2>4, <2>5 DEF update_bundle_progress
  <1>10. CASE Finish(s)
    <2> DEFINE new == [row EXCEPT !.status = "completed"]
    <2>1. new \in Row /\ new.status # "approved"
      BY <1>1 DEF Row, Statuses
    <2>2. Write(row, new)
      BY <1>10 DEF Finish
    <2> HIDE DEF new, Good
    <2>3. \E x : Good(x) /\ sess' = [sess EXCEPT ![s] = x]
      BY <1>3, <1>10 DEF Finish
    <2> QED BY <1>1, <1>2, <1>10, <2>1, <2>2, <2>3 DEF Finish, Good
  <1> QED BY <1>4, <1>5, <1>6, <1>7, <1>8, <1>9, <1>10

\* The two commits of _execute_bundle_item.  The second one overwrites whatever
\* became of the item since the first, but never an item still pending.
LEMMA ItemStep ==
  ASSUME IInv, NEW s \in Sessions,
         EndItem(s) \/ \E i \in Items : BeginItem(s, i)
  PROVE  /\ \E x \in Session :
              /\ sess' = [sess EXCEPT ![s] = x]
              /\ x.row = sess[s].row /\ x.seen = sess[s].seen
              /\ \A i \in x.item : items'[i] \notin Untouched
         /\ items' \in [Items -> ItemStatuses] /\ ItemsMove
         /\ UNCHANGED <<bundle, left, reviewed, everApproved>> /\ everApproved
  <1>1. /\ sess[s] \in Session /\ sess \in [Sessions -> Session]
        /\ items \in [Items -> ItemStatuses]
        /\ sess[s].stage \in RunStages => everApproved
        /\ \A i \in Items : sess[s].seen[i] \notin Untouched => items[i] \notin Untouched
        /\ \A i \in sess[s].item : items[i] \notin Untouched
    BY DEF IInv, TypeOK, SessionInv, SessionOK
  <1>2. CASE EndItem(s)
    <2> DEFINE x == [sess[s] EXCEPT !.stage = "patched", !.item = {}]
    <2>1. x \in Session /\ x.row = sess[s].row /\ x.seen = sess[s].seen /\ x.item = {}
      BY <1>1 DEF Session, RunStages
    <2>2. sess' = [sess EXCEPT ![s] = x]
      BY <1>1, <1>2 DEF EndItem
    <2>3. items' \in [Items -> ItemStatuses]
      BY <1>1, <1>2 DEF EndItem, ItemStatuses
    <2>4. ItemsMove
      BY <1>1, <1>2 DEF EndItem, ItemsMove, Untouched
    <2>5. UNCHANGED <<bundle, left, reviewed, everApproved>> /\ everApproved
      BY <1>1, <1>2 DEF EndItem, RunStages
    <2> HIDE DEF x
    <2> QED BY <2>1, <2>2, <2>3, <2>4, <2>5
  <1>3. ASSUME NEW i \in Items, BeginItem(s, i)
        PROVE  /\ \E x \in Session :
                    /\ sess' = [sess EXCEPT ![s] = x]
                    /\ x.row = sess[s].row /\ x.seen = sess[s].seen
                    /\ \A j \in x.item : items'[j] \notin Untouched
               /\ items' \in [Items -> ItemStatuses] /\ ItemsMove
               /\ UNCHANGED <<bundle, left, reviewed, everApproved>> /\ everApproved
    <2> DEFINE x == [sess[s] EXCEPT !.stage = "patching", !.todo = @ \ {i},
                                    !.item = {i}]
    <2>1. x \in Session /\ x.row = sess[s].row /\ x.seen = sess[s].seen /\ x.item = {i}
      BY <1>1 DEF Session, RunStages
    <2>2. sess' = [sess EXCEPT ![s] = x]
      BY <1>1, <1>3 DEF BeginItem
    <2>3. items' \in [Items -> ItemStatuses]
      BY <1>1, <1>3 DEF BeginItem, Put, ItemStatuses
    <2>4. items'[i] \notin Untouched
      BY <1>1, <1>3 DEF BeginItem, Put, Untouched
    <2>5. UNCHANGED <<bundle, left, reviewed, everApproved>> /\ everApproved
      BY <1>1, <1>3 DEF BeginItem, RunStages
    <2>6. ItemsMove
      BY <1>1, <1>3, <2>5 DEF BeginItem, Put, ItemsMove
    <2> HIDE DEF x
    <2> QED BY <2>1, <2>2, <2>3, <2>4, <2>5, <2>6
  <1> QED BY <1>2, <1>3

\* Whatever one session does, the others may go on relying on what they read.
LEMMA Conclude ==
  ASSUME IInv, TypeOK', ItemsMove, ApprovalKept, NEW s \in Sessions,
         \A t \in Sessions \ {s} : sess'[t] = sess[t],
         SessionOK(s)'
  PROVE  IInv'
  <1>1. \A i \in Items : items[i] \notin Untouched => items'[i] \notin Untouched
    BY DEF ItemsMove, Untouched
  <1>2. ASSUME NEW t \in Sessions, t # s PROVE SessionOK(t)'
    <2>1. SessionOK(t) /\ sess'[t] = sess[t] /\ sess[t].item \subseteq Items
      BY <1>2 DEF IInv, SessionInv, TypeOK, Session
    <2> QED BY <1>1, <2>1 DEF SessionOK, ApprovalKept
  <1>3. NothingDeployedUnapproved'
    BY DEF IInv, ApprovedInv, NothingDeployedUnapproved, ItemsMove, ApprovalKept, Untouched
  <1> QED BY <1>2, <1>3 DEF IInv, SessionInv, ApprovedInv, ApprovalKept

\* One step, by any session, keeps the invariant and moves the items as it may.
LEMMA OneStep ==
  ASSUME IInv, Next
  PROVE  IInv' /\ ItemsMove
  <1>1. PICK s \in Sessions :
          LoadRow(s) \/ LoadItems(s) \/ Answer(s) \/ Start(s) \/ Work(s) \/ Fail(s)
    BY DEF Next
  <1>2. /\ sess \in [Sessions -> Session] /\ items \in [Items -> ItemStatuses]
        /\ reviewed \subseteq Items /\ everApproved \in BOOLEAN
        /\ bundle \in Row /\ left \in Nat /\ SessionOK(s)
        /\ bundle.status = "approved" => everApproved
        /\ isolated \in BOOLEAN /\ isolated' = isolated
    BY DEF IInv, TypeOK, SessionInv, ApprovedInv, Next
  <1>3. CASE Answer(s)
    <2>1. /\ sess' = [sess EXCEPT ![s] = Idle] /\ left' = left
          /\ bundle' \in Row /\ items' \in [Items -> ItemStatuses]
          /\ reviewed' \subseteq Items /\ everApproved' \in BOOLEAN
          /\ ItemsMove /\ ApprovalKept
      BY <1>3, AnswerStep
    <2>2. TypeOK'
      BY <1>2, <2>1, IdleTyped DEF TypeOK
    <2>3. sess'[s] = Idle /\ \A t \in Sessions \ {s} : sess'[t] = sess[t]
      BY <1>2, <2>1
    <2>4. SessionOK(s)'
      BY <2>3 DEF SessionOK, Idle, NewRow, Nothing, RunStages, Untouched
    <2> QED BY <2>1, <2>2, <2>3, <2>4, Conclude
  <1>4. CASE \/ LoadRow(s) \/ LoadItems(s) \/ Fail(s) \/ Start(s) \/ LoadRunItems(s)
             \/ update_bundle_progress(s) \/ Finish(s) \/ RunFails(s)
    <2>1. /\ left' \in Nat /\ bundle' \in Row
          /\ UNCHANGED <<items, reviewed, everApproved>> /\ ApprovalKept
      BY <1>4, DeploymentStep
    <2>2. PICK x \in Session :
            /\ sess' = [sess EXCEPT ![s] = x]
            /\ x.row.status = "approved" => everApproved
            /\ x.stage \in RunStages => everApproved
            /\ x.seen \in {sess[s].seen, items, Nothing}
            /\ x.item \in {sess[s].item, {}}
      BY <1>4, DeploymentStep
    <2>3. TypeOK'
      BY <1>2, <2>1, <2>2 DEF TypeOK
    <2>4. sess'[s] = x /\ \A t \in Sessions \ {s} : sess'[t] = sess[t]
      BY <1>2, <2>2
    <2>5. SessionOK(s)'
      <3>1. \A i \in Items : x.seen[i] \notin Untouched => items[i] \notin Untouched
        BY <1>2, <2>2 DEF SessionOK, Nothing, Untouched
      <3>2. \A i \in x.item : items[i] \notin Untouched
        BY <1>2, <2>2 DEF SessionOK
      <3> QED BY <2>1, <2>2, <2>4, <3>1, <3>2 DEF SessionOK
    <2>6. ItemsMove
      BY <2>1 DEF ItemsMove
    <2> QED BY <2>1, <2>3, <2>4, <2>5, <2>6, Conclude
  <1>5. CASE EndItem(s) \/ \E i \in Items : BeginItem(s, i)
    <2>1. /\ items' \in [Items -> ItemStatuses] /\ ItemsMove
          /\ UNCHANGED <<bundle, left, reviewed, everApproved>> /\ everApproved
      BY <1>5, ItemStep
    <2>2. PICK x \in Session :
            /\ sess' = [sess EXCEPT ![s] = x]
            /\ x.row = sess[s].row /\ x.seen = sess[s].seen
            /\ \A i \in x.item : items'[i] \notin Untouched
      BY <1>5, ItemStep
    <2>3. TypeOK' /\ ApprovalKept
      BY <1>2, <2>1, <2>2 DEF TypeOK, ApprovalKept
    <2>4. sess'[s] = x /\ \A t \in Sessions \ {s} : sess'[t] = sess[t]
      BY <1>2, <2>2
    <2>5. \A i \in Items : items[i] \notin Untouched => items'[i] \notin Untouched
      BY <2>1 DEF ItemsMove, Untouched
    <2>6. SessionOK(s)'
      BY <1>2, <2>1, <2>2, <2>4, <2>5 DEF SessionOK
    <2> QED BY <2>1, <2>3, <2>4, <2>6, Conclude
  <1> QED BY <1>1, <1>3, <1>4, <1>5 DEF Work

-----------------------------------------------------------------------------
(* Theorems *)

\* A bundle as the optimizer or the asset page makes it.
LEMMA InitInv == Init => IInv
  <1> SUFFICES ASSUME Init PROVE IInv
    OBVIOUS
  <1>1. \A st \in Statuses : NewRow(st) \in Row
    BY DEF NewRow, Row, Approvers, Logs
  <1>2. TypeOK
    BY <1>1, IdleTyped, WorkflowAssumption DEF Init, TypeOK, Statuses, ItemStatuses
  <1>3. ApprovedInv
    BY DEF Init, NewRow, ApprovedInv, NothingDeployedUnapproved
  <1>4. SessionInv
    BY DEF Init, SessionInv, SessionOK, Idle, NewRow, Nothing, RunStages, Untouched
  <1> QED BY <1>2, <1>3, <1>4 DEF IInv

\* The inductive invariant holds of every behaviour of the bundle workflow.
THEOREM Inductive == Spec => []IInv
  <1>1. IInv /\ UNCHANGED vars => IInv'
    BY DEF vars, IInv, TypeOK, ApprovedInv, NothingDeployedUnapproved,
           SessionInv, SessionOK
  <1>2. IInv /\ [Next]_vars => IInv'
    BY <1>1, OneStep
  <1> QED BY InitInv, <1>2, PTL DEF Spec

\* The row, the items and the sessions keep their types, with any endpoints.
THEOREM Typing == Spec => []TypeOK
  <1>1. IInv => TypeOK
    BY DEF IInv
  <1> QED BY <1>1, Inductive, PTL

\* However the requests overlap, execute_bundle deploys nothing of a bundle
\* that nobody has approved.
THEOREM DeployedOnlyIfApproved == Spec => []NothingDeployedUnapproved
  <1>1. IInv => NothingDeployedUnapproved
    BY DEF IInv, ApprovedInv
  <1> QED BY <1>1, Inductive, PTL

\* However the requests overlap, an item leaves "pending" only by being taken
\* up by a deployment or deleted.
THEOREM ExecutionNotSkipped == Spec => NeverSkipsExecution
  <1>1. IInv /\ [Next]_vars =>
          [\A i \in Items : items[i] = "pending" =>
             items'[i] \in {"pending", "in_progress", "deleted"}]_vars
    <2>1. IInv /\ Next => \A i \in Items : items[i] = "pending" =>
            items'[i] \in {"pending", "in_progress", "deleted"}
      BY OneStep DEF ItemsMove
    <2> QED BY <2>1
  <1> QED BY <1>1, Inductive, PTL DEF Spec, NeverSkipsExecution

-----------------------------------------------------------------------------
(* If requests do not overlap, whatever deployments do meanwhile. *)

\* A request works alone, on the bundle as it is.
Alone ==
  /\ \A s, t \in Holding : s = t
  /\ \A s \in Holding : sess[s].row = bundle

\* A deployment believes the bundle in progress, and its items were made.
Believes(s) ==
  /\ s \in Running => sess[s].row.status = "in_progress"
  /\ \A i \in sess[s].todo \cup sess[s].item : items[i] # "unused"

JInv ==
  /\ TypeOK /\ Alone /\ \A s \in Sessions : Believes(s)
  /\ RowReviewed /\ ApprovedHasApprover

\* The status goes where BundleLifecycle lets a request take it.
Moves ==
  \/ bundle'.status = bundle.status
  \/ <<bundle.status, bundle'.status>> \in Lifecycle!Legal
  \/ "assign_window" \in Endpoints /\ bundle'.status = "scheduled"
  \/ "approve_request" \in Endpoints /\ bundle'.status = "approved"
  \/ "reject_request" \in Endpoints /\ bundle'.status = "cancelled"
  \/ "rollback" \in Endpoints /\ bundle'.status = "failed"

Promised == RowReviewed /\ ApprovedHasApprover

ItemsStay == \A i \in Items : items[i] # "unused" => items'[i] # "unused"

\* What is written back to the row that was read is the new row.
LEMMA WriteBack ==
  ASSUME bundle \in Row, NEW new \in Row, Write(bundle, new)
  PROVE  bundle' = new
  BY DEF Write, Put, Row

\* An edit leaves a bundle that waits for its approval.
LEMMA EditWithdraws ==
  ASSUME bundle \in Row, bundle.status \in Editable, Write(bundle, AfterEdit(bundle))
  PROVE  bundle'.status \notin {"approved", "in_progress"} /\ Moves
  <1>1. bundle' = AfterEdit(bundle)
    BY WriteBack, RowsTyped
  <1>2. /\ bundle.status = "approved" => AfterEdit(bundle).status = "draft"
        /\ bundle.status # "approved" => AfterEdit(bundle) = bundle
    BY DEF AfterEdit, WithoutApproval, Row
  <1> QED BY <1>1, <1>2 DEF Editable, Moves, Lifecycle!Legal

\* What a transition of the table does.
LEMMA Transitions ==
  ASSUME NEW old \in Statuses, NEW new \in Allowed[old]
  PROVE  new \in Statuses /\ (new = old \/ <<old, new>> \in Lifecycle!Legal)
  BY DEF Allowed, Statuses, Lifecycle!Legal

-----------------------------------------------------------------------------

\* A request that is answered keeps the promises about the bundle.
LEMMA AnswerKeeps ==
  ASSUME JInv, NEW s \in Sessions, Answer(s)
  PROVE  Promised' /\ Moves /\ ItemsStay
         /\ s \in Holding /\ sess' = [sess EXCEPT ![s] = Idle]
  <1>1. /\ bundle \in Row /\ bundle.status \in Statuses
        /\ items \in [Items -> ItemStatuses] /\ RowReviewed /\ ApprovedHasApprover
    BY DEF JInv, TypeOK, Row
  <1>2. /\ s \in Holding => sess[s].row = bundle
        /\ \A e \in AllEndpoints, stage \in {"row", "items"} :
             Reply(s, e, stage) =>
               e \in Endpoints /\ s \in Holding /\ sess' = [sess EXCEPT ![s] = Idle]
    BY DEF JInv, Alone, Reply, Holding
  <1>3. items' = items => ItemsStay /\ Content' = Content
    BY DEF ItemsStay, Content
  <1>4. ASSUME Reviewed, items' = items, bundle'.status = "approved",
               bundle'.approvedBy # "nobody"
        PROVE  Promised' /\ ItemsStay
    BY <1>3, <1>4 DEF Promised, RowReviewed, ApprovedHasApprover, Reviewed
  <1>5. ASSUME bundle'.status \notin {"approved", "in_progress"}
        PROVE  Promised'
    BY <1>5 DEF Promised, RowReviewed, ApprovedHasApprover
  <1>6. ASSUME NEW e \in AllEndpoints, NEW name \in Approvers \ {"nobody"},
               ApproveAs(s, e, name)
        PROVE  Promised' /\ ItemsStay /\ bundle'.status = "approved" /\ e \in Endpoints
               /\ s \in Holding /\ sess' = [sess EXCEPT ![s] = Idle]
    <2> DEFINE new == [bundle EXCEPT !.status = "approved", !.approvedBy = name]
    <2>1. e \in Endpoints /\ s \in Holding /\ sess' = [sess EXCEPT ![s] = Idle]
      BY <1>2, <1>6 DEF ApproveAs
    <2>2. new \in Row /\ new.status = "approved" /\ new.approvedBy = name
      BY <1>1 DEF Row, Statuses
    <2>3. Write(bundle, new)
      BY <1>2, <1>6, <2>1 DEF ApproveAs
    <2>4. bundle' = new
      BY <1>1, <2>2, <2>3, WriteBack
    <2> QED BY <1>4, <1>6, <2>1, <2>2, <2>4 DEF ApproveAs
  <1>7. CASE update_bundle_status(s)
    <2>1. s \in Holding /\ sess' = [sess EXCEPT ![s] = Idle]
      BY <1>2, <1>7 DEF update_bundle_status, AllEndpoints
    <2> DEFINE after(new) ==
          [bundle EXCEPT !.status = new,
                         !.approvedBy = IF new = "approved" THEN "system" ELSE @]
    <2>2. PICK new \in Allowed[bundle.status] :
            /\ Write(bundle, after(new)) /\ items' = items
            /\ IF new = "approved" THEN Reviewed ELSE Unreviewed
      BY <1>2, <1>7, <2>1 DEF update_bundle_status
    <2>3. new \in Statuses
      BY <1>1, Transitions
    <2>4. /\ after(new) \in Row /\ after(new).status = new
          /\ new = "approved" => after(new).approvedBy = "system"
      BY <1>1, <2>3 DEF Row, Approvers
    <2> HIDE DEF after
    <2>5. bundle' = after(new)
      BY <1>1, <2>2, <2>4, WriteBack
    <2>6. Moves
      BY <1>1, <2>4, <2>5, Transitions DEF Moves
    <2>7. CASE new = "approved"
      BY <1>4, <2>1, <2>2, <2>4, <2>5, <2>6, <2>7
    <2>8. CASE new = "in_progress"
      <3>1. bundle.status \in {"approved", "in_progress"}
        BY <1>1, <2>8 DEF Allowed, Statuses
      <3>2. Promised'
        BY <1>1, <1>3, <2>2, <2>4, <2>5, <2>8, <3>1
           DEF Promised, RowReviewed, ApprovedHasApprover, Unreviewed
      <3> QED BY <1>3, <2>1, <2>2, <2>6, <3>2
    <2>9. CASE new \notin {"approved", "in_progress"}
      BY <1>3, <1>5, <2>1, <2>2, <2>4, <2>5, <2>6, <2>9
    <2> QED BY <2>7, <2>8, <2>9
  <1>8. CASE assign_bundle_to_window(s)
    <2>1. /\ s \in Holding /\ sess' = [sess EXCEPT ![s] = Idle] /\ items' = items
          /\ "assign_window" \in Endpoints
      BY <1>2, <1>8 DEF assign_bundle_to_window, AllEndpoints
    <2>2. CASE Write(bundle, [bundle EXCEPT !.status = "scheduled"])
      <3>1. bundle'.status = "scheduled"
        BY <1>1, <2>2, WriteBack DEF Row, Statuses
      <3> QED BY <1>3, <1>5, <2>1, <3>1 DEF Moves
    <2>3. CASE Write(bundle, [bundle EXCEPT !.status =
                                IF @ = "scheduled" THEN "draft" ELSE @])
      <3>1. bundle.status = "scheduled" => bundle'.status = "draft"
        BY <1>1, <2>3, WriteBack DEF Row, Statuses
      <3>2. bundle.status # "scheduled" => bundle' = bundle
        BY <1>1, <2>3, WriteBack DEF Row, Statuses
      <3>3. UNCHANGED reviewed
        BY <1>8 DEF assign_bundle_to_window, Unreviewed
      <3>4. Promised'
        BY <1>1, <1>3, <2>1, <3>1, <3>2, <3>3
           DEF Promised, RowReviewed, ApprovedHasApprover
      <3> QED BY <1>3, <2>1, <3>1, <3>2, <3>4 DEF Moves, Lifecycle!Legal
    <2> QED BY <1>2, <1>8, <2>1, <2>2, <2>3 DEF assign_bundle_to_window
  <1>9. CASE add_bundle_item(s) \/ remove_bundle_item(s) \/ update_bundle(s)
    <2>1. s \in Holding /\ sess' = [sess EXCEPT ![s] = Idle]
      BY <1>2, <1>9
         DEF add_bundle_item, remove_bundle_item, update_bundle, AllEndpoints
    <2>2. bundle.status \in Editable /\ Write(bundle, AfterEdit(bundle))
      BY <1>2, <1>9, <2>1 DEF add_bundle_item, remove_bundle_item, update_bundle
    <2>3. ItemsStay
      BY <1>1, <1>9 DEF add_bundle_item, remove_bundle_item, update_bundle, ItemsStay
    <2> QED BY <1>1, <1>5, <2>1, <2>2, <2>3, EditWithdraws
  <1>10. CASE approve_bundle(s) \/ handle_approve_bundle(s) \/ approve_request(s)
    <2>1. /\ {"current_user", "AI Agent", "email"} \subseteq Approvers \ {"nobody"}
          /\ {"approve", "agent_approve", "approve_request"} \subseteq AllEndpoints
      BY DEF Approvers, AllEndpoints
    <2>2. CASE approve_request(s)
      BY <1>6, <2>1, <2>2 DEF approve_request, Moves
    <2>3. CASE approve_bundle(s) \/ handle_approve_bundle(s)
      <3>1. sess[s].row.status \in {"draft", "scheduled"}
        BY <2>3 DEF approve_bundle, handle_approve_bundle
      <3>2. /\ Promised' /\ ItemsStay /\ bundle'.status = "approved"
            /\ s \in Holding /\ sess' = [sess EXCEPT ![s] = Idle]
        BY <1>6, <2>1, <2>3 DEF approve_bundle, handle_approve_bundle
      <3>3. Moves
        BY <1>2, <3>1, <3>2 DEF Moves, Lifecycle!Legal
      <3> QED BY <3>2, <3>3
    <2> QED BY <1>10, <2>2, <2>3
  <1>11. CASE reject_request(s)
    <2>1. /\ s \in Holding /\ sess' = [sess EXCEPT ![s] = Idle] /\ items' = items
          /\ "reject_request" \in Endpoints
      BY <1>2, <1>11 DEF reject_request, AllEndpoints
    <2>2. Write(bundle, [bundle EXCEPT !.status = "cancelled"])
      BY <1>2, <1>11, <2>1 DEF reject_request
    <2>3. bundle'.status = "cancelled"
      BY <1>1, <2>2, WriteBack DEF Row, Statuses
    <2> QED BY <1>3, <1>5, <2>1, <2>3 DEF Moves
  <1>12. CASE rollback_bundle(s)
    <2>1. s \in Holding /\ sess' = [sess EXCEPT ![s] = Idle] /\ "rollback" \in Endpoints
      BY <1>2, <1>12 DEF rollback_bundle, RollBack, AllEndpoints
    <2>2. bundle' = [bundle EXCEPT !.status = Put(bundle.status, "failed", @),
                                   !.log = "list"]
      BY <1>2, <1>12, <2>1 DEF rollback_bundle, RollBack
    <2>3. bundle'.status = "failed"
      BY <1>1, <2>2 DEF Put, Row
    <2>4. ItemsStay
      BY <1>1, <1>12 DEF rollback_bundle, RollBack, ItemsStay
    <2> QED BY <1>5, <2>1, <2>3, <2>4 DEF Moves
  <1> QED BY <1>7, <1>8, <1>9, <1>10, <1>11, <1>12 DEF Answer

\* The rest of a session's steps leave the promises alone, and the status too
\* but for the start and the end of a deployment.
LEMMA SessionStep ==
  ASSUME JInv, NEW s \in Sessions, LoadRow(s) \/ LoadItems(s) \/ Start(s) \/ Work(s) \/ Fail(s)
  PROVE  Promised' /\ ItemsStay
  <1>1. /\ bundle \in Row /\ items \in [Items -> ItemStatuses]
        /\ sess[s] \in Session /\ sess[s].row \in Row /\ Believes(s)
        /\ s \in Holding => sess[s].row = bundle
        /\ RowReviewed /\ ApprovedHasApprover
    BY DEF JInv, TypeOK, Alone, Session
  <1>2. ASSUME UNCHANGED <<items, reviewed>>, bundle'.status = bundle.status,
               bundle'.approvedBy = bundle.approvedBy
        PROVE  Promised' /\ ItemsStay
    BY <1>1, <1>2 DEF Promised, RowReviewed, ApprovedHasApprover, ItemsStay, Content
  <1>3. CASE LoadRow(s) \/ LoadItems(s) \/ Fail(s) \/ LoadRunItems(s) \/ RunFails(s)
    BY <1>2, <1>3 DEF LoadRow, LoadItems, Fail, LoadRunItems, RunFails
  <1>4. CASE Start(s)
    <2>1. s \in Holding /\ bundle.status = "approved"
      BY <1>1, <1>4 DEF Start, Holding
    <2>2. Write(bundle, [bundle EXCEPT !.status = "in_progress"])
      BY <1>1, <1>4, <2>1 DEF Start
    <2>3. bundle'.status = "in_progress"
      BY <1>1, <2>2, WriteBack DEF Row, Statuses
    <2> QED BY <1>1, <1>4, <2>1, <2>3
            DEF Start, Promised, RowReviewed, ApprovedHasApprover, ItemsStay, Content
  <1>5. CASE \E i \in Items : BeginItem(s, i)
    <2>1. PICK i \in Items : BeginItem(s, i)
      BY <1>5
    <2>2. items[i] \notin Absent
      BY <1>1, <2>1 DEF BeginItem, Believes, Absent
    <2>3. Content' = Content /\ ItemsStay
      BY <1>1, <2>1, <2>2 DEF BeginItem, Put, Content, Absent, ItemsStay
    <2> QED BY <1>1, <2>1, <2>3
            DEF BeginItem, Promised, RowReviewed, ApprovedHasApprover
  <1>6. CASE EndItem(s)
    <2>1. \A i \in sess[s].item : items[i] \notin Absent
      BY <1>1, <1>6 DEF EndItem, Believes, Absent
    <2>2. Content' = Content /\ ItemsStay
      BY <1>1, <1>6, <2>1 DEF EndItem, Content, Absent, ItemsStay
    <2> QED BY <1>1, <1>6, <2>2
            DEF EndItem, Promised, RowReviewed, ApprovedHasApprover
  <1>7. CASE update_bundle_progress(s)
    <2>1. bundle'.status = bundle.status /\ bundle'.approvedBy = bundle.approvedBy
      BY <1>1, <1>7 DEF update_bundle_progress, Write, Put, Row
    <2> QED BY <1>2, <1>7, <2>1 DEF update_bundle_progress
  <1>8. CASE Finish(s)
    <2>1. sess[s].row.status = "in_progress"
      BY <1>1, <1>8 DEF Finish, Believes, Running, RunStages
    <2>2. bundle'.status = "completed"
      BY <1>1, <1>8, <2>1 DEF Finish, Write, Put, Row
    <2> QED BY <1>8, <2>2
            DEF Finish, Promised, RowReviewed, ApprovedHasApprover, ItemsStay
  <1> QED BY <1>3, <1>4, <1>5, <1>6, <1>7, <1>8 DEF Work

\* What becomes of the session that moves: it may start to work on the bundle
\* only if nobody does, and changes the bundle only then, or if nobody does.
LEMMA SessionMoves ==
  ASSUME isolated, JInv, NEW s \in Sessions,
         LoadRow(s) \/ LoadItems(s) \/ Start(s) \/ Work(s) \/ Fail(s)
  PROVE  \E x \in Session :
           /\ sess' = [sess EXCEPT ![s] = x]
           /\ x.stage \in {"row", "items"} => x.row = bundle' /\ Holding \subseteq {s}
           /\ bundle' # bundle => Holding \subseteq {s} /\ x.stage \notin {"row", "items"}
           /\ x.stage \in RunStages => x.row.status = "in_progress"
           /\ \A i \in x.todo \cup x.item : i \in Items /\ items[i] # "unused"
  <1>1. /\ bundle \in Row /\ items \in [Items -> ItemStatuses]
        /\ sess \in [Sessions -> Session] /\ sess[s] \in Session /\ sess[s].row \in Row
        /\ sess[s].todo \subseteq Items /\ sess[s].item \subseteq Items
        /\ s \in Holding => sess[s].row = bundle /\ Holding \subseteq {s}
        /\ s \in Running => sess[s].row.status = "in_progress"
        /\ \A i \in sess[s].todo \cup sess[s].item : items[i] # "unused"
        /\ Idle \in Session
        /\ Quiet(s) => Holding \subseteq {s}
    BY IdleTyped DEF JInv, TypeOK, Alone, Session, Believes, Quiet
  <1>2. /\ s \in Holding <=> sess[s].stage \in {"row", "items"}
        /\ s \in Running <=> sess[s].stage \in RunStages
    BY DEF Holding, Running
  <1> DEFINE Good(x) ==
        /\ x \in Session /\ sess' = [sess EXCEPT ![s] = x]
        /\ x.stage \in {"row", "items"} => x.row = bundle' /\ Holding \subseteq {s}
        /\ bundle' # bundle => Holding \subseteq {s} /\ x.stage \notin {"row", "items"}
        /\ x.stage \in RunStages => x.row.status = "in_progress"
        /\ \A i \in x.todo \cup x.item : i \in Items /\ items[i] # "unused"
  <1> SUFFICES \E x : Good(x)
    OBVIOUS
  <1>3. CASE Fail(s) \/ RunFails(s) \/ Finish(s)
    <2>1. Idle.stage \notin {"row", "items"} \cup RunStages /\ Idle.todo = {} /\ Idle.item = {}
      BY DEF Idle, RunStages
    <2>2. sess' = [sess EXCEPT ![s] = Idle] /\ (bundle' # bundle => Quiet(s))
      BY <1>3 DEF Fail, RunFails, Finish
    <2>3. Good(Idle)
      BY <1>1, <2>1, <2>2
    <2> QED BY <2>3
  <1>4. CASE LoadRow(s)
    <2> DEFINE x == [Idle EXCEPT !.stage = "row", !.row = bundle]
    <2>1. /\ x \in Session /\ x.stage = "row" /\ x.row = bundle
          /\ x.todo = {} /\ x.item = {} /\ "row" \notin RunStages
      <3>1. Idle.todo = {} /\ Idle.item = {}
        BY DEF Idle
      <3> QED BY <1>1, <3>1 DEF Session, RunStages
    <2>2. sess' = [sess EXCEPT ![s] = x] /\ bundle' = bundle /\ Quiet(s)
      BY <1>4 DEF LoadRow
    <2> HIDE DEF x
    <2>3. Good(x)
      BY <1>1, <2>1, <2>2
    <2> QED BY <2>3
  <1>5. CASE LoadItems(s)
    <2>1. Good([sess[s] EXCEPT !.stage = "items", !.seen = items])
      BY <1>1, <1>2, <1>5 DEF LoadItems, Session, RunStages
    <2> QED BY <2>1
  <1>6. CASE Start(s)
    <2>1. Good([sess[s] EXCEPT !.stage = "started", !.row.status = "in_progress"])
      BY <1>1, <1>2, <1>6 DEF Start, Session, Row, Statuses, RunStages
    <2> QED BY <2>1
  <1>7. CASE LoadRunItems(s)
    <2>1. Good([sess[s] EXCEPT !.stage = "run", !.seen = items, !.todo = Content])
      BY <1>1, <1>2, <1>7 DEF LoadRunItems, Session, RunStages, Content, Absent
    <2> QED BY <2>1
  <1>8. ASSUME NEW i \in Items, BeginItem(s, i)
        PROVE  \E x : Good(x)
    <2>1. Good([sess[s] EXCEPT !.stage = "patching", !.todo = @ \ {i}, !.item = {i}])
      BY <1>1, <1>2, <1>8 DEF BeginItem, Session, RunStages
    <2> QED BY <2>1
  <1>9. CASE EndItem(s)
    <2>1. Good([sess[s] EXCEPT !.stage = "patched", !.item = {}])
      BY <1>1, <1>2, <1>9 DEF EndItem, Session, RunStages
    <2> QED BY <2>1
  <1>10. CASE update_bundle_progress(s)
    <2>1. PICK log \in Logs :
            sess' = [sess EXCEPT ![s].stage = "run", ![s].row.log = log]
      BY <1>1, <1>10 DEF update_bundle_progress, Row, Logs
    <2> DEFINE x == [sess[s] EXCEPT !.stage = "run", !.row.log = log]
    <2>2. /\ x \in Session /\ x.stage = "run" /\ x.row.status = sess[s].row.status
          /\ x.todo = sess[s].todo /\ x.item = sess[s].item
      BY <1>1 DEF Session, Row, RunStages
    <2>3. sess' = [sess EXCEPT ![s] = x]
      BY <1>1, <2>1
    <2>4. Quiet(s) /\ s \in Running
      BY <1>2, <1>10 DEF update_bundle_progress, RunStages
    <2> HIDE DEF x
    <2>5. Good(x)
      BY <1>1, <2>2, <2>3, <2>4
    <2> QED BY <2>5
  <1> HIDE DEF Good
  <1> QED BY <1>3, <1>4, <1>5, <1>6, <1>7, <1>8, <1>9, <1>10 DEF Work

\* One step keeps the invariant.
LEMMA IsolatedStep ==
  ASSUME isolated, JInv, TypeOK', Next
  PROVE  JInv'
  <1>1. PICK s \in Sessions :
          LoadRow(s) \/ LoadItems(s) \/ Answer(s) \/ Start(s) \/ Work(s) \/ Fail(s)
    BY DEF Next
  <1>2. /\ sess \in [Sessions -> Session] /\ Idle \in Session
        /\ \A t \in Sessions : /\ sess[t] \in Session /\ Believes(t)
                               /\ sess[t].todo \subseteq Items /\ sess[t].item \subseteq Items
        /\ \A t \in Holding : sess[t].row = bundle /\ Holding \subseteq {t}
    BY IdleTyped DEF JInv, TypeOK, Alone, Session
  <1>3. /\ Promised' /\ ItemsStay
        /\ \E x \in Session :
             /\ sess' = [sess EXCEPT ![s] = x]
             /\ x.stage \in {"row", "items"} => x.row = bundle' /\ Holding \subseteq {s}
             /\ bundle' # bundle => Holding \subseteq {s} /\ x.stage \notin {"row", "items"}
             /\ x.stage \in RunStages => x.row.status = "in_progress"
             /\ \A i \in x.todo \cup x.item : i \in Items /\ items[i] # "unused"
    <2>1. CASE Answer(s)
      <3>1. Promised' /\ ItemsStay /\ s \in Holding /\ sess' = [sess EXCEPT ![s] = Idle]
        BY <2>1, AnswerKeeps
      <3>2. Idle.stage \notin {"row", "items"} \cup RunStages /\ Idle.todo = {} /\ Idle.item = {}
        BY DEF Idle, RunStages
      <3> QED BY <1>2, <3>1, <3>2
    <2> QED BY <1>1, <2>1, SessionStep, SessionMoves
  <1>4. PICK x \in Session :
          /\ sess' = [sess EXCEPT ![s] = x]
          /\ x.stage \in {"row", "items"} => x.row = bundle' /\ Holding \subseteq {s}
          /\ bundle' # bundle => Holding \subseteq {s} /\ x.stage \notin {"row", "items"}
          /\ x.stage \in RunStages => x.row.status = "in_progress"
          /\ \A i \in x.todo \cup x.item : i \in Items /\ items[i] # "unused"
    BY <1>3
  <1>5. sess'[s] = x /\ \A t \in Sessions \ {s} : sess'[t] = sess[t]
    BY <1>2, <1>4
  <1>6. \A t \in Sessions \ {s} : t \in Holding' <=> t \in Holding
    BY <1>5 DEF Holding
  <1>7. s \in Holding' <=> x.stage \in {"row", "items"}
    BY <1>5 DEF Holding
  <1>8. Alone'
    <2>1. Holding \subseteq Sessions /\ Holding' \subseteq Sessions
      BY DEF Holding
    <2>2. \A t, u \in Holding' : t = u
      BY <1>2, <1>4, <1>6, <1>7, <2>1
    <2>3. \A t \in Holding' : sess'[t].row = bundle'
      BY <1>2, <1>4, <1>5, <1>6, <1>7, <2>1
    <2> QED BY <2>2, <2>3 DEF Alone
  <1>9. \A t \in Sessions : Believes(t)'
    <2> SUFFICES ASSUME NEW t \in Sessions PROVE Believes(t)'
      OBVIOUS
    <2>1. t \in Running' <=> sess'[t].stage \in RunStages
      BY DEF Running
    <2>2. CASE t = s
      BY <1>3, <1>4, <1>5, <2>1, <2>2 DEF Believes, ItemsStay
    <2>3. CASE t # s
      BY <1>2, <1>3, <1>5, <2>1, <2>3 DEF Believes, ItemsStay, Running
    <2> QED BY <2>2, <2>3
  <1> QED BY <1>3, <1>8, <1>9 DEF JInv, Promised

\* The bundle as the optimizer or the asset page makes it keeps the promises.
LEMMA IsolatedInit == Init => JInv
  <1> SUFFICES ASSUME Init PROVE JInv
    OBVIOUS
  <1>1. TypeOK
    BY InitInv DEF IInv
  <1>2. \A s \in Sessions : sess[s] = Idle
    BY DEF Init
  <1>3. Idle.stage \notin {"row", "items"} \cup RunStages /\ Idle.todo = {} /\ Idle.item = {}
    BY DEF Idle, RunStages
  <1>4. Alone /\ \A s \in Sessions : Believes(s)
    BY <1>2, <1>3 DEF Alone, Believes, Holding, Running
  <1>5. RowReviewed /\ ApprovedHasApprover
    BY DEF Init, NewRow, RowReviewed, ApprovedHasApprover
  <1> QED BY <1>1, <1>4, <1>5 DEF JInv

-----------------------------------------------------------------------------
(* Theorems *)

\* If requests do not overlap, the invariant holds of every behaviour.
THEOREM IsolatedInvariance == Spec => [](isolated => JInv)
  <1>1. JInv /\ UNCHANGED vars => JInv'
    BY DEF vars, JInv, TypeOK, Alone, Believes, Holding, Running, RowReviewed,
           ApprovedHasApprover, Content
  <1>2. (isolated => JInv) /\ TypeOK' /\ [Next]_vars => (isolated => JInv)'
    <2>1. [Next]_vars => isolated' = isolated
      BY DEF Next, vars
    <2> QED BY <1>1, <2>1, IsolatedStep
  <1>3. Init => (isolated => JInv)
    BY IsolatedInit
  <1> QED BY <1>2, <1>3, Typing, PTL DEF Spec

\* If requests do not overlap, a bundle whose row says approved or in progress
\* has the items that were approved: every edit, rollback and crash keeps the
\* row and the items together, whatever deployments do meanwhile.
THEOREM ContentKeptReviewed == Spec => []ContentReviewed
  <1>1. (isolated => JInv) => ContentReviewed
    BY DEF JInv, ContentReviewed
  <1> QED BY <1>1, IsolatedInvariance, PTL

\* If requests do not overlap, an approved bundle names its approver.
THEOREM ApproverNamed == Spec => []ApproverKept
  <1>1. (isolated => JInv) => ApproverKept
    BY DEF JInv, ApproverKept
  <1> QED BY <1>1, IsolatedInvariance, PTL

\* A step of the workflow is one of the lifecycle, or changes nothing of it.
LEMMA LifecycleStep ==
  ASSUME isolated, JInv, Next
  PROVE  [Lifecycle!Next]_<<LoneStatus, LoneRunning>>
  <1>1. PICK s \in Sessions :
          LoadRow(s) \/ LoadItems(s) \/ Answer(s) \/ Start(s) \/ Work(s) \/ Fail(s)
    BY DEF Next
  <1>0. /\ LoneStatus = bundle.status /\ LoneStatus' = bundle'.status
        /\ LoneRunning = Running /\ LoneRunning' = Running'
    BY DEF Next, LoneStatus, LoneRunning
  <1>2. /\ sess \in [Sessions -> Session] /\ bundle \in Row /\ sess[s].row \in Row
        /\ s \in Holding => sess[s].row = bundle
        /\ s \in Running => sess[s].row.status = "in_progress"
    BY DEF JInv, TypeOK, Alone, Believes, Session
  <1>3. /\ s \in Running <=> sess[s].stage \in RunStages
        /\ s \in Holding <=> sess[s].stage \in {"row", "items"}
        /\ Idle.stage \notin RunStages /\ RunStages \cap {"row", "items", "idle"} = {}
    BY DEF Running, Holding, RunStages, Idle
  <1>4. ASSUME NEW x, sess' = [sess EXCEPT ![s] = x]
        PROVE  /\ x.stage \notin RunStages => Running' = Running \ {s}
               /\ x.stage \in RunStages => Running' = Running \cup {s}
    BY <1>2, <1>4 DEF Running
  <1>5. CASE Answer(s)
    <2>1. Moves /\ s \in Holding /\ sess' = [sess EXCEPT ![s] = Idle]
      BY <1>5, AnswerKeeps
    <2>2. Running' = Running
      BY <1>3, <1>4, <2>1
    <2>3. LoneRunning' = LoneRunning
      BY <1>0, <2>2
    <2>4. CASE <<bundle.status, bundle'.status>> \in Lifecycle!Legal
      <3>1. Lifecycle!Move
        BY <1>0, <2>3, <2>4 DEF Lifecycle!Move, Lifecycle!Become, Lifecycle!Legal
      <3> QED BY <3>1 DEF Lifecycle!Next
    <2> QED BY <1>0, <2>1, <2>3, <2>4
            DEF Moves, Lifecycle!Next, Lifecycle!AssignWindow, Lifecycle!ApproveRequest,
                Lifecycle!RejectRequest, Lifecycle!RollBack, Lifecycle!Become
  <1>6. CASE LoadRow(s) \/ LoadItems(s)
    <2>1. bundle' = bundle /\ s \notin Running
      BY <1>3, <1>6 DEF LoadRow, LoadItems
    <2>2. \E x : sess' = [sess EXCEPT ![s] = x] /\ x.stage \notin RunStages
      <3>1. CASE LoadRow(s)
        <4>1. [Idle EXCEPT !.stage = "row", !.row = bundle].stage = "row"
          BY DEF Idle
        <4> QED BY <1>3, <3>1, <4>1 DEF LoadRow
      <3>2. CASE LoadItems(s)
        <4>1. /\ sess' = [sess EXCEPT ![s] = [sess[s] EXCEPT !.stage = "items", !.seen = items]]
              /\ [sess[s] EXCEPT !.stage = "items", !.seen = items].stage = "items"
          BY <1>2, <3>2 DEF LoadItems, Session
        <4> QED BY <1>3, <4>1
      <3> QED BY <1>6, <3>1, <3>2
    <2> QED BY <1>0, <1>4, <2>1, <2>2
  <1>7. CASE Start(s)
    <2>1. s \in Holding /\ s \notin Running /\ bundle.status = "approved"
      BY <1>2, <1>3, <1>7 DEF Start
    <2>2. bundle'.status = "in_progress"
      BY <1>2, <1>7, <2>1 DEF Start, Write, Put, Row
    <2> DEFINE x == [sess[s] EXCEPT !.stage = "started", !.row.status = "in_progress"]
    <2>3. sess' = [sess EXCEPT ![s] = x] /\ x.stage \in RunStages
      BY <1>2, <1>7 DEF Start, Session, RunStages
    <2> HIDE DEF x
    <2>4. Running' = Running \cup {s}
      BY <1>4, <2>3
    <2> QED BY <1>0, <2>1, <2>2, <2>4 DEF Lifecycle!Next, Lifecycle!Start
  <1>8. CASE LoadRunItems(s) \/ (\E i \in Items : BeginItem(s, i)) \/ EndItem(s)
             \/ update_bundle_progress(s)
    <2>1. s \in Running
      BY <1>3, <1>8 DEF LoadRunItems, BeginItem, EndItem, update_bundle_progress, RunStages
    <2>2. bundle'.status = bundle.status
      <3>1. CASE update_bundle_progress(s)
        <4>1. PICK log : Write(sess[s].row, [sess[s].row EXCEPT !.log = log])
          BY <3>1 DEF update_bundle_progress
        <4> QED BY <1>2, <4>1 DEF Write, Put, Row
      <3>2. CASE ~ update_bundle_progress(s)
        BY <1>8, <3>2 DEF LoadRunItems, BeginItem, EndItem
      <3> QED BY <3>1, <3>2
    <2>3. \E x : sess' = [sess EXCEPT ![s] = x] /\ x.stage \in RunStages
      <3>1. sess[s] \in Session
        BY <1>2
      <3>2. CASE LoadRunItems(s)
        <4> DEFINE x == [sess[s] EXCEPT !.stage = "run", !.seen = items, !.todo = Content]
        <4>1. sess' = [sess EXCEPT ![s] = x]
          BY <3>2 DEF LoadRunItems
        <4>2. x.stage = "run"
          BY <3>1 DEF Session
        <4> QED BY <4>1, <4>2 DEF RunStages
      <3>3. CASE \E i \in Items : BeginItem(s, i)
        <4>1. PICK i \in Items : BeginItem(s, i)
          BY <3>3
        <4> DEFINE x == [sess[s] EXCEPT !.stage = "patching", !.todo = @ \ {i}, !.item = {i}]
        <4>2. sess' = [sess EXCEPT ![s] = x]
          BY <4>1 DEF BeginItem
        <4>3. x.stage = "patching"
          BY <3>1 DEF Session
        <4> QED BY <4>2, <4>3 DEF RunStages
      <3>4. CASE EndItem(s)
        <4> DEFINE x == [sess[s] EXCEPT !.stage = "patched", !.item = {}]
        <4>1. sess' = [sess EXCEPT ![s] = x]
          BY <3>4 DEF EndItem
        <4>2. x.stage = "patched"
          BY <3>1 DEF Session
        <4> QED BY <4>1, <4>2 DEF RunStages
      <3>5. CASE update_bundle_progress(s)
        <4>1. PICK log : sess' = [sess EXCEPT ![s].stage = "run", ![s].row.log = log]
          BY <3>5 DEF update_bundle_progress
        <4> DEFINE x == [sess[s] EXCEPT !.stage = "run", !.row.log = log]
        <4>2. sess' = [sess EXCEPT ![s] = x]
          BY <4>1
        <4>3. x.stage = "run"
          BY <3>1 DEF Session
        <4> QED BY <4>2, <4>3 DEF RunStages
      <3> QED BY <1>8, <3>2, <3>3, <3>4, <3>5
    <2>4. Running' = Running
      BY <1>4, <2>1, <2>3
    <2> QED BY <1>0, <2>2, <2>4
  <1>9. CASE Finish(s) \/ RunFails(s) \/ Fail(s)
    <2>1. Running' = Running \ {s}
      BY <1>3, <1>4, <1>9 DEF Finish, RunFails, Fail
    <2>2. CASE Finish(s)
      <3>1. s \in Running
        BY <1>3, <2>2 DEF Finish, RunStages
      <3>2. bundle'.status = "completed"
        BY <1>2, <2>2, <3>1 DEF Finish, Write, Put, Row
      <3> QED BY <1>0, <2>1, <3>1, <3>2 DEF Lifecycle!Next, Lifecycle!Finish
    <2>3. CASE RunFails(s) \/ Fail(s)
      <3>1. bundle' = bundle
        BY <2>3 DEF RunFails, Fail
      <3>2. s \notin Running => Running' = Running
        BY <2>1
      <3> QED BY <1>0, <2>1, <3>1, <3>2 DEF Lifecycle!Next, Lifecycle!Die
    <2> QED BY <1>9, <2>2, <2>3
  <1> QED BY <1>1, <1>5, <1>6, <1>7, <1>8, <1>9 DEF Work

\* If requests do not overlap, the workflow implements the lifecycle of a
\* bundle's status, with whatever endpoints are in use: only those that never
\* look at the table, and the end of a deployment, take the status outside it.
THEOREM WorkflowImplementsLifecycle == Spec => ImplementsLifecycle
  <1>1. Init => Lifecycle!Init
    <2> SUFFICES ASSUME Init PROVE Lifecycle!Init
      OBVIOUS
    <2>1. bundle.status \in {"draft", "scheduled"}
      BY DEF Init, NewRow
    <2>2. Idle.stage \notin RunStages
      BY DEF Idle, RunStages
    <2>3. Running = {}
      BY <2>2 DEF Init, Running
    <2> QED BY <2>1, <2>3 DEF Lifecycle!Init, LoneStatus, LoneRunning
  <1>2. (isolated => JInv) /\ [Next]_vars => [Lifecycle!Next]_<<LoneStatus, LoneRunning>>
    <2>1. UNCHANGED vars => UNCHANGED <<LoneStatus, LoneRunning>>
      BY DEF vars, LoneStatus, LoneRunning, Running
    <2>2. ~ isolated /\ Next => UNCHANGED <<LoneStatus, LoneRunning>>
      BY DEF Next, LoneStatus, LoneRunning
    <2> QED BY <2>1, <2>2, LifecycleStep
  <1> QED BY <1>1, <1>2, IsolatedInvariance, PTL
          DEF Spec, ImplementsLifecycle, Lifecycle!Spec
=============================================================================
