# A formal model of Glasswatch

Glasswatch decides which patches to deploy, when, and with whose approval, and
deploys them. The backend (`src/backend`) is a FastAPI service over PostgreSQL
and Redis; the frontend only calls it. This directory holds TLA+ models of the
parts of the backend where order, failure or arithmetic matters, TLC
configurations that check them on small instances, and TLAPS proofs of what
holds for instances of any size.

    tlc -workers 2 -config MCApprovalRequests.cfg MCApprovalRequests.tla
    tlapm ApprovalRequestsProofs.tla

`PROJECT.json` lists the runs, maps every definition to the source lines it
models, names for every property a changed definition that breaks it, and lists
the hazards of the code and the theorems.

## The system

All handlers are coroutines that run concurrently, in one process or several.
Each has a database session of its own (`db/session.py`): it SELECTs, decides in
memory, and commits. There are no row locks and no version columns, the level is
READ COMMITTED, `expire_on_commit=False` keeps a loaded row as it was across
commits, and the unit of work writes only columns whose value differs from the
loaded one. Much of what is hard about this program follows from that. The rest
comes from state outside the database (dictionaries of a process, Redis, files)
and from what fails halfway.

| component | state | operations | hard behaviour | what makes it correct |
|---|---|---|---|---|
| Approval workflow: `approval_service.py`, `approvals.py` | policies, requests with a counter, votes | create, approve, reject; policies | overlapping votes; a policy that changes after the request | approved means a quorum of different people |
| Bundle workflow: `bundles.py`, `agent.py` | status, approver, log, items | status changes, windows, items, approval, rollback | five modules write the status; every check is on a stale row | nothing is deployed without an approval; an approved row goes with its items and its approver |
| Deployment: `deployment_service.py` | the same rows | start, item by item, progress, finish | reads once, commits after every step; crashes | starts from approved only; ends |
| Maintenance windows: `maintenance_windows.py` | windows and their bundles | create, recur, delete, assign | capacity checked before the commit that uses it | the load fits; deleting spares what is scheduled |
| Rule engine: `rule_engine.py`, `rules.py` | rules | create, change, delete, evaluate | month and quarter ends; precedence | the dates mean what they say; rules only restrict |
| Optimizer: `optimization.py` | a plan | heuristic, constraint model | capacity arithmetic; first window | limits kept; greedy by risk |
| Goals: `goals.py`, `models/goal.py` | goals | create, update, optimize, recommend, delete | endpoints and class disagree on names | what can be stored of a goal |
| Snapshots and rollback: `snapshot_service.py` | snapshots, rollback records | capture, initiate, execute | two commits, deaths between; later snapshots | once, to the original, and it ends |
| Inventory: `webhooks.py`, `import_api.py`, `assets.py`, `orchestrator.py` | assets, vulnerabilities, findings | deliveries, imports, deletion | redelivery, overlap, a constraint fails the whole unit of work | what was acknowledged is kept |
| Accounts: `auth.py`, `invites.py`, `users.py` | users, invites | register, log in, invite, accept, administer | check and use of an invite; administrators against each other | one account per invite; an administrator remains |
| Tenant settings: `settings.py`, `slack.py`, `slack_service.py` | a JSON document | update, reset, connect | deep merge; a document changed in place | what was answered is stored |
| Connections: `connections.py`, `connection_health.py` | connections | create, edit, delete, test | two tables of required fields for ten providers | the shown verdict is that of the last test |
| Comments and activities: `comments.py`, `activities.py`, `collaboration_service.py` | comments, reactions, feed | comment, edit, delete, react, read | an edit meets a deletion | deleted stays deleted, read stays read |
| Tags: `tags.py`, `assets.py` | catalogue, labels of assets | create, merge, add, remove, bulk | four endpoints write the whole list | the labels follow the requests, merging apart |
| Rate limiting: `rate_limiter.py` | a sorted set per key | check | count and insertion apart; late and equal times; fallback | at most the limit of different times, and how many more |
| Backups: `backup_service.py`, `backup_cli.py` | files, an index | create, verify, prune | processes overlap, crash while rewriting | something to restore; the index is true |
| Discovery and auto-sync: `discovery.py`, `auto_sync.py`, scanners | scan rows, memory, a job | scan, configure | memory ahead of rows; failures between steps | what is reported was committed |
| Notifications: `notifications.py` | rows, results | send, read | one channel fails | the others are told; what is reported as stored is |
| Cache: `cache_service.py` | entries in Redis | get, set, invalidate | a value computed before a write is stored after it | how stale a value can be |
| Alerts: `core/alerts.py` | rules, last alerts, counts | evaluate, change rules | overlapping evaluations around awaits | a cooldown apart; escalation |
| Error tracking, circuit breaker: `error_service.py` | groups, rates, circuits | track, call | severity against cooldown; late answers | trouble is heard; few probes |
| Scoring: `scoring.py` | none | score, recommend | clamps, precedence of rules | worse never scores lower |
| Simulation, reporting, export, dashboards | none | queries | – | – |
| Onboarding, audit log, metrics | flags, write-only rows | – | – | – |
| Frontend, manifests, migrations | – | – | – | – |

Interaction: approval service, chat agent, bundle endpoints and deployment all
write `bundles.status`, and only through the database. The asset page creates
bundles; the rule engine and a window's capacity may refuse a request.
Notifications, audit entries, metrics and alerts are written and never read back
by the workflow. The scheduler starts nothing that works (see below), and the
libraries for caching, alerts, error tracking and the in-process rate limit are
wired to no handler: they are modelled as they stand.

## Modules

**Approval and deployment**, composed through the bundle's row.

- `ApprovalRequests` — one action is one SELECT or one commit of a session:
  `LoadRequest`, `LoadVotes` (with the checks that follow it in
  `approve_request`), `LoadBundle`, `CommitApprove`; `LoadRejected`,
  `CommitReject`; `CreateRequest`; `CreatePolicy`, `UpdatePolicy`; `Deadline` is
  the passing of `expires_at`, `Abort` any error or death of a handler. Every
  decision is taken on `sess[s].row`, the request as the session loaded it.
- `BundleLifecycle` — what a bundle's status does seen from outside: it moves by
  the table of legal transitions (`VALID_TRANSITIONS`), a deployment starts from
  `approved`, and the writers that never look at the table have an action each:
  `AssignWindow`, `ApproveRequest`, `RejectRequest`, `RollBack`, each only if
  `Overriding` names it, and `Finish`, the end of a deployment.
- `BundleWorkflow` — one bundle row, its items and the sessions working on them.
  A request is `LoadRow` (and `LoadItems`) followed by the commit of its handler,
  an action named after it, or by `Fail`. A deployment is `Start`,
  `LoadRunItems`, then `BeginItem`, `EndItem`, `update_bundle_progress` for each
  item, and `Finish`: one action per commit. `reviewed` and `everApproved` are
  history: no action reads them. `isolated` is chosen at the start, from `Modes`:
  if it is true, a request that has read its row is answered before anything
  else happens.

The first shows on what grounds the approval service writes the bundle's status
(`approve_request`, `reject_request`), the second what that write does to
everything else, at any moment.

**When to deploy**, composed by `MCPlanning`.

- `WindowCapacity` — windows and the bundles in them: both ways to assign, the
  two creations, deletion, with sessions overlapping.
- `PlanLimits`, `Optimizer` — the promise made of a plan, and the heuristic (one
  action per iteration of its loop) and constraint model that keep it.
- `RuleEngine` — rules, their scope and conditions, the calendar arithmetic,
  the verdict on each day.
- `Goals` — the endpoints of goals over what the class lets them assign.

**Services around the workflow**, composed by `MCServices`:
`SnapshotRollback`, `Inventory`, `Accounts`, `TenantSettings`, `Connections`,
`Collaboration`, `Tags` (all `EXTENDS Requests`), and `RateLimiter`, `Backups`,
`Discovery`, `Scanners`, `Notifications`, `Cache`, `Alerts`, `ErrorTracking`,
`CircuitBreaker`, `Scoring`.

`Requests` is the handler common to these: `ReadBy` keeps the tables a session
has read in `seen[s]`, the handler's action decides on that copy and changes the
tables as they are now, `EndOf` ends it; `Refused…` actions are the early
returns. It is coarser than `BundleWorkflow`: a handler's SELECTs are taken to be
one moment. Each module's header says what it keeps of a row and what it leaves
out; each action is named after the function it models.

Parts of `MCPlanning` and of `MCServices` share no state. A behaviour is one of a
single part, chosen at its start (`part`), while the variables of the others keep
a fixed value: a product of independent systems would show nothing more. Where
components do share state they are one module (`Inventory` for webhooks,
imports, assets and discovery; `TenantSettings` for settings and Slack; `Tags`
for the catalogue and the assets' labels).

The proofs: `ApprovalRequestsProofs` and `BundleWorkflowProofs` for approval and
deployment, `OptimizerProofs` and `PlanningProofs` for when to deploy, and for
the services `AccountsProofs`, `RequestProofs` (the other modules that extend
`Requests`), `ServiceProofs` and, for all of them together, `MCServicesProofs`.

## What the runs show

| run | instance | shows |
|---|---|---|
| `approval` | an approver and a delegate, 2 sessions, 2 requests about one bundle, 3 policy bodies | `FourEyes`, `CountKept`, `ApprovedBundleHasQuorum` under every interleaving |
| `bundle` | all endpoints, 2 items, 2 sessions, crashes, 7 requests; in one mode they overlap in every way, in the other each request is alone while deployments overlap with everything | `NothingDeployedUnapproved` and `NeverSkipsExecution`, however stale the rows; `ContentReviewed` and `ApproverKept` while requests do not overlap |
| `bundle_liveness` | approve, execute, add, edit, status, reject; no crashes; both modes, 5 requests | `RunSettlesBundle`: every deployment ends, and not in `in_progress`, whatever overlaps; `ImplementsLifecycle`: while requests do not overlap the status moves by `BundleLifecycle`, of whose overriding writers only `reject_request` is in use here |
| `planning` | 2 windows, 3 bundles, 4 overlapping requests; 3 vulnerabilities, 3 windows, all scores, limits, lengths and solvers; 2 rules of 6 bodies on every day of two years; 2 goals, 3 requests | see below |
| `services` | 2 sessions, 6 requests, 2 of most rows; for the others as below | see below |
| `approval_lost_update` | 2 users, 1 request | `QuorumDecides` is violated |
| `bundle_retry` | 1 client, 1 item | `RunSettlesBundle` is violated once rollback is used |
| `bundle_rollback` | 1 client, 1 item | `RollbackNeedsDeployment` is violated |
| `bundle_approver` | 3 overlapping sessions | `ApprovedHasApprover` is violated when requests overlap |
| `bundle_unreviewed` | 2 sessions, requests one after the other | `DeploysReviewed` is violated |
| `goal_creation` | 1 goal that is asked for | `CreatedGoalsAppear` is violated |
| `slack_connect` | 1 client | `SlackFollows` is violated |

`planning`:

- `WindowsKept`: a window is overcommitted by at most one bundle for each
  overlapping request, by nothing without overlap; deleting a window takes no
  scheduled or approved bundle off it.
- `PlanWithinLimits`, `GreedyByRisk`, `ImplementsPlanLimits`: no vulnerability is
  in two windows and no window over its limits, but for the one vulnerability the
  heuristic puts into a window it moves on to; it takes by falling score
  whatever there is room for.
- `CalendarAgrees`: the tests on month and quarter ends mean what they say for
  every day and every N up to 30; `RulesOnlyRestrict`: another rule makes no
  verdict milder.

`services`:

- `RollbackOnceToOriginal`, `RollbackSettles`: a rollback runs once (once more
  per overlapping request), to the state before the first patching, and ends
  unless its process dies.
- `FindingsKept`: every finding that a delivery acknowledged is stored, until its
  asset or vulnerability is deleted, and no finding outlives its ends. What a
  Tenable delivery counts without storing it is not among them (see "Met while
  reading").
- `InviteUsedOnce`, `AccessKept`: one account per invite however acceptances
  overlap, nobody by a deleted invite; an administrator remains if
  administrators act one at a time.
- `UpdatesKept`, `ConnectionVerdicts`, `TagsFollow`: with one client, settings,
  verdicts and labels are those of the last request that named them; but for
  the labels of a tag that was merged, which the code leaves as they were.
- `DeletionIsFinal`: no overlap brings back a comment or an unread entry.
- `WithinLimit`: the calls let through within a window are made at no more
  different times than the limit allows, and at two more for each further caller
  if calls overlap. Calls at the same time are one entry of the window, and as
  many as there are callers may pass as one.
- `BackupsUsable`: the newest whole backups are never pruned; the index agrees
  with the files if commands run one by one and none dies.
- `MemoryAgrees`, `ScanSettles`: what memory says of a scan or schedule is
  stored; a scan ends.
- `NothingMissedSilently`: a scan of any of the ten scanners that reports no
  error has stored, under its identifier, every resource of each place it went
  to. Resources with the same identifier are stored as one asset, only first
  pages are read, and a project list that fails is silently empty for GCP: the
  property says nothing of what is lost that way.
- `InAppAlways`: a failing channel keeps no notification from the table, and what
  the result reports as stored is. The converse is false: a refresh that fails
  after the commit leaves a row and reports a failure.
- `FreshEnough`: a value is at most its time to live plus the length of the call
  that stored it out of date.
- `AlertsDisciplined`: alerts of a rule are a cooldown apart and escalate from
  the fourth; with n overlapping evaluations at most 1 + 2 + … + n fall into a
  cooldown, and the escalation is at most n − 1 alerts late.
- `TroubleIsHeard`: a critical error, or one too many, has a notification of its
  group within the cooldown before it.
- `FewProbes`: a service under test gets at most one call more than allowed.
- `WorseNeverLower`: a finding that gets worse scores no lower and is no less
  urgent, over all combinations of factors.

### Bounds

Two sessions are what a race between a read and a commit needs, and a quorum of
two is the smallest one that a person could fill alone; three only matter for
`bundle_approver`, where two earlier requests set the scene. Two requests about
one bundle let a decision on one meet a decision on the other; two items let a
deployment be between items. `MaxRequests` bounds the length of behaviours: six
requests suffice to approve, execute, roll back, redraft, approve and execute
again, and in `bundle` the seventh interferes. The approval run needs no bound:
every table is finite.

In `planning`, `WindowMinutes = 30` with bundles of 30 minutes makes a window
full with one and overcommitted with two; three vulnerabilities, three windows,
lengths of 20 and 90 minutes and limits of 1 and 2 make windows too short, just
long enough, and left over; two years contain a leap year. In `services` three
or four requests are enough for comments, connections and tags to be created,
changed, met by another and deleted (`Bound`), the other tables get six; two
overlapping callers with a limit of 1, a window of 4 and times up to 5 can pass
at one time more than the bound, if it did not hold, and leave the window; three
backups with `Keep = 1` prune twice; two scans overlap once; seven calls open,
half-open and close the circuit with late answers; three errors around the
20-second window and cooldown meet them from both sides; two evaluations of one
rule with a cooldown of 1 repeat and escalate. Each constant that is only a bound
is named so where it is declared. A behaviour stops when its requests are used
up, so that deadlock is checked only in the unbounded `approval` run.

Items, sessions, bundles, windows, and in the approval run requests and
policies, are interchangeable and reduced by symmetry, in the runs without
liveness only.

### Isolation and faults

What holds only if requests do not overlap is stated so, by a variable or
constant which is chosen at the start and that no code writes: `isolated`
(`BundleWorkflow`, `Requests`), `sequential` (scans), `serial` (rate
limiter), `exclusive` (backup commands), `alone` (cache), `oneByOne` (alerts).
The same properties give, where there is one, the bound under overlap. Likewise
`deaths`, `crashes`, `faults`, `failures` say whether processes, sessions and
Redis may fail, and `outage` records that Redis did, the limiter letting every
call through then. A deployment is not isolated in `BundleWorkflow`: any request
may run between two of its commits.

### Fairness

`FairSpec` of `BundleWorkflow` assumes weak fairness of a deployment's own steps
and of nothing else: it is a coroutine that awaits the database and a fixed
sleep, and no lock or message. Clients need not send requests. That a
request which has read its row is answered or fails is assumed where `isolated`
is true only, because everything else, a deployment included, waits for it
there; where requests overlap nothing does. Crashes are excluded there, because
nothing in the code takes up a deployment after one. `MCServices` assumes it of
`finish_rollback`, the rest of a coroutine whose first commit is made, and of
`DiscoveryTask`, a background task of the same process. The properties exempt
behaviours with deaths and failed sessions, after which nothing retries.

### Findings

1. Overlapping approvals are lost from the counter
   (`approval_service.py:191`): both votes are recorded, the counter says one, the
   request stays pending and both users are refused a second vote.
2. A bundle that was rolled back cannot be deployed again
   (`deployment_service.py:314`): rollback leaves a list in `execution_log`, the
   progress update indexes it with a string, and the deployment dies with the
   bundle `in_progress`, although `VALID_TRANSITIONS` allows the retry.
3. Rollback has no status guard (`bundles.py:882-928`): a draft becomes failed,
   which `tests/integration/test_api_bundles.py:187-191` says it should not.
4. An approval that overlaps with an edit can leave the bundle approved by
   nobody (`bundles.py:837`): the name is unchanged from the loaded one and is
   therefore not written, while the edit has cleared it.
5. Connecting or disconnecting Slack stores nothing (`slack_service.py:155`): the
   settings document is changed in place, which a plain JSON column does not
   notice.
6. A deployment can patch what nobody approved (`bundles.py:507`,
   `deployment_service.py:121`), even if requests never overlap: it commits
   `in_progress` before it loads the items, a window that is assigned in between
   writes `scheduled` over that, the bundle can be edited again, and the item
   which is added withdraws no approval, is loaded and is deployed. What holds is
   `ContentReviewed`: as long as the row says that it is approved or in progress,
   its content is what was approved.
7. No goal can be created (`goals.py:213`): the endpoint assigns names the class
   has as properties without a setter, or not at all.

### Met while reading

The model does what the code does here; no run is spent on it.

- Goals: updating anything but name, description and tolerance, recommending and
  deleting end in 500, optimizing always answers that it failed, and the
  listing fails on the database's default tolerance, "MEDIUM". The solver's
  objective is smallest for the empty plan.
- Scanners: Trivy and nmap always fail under the orchestrator, which gives no
  target; vulnerabilities they find are not stored; EC2, RDS, ECS, EKS, Cloud SQL,
  Jira and ServiceNow are read one page deep; what a scan finds is stored
  by an identifier that need not be unique, and the others are lost without an
  error: names without their place (RDS, Lambda, Cloud SQL, ECS, EKS, racks
  without building and room, addresses of networks), which are also the same for
  different kinds, and bare numbers (devices of Device42, objects of Jira); an
  unknown CloudQuery provider finds nothing, without an error; a project list
  that fails counts as empty for GCP. What Jira has read before an error is
  kept, the rest of its pages is not asked for, and the error is reported.
- Assets: deleting one is to take "an asset and its vulnerability associations"
  (`assets.py:689`), and a comment says that it cascades (`:704`); with any
  finding it fails on the foreign key, is answered with 500 and deletes nothing.
- Webhooks: a Tenable detection on an asset that the delivery does not list is
  counted as processed, and no finding is stored of it.
- Rate limiting: "Atomic operations ensure accuracy" (`rate_limiter.py:17`), but
  counting and adding are two transactions, and calls at the same time are one
  member of the set.
- Bundles: four writers of the status and the end of a deployment do not look at
  `VALID_TRANSITIONS` (`bundles.py:179-191`), so that "completed" and
  "cancelled" are not final: an assigned window, an approval or a rejection of a
  request, and a rollback follow any status. A rollback during a deployment is
  overwritten by its end.
- The scheduled scan imports a name that does not exist and ends at once.
- Notifications: the notification of a ready bundle is called with arguments it
  does not take (`bundles.py:283`, `:516`) and is never sent; Teams, email and
  the webhook are in no list of channels; a broadcast row has one `read` for all;
  the row of a notification is committed before it is refreshed
  (`notifications.py:404-405`), so that a failing refresh stores it and reports
  that it was not.
- Comments: a user mentioned twice is notified twice, an ambiguous name is a 400,
  an author's own comment counts as unread, replies to replies are not shown.
- Tags: merging drops the aliases of the source and changes no asset, though it
  "updates all entity references" (`tags.py:306`; a TODO at `:331` admits it);
  merging a tag with itself deletes it and fails;
  `usage_count` is written by merging alone.
- Onboarding: saving a step fails for every input.
- Approval: a second policy of a risk level, which the API lets one create,
  makes every look-up raise; the mark of an expired request is rolled back with
  the error that reports it; nothing calls `check_expired_requests`. The audit
  entry of a deployment uses column names the table does not have.
- Alerts: a comment says the third occurrence escalates, the code the fourth; a
  failed sending starts the cooldown as well. Error tracking: a "5 % error
  rate" is errors per second. Cache: a string that parses as JSON comes back as
  what it parses to; a Redis absent at start-up is never used later. Simulator:
  no check can say "fail".

## What is proved

For every value of the constants, from the named assumptions of the modules.
All safety properties of the passing runs are among it.

`ApprovalRequestsProofs` (requests are about a bundle, policies require at least
one approval, users are finite): `Typing`, `FourEyesHolds`, `CountIsKept`,
`ApprovedBundles`. None of the last three is inductive: `CommitApprove` adds one to
a *stale* counter, and the properties speak only of what is stored. `IInv` adds
what a session may rely on (`CopyOK`): its copy has the terms of the stored
request, the counter of its copy is backed by approvals on record, and once it
is past the duplicate check those approvals and its own user are at least one
more than that counter. Votes are never removed and terms never change, hence
each of these facts, once true of a session, survives every step of the others
(`ApproversGrow`, `OtherSession`, `StepElsewhere`).

`TurnsDecide` is the other side of the run `approval_lost_update`: if the
handlers of votes take turns, `QuorumDecides` holds. Then the row of the open
session is the stored one (`RowsCurrent`), and the counter of a request that is
not decided is the number of its approvals, not only at most that
(`ExactCount`). The overlap of two handlers is all that loses an approval.

`BundleWorkflowProofs`, with or without isolation and crashes: `Typing`,
`DeployedOnlyIfApproved`, `ExecutionNotSkipped`. `IInv` adds `ApprovedInv` (a row
stored as approved was approved once) and, for every session, that the same goes
for the row it has loaded, that a deployment under way had an approval, and that
an item it has seen past `pending` has not become pending again.
`everApproved` and "past pending" only grow, which is why stale copies do no
harm to these two properties.

If requests do not overlap, also `ContentKeptReviewed`, `ApproverNamed`, and the
refinement `WorkflowImplementsLifecycle`, for any set of endpoints in use: of
the lifecycle's overriding writers only those among them occur. `JInv` says
that a request works alone on the bundle as it is (`Alone`), so that what it
writes is what it decided (`WriteBack`); that a deployment, which keeps its old
copy, believes the bundle in progress, so that it only ever writes `completed`
or its log; and that what it still has to patch was once made, so that no step
of its changes the content of the bundle.

`OptimizerProofs`, for any number of vulnerabilities and windows: `Typing`,
`WithinLimits`, `RiskOrder`, `AllRoomUsed` and both together (`Greedy`), and that
heuristic and solver implement `PlanLimits` (`Implements`). `OInv` says that
everything is empty at first (`Fresh`), and that while the heuristic packs, the
plan consists of vulnerabilities it has been at, of all of them as long as there
are windows, and of nothing in later windows (`Packed`); `BInv` adds that no
window it has left had room for another.

`AccountsProofs`, for any tenants, addresses and invites: `Typing`, `UsedOnce`,
`AdministratorRemains`, `RevokedIsFinal` and the last two together
(`AccessIsKept`). `AInv` says that a request under way has been counted
(`RequestsCounted`), that an isolated request works on what is stored (`Alone`),
that an invite a session has read is still for the same account, and that who
joined by an invite, once, is there (`InviteFor`).

`RequestProofs`, for any sessions and rows (`SnapshotAssumption`: the sessions are
finite; `CollaborationAssumption`: a comment has a number of mentions at most;
`ScannersAssumption`: there are finitely many places to scan, and calls that
fail).
What a handler decides on is a copy, so that each invariant says what the copy
is still worth at the commit:

- `FindingsAreKept`: a finding a session has read is still there (`SeenKept`),
  because nothing deletes findings but the deletion of their ends.
- `LabelsFollow`, `SettingsKept`, `VerdictsShown`: a request that works alone
  (`OneAtATime`) has read the tables as they are (`LabelsCurrent`,
  `DocumentCurrent`, `RowsCurrent`), which in turn hold what was last asked for;
  the labels do so for all names but those that were merged (`LabelsAgree`).
  For `VerdictsShown` the table of required fields is compared with each of the
  ten checks.
- `RollbacksAsAsked`: the requests that may still start a rollback are those that
  have read it `PENDING` (`Starters`). A status that has left `PENDING` does not
  return, so that the starts that were made and those to come are no more than
  the sessions (`StartsBounded`); and what is restored was captured for the
  first patching (`Made`).
- `DeletionsAreFinal`: comments a session has read are there at its commit, with
  their marks or more (`DiscussionInv`), and what a commit adds to the unread is
  among the entries of one comment (`Onward`).
- `NothingIsMissed`: as long as no error was noted, a scanner that is done has found
  an asset for the identifier of all it could list where it says it went
  (`NothingLeft`), and the one at work has, for each of its requests, the answer
  or the request still before it (`LeftToDo`). For that the list of its places must have each place
  (`ListedSet`), whichever order they come in.

`ServiceProofs`, for any number of coroutines, processes and limits:

- `ProbesAreFew`: the first probe is not counted when it half-opens the circuit,
  every other is before it is called, and only opening or closing ends the count
  (`CircuitInv`).
- `MemoryFollows`: a task that is to report an outcome has committed it
  (`ResultsCommitted`), the status is of the one scan that was requested last
  (`OneRequested`), and the scheduler's entry and job are changed together
  (`EntryOfTracked`).
- `NotificationsArrive`: the table comes last in the queue of channels, so that
  a notification that has channels left is not in it yet, and one that has none
  left is, or the result says that it is not (`InAppLast`).
- `BackupsStayUsable`: whatever dies, files and entries are of dumps that were
  completed, and what a command has decided to delete has enough newer ones
  (`WholeInv`); in order, the index agrees with the directory before a command
  changes either and after it has written both (`OrderInv`).
- `WorseIsNeverLower`: points are added factor by factor, so that the sum grows with
  each, clamping keeps the order, and each rule of the recommendation is one for
  all more urgent factors as well.
- `ValuesAreFresh`: entries end their time to live after they were the newest, and as
  long as the storing took (`Expires`); in order, an old entry is one that the
  call under way is about to delete (`Undisturbed`).
- `TroubleHeard`: the time a group was last notified is that of a notification on
  record, and the latest of them (`LastNotified`). The timestamps that the code
  filters at each error still have all errors of the group within the window, so
  that they are no fewer than a burst (`RecentCounted`).
- `LimitIsKept` (callers are finite and at least one): for each window, the different
  times of the calls let through and of those about to be are within the limit
  and one for each other caller, as long as nothing of the window was dropped
  (`Whole`); once something
  was, the clock is past the window, no more calls start in it, and those that
  have yet to count are the other callers, once more (`Past`).
- `AlertsAreDisciplined` (evaluations are finite): an evaluation that awaits the
  handlers holds an alert that is not counted, hence the count of a rule is behind
  by their number. For the cooldown from any time t on, those that hold an alert
  from before t are o of n; each may put the time of the last alert back before
  t, after which no more than the remaining n − o + 1 are free to alert
  (`Kept`). Their sum is 1 + 2 + … + n, which is what the property says.

`PlanningProofs`, for any windows, bundles, rules and deployments:

- `CalendarIsRight`: the days before each month, added up month by month
  (`FirstDays`), agree with the list of month lengths in both kinds of year, and
  the last days of a month and a quarter with what is left of them.
- `RulesRestrict`: whether a rule matches depends on the rule alone (`SameMatch`),
  and the verdict is the strictest of those that do.
- `DeletionsSpare`: a lone request that deletes a window has read which bundles
  are in it, as they are (`WInv`).
- `CapacityIsKept` (sessions and bundles are finite and there are some): of the
  sessions under way that may still add a bundle to a window, all but one have
  room for the longest bundle there is, and that one for the bundle it found
  room for (`Crowded`). Each that adds uses up its share. That the sum of minutes
  which the code folds over the bundles grows by those of the bundle added
  follows from counting: the sum is the number of minutes taken, as otherwise a
  smallest set of bundles would differ from it (`LoadCounts`).
- `WindowsAreKept`: the two together.
- `PartsAreApart`, `PlanningTyped`: a behaviour of the run's specification is one
  of each of the four parts, so that all of this holds in it, and their types.

`MCServicesProofs`, the specification of the run `services`: a step is one of the
part that was chosen, and leaves the others alone (`StepOfPart`), so that the
conjunction of all the invariants above (`ServicesInv`) is inductive.
`ServicesTyped` is its type invariant, `ServicesKept` the other fifteen
invariants of the run and `ServicesNeverUndo` its three action properties.
The bounds on counters that are part of the types need more than the
components' invariants:

- a request takes one snapshot or starts one rollback at most, so that those
  made and those that requests may still make are within `MaxRequests`
  (`SnapshotTyped`);
- the failures a circuit has counted, the calls it waits for and those to come
  are within `MaxCalls` (`CircuitTyped`);
- a cached value is of a version that was stored, and its lifetime ends that
  long after now at the latest (`CacheBounded`); alerts are dated no later than
  now, and what an evaluation has left to do are rules (`AlertBounded`);
- a scanner that lists is one of those registered (`ScannersTyped`).

All invariants and action properties of the passing runs are proved. Only
model-checked are:

- liveness (`RunSettlesBundle`, `RollbackSettles`, `ScanSettles`), and `ENABLED`
  with it, which are beyond the prover;
- the properties that the other seven runs refute. `QuorumDecides` and
  `ApprovedHasApprover` are proved for requests that do not overlap, which the
  code does not ensure.

## What is not modelled

Inside the modelled parts: texts, names, times and counts no property is about;
risk scores and the content of policies beyond risk level, number, auto-approval
and delegation; audit entries, which come after the last commit. In
`BundleWorkflow`, capacity and the rule verdict are a check that may fail at
any time (`Fail`): the two are modelled in modules of their own. The simulated
patching always succeeds, as in the source. The notes of `PROJECT.json` name
what each component leaves out.

Not at all:

- simulation, reporting, export, dashboards, listings: queries and arithmetic on
  their results, without state;
- audit log and metrics: written and read by nothing;
- onboarding: nothing of it works but a flag;
- tokens, keys, passwords, logins that change no account, and the WorkOS login,
  which fails before it creates anything;
- the chat agent's other intents, the parsing of phrases into rules, and the
  formats of scanners and imports: translations of text;
- `middleware/rate_limit.py` and other code that is installed nowhere and has no
  behaviour of its own to get wrong; `restore_backup` and the connection tests of
  scanners, which are calls of external programs;
- frontend, manifests, migrations.

Scanners' targets, Slack, mail, `pg_dump`, Redis and OR-Tools are external: what
is modelled of them is how the code uses them.

## Plan

The Slack buttons and the in-process rate limiter, should they be wired.
