------------------------------ MODULE Discovery ------------------------------
(***************************************************************************)
(* Scans for assets (api/v1/discovery.py) and their schedule                *)
(* (services/discovery/auto_sync.py), for one tenant and one process.       *)
(*                                                                          *)
(* A scan is a row of discovery_scans, which a request creates and a        *)
(* background task completes, and an entry of the dictionary                *)
(* _discovery_status, which has one place for each tenant and not for each  *)
(* scan.  The task goes on with the session of the request.                 *)
(***************************************************************************)
EXTENDS Integers, FiniteSets

CONSTANTS Scans,       \* identities of rows of discovery_scans
          NoScan,
          Schedules,   \* schedules of the automatic discovery
          Malformed,   \* those of them that no trigger can be made of
          NoSchedule,
          MaxChanges   \* bound on the changes of the schedule

ASSUME DiscoveryAssumption == Malformed \subseteq Schedules /\ MaxChanges \in Nat

VARIABLES scans,      \* status of each scan, as committed
          status,     \* _discovery_status[tenant]
          task,       \* where the request and then the task of each scan are
          config,     \* configs[tenant] of the scheduler
          job,        \* the schedule of its job
          changes,    \* changes of the schedule still to be made
          sequential,     \* a scan is requested only when no other is under way
          faults      \* whether processes or their connections may fail

discoveryVars == <<scans, status, task, config, job, changes, sequential, faults>>

ScanStatus == {"absent", "running", "completed", "failed"}

NoStatus == [scan |-> NoScan, status |-> "absent"]

DiscoveryTypeOK ==
  /\ scans \in [Scans -> ScanStatus]
  /\ status \in [scan : Scans \cup {NoScan}, status : ScanStatus]
  /\ task \in [Scans -> {"none", "committed", "scanning", "completed", "failed", "ended"}]
  /\ config \in Schedules \cup {NoSchedule}
  /\ job \in Schedules \cup {NoSchedule}
  /\ changes \in 0..MaxChanges
  /\ sequential \in BOOLEAN /\ faults \in BOOLEAN

DiscoveryInit ==
  /\ scans = [n \in Scans |-> "absent"]
  /\ status = NoStatus
  /\ task = [n \in Scans |-> "none"]
  /\ config = NoSchedule /\ job = NoSchedule
  /\ changes = MaxChanges
  /\ sequential \in BOOLEAN /\ faults \in BOOLEAN

Goes(n, to) == task' = [task EXCEPT ![n] = to]

UnchangedSchedule == UNCHANGED <<config, job, changes, sequential, faults>>

-----------------------------------------------------------------------------
(* Scans *)

\* The row is committed before the dictionary knows of it.
trigger_discovery(n) ==
  /\ task[n] = "none"
  /\ sequential => \A m \in Scans : task[m] \in {"none", "ended"}
  /\ scans' = [scans EXCEPT ![n] = "running"]
  /\ Goes(n, "committed")
  /\ UNCHANGED status /\ UnchangedSchedule

\* Its second part, after "await db.refresh": the entry of an earlier scan is
\* replaced, running or not, and the task is scheduled.
track(n) ==
  /\ task[n] = "committed"
  /\ status' = [scan |-> n, status |-> "running"]
  /\ Goes(n, "scanning")
  /\ UNCHANGED scans /\ UnchangedSchedule

\* The entry is updated in place, whichever scan it is of.
Update(outcome) == status' = [status EXCEPT !.status = outcome]

\* As if the dictionary were updated before the commit, which may be refused.
run_discovery_memory_first(n) ==
  /\ task[n] = "scanning"
  /\ \E outcome \in {"completed", "failed"} :
       /\ Update(outcome)
       /\ scans' \in {scans, [scans EXCEPT ![n] = outcome]}
  /\ Goes(n, "ended")
  /\ UnchangedSchedule

\* As if an exception were not caught.
run_discovery_uncaught(n) ==
  /\ task[n] = "scanning"
  /\ \/ scans' = [scans EXCEPT ![n] = "completed"] /\ Goes(n, "completed")
     \/ UNCHANGED scans /\ Goes(n, "ended")
  /\ UNCHANGED status /\ UnchangedSchedule

\* _run_discovery: the outcome is committed.  An exception of discover_all is
\* caught, so that there always is one.
run_discovery(n) ==
  /\ task[n] = "scanning"
  /\ \E outcome \in {"completed", "failed"} :
       /\ scans' = [scans EXCEPT ![n] = outcome]
       /\ Goes(n, outcome)
  /\ UNCHANGED status /\ UnchangedSchedule

\* A statement of the task was refused, such as the insertion of an asset that
\* another request has inserted meanwhile.  The handler of the exception reads
\* the row in the same session, without a rollback: that raises once more.
fail_session(n) ==
  /\ faults
  /\ task[n] = "scanning"
  /\ Goes(n, "ended")
  /\ UNCHANGED <<scans, status>> /\ UnchangedSchedule

report(n) ==
  /\ task[n] \in {"completed", "failed"}
  /\ Update(task[n])
  /\ Goes(n, "ended")
  /\ UNCHANGED scans /\ UnchangedSchedule

-----------------------------------------------------------------------------
(* The schedule *)

\* As if the job were replaced only by the new one ("replace_existing").
configure_replacing(schedule) ==
  /\ changes > 0
  /\ changes' = changes - 1
  /\ config' = schedule
  /\ job' = IF schedule \in Malformed \cup {NoSchedule} THEN job ELSE schedule
  /\ UNCHANGED <<scans, status, task, sequential, faults>>

\* A request without an await: the job goes first, then the configuration is
\* stored, and a malformed schedule raises when that is done.
configure(schedule) ==
  /\ changes > 0
  /\ changes' = changes - 1
  /\ config' = schedule
  /\ job' = IF schedule \in Malformed THEN NoSchedule ELSE schedule
  /\ UNCHANGED <<scans, status, task, sequential, faults>>

\* The process restarts: whatever was in memory is lost.
Restart ==
  /\ faults
  /\ status' = NoStatus
  /\ task' = [n \in Scans |-> IF task[n] = "none" THEN "none" ELSE "ended"]
  /\ config' = NoSchedule /\ job' = NoSchedule
  /\ UNCHANGED <<scans, changes, sequential, faults>>

DiscoveryTask(n) == track(n) \/ run_discovery(n) \/ report(n)

DiscoveryNext ==
  \/ \E n \in Scans : trigger_discovery(n) \/ fail_session(n) \/ DiscoveryTask(n)
  \/ \E schedule \in Schedules \cup {NoSchedule} : configure(schedule)
  \/ Restart

\* Tasks of a process that lives are run on.
DiscoverySpec ==
  /\ DiscoveryInit /\ [][DiscoveryNext]_discoveryVars
  /\ \A n \in Scans : WF_discoveryVars(DiscoveryTask(n))

-----------------------------------------------------------------------------
(* Properties *)

\* What the status endpoint says of the outcome of a scan has been committed
\* before, at least if scans do not overlap.  (If they do, the first to end
\* writes its outcome into the entry of the second.)
StatusCommitted ==
  sequential /\ status.status \in {"completed", "failed"} => scans[status.scan] = status.status

\* If neither its process nor its session fails, a scan ends, also as a row.
ScanSettles ==
  \A n \in Scans :
    ~faults /\ scans[n] = "running" ~> scans[n] \in {"completed", "failed"}

\* A job runs by the configuration that is shown: whatever a change of the
\* schedule fails at, no job of an earlier one is left.
JobMatchesConfig == job # NoSchedule => job = config

\* What is kept in memory, of a scan and of the schedule, is what is stored.
MemoryAgrees == StatusCommitted /\ JobMatchesConfig
=============================================================================
