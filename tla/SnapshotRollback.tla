-------------------------- MODULE SnapshotRollback --------------------------
(***************************************************************************)
(* Snapshots of assets and rollbacks to them: services/snapshot_service.py  *)
(* behind the endpoints of api/v1/snapshots.py.  A rollback is created by   *)
(* one request and executed by another, which commits IN_PROGRESS before it *)
(* starts and the outcome when it is done.                                  *)
(*                                                                          *)
(* One asset of one bundle is modelled, whose pre-patch snapshots are       *)
(* numbered in the order of their commits; snapshots are never deleted.     *)
(***************************************************************************)
EXTENDS Requests

CONSTANTS Rollbacks     \* identities of rows of rollback_records

ASSUME SnapshotAssumption == IsFiniteSet(Sessions)

VARIABLES records,    \* the tables patch_snapshots and rollback_records
          deaths,     \* whether processes or their connections may die
          runs        \* history: how often each rollback was started

snapshotVars == <<records, deaths, runs>>

RollbackStatus == {"absent", "PENDING", "IN_PROGRESS", "COMPLETED", "FAILED"}

Records == [snapshots : 0..MaxRequests,
            status : [Rollbacks -> RollbackStatus],
            restores : [Rollbacks -> 0..MaxRequests]]   \* snapshot_id

SnapshotTypeOK ==
  /\ records \in Records
  /\ deaths \in BOOLEAN
  /\ runs \in [Rollbacks -> 0..MaxRequests]
  /\ \A s \in UnderWay : seen[s].tables \in Records
                         /\ seen[s].executing \in SUBSET Rollbacks

SnapshotInit ==
  /\ RequestsInit
  /\ records = [snapshots |-> 0,
                status |-> [r \in Rollbacks |-> "absent"],
                restores |-> [r \in Rollbacks |-> 0]]
  /\ deaths \in BOOLEAN
  /\ runs = [r \in Rollbacks |-> 0]

ReadRecords(s) ==
  /\ ReadBy(s, [tables |-> records, executing |-> {}])
  /\ UNCHANGED snapshotVars

\* Nothing was committed yet: a check fails, or the request comes to an end.
RefusedRecords(s) ==
  /\ s \in UnderWay /\ seen[s].executing = {}
  /\ EndOf(s)
  /\ UNCHANGED snapshotVars

-----------------------------------------------------------------------------
\* A pre-patch snapshot; those of other types are never looked for.
capture_snapshot(s) ==
  /\ s \in UnderWay /\ seen[s].executing = {}
  /\ EndOf(s)
  /\ records' = [records EXCEPT !.snapshots = @ + 1]
  /\ UNCHANGED <<deaths, runs>>

\* The newest snapshot, as the ORDER BY has it, or the only one, as
\* scalar_one_or_none has it, which raises if there are two.
SnapshotFoundNewest(tables) == {n \in {tables.snapshots} : n > 0}

SnapshotFound(tables) == {n \in {tables.snapshots} : n = 1}

initiate_rollback(s) ==
  /\ s \in UnderWay /\ seen[s].executing = {}
  /\ EndOf(s)
  /\ \E r \in Rollbacks, n \in SnapshotFound(seen[s].tables) :
       /\ records.status[r] = "absent"
       /\ records' = [records EXCEPT !.status[r] = "PENDING", !.restores[r] = n]
  /\ UNCHANGED <<deaths, runs>>

ExecutableUnlessDone(status) == status \in {"PENDING", "IN_PROGRESS"}

Executable(status) == status = "PENDING"

\* The first commit of execute_rollback.
execute_rollback(s) ==
  /\ s \in UnderWay /\ seen[s].executing = {}
  /\ \E r \in Rollbacks :
       /\ Executable(seen[s].tables.status[r])
       /\ GoesOn(s, [seen[s] EXCEPT !.executing = {r}])
       /\ records' = [records EXCEPT !.status[r] = "IN_PROGRESS"]
       /\ runs' = [runs EXCEPT ![r] = @ + 1]
  /\ UNCHANGED deaths

\* As if an exception in between left the rollback as it is.
finish_rollback_silently(s) ==
  /\ s \in UnderWay
  /\ \E r \in seen[s].executing, outcome \in {"COMPLETED", "IN_PROGRESS"} :
       records' = [records EXCEPT !.status[r] = outcome]
  /\ EndOf(s)
  /\ UNCHANGED <<deaths, runs>>

\* The second commit of execute_rollback; an exception in between makes the
\* outcome FAILED.
finish_rollback(s) ==
  /\ s \in UnderWay
  /\ \E r \in seen[s].executing, outcome \in {"COMPLETED", "FAILED"} :
       records' = [records EXCEPT !.status[r] = outcome]
  /\ EndOf(s)
  /\ UNCHANGED <<deaths, runs>>

\* The process dies, or the database cannot be reached for the second commit.
DeathWhileExecuting(s) ==
  /\ deaths
  /\ s \in UnderWay /\ seen[s].executing # {}
  /\ EndOf(s)
  /\ UNCHANGED snapshotVars

SnapshotHandler(s) ==
  \/ ReadRecords(s)
  \/ RefusedRecords(s)
  \/ capture_snapshot(s)
  \/ initiate_rollback(s)
  \/ execute_rollback(s)
  \/ finish_rollback(s)
  \/ DeathWhileExecuting(s)

SnapshotNext == \E s \in Sessions : SnapshotHandler(s)

SnapshotSpec == SnapshotInit /\ [][SnapshotNext]_<<snapshotVars, requestVars>>

-----------------------------------------------------------------------------
(* Properties *)

\* A rollback is carried out once, "not in PENDING state" refusing a second
\* time, or once for each request that had read it as PENDING.
RollbackRunsOnce == \A r \in Rollbacks : runs[r] <= 1 + Overlap

\* Whatever is captured later, meanwhile or by a second attempt at patching, a
\* rollback restores the state from before the first one.
RollbackRestoresOriginal ==
  \A r \in Rollbacks : records.status[r] # "absent" => records.restores[r] = 1

\* Neither overlapping requests nor later snapshots turn a rollback into another
\* one than was asked for.
RollbackOnceToOriginal == RollbackRunsOnce /\ RollbackRestoresOriginal

\* A rollback that was started ends, unless its process or connection dies:
\* nothing takes up a rollback that is IN_PROGRESS.
RollbackSettles ==
  \A r \in Rollbacks :
    ~deaths /\ records.status[r] = "IN_PROGRESS"
      ~> records.status[r] \in {"COMPLETED", "FAILED"}
=============================================================================
