--------------------------- MODULE MCServicesProofs ---------------------------
(***************************************************************************)
(* The services together, one part at a time as MCServices has them: every  *)
(* part keeps to its types, with the bounds on what is counted, for any     *)
(* values of the constants.  Each part has an invariant of its own, proved  *)
(* where the part is proved about, or here where only the bounds were left. *)
(***************************************************************************)
EXTENDS MCServices, AccountsProofs, RequestProofs, ServiceProofs

-----------------------------------------------------------------------------
(* Snapshots *)

\* The requests that have not committed anything yet, and those that are still
\* to be made: each takes one snapshot or starts one rollback at most.
Reading == {s \in UnderWay : seen[s].executing = {}}

Unspent == left + Cardinality(Reading)

SnapshotTyped ==
  /\ records \in Records
  /\ deaths \in BOOLEAN
  /\ runs \in [Rollbacks -> 0..MaxRequests]
  /\ UnderWay \subseteq Sessions /\ left \in Nat
  /\ \A s \in UnderWay : seen[s] \in [tables : Records, executing : SUBSET Rollbacks]
  /\ records.snapshots + Unspent <= MaxRequests
  /\ \A r \in Rollbacks : runs[r] + Unspent <= MaxRequests

LEMMA SnapshotsStart == SnapshotInit => SnapshotTyped
  <1> SUFFICES ASSUME SnapshotInit PROVE SnapshotTyped
    OBVIOUS
  <1>1. UnderWay = {} /\ left = MaxRequests /\ MaxRequests \in Nat
    BY RequestsAssumption DEF SnapshotInit, RequestsInit, UnderWay
  <1>2. Unspent = MaxRequests
    <2>1. Reading = {}
      BY <1>1 DEF Reading
    <2> QED BY <1>1, <2>1, FS_EmptySet DEF Unspent
  <1>3. records \in Records /\ records.snapshots = 0
    BY <1>1 DEF SnapshotInit, Records, RollbackStatus
  <1> QED BY <1>1, <1>2, <1>3 DEF SnapshotInit, SnapshotTyped

\* A request that commits, or ends without: it is no longer reading.
LEMMA SnapshotsCommit ==
  ASSUME SnapshotTyped, NEW s \in UnderWay, left' = left,
         UnderWay' \subseteq UnderWay,
         \A t \in UnderWay' \ {s} : seen'[t] = seen[t],
         s \in UnderWay' => /\ seen'[s] \in [tables : Records, executing : SUBSET Rollbacks]
                            /\ seen'[s].executing # {}
  PROVE  /\ UnderWay' \subseteq Sessions
         /\ \A t \in UnderWay' : seen'[t] \in [tables : Records, executing : SUBSET Rollbacks]
         /\ Unspent \in Nat /\ Unspent' \in Nat /\ Unspent' <= Unspent
         /\ seen[s].executing = {} => Unspent' <= Unspent - 1
  <1>1. /\ UnderWay' \subseteq Sessions
        /\ \A t \in UnderWay' : seen'[t] \in [tables : Records, executing : SUBSET Rollbacks]
    BY DEF SnapshotTyped
  <1>2. PICK S \in SUBSET Sessions : S = Reading
    BY DEF SnapshotTyped, Reading
  <1>3. Reading' \in SUBSET (S \ {s})
    BY <1>2 DEF Reading
  <1>4. /\ Cardinality(S) \in Nat /\ Cardinality(S \ {s}) \in Nat
        /\ Cardinality(S \ {s}) <= Cardinality(S)
        /\ s \in S => Cardinality(S \ {s}) = Cardinality(S) - 1
    BY FewerStarters
  <1>5. PICK T \in SUBSET (S \ {s}) : T = Reading'
    BY <1>3
  <1>6. Cardinality(T) \in Nat /\ Cardinality(T) <= Cardinality(S \ {s})
    <2>1. S \ {s} \in SUBSET Sessions
      BY <1>2
    <2> QED BY <2>1, FewerStarters
  <1>7. seen[s].executing = {} => s \in S
    BY <1>2 DEF Reading
  <1>8. left \in Nat
    BY DEF SnapshotTyped
  <1> QED BY <1>1, <1>2, <1>4, <1>5, <1>6, <1>7, <1>8 DEF Unspent

LEMMA SnapshotsTyped ==
  SnapshotTyped /\ [SnapshotNext]_<<snapshotVars, requestVars>> => SnapshotTyped'
  <1> SUFFICES ASSUME SnapshotTyped, [SnapshotNext]_<<snapshotVars, requestVars>>
               PROVE  SnapshotTyped'
    OBVIOUS
  <1> USE RequestsAssumption
  <1>1. CASE UNCHANGED <<snapshotVars, requestVars>>
    <2>1. /\ records' = records /\ deaths' = deaths /\ runs' = runs
          /\ seen' = seen /\ left' = left /\ UnderWay' = UnderWay
      BY <1>1 DEF snapshotVars, requestVars, UnderWay
    <2>2. Unspent' = Unspent
      BY <2>1 DEF Unspent, Reading
    <2> QED BY <2>1, <2>2 DEF SnapshotTyped
  <1>2. ASSUME NEW s \in Sessions, ReadRecords(s)
        PROVE  SnapshotTyped'
    <2>1. PICK copy : copy = [tables |-> records, executing |-> {}]
      OBVIOUS
    <2>2. /\ ReadBy(s, copy) /\ records' = records /\ runs' = runs /\ deaths' = deaths
          /\ copy \in [tables : Records, executing : SUBSET Rollbacks] /\ copy.executing = {}
      BY <1>2, <2>1 DEF ReadRecords, snapshotVars, SnapshotTyped
    <2>3. /\ left' = left - 1 /\ left > 0 /\ s \notin UnderWay
          /\ UnderWay' = UnderWay \cup {s} /\ seen'[s] = copy
          /\ \A t \in UnderWay : seen'[t] = seen[t]
      BY <2>2, ReadingLeaves
    <2>31. Reading \subseteq UnderWay /\ UnderWay \subseteq Sessions
      BY DEF SnapshotTyped, Reading
    <2>4. PICK S \in SUBSET Sessions : S = Reading /\ s \notin S
      BY <2>3, <2>31
    <2>5. Reading' = S \cup {s}
      BY <2>2, <2>3, <2>4 DEF Reading
    <2>6. Cardinality(S \cup {s}) = Cardinality(S) + 1 /\ Cardinality(S) \in Nat
      <3>1. IsFiniteSet(S)
        BY SnapshotAssumption, FS_Subset
      <3> QED BY <2>4, <3>1, FS_AddElement, FS_CardinalityType
    <2>7. Unspent' = Unspent
      BY <2>3, <2>4, <2>5, <2>6 DEF SnapshotTyped, Unspent
    <2>8. left' \in Nat
      BY <2>3 DEF SnapshotTyped
    <2>9. \A t \in UnderWay' : seen'[t] \in [tables : Records, executing : SUBSET Rollbacks]
      BY <2>2, <2>3 DEF SnapshotTyped
    <2> QED BY <2>2, <2>3, <2>7, <2>8, <2>9 DEF SnapshotTyped
  <1>3. ASSUME NEW s \in UnderWay, EndOf(s), records' \in Records, runs' = runs,
               deaths' = deaths,
               \/ records'.snapshots = records.snapshots
               \/ seen[s].executing = {} /\ records'.snapshots = records.snapshots + 1
        PROVE  SnapshotTyped'
    <2>1. /\ left' = left /\ UnderWay' = UnderWay \ {s}
          /\ \A t \in UnderWay' : seen'[t] = seen[t]
      BY <1>3, EndLeaves
    <2>2. /\ UnderWay' \subseteq Sessions
          /\ \A t \in UnderWay' : seen'[t] \in [tables : Records, executing : SUBSET Rollbacks]
          /\ Unspent \in Nat /\ Unspent' \in Nat /\ Unspent' <= Unspent
          /\ seen[s].executing = {} => Unspent' <= Unspent - 1
      BY <2>1, SnapshotsCommit
    <2>3. records.snapshots \in Nat /\ records'.snapshots \in Nat
      BY <1>3 DEF SnapshotTyped, Records
    <2>4. records'.snapshots + Unspent' <= MaxRequests
      BY <1>3, <2>2, <2>3 DEF SnapshotTyped
    <2>5. \A r \in Rollbacks : runs'[r] + Unspent' <= MaxRequests
      BY <1>3, <2>2 DEF SnapshotTyped
    <2> QED BY <1>3, <2>1, <2>2, <2>4, <2>5 DEF SnapshotTyped
  <1>4. ASSUME NEW s \in Sessions, RefusedRecords(s) \/ DeathWhileExecuting(s)
        PROVE  SnapshotTyped'
    BY <1>3, <1>4 DEF RefusedRecords, DeathWhileExecuting, snapshotVars, SnapshotTyped
  <1>5. ASSUME NEW s \in Sessions, capture_snapshot(s)
        PROVE  SnapshotTyped'
    <2>1. /\ s \in UnderWay /\ EndOf(s) /\ seen[s].executing = {}
          /\ runs' = runs /\ deaths' = deaths
          /\ records' = [records EXCEPT !.snapshots = @ + 1]
      BY <1>5 DEF capture_snapshot
    <2>2. records.snapshots + 1 \in 0..MaxRequests
      <3>1. PICK S \in SUBSET Sessions : S = Reading /\ s \in S
        BY <2>1 DEF SnapshotTyped, Reading
      <3>2. /\ Cardinality(S) \in Nat /\ Cardinality(S \ {s}) \in Nat
            /\ Cardinality(S \ {s}) = Cardinality(S) - 1
        BY <3>1, FewerStarters
      <3>3. records.snapshots + Unspent <= MaxRequests /\ records.snapshots \in Nat
        BY DEF SnapshotTyped, Records
      <3> QED BY <3>1, <3>2, <3>3 DEF Unspent, SnapshotTyped
    <2>3. records' \in Records /\ records'.snapshots = records.snapshots + 1
      BY <2>1, <2>2 DEF SnapshotTyped, Records
    <2> QED BY <1>3, <2>1, <2>3
  <1>6. ASSUME NEW s \in Sessions, initiate_rollback(s)
        PROVE  SnapshotTyped'
    <2>1. PICK r \in Rollbacks, n \in SnapshotFound(seen[s].tables) :
            records' = [records EXCEPT !.status[r] = "PENDING", !.restores[r] = n]
      BY <1>6 DEF initiate_rollback
    <2>2. s \in UnderWay /\ EndOf(s) /\ runs' = runs /\ deaths' = deaths
      BY <1>6 DEF initiate_rollback
    <2>3. n \in 0..MaxRequests
      <3>1. seen[s].tables \in Records
        BY <2>2 DEF SnapshotTyped
      <3> QED BY <3>1 DEF SnapshotFound, Records
    <2>4. records' \in Records /\ records'.snapshots = records.snapshots
      BY <2>1, <2>3 DEF SnapshotTyped, Records, RollbackStatus
    <2> QED BY <1>3, <2>2, <2>4
  <1>7. ASSUME NEW s \in Sessions, finish_rollback(s)
        PROVE  SnapshotTyped'
    <2>1. s \in UnderWay /\ EndOf(s) /\ runs' = runs /\ deaths' = deaths
      BY <1>7 DEF finish_rollback
    <2>2. PICK r \in Rollbacks, outcome \in {"COMPLETED", "FAILED"} :
            records' = [records EXCEPT !.status[r] = outcome]
      BY <1>7, <2>1 DEF finish_rollback, SnapshotTyped
    <2>3. records' \in Records /\ records'.snapshots = records.snapshots
      BY <2>2 DEF SnapshotTyped, Records, RollbackStatus
    <2> QED BY <1>3, <2>1, <2>3
  <1>8. ASSUME NEW s \in Sessions, execute_rollback(s)
        PROVE  SnapshotTyped'
    <2>1. PICK r \in Rollbacks :
            /\ GoesOn(s, [seen[s] EXCEPT !.executing = {r}])
            /\ records' = [records EXCEPT !.status[r] = "IN_PROGRESS"]
            /\ runs' = [runs EXCEPT ![r] = @ + 1]
      BY <1>8 DEF execute_rollback
    <2>2. /\ s \in UnderWay /\ seen[s].executing = {} /\ deaths' = deaths /\ left' = left
          /\ seen' = [seen EXCEPT ![s] = [seen[s] EXCEPT !.executing = {r}]]
      BY <1>8, <2>1 DEF execute_rollback, GoesOn
    <2>3. seen[s] \in [tables : Records, executing : SUBSET Rollbacks]
      BY <2>2 DEF SnapshotTyped
    <2>4. PICK next : next = [seen[s] EXCEPT !.executing = {r}]
      OBVIOUS
    <2>5. next \in [tables : Records, executing : SUBSET Rollbacks] /\ next.executing # {}
      BY <2>3, <2>4
    <2>6. /\ UnderWay' = UnderWay /\ seen'[s] = next
          /\ \A t \in UnderWay \ {s} : seen'[t] = seen[t]
      BY <2>2, <2>4 DEF UnderWay
    <2>7. /\ UnderWay' \subseteq Sessions
          /\ \A t \in UnderWay' : seen'[t] \in [tables : Records, executing : SUBSET Rollbacks]
          /\ Unspent \in Nat /\ Unspent' \in Nat /\ Unspent' <= Unspent - 1
      BY <2>2, <2>5, <2>6, SnapshotsCommit
    <2>8. records' \in Records /\ records'.snapshots = records.snapshots
      BY <2>1 DEF SnapshotTyped, Records, RollbackStatus
    <2>9. /\ runs' \in [Rollbacks -> 0..MaxRequests]
          /\ \A q \in Rollbacks : runs'[q] + Unspent' <= MaxRequests
      <3>1. \A q \in Rollbacks : runs'[q] \in {runs[q], runs[q] + 1} /\ runs[q] \in Nat
        BY <2>1 DEF SnapshotTyped
      <3>2. \A q \in Rollbacks : runs'[q] + Unspent' <= MaxRequests /\ runs'[q] \in 0..MaxRequests
        BY <2>7, <3>1 DEF SnapshotTyped
      <3>3. DOMAIN runs' = Rollbacks /\ runs' = [q \in Rollbacks |-> runs'[q]]
        BY <2>1 DEF SnapshotTyped
      <3> QED BY <3>2, <3>3
    <2>10. records'.snapshots + Unspent' <= MaxRequests
      <3>1. records.snapshots \in Nat
        BY DEF SnapshotTyped, Records
      <3> QED BY <2>7, <2>8, <3>1 DEF SnapshotTyped
    <2> QED BY <2>2, <2>7, <2>8, <2>9, <2>10 DEF SnapshotTyped
  <1> QED BY <1>1, <1>2, <1>4, <1>5, <1>6, <1>7, <1>8 DEF SnapshotNext, SnapshotHandler

-----------------------------------------------------------------------------
(* The circuit breaker *)

\* Each failure and each probe takes a call.
Busy == {c \in Coroutines : local[c] # "idle"}

CircuitTyped ==
  /\ CircuitInv
  /\ timedOut \in BOOLEAN /\ calls \in Nat
  /\ IsFiniteSet(Busy)
  /\ circuit.failures + Cardinality(Busy) + calls <= MaxCalls
  /\ probing + calls <= MaxCalls

LEMMA BusyOnes ==
  ASSUME NEW c \in Coroutines, CircuitTyped
  PROVE  /\ Cardinality(Busy) \in Nat
         /\ (\A d \in Coroutines \ {c} : local'[d] = local[d]) /\ local'[c] # "idle"
              => IsFiniteSet(Busy') /\ Cardinality(Busy') \in Nat
                 /\ (local[c] = "idle" => Cardinality(Busy') = Cardinality(Busy) + 1)
         /\ (\A d \in Coroutines \ {c} : local'[d] = local[d]) /\ local'[c] = "idle"
              => IsFiniteSet(Busy') /\ Cardinality(Busy') \in Nat
                 /\ (local[c] # "idle" => Cardinality(Busy') = Cardinality(Busy) - 1)
  <1>1. IsFiniteSet(Busy) /\ Cardinality(Busy) \in Nat
    BY FS_CardinalityType DEF CircuitTyped
  <1>2. ASSUME \A d \in Coroutines \ {c} : local'[d] = local[d], local'[c] # "idle"
        PROVE  IsFiniteSet(Busy') /\ Cardinality(Busy') \in Nat
               /\ (local[c] = "idle" => Cardinality(Busy') = Cardinality(Busy) + 1)
    <2>1. Busy' = Busy \cup {c}
      BY <1>2 DEF Busy
    <2>2. local[c] = "idle" => c \notin Busy
      BY DEF Busy
    <2> QED BY <1>1, <2>1, <2>2, FS_AddElement, FS_CardinalityType
  <1>3. ASSUME \A d \in Coroutines \ {c} : local'[d] = local[d], local'[c] = "idle"
        PROVE  IsFiniteSet(Busy') /\ Cardinality(Busy') \in Nat
               /\ (local[c] # "idle" => Cardinality(Busy') = Cardinality(Busy) - 1)
    <2>1. Busy' = Busy \ {c}
      BY <1>3 DEF Busy
    <2>2. local[c] # "idle" => c \in Busy
      BY DEF Busy
    <2> QED BY <1>1, <2>1, <2>2, FS_RemoveElement, FS_CardinalityType
  <1> QED BY <1>1, <1>2, <1>3

LEMMA CircuitStarts == CircuitInit => CircuitTyped
  <1> SUFFICES ASSUME CircuitInit PROVE CircuitTyped
    OBVIOUS
  <1>1. CircuitInv
    BY CircuitAssumption DEF CircuitInit, CircuitInv, Circuits, CircuitState
  <1>2. Busy = {} /\ circuit.failures = 0 /\ calls = MaxCalls /\ probing = 0 /\ timedOut = TRUE
    BY DEF CircuitInit, Busy
  <1> QED BY <1>1, <1>2, FS_EmptySet, CircuitAssumption DEF CircuitTyped

LEMMA CircuitTypes == CircuitTyped /\ [CircuitNext]_circuitVars => CircuitTyped'
  <1> SUFFICES ASSUME CircuitTyped, [CircuitNext]_circuitVars
               PROVE  CircuitTyped'
    OBVIOUS
  <1>1. CircuitInv'
    BY CircuitStep DEF CircuitTyped
  <1>2. /\ circuit.failures \in Nat /\ circuit'.failures \in Nat
        /\ probing \in Nat /\ calls \in Nat /\ MaxCalls \in Nat
        /\ DOMAIN local = Coroutines /\ circuit \in Circuits
    BY <1>1, CircuitAssumption DEF CircuitTyped, CircuitInv, Circuits
  <1>3. CASE UNCHANGED circuitVars \/ TimeOut
    <2>1. /\ circuit' = circuit /\ calls' = calls /\ local' = local /\ probing' = probing
          /\ timedOut' \in BOOLEAN
      BY <1>3 DEF circuitVars, TimeOut, CircuitTyped
    <2>2. Busy' = Busy
      BY <2>1 DEF Busy
    <2> QED BY <1>1, <2>1, <2>2 DEF CircuitTyped
  <1>4. ASSUME NEW c \in Coroutines, start_closed(c) \/ start_open(c) \/ start_half_open(c)
        PROVE  CircuitTyped'
    <2>1. Starts(c)
      BY <1>4 DEF start_closed, start_open, start_half_open
    <2>2. /\ local[c] = "idle" /\ local'[c] # "idle" /\ calls' = calls - 1 /\ calls > 0
          /\ \A d \in Coroutines \ {c} : local'[d] = local[d]
          /\ timedOut' = timedOut
      BY <1>2, <2>1 DEF Starts, Circuits, CircuitState
    <2>3. /\ IsFiniteSet(Busy') /\ Cardinality(Busy') = Cardinality(Busy) + 1
          /\ Cardinality(Busy) \in Nat
      BY <2>2, BusyOnes
    <2>4. circuit'.failures = circuit.failures
      BY <1>2, <1>4 DEF start_closed, start_open, start_half_open, Circuits
    <2>5. probing' = probing \/ probing' = 1 \/ probing' = probing + 1
      BY <1>4 DEF start_closed, start_open, start_half_open
    <2>6. calls <= MaxCalls
      BY <1>2 DEF CircuitTyped
    <2>7. probing' + calls' <= MaxCalls /\ calls' \in Nat
      BY <1>2, <2>2, <2>5, <2>6 DEF CircuitTyped
    <2>8. circuit'.failures + Cardinality(Busy') + calls' <= MaxCalls
      BY <1>2, <2>2, <2>3, <2>4 DEF CircuitTyped
    <2> QED BY <1>1, <2>2, <2>3, <2>7, <2>8 DEF CircuitTyped
  <1>5. ASSUME NEW c \in Coroutines, succeed(c) \/ fail(c) \/ cancel(c)
        PROVE  CircuitTyped'
    <2>1. Ends(c)
      BY <1>5 DEF succeed, fail, cancel
    <2>2. /\ local[c] # "idle" /\ local'[c] = "idle" /\ calls' = calls
          /\ \A d \in Coroutines \ {c} : local'[d] = local[d]
      BY <1>2, <2>1 DEF Ends
    <2>3. probing' = probing /\ timedOut' \in BOOLEAN
      BY <1>5 DEF succeed, fail, cancel, CircuitTyped
    <2>4. /\ IsFiniteSet(Busy') /\ Cardinality(Busy') = Cardinality(Busy) - 1
          /\ Cardinality(Busy) \in Nat
      BY <2>2, BusyOnes
    <2>5. circuit'.failures <= circuit.failures + 1
      <3>1. CASE succeed(c)
        <4>1. \/ circuit' = [circuit EXCEPT !.state = "closed", !.failures = 0]
              \/ circuit' = [circuit EXCEPT !.failures = IF @ = 0 THEN 0 ELSE @ - 1]
          BY <3>1 DEF succeed
        <4>2. circuit'.failures \in {0, circuit.failures, circuit.failures - 1}
          BY <1>2, <4>1 DEF Circuits
        <4> QED BY <1>2, <4>2
      <3>2. CASE fail(c)
        BY <1>2, <3>2 DEF fail, Circuits
      <3>3. CASE cancel(c)
        BY <1>2, <3>3 DEF cancel
      <3> QED BY <1>5, <3>1, <3>2, <3>3
    <2>6. circuit'.failures + Cardinality(Busy') + calls' <= MaxCalls
      BY <1>2, <2>2, <2>4, <2>5 DEF CircuitTyped
    <2> QED BY <1>1, <2>2, <2>3, <2>4, <2>6 DEF CircuitTyped
  <1> QED BY <1>3, <1>4, <1>5 DEF CircuitNext

LEMMA CircuitIsTyped == CircuitTyped => CircuitTypeOK
  <1> SUFFICES ASSUME CircuitTyped PROVE CircuitTypeOK
    OBVIOUS
  <1>1. /\ circuit \in Circuits /\ circuit.failures \in Nat /\ calls \in Nat /\ probing \in Nat
        /\ Cardinality(Busy) \in Nat /\ MaxCalls \in Nat
    BY FS_CardinalityType, CircuitAssumption DEF CircuitTyped, CircuitInv, Circuits
  <1>2. circuit.failures \in 0..MaxCalls /\ calls \in 0..MaxCalls /\ probing \in 0..MaxCalls
    BY <1>1 DEF CircuitTyped
  <1>3. circuit \in [state : CircuitState, failures : 0..MaxCalls, requests : 0..MaxProbes]
    BY <1>1, <1>2 DEF Circuits
  <1> QED BY <1>2, <1>3 DEF CircuitTyped, CircuitInv, CircuitTypeOK

-----------------------------------------------------------------------------
(* The cache *)

CacheBounded ==
  /\ CacheInv
  /\ time <= MaxClock /\ Version <= MaxVersions
  /\ slowness <= time /\ staleness <= time + 1
  /\ \A w \in Workers : cache[w].until <= time + Ttl
  /\ \A c \in CacheCalls : running[c].value <= Version

LEMMA CacheStarts == CacheInit => CacheBounded
  <1> SUFFICES ASSUME CacheInit PROVE CacheBounded
    OBVIOUS
  <1>1. Version = 0
    <2>1. DOMAIN replaced = {}
      BY DEF CacheInit
    <2> QED BY <2>1, FS_EmptySet DEF Version
  <1> QED BY <1>1, CacheStart, CacheAssumption DEF CacheInit, CacheBounded, NoEntry, Waiting

LEMMA CacheBounds == CacheBounded /\ [CacheNext]_cacheVars => CacheBounded'
  <1> SUFFICES ASSUME CacheBounded, [CacheNext]_cacheVars
               PROVE  CacheBounded'
    OBVIOUS
  <1>1. CacheInv /\ CacheInv'
    BY CacheStep DEF CacheBounded
  <1>2. /\ time \in Nat /\ staleness \in Nat /\ slowness \in Nat /\ Version \in Nat
        /\ Ttl \in Nat /\ MaxClock \in Nat /\ MaxVersions \in Nat
        /\ replaced \in [0..(Version - 1) -> 0..time]
        /\ cache \in [Workers -> [value : 0..Version, until : Nat]]
        /\ running \in [CacheCalls -> CacheStates]
        /\ time' \in Nat /\ staleness' \in Nat /\ slowness' \in Nat
    BY <1>1, CacheAssumption DEF CacheInv, CacheTypes
  <1>3. replaced' = replaced => Version' = Version
    BY DEF Version
  <1>4. CASE UNCHANGED cacheVars \/ CacheTick
    <2>1. /\ time' >= time /\ time' <= MaxClock /\ replaced' = replaced
          /\ cache' = cache /\ running' = running
          /\ staleness' = staleness /\ slowness' = slowness
      BY <1>2, <1>4 DEF cacheVars, CacheTick, CacheBounded
    <2>2. \A w \in Workers : cache'[w].until <= time' + Ttl
      BY <1>2, <2>1 DEF CacheBounded
    <2>3. slowness' <= time' /\ staleness' <= time' + 1
      <3>1. PICK later \in Nat : later = time' /\ later >= time
        BY <1>2, <2>1
      <3>2. time \in Nat /\ slowness \in Nat /\ staleness \in Nat
        BY <1>2
      <3>3. slowness <= time /\ staleness <= time + 1
        BY DEF CacheBounded
      <3>4. time <= later
        BY <3>1
      <3>5. slowness <= later /\ staleness <= later + 1
        BY <3>2, <3>3, <3>4
      <3> QED BY <2>1, <3>1, <3>5
    <2> QED BY <1>1, <1>3, <2>1, <2>2, <2>3 DEF CacheBounded
  <1>5. ASSUME NEW c \in CacheCalls, NEW new, new.value \in 0..Version,
               running' = [running EXCEPT ![c] = new],
               time' = time, replaced' = replaced, cache' = cache,
               staleness' = staleness, slowness' = slowness
        PROVE  CacheBounded'
    <2>1. \A d \in CacheCalls : running'[d].value <= Version
      BY <1>2, <1>5 DEF CacheBounded
    <2> QED BY <1>1, <1>3, <1>5, <2>1 DEF CacheBounded
  <1>6. ASSUME NEW c \in CacheCalls, NEW w \in Workers, get_miss(c, w)
        PROVE  CacheBounded'
    <2>1. PICK new : new = [Waiting EXCEPT !.at = "missed", !.worker = w]
      OBVIOUS
    <2>2. new.value = 0 /\ 0 \in 0..Version
      BY <1>2, <2>1 DEF Waiting
    <2> QED BY <1>5, <1>6, <2>1, <2>2 DEF get_miss
  <1>7. ASSUME NEW c \in CacheCalls, call_function(c)
        PROVE  CacheBounded'
    <2>1. PICK new : new = [running[c] EXCEPT !.at = "computed", !.value = Version, !.since = time]
      OBVIOUS
    <2>2. new.value = Version /\ Version \in 0..Version
      BY <1>2, <2>1 DEF CacheStates
    <2> QED BY <1>2, <1>5, <1>7, <2>1, <2>2 DEF call_function
  <1>8. ASSUME NEW c \in CacheCalls, scan_iter(c)
        PROVE  CacheBounded'
    <2>1. PICK new : new = [running[c] EXCEPT !.at = "scanned", !.keys = {w \in Workers : Live(w)}]
      OBVIOUS
    <2>2. new.value = running[c].value /\ running[c].value \in 0..Version
      BY <1>2, <2>1 DEF CacheStates, CacheBounded
    <2> QED BY <1>2, <1>5, <1>8, <2>1, <2>2 DEF scan_iter
  <1>9. ASSUME NEW c \in CacheCalls, set_failing(c) \/ invalidate_failing(c)
        PROVE  CacheBounded'
    <2>1. Waiting.value = 0 /\ 0 \in 0..Version
      BY <1>2 DEF Waiting
    <2> QED BY <1>5, <1>9, <2>1 DEF set_failing, invalidate_failing
  <1>10. ASSUME NEW c \in CacheCalls, NEW w \in Workers, get_hit(c, w)
         PROVE  CacheBounded'
    <2>1. /\ time' = time /\ replaced' = replaced /\ cache' = cache /\ running' = running
          /\ slowness' = slowness /\ Returns(cache[w].value)
      BY <1>10 DEF get_hit
    <2>2. PICK age : /\ age = IF cache[w].value = Version THEN 0
                              ELSE 1 + time - replaced[cache[w].value]
                     /\ staleness' = Max({staleness, age})
      BY <2>1 DEF Returns
    <2>3. age \in Int /\ age <= time + 1 /\ staleness \in Int
      <3>1. cache[w].value \in 0..Version
        BY <1>2
      <3>2. cache[w].value # Version => replaced[cache[w].value] \in 0..time
        BY <1>2, <3>1
      <3> QED BY <1>2, <2>2, <3>2
    <2>4. staleness' <= time + 1
      <3>1. Max({staleness, age}) = IF staleness < age THEN age ELSE staleness
        BY <2>3, MaxOfTwo
      <3> QED BY <1>2, <2>2, <2>3, <3>1 DEF CacheBounded
    <2> QED BY <1>1, <1>3, <2>1, <2>4 DEF CacheBounded
  <1>11. ASSUME NEW c \in CacheCalls, set(c)
         PROVE  CacheBounded'
    <2>1. /\ time' = time /\ replaced' = replaced /\ staleness' = staleness
          /\ running' = [running EXCEPT ![c] = Waiting]
          /\ cache' = [cache EXCEPT ![running[c].worker] = Entry(running[c].value)]
          /\ slowness' = Max({slowness, time - running[c].since})
      BY <1>11 DEF set
    <2>2. running[c].since \in Nat /\ Waiting.value = 0
      BY <1>2 DEF CacheStates, Waiting
    <2>3. slowness' <= time
      <3>1. PICK waited \in Int : waited = time - running[c].since /\ waited <= time
        BY <1>2, <2>2
      <3>2. Max({slowness, waited}) = IF slowness < waited THEN waited ELSE slowness
        BY <1>2, MaxOfTwo
      <3> QED BY <1>2, <2>1, <3>1, <3>2 DEF CacheBounded
    <2>4. \A w \in Workers : cache'[w].until <= time + Ttl
      BY <1>2, <2>1 DEF CacheBounded, Entry
    <2>5. \A d \in CacheCalls : running'[d].value <= Version
      BY <1>2, <2>1, <2>2 DEF CacheBounded
    <2> QED BY <1>1, <1>3, <2>1, <2>3, <2>4, <2>5 DEF CacheBounded
  <1>12. ASSUME NEW c \in CacheCalls, write(c)
         PROVE  CacheBounded'
    <2>1. /\ time' = time /\ cache' = cache /\ staleness' = staleness /\ slowness' = slowness
          /\ running' = [running EXCEPT ![c] = [Waiting EXCEPT !.at = "written"]]
          /\ Version < MaxVersions /\ DOMAIN replaced' = 0..Version
      BY <1>12 DEF write
    <2>2. Version' = Version + 1
      BY <1>2, <2>1, VersionOf DEF Version
    <2>3. \A d \in CacheCalls : running'[d].value <= Version + 1
      <3>1. PICK new : new = [Waiting EXCEPT !.at = "written"]
        OBVIOUS
      <3>2. new.value = 0
        BY <3>1 DEF Waiting
      <3>3. \A d \in CacheCalls : running[d].value <= Version /\ running[d].value \in Nat
        BY <1>2 DEF CacheBounded, CacheStates
      <3> QED BY <1>2, <2>1, <3>1, <3>2, <3>3
    <2> QED BY <1>1, <1>2, <2>1, <2>2, <2>3 DEF CacheBounded
  <1>13. ASSUME NEW c \in CacheCalls, delete(c)
         PROVE  CacheBounded'
    <2>1. /\ time' = time /\ replaced' = replaced /\ staleness' = staleness
          /\ slowness' = slowness
          /\ running' = [running EXCEPT ![c] = Waiting]
          /\ cache' = [w \in Workers |-> IF w \in running[c].keys THEN NoEntry ELSE cache[w]]
      BY <1>13 DEF delete
    <2>2. Waiting.value = 0 /\ NoEntry.until = 0
      BY DEF Waiting, NoEntry
    <2>3. \A w \in Workers : cache'[w].until <= time + Ttl
      BY <1>2, <2>1, <2>2 DEF CacheBounded
    <2>4. \A d \in CacheCalls : running'[d].value <= Version
      BY <1>2, <2>1, <2>2 DEF CacheBounded
    <2> QED BY <1>1, <1>3, <2>1, <2>3, <2>4 DEF CacheBounded
  <1> QED BY <1>4, <1>6, <1>7, <1>8, <1>9, <1>10, <1>11, <1>12, <1>13 DEF CacheNext

LEMMA CacheIsTyped == CacheBounded => CacheTypeOK
  <1> SUFFICES ASSUME CacheBounded PROVE CacheTypeOK
    OBVIOUS
  <1>1. /\ time \in Nat /\ staleness \in Nat /\ slowness \in Nat /\ Version \in Nat
        /\ Ttl \in Nat /\ MaxClock \in Nat /\ MaxVersions \in Nat
        /\ DOMAIN replaced = 0..(Version - 1)
        /\ cache \in [Workers -> [value : 0..Version, until : Nat]]
        /\ running \in [CacheCalls -> CacheStates]
    BY CacheAssumption DEF CacheBounded, CacheInv, CacheTypes
  <1>2. cache \in [Workers -> [value : 0..MaxVersions, until : 0..(MaxClock + Ttl)]]
    <2>1. \A w \in Workers : cache[w] \in [value : 0..MaxVersions, until : 0..(MaxClock + Ttl)]
      BY <1>1 DEF CacheBounded
    <2> QED BY <1>1, <2>1
  <1>3. \A c \in CacheCalls :
          /\ running[c].at \in {"idle", "missed", "computed", "written", "scanned"}
          /\ running[c].value \in 0..Version /\ running[c].keys \subseteq Workers
    BY <1>1 DEF CacheBounded, CacheStates
  <1> QED BY <1>1, <1>2, <1>3 DEF CacheBounded, CacheTypeOK

-----------------------------------------------------------------------------
(* Error tracking *)

ErrorTyped == ErrorTypeOK /\ Len(tracked) <= MaxErrors

LEMMA ErrorsStart == ErrorInit => ErrorTyped
  BY ErrorTrackingAssumption DEF ErrorInit, ErrorTyped, ErrorTypeOK, Seconds

LEMMA ErrorTypes == ErrorTyped /\ [ErrorNext]_errorVars => ErrorTyped'
  <1> SUFFICES ASSUME ErrorTyped, [ErrorNext]_errorVars
               PROVE  ErrorTyped'
    OBVIOUS
  <1> USE ErrorTrackingAssumption
  <1>1. CASE UNCHANGED errorVars
    BY <1>1 DEF errorVars, ErrorTyped, ErrorTypeOK
  <1>2. CASE ErrorTick
    <2>1. second' \in Seconds
      BY <1>2 DEF ErrorTick, ErrorTyped, ErrorTypeOK, Seconds
    <2> QED BY <1>2, <2>1 DEF ErrorTick, ErrorTyped, ErrorTypeOK
  <1>3. ASSUME NEW error \in Exceptions, NEW endpoint \in Endpoints, NEW notify \in BOOLEAN,
               track_error(error, endpoint, notify)
        PROVE  ErrorTyped'
    <2>1. PICK g \in Groups : g = group_error(error, endpoint)
      BY DEF group_error, Groups
    <2>2. PICK severity \in {"warning", "error", "critical"} : severity = classify_severity(error)
      BY SeverityIs
    <2>3. PICK Entered : Entered = [time : Seconds, group : Groups, notify : BOOLEAN,
                                    severity : {"warning", "error", "critical"}]
      OBVIOUS
    <2>4. PICK Notes : Notes = [time : Seconds, group : Groups, type : {"immediate", "batch"}]
      OBVIOUS
    <2>5. /\ second \in Seconds /\ second' = second
          /\ tracked \in Seq(Entered) /\ notified \in Seq(Notes)
          /\ error_timestamps \in [Groups -> SUBSET Timestamps]
          /\ last_notification \in [Groups -> Seconds \cup {NeverNotified}]
      BY <1>3, <2>3, <2>4 DEF ErrorTyped, ErrorTypeOK, track_error
    <2>6. Len(tracked) \in Nat /\ Len(tracked) < MaxErrors
      BY <1>3, <2>5 DEF track_error
    <2>7. error_timestamps' \in [Groups -> SUBSET Timestamps]
      <3>1. PICK new : new = [error |-> Len(tracked) + 1, at |-> second]
        OBVIOUS
      <3>2. new \in Timestamps
        BY <2>5, <2>6, <3>1 DEF Timestamps
      <3>3. error_timestamps' = [error_timestamps EXCEPT ![g] = WithinRate(@ \cup {new})]
        BY <1>3, <2>1, <3>1 DEF track_error
      <3>4. WithinRate(error_timestamps[g] \cup {new}) \subseteq Timestamps
        BY <2>5, <3>2 DEF WithinRate
      <3> QED BY <2>5, <3>3, <3>4
    <2>8. tracked' \in Seq(Entered) /\ Len(tracked') <= MaxErrors
      <3>1. PICK new \in Entered :
              new = [time |-> second, group |-> g, notify |-> notify, severity |-> severity]
        BY <2>3, <2>5
      <3>2. tracked' = Append(tracked, new)
        BY <1>3, <2>1, <2>2, <3>1 DEF track_error
      <3>3. tracked' \in Seq(Entered) /\ Len(tracked') = Len(tracked) + 1
        BY <2>5, <3>2
      <3> QED BY <2>6, <3>3
    <2>9. /\ last_notification' \in [Groups -> Seconds \cup {NeverNotified}]
          /\ notified' \in Seq(Notes)
      <3>1. CASE UNCHANGED <<last_notification, notified>>
        BY <2>5, <3>1
      <3>2. ASSUME ~ UNCHANGED <<last_notification, notified>>
            PROVE  /\ last_notification' \in [Groups -> Seconds \cup {NeverNotified}]
                   /\ notified' \in Seq(Notes)
        <4>1. PICK type : type = notification_type(severity, g)
          OBVIOUS
        <4>2. type \in {"immediate", "batch"}
          BY <4>1 DEF notification_type
        <4>3. PICK new \in Notes : new = [time |-> second, group |-> g, type |-> type]
          BY <2>4, <2>5, <4>2
        <4>4. /\ notified' = Append(notified, new)
              /\ last_notification' = [last_notification EXCEPT ![g] = second]
          BY <1>3, <2>1, <2>2, <3>2, <4>1, <4>3 DEF track_error, _route_notification
        <4> QED BY <2>5, <4>4
      <3> QED BY <3>1, <3>2
    <2> QED BY <2>3, <2>4, <2>5, <2>7, <2>8, <2>9 DEF ErrorTyped, ErrorTypeOK
  <1> QED BY <1>1, <1>2, <1>3 DEF ErrorNext

-----------------------------------------------------------------------------
(* Alerts *)

LEMMA LeastOfIndices ==
  ASSUME NEW I \in SUBSET Nat, I # {}
  PROVE  Min(I) \in I
  <1>1. IsWellFoundedOn(OpToRel(<, Nat), Nat)
    BY NatLessThanWellFounded
  <1>2. PICK x \in I : \A y \in I : ~ (<<y, x>> \in OpToRel(<, Nat))
    BY <1>1, WFMin
  <1>3. ASSUME NEW y \in I
        PROVE  x <= y
    <2>1. OpToRel(<, Nat) = {ss \in Nat \X Nat : ss[1] < ss[2]}
      BY Zenon DEF OpToRel
    <2>2. <<y, x>> \in Nat \X Nat /\ <<y, x>>[1] = y /\ <<y, x>>[2] = x
      OBVIOUS
    <2>3. y < x => <<y, x>> \in OpToRel(<, Nat)
      BY <2>1, <2>2
    <2>4. x \in Nat /\ y \in Nat /\ ~ (y < x)
      BY <1>2, <2>3
    <2> QED BY <2>4
  <1> QED BY <1>3 DEF Min

LEMMA RemovedOnce ==
  ASSUME NEW given \in Seq(Rules), NEW rule
  PROVE  RemoveFirst(given, rule) \in Seq(Rules)
  <1>1. PICK I : I = {i \in 1..Len(given) : given[i] = rule}
    OBVIOUS
  <1>2. CASE I = {}
    BY <1>1, <1>2 DEF RemoveFirst
  <1>3. CASE I # {}
    <2>1. I \in SUBSET Nat
      BY <1>1
    <2>2. PICK i \in 1..Len(given) : i = Min(I)
      BY <1>1, <1>3, <2>1, LeastOfIndices
    <2>3. RemoveFirst(given, rule) = RemoveAt(given, i)
      BY <1>1, <1>3, <2>2 DEF RemoveFirst, SelectInSeq
    <2>4. SubSeq(given, 1, i - 1) \in Seq(Rules) /\ SubSeq(given, i + 1, Len(given)) \in Seq(Rules)
      OBVIOUS
    <2> QED BY <2>3, <2>4 DEF RemoveAt
  <1> QED BY <1>2, <1>3

\* The rules, listed.
LEMMA RulesListed ==
  ASSUME NEW given \in SUBSET Rules
  PROVE  SetToSeq(given) \in Seq(Rules)
  <1> DEFINE a == {"high_error_rate_warning"} \cup {"high_error_rate_critical"}
                    \cup {"high_latency_p95_warning"} \cup {"high_latency_p95_critical"}
             b == {"db_connections_high"} \cup {"db_query_slow"} \cup {"disk_space_critical"}
                    \cup {"memory_high"} \cup {"cpu_high"}
  <1>1. IsFiniteSet(a) /\ IsFiniteSet(b)
    BY FS_Singleton, FS_Union
  <1>2. given \in SUBSET (a \cup b)
    BY DEF Rules, DEFAULT_ALERT_RULES
  <1> HIDE DEF a, b
  <1>3. IsFiniteSet(given)
    BY <1>1, <1>2, FS_Union, FS_Subset
  <1>4. SetToSeq(given) \in [1..Cardinality(given) -> given] /\ Cardinality(given) \in Nat
    BY <1>3, ListedSet
  <1>5. \A n \in Nat : \A f \in [1..n -> given] : f \in Seq(Rules)
    OBVIOUS
  <1> QED BY <1>4, <1>5

AlertBounded ==
  /\ AlertInv
  /\ now <= MaxAlertTime /\ ruleChanges \in 0..MaxRuleChanges
  /\ rules \in Seq(Rules) /\ disabled \subseteq Rules
  /\ \A r \in Rules : Never <= tracking[r].last /\ tracking[r].last <= now
  /\ \A e \in Evaluations :
       /\ evaluation[e].todo \in Seq(Rules)
       /\ evaluation[e].rule \in Rules \cup {"none"}
       /\ evaluation[e].rule # "none" => evaluation[e].todo # <<>>

LEMMA AlertsBegin == AlertsInit => AlertBounded
  <1> SUFFICES ASSUME AlertsInit PROVE AlertBounded
    OBVIOUS
  <1>1. AlertInv
    BY AlertsStart
  <1>2. rules \in Seq(Rules)
    BY RulesListed DEF AlertsInit
  <1>3. \A r \in Rules : tracking[r].last = -Cooldown /\ -Cooldown <= 0
    BY AlertsAssumption DEF AlertsInit, Never
  <1>4. \A e \in Evaluations : evaluation[e].todo = <<>> /\ evaluation[e].rule = "none"
    BY AtRestFields DEF AlertsInit
  <1>5. \A r \in Rules : Never <= tracking[r].last /\ tracking[r].last <= 0
    BY <1>3, AlertsAssumption DEF Never
  <1>6. now = 0 /\ ruleChanges = 0 /\ disabled = {}
    BY DEF AlertsInit
  <1>7. 0 <= MaxAlertTime /\ 0 \in 0..MaxRuleChanges
    BY AlertsAssumption
  <1>8. \A e \in Evaluations :
          /\ evaluation[e].todo \in Seq(Rules)
          /\ evaluation[e].rule \in Rules \cup {"none"}
          /\ evaluation[e].rule # "none" => evaluation[e].todo # <<>>
    <2>1. <<>> \in Seq(Rules)
      OBVIOUS
    <2> QED BY <1>4, <2>1
  <1> QED BY <1>1, <1>2, <1>5, <1>6, <1>7, <1>8 DEF AlertBounded

LEMMA AlertBounds == AlertBounded /\ [AlertsNext]_alertVars => AlertBounded'
  <1> SUFFICES ASSUME AlertBounded, [AlertsNext]_alertVars
               PROVE  AlertBounded'
    OBVIOUS
  <1>1. AlertInv /\ AlertInv'
    BY AlertStep DEF AlertBounded
  <1>2. /\ now \in Nat /\ DOMAIN evaluation = Evaluations
        /\ \A e \in Evaluations :
             /\ DOMAIN evaluation[e] = EvaluationFields
             /\ evaluation[e].rule # "none" => evaluation[e].since \in 0..now
        /\ tracking \in [Rules -> [last : Int, count : Nat]]
        /\ Cooldown \in Nat /\ Never = -Cooldown
        /\ MaxAlertTime \in Nat /\ MaxRuleChanges \in Nat
    BY <1>1, AlertsAssumption DEF AlertInv, EvaluationsInv, AlertTypes, Never
  <1>3. \A e \in Evaluations :
          /\ evaluation[e].todo \in Seq(Rules)
          /\ evaluation[e].rule \in Rules \cup {"none"}
          /\ evaluation[e].rule # "none" => evaluation[e].todo # <<>>
    BY DEF AlertBounded
  <1>4. CASE UNCHANGED alertVars
    BY <1>1, <1>4 DEF alertVars, AlertBounded
  <1>5. CASE AlertTick
    <2>1. /\ now' = now + 1 /\ now < MaxAlertTime /\ rules' = rules /\ disabled' = disabled
          /\ tracking' = tracking /\ evaluation' = evaluation /\ ruleChanges' = ruleChanges
      BY <1>5 DEF AlertTick
    <2>2. \A r \in Rules : Never <= tracking[r].last /\ tracking[r].last <= now + 1
      BY <1>2 DEF AlertBounded
    <2> QED BY <1>1, <1>2, <2>1, <2>2 DEF AlertBounded
  <1>6. ASSUME NEW e \in Evaluations, NEW new, evaluation' = [evaluation EXCEPT ![e] = new],
               new.todo \in Seq(Rules), new.rule \in Rules \cup {"none"},
               new.rule # "none" => new.todo # <<>>,
               now' = now, rules' = rules, disabled' = disabled, ruleChanges' = ruleChanges,
               \A r \in Rules : Never <= tracking'[r].last /\ tracking'[r].last <= now
        PROVE  AlertBounded'
    <2>1. \A d \in Evaluations :
            /\ evaluation'[d].todo \in Seq(Rules)
            /\ evaluation'[d].rule \in Rules \cup {"none"}
            /\ evaluation'[d].rule # "none" => evaluation'[d].todo # <<>>
      BY <1>2, <1>3, <1>6
    <2> QED BY <1>1, <1>6, <2>1 DEF AlertBounded
  <1>7. \A r \in Rules : Never <= tracking[r].last /\ tracking[r].last <= now
    BY DEF AlertBounded
  <1>8. ASSUME NEW e \in Evaluations, NEW values \in [Metrics -> MetricValues],
               evaluate_rules(e, values)
        PROVE  AlertBounded'
    <2>1. PICK new : new = [NothingToDo EXCEPT !.todo = rules, !.values = values, !.current = TRUE]
      OBVIOUS
    <2>2. new.todo = rules /\ new.rule = "none"
      BY <2>1 DEF NothingToDo
    <2>3. rules \in Seq(Rules)
      BY DEF AlertBounded
    <2> QED BY <1>6, <1>7, <1>8, <2>1, <2>2, <2>3 DEF evaluate_rules
  <1>9. ASSUME NEW e \in Evaluations, evaluation[e].todo # <<>>
        PROVE  After(e).todo \in Seq(Rules) /\ After(e).rule = "none"
    <2>1. CASE Len(evaluation[e].todo) = 1
      <3>1. After(e) = NothingToDo
        BY <2>1 DEF After
      <3> QED BY <3>1, AtRestFields
    <2>2. CASE Len(evaluation[e].todo) # 1
      <3>1. Tail(evaluation[e].todo) \in Seq(Rules)
        BY <1>3, <1>9
      <3>2. After(e) = [evaluation[e] EXCEPT !.todo = Tail(evaluation[e].todo), !.rule = "none"]
        BY <2>2 DEF After
      <3>3. After(e).todo = Tail(evaluation[e].todo) /\ After(e).rule = "none"
        BY <1>2, <3>2 DEF EvaluationFields
      <3> QED BY <3>1, <3>3
    <2> QED BY <2>1, <2>2
  <1>10. ASSUME NEW e \in Evaluations, skip_rule(e)
         PROVE  AlertBounded'
    BY <1>6, <1>7, <1>9, <1>10 DEF skip_rule, Between
  <1>11. ASSUME NEW e \in Evaluations, _trigger_alert(e)
         PROVE  AlertBounded'
    <2>1. PICK new : new = [evaluation[e] EXCEPT !.rule = Head(evaluation[e].todo), !.since = now]
      OBVIOUS
    <2>2. new.todo = evaluation[e].todo /\ new.rule = Head(evaluation[e].todo)
      BY <1>2, <2>1 DEF EvaluationFields
    <2>3. evaluation[e].todo # <<>> /\ Head(evaluation[e].todo) \in Rules
      BY <1>3, <1>11 DEF _trigger_alert, Between
    <2>4. /\ now' = now /\ rules' = rules /\ disabled' = disabled
          /\ ruleChanges' = ruleChanges /\ tracking' = tracking
          /\ evaluation' = [evaluation EXCEPT ![e] = new]
      BY <1>2, <1>11, <2>1 DEF _trigger_alert
    <2> QED BY <1>3, <1>6, <1>7, <2>2, <2>3, <2>4
  <1>12. ASSUME NEW e \in Evaluations, update_tracking(e)
         PROVE  AlertBounded'
    <2>1. PICK rule \in Rules : rule = evaluation[e].rule /\ rule # "none"
      BY <1>3, <1>12 DEF update_tracking
    <2>2. PICK since \in 0..now : since = evaluation[e].since
      BY <1>2, <2>1
    <2>3. /\ now' = now /\ rules' = rules /\ disabled' = disabled
          /\ ruleChanges' = ruleChanges
          /\ evaluation' = [evaluation EXCEPT ![e] = After(e)]
          /\ tracking' = [tracking EXCEPT ![rule] = Noted(rule, since)]
      BY <1>12, <2>1, <2>2 DEF update_tracking
    <2>4. \A r \in Rules : tracking'[r].last = IF r = rule THEN since ELSE tracking[r].last
      BY <1>2, <2>3 DEF Noted
    <2>5. \A r \in Rules : Never <= tracking'[r].last /\ tracking'[r].last <= now
      BY <1>2, <1>7, <2>4
    <2>6. evaluation[e].todo # <<>>
      BY <1>3, <2>1
    <2> QED BY <1>6, <1>9, <2>3, <2>5, <2>6
  <1>13. ASSUME NEW rule \in Rules,
                add_rule(rule) \/ remove_rule(rule) \/ enable_rule(rule) \/ disable_rule(rule)
         PROVE  AlertBounded'
    <2>1. /\ now' = now /\ tracking' = tracking /\ ruleChanges' \in 0..MaxRuleChanges
      <3>1. ruleChanges' = ruleChanges + 1 /\ ruleChanges < MaxRuleChanges
        BY <1>13 DEF add_rule, remove_rule, enable_rule, disable_rule, ChangesRules
      <3>2. ruleChanges + 1 \in 0..MaxRuleChanges
        BY <1>2, <3>1 DEF AlertBounded
      <3> QED BY <1>13, <3>1, <3>2 DEF add_rule, remove_rule, enable_rule, disable_rule
    <2>2. rules' \in Seq(Rules)
      <3>1. rules \in Seq(Rules)
        BY DEF AlertBounded
      <3>2. CASE remove_rule(rule)
        BY <3>1, <3>2, RemovedOnce DEF remove_rule
      <3>3. CASE ~remove_rule(rule)
        BY <1>13, <3>1, <3>3 DEF add_rule, enable_rule, disable_rule
      <3> QED BY <3>2, <3>3
    <2>3. disabled' \subseteq Rules
      BY <1>13 DEF add_rule, remove_rule, enable_rule, disable_rule, AlertBounded
    <2>4. \A e \in Evaluations :
            /\ evaluation'[e].todo \in Seq(Rules)
            /\ evaluation'[e].rule \in Rules \cup {"none"}
            /\ evaluation'[e].rule # "none" => evaluation'[e].todo # <<>>
      <3> SUFFICES ASSUME NEW e \in Evaluations
                   PROVE  /\ evaluation'[e].todo \in Seq(Rules)
                          /\ evaluation'[e].rule \in Rules \cup {"none"}
                          /\ evaluation'[e].rule # "none" => evaluation'[e].todo # <<>>
        OBVIOUS
      <3>1. CASE evaluation'[e] = evaluation[e]
        BY <1>3, <3>1
      <3>2. CASE add_rule(rule) /\ evaluation[e].current
        <4>1. evaluation'[e] = [evaluation[e] EXCEPT !.todo = Append(@, rule)]
          BY <3>2 DEF add_rule
        <4>2. evaluation'[e].todo = Append(evaluation[e].todo, rule)
              /\ evaluation'[e].rule = evaluation[e].rule
          BY <1>2, <4>1 DEF EvaluationFields
        <4>3. Append(evaluation[e].todo, rule) \in Seq(Rules)
              /\ Append(evaluation[e].todo, rule) # <<>>
          <5>1. PICK todo \in Seq(Rules) : todo = evaluation[e].todo
            BY <1>3
          <5>2. /\ Append(todo, rule) \in Seq(Rules)
                /\ Len(Append(todo, rule)) = Len(todo) + 1 /\ Len(todo) \in Nat
            OBVIOUS
          <5>3. Append(todo, rule) # <<>>
            BY <5>2
          <5> QED BY <5>1, <5>2, <5>3
        <4> QED BY <1>3, <4>2, <4>3
      <3>3. CASE remove_rule(rule) /\ ~AtRest(e)
        <4>1. evaluation'[e] = [evaluation[e] EXCEPT !.current = FALSE]
          BY <3>3 DEF remove_rule
        <4>2. evaluation'[e].todo = evaluation[e].todo /\ evaluation'[e].rule = evaluation[e].rule
          BY <1>2, <4>1 DEF EvaluationFields
        <4> QED BY <1>3, <4>2
      <3>4. evaluation'[e] = evaluation[e] \/ (add_rule(rule) /\ evaluation[e].current)
            \/ (remove_rule(rule) /\ ~AtRest(e))
        BY <1>13 DEF add_rule, remove_rule, enable_rule, disable_rule, AtRest
      <3> QED BY <3>1, <3>2, <3>3, <3>4
    <2> QED BY <1>1, <1>7, <2>1, <2>2, <2>3, <2>4 DEF AlertBounded
  <1> QED BY <1>4, <1>5, <1>8, <1>10, <1>11, <1>12, <1>13 DEF AlertsNext

LEMMA AlertsAreTyped == AlertBounded => AlertsTypeOK
  <1> SUFFICES ASSUME AlertBounded PROVE AlertsTypeOK
    OBVIOUS
  <1>1. /\ now \in Nat /\ MaxAlertTime \in Nat /\ Never \in Int
        /\ tracking \in [Rules -> [last : Int, count : Nat]]
        /\ alerts \in [Rules -> Seq(Entries)]
    BY AlertsAssumption DEF AlertBounded, AlertInv, EvaluationsInv, AlertTypes, Never
  <1>2. now <= MaxAlertTime
    BY DEF AlertBounded
  <1>3. tracking \in [Rules -> [last : Never..MaxAlertTime, count : Nat]]
    <2>1. \A r \in Rules : tracking[r] \in [last : Never..MaxAlertTime, count : Nat]
      BY <1>1, <1>2 DEF AlertBounded
    <2> QED BY <1>1, <2>1
  <1>4. alerts \in [Rules -> Seq([time : 0..MaxAlertTime, escalated : BOOLEAN])]
    <2>1. PICK Dated : Dated = [time : 0..MaxAlertTime, escalated : BOOLEAN]
      OBVIOUS
    <2>2. ASSUME NEW r \in Rules
          PROVE  alerts[r] \in Seq(Dated)
      <3>1. PICK log \in Seq(Entries) : log = alerts[r]
        BY <1>1
      <3>2. \A i \in 1..Len(log) : log[i].time <= now
        BY <3>1 DEF AlertBounded, AlertInv, RuleInv
      <3>3. ASSUME NEW i \in 1..Len(log)
            PROVE  log[i] \in Dated
        <4>1. log[i] \in Entries /\ log[i].time \in Nat /\ log[i].time <= now
          BY <3>2, LogEntries
        <4>2. log[i].time \in 0..MaxAlertTime
          BY <1>1, <1>2, <4>1
        <4> QED BY <2>1, <4>1, <4>2 DEF Entries
      <3> QED BY <3>1, <3>3
    <2> QED BY <1>1, <2>1, <2>2
  <1>5. now \in 0..MaxAlertTime
    BY <1>1, <1>2
  <1> QED BY <1>3, <1>4, <1>5 DEF AlertBounded, AlertsTypeOK

-----------------------------------------------------------------------------
(* Scanners *)

ScannersTyped ==
  /\ ScanInv /\ ScannersTypeOK
  /\ phase = "listing" => registered # <<>>

LEMMA ScannersStart == ScannersInit => ScannersTyped
  <1> SUFFICES ASSUME ScannersInit PROVE ScannersTyped
    OBVIOUS
  <1>1. registered \in Seq(Scanners)
    <2>1. \A n \in Nat : \A f \in [1..n -> Scanners] : f \in Seq(Scanners)
      OBVIOUS
    <2> QED BY <2>1 DEF ScannersInit
  <1>2. DOMAIN scanned = {} /\ DOMAIN found = {}
    BY DEF ScannersInit
  <1>3. phase = "opening" /\ failing = {} /\ faultsLeft \in 0..MaxFaults
    BY ScannersAssumption DEF ScannersInit
  <1> QED BY <1>1, <1>2, <1>3 DEF ScannersTyped, ScannersTypeOK, ScanInv

LEMMA ScannersTypes == ScannersTyped /\ [ScannersNext]_scannerVars => ScannersTyped'
  <1> SUFFICES ASSUME ScannersTyped, [ScannersNext]_scannerVars
               PROVE  ScannersTyped'
    OBVIOUS
  <1>1. ScanInv'
    BY ScanStep DEF ScannersTyped
  <1>2. /\ registered \in Seq(Scanners) /\ phase \in {"opening", "listing", "ended"}
        /\ failing \subseteq Scanners
        /\ DOMAIN scanned = DOMAIN found /\ DOMAIN scanned \subseteq Scanners
        /\ \A s \in DOMAIN scanned : scanned[s] \subseteq Places
        /\ faultsLeft \in 0..MaxFaults
        /\ phase = "listing" => registered # <<>>
    BY DEF ScannersTyped, ScannersTypeOK
  <1>3. registered # <<>> => Current \in Scanners /\ Tail(registered) \in Seq(Scanners)
    BY <1>2 DEF Current
  <1>4. CASE UNCHANGED scannerVars
    BY <1>1, <1>2, <1>4 DEF scannerVars, ScannersTyped, ScannersTypeOK
  <1>5. ASSUME Fault PROVE faultsLeft' \in 0..MaxFaults
    <2>1. faultsLeft - 1 \in 0..MaxFaults
      BY <1>2, <1>5, ScannersAssumption DEF Fault
    <2> QED BY <1>5, <2>1 DEF Fault
  <1>6. ASSUME Opening, NEW places, ToSet(places) \subseteq Places, Opens(places),
               failing' \subseteq Scanners, faultsLeft' \in 0..MaxFaults
        PROVE  ScannersTyped'
    <2>1. /\ Current \in Scanners /\ phase' = "listing" /\ registered' = registered
          /\ registered # <<>>
      BY <1>3, <1>6 DEF Opening, Opens
    <2>2. /\ DOMAIN scanned' = DOMAIN scanned \cup {Current}
          /\ DOMAIN found' = DOMAIN found \cup {Current}
          /\ \A s \in DOMAIN scanned' :
               scanned'[s] = IF s = Current THEN ToSet(places) ELSE scanned[s]
      BY <1>6 DEF Opens
    <2>3. \A s \in DOMAIN scanned' : scanned'[s] \subseteq Places
      BY <1>2, <1>6, <2>2
    <2>4. DOMAIN scanned' = DOMAIN found' /\ DOMAIN scanned' \subseteq Scanners
      BY <1>2, <2>1, <2>2
    <2> QED BY <1>1, <1>2, <1>6, <2>1, <2>3, <2>4 DEF ScannersTyped, ScannersTypeOK
  <1>7. \A P \in SUBSET Places : ToSet(SetToSeq(P)) \subseteq Places
    BY ScannersAssumption, ListedSet, FS_Subset
  <1>8. ToSet(<<>>) \subseteq Places
    BY DEF ToSet
  <1>9. CASE open
    BY <1>2, <1>6, <1>7, <1>9 DEF open
  <1>10. CASE open_without_target \/ open_failing
    <2>1. Opening /\ Opens(<<>>) /\ failing' = failing \cup {Current}
          /\ faultsLeft' \in 0..MaxFaults
      BY <1>2, <1>5, <1>10 DEF open_without_target, open_failing
    <2>2. failing' \subseteq Scanners
      BY <1>2, <1>3, <2>1 DEF Opening
    <2> QED BY <1>6, <1>8, <2>1, <2>2
  <1>11. CASE open_gcp_partly
    BY <1>2, <1>5, <1>6, <1>7, <1>11 DEF open_gcp_partly
  <1>12. ASSUME Listing, phase' = phase, registered' = registered, scanned' = scanned,
                DOMAIN found' = DOMAIN found, failing' \in {failing, failing \cup {Current}},
                faultsLeft' \in 0..MaxFaults
         PROVE  ScannersTyped'
    BY <1>1, <1>2, <1>3, <1>12 DEF ScannersTyped, ScannersTypeOK, Listing
  <1>13. CASE list
    BY <1>2, <1>12, <1>13 DEF list, Finds
  <1>14. CASE list_failing
    <2>1. DOMAIN found' = DOMAIN found
      BY <1>14 DEF list_failing, Finds
    <2> QED BY <1>5, <1>12, <1>14, <2>1 DEF list_failing
  <1>15. CASE list_raising
    BY <1>5, <1>12, <1>15 DEF list_raising
  <1>16. CASE finish_scanner
    BY <1>1, <1>2, <1>3, <1>16 DEF finish_scanner, ScannersTyped, ScannersTypeOK
  <1>17. CASE discover_all
    BY <1>1, <1>2, <1>17 DEF discover_all, ScannersTyped, ScannersTypeOK
  <1> QED BY <1>4, <1>9, <1>10, <1>11, <1>13, <1>14, <1>15, <1>16, <1>17 DEF ScannersNext

-----------------------------------------------------------------------------
(* The services together *)

\* A step is one of the part that was chosen, and leaves the others as they are.
LEMMA StepOfPart ==
  ASSUME [Next]_vars
  PROVE  /\ part' = part
         /\ part = "snapshots" => [SnapshotNext]_<<snapshotVars, requestVars>>
         /\ part = "inventory" => [InventoryNext]_<<inventoryVars, requestVars>>
         /\ part = "accounts" => [AccountsNext]_<<accountVars, requestVars>>
         /\ part = "settings" => [SettingsNext]_<<settingsVars, requestVars>>
         /\ part = "connections" => [ConnectionsNext]_<<connectionVars, requestVars>>
         /\ part = "discussion" => [CollaborationNext]_<<discussion, requestVars>>
         /\ part = "tags" => [TagsNext]_<<tagVars, requestVars>>
         /\ part # "snapshots" => UNCHANGED snapshotVars
         /\ part # "inventory" => UNCHANGED inventoryVars
         /\ part # "accounts" => UNCHANGED accountVars
         /\ part # "settings" => UNCHANGED settingsVars
         /\ part # "connections" => UNCHANGED connectionVars
         /\ part # "discussion" => UNCHANGED discussion
         /\ part # "tags" => UNCHANGED tagVars
         /\ [RateNext]_rateVars
         /\ [BackupNext]_backupVars
         /\ [DiscoveryNext]_discoveryVars
         /\ [CircuitNext]_circuitVars
         /\ [ScannersNext]_scannerVars
         /\ [NotificationsNext]_notificationVars
         /\ [CacheNext]_cacheVars
         /\ [AlertsNext]_alertVars
         /\ [ErrorNext]_errorVars
         /\ [ScoringNext]_factors
  <1>1. CASE UNCHANGED vars
    BY <1>1 DEF vars
  <1>2. CASE Next
    BY <1>2 DEF Next
  <1> QED BY <1>1, <1>2

\* The requests of the part that was chosen keep its tables; those of the
\* others are as they were made.
RequestsInv ==
  /\ part = "snapshots" => SnapshotTyped /\ SnapshotInv
  /\ part = "inventory" => InventoryInv
  /\ part = "accounts" => AInv
  /\ part = "settings" => SettingsInv
  /\ part = "connections" => ConnectionsInv
  /\ part = "discussion" => DiscussionInv
  /\ part = "tags" => TagsInv

UntouchedInv ==
  /\ part # "snapshots" => \A r \in Rollbacks : runs[r] = 0 /\ records.status[r] = "absent"
  /\ part # "inventory" => FindingsKept
  /\ part # "accounts" => InviteUsedOnce
  /\ part # "settings" => settings.stored = told.stored
  /\ part # "connections" => DOMAIN connections = {}
  /\ part # "tags" => LabelsAgree(mergedNames)

OthersInv ==
  /\ LimitInv /\ BackupInv /\ DiscoveryInv /\ CircuitTyped /\ ScannersTyped
  /\ NotificationsInv /\ CacheBounded /\ AlertBounded
  /\ ErrorTyped /\ ErrorInv
  /\ ScoringTypeOK

ServicesInv == RequestsInv /\ UntouchedInv /\ OthersInv

LEMMA ServicesStart == Init => ServicesInv
  <1> SUFFICES ASSUME Init PROVE ServicesInv
    OBVIOUS
  <1>1. RequestsInv
    BY SnapshotsStart, SnapshotStart, InventoryStarts, InitAInv, SettingsStart,
       ConnectionsStart, DiscussionStart, TagsStart DEF Init, RequestsInv
  <1>2. UntouchedInv
    <2>1. \A r \in Rollbacks : runs[r] = 0 /\ records.status[r] = "absent"
      BY DEF Init, SnapshotInit
    <2>2. FindingsKept
      BY InventoryStarts DEF Init, InventoryInv, FindingsKept
    <2>3. InviteUsedOnce
      BY DEF Init, AccountsInit, InviteUsedOnce
    <2>4. settings.stored = told.stored
      BY DEF Init, SettingsInit
    <2>5. DOMAIN connections = {}
      BY DEF Init, ConnectionsInit
    <2>6. LabelsAgree(mergedNames)
      BY DEF Init, TagsInit, LabelsAgree
    <2> QED BY <2>1, <2>2, <2>3, <2>4, <2>5, <2>6 DEF UntouchedInv
  <1>3. OthersInv
    BY LimitStart, BackupStart, DiscoveryStart, CircuitStarts, ScannersStart,
       NotificationsStart, CacheStarts, AlertsBegin, ErrorsStart, ErrorStart, FactorsStart
       DEF Init, OthersInv
  <1> QED BY <1>1, <1>2, <1>3 DEF ServicesInv

LEMMA ServicesStep == ServicesInv /\ [Next]_vars => ServicesInv'
  <1> SUFFICES ASSUME ServicesInv, [Next]_vars PROVE ServicesInv'
    OBVIOUS
  <1>1. RequestsInv'
    BY StepOfPart, SnapshotsTyped, SnapshotStep, InventoryStep, NextAInv, SettingsStep,
       ConnectionsStep, DiscussionStep, TagsStep DEF ServicesInv, RequestsInv
  <1>2. UntouchedInv'
    <2>1. part' = part
      BY StepOfPart
    <2>2. part # "snapshots" => runs' = runs /\ records' = records
      BY StepOfPart DEF snapshotVars
    <2>3. part # "inventory" => inventory' = inventory /\ reported' = reported
      BY StepOfPart DEF inventoryVars
    <2>4. part # "accounts" => joined' = joined
      BY StepOfPart DEF accountVars
    <2>5. part # "settings" => settings' = settings /\ told' = told
      BY StepOfPart DEF settingsVars
    <2>6. part # "connections" => connections' = connections
      BY StepOfPart DEF connectionVars
    <2>7. part # "tags" => LabelsAgree(mergedNames)'
      BY StepOfPart DEF tagVars, LabelsAgree, ServicesInv, UntouchedInv
    <2>8. part # "inventory" => FindingsKept'
      BY <2>3 DEF ServicesInv, UntouchedInv, FindingsKept, AcknowledgedKept, FindingsLinked
    <2>9. part # "accounts" => InviteUsedOnce'
      BY <2>4 DEF ServicesInv, UntouchedInv, InviteUsedOnce
    <2> QED BY <2>1, <2>2, <2>5, <2>6, <2>7, <2>8, <2>9 DEF ServicesInv, UntouchedInv
  <1>3. OthersInv'
    BY StepOfPart, LimitStep, BackupStep, DiscoveryStep, CircuitTypes, ScannersTypes,
       NotificationsStep, CacheBounds, AlertBounds, ErrorTypes, ErrorStep, FactorsStep
       DEF ServicesInv, OthersInv
  <1> QED BY <1>1, <1>2, <1>3 DEF ServicesInv

LEMMA ServicesInvariance == Spec => []ServicesInv
  BY ServicesStart, ServicesStep, PTL DEF Spec

\* Every part keeps to its types and to the bounds on what it counts, whichever
\* of its handlers and jobs overlap.
THEOREM ServicesTyped == Spec => []TypeOK
  <1>1. ServicesInv => TypeOK
    <2> SUFFICES ASSUME ServicesInv PROVE TypeOK
      OBVIOUS
    <2>1. SnapshotTyped => SnapshotTypeOK
      BY DEF SnapshotTyped, SnapshotTypeOK
    <2>2. /\ part = "snapshots" => SnapshotTypeOK
          /\ part = "inventory" => InventoryTypeOK
          /\ part = "accounts" => AccountsTypeOK
          /\ part = "settings" => SettingsTypeOK
          /\ part = "connections" => ConnectionsTypeOK
          /\ part = "discussion" => CollaborationTypeOK
          /\ part = "tags" => TagsTypeOK
      BY <2>1 DEF ServicesInv, RequestsInv, InventoryInv, AInv, SettingsInv, ConnectionsInv,
                  DiscussionInv, TagsInv
    <2>3. /\ RateTypeOK /\ BackupTypeOK /\ DiscoveryTypeOK /\ ScannersTypeOK
          /\ NotificationsTypeOK /\ ErrorTypeOK /\ ScoringTypeOK
      BY DEF ServicesInv, OthersInv, LimitInv, BackupInv, DiscoveryInv, ScannersTyped,
             NotificationsInv, ErrorTyped
    <2>4. CircuitTypeOK /\ CacheTypeOK /\ AlertsTypeOK
      BY CircuitIsTyped, CacheIsTyped, AlertsAreTyped DEF ServicesInv, OthersInv
    <2> QED BY <2>2, <2>3, <2>4 DEF TypeOK
  <1> QED BY <1>1, ServicesInvariance, PTL

\* What the parts promise, each proved of its own specification, they promise
\* here too: whichever is chosen, the run's safety invariants hold of all.
THEOREM ServicesKept ==
  Spec => []( /\ RollbackOnceToOriginal /\ FindingsKept /\ InviteUsedOnce /\ UpdatesKept
              /\ ConnectionVerdicts /\ TagsFollow
              /\ WithinLimit /\ BackupsUsable /\ MemoryAgrees /\ FewProbes
              /\ NothingMissedSilently /\ InAppAlways /\ FreshEnough
              /\ AlertsDisciplined /\ TroubleIsHeard )
  <1> DEFINE OfRequests == /\ RollbackOnceToOriginal /\ FindingsKept /\ InviteUsedOnce
                           /\ UpdatesKept /\ ConnectionVerdicts /\ TagsFollow
             OfTasks == /\ WithinLimit /\ BackupsUsable /\ MemoryAgrees /\ FewProbes
                        /\ NothingMissedSilently /\ InAppAlways /\ FreshEnough
                        /\ AlertsDisciplined /\ TroubleIsHeard
  <1>1. ServicesInv => OfRequests
    <2> SUFFICES ASSUME ServicesInv PROVE OfRequests
      OBVIOUS
    <2>1. RollbackOnceToOriginal
      <3>1. CASE part = "snapshots"
        BY <3>1, RollbacksCounted DEF ServicesInv, RequestsInv
      <3>2. CASE part # "snapshots"
        <4>1. Cardinality(Sessions) \in Nat
          BY SnapshotAssumption, FS_CardinalityType
        <4>2. 0 <= 1 + Overlap
          BY <4>1 DEF Overlap
        <4> QED BY <3>2, <4>2 DEF ServicesInv, UntouchedInv, RollbackOnceToOriginal,
                                  RollbackRunsOnce, RollbackRestoresOriginal
      <3> QED BY <3>1, <3>2
    <2>2. FindingsKept
      BY DEF ServicesInv, RequestsInv, UntouchedInv, InventoryInv, FindingsKept
    <2>3. InviteUsedOnce
      BY DEF ServicesInv, RequestsInv, UntouchedInv, AInv, InviteFor, AccountsTypeOK,
             InviteUsedOnce
    <2>4. UpdatesKept
      BY DEF ServicesInv, RequestsInv, UntouchedInv, SettingsInv, DocumentCurrent, UpdatesKept
    <2>5. ConnectionVerdicts
      BY DEF ServicesInv, RequestsInv, UntouchedInv, ConnectionsInv, RowsCurrent, Shown,
             ConnectionVerdicts
    <2>6. TagsFollow
      BY DEF ServicesInv, RequestsInv, UntouchedInv, TagsInv, LabelsCurrent, LabelsAgree,
             TagsFollow
    <2> QED BY <2>1, <2>2, <2>3, <2>4, <2>5, <2>6
  <1>2. ServicesInv => OfTasks
    <2> SUFFICES ASSUME ServicesInv PROVE OfTasks
      OBVIOUS
    <2>1. WithinLimit /\ BackupsUsable /\ NothingMissedSilently /\ AlertsDisciplined
      BY LimitEnough, BackupsKept, ScanMissesNothing, AlertsFollow
         DEF ServicesInv, OthersInv, ScannersTyped, AlertBounded
    <2>2. MemoryAgrees /\ TroubleIsHeard
      BY DEF ServicesInv, OthersInv, DiscoveryInv, ErrorInv
    <2>3. FewProbes
      BY CircuitAssumption DEF ServicesInv, OthersInv, CircuitTyped, CircuitInv, Circuits, FewProbes
    <2>4. InAppAlways
      BY DEF ServicesInv, OthersInv, NotificationsInv, InAppLast, InAppAlways
    <2>5. FreshEnough
      BY DEF ServicesInv, OthersInv, CacheBounded, CacheInv, Expires, Undisturbed, FreshEnough
    <2> QED BY <2>1, <2>2, <2>3, <2>4, <2>5
  <1> QED BY <1>1, <1>2, ServicesInvariance, PTL

\* What a step of the services may never do: leave a tenant without its
\* administrator, let somebody in by a deleted invite, bring back a comment or
\* an entry, or rank a finding lower for having become worse.
THEOREM ServicesNeverUndo == Spec => AccessKept /\ DeletionIsFinal /\ WorseNeverLower
  <1> DEFINE Admins == isolated => \A t \in Tenants : HasAdmin(accounts, t) => HasAdmin(accounts, t)'
             Revoked == \A i \in Invites :
                          accounts.invite[i] = "deleted" => joined'[i] = joined[i]
             Ranked == AsBad(factors, factors')
                         => /\ calculate_score(factors) <= calculate_score(factors')
                            /\ Urgency[Recommended(factors)] <= Urgency[Recommended(factors')]
  <1>1. ServicesInv /\ [Next]_vars => [Admins]_accounts /\ [Revoked]_joined
    <2> SUFFICES ASSUME ServicesInv, [Next]_vars
                 PROVE  [Admins]_accounts /\ [Revoked]_joined
      OBVIOUS
    <2>1. CASE part = "accounts"
      <3>1. AInv /\ [AccountsNext]_<<accountVars, requestVars>>
        BY <2>1, StepOfPart DEF ServicesInv, RequestsInv
      <3>2. [AdminKept]_accounts /\ [Revoked]_joined
        BY <3>1, AdminStep, RevokedStep
      <3>3. [Admins]_accounts
        BY <3>2 DEF AdminKept, HasAdmin, IsAdmin
      <3> QED BY <3>2, <3>3
    <2>2. CASE part # "accounts"
      BY <2>2, StepOfPart DEF accountVars
    <2> QED BY <2>1, <2>2
  <1>2. ServicesInv /\ [Next]_vars => [Final]_discussion
    BY StepOfPart, DiscussionStep DEF ServicesInv, RequestsInv
  <1>3. ServicesInv /\ ServicesInv' => [Ranked]_factors
    BY ScoresFollow, ActionsFollow DEF ServicesInv, OthersInv, ScoringTypeOK
  <1>4. Spec => [][Admins]_accounts /\ [][Revoked]_joined
    BY <1>1, ServicesInvariance, PTL DEF Spec
  <1>5. Spec => [][Final]_discussion
    BY <1>2, ServicesInvariance, PTL DEF Spec
  <1>6. Spec => [][Ranked]_factors
    BY <1>3, ServicesInvariance, PTL
  <1> QED BY <1>4, <1>5, <1>6
          DEF AccessKept, AdminRemains, RevokedLetsNobodyIn, DeletionIsFinal, Final, WorseNeverLower
=============================================================================
