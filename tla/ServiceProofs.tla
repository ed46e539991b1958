---------------------------- MODULE ServiceProofs ----------------------------
(* Proofs about services that keep their state in memory, in Redis or in     *)
(* files, for any number of callers and any limits.                          *)
EXTENDS Alerts, CircuitBreaker, Discovery, Notifications, Backups, Cache, ErrorTracking,
        RateLimiter, Scoring, FiniteSetTheorems, TLAPS

-----------------------------------------------------------------------------
(* CircuitBreaker *)

\* The circuit becomes half open with one probe that is not counted, and every
\* other one is: only closing or opening it ends the count.
Circuits == [state : CircuitState, failures : Nat, requests : 0..MaxProbes]

CircuitInv ==
  /\ circuit \in Circuits
  /\ local \in [Coroutines -> CircuitState \cup {"idle"}]
  /\ probing \in Nat
  /\ circuit.state = "half_open" => probing <= circuit.requests + 1

LEMMA CircuitStep == CircuitInv /\ [CircuitNext]_circuitVars => CircuitInv'
  <1> SUFFICES ASSUME CircuitInv, [CircuitNext]_circuitVars
               PROVE  CircuitInv'
    OBVIOUS
  <1> USE CircuitAssumption DEF CircuitInv
  <1>1. CASE TimeOut
    BY <1>1 DEF TimeOut
  <1>2. /\ circuit.state \in CircuitState /\ circuit.failures \in Nat
        /\ circuit.requests \in 0..MaxProbes
        /\ {"closed", "open", "half_open"} \subseteq CircuitState
    BY DEF Circuits, CircuitState
  <1>3. ASSUME NEW c \in Coroutines, Starts(c)
        PROVE  local' \in [Coroutines -> CircuitState \cup {"idle"}]
    BY <1>2, <1>3 DEF Starts
  <1>4. ASSUME NEW c \in Coroutines, start_closed(c) \/ start_open(c) \/ start_half_open(c)
        PROVE  CircuitInv'
    <2>1. local' \in [Coroutines -> CircuitState \cup {"idle"}]
      BY <1>3, <1>4 DEF start_closed, start_open, start_half_open
    <2>2. CASE start_closed(c)
      BY <2>1, <2>2 DEF start_closed
    <2>3. CASE start_open(c)
      <3>1. /\ circuit' = [circuit EXCEPT !.state = "half_open", !.requests = 0]
            /\ probing' = 1
        BY <2>3 DEF start_open
      <3>2. 0 \in 0..MaxProbes
        OBVIOUS
      <3>3. circuit' \in Circuits /\ circuit'.requests = 0
        BY <1>2, <3>1, <3>2, Zenon DEF Circuits
      <3> QED BY <2>1, <3>1, <3>3
    <2>4. CASE start_half_open(c)
      BY <2>1, <2>4 DEF start_half_open, ProbesLeft, Circuits
    <2> QED BY <1>4, <2>2, <2>3, <2>4
  <1>5. ASSUME NEW c \in Coroutines, succeed(c)
        PROVE  CircuitInv'
    <2>1. /\ local' \in [Coroutines -> CircuitState \cup {"idle"}]
          /\ probing' = probing
      BY <1>5 DEF succeed, Ends
    <2>2. CASE local[c] = "half_open"
      <3>1. circuit' = [circuit EXCEPT !.state = "closed", !.failures = 0]
        BY <1>5, <2>2 DEF succeed
      <3>2. circuit' \in Circuits /\ circuit'.state = "closed"
        BY <1>2, <3>1 DEF Circuits, CircuitState
      <3> QED BY <2>1, <3>2
    <2>3. CASE local[c] # "half_open"
      BY <1>2, <1>5, <2>1, <2>3 DEF succeed, Circuits
    <2> QED BY <2>2, <2>3
  <1>6. ASSUME NEW c \in Coroutines, fail(c)
        PROVE  CircuitInv'
    <2> DEFINE state == IF circuit.failures + 1 >= Threshold THEN "open" ELSE circuit.state
    <2>1. /\ local' \in [Coroutines -> CircuitState \cup {"idle"}]
          /\ probing' = probing
          /\ circuit' = [circuit EXCEPT !.failures = @ + 1, !.state = state]
      BY <1>6 DEF fail, Ends
    <2>2. state \in CircuitState /\ (state = "half_open" => circuit.state = "half_open")
      BY <1>2
    <2> HIDE DEF state
    <2>3. circuit.failures + 1 \in Nat
      BY <1>2
    <2>4. /\ circuit' \in Circuits
          /\ circuit'.state = state /\ circuit'.requests = circuit.requests
      BY <2>1, <2>2, <2>3, Zenon DEF Circuits
    <2> QED BY <2>1, <2>2, <2>4
  <1>7. ASSUME NEW c \in Coroutines, cancel(c)
        PROVE  CircuitInv'
    BY <1>7 DEF cancel, Ends
  <1>8. CASE UNCHANGED circuitVars
    BY <1>8 DEF circuitVars
  <1> QED BY <1>1, <1>4, <1>5, <1>6, <1>7, <1>8 DEF CircuitNext

\* However late the answers of earlier calls are, a service that is tested for
\* recovery gets no more calls than may test it, and the one that began it.
THEOREM ProbesAreFew == CircuitSpec => []FewProbes
  <1>1. CircuitInit => CircuitInv
    BY CircuitAssumption DEF CircuitInit, CircuitInv, Circuits, CircuitState
  <1>2. CircuitInv => FewProbes
    BY CircuitAssumption DEF CircuitInv, Circuits, FewProbes
  <1> QED BY <1>1, <1>2, CircuitStep, PTL DEF CircuitSpec

-----------------------------------------------------------------------------
(* Discovery *)

\* A task that has a result has committed it.  If scans do not overlap, one is
\* under way at most, and the entry is of that one once it is tracked, and of
\* one that was requested before if it has an outcome.
Requested(n) == task[n] \notin {"none", "ended"}

Tracked(n) == task[n] \in {"scanning", "completed", "failed"}

OneRequested == sequential => \A m, n \in Scans : Requested(m) /\ Requested(n) => m = n

ResultsCommitted == \A n \in Scans : task[n] \in {"completed", "failed"} => scans[n] = task[n]

EntryOfTracked ==
  sequential => \A n \in Scans : Tracked(n) => status = [scan |-> n, status |-> "running"]

OutcomeOfRequested ==
  sequential /\ status.status \in {"completed", "failed"}
    => status.scan \in Scans /\ task[status.scan] # "none"

DiscoveryInv ==
  /\ DiscoveryTypeOK
  /\ OneRequested /\ ResultsCommitted /\ EntryOfTracked /\ OutcomeOfRequested
  /\ MemoryAgrees

LEMMA DiscoveryTyped == DiscoveryTypeOK /\ [DiscoveryNext]_discoveryVars => DiscoveryTypeOK'
  <1> SUFFICES ASSUME DiscoveryTypeOK, [DiscoveryNext]_discoveryVars
               PROVE  DiscoveryTypeOK'
    OBVIOUS
  <1> USE DiscoveryAssumption DEF DiscoveryTypeOK, ScanStatus
  <1>1. ASSUME NEW n \in Scans, trigger_discovery(n)
        PROVE  DiscoveryTypeOK'
    BY <1>1 DEF trigger_discovery, Goes, UnchangedSchedule
  <1>2. ASSUME NEW n \in Scans, track(n)
        PROVE  DiscoveryTypeOK'
    BY <1>2 DEF track, Goes, UnchangedSchedule
  <1>3. ASSUME NEW n \in Scans, run_discovery(n)
        PROVE  DiscoveryTypeOK'
    BY <1>3 DEF run_discovery, Goes, UnchangedSchedule
  <1>4. ASSUME NEW n \in Scans, fail_session(n)
        PROVE  DiscoveryTypeOK'
    BY <1>4 DEF fail_session, Goes, UnchangedSchedule
  <1>5. ASSUME NEW n \in Scans, report(n)
        PROVE  DiscoveryTypeOK'
    <2>1. task[n] \in ScanStatus
      BY <1>5 DEF report
    <2>2. status' = [status EXCEPT !.status = task[n]]
      BY <1>5 DEF report, Update
    <2>3. status' \in [scan : Scans \cup {NoScan}, status : ScanStatus]
      BY <2>1, <2>2
    <2> QED BY <1>5, <2>3 DEF report, Goes, UnchangedSchedule
  <1>6. ASSUME NEW schedule \in Schedules \cup {NoSchedule}, configure(schedule)
        PROVE  DiscoveryTypeOK'
    BY <1>6 DEF configure
  <1>7. CASE Restart
    BY <1>7 DEF Restart, NoStatus
  <1>8. CASE UNCHANGED discoveryVars
    BY <1>8 DEF discoveryVars
  <1> QED BY <1>1, <1>2, <1>3, <1>4, <1>5, <1>6, <1>7, <1>8
          DEF DiscoveryNext, DiscoveryTask

LEMMA DiscoveryStep == DiscoveryInv /\ [DiscoveryNext]_discoveryVars => DiscoveryInv'
  <1> SUFFICES ASSUME DiscoveryInv, [DiscoveryNext]_discoveryVars
               PROVE  DiscoveryInv'
    OBVIOUS
  <1>1. DiscoveryTypeOK /\ DiscoveryTypeOK'
    BY DiscoveryTyped DEF DiscoveryInv
  <1>2. /\ scans \in [Scans -> ScanStatus]
        /\ task \in [Scans -> {"none", "committed", "scanning", "completed", "failed", "ended"}]
        /\ status \in [scan : Scans \cup {NoScan}, status : ScanStatus]
    BY <1>1 DEF DiscoveryTypeOK
  <1>3. /\ OneRequested /\ ResultsCommitted /\ EntryOfTracked /\ OutcomeOfRequested
        /\ StatusCommitted /\ JobMatchesConfig
    BY DEF DiscoveryInv, MemoryAgrees
  <1> DEFINE Kept == /\ OneRequested /\ ResultsCommitted /\ EntryOfTracked
                     /\ OutcomeOfRequested /\ StatusCommitted
  <1> USE DEF Requested, Tracked
  <1>4. ASSUME NEW n \in Scans, trigger_discovery(n)
        PROVE  Kept'
    <2>1. /\ task[n] = "none"
          /\ sequential => \A m \in Scans : task[m] \in {"none", "ended"}
          /\ scans' = [scans EXCEPT ![n] = "running"]
          /\ task' = [task EXCEPT ![n] = "committed"]
          /\ status' = status /\ sequential' = sequential
      BY <1>4 DEF trigger_discovery, Goes, UnchangedSchedule
    <2>2. OneRequested'
      BY <1>2, <2>1 DEF OneRequested
    <2>3. ResultsCommitted' /\ EntryOfTracked'
      BY <1>2, <1>3, <2>1 DEF ResultsCommitted, EntryOfTracked
    <2>4. OutcomeOfRequested' /\ StatusCommitted'
      BY <1>2, <1>3, <2>1 DEF OutcomeOfRequested, StatusCommitted
    <2> QED BY <2>2, <2>3, <2>4
  <1>5. ASSUME NEW n \in Scans, track(n)
        PROVE  Kept'
    <2>1. /\ task[n] = "committed"
          /\ status' = [scan |-> n, status |-> "running"]
          /\ task' = [task EXCEPT ![n] = "scanning"]
          /\ scans' = scans /\ sequential' = sequential
      BY <1>5 DEF track, Goes, UnchangedSchedule
    <2>2. OneRequested' /\ EntryOfTracked'
      BY <1>2, <1>3, <2>1 DEF OneRequested, EntryOfTracked
    <2>3. ResultsCommitted' /\ OutcomeOfRequested' /\ StatusCommitted'
      BY <1>2, <1>3, <2>1 DEF ResultsCommitted, OutcomeOfRequested, StatusCommitted
    <2> QED BY <2>2, <2>3
  <1>6. ASSUME NEW n \in Scans, run_discovery(n)
        PROVE  Kept'
    <2>1. PICK outcome \in {"completed", "failed"} :
            /\ task[n] = "scanning"
            /\ scans' = [scans EXCEPT ![n] = outcome]
            /\ task' = [task EXCEPT ![n] = outcome]
            /\ status' = status /\ sequential' = sequential
      BY <1>6 DEF run_discovery, Goes, UnchangedSchedule
    <2>2. OneRequested' /\ EntryOfTracked'
      BY <1>2, <1>3, <2>1 DEF OneRequested, EntryOfTracked
    <2>3. ResultsCommitted'
      BY <1>2, <1>3, <2>1 DEF ResultsCommitted
    <2>4. sequential => status.status = "running"
      BY <1>3, <2>1 DEF EntryOfTracked
    <2>5. OutcomeOfRequested' /\ StatusCommitted'
      BY <2>1, <2>4 DEF OutcomeOfRequested, StatusCommitted
    <2> QED BY <2>2, <2>3, <2>5
  <1>7. ASSUME NEW n \in Scans, fail_session(n)
        PROVE  Kept'
    <2>1. /\ task[n] = "scanning"
          /\ task' = [task EXCEPT ![n] = "ended"]
          /\ scans' = scans /\ status' = status /\ sequential' = sequential
      BY <1>7 DEF fail_session, Goes, UnchangedSchedule
    <2>2. OneRequested' /\ EntryOfTracked'
      BY <1>2, <1>3, <2>1 DEF OneRequested, EntryOfTracked
    <2>3. ResultsCommitted' /\ OutcomeOfRequested' /\ StatusCommitted'
      BY <1>2, <1>3, <2>1 DEF ResultsCommitted, OutcomeOfRequested, StatusCommitted
    <2> QED BY <2>2, <2>3
  <1>8. ASSUME NEW n \in Scans, report(n)
        PROVE  Kept'
    <2>1. /\ task[n] \in {"completed", "failed"}
          /\ status' = [status EXCEPT !.status = task[n]]
          /\ task' = [task EXCEPT ![n] = "ended"]
          /\ scans' = scans /\ sequential' = sequential
      BY <1>8 DEF report, Update, Goes, UnchangedSchedule
    <2>2. OneRequested' /\ ResultsCommitted'
      BY <1>2, <1>3, <2>1 DEF OneRequested, ResultsCommitted
    <2>3. sequential => \A m \in Scans : task'[m] \in {"none", "ended"}
      BY <1>2, <1>3, <2>1 DEF OneRequested
    <2>4. EntryOfTracked'
      BY <2>1, <2>3 DEF EntryOfTracked
    <2>5. sequential => status'.scan = n /\ status'.status = scans[n]
      BY <1>2, <1>3, <2>1 DEF EntryOfTracked, ResultsCommitted
    <2>6. OutcomeOfRequested' /\ StatusCommitted'
      BY <1>2, <2>1, <2>5 DEF OutcomeOfRequested, StatusCommitted
    <2> QED BY <2>2, <2>4, <2>6
  <1>9. ASSUME NEW schedule \in Schedules \cup {NoSchedule}, configure(schedule)
        PROVE  Kept' /\ JobMatchesConfig'
    <2>1. /\ scans' = scans /\ status' = status /\ task' = task /\ sequential' = sequential
          /\ config' = schedule
          /\ job' = IF schedule \in Malformed THEN NoSchedule ELSE schedule
      BY <1>9 DEF configure
    <2>2. OneRequested' /\ ResultsCommitted' /\ EntryOfTracked'
      BY <1>3, <2>1 DEF OneRequested, ResultsCommitted, EntryOfTracked
    <2>3. OutcomeOfRequested' /\ StatusCommitted' /\ JobMatchesConfig'
      BY <1>3, <2>1 DEF OutcomeOfRequested, StatusCommitted, JobMatchesConfig
    <2> QED BY <2>2, <2>3
  <1>10. CASE Restart
    <2>1. /\ \A n \in Scans : task'[n] \in {"none", "ended"}
          /\ status'.status = "absent"
      BY <1>10 DEF Restart, NoStatus
    <2>2. Kept'
      BY <2>1 DEF OneRequested, ResultsCommitted, EntryOfTracked, OutcomeOfRequested,
                  StatusCommitted
    <2> QED BY <1>1, <1>10, <2>2 DEF Restart, JobMatchesConfig, DiscoveryInv, MemoryAgrees
  <1>11. CASE UNCHANGED discoveryVars
    <2>1. /\ scans' = scans /\ status' = status /\ task' = task /\ config' = config
          /\ job' = job /\ sequential' = sequential
      BY <1>11 DEF discoveryVars
    <2>2. OneRequested' /\ ResultsCommitted' /\ EntryOfTracked'
      BY <1>3, <2>1 DEF OneRequested, ResultsCommitted, EntryOfTracked
    <2>3. OutcomeOfRequested' /\ StatusCommitted' /\ JobMatchesConfig'
      BY <1>3, <2>1 DEF OutcomeOfRequested, StatusCommitted, JobMatchesConfig
    <2> QED BY <1>1, <2>2, <2>3 DEF DiscoveryInv, MemoryAgrees
  <1>12. CASE \E n \in Scans : trigger_discovery(n) \/ fail_session(n) \/ DiscoveryTask(n)
    <2>1. Kept'
      BY <1>4, <1>5, <1>6, <1>7, <1>8, <1>12 DEF DiscoveryTask
    <2>2. config' = config /\ job' = job
      BY <1>12 DEF DiscoveryTask, trigger_discovery, track, run_discovery, fail_session,
                   report, UnchangedSchedule
    <2> QED BY <1>1, <1>3, <2>1, <2>2 DEF DiscoveryInv, MemoryAgrees, JobMatchesConfig
  <1>13. Kept' /\ JobMatchesConfig' => DiscoveryInv'
    BY <1>1 DEF DiscoveryInv, MemoryAgrees
  <1> QED BY <1>9, <1>10, <1>11, <1>12, <1>13 DEF DiscoveryNext

LEMMA DiscoveryStart == DiscoveryInit => DiscoveryInv
  BY DiscoveryAssumption
     DEF DiscoveryInit, DiscoveryInv, DiscoveryTypeOK, ScanStatus, NoStatus, OneRequested,
         ResultsCommitted, EntryOfTracked, OutcomeOfRequested, MemoryAgrees,
         StatusCommitted, JobMatchesConfig, Requested, Tracked

\* Whatever fails, restarts or is configured, what is kept in memory of a scan
\* that does not overlap another, and of the schedule, is what is stored.
THEOREM MemoryFollows == DiscoverySpec => []MemoryAgrees
  <1>1. DiscoveryInv => MemoryAgrees
    BY DEF DiscoveryInv
  <1> QED BY DiscoveryStart, <1>1, DiscoveryStep, PTL DEF DiscoverySpec

-----------------------------------------------------------------------------
(* Notifications *)

\* The table comes last of the channels, whether or not there is another, so
\* that a notification has the result of its row when no channel is left, and
\* neither before.
Queues == {<<"slack", "in_app">>, <<"in_app">>, <<>>}

InAppLast(n) ==
  /\ sends[n] \in Queues
  /\ sends[n] # <<>> => n \notin DOMAIN notifications
  /\ sends[n] = <<>> => /\ "in_app" \in DOMAIN results[n]
                        /\ results[n]["in_app"] => n \in DOMAIN notifications

NotificationsInv ==
  /\ NotificationsTypeOK
  /\ \A n \in DOMAIN sends : InAppLast(n)

LEMMA QueueFacts ==
  /\ Head(<<"slack", "in_app">>) = "slack" /\ Tail(<<"slack", "in_app">>) = <<"in_app">>
  /\ Head(<<"in_app">>) = "in_app" /\ Tail(<<"in_app">>) = <<>>
  /\ <<"slack", "in_app">> # <<>> /\ <<"in_app">> # <<>> /\ "slack" # "in_app"
  /\ Queues \subseteq Seq(Channels)
  BY DEF Queues, Channels

\* A step of a send puts the result of the first channel into the results.
LEMMA RecordedResults ==
  ASSUME NEW n \in DOMAIN results, NEW channel \in Channels, NEW success \in BOOLEAN,
         DOMAIN results[n] \subseteq Channels,
         \A c \in DOMAIN results[n] : results[n][c] \in BOOLEAN,
         Recorded(n, channel, success)
  PROVE  /\ DOMAIN results' = DOMAIN results
         /\ \A m \in DOMAIN results \ {n} : results'[m] = results[m]
         /\ DOMAIN results'[n] = DOMAIN results[n] \cup {channel}
         /\ DOMAIN results'[n] \subseteq Channels
         /\ results'[n][channel] = success
         /\ \A c \in DOMAIN results'[n] : results'[n][c] \in BOOLEAN
  <1> DEFINE new == [c \in DOMAIN results[n] \cup {channel} |->
                       IF c = channel THEN success ELSE results[n][c]]
  <1>1. results' = [results EXCEPT ![n] = new]
    BY DEF Recorded
  <1>2. /\ DOMAIN new = DOMAIN results[n] \cup {channel}
        /\ new[channel] = success
        /\ \A c \in DOMAIN new : new[c] \in BOOLEAN
    OBVIOUS
  <1> HIDE DEF new
  <1>3. /\ DOMAIN results' = DOMAIN results /\ results'[n] = new
        /\ \A m \in DOMAIN results \ {n} : results'[m] = results[m]
    BY <1>1
  <1> QED BY <1>2, <1>3

LEMMA NotificationsStep ==
  NotificationsInv /\ [NotificationsNext]_notificationVars => NotificationsInv'
  <1> SUFFICES ASSUME NotificationsInv, [NotificationsNext]_notificationVars
               PROVE  NotificationsInv'
    OBVIOUS
  <1>1. /\ routing \in Routings
        /\ DOMAIN sends \subseteq Sends /\ DOMAIN results = DOMAIN sends
        /\ \A n \in DOMAIN sends :
             /\ InAppLast(n)
             /\ DOMAIN results[n] \subseteq Channels
             /\ \A c \in DOMAIN results[n] : results[n][c] \in BOOLEAN
        /\ DOMAIN notifications \subseteq DOMAIN sends
        /\ \A n \in DOMAIN notifications : notifications[n] \in BOOLEAN
    BY DEF NotificationsInv, NotificationsTypeOK
  <1>2. ASSUME routing' \in Routings,
               DOMAIN sends' \subseteq Sends, DOMAIN results' = DOMAIN sends',
               \A n \in DOMAIN sends' :
                 /\ InAppLast(n)'
                 /\ DOMAIN results'[n] \subseteq Channels
                 /\ \A c \in DOMAIN results'[n] : results'[n][c] \in BOOLEAN,
               DOMAIN notifications' \subseteq DOMAIN sends',
               \A n \in DOMAIN notifications' : notifications'[n] \in BOOLEAN
        PROVE  NotificationsInv'
    <2>1. \A n \in DOMAIN sends' : sends'[n] \in Seq(Channels)
      BY <1>2, QueueFacts DEF InAppLast
    <2> QED BY <1>2, <2>1 DEF NotificationsInv, NotificationsTypeOK
  <1>3. CASE change_routing
    <2>1. /\ routing' \in Routings /\ sends' = sends /\ results' = results
          /\ notifications' = notifications
      BY <1>3 DEF change_routing
    <2> QED BY <1>1, <1>2, <2>1 DEF InAppLast
  <1>4. ASSUME NEW n \in Sends, send_notification(n)
        PROVE  NotificationsInv'
    <2>1. PICK type \in NotificationTypes :
            sends' = [m \in DOMAIN sends \cup {n} |->
                        IF m = n THEN _get_channels_for_type(type) ELSE sends[m]]
      BY <1>4 DEF send_notification
    <2>2. /\ n \notin DOMAIN sends
          /\ results' = [m \in DOMAIN sends' |->
                           IF m = n THEN [c \in {} |-> TRUE] ELSE results[m]]
          /\ routing' = routing /\ notifications' = notifications
      BY <1>4 DEF send_notification
    <2>3. _get_channels_for_type(type) \in Queues \ {<<>>}
      BY QueueFacts DEF _get_channels_for_type, Queues
    <2>4. DOMAIN sends' = DOMAIN sends \cup {n} /\ DOMAIN results' = DOMAIN sends'
      BY <2>1, <2>2
    <2>5. \A m \in DOMAIN sends : sends'[m] = sends[m] /\ results'[m] = results[m]
      BY <2>1, <2>2, <2>4
    <2>6. sends'[n] \in Queues \ {<<>>} /\ DOMAIN results'[n] = {}
      BY <2>1, <2>2, <2>3, <2>4
    <2>7. InAppLast(n)'
      BY <1>1, <2>2, <2>6 DEF InAppLast
    <2>8. \A m \in DOMAIN sends : InAppLast(m)'
      BY <1>1, <2>2, <2>5 DEF InAppLast
    <2>9. \A m \in DOMAIN sends' :
             /\ InAppLast(m)'
             /\ DOMAIN results'[m] \subseteq Channels
             /\ \A c \in DOMAIN results'[m] : results'[m][c] \in BOOLEAN
      BY <1>1, <2>4, <2>5, <2>6, <2>7, <2>8
    <2> QED BY <1>1, <1>2, <2>2, <2>4, <2>9
  <1>5. ASSUME NEW n \in Sends, _send_slack(n)
        PROVE  NotificationsInv'
    <2>1. PICK success \in BOOLEAN :
            /\ n \in DOMAIN sends /\ sends[n] # <<>> /\ Head(sends[n]) = "slack"
            /\ Recorded(n, "slack", success)
            /\ sends' = [sends EXCEPT ![n] = Tail(sends[n])]
            /\ routing' = routing /\ notifications' = notifications
      BY <1>5 DEF _send_slack, Next_is, AfterFailure
    <2>2. sends[n] = <<"slack", "in_app">> /\ Tail(sends[n]) = <<"in_app">>
      BY <1>1, <2>1, QueueFacts DEF InAppLast, Queues
    <2>3. /\ DOMAIN sends' = DOMAIN sends /\ sends'[n] = <<"in_app">>
          /\ \A m \in DOMAIN sends \ {n} : sends'[m] = sends[m]
      BY <2>1, <2>2
    <2>4. /\ DOMAIN results' = DOMAIN results
          /\ \A m \in DOMAIN results \ {n} : results'[m] = results[m]
          /\ DOMAIN results'[n] \subseteq Channels
          /\ \A c \in DOMAIN results'[n] : results'[n][c] \in BOOLEAN
      BY <1>1, <2>1, RecordedResults DEF Channels
    <2>5. InAppLast(n)'
      BY <1>1, <2>1, <2>2, <2>3, QueueFacts DEF InAppLast, Queues
    <2>6. \A m \in DOMAIN sends \ {n} : InAppLast(m)'
      BY <1>1, <2>1, <2>3, <2>4 DEF InAppLast
    <2> QED BY <1>1, <1>2, <2>1, <2>3, <2>4, <2>5, <2>6
  <1>6. ASSUME NEW n \in Sends, _send_in_app(n)
        PROVE  NotificationsInv'
    <2>1. PICK success \in BOOLEAN, stored_row \in BOOLEAN :
            /\ n \in DOMAIN sends /\ sends[n] # <<>> /\ Head(sends[n]) = "in_app"
            /\ Recorded(n, "in_app", success)
            /\ sends' = [sends EXCEPT ![n] = Tail(sends[n])]
            /\ routing' = routing
            /\ success => stored_row
            /\ stored_row => notifications' = [m \in DOMAIN notifications \cup {n} |->
                                                 m # n /\ notifications[m]]
            /\ ~stored_row => notifications' = notifications
      BY <1>6 DEF _send_in_app, Next_is
    <2>2. sends[n] = <<"in_app">> /\ Tail(sends[n]) = <<>>
      BY <1>1, <2>1, QueueFacts DEF InAppLast, Queues
    <2>3. /\ DOMAIN sends' = DOMAIN sends /\ sends'[n] = <<>>
          /\ \A m \in DOMAIN sends \ {n} : sends'[m] = sends[m]
      BY <2>1, <2>2
    <2>4. /\ DOMAIN results' = DOMAIN results
          /\ \A m \in DOMAIN results \ {n} : results'[m] = results[m]
          /\ DOMAIN results'[n] \subseteq Channels
          /\ "in_app" \in DOMAIN results'[n] /\ results'[n]["in_app"] = success
          /\ \A c \in DOMAIN results'[n] : results'[n][c] \in BOOLEAN
      BY <1>1, <2>1, RecordedResults DEF Channels
    <2>5. n \notin DOMAIN notifications
      BY <1>1, <2>1 DEF InAppLast
    <2>6. /\ success => n \in DOMAIN notifications'
          /\ \A m \in DOMAIN sends \ {n} : m \in DOMAIN notifications' <=> m \in DOMAIN notifications
          /\ DOMAIN notifications' \subseteq DOMAIN sends
          /\ \A m \in DOMAIN notifications' : notifications'[m] \in BOOLEAN
      BY <1>1, <2>1, <2>5
    <2>7. InAppLast(n)'
      BY <2>3, <2>4, <2>6 DEF InAppLast, Queues
    <2>8. \A m \in DOMAIN sends \ {n} : InAppLast(m)'
      BY <1>1, <2>3, <2>4, <2>6 DEF InAppLast
    <2> QED BY <1>1, <1>2, <2>1, <2>3, <2>4, <2>6, <2>7, <2>8
  <1>7. CASE (\E n \in Sends : _mark_one_read(n)) \/ _mark_all_read
    <2>1. /\ routing' = routing /\ sends' = sends /\ results' = results
          /\ DOMAIN notifications' = DOMAIN notifications
          /\ \A n \in DOMAIN notifications' : notifications'[n] \in BOOLEAN
      BY <1>1, <1>7 DEF _mark_one_read, _mark_all_read
    <2> QED BY <1>1, <1>2, <2>1 DEF InAppLast
  <1>8. CASE UNCHANGED notificationVars
    <2>1. /\ routing' = routing /\ sends' = sends /\ results' = results
          /\ notifications' = notifications
      BY <1>8 DEF notificationVars
    <2> QED BY <1>1, <1>2, <2>1 DEF InAppLast
  <1> QED BY <1>3, <1>4, <1>5, <1>6, <1>7, <1>8 DEF NotificationsNext, SendStep

LEMMA NotificationsStart == NotificationsInit => NotificationsInv
  BY DEF NotificationsInit, NotificationsInv, NotificationsTypeOK

\* A notification that was sent has been tried for the table, and is there if its
\* result says so: whatever becomes of Slack, of the settings and of the others.
THEOREM NotificationsArrive ==
  NotificationsInit /\ [][NotificationsNext]_notificationVars => []InAppAlways
  <1>1. NotificationsInv => InAppAlways
    BY DEF NotificationsInv, InAppLast, InAppAlways
  <1> QED BY NotificationsStart, <1>1, NotificationsStep, PTL

-----------------------------------------------------------------------------
(* Backups *)

CommandPlaces ==
  {"none", "dumping", "reading", "writing", "checking", "unlinking", "truncated"}

CommandKinds == {"create", "verify", "prune"}

LEMMA CommandFields ==
  /\ Command = [at : CommandPlaces, what : CommandKinds, backup : 0..MaxBackups,
                status : Status, loaded : Index]
  /\ NoCommand \in Command /\ NoIndex \in Index
  /\ NoCommand.at = "none" /\ NoCommand.what = "create" /\ NoCommand.backup = 0
  /\ NoCommand.status = "absent" /\ NoCommand.loaded = NoIndex
  <1>1. Command = [at : CommandPlaces, what : CommandKinds, backup : 0..MaxBackups,
                   status : Status, loaded : Index]
    BY DEF Command, CommandPlaces, CommandKinds
  <1>2. NoIndex \in Index
    BY DEF NoIndex, Index, Status
  <1>3. "none" \in CommandPlaces /\ "create" \in CommandKinds /\ "absent" \in Status
    BY DEF CommandPlaces, CommandKinds, Status
  <1>4. 0 \in 0..MaxBackups
    BY BackupAssumption
  <1>5. NoCommand \in Command
    BY <1>1, <1>2, <1>3, <1>4 DEF NoCommand
  <1> QED BY <1>1, <1>2, <1>5 DEF NoCommand

\* What a command that has done its work is about to make of the index.
Changed(c) ==
  IF c.what = "prune" THEN Pruned(c.loaded) ELSE [index EXCEPT ![c.backup] = c.status]

\* Whatever commands do to each other, an index in a file or in memory lists as
\* usable only what was whole once, and so does a result that is not yet in it.
OnceWhole(c) ==
  /\ Usable(c.loaded) \subseteq completed
  /\ c.at = "reading" /\ c.what # "prune" /\ c.status \in {"completed", "verified"}
       => c.backup \in completed
  /\ c.at = "dumping" => c.backup \in Backup
  /\ c.at = "unlinking" => c.what = "prune"

WholeInv ==
  /\ files \subseteq completed
  /\ Usable(index) \subseteq completed
  /\ \A p \in Processes : OnceWhole(command[p])
  /\ NewestKept

\* In order, there is one command at a time; the index agrees with the
\* directory while nothing is changed, and afterwards what is going to be
\* written does.
Agree(i, f) == Usable(i) \subseteq f /\ \A b \in f : i[b] # "absent"

InOrder(c) ==
  /\ c.at \in {"none", "dumping", "checking", "unlinking"} => Agree(index, files)
  /\ c.at = "dumping" => c.what = "create" /\ c.backup \in Backup
  /\ c.at = "checking" => c.what = "verify" /\ c.backup \in Backup
  /\ c.at = "unlinking" => c.what = "prune" /\ c.loaded = index
  /\ c.at = "reading" => Agree(Changed(c), files)
  /\ c.at \in {"writing", "truncated"} => Agree(c.loaded, files)
  /\ torn <=> c.at = "truncated"

Others(p) == \A q \in Processes \ {p} : command[q].at = "none"

OrderInv ==
  exclusive /\ ~crashes =>
    \/ /\ \A p \in Processes : command[p].at = "none"
       /\ Agree(index, files) /\ ~torn
    \/ \E p \in Processes : Others(p) /\ InOrder(command[p])

BackupInv == BackupTypeOK /\ WholeInv /\ OrderInv

LEMMA MoreCompleted ==
  ASSUME NEW S \in SUBSET Backup, NEW T \in SUBSET Backup, S \subseteq T, NEW b \in Backup
  PROVE  /\ Cardinality({c \in S : c > b}) \in Nat
         /\ Cardinality({c \in S : c > b}) <= Cardinality({c \in T : c > b})
  <1>1. IsFiniteSet(Backup)
    BY BackupAssumption, FS_Interval DEF Backup
  <1>2. IsFiniteSet({c \in T : c > b}) /\ IsFiniteSet({c \in S : c > b})
    BY <1>1, FS_Subset
  <1>3. {c \in S : c > b} \subseteq {c \in T : c > b}
    OBVIOUS
  <1> QED BY <1>2, <1>3, FS_Subset, FS_CardinalityType

\* One process moves on to command x.
LEMMA BackupMove ==
  ASSUME BackupInv, NEW p \in Processes, NEW x \in Command,
         command' = [command EXCEPT ![p] = x],
         files' \in SUBSET Backup, index' \in Index, torn' \in BOOLEAN,
         exclusive' = exclusive, crashes' = crashes,
         created' \in 0..MaxBackups, commands' \in 0..MaxCommands,
         completed' \in SUBSET Backup,
         completed \subseteq completed', files' \subseteq completed',
         Usable(index') \subseteq completed',
         \A b \in completed' \ files' :
           b \in completed \ files \/ Cardinality({c \in completed : c > b}) >= Keep,
         OnceWhole(x)',
         exclusive /\ ~crashes => Others(p) /\ InOrder(x)'
  PROVE  BackupInv'
  <1>1. command \in [Processes -> Command] /\ completed \in SUBSET Backup /\ Keep \in Nat
    BY BackupAssumption DEF BackupInv, BackupTypeOK
  <1>2. BackupTypeOK'
    <2>1. exclusive \in BOOLEAN /\ crashes \in BOOLEAN
      BY DEF BackupInv, BackupTypeOK
    <2>2. command' \in [Processes -> Command]
      BY <1>1
    <2> QED BY <2>1, <2>2 DEF BackupTypeOK
  <1>3. command'[p] = x /\ \A q \in Processes \ {p} : command'[q] = command[q]
    BY <1>1
  <1>4. \A q \in Processes : OnceWhole(command[q])'
    <2>1. ASSUME NEW q \in Processes \ {p}
          PROVE  OnceWhole(command[q])'
      <3>1. OnceWhole(command[q])
        BY DEF BackupInv, WholeInv
      <3> QED BY <1>3, <3>1 DEF OnceWhole, Usable
    <2> QED BY <1>3, <2>1 DEF OnceWhole
  <1>5. NewestKept'
    <2> SUFFICES ASSUME NEW b \in completed' \ files'
                 PROVE  Cardinality({c \in completed' : c > b}) >= Keep
      BY DEF NewestKept
    <2>1. Cardinality({c \in completed : c > b}) >= Keep
      BY DEF BackupInv, WholeInv, NewestKept
    <2>2. b \in Backup
      OBVIOUS
    <2>3. /\ Cardinality({c \in completed : c > b}) \in Nat
          /\ Cardinality({c \in completed' : c > b}) \in Nat
          /\ Cardinality({c \in completed : c > b}) <= Cardinality({c \in completed' : c > b})
      BY <1>1, <2>2, MoreCompleted
    <2> QED BY <1>1, <2>1, <2>3
  <1>6. OrderInv'
    <2> SUFFICES ASSUME exclusive, ~crashes
                 PROVE  Others(p)' /\ InOrder(command[p])'
      BY <1>3 DEF OrderInv
    <2>1. Others(p)'
      BY <1>3 DEF Others
    <2> QED BY <1>3, <2>1 DEF InOrder, Changed
  <1> QED BY <1>2, <1>4, <1>5, <1>6 DEF BackupInv, WholeInv

\* In order, the command that is under way is alone, and is as it should be.
LEMMA Working ==
  ASSUME BackupInv, exclusive, ~crashes, NEW p \in Processes, command[p].at # "none"
  PROVE  Others(p) /\ InOrder(command[p])
  BY DEF BackupInv, OrderInv, Others

LEMMA Beginning ==
  ASSUME BackupInv, exclusive, ~crashes, NEW p \in Processes, Begin(p)
  PROVE  Others(p) /\ Agree(index, files) /\ ~torn
  BY DEF Begin, BackupInv, OrderInv, Others, InOrder

\* What does not change the files or the index, apart from the command.
LEMMA BackupQuietMove ==
  ASSUME BackupInv, NEW p \in Processes, NEW x \in Command,
         command' = [command EXCEPT ![p] = x],
         torn' \in BOOLEAN, created' \in 0..MaxBackups, commands' \in 0..MaxCommands,
         files' = files, index' = index, exclusive' = exclusive, crashes' = crashes,
         completed' = completed,
         OnceWhole(x),
         exclusive /\ ~crashes => Others(p) /\ InOrder(x)'
  PROVE  BackupInv'
  <1>1. /\ files' = files /\ index' = index /\ exclusive' = exclusive
        /\ crashes' = crashes /\ completed' = completed
    OBVIOUS
  <1>2. /\ files' \in SUBSET Backup /\ index' \in Index /\ completed' \in SUBSET Backup
        /\ completed \subseteq completed' /\ files' \subseteq completed'
        /\ Usable(index') \subseteq completed'
    BY <1>1 DEF BackupInv, BackupTypeOK, WholeInv
  <1>3. OnceWhole(x)'
    BY <1>1 DEF OnceWhole, Usable
  <1> QED BY <1>1, <1>2, <1>3, BackupMove

\* A new command, before which nothing was under way if commands are in order.
LEMMA BackupBegins ==
  ASSUME BackupInv, NEW p \in Processes,
         create_backup(p) \/ verify_backup(p) \/ prune_backups(p)
  PROVE  BackupInv'
  <1>1. /\ index \in Index /\ created \in 0..MaxBackups /\ commands \in 0..MaxCommands
        /\ torn \in BOOLEAN /\ Usable(index) \subseteq completed
    BY DEF BackupInv, BackupTypeOK, WholeInv
  <1>2. Usable(NoIndex) = {}
    BY DEF Usable, NoIndex
  <1>3. /\ Begin(p)
        /\ files' = files /\ index' = index /\ torn' = torn /\ exclusive' = exclusive
        /\ crashes' = crashes /\ completed' = completed
    BY DEF create_backup, verify_backup, prune_backups
  <1>4. torn' \in BOOLEAN /\ commands' \in 0..MaxCommands
    BY <1>1, <1>3, BackupAssumption DEF Begin
  <1>5. exclusive /\ ~crashes => Others(p) /\ Agree(index, files)' /\ ~torn'
    BY <1>3, Beginning DEF Agree, Usable
  <1>6. CASE create_backup(p)
    <2>1. /\ created + 1 \in Backup /\ created + 1 \in 0..MaxBackups
          /\ created' = created + 1
      BY <1>1, <1>6, BackupAssumption DEF create_backup, Backup
    <2>2. command' = [command EXCEPT ![p] = [NoCommand EXCEPT !.at = "dumping",
                                                              !.backup = created + 1]]
      BY <1>6 DEF create_backup, Do
    <2>3. "dumping" \in CommandPlaces
      BY DEF CommandPlaces
    <2>4. PICK x : x = [NoCommand EXCEPT !.at = "dumping", !.backup = created + 1]
      OBVIOUS
    <2>5. command' = [command EXCEPT ![p] = x]
      BY <2>2, <2>4, Zenon
    <2>6. /\ x \in Command
          /\ x.at = "dumping" /\ x.what = "create" /\ x.backup = created + 1
          /\ x.loaded = NoIndex
      BY <2>1, <2>3, <2>4, CommandFields, Zenon
    <2>7. OnceWhole(x)
      BY <1>2, <2>1, <2>6 DEF OnceWhole
    <2>8. exclusive /\ ~crashes => InOrder(x)'
      BY <1>5, <2>1, <2>6 DEF InOrder
    <2> QED BY <1>3, <1>4, <1>5, <2>1, <2>5, <2>6, <2>7, <2>8, BackupQuietMove
  <1>7. CASE verify_backup(p)
    <2>1. PICK b \in Backup :
            command' = [command EXCEPT ![p] = [NoCommand EXCEPT !.at = "checking",
                                                 !.what = "verify", !.backup = b]]
      BY <1>7 DEF verify_backup, Do
    <2>2. b \in 0..MaxBackups /\ created' = created
      <3>1. b \in 0..MaxBackups
        BY BackupAssumption DEF Backup
      <3>2. created' = created
        BY <1>7 DEF verify_backup
      <3> QED BY <3>1, <3>2
    <2>3. "checking" \in CommandPlaces /\ "verify" \in CommandKinds
      BY DEF CommandPlaces, CommandKinds
    <2>4. PICK x : x = [NoCommand EXCEPT !.at = "checking", !.what = "verify", !.backup = b]
      OBVIOUS
    <2>5. command' = [command EXCEPT ![p] = x]
      BY <2>1, <2>4, Zenon
    <2>6. /\ x \in Command
          /\ x.at = "checking" /\ x.what = "verify" /\ x.backup = b
          /\ x.loaded = NoIndex
      BY <2>2, <2>3, <2>4, CommandFields, Zenon
    <2>7. OnceWhole(x)
      BY <1>2, <2>6 DEF OnceWhole
    <2>8. exclusive /\ ~crashes => InOrder(x)'
      BY <1>5, <2>1, <2>6 DEF InOrder
    <2> QED BY <1>1, <1>3, <1>4, <1>5, <2>2, <2>5, <2>6, <2>7, <2>8, BackupQuietMove
  <1>8. CASE prune_backups(p)
    <2>1. /\ command' = [command EXCEPT ![p] = [NoCommand EXCEPT !.at = "unlinking",
                                                  !.what = "prune", !.loaded = index]]
          /\ created' = created
      BY <1>8 DEF prune_backups, Do
    <2>2. "unlinking" \in CommandPlaces /\ "prune" \in CommandKinds
      BY DEF CommandPlaces, CommandKinds
    <2>3. PICK x : x = [NoCommand EXCEPT !.at = "unlinking", !.what = "prune",
                                         !.loaded = index]
      OBVIOUS
    <2>4. command' = [command EXCEPT ![p] = x]
      BY <2>1, <2>3, Zenon
    <2>5. /\ x \in Command
          /\ x.at = "unlinking" /\ x.what = "prune" /\ x.loaded = index
      BY <1>1, <2>2, <2>3, CommandFields, Zenon
    <2>6. OnceWhole(x)
      BY <1>1, <2>5 DEF OnceWhole
    <2>7. exclusive /\ ~crashes => InOrder(x)'
      BY <1>3, <1>5, <2>5 DEF InOrder
    <2> QED BY <1>1, <1>3, <1>4, <1>5, <2>1, <2>4, <2>5, <2>6, <2>7, BackupQuietMove
  <1> QED BY <1>6, <1>7, <1>8

\* The end of a command, early or late, that leaves what there is as it is.
LEMMA BackupGivesUp ==
  ASSUME BackupInv, NEW p \in Processes, Do(p, NoCommand),
         files' = files, index' = index, torn' = torn, created' = created,
         commands' = commands, exclusive' = exclusive, crashes' = crashes,
         completed' = completed,
         exclusive /\ ~crashes => Others(p) /\ Agree(index, files) /\ ~torn
  PROVE  BackupInv'
  <1>1. PICK x \in Command : x = NoCommand
    BY CommandFields
  <1>2. x.at = "none" /\ x.loaded = NoIndex
    BY <1>1, CommandFields
  <1>3. OnceWhole(x)
    BY <1>2 DEF OnceWhole, Usable, NoIndex
  <1>4. command' = [command EXCEPT ![p] = x]
    BY <1>1 DEF Do
  <1>5. exclusive /\ ~crashes => InOrder(x)'
    BY <1>2 DEF InOrder, Agree, Usable
  <1>6. torn' \in BOOLEAN /\ created' \in 0..MaxBackups /\ commands' \in 0..MaxCommands
    BY DEF BackupInv, BackupTypeOK
  <1> QED BY <1>3, <1>4, <1>5, <1>6, BackupQuietMove

LEMMA BackupDumps ==
  ASSUME BackupInv, NEW p \in Processes, dump(p)
  PROVE  BackupInv'
  <1>1. PICK c \in Command : c = command[p]
    BY DEF BackupInv, BackupTypeOK
  <1>2. PICK b : b = c.backup
    OBVIOUS
  <1>3. /\ index \in Index /\ torn \in BOOLEAN
        /\ files \in SUBSET Backup /\ completed \in SUBSET Backup
        /\ created \in 0..MaxBackups /\ commands \in 0..MaxCommands
        /\ files \subseteq completed /\ Usable(index) \subseteq completed
    BY DEF BackupInv, BackupTypeOK, WholeInv
  <1>4. /\ c.at = "dumping" /\ index' = index /\ torn' = torn /\ created' = created
        /\ commands' = commands /\ exclusive' = exclusive /\ crashes' = crashes
    BY <1>1 DEF dump
  <1>5. Usable(c.loaded) \subseteq completed /\ b \in Backup
    BY <1>1, <1>2, <1>4 DEF BackupInv, WholeInv, OnceWhole
  <1>6. PICK result \in {"completed", "failed"}, made \in SUBSET {b} :
          /\ result = "completed" => made = {b}
          /\ files' = files \cup made
          /\ completed' = completed \cup made
          /\ command' = [command EXCEPT ![p] = [c EXCEPT !.at = "reading", !.status = result]]
    BY <1>1, <1>2 DEF dump, Do
  <1>7. "reading" \in CommandPlaces /\ result \in Status
    BY DEF CommandPlaces, Status
  <1>8. PICK x \in Command :
          /\ command' = [command EXCEPT ![p] = x]
          /\ x.at = "reading" /\ x.what = c.what /\ x.backup = c.backup
          /\ x.status = result /\ x.loaded = c.loaded
    <2>1. PICK x : x = [c EXCEPT !.at = "reading", !.status = result]
      OBVIOUS
    <2>2. command' = [command EXCEPT ![p] = x]
      BY <1>6, <2>1, Zenon
    <2>3. /\ x \in Command
          /\ x.at = "reading" /\ x.what = c.what /\ x.backup = c.backup
          /\ x.status = result /\ x.loaded = c.loaded
      BY <1>7, <2>1, CommandFields, Zenon
    <2> QED BY <2>2, <2>3
  <1>9. /\ files' \in SUBSET Backup /\ completed' \in SUBSET Backup
        /\ completed \subseteq completed' /\ files' \subseteq completed'
        /\ Usable(index)' \subseteq completed'
        /\ completed' \ files' \subseteq completed \ files
    BY <1>3, <1>4, <1>5, <1>6 DEF Usable
  <1>10. OnceWhole(x)'
    BY <1>2, <1>5, <1>6, <1>8 DEF OnceWhole, Usable
  <1>11. ASSUME exclusive, ~crashes
         PROVE  Others(p) /\ InOrder(x)'
    <2>1. Others(p) /\ Agree(index, files) /\ c.what = "create" /\ ~torn
      BY <1>1, <1>4, <1>11, Working DEF InOrder
    <2>2. PICK new : new = [index EXCEPT ![b] = result]
      OBVIOUS
    <2>3. new[b] = result /\ \A d \in Backup \ {b} : new[d] = index[d]
      BY <1>3, <1>5, <2>2 DEF Index
    <2>4. Agree(new, files')
      BY <1>3, <1>5, <1>6, <2>1, <2>3 DEF Agree, Usable
    <2>5. Changed(x)' = new
      BY <1>2, <1>4, <1>8, <2>1, <2>2 DEF Changed
    <2> QED BY <1>4, <1>8, <2>1, <2>4, <2>5 DEF InOrder, Agree, Usable
  <1> QED BY <1>3, <1>4, <1>8, <1>9, <1>10, <1>11, BackupMove

LEMMA BackupChecks ==
  ASSUME BackupInv, NEW p \in Processes, check(p)
  PROVE  BackupInv'
  <1>1. PICK c \in Command : c = command[p]
    BY DEF BackupInv, BackupTypeOK
  <1>2. PICK b : b = c.backup
    OBVIOUS
  <1>3. /\ index \in Index /\ torn \in BOOLEAN /\ files \in SUBSET Backup
        /\ created \in 0..MaxBackups /\ commands \in 0..MaxCommands
        /\ files \subseteq completed
    BY DEF BackupInv, BackupTypeOK, WholeInv
  <1>4. /\ c.at = "checking" /\ torn' = torn /\ created' = created /\ commands' = commands
        /\ files' = files /\ index' = index /\ exclusive' = exclusive
        /\ crashes' = crashes /\ completed' = completed
    BY <1>1 DEF check
  <1>5. exclusive /\ ~crashes => /\ Others(p) /\ Agree(index, files) /\ ~torn
                                 /\ c.what = "verify"
    BY <1>1, <1>4, Working DEF InOrder
  <1>6. CASE b \notin files
    <2>1. Do(p, NoCommand)
      BY <1>1, <1>2, <1>6 DEF check
    <2> QED BY <1>4, <1>5, <2>1, BackupGivesUp
  <1>7. CASE b \in files
    <2>1. command' = [command EXCEPT ![p] = [c EXCEPT !.at = "reading",
                                                      !.status = "verified"]]
      BY <1>1, <1>2, <1>7 DEF check, Do
    <2>2. "reading" \in CommandPlaces /\ "verified" \in Status
      BY DEF CommandPlaces, Status
    <2>3. PICK x \in Command :
            /\ command' = [command EXCEPT ![p] = x]
            /\ x.at = "reading" /\ x.what = c.what /\ x.backup = c.backup
            /\ x.status = "verified" /\ x.loaded = c.loaded
      <3>1. PICK x : x = [c EXCEPT !.at = "reading", !.status = "verified"]
        OBVIOUS
      <3>2. command' = [command EXCEPT ![p] = x]
        BY <2>1, <3>1, Zenon
      <3>3. /\ x \in Command
            /\ x.at = "reading" /\ x.what = c.what /\ x.backup = c.backup
            /\ x.status = "verified" /\ x.loaded = c.loaded
        BY <2>2, <3>1, CommandFields, Zenon
      <3> QED BY <3>2, <3>3
    <2>4. OnceWhole(x)
      <3>1. OnceWhole(c)
        BY <1>1 DEF BackupInv, WholeInv
      <3> QED BY <1>2, <1>3, <1>7, <2>3, <3>1 DEF OnceWhole
    <2>5. ASSUME exclusive, ~crashes
          PROVE  InOrder(x)'
      <3>1. PICK new : new = [index EXCEPT ![b] = "verified"]
        OBVIOUS
      <3>2. new[b] = "verified" /\ \A d \in Backup \ {b} : new[d] = index[d]
        BY <1>3, <1>7, <3>1 DEF Index
      <3>3. Agree(new, files')
        BY <1>3, <1>4, <1>5, <1>7, <2>5, <3>2 DEF Agree, Usable
      <3>4. Changed(x)' = new
        BY <1>2, <1>4, <1>5, <2>3, <2>5, <3>1 DEF Changed
      <3> QED BY <1>4, <1>5, <2>3, <2>5, <3>3, <3>4 DEF InOrder, Agree, Usable
    <2> QED BY <1>3, <1>4, <1>5, <2>3, <2>4, <2>5, BackupQuietMove
  <1> QED BY <1>6, <1>7

LEMMA BackupUnlinks ==
  ASSUME BackupInv, NEW p \in Processes, unlink(p)
  PROVE  BackupInv'
  <1>1. PICK c \in Command : c = command[p]
    BY DEF BackupInv, BackupTypeOK
  <1>2. PICK doomed : doomed = ToDelete(c.loaded)
    OBVIOUS
  <1>3. /\ index \in Index /\ torn \in BOOLEAN
        /\ files \in SUBSET Backup /\ completed \in SUBSET Backup
        /\ created \in 0..MaxBackups /\ commands \in 0..MaxCommands
        /\ files \subseteq completed /\ Usable(index) \subseteq completed
    BY DEF BackupInv, BackupTypeOK, WholeInv
  <1>4. OnceWhole(c)
    BY <1>1 DEF BackupInv, WholeInv
  <1>5. /\ c.at = "unlinking" /\ index' = index /\ torn' = torn /\ created' = created
        /\ commands' = commands /\ exclusive' = exclusive /\ crashes' = crashes
        /\ completed' = completed
    BY <1>1 DEF unlink
  <1>6. PICK done \in SUBSET doomed :
          /\ files' = files \ done
          /\ \/ /\ done = doomed
                /\ Do(p, [c EXCEPT !.at = "reading"])
             \/ crashes /\ Do(p, NoCommand)
    BY <1>1, <1>2 DEF unlink
  <1>7. /\ files' \in SUBSET Backup /\ completed' \in SUBSET Backup
        /\ completed \subseteq completed' /\ files' \subseteq completed'
        /\ Usable(index)' \subseteq completed'
    BY <1>3, <1>5, <1>6 DEF Usable
  <1>8. ASSUME NEW b \in completed' \ files', b \notin completed \ files
        PROVE  Cardinality({d \in completed : d > b}) >= Keep
    <2>1. b \in done /\ b \in Backup
      BY <1>3, <1>5, <1>6, <1>8
    <2>2. Cardinality({d \in Usable(c.loaded) : d > b}) >= Keep
      BY <1>2, <2>1 DEF ToDelete
    <2>3. Usable(c.loaded) \subseteq completed /\ Usable(c.loaded) \in SUBSET Backup
      BY <1>4 DEF OnceWhole, Usable
    <2>4. /\ Cardinality({d \in Usable(c.loaded) : d > b}) \in Nat
          /\ Cardinality({d \in completed : d > b}) \in Nat
          /\ Cardinality({d \in Usable(c.loaded) : d > b})
               <= Cardinality({d \in completed : d > b})
      BY <1>3, <2>1, <2>3, MoreCompleted
    <2> QED BY <2>2, <2>4, BackupAssumption
  <1>9. ASSUME NEW x \in Command, Do(p, x), OnceWhole(x)',
               exclusive /\ ~crashes => Others(p) /\ InOrder(x)'
        PROVE  BackupInv'
    <2>1. command' = [command EXCEPT ![p] = x]
      BY <1>9 DEF Do
    <2> QED BY <1>3, <1>5, <1>7, <1>8, <1>9, <2>1, BackupMove
  <1>10. CASE done = doomed /\ Do(p, [c EXCEPT !.at = "reading"])
    <2>1. PICK x : x = [c EXCEPT !.at = "reading"]
      OBVIOUS
    <2>2. "reading" \in CommandPlaces
      BY DEF CommandPlaces
    <2>3. /\ x \in Command
          /\ x.at = "reading" /\ x.what = c.what /\ x.backup = c.backup
          /\ x.status = c.status /\ x.loaded = c.loaded
      BY <2>1, <2>2, CommandFields, Zenon
    <2>4. Do(p, x)
      BY <1>10, <2>1, Zenon
    <2>5. c.what = "prune" /\ OnceWhole(x)'
      BY <1>4, <1>5, <2>3 DEF OnceWhole, Usable
    <2>6. ASSUME exclusive, ~crashes
          PROVE  Others(p) /\ InOrder(x)'
      <3>1. Others(p) /\ Agree(index, files) /\ c.loaded = index /\ ~torn
        BY <1>1, <1>5, <2>6, Working DEF InOrder
      <3>2. PICK new : new = Changed(x)'
        OBVIOUS
      <3>3. \A b \in Backup : new[b] = IF index[b] # "absent" /\ b \notin doomed
                                         THEN index[b] ELSE "absent"
        BY <1>2, <1>5, <2>3, <2>5, <3>1, <3>2 DEF Changed, Pruned, ToDelete, Usable
      <3>4. Agree(new, files')
        BY <1>3, <1>6, <1>10, <3>1, <3>3 DEF Agree, Usable
      <3> QED BY <1>5, <2>3, <3>1, <3>2, <3>4 DEF InOrder, Agree, Usable
    <2> QED BY <1>9, <2>3, <2>4, <2>5, <2>6
  <1>11. CASE crashes /\ Do(p, NoCommand)
    <2>1. PICK x \in Command : x = NoCommand
      BY CommandFields
    <2>2. OnceWhole(x)'
      BY <2>1, CommandFields DEF OnceWhole, Usable, NoIndex
    <2> QED BY <1>9, <1>11, <2>1, <2>2
  <1> QED BY <1>6, <1>10, <1>11

LEMMA BackupLoads ==
  ASSUME BackupInv, NEW p \in Processes, load(p)
  PROVE  BackupInv'
  <1>1. PICK c \in Command : c = command[p]
    BY DEF BackupInv, BackupTypeOK
  <1>2. PICK new : new = Changed(c)
    OBVIOUS
  <1>3. /\ index \in Index /\ torn \in BOOLEAN
        /\ created \in 0..MaxBackups /\ commands \in 0..MaxCommands
        /\ Usable(index) \subseteq completed
    BY DEF BackupInv, BackupTypeOK, WholeInv
  <1>4. OnceWhole(c)
    BY <1>1 DEF BackupInv, WholeInv
  <1>5. /\ c.at = "reading" /\ files' = files /\ index' = index /\ torn' = torn
        /\ created' = created /\ commands' = commands /\ exclusive' = exclusive
        /\ crashes' = crashes /\ completed' = completed
        /\ Do(p, IF torn THEN NoCommand ELSE [c EXCEPT !.at = "writing", !.loaded = new])
    BY <1>1, <1>2 DEF load, Changed
  <1>6. exclusive /\ ~crashes => Others(p) /\ Agree(new, files) /\ ~torn
    BY <1>1, <1>2, <1>5, Working DEF InOrder
  <1>7. CASE torn
    BY <1>5, <1>6, <1>7, BackupGivesUp
  <1>8. CASE ~torn
    <2>1. PICK x : x = [c EXCEPT !.at = "writing", !.loaded = new]
      OBVIOUS
    <2>2. command' = [command EXCEPT ![p] = x]
      <3>1. Do(p, x)
        BY <1>5, <1>8, <2>1, Zenon
      <3> QED BY <3>1 DEF Do
    <2>3. new \in Index /\ Usable(new) \subseteq completed
      <3>1. CASE c.what = "prune"
        <4>1. new = [b \in Backup |->
                       IF c.loaded[b] # "absent" /\ b \notin ToDelete(c.loaded)
                         THEN index[b] ELSE "absent"]
          BY <1>2, <3>1 DEF Changed, Pruned
        <4>2. "absent" \in Status /\ \A b \in Backup : index[b] \in Status
          BY <1>3 DEF Index, Status
        <4>3. new \in Index
          BY <4>1, <4>2 DEF Index
        <4>4. Usable(new) \subseteq Usable(index)
          BY <4>1 DEF Usable
        <4> QED BY <1>3, <4>3, <4>4
      <3>2. CASE c.what # "prune"
        <4>1. new = [index EXCEPT ![c.backup] = c.status]
          BY <1>2, <3>2 DEF Changed
        <4>2. c.status \in Status
          BY CommandFields
        <4>3. new \in Index
          BY <1>3, <4>1, <4>2 DEF Index
        <4>4. Usable(new) \subseteq completed
          BY <1>3, <1>4, <1>5, <3>2, <4>1 DEF Usable, OnceWhole, Index
        <4> QED BY <4>3, <4>4
      <3> QED BY <3>1, <3>2
    <2>4. "writing" \in CommandPlaces
      BY DEF CommandPlaces
    <2>5. /\ x \in Command
          /\ x.at = "writing" /\ x.what = c.what /\ x.backup = c.backup
          /\ x.status = c.status /\ x.loaded = new
      BY <2>1, <2>3, <2>4, CommandFields, Zenon
    <2>6. OnceWhole(x)
      BY <2>3, <2>5 DEF OnceWhole
    <2>7. exclusive /\ ~crashes => InOrder(x)'
      BY <1>5, <1>6, <2>5 DEF InOrder, Agree, Usable
    <2> QED BY <1>3, <1>5, <1>6, <2>2, <2>5, <2>6, <2>7, BackupQuietMove
  <1> QED BY <1>7, <1>8

LEMMA BackupTruncates ==
  ASSUME BackupInv, NEW p \in Processes, truncate(p)
  PROVE  BackupInv'
  <1>1. PICK c \in Command : c = command[p]
    BY DEF BackupInv, BackupTypeOK
  <1>2. created \in 0..MaxBackups /\ commands \in 0..MaxCommands
    BY DEF BackupInv, BackupTypeOK
  <1>3. OnceWhole(c)
    BY <1>1 DEF BackupInv, WholeInv
  <1>4. /\ c.at = "writing" /\ torn' = TRUE /\ files' = files /\ index' = index
        /\ created' = created /\ commands' = commands /\ exclusive' = exclusive
        /\ crashes' = crashes /\ completed' = completed
        /\ command' = [command EXCEPT ![p] = [c EXCEPT !.at = "truncated"]]
    BY <1>1 DEF truncate, Do
  <1>5. PICK x : x = [c EXCEPT !.at = "truncated"]
    OBVIOUS
  <1>6. command' = [command EXCEPT ![p] = x]
    BY <1>4, <1>5, Zenon
  <1>7. "truncated" \in CommandPlaces
    BY DEF CommandPlaces
  <1>8. /\ x \in Command
        /\ x.at = "truncated" /\ x.what = c.what /\ x.backup = c.backup
        /\ x.status = c.status /\ x.loaded = c.loaded
    BY <1>5, <1>7, CommandFields, Zenon
  <1>9. OnceWhole(x)
    BY <1>3, <1>8 DEF OnceWhole
  <1>10. exclusive /\ ~crashes => Others(p) /\ Agree(c.loaded, files)
    BY <1>1, <1>4, Working DEF InOrder
  <1>11. exclusive /\ ~crashes => InOrder(x)'
    BY <1>4, <1>8, <1>10 DEF InOrder, Agree, Usable
  <1> QED BY <1>2, <1>4, <1>6, <1>8, <1>9, <1>10, <1>11, BackupQuietMove

LEMMA BackupSaves ==
  ASSUME BackupInv, NEW p \in Processes, save(p)
  PROVE  BackupInv'
  <1>1. PICK c \in Command : c = command[p]
    BY DEF BackupInv, BackupTypeOK
  <1>2. /\ created \in 0..MaxBackups /\ commands \in 0..MaxCommands
        /\ files \in SUBSET Backup /\ completed \in SUBSET Backup
        /\ files \subseteq completed
    BY DEF BackupInv, BackupTypeOK, WholeInv
  <1>3. c.loaded \in Index /\ Usable(c.loaded) \subseteq completed
    BY <1>1, CommandFields DEF BackupInv, WholeInv, OnceWhole
  <1>4. /\ c.at = "truncated" /\ index' = c.loaded /\ torn' = FALSE /\ files' = files
        /\ created' = created /\ commands' = commands /\ exclusive' = exclusive
        /\ crashes' = crashes /\ completed' = completed
        /\ command' = [command EXCEPT ![p] = NoCommand]
    BY <1>1 DEF save, Do
  <1>5. PICK x \in Command : x = NoCommand
    BY CommandFields
  <1>6. x.at = "none" /\ x.loaded = NoIndex
    BY <1>5, CommandFields
  <1>7. OnceWhole(x)'
    BY <1>6 DEF OnceWhole, Usable, NoIndex
  <1>8. Usable(index') \subseteq completed'
    BY <1>3, <1>4 DEF Usable
  <1>9. exclusive /\ ~crashes => Others(p) /\ Agree(c.loaded, files)
    BY <1>1, <1>4, Working DEF InOrder
  <1>10. exclusive /\ ~crashes => InOrder(x)'
    BY <1>4, <1>6, <1>9 DEF InOrder, Agree, Usable
  <1>11. /\ command' = [command EXCEPT ![p] = x] /\ index' \in Index
         /\ completed' \ files' \subseteq completed \ files
    BY <1>3, <1>4, <1>5
  <1> QED BY <1>2, <1>4, <1>7, <1>8, <1>9, <1>10, <1>11, BackupMove

LEMMA BackupDies ==
  ASSUME BackupInv, NEW p \in Processes, Death(p)
  PROVE  BackupInv'
  BY BackupGivesUp DEF Death

LEMMA BackupStep == BackupInv /\ [BackupNext]_backupVars => BackupInv'
  <1> SUFFICES ASSUME BackupInv, [BackupNext]_backupVars
               PROVE  BackupInv'
    OBVIOUS
  <1>1. CASE BackupNext
    BY <1>1, BackupBegins, BackupDumps, BackupChecks, BackupUnlinks, BackupLoads,
       BackupTruncates, BackupSaves, BackupDies
       DEF BackupNext
  <1>2. CASE UNCHANGED backupVars
    <2>1. /\ files' = files /\ index' = index /\ torn' = torn /\ command' = command
          /\ created' = created /\ commands' = commands /\ exclusive' = exclusive
          /\ crashes' = crashes /\ completed' = completed
      BY <1>2 DEF backupVars
    <2>2. BackupTypeOK'
      BY <2>1 DEF BackupInv, BackupTypeOK
    <2>3. WholeInv'
      BY <2>1 DEF BackupInv, WholeInv, OnceWhole, Usable, NewestKept
    <2>4. \A p \in Processes : Others(p) /\ InOrder(command[p])
                               => Others(p)' /\ InOrder(command[p])'
      <3> SUFFICES ASSUME NEW p \in Processes, Others(p), InOrder(command[p])
                   PROVE  Others(p)' /\ InOrder(command[p])'
        OBVIOUS
      <3>1. Others(p)'
        BY <2>1 DEF Others
      <3>2. Changed(command[p])' = Changed(command[p])
        BY <2>1 DEF Changed, Pruned
      <3>3. InOrder(command[p])'
        BY <2>1, <3>2 DEF InOrder, Agree, Usable
      <3> QED BY <3>1, <3>3
    <2>5. OrderInv'
      BY <2>1, <2>4 DEF BackupInv, OrderInv, Agree, Usable
    <2> QED BY <2>2, <2>3, <2>5 DEF BackupInv
  <1> QED BY <1>1, <1>2

LEMMA BackupStart == BackupInit => BackupInv
  <1> SUFFICES ASSUME BackupInit PROVE BackupInv
    OBVIOUS
  <1>1. BackupTypeOK
    <2>1. created \in 0..MaxBackups /\ commands \in 0..MaxCommands
      BY BackupAssumption DEF BackupInit
    <2>2. command \in [Processes -> Command]
      BY CommandFields DEF BackupInit
    <2> QED BY <2>1, <2>2, CommandFields DEF BackupInit, BackupTypeOK
  <1>2. Usable(NoIndex) = {}
    BY DEF Usable, NoIndex
  <1>3. WholeInv
    BY <1>2, CommandFields DEF BackupInit, WholeInv, OnceWhole, NewestKept
  <1>4. OrderInv
    BY <1>2, CommandFields DEF BackupInit, OrderInv, Agree
  <1> QED BY <1>1, <1>3, <1>4 DEF BackupInv

LEMMA BackupsKept == BackupInv => BackupsUsable
  <1> SUFFICES ASSUME BackupInv PROVE BackupsUsable
    OBVIOUS
  <1>1. ASSUME exclusive, ~crashes, \A p \in Processes : command[p].at = "none"
        PROVE  Agree(index, files)
    BY <1>1 DEF BackupInv, OrderInv, InOrder
  <1> QED BY <1>1 DEF BackupInv, WholeInv, BackupsUsable, IndexFaithful, Agree

\* However commands of backup overlap, fail or die, the newest whole files are
\* kept; and in order, the index and the directory agree.
THEOREM BackupsStayUsable == BackupSpec => []BackupsUsable
  <1> QED BY BackupStart, BackupsKept, BackupStep, PTL DEF BackupSpec

-----------------------------------------------------------------------------
(* Scoring *)

LEMMA MaxOfTwo ==
  ASSUME NEW a \in Int, NEW b \in Int
  PROVE  Max({a, b}) = IF a < b THEN b ELSE a
  BY DEF Max

LEMMA MinOfTwo ==
  ASSUME NEW a \in Int, NEW b \in Int
  PROVE  Min({a, b}) = IF a < b THEN a ELSE b
  BY DEF Min

LEMMA ClampIs ==
  ASSUME NEW score \in Int
  PROVE  Clamp(score) = IF score < 0 THEN 0 ELSE IF score > 100 THEN 100 ELSE score
  <1>1. PICK least : least = Min({100, score})
    OBVIOUS
  <1>2. least \in Int /\ least = IF score < 100 THEN score ELSE 100
    BY <1>1, MinOfTwo
  <1>3. Clamp(score) = Max({0, least})
    BY <1>1 DEF Clamp
  <1>4. Max({0, least}) = IF 0 < least THEN least ELSE 0
    BY <1>2, MaxOfTwo
  <1> QED BY <1>2, <1>3, <1>4

\* What is added up, before it is clamped.
Points(f) ==
  SeverityWeight[f.severity]
  + (f.epss * 15) \div 100
  + If(f.kev, 20)
  + 3 * f.criticality
  + ExposureWeight[f.exposure]
  + RuntimePoints(f)
  + If(~f.patch, -5)
  + If(f.controls, -10)

LEMMA FactorFields ==
  ASSUME NEW f \in Factors
  PROVE  /\ f.severity \in Severity /\ f.epss \in 0..100 /\ f.criticality \in 1..5
         /\ f.exposure \in Exposure
         /\ f.kev \in BOOLEAN /\ f.exploit \in BOOLEAN /\ f.patch \in BOOLEAN
         /\ f.executed \in BOOLEAN /\ f.loaded \in BOOLEAN /\ f.controls \in BOOLEAN
  BY ScoringAssumption DEF Factors

\* Every summand follows the factors it is of.
LEMMA PointsFollow ==
  ASSUME NEW f \in Factors, NEW g \in Factors, AsBad(f, g)
  PROVE  Points(f) \in Int /\ Points(g) \in Int /\ Points(f) <= Points(g)
  <1>1. /\ SeverityWeight[f.severity] \in Int /\ SeverityWeight[g.severity] \in Int
        /\ SeverityWeight[f.severity] <= SeverityWeight[g.severity]
    BY FactorFields DEF AsBad, SeverityWeight, Severity
  <1>2. /\ ExposureWeight[f.exposure] \in Int /\ ExposureWeight[g.exposure] \in Int
        /\ ExposureWeight[f.exposure] <= ExposureWeight[g.exposure]
    BY FactorFields DEF AsBad, ExposureWeight, Exposure
  <1>3. /\ (f.epss * 15) \div 100 \in Int /\ (g.epss * 15) \div 100 \in Int
        /\ (f.epss * 15) \div 100 <= (g.epss * 15) \div 100
    <2>1. \A a, b \in 0..100 : a <= b => /\ (a * 15) \div 100 \in Int /\ (b * 15) \div 100 \in Int
                                         /\ (a * 15) \div 100 <= (b * 15) \div 100
      OBVIOUS
    <2> QED BY <2>1, FactorFields DEF AsBad
  <1>4. /\ (f.kev => g.kev) /\ (f.patch => g.patch) /\ (f.executed => g.executed)
        /\ (f.loaded => g.loaded) /\ (g.controls => f.controls)
    BY DEF AsBad, Flags
  <1>5. /\ If(f.kev, 20) \in Int /\ If(g.kev, 20) \in Int /\ If(f.kev, 20) <= If(g.kev, 20)
        /\ If(~f.patch, -5) \in Int /\ If(~g.patch, -5) \in Int
        /\ If(~f.patch, -5) <= If(~g.patch, -5)
        /\ If(f.controls, -10) \in Int /\ If(g.controls, -10) \in Int
        /\ If(f.controls, -10) <= If(g.controls, -10)
    BY <1>4 DEF If
  <1>6. /\ RuntimePoints(f) \in Int /\ RuntimePoints(g) \in Int
        /\ RuntimePoints(f) <= RuntimePoints(g)
    BY <1>4, FactorFields DEF RuntimePoints
  <1>7. f.criticality \in Int /\ g.criticality \in Int /\ f.criticality <= g.criticality
    BY FactorFields DEF AsBad
  <1> QED BY <1>1, <1>2, <1>3, <1>5, <1>6, <1>7 DEF Points

LEMMA ScoresFollow ==
  ASSUME NEW f \in Factors, NEW g \in Factors, AsBad(f, g)
  PROVE  /\ calculate_score(f) \in 0..100 /\ calculate_score(g) \in 0..100
         /\ calculate_score(f) <= calculate_score(g)
  <1>1. Points(f) \in Int /\ Points(g) \in Int /\ Points(f) <= Points(g)
    BY PointsFollow
  <1>2. calculate_score(f) = Clamp(Points(f)) /\ calculate_score(g) = Clamp(Points(g))
    BY DEF calculate_score, Points
  <1> QED BY <1>1, <1>2, ClampIs

LEMMA UrgencyIs ==
  ASSUME NEW f \in Factors, NEW score \in 0..100
  PROVE  Urgency[get_recommended_action(f, score)] =
           IF Immediate(f, score) THEN 3
           ELSE IF score >= 40 \/ f.exploit THEN 2
           ELSE IF score >= 20 THEN 1 ELSE 0
  BY FactorFields DEF get_recommended_action, Urgency

LEMMA ActionsFollow ==
  ASSUME NEW f \in Factors, NEW g \in Factors, AsBad(f, g)
  PROVE  Urgency[Recommended(f)] <= Urgency[Recommended(g)]
  <1>1. PICK a \in 0..100, b \in 0..100 :
          a = calculate_score(f) /\ b = calculate_score(g) /\ a <= b
    BY ScoresFollow
  <1>2. (f.kev => g.kev) /\ (f.executed => g.executed) /\ (f.exploit => g.exploit)
    BY DEF AsBad, Flags
  <1>3. f.exposure = "INTERNET" => g.exposure = "INTERNET"
    BY FactorFields DEF AsBad, ExposureWeight, Exposure
  <1>4. Immediate(f, a) => Immediate(g, b)
    BY <1>1, <1>2, <1>3 DEF Immediate
  <1> QED BY <1>1, <1>2, <1>4, UrgencyIs DEF Recommended

LEMMA FactorsStart == ScoringInit => ScoringTypeOK
  BY DEF ScoringInit, ScoringTypeOK

LEMMA FactorsStep == ScoringTypeOK /\ [ScoringNext]_factors => ScoringTypeOK'
  BY DEF ScoringTypeOK, ScoringNext, Reported, Factors, Flags

LEMMA FactorsTyped == ScoringSpec => []ScoringTypeOK
  <1> QED BY FactorsStart, FactorsStep, PTL DEF ScoringSpec

\* News that make a finding worse lower neither its score nor its urgency.
THEOREM WorseIsNeverLower == ScoringSpec => WorseNeverLower
  <1>1. ScoringTypeOK /\ ScoringTypeOK'
        => [AsBad(factors, factors')
              => /\ calculate_score(factors) <= calculate_score(factors')
                 /\ Urgency[Recommended(factors)] <= Urgency[Recommended(factors')]]_factors
    BY ScoresFollow, ActionsFollow DEF ScoringTypeOK
  <1> QED BY <1>1, FactorsTyped, PTL DEF WorseNeverLower

-----------------------------------------------------------------------------
(* Cache *)

CacheStates ==
  [at : {"idle", "missed", "computed", "written", "scanned"}, worker : Workers \cup {0},
   value : Nat, since : Nat, keys : SUBSET Workers]

CacheTypes ==
  /\ time \in Nat /\ staleness \in Nat /\ slowness \in Nat
  /\ Version \in Nat /\ replaced \in [0..(Version - 1) -> 0..time]
  /\ cache \in [Workers -> [value : 0..Version, until : Nat]]
  /\ running \in [CacheCalls -> CacheStates]

\* An entry is dropped its time to live after it was the newest, and as long as
\* it took to store it; what is to be stored was the newest when it was read.
Expires ==
  /\ \A w \in Workers :
       cache[w].until <= Ttl + slowness
                         + (IF cache[w].value = Version THEN time ELSE replaced[cache[w].value])
  /\ \A c \in CacheCalls : running[c].at = "computed" =>
       /\ running[c].since <= time /\ running[c].value <= Version
       /\ running[c].value # Version => running[c].since <= replaced[running[c].value]
  /\ staleness <= Ttl + slowness

\* One call at a time, a Redis that works: what is stored is out of date only
\* until the one call that writes has deleted it, and it has seen all of it.
Undisturbed ==
  alone /\ ~failures =>
    /\ \A c, d \in CacheCalls : running[c].at # "idle" /\ running[d].at # "idle" => c = d
    /\ \A w \in Workers :
         time < cache[w].until /\ cache[w].value # Version =>
           \E c \in CacheCalls : \/ running[c].at = "written"
                                 \/ running[c].at = "scanned" /\ w \in running[c].keys
    /\ \A c \in CacheCalls : running[c].at = "computed" => running[c].value = Version
    /\ staleness = 0

CacheInv == CacheTypes /\ Expires /\ Undisturbed

LEMMA VersionOf ==
  ASSUME NEW n \in Nat
  PROVE  Cardinality(0..n) = n + 1 /\ Cardinality(0..(n - 1)) = n
  <1>1. \A m \in Nat : Cardinality(0..m) = m + 1
    BY FS_Interval
  <1>2. CASE n = 0
    <2>1. 0..(n - 1) = {}
      BY <1>2
    <2> QED BY <1>1, <1>2, <2>1, FS_EmptySet
  <1>3. CASE n # 0
    <2>1. n - 1 \in Nat /\ (n - 1) + 1 = n
      BY <1>3
    <2> QED BY <1>1, <2>1
  <1> QED BY <1>2, <1>3

LEMMA CacheStart == CacheInit => CacheInv
  <1> SUFFICES ASSUME CacheInit PROVE CacheInv
    OBVIOUS
  <1>1. DOMAIN replaced = {} /\ replaced = [v \in {} |-> 0]
    BY DEF CacheInit
  <1>2. Version = 0
    BY <1>1, FS_EmptySet DEF Version
  <1>3. 0..(Version - 1) = {}
    BY <1>2
  <1>4. replaced \in [0..(Version - 1) -> 0..time]
    BY <1>1, <1>3
  <1>5. Waiting \in CacheStates /\ Waiting.at = "idle"
    BY DEF Waiting, CacheStates
  <1>6. cache \in [Workers -> [value : 0..Version, until : Nat]]
        /\ \A w \in Workers : cache[w].until = 0 /\ cache[w].value = Version
    BY <1>2 DEF CacheInit, NoEntry
  <1>7. running \in [CacheCalls -> CacheStates] /\ \A c \in CacheCalls : running[c].at = "idle"
    BY <1>5 DEF CacheInit
  <1>8. time = 0 /\ staleness = 0 /\ slowness = 0
    BY DEF CacheInit
  <1>9. CacheTypes
    BY <1>2, <1>4, <1>6, <1>7, <1>8 DEF CacheTypes
  <1>10. Expires
    BY <1>6, <1>7, <1>8, CacheAssumption DEF Expires
  <1>11. Undisturbed
    BY <1>6, <1>7, <1>8 DEF Undisturbed
  <1> QED BY <1>9, <1>10, <1>11 DEF CacheInv

LEMMA TimeOfCache == CacheInv /\ CacheTick => CacheInv'
  <1> SUFFICES ASSUME CacheInv, CacheTick PROVE CacheInv'
    OBVIOUS
  <1>1. /\ time' = time + 1 /\ replaced' = replaced /\ cache' = cache /\ running' = running
        /\ alone' = alone /\ failures' = failures /\ staleness' = staleness
        /\ slowness' = slowness /\ Version' = Version
    BY DEF CacheTick, Version
  <1>2. CacheTypes
    BY DEF CacheInv
  <1>3. CacheTypes'
    <2>1. replaced' \in [0..(Version' - 1) -> 0..time']
      BY <1>1, <1>2 DEF CacheTypes
    <2> QED BY <1>1, <1>2, <2>1 DEF CacheTypes
  <1>4. Expires'
    <2>1. ASSUME NEW w \in Workers
          PROVE  cache'[w].until <= Ttl + slowness'
                   + (IF cache'[w].value = Version' THEN time' ELSE replaced'[cache'[w].value])
      <3>1. cache[w].until \in Nat /\ cache[w].value \in 0..Version
        BY <1>2 DEF CacheTypes
      <3>2. cache[w].value # Version => replaced[cache[w].value] \in 0..time
        BY <1>2, <3>1 DEF CacheTypes
      <3> QED BY <1>1, <1>2, <3>1, <3>2, CacheAssumption DEF CacheInv, Expires, CacheTypes
    <2>2. ASSUME NEW c \in CacheCalls
          PROVE  running[c].since \in Nat
      BY <1>2 DEF CacheTypes, CacheStates
    <2> QED BY <1>1, <1>2, <2>1, <2>2 DEF CacheInv, Expires, CacheTypes
  <1>5. Undisturbed'
    BY <1>1, <1>2 DEF CacheInv, Undisturbed, CacheTypes
  <1> QED BY <1>3, <1>4, <1>5 DEF CacheInv

\* A step in which neither time passes, nor data or entries change: a call goes
\* on, and not to what it would store or delete.
LEMMA CallGoesOn ==
  ASSUME CacheInv, NEW c \in CacheCalls, NEW new \in CacheStates,
         running' = [running EXCEPT ![c] = new],
         time' = time, replaced' = replaced, cache' = cache, alone' = alone,
         failures' = failures, staleness' = staleness, slowness' = slowness,
         new.at = "computed" => new.value = Version /\ new.since = time,
         alone /\ ~failures => \/ new.at = "idle"
                               \/ \A d \in CacheCalls : d # c => running[d].at = "idle",
         alone /\ ~failures =>
           \A w \in Workers :
             time < cache[w].until /\ cache[w].value # Version =>
               \E d \in CacheCalls : \/ running'[d].at = "written"
                                     \/ running'[d].at = "scanned" /\ w \in running'[d].keys
  PROVE  CacheInv'
  <1>1. Version' = Version
    BY DEF Version
  <1>2. CacheTypes
    BY DEF CacheInv
  <1>3. running' \in [CacheCalls -> CacheStates]
        /\ running'[c] = new /\ \A d \in CacheCalls : d # c => running'[d] = running[d]
    BY <1>2 DEF CacheTypes
  <1>4. CacheTypes'
    BY <1>1, <1>2, <1>3 DEF CacheTypes
  <1>5. Expires'
    BY <1>1, <1>2, <1>3 DEF CacheInv, Expires, CacheTypes
  <1>6. Undisturbed'
    BY <1>1, <1>3 DEF CacheInv, Undisturbed
  <1> QED BY <1>4, <1>5, <1>6 DEF CacheInv

LEMMA CallsThatGoOn ==
  ASSUME CacheInv, NEW c \in CacheCalls,
         \/ \E w \in Workers : get_miss(c, w)
         \/ call_function(c) \/ set_failing(c) \/ scan_iter(c) \/ invalidate_failing(c)
  PROVE  CacheInv'
  <1>1. CacheTypes /\ running[c] \in CacheStates
    BY DEF CacheInv, CacheTypes
  <1>2. PICK old \in CacheStates : old = running[c]
    BY <1>1
  <1>3. Waiting \in CacheStates /\ Waiting.at = "idle"
    BY DEF Waiting, CacheStates
  <1>4. ASSUME NEW new \in CacheStates
        PROVE  running' = [running EXCEPT ![c] = new]
               => running'[c] = new /\ \A d \in CacheCalls : d # c => running'[d] = running[d]
    BY <1>1 DEF CacheTypes
  <1>5. ASSUME NEW w \in Workers, get_miss(c, w)
        PROVE  CacheInv'
    <2>1. PICK new : new = [Waiting EXCEPT !.at = "missed", !.worker = w]
      OBVIOUS
    <2>2. new \in CacheStates /\ new.at = "missed"
      BY <2>1 DEF Waiting, CacheStates
    <2>3. running' = [running EXCEPT ![c] = new]
      BY <1>5, <2>1 DEF get_miss
    <2>4. /\ time' = time /\ replaced' = replaced /\ cache' = cache /\ alone' = alone
          /\ failures' = failures /\ staleness' = staleness /\ slowness' = slowness
          /\ running[c].at = "idle"
          /\ alone => \A d \in CacheCalls : running[d].at = "idle"
      BY <1>5 DEF get_miss, Begins
    <2>5. alone /\ ~failures =>
            \A v \in Workers :
              time < cache[v].until /\ cache[v].value # Version =>
                \E d \in CacheCalls : \/ running'[d].at = "written"
                                      \/ running'[d].at = "scanned" /\ v \in running'[d].keys
      BY <2>4 DEF CacheInv, Undisturbed
    <2> QED BY <2>2, <2>3, <2>4, <2>5, CallGoesOn
  <1>6. CASE call_function(c)
    <2>1. PICK new : new = [old EXCEPT !.at = "computed", !.value = Version, !.since = time]
      OBVIOUS
    <2>2. new \in CacheStates /\ new.at = "computed" /\ new.value = Version /\ new.since = time
      BY <2>1, <1>1 DEF CacheStates, CacheTypes
    <2>3. running' = [running EXCEPT ![c] = new]
      BY <1>2, <1>6, <2>1 DEF call_function
    <2>4. /\ time' = time /\ replaced' = replaced /\ cache' = cache /\ alone' = alone
          /\ failures' = failures /\ staleness' = staleness /\ slowness' = slowness
          /\ running[c].at = "missed"
      BY <1>6 DEF call_function, At
    <2>5. alone /\ ~failures => \A d \in CacheCalls : d # c => running[d].at = "idle"
      BY <2>4 DEF CacheInv, Undisturbed
    <2>6. alone /\ ~failures =>
            \A v \in Workers : ~(time < cache[v].until /\ cache[v].value # Version)
      BY <2>4, <2>5 DEF CacheInv, Undisturbed
    <2> QED BY <2>2, <2>3, <2>4, <2>5, <2>6, CallGoesOn
  <1>7. CASE set_failing(c) \/ invalidate_failing(c)
    <2>1. /\ running' = [running EXCEPT ![c] = Waiting] /\ failures
          /\ time' = time /\ replaced' = replaced /\ cache' = cache /\ alone' = alone
          /\ failures' = failures /\ staleness' = staleness /\ slowness' = slowness
      BY <1>7 DEF set_failing, invalidate_failing
    <2> QED BY <1>3, <2>1, CallGoesOn
  <1>8. CASE scan_iter(c)
    <2>1. PICK new : new = [old EXCEPT !.at = "scanned", !.keys = {w \in Workers : Live(w)}]
      OBVIOUS
    <2>2. /\ new \in CacheStates /\ new.at = "scanned"
          /\ \A w \in Workers : time < cache[w].until => w \in new.keys
      BY <2>1 DEF CacheStates, Live
    <2>3. running' = [running EXCEPT ![c] = new]
      BY <1>2, <1>8, <2>1 DEF scan_iter
    <2>4. /\ time' = time /\ replaced' = replaced /\ cache' = cache /\ alone' = alone
          /\ failures' = failures /\ staleness' = staleness /\ slowness' = slowness
          /\ running[c].at = "written"
      BY <1>8 DEF scan_iter, At
    <2>5. alone /\ ~failures => \A d \in CacheCalls : d # c => running[d].at = "idle"
      BY <2>4 DEF CacheInv, Undisturbed
    <2>6. running'[c] = new
      BY <1>4, <2>2, <2>3
    <2> QED BY <2>2, <2>3, <2>4, <2>5, <2>6, CallGoesOn
  <1> QED BY <1>5, <1>6, <1>7, <1>8

\* A hit returns what was the newest, or was replaced less than its time ago.
LEMMA CacheHit ==
  ASSUME CacheInv, NEW c \in CacheCalls, NEW w \in Workers, get_hit(c, w)
  PROVE  CacheInv'
  <1>1. /\ time' = time /\ replaced' = replaced /\ cache' = cache /\ running' = running
        /\ alone' = alone /\ failures' = failures /\ slowness' = slowness
        /\ time < cache[w].until
        /\ alone => \A d \in CacheCalls : running[d].at = "idle"
    BY DEF get_hit, Begins, Live
  <1>2. Version' = Version
    BY <1>1 DEF Version
  <1>3. CacheTypes /\ Expires
    BY DEF CacheInv
  <1>4. PICK value \in 0..Version : value = cache[w].value
    BY <1>3 DEF CacheTypes
  <1>5. PICK age : age = IF value = Version THEN 0 ELSE 1 + time - replaced[value]
    OBVIOUS
  <1>6. value # Version => replaced[value] \in 0..time
    BY <1>3 DEF CacheTypes
  <1>7. cache[w].until \in Nat
        /\ cache[w].until <= Ttl + slowness + (IF value = Version THEN time ELSE replaced[value])
    BY <1>3, <1>4 DEF CacheTypes, Expires
  <1>8. age \in Nat /\ age <= Ttl + slowness
    <2>1. CASE value = Version
      BY <1>3, <1>5, <2>1, CacheAssumption DEF CacheTypes
    <2>2. CASE value # Version
      <3>1. age = 1 + time - replaced[value] /\ replaced[value] \in 0..time /\ time \in Nat
        BY <1>3, <1>5, <1>6, <2>2 DEF CacheTypes
      <3>2. time < Ttl + slowness + replaced[value]
        BY <1>1, <1>3, <1>7, <2>2, <3>1, CacheAssumption DEF CacheTypes
      <3> QED BY <1>3, <3>1, <3>2, CacheAssumption DEF CacheTypes
    <2> QED BY <2>1, <2>2
  <1>9. staleness' = IF staleness < age THEN age ELSE staleness
    <2>1. staleness' = Max({staleness, age})
      BY <1>4, <1>5 DEF get_hit, Returns
    <2> QED BY <1>3, <1>8, <2>1, MaxOfTwo DEF CacheTypes
  <1>10. alone /\ ~failures => age = 0
    BY <1>1, <1>4, <1>5 DEF CacheInv, Undisturbed
  <1>11. CacheTypes'
    BY <1>1, <1>2, <1>3, <1>8, <1>9 DEF CacheTypes
  <1>12. Expires'
    BY <1>1, <1>2, <1>3, <1>8, <1>9 DEF Expires
  <1>13. Undisturbed'
    BY <1>1, <1>2, <1>9, <1>10 DEF CacheInv, Undisturbed
  <1> QED BY <1>11, <1>12, <1>13 DEF CacheInv

\* An entry has its time to live before it, and what is in it was read no longer
\* ago than the call took.
LEMMA CacheSet ==
  ASSUME CacheInv, NEW c \in CacheCalls, set(c)
  PROVE  CacheInv'
  <1>1. /\ time' = time /\ replaced' = replaced /\ alone' = alone /\ failures' = failures
        /\ staleness' = staleness /\ running[c].at = "computed"
    BY DEF set, At
  <1>2. Version' = Version
    BY <1>1 DEF Version
  <1>3. CacheTypes /\ Expires
    BY DEF CacheInv
  <1>4. PICK old \in CacheStates : old = running[c]
    BY <1>3 DEF CacheTypes
  <1>5. /\ old.since \in Nat /\ old.value \in Nat
        /\ old.since <= time /\ old.value <= Version
        /\ old.value # Version => old.since <= replaced[old.value]
    BY <1>1, <1>3, <1>4 DEF Expires, CacheStates
  <1>6. slowness' = (IF slowness < time - old.since THEN time - old.since ELSE slowness)
    <2>1. slowness' = Max({slowness, time - old.since})
      BY <1>4 DEF set
    <2>2. slowness \in Int /\ time - old.since \in Int
      BY <1>3, <1>5 DEF CacheTypes
    <2> QED BY <2>1, <2>2, MaxOfTwo
  <1>7. slowness' \in Nat /\ slowness <= slowness' /\ time - old.since <= slowness'
    BY <1>3, <1>5, <1>6 DEF CacheTypes
  <1>8. PICK entry : entry = Entry(old.value)
    OBVIOUS
  <1>9. /\ entry \in [value : 0..Version, until : Nat]
        /\ entry.value = old.value /\ entry.until = time + Ttl
    BY <1>3, <1>5, <1>8, CacheAssumption DEF Entry, CacheTypes
  <1>10. cache' = [cache EXCEPT ![old.worker] = entry]
    BY <1>4, <1>8 DEF set
  <1>11. /\ cache' \in [Workers -> [value : 0..Version, until : Nat]]
         /\ \A w \in Workers : cache'[w] = IF w = old.worker THEN entry ELSE cache[w]
    BY <1>3, <1>9, <1>10 DEF CacheTypes
  <1>12. /\ running' \in [CacheCalls -> CacheStates]
         /\ running'[c].at = "idle" /\ \A d \in CacheCalls : d # c => running'[d] = running[d]
    BY <1>3 DEF set, CacheTypes, CacheStates, Waiting
  <1>13. CacheTypes'
    BY <1>1, <1>2, <1>3, <1>7, <1>11, <1>12 DEF CacheTypes
  <1>14. Expires'
    <2>1. ASSUME NEW w \in Workers
          PROVE  cache'[w].until <= Ttl + slowness'
                   + (IF cache'[w].value = Version' THEN time' ELSE replaced'[cache'[w].value])
      <3>1. CASE w = old.worker
        <4>1. cache'[w].until = time + Ttl /\ cache'[w].value = old.value
          BY <1>9, <1>11, <3>1
        <4>2. old.value # Version => replaced[old.value] \in 0..time
          BY <1>3, <1>5 DEF CacheTypes
        <4>3. CASE old.value = Version
          BY <1>1, <1>2, <1>3, <1>7, <4>1, <4>3, CacheAssumption DEF CacheTypes
        <4>4. CASE old.value # Version
          <5>1. replaced[old.value] \in Int /\ old.since <= replaced[old.value] /\ time \in Int
                /\ slowness' \in Int /\ Ttl \in Int
            BY <1>3, <1>5, <1>7, <4>2, <4>4, CacheAssumption DEF CacheTypes
          <5>2. time + Ttl <= Ttl + slowness' + replaced[old.value]
            BY <1>5, <1>7, <5>1
          <5> QED BY <1>1, <1>2, <4>1, <4>4, <5>2
        <4> QED BY <4>3, <4>4
      <3>2. CASE w # old.worker
        <4>1. cache'[w] = cache[w] /\ cache[w].until \in Nat /\ cache[w].value \in 0..Version
          BY <1>3, <1>11, <3>2 DEF CacheTypes
        <4>2. cache[w].value # Version => replaced[cache[w].value] \in 0..time
          BY <1>3, <4>1 DEF CacheTypes
        <4>3. cache[w].until <= Ttl + slowness
                + (IF cache[w].value = Version THEN time ELSE replaced[cache[w].value])
          BY <1>3 DEF Expires
        <4> QED BY <1>1, <1>2, <1>3, <1>7, <4>1, <4>2, <4>3, CacheAssumption DEF CacheTypes
      <3> QED BY <3>1, <3>2
    <2>2. \A d \in CacheCalls : running'[d].at = "computed" => running'[d] = running[d]
      <3>1. "idle" # "computed"
        OBVIOUS
      <3> QED BY <1>12, <3>1
    <2>3. staleness' <= Ttl + slowness'
      <3>1. staleness <= Ttl + slowness /\ staleness \in Nat /\ slowness \in Nat /\ Ttl \in Nat
        BY <1>3, CacheAssumption DEF Expires, CacheTypes
      <3>2. \A a, b, d, ttl \in Nat : a <= ttl + b /\ b <= d => a <= ttl + d
        OBVIOUS
      <3>3. staleness' = staleness /\ slowness' \in Nat /\ slowness <= slowness'
        BY <1>1, <1>7
      <3> QED BY <3>1, <3>2, <3>3
    <2> QED BY <1>1, <1>2, <1>3, <2>1, <2>2, <2>3 DEF Expires
  <1>15. Undisturbed'
    <2> SUFFICES ASSUME alone, ~failures PROVE Undisturbed'
      BY <1>1 DEF Undisturbed
    <2>1. old.value = Version
      BY <1>1, <1>4 DEF CacheInv, Undisturbed
    <2>2. \A d \in CacheCalls : running'[d].at = "idle"
      BY <1>1, <1>12 DEF CacheInv, Undisturbed
    <2>3. \A w \in Workers : time < cache[w].until => cache[w].value = Version
      BY <1>1 DEF CacheInv, Undisturbed
    <2>4. \A w \in Workers : time < cache'[w].until => cache'[w].value = Version
      BY <1>9, <1>11, <2>1, <2>3
    <2> QED BY <1>1, <1>2, <2>2, <2>4 DEF CacheInv, Undisturbed
  <1> QED BY <1>13, <1>14, <1>15 DEF CacheInv

\* A write makes the entries that were the newest out of date, from now on; the
\* one that wrote is about to delete them.
LEMMA CacheWrite ==
  ASSUME CacheInv, NEW c \in CacheCalls, write(c)
  PROVE  CacheInv'
  <1>1. /\ time' = time /\ cache' = cache /\ alone' = alone /\ failures' = failures
        /\ staleness' = staleness /\ slowness' = slowness
        /\ running[c].at = "idle"
        /\ alone => \A d \in CacheCalls : running[d].at = "idle"
    BY DEF write, Begins
  <1>2. CacheTypes /\ Expires
    BY DEF CacheInv
  <1>3. PICK n \in Nat : n = Version
    BY <1>2 DEF CacheTypes
  <1>4. replaced' = [v \in 0..n |-> IF v = n THEN time ELSE replaced[v]]
    BY <1>3 DEF write
  <1>5. Version' = n + 1
    <2>1. DOMAIN replaced' = 0..n
      BY <1>4
    <2> QED BY <2>1, VersionOf DEF Version
  <1>6. /\ \A v \in 0..(n - 1) : v \in 0..n /\ replaced[v] \in 0..time
        /\ n \in 0..n /\ time \in 0..time
    BY <1>2, <1>3 DEF CacheTypes
  <1>7. /\ replaced' \in [0..(Version' - 1) -> 0..time']
        /\ replaced'[n] = time /\ \A v \in 0..(n - 1) : replaced'[v] = replaced[v]
    <2>1. 0..(Version' - 1) = 0..n
      BY <1>5
    <2>2. \A v \in 0..n : v = n \/ v \in 0..(n - 1)
      OBVIOUS
    <2>3. replaced' \in [0..n -> 0..time]
      BY <1>4, <1>6, <2>2
    <2>4. replaced'[n] = time
      BY <1>4, <1>6
    <2>5. \A v \in 0..(n - 1) : replaced'[v] = replaced[v]
      BY <1>4, <1>6
    <2> QED BY <1>1, <2>1, <2>3, <2>4, <2>5
  <1>8. /\ running' \in [CacheCalls -> CacheStates]
        /\ running'[c].at = "written" /\ \A d \in CacheCalls : d # c => running'[d] = running[d]
    BY <1>2 DEF write, CacheTypes, CacheStates, Waiting
  <1>9. CacheTypes'
    <2>1. \A v \in 0..n : v \in 0..(n + 1)
      OBVIOUS
    <2>2. cache' \in [Workers -> [value : 0..Version', until : Nat]]
      BY <1>1, <1>2, <1>3, <1>5, <2>1 DEF CacheTypes
    <2> QED BY <1>1, <1>2, <1>5, <1>7, <1>8, <2>2 DEF CacheTypes
  <1>10. Expires'
    <2>1. ASSUME NEW w \in Workers
          PROVE  cache'[w].until <= Ttl + slowness'
                   + (IF cache'[w].value = Version' THEN time' ELSE replaced'[cache'[w].value])
      <3>1. cache[w].value \in 0..n
        BY <1>2, <1>3 DEF CacheTypes
      <3>2. cache[w].value # Version' /\ (cache[w].value = n \/ cache[w].value \in 0..(n - 1))
        BY <1>5, <3>1
      <3>3. replaced'[cache[w].value] = IF cache[w].value = n THEN time ELSE replaced[cache[w].value]
        BY <1>7, <3>2
      <3> QED BY <1>1, <1>2, <1>3, <3>2, <3>3 DEF Expires
    <2>2. ASSUME NEW d \in CacheCalls, running'[d].at = "computed"
          PROVE  /\ running'[d].since <= time' /\ running'[d].value <= Version'
                 /\ running'[d].value # Version' => running'[d].since <= replaced'[running'[d].value]
      <3>1. running'[d] = running[d]
        BY <1>8, <2>2
      <3>2. running[d].value \in Nat
        BY <1>2 DEF CacheTypes, CacheStates
      <3>3. /\ running[d].since <= time /\ running[d].value <= n
            /\ running[d].value # n => running[d].since <= replaced[running[d].value]
        BY <1>2, <1>3, <2>2, <3>1 DEF Expires
      <3>4. running[d].value = n \/ running[d].value \in 0..(n - 1)
        BY <3>2, <3>3
      <3>5. replaced'[running[d].value]
              = IF running[d].value = n THEN time ELSE replaced[running[d].value]
        BY <1>7, <3>4
      <3> QED BY <1>1, <1>5, <3>1, <3>2, <3>3, <3>5
    <2> QED BY <1>1, <1>2, <2>1, <2>2 DEF Expires
  <1>11. Undisturbed'
    BY <1>1, <1>8 DEF CacheInv, Undisturbed
  <1> QED BY <1>9, <1>10, <1>11 DEF CacheInv

LEMMA CacheDelete ==
  ASSUME CacheInv, NEW c \in CacheCalls, delete(c)
  PROVE  CacheInv'
  <1>1. /\ time' = time /\ replaced' = replaced /\ alone' = alone /\ failures' = failures
        /\ staleness' = staleness /\ slowness' = slowness /\ running[c].at = "scanned"
    BY DEF delete, At
  <1>2. Version' = Version
    BY <1>1 DEF Version
  <1>3. CacheTypes /\ Expires
    BY DEF CacheInv
  <1>4. NoEntry \in [value : 0..Version, until : Nat] /\ NoEntry.value = 0 /\ NoEntry.until = 0
    BY <1>3 DEF NoEntry, CacheTypes
  <1>5. PICK keys : keys = running[c].keys
    OBVIOUS
  <1>6. cache' = [w \in Workers |-> IF w \in keys THEN NoEntry ELSE cache[w]]
    BY <1>5 DEF delete
  <1>7. /\ cache' \in [Workers -> [value : 0..Version, until : Nat]]
        /\ \A w \in Workers : cache'[w] = IF w \in keys THEN NoEntry ELSE cache[w]
    BY <1>3, <1>4, <1>6 DEF CacheTypes
  <1>8. /\ running' \in [CacheCalls -> CacheStates]
        /\ running'[c].at = "idle" /\ \A d \in CacheCalls : d # c => running'[d] = running[d]
    BY <1>3 DEF delete, CacheTypes, CacheStates, Waiting
  <1>9. CacheTypes'
    BY <1>1, <1>2, <1>3, <1>7, <1>8 DEF CacheTypes
  <1>10. Expires'
    <2>1. ASSUME NEW w \in Workers
          PROVE  cache'[w].until <= Ttl + slowness'
                   + (IF cache'[w].value = Version' THEN time' ELSE replaced'[cache'[w].value])
      <3>1. CASE w \in keys
        <4>1. cache'[w].until = 0 /\ cache'[w].value = 0
          BY <1>4, <1>7, <3>1
        <4>2. 0 # Version => replaced[0] \in 0..time
          BY <1>3 DEF CacheTypes
        <4> QED BY <1>1, <1>2, <1>3, <4>1, <4>2, CacheAssumption DEF CacheTypes
      <3>2. CASE w \notin keys
        <4>1. cache'[w] = cache[w]
          BY <1>7, <3>2
        <4> QED BY <1>1, <1>2, <1>3, <4>1 DEF Expires
      <3> QED BY <3>1, <3>2
    <2>2. \A d \in CacheCalls : running'[d].at = "computed" => running'[d] = running[d]
      <3>1. "idle" # "computed"
        OBVIOUS
      <3> QED BY <1>8, <3>1
    <2> QED BY <1>1, <1>2, <1>3, <2>1, <2>2 DEF Expires
  <1>11. Undisturbed'
    <2> SUFFICES ASSUME alone, ~failures PROVE Undisturbed'
      BY <1>1 DEF Undisturbed
    <2>1. \A d \in CacheCalls : running'[d].at = "idle"
      BY <1>1, <1>8 DEF CacheInv, Undisturbed
    <2>2. \A d \in CacheCalls : running[d].at # "idle" => d = c
      BY <1>1 DEF CacheInv, Undisturbed
    <2>3. \A w \in Workers : time < cache[w].until /\ cache[w].value # Version => w \in keys
      BY <1>1, <1>5, <2>2 DEF CacheInv, Undisturbed
    <2>4. \A w \in Workers : time < cache'[w].until => cache'[w].value = Version
      <3>1. \A w \in Workers : w \in keys => ~(time < cache'[w].until)
        BY <1>3, <1>4, <1>7 DEF CacheTypes
      <3> QED BY <1>7, <2>3, <3>1
    <2> QED BY <1>1, <1>2, <2>1, <2>4 DEF CacheInv, Undisturbed
  <1> QED BY <1>9, <1>10, <1>11 DEF CacheInv

LEMMA CacheStep == CacheInv /\ [CacheNext]_cacheVars => CacheInv'
  <1> SUFFICES ASSUME CacheInv, [CacheNext]_cacheVars PROVE CacheInv'
    OBVIOUS
  <1>1. CASE UNCHANGED cacheVars
    <2>1. Version' = Version
      BY <1>1 DEF cacheVars, Version
    <2> QED BY <1>1, <2>1 DEF cacheVars, CacheInv, CacheTypes, Expires, Undisturbed
  <1> QED BY <1>1, TimeOfCache, CacheHit, CallsThatGoOn, CacheSet, CacheWrite, CacheDelete
          DEF CacheNext

\* Whatever overlaps, fails or dies, nothing is returned from the cache longer
\* after it was replaced than its time to live and the length of a call; and
\* nothing that was replaced at all, if calls do not overlap and Redis works.
THEOREM ValuesAreFresh == CacheInit /\ [][CacheNext]_cacheVars => []FreshEnough
  <1>1. CacheInv => FreshEnough
    BY DEF CacheInv, Expires, Undisturbed, FreshEnough
  <1> QED BY <1>1, CacheStart, CacheStep, PTL

-----------------------------------------------------------------------------
(* Error tracking *)

\* A group's cooldown is counted from its last notification.
ErrorsTyped ==
  /\ second \in Nat /\ last_notification \in [Groups -> Int]
  /\ DOMAIN error_timestamps = Groups
  /\ tracked \in Seq([time : Nat, group : Groups, notify : BOOLEAN,
                      severity : {"warning", "error", "critical"}])
  /\ notified \in Seq([time : Nat, group : Groups, type : {"immediate", "batch"}])

LastNotified ==
  /\ \A g \in Groups :
       \/ last_notification[g] = NeverNotified
       \/ /\ last_notification[g] <= second
          /\ \E n \in DOMAIN notified :
               notified[n].group = g /\ notified[n].time = last_notification[g]
  /\ \A n \in DOMAIN notified : notified[n].time <= last_notification[notified[n].group]

\* The timestamps of a group have all its errors within the window.
RecentCounted ==
  /\ \A g \in Groups : IsFiniteSet(error_timestamps[g])
  /\ \A i \in DOMAIN tracked :
       tracked[i].time > second - RateWindow
       => [error |-> i, at |-> tracked[i].time] \in error_timestamps[tracked[i].group]

ErrorInv == ErrorsTyped /\ LastNotified /\ RecentCounted /\ TroubleIsHeard

LEMMA SeverityIs ==
  ASSUME NEW error
  PROVE  classify_severity(error) \in {"warning", "error", "critical"}
  BY DEF classify_severity

LEMMA ErrorEntries ==
  ASSUME ErrorsTyped, NEW i \in DOMAIN tracked
  PROVE  tracked[i].time \in Nat /\ tracked[i].group \in Groups
  <1>1. PICK Records : Records = [time : Nat, group : Groups, notify : BOOLEAN,
                              severity : {"warning", "error", "critical"}]
    OBVIOUS
  <1>2. tracked \in Seq(Records)  BY <1>1 DEF ErrorsTyped
  <1>3. tracked[i] \in Records  BY <1>2
  <1> QED BY <1>1, <1>3

LEMMA ErrorStart == ErrorInit => ErrorInv
  <1> SUFFICES ASSUME ErrorInit PROVE ErrorInv
    OBVIOUS
  <1>1. tracked = <<>> /\ notified = <<>> /\ second = 0
        /\ last_notification = [g \in Groups |-> NeverNotified]
        /\ error_timestamps = [g \in Groups |-> {}]
    BY DEF ErrorInit
  <1>2. NeverNotified \in Int
    BY ErrorTrackingAssumption DEF NeverNotified
  <1>3. ErrorsTyped
    BY <1>1, <1>2 DEF ErrorsTyped
  <1>4. LastNotified /\ TroubleIsHeard
    BY <1>1 DEF LastNotified, TroubleIsHeard, CriticalIsHeard
  <1>5. RecentCounted
    BY <1>1, FS_EmptySet DEF RecentCounted
  <1> QED BY <1>3, <1>4, <1>5 DEF ErrorInv

LEMMA ErrorsTick == ErrorInv /\ ErrorTick => ErrorInv'
  <1> SUFFICES ASSUME ErrorInv, ErrorTick PROVE ErrorInv'
    OBVIOUS
  <1>1. /\ second' = second + TickLength /\ tracked' = tracked /\ notified' = notified
        /\ last_notification' = last_notification /\ error_timestamps' = error_timestamps
    BY DEF ErrorTick
  <1>2. ErrorsTyped'
    BY <1>1, ErrorTrackingAssumption DEF ErrorInv, ErrorsTyped
  <1>3. second <= second' /\ second \in Int /\ second' \in Int
    BY <1>1, ErrorTrackingAssumption DEF ErrorInv, ErrorsTyped
  <1>4. LastNotified'
    <2>1. \A g \in Groups : last_notification[g] \in Int /\ last_notification[g] <= second
                           => last_notification[g] <= second'
      BY <1>3
    <2>2. LastNotified /\ \A g \in Groups : last_notification[g] \in Int
      BY DEF ErrorInv, ErrorsTyped
    <2> QED BY <1>1, <2>1, <2>2 DEF LastNotified, NeverNotified
  <1>5. TroubleIsHeard'
    BY <1>1 DEF ErrorInv, TroubleIsHeard, CriticalIsHeard, Heard, Burst
  <1>6. RecentCounted'
    <2>1. ASSUME NEW i \in DOMAIN tracked, tracked[i].time > second' - RateWindow
          PROVE  tracked[i].time > second - RateWindow
      <3>1. tracked[i].time \in Nat
        BY ErrorEntries DEF ErrorInv
      <3> QED BY <1>3, <2>1, <3>1, ErrorTrackingAssumption
    <2> QED BY <1>1, <2>1 DEF ErrorInv, RecentCounted
  <1> QED BY <1>2, <1>4, <1>5, <1>6 DEF ErrorInv

\* Adding an error drops only what is out of the window, so that the timestamps
\* of its group are not fewer than the errors of its burst.
LEMMA BurstCounted ==
  ASSUME ErrorInv, NEW error \in Exceptions, NEW endpoint \in Endpoints,
         NEW notify \in BOOLEAN, track_error(error, endpoint, notify),
         NEW last, last = Len(tracked) + 1
  PROVE  /\ RecentCounted' /\ DOMAIN error_timestamps' = Groups
         /\ \A i \in DOMAIN tracked : Burst(i)' = Burst(i)
         /\ 100 * Burst(last)' > 5 * RateWindow
            => RateAbove(group_error(error, endpoint), 5)
  <1>1. PICK g \in Groups : g = group_error(error, endpoint)
    BY DEF group_error, Groups
  <1>3. PICK new : new = [error |-> last, at |-> second]
    OBVIOUS
  <1>4. PICK entry : entry = [time |-> second, group |-> g, notify |-> notify,
                              severity |-> classify_severity(error)]
    OBVIOUS
  <1>5. /\ ErrorsTyped /\ RecentCounted /\ second \in Nat /\ second' = second
        /\ tracked' = Append(tracked, entry)
        /\ error_timestamps' = [error_timestamps EXCEPT ![g] = WithinRate(@ \cup {new})]
    BY <1>1, <1>3, <1>4 DEF track_error, ErrorInv, ErrorsTyped
  <1>6. /\ Len(tracked) \in Nat /\ DOMAIN tracked = 1..Len(tracked)
        /\ DOMAIN tracked' = 1..last /\ last \in Nat /\ last \notin DOMAIN tracked
        /\ tracked'[last] = entry
        /\ \A i \in DOMAIN tracked : tracked'[i] = tracked[i]
        /\ \A i \in DOMAIN tracked' : i # last => i \in DOMAIN tracked
    BY <1>5 DEF ErrorsTyped
  <1>7. entry.time = second /\ entry.group = g
    BY <1>4
  <1> HIDE DEF ErrorInv
  <1>8. /\ DOMAIN error_timestamps' = Groups
        /\ error_timestamps'[g] = WithinRate(error_timestamps[g] \cup {new})
        /\ \A h \in Groups \ {g} : error_timestamps'[h] = error_timestamps[h]
    BY <1>5 DEF ErrorsTyped
  <1>9. \A h \in Groups : IsFiniteSet(error_timestamps'[h])
    <2>1. IsFiniteSet(error_timestamps[g] \cup {new})
      BY <1>5, FS_AddElement DEF RecentCounted
    <2>2. WithinRate(error_timestamps[g] \cup {new}) \in SUBSET (error_timestamps[g] \cup {new})
      BY DEF WithinRate
    <2>3. IsFiniteSet(error_timestamps'[g])
      <3>1. IsFiniteSet(WithinRate(error_timestamps[g] \cup {new}))
        BY <2>1, <2>2, FS_Subset
      <3> QED BY <1>8, <3>1, Zenon
    <2>4. ASSUME NEW h \in Groups \ {g}
          PROVE  IsFiniteSet(error_timestamps'[h])
      <3>1. IsFiniteSet(error_timestamps[h])
        BY <1>5 DEF RecentCounted
      <3>2. error_timestamps'[h] = error_timestamps[h]
        BY <1>8
      <3> QED BY <3>1, <3>2, Zenon
    <2> QED BY <2>3, <2>4, Zenon
  <1>10. ASSUME NEW i \in DOMAIN tracked', tracked'[i].time > second - RateWindow
         PROVE  [error |-> i, at |-> tracked'[i].time] \in error_timestamps'[tracked'[i].group]
    <2>1. CASE i = last
      <3>1. new.at = second /\ second > second - RateWindow
        BY <1>3, <1>5, ErrorTrackingAssumption
      <3>2. new \in error_timestamps'[g]
        BY <1>8, <3>1 DEF WithinRate
      <3> QED BY <1>3, <1>6, <1>7, <2>1, <3>2
    <2>2. CASE i # last
      <3>1. i \in DOMAIN tracked /\ tracked'[i] = tracked[i]
        BY <1>6, <2>2
      <3>2. PICK ts : ts = [error |-> i, at |-> tracked[i].time]
        OBVIOUS
      <3>3. ts \in error_timestamps[tracked[i].group] /\ ts.at = tracked[i].time
            /\ tracked[i].group \in Groups
        BY <1>5, <1>10, <3>1, <3>2, ErrorEntries DEF RecentCounted
      <3>4. ts \in error_timestamps'[tracked[i].group]
        BY <1>8, <1>10, <3>1, <3>3 DEF WithinRate
      <3> QED BY <3>1, <3>2, <3>4
    <2> QED BY <2>1, <2>2
  <1>11. RecentCounted'
    BY <1>5, <1>9, <1>10 DEF RecentCounted
  <1>12. ASSUME NEW i \in DOMAIN tracked
         PROVE  Burst(i)' = Burst(i)
    <2>1. \A j \in 1..i : j \in DOMAIN tracked
      BY <1>6
    <2> QED BY <1>6, <2>1 DEF Burst
  <1>13. PICK burst : burst = {j \in 1..last : tracked'[j].group = g
                                              /\ tracked'[j].time > second - RateWindow}
    OBVIOUS
  <1>14. Burst(last)' = Cardinality(burst)
    BY <1>6, <1>7, <1>13 DEF Burst
  <1>15. PICK counted : counted = WithinRate(error_timestamps'[g])
    OBVIOUS
  <1>16. IsFiniteSet(counted)
    <2>1. counted \in SUBSET error_timestamps'[g]  BY <1>15 DEF WithinRate
    <2> QED BY <1>9, <2>1, FS_Subset
  <1>17. Cardinality(burst) <= Cardinality(counted) /\ IsFiniteSet(burst)
    <2>1. PICK f : f = [j \in burst |-> [error |-> j, at |-> tracked'[j].time]]
      OBVIOUS
    <2>2. ASSUME NEW j \in burst
          PROVE  f[j] \in counted /\ f[j].error = j
      <3>1. /\ j \in DOMAIN tracked' /\ tracked'[j].group = g
            /\ tracked'[j].time > second - RateWindow
        BY <1>6, <1>13
      <3>2. f[j] = [error |-> j, at |-> tracked'[j].time]  BY <2>1
      <3>3. f[j] \in error_timestamps'[g]  BY <1>10, <3>1, <3>2
      <3>4. f[j].error = j /\ f[j].at = tracked'[j].time  BY <3>2
      <3> QED BY <1>15, <3>1, <3>3, <3>4 DEF WithinRate
    <2>3. f \in Injection(burst, counted)
      BY <2>1, <2>2 DEF Injection, IsInjective
    <2> QED BY <1>16, <2>3, FS_Injection
  <1>18. 100 * Burst(last)' > 5 * RateWindow => RateAbove(g, 5)
    <2>1. Cardinality(burst) \in Nat /\ Cardinality(counted) \in Nat
      BY <1>16, <1>17, FS_CardinalityType
    <2>2. \A a, b, c \in Nat : a <= b /\ 100 * a > 5 * c => 100 * b > 5 * c
      OBVIOUS
    <2> QED BY <1>14, <1>15, <1>17, <2>1, <2>2, ErrorTrackingAssumption DEF RateAbove
  <1> QED BY <1>1, <1>8, <1>11, <1>12, <1>18

LEMMA ErrorTracked ==
  ASSUME ErrorInv, NEW error \in Exceptions, NEW endpoint \in Endpoints,
         NEW notify \in BOOLEAN, track_error(error, endpoint, notify)
  PROVE  ErrorInv'
  <1>1. PICK g \in Groups : g = group_error(error, endpoint)
    BY DEF group_error, Groups
  <1>2. PICK severity \in {"warning", "error", "critical"} : severity = classify_severity(error)
    BY SeverityIs
  <1>3. PICK at \in Nat : at = second
    BY DEF ErrorInv, ErrorsTyped
  <1>4. PICK entry : entry = [time |-> at, group |-> g, notify |-> notify, severity |-> severity]
    OBVIOUS
  <1>5. /\ second' = at
        /\ tracked' = Append(tracked, entry)
        /\ IF notify THEN _route_notification(severity, g)
                     ELSE UNCHANGED <<last_notification, notified>>
    BY <1>1, <1>2, <1>3, <1>4 DEF track_error
  <1>6. ErrorsTyped /\ LastNotified /\ CriticalIsHeard /\ TroubleIsHeard
    BY DEF ErrorInv, TroubleIsHeard
  <1>7. /\ entry \in [time : Nat, group : Groups, notify : BOOLEAN,
                      severity : {"warning", "error", "critical"}]
        /\ entry.time = at /\ entry.group = g /\ entry.notify = notify
        /\ entry.severity = severity
    BY <1>4
  <1>13. PICK last : last = Len(tracked) + 1
    OBVIOUS
  <1>8. /\ tracked' \in Seq([time : Nat, group : Groups, notify : BOOLEAN,
                             severity : {"warning", "error", "critical"}])
        /\ Len(tracked') = last /\ Len(tracked) \in Nat
        /\ tracked'[last] = entry
        /\ \A i \in 1..Len(tracked) : tracked'[i] = tracked[i]
        /\ DOMAIN tracked = 1..Len(tracked) /\ DOMAIN tracked' = 1..last
    BY <1>5, <1>6, <1>7, <1>13 DEF ErrorsTyped
  <1>9. /\ last \in DOMAIN tracked'
        /\ \A i \in DOMAIN tracked : i # last /\ i \in DOMAIN tracked' /\ tracked'[i] = tracked[i]
        /\ \A i \in DOMAIN tracked' : i # last => i \in DOMAIN tracked
    BY <1>8, <1>13
  <1>10. NeverNotified \in Int /\ at - NeverNotified >= NotificationCooldown
    BY <1>3, ErrorTrackingAssumption DEF NeverNotified
  <1>14. /\ RecentCounted' /\ DOMAIN error_timestamps' = Groups
         /\ \A i \in DOMAIN tracked : Burst(i)' = Burst(i)
         /\ 100 * Burst(last)' > 5 * RateWindow => RateAbove(g, 5)
    BY <1>1, <1>13, BurstCounted
  <1>11. CASE notify /\ ~Quiet(g) /\ should_notify(severity, g)
    <2>1. PICK type \in {"immediate", "batch"} : type = notification_type(severity, g)
      BY DEF notification_type
    <2>2. PICK note : note = [time |-> at, group |-> g, type |-> type]
      OBVIOUS
    <2>3. /\ notified' = Append(notified, note)
          /\ last_notification' = [last_notification EXCEPT ![g] = at]
      BY <1>3, <1>5, <1>11, <2>1, <2>2 DEF _route_notification
    <2>4. /\ note \in [time : Nat, group : Groups, type : {"immediate", "batch"}]
          /\ note.time = at /\ note.group = g
      BY <2>2
    <2>14. PICK top : top = Len(notified) + 1
      OBVIOUS
    <2>5. /\ notified' \in Seq([time : Nat, group : Groups, type : {"immediate", "batch"}])
          /\ Len(notified) \in Nat
          /\ notified'[top] = note
          /\ \A n \in 1..Len(notified) : notified'[n] = notified[n]
          /\ DOMAIN notified = 1..Len(notified) /\ DOMAIN notified' = 1..top
      BY <1>6, <2>3, <2>4, <2>14 DEF ErrorsTyped
    <2>6. /\ top \in DOMAIN notified'
          /\ \A n \in DOMAIN notified : n # top /\ n \in DOMAIN notified' /\ notified'[n] = notified[n]
          /\ \A n \in DOMAIN notified' : n # top => n \in DOMAIN notified
      BY <2>5, <2>14
    <2>7. /\ last_notification' \in [Groups -> Int] /\ last_notification'[g] = at
          /\ \A h \in Groups : h # g => last_notification'[h] = last_notification[h]
      BY <1>6, <2>3 DEF ErrorsTyped
    <2>8. \A n \in DOMAIN notified : /\ notified[n].group \in Groups /\ notified[n].time \in Nat
                                     /\ notified[n].time <= last_notification[notified[n].group]
      <3>1. \A n \in DOMAIN notified :
              notified[n] \in [time : Nat, group : Groups, type : {"immediate", "batch"}]
        <4>1. PICK Notes : Notes = [time : Nat, group : Groups, type : {"immediate", "batch"}]
          OBVIOUS
        <4>2. notified \in Seq(Notes)
          BY <1>6, <4>1 DEF ErrorsTyped
        <4>3. \A n \in DOMAIN notified : notified[n] \in Notes
          BY <4>2
        <4> QED BY <4>1, <4>3
      <3> QED BY <1>6, <3>1 DEF LastNotified
    <2>9. last_notification[g] \in Int /\ at - last_notification[g] >= NotificationCooldown
      BY <1>3, <1>6, <1>11, ErrorTrackingAssumption DEF Quiet, ErrorsTyped
    <2>10. ErrorsTyped'
      BY <1>3, <1>5, <1>8, <1>14, <2>5, <2>7 DEF ErrorsTyped
    <2>11. LastNotified'
      <3>1. ASSUME NEW h \in Groups
            PROVE  \/ last_notification'[h] = NeverNotified
                   \/ /\ last_notification'[h] <= second'
                      /\ \E n \in DOMAIN notified' :
                           notified'[n].group = h /\ notified'[n].time = last_notification'[h]
        <4>1. CASE h = g
          <5>1. notified'[top].group = h /\ notified'[top].time = last_notification'[h]
            BY <2>4, <2>5, <2>7, <4>1
          <5>2. last_notification'[h] <= second'
            BY <1>3, <1>5, <2>7, <4>1
          <5> QED BY <2>6, <5>1, <5>2
        <4>2. CASE h # g
          BY <1>3, <1>5, <1>6, <2>6, <2>7, <4>2 DEF LastNotified
        <4> QED BY <4>1, <4>2
      <3>2. ASSUME NEW n \in DOMAIN notified'
            PROVE  notified'[n].time <= last_notification'[notified'[n].group]
        <4>1. CASE n = top
          BY <1>3, <2>4, <2>5, <2>7, <4>1
        <4>2. CASE n # top
          <5>1. n \in DOMAIN notified /\ notified'[n] = notified[n]
            BY <2>6, <4>2
          <5>2. CASE notified[n].group = g
            <6>1. \A a, b, c, d \in Int : a <= b /\ c - b >= d /\ d >= 0 => a <= c
              OBVIOUS
            <6>2. NotificationCooldown \in Int /\ NotificationCooldown >= 0
              BY ErrorTrackingAssumption
            <6> QED BY <1>3, <2>7, <2>8, <2>9, <5>1, <5>2, <6>1, <6>2
          <5>3. CASE notified[n].group # g
            BY <2>7, <2>8, <5>1, <5>3
          <5> QED BY <5>2, <5>3
        <4> QED BY <4>1, <4>2
      <3> QED BY <3>1, <3>2 DEF LastNotified
    <2>12. \A i \in DOMAIN tracked' :
             tracked'[i].notify
             /\ (tracked'[i].severity = "critical" \/ 100 * Burst(i)' > 5 * RateWindow)
             => Heard(i)'
      <3>1. Heard(last)'
        <4>1. at - at \in 0..(NotificationCooldown - 1)
          BY ErrorTrackingAssumption
        <4>2. /\ tracked'[last].group = g /\ tracked'[last].time = at
              /\ notified'[top].group = g /\ notified'[top].time = at
          BY <1>7, <1>8, <2>4, <2>5
        <4> QED BY <2>6, <4>1, <4>2 DEF Heard
      <3>2. ASSUME NEW i \in DOMAIN tracked, Heard(i)
            PROVE  Heard(i)'
        BY <1>9, <2>6, <3>2 DEF Heard
      <3> QED BY <1>6, <1>9, <1>14, <3>1, <3>2 DEF CriticalIsHeard, TroubleIsHeard
    <2>13. ASSUME NEW n \in DOMAIN notified', NEW m \in DOMAIN notified',
                  n < m, notified'[n].group = notified'[m].group
           PROVE  notified'[m].time - notified'[n].time >= NotificationCooldown
      <3>1. n \in DOMAIN notified /\ notified'[n] = notified[n]
        <4>1. n \in 1..top /\ m \in 1..top /\ top \in Nat
          BY <2>5, <2>13, <2>14
        <4>2. n # top
          BY <2>13, <4>1
        <4> QED BY <2>6, <4>2
      <3>2. CASE m = top
        <4>1. notified[n].group = g /\ notified'[m].time = at
          BY <2>4, <2>5, <2>13, <3>1, <3>2
        <4>2. \A a, b, c, d \in Int : a <= b /\ c - b >= d => c - a >= d
          OBVIOUS
        <4>3. NotificationCooldown \in Int /\ notified[n].time \in Int /\ at \in Int
          BY <1>3, <2>8, <3>1, ErrorTrackingAssumption
        <4> QED BY <2>8, <2>9, <3>1, <4>1, <4>2, <4>3
      <3>3. CASE m # top
        BY <1>6, <2>6, <2>13, <3>1, <3>3 DEF CriticalIsHeard
      <3> QED BY <3>2, <3>3
    <2> QED BY <1>14, <2>10, <2>11, <2>12, <2>13 DEF ErrorInv, CriticalIsHeard, TroubleIsHeard
  <1>12. CASE ~(notify /\ ~Quiet(g) /\ should_notify(severity, g))
    <2>1. last_notification' = last_notification /\ notified' = notified
      BY <1>5, <1>12 DEF _route_notification
    <2>2. ErrorsTyped'
      BY <1>3, <1>5, <1>6, <1>8, <1>14, <2>1 DEF ErrorsTyped
    <2>3. LastNotified'
      BY <1>3, <1>5, <1>6, <2>1 DEF LastNotified, NeverNotified
    <2>4. ASSUME notify, severity = "critical" \/ RateAbove(g, 5)
          PROVE  Heard(last)'
      <3>1. Quiet(g)
        BY <1>12, <2>4 DEF should_notify
      <3>2. last_notification[g] \in Int /\ at - last_notification[g] < NotificationCooldown
        BY <1>3, <1>6, <3>1 DEF Quiet, ErrorsTyped
      <3>3. last_notification[g] # NeverNotified
        BY <1>10, <3>2, ErrorTrackingAssumption
      <3>4. PICK n \in DOMAIN notified :
              notified[n].group = g /\ notified[n].time = last_notification[g]
        BY <1>6, <3>3 DEF LastNotified
      <3>5. last_notification[g] <= at
        BY <1>3, <1>6, <3>3 DEF LastNotified
      <3>6. at - last_notification[g] \in 0..(NotificationCooldown - 1)
        <4>1. \A a, b, c \in Int : a - b < c /\ b <= a => a - b \in 0..(c - 1)
          OBVIOUS
        <4>2. NotificationCooldown \in Int /\ at \in Int
          BY ErrorTrackingAssumption
        <4> QED BY <3>2, <3>5, <4>1, <4>2
      <3>7. tracked'[last].group = g /\ tracked'[last].time = at
        BY <1>7, <1>8
      <3> QED BY <2>1, <3>4, <3>6, <3>7 DEF Heard
    <2>5. ASSUME NEW i \in DOMAIN tracked, Heard(i)
          PROVE  Heard(i)'
      BY <1>9, <2>1, <2>5 DEF Heard
    <2>6. \A i \in DOMAIN tracked' :
            tracked'[i].notify
            /\ (tracked'[i].severity = "critical" \/ 100 * Burst(i)' > 5 * RateWindow)
            => Heard(i)'
      <3>1. tracked'[last].notify = notify /\ tracked'[last].severity = severity
        BY <1>7, <1>8
      <3> QED BY <1>6, <1>9, <1>14, <2>4, <2>5, <3>1 DEF CriticalIsHeard, TroubleIsHeard
    <2> QED BY <1>6, <1>14, <2>1, <2>2, <2>3, <2>6 DEF ErrorInv, CriticalIsHeard, TroubleIsHeard
  <1> QED BY <1>11, <1>12

LEMMA ErrorStep == ErrorInv /\ [ErrorNext]_errorVars => ErrorInv'
  <1>1. ErrorInv /\ UNCHANGED errorVars => ErrorInv'
    <2> SUFFICES ASSUME ErrorInv, UNCHANGED errorVars PROVE ErrorInv'
      OBVIOUS
    <2>1. /\ second' = second /\ error_timestamps' = error_timestamps /\ tracked' = tracked
          /\ last_notification' = last_notification /\ notified' = notified
      BY DEF errorVars
    <2>2. ErrorsTyped' /\ LastNotified' /\ RecentCounted'
      BY <2>1 DEF ErrorInv, ErrorsTyped, LastNotified, RecentCounted, NeverNotified
    <2>3. TroubleIsHeard'
      BY <2>1 DEF ErrorInv, TroubleIsHeard, CriticalIsHeard, Heard, Burst
    <2> QED BY <2>2, <2>3 DEF ErrorInv
  <1> QED BY <1>1, ErrorsTick, ErrorTracked DEF ErrorNext

\* A critical error, and one too many of its group, is heard of within a cooldown,
\* and no group is heard of more often than that.
THEOREM TroubleHeard == ErrorInit /\ [][ErrorNext]_errorVars => []TroubleIsHeard
  <1>1. ErrorInv => TroubleIsHeard
    BY DEF ErrorInv
  <1> QED BY ErrorStep, <1>1, ErrorStart, PTL

-----------------------------------------------------------------------------
(* Rate limiting *)

Spare == IF serial THEN 0 ELSE Cardinality(Callers) - 1

\* Whether a time is in the window that ends with t.
InSpan(at, t) == at > t - Window /\ at <= t

\* The callers with a time in that window that have yet to add themselves, or to
\* count the rest.
Under(t, at) == {c \in Callers : call[c].at = at /\ InSpan(call[c].now, t)}

\* No call of the window has been dropped ...
Whole(t) ==
  /\ Moments(t) \subseteq entries
  /\ Cardinality(Moments(t)) + Cardinality(Under(t, "adding")) <= Limit + Spare

\* ... or else no more calls start in it.
Past(t) ==
  /\ clock > t
  /\ Cardinality(Moments(t)) + Cardinality(Under(t, "adding"))
       + Cardinality(Under(t, "counting")) <= Limit + 2 * Spare

LimitInv ==
  /\ RateTypeOK
  /\ \A c \in Callers : call[c].at # "idle" => call[c].now <= clock
  /\ serial => \A c, d \in Callers :
                 call[c].at # "idle" /\ call[d].at # "idle" => c = d
  /\ ~outage => \A t \in 0..MaxTime : Whole(t) \/ Past(t)

LEMMA FewSpare ==
  ASSUME serial \in BOOLEAN
  PROVE  /\ Spare \in Nat
         /\ serial => Spare = 0
         /\ ~serial => Cardinality(Callers) = Spare + 1
  <1>1. Cardinality(Callers) \in Nat /\ Cardinality(Callers) # 0
    BY FS_CardinalityType, FS_EmptySet, RateAssumption
  <1> QED BY <1>1 DEF Spare

LEMMA TimesFinite ==
  ASSUME NEW S \in SUBSET (0..MaxTime)
  PROVE  IsFiniteSet(S) /\ Cardinality(S) \in Nat
  <1>1. IsFiniteSet(0..MaxTime)  BY FS_Interval, RateAssumption
  <1>2. IsFiniteSet(S)  BY <1>1, FS_Subset
  <1> QED BY <1>2, FS_CardinalityType

LEMMA CallersFinite ==
  ASSUME NEW S \in SUBSET Callers
  PROVE  /\ IsFiniteSet(S) /\ Cardinality(S) \in Nat
         /\ Cardinality(S) <= Cardinality(Callers)
  <1>1. IsFiniteSet(S)  BY FS_Subset, RateAssumption
  <1> QED BY <1>1, FS_CardinalityType, FS_Subset, RateAssumption

LEMMA NoMoreThan ==
  ASSUME NEW T, IsFiniteSet(T), NEW S \in SUBSET T
  PROVE  Cardinality(S) <= Cardinality(T)
  BY FS_Subset

LEMMA OneMore ==
  ASSUME NEW S, IsFiniteSet(S), NEW x
  PROVE  Cardinality(S \cup {x}) <= Cardinality(S) + 1
  <1>1. Cardinality(S) \in Int  BY FS_CardinalityType
  <1>2. Cardinality(S \cup {x}) = IF x \in S THEN Cardinality(S) ELSE Cardinality(S) + 1
    BY FS_AddElement
  <1> QED BY <1>1, <1>2

LEMMA Moves ==
  ASSUME NEW S \in SUBSET Callers, NEW c \in S
  PROVE  Cardinality(S \ {c}) = Cardinality(S) - 1
  BY CallersFinite, FS_RemoveElement

LEMMA Counted ==
  ASSUME RateTypeOK, NEW c \in Callers, count(c)
  PROVE  /\ BelowLimit(entries') =>
              call' = [call EXCEPT ![c] = [at |-> "adding", now |-> call[c].now]]
         /\ ~BelowLimit(entries') => call' = [call EXCEPT ![c] = Idle]
  <1>1. call[c] \in [at : {"idle", "counting", "adding"}, now : 0..MaxTime]
    BY DEF RateTypeOK
  <1>2. [call[c] EXCEPT !.at = "adding"] = [at |-> "adding", now |-> call[c].now]
    BY <1>1
  <1> QED BY <1>2 DEF count

LEMMA LimitTypes ==
  ASSUME LimitInv, [RateNext]_rateVars
  PROVE  /\ RateTypeOK'
         /\ (\A c \in Callers : call[c].at # "idle" => call[c].now <= clock)'
         /\ (serial => \A c, d \in Callers :
               call[c].at # "idle" /\ call[d].at # "idle" => c = d)'
  <1> USE DEF LimitInv, RateTypeOK
  <1>1. CASE UNCHANGED rateVars  BY <1>1 DEF rateVars
  <1>2. CASE Tick
    <2>1. clock' \in 0..MaxTime /\ clock <= clock'  BY <1>2, RateAssumption DEF Tick
    <2> QED BY <1>2, <2>1, RateAssumption DEF Tick
  <1>3. ASSUME NEW c \in Callers, check_rate_limit(c)
        PROVE  /\ RateTypeOK'
               /\ (\A d \in Callers : call[d].at # "idle" => call[d].now <= clock)'
               /\ (serial => \A d, e \in Callers :
                     call[d].at # "idle" /\ call[e].at # "idle" => d = e)'
    BY <1>3, RateAssumption DEF check_rate_limit
  <1>4. ASSUME NEW c \in Callers, count(c)
        PROVE  /\ RateTypeOK'
               /\ (\A d \in Callers : call[d].at # "idle" => call[d].now <= clock)'
               /\ (serial => \A d, e \in Callers :
                     call[d].at # "idle" /\ call[e].at # "idle" => d = e)'
    <2>1. entries' \in SUBSET (0..MaxTime)  BY <1>4 DEF count, Recent
    <2>2. call' = [call EXCEPT ![c] = [at |-> "adding", now |-> call[c].now]]
          \/ call' = [call EXCEPT ![c] = Idle]
      BY <1>4, Counted
    <2> QED BY <1>4, <2>1, <2>2, RateAssumption DEF count, Idle
  <1>5. ASSUME NEW c \in Callers, add(c) \/ fail_open(c)
        PROVE  /\ RateTypeOK'
               /\ (\A d \in Callers : call[d].at # "idle" => call[d].now <= clock)'
               /\ (serial => \A d, e \in Callers :
                     call[d].at # "idle" /\ call[e].at # "idle" => d = e)'
    <2>1. <<c, call[c].now>> \in Calls  BY DEF Calls
    <2>2. Idle \in [at : {"idle", "counting", "adding"}, now : 0..MaxTime]
      BY RateAssumption DEF Idle
    <2>3. call' = [call EXCEPT ![c] = Idle] /\ clock' = clock /\ serial' = serial
      BY <1>5 DEF add, fail_open
    <2>4. entries' \in SUBSET (0..MaxTime)
      <3>1. call[c].now \in 0..MaxTime  OBVIOUS
      <3> QED BY <1>5, <3>1 DEF add, fail_open, Recent
    <2>5. RateTypeOK'
      BY <1>5, <2>1, <2>2, <2>3, <2>4 DEF add, fail_open
    <2> QED BY <2>3, <2>5 DEF Idle
  <1> QED BY <1>1, <1>2, <1>3, <1>4, <1>5 DEF RateNext

LEMMA LimitStep ==
  ASSUME LimitInv, [RateNext]_rateVars
  PROVE  LimitInv'
  <1> SUFFICES ASSUME ~outage', NEW t \in 0..MaxTime
               PROVE  Whole(t)' \/ Past(t)'
    BY LimitTypes DEF LimitInv
  <1>1. RateTypeOK /\ RateTypeOK'  BY LimitTypes DEF LimitInv
  <1> DEFINE A == Moments(t)
             D == Under(t, "adding")
             K == Under(t, "counting")
             B == Moments(t)'
             E == Under(t, "adding")'
             J == Under(t, "counting")'
  <1>2. ~outage /\ serial' = serial /\ Spare' = Spare
    BY <1>1 DEF RateNext, Tick, check_rate_limit, count, add, fail_open, rateVars,
                RateTypeOK, Spare
  <1>3. Whole(t) \/ Past(t)  BY <1>2 DEF LimitInv
  <1>4. /\ A \in SUBSET (0..MaxTime) /\ B \in SUBSET (0..MaxTime)
        /\ D \in SUBSET Callers /\ E \in SUBSET Callers
        /\ K \in SUBSET Callers /\ J \in SUBSET Callers
    BY <1>1 DEF Moments, Under, RateTypeOK
  <1>5. /\ Cardinality(A) \in Nat /\ Cardinality(B) \in Nat
        /\ Cardinality(D) \in Nat /\ Cardinality(E) \in Nat
        /\ Cardinality(K) \in Nat /\ Cardinality(J) \in Nat
    <2> HIDE DEF A, B, D, E, K, J
    <2> QED BY <1>4, TimesFinite, CallersFinite
  <1>6. /\ Spare \in Nat
        /\ serial => Spare = 0
        /\ ~serial => Cardinality(Callers) = Spare + 1
    BY <1>1, FewSpare DEF RateTypeOK
  <1>7. Limit \in Nat \ {0} /\ t \in Int /\ Window \in Int
    BY RateAssumption
  \* A step that lets nobody through, and starts no call in a window that is over.
  <1>8. ASSUME A = B, E = D, entries' = entries, clock' >= clock,
               clock > t => J = K
        PROVE  Whole(t)' \/ Past(t)'
    BY <1>1, <1>2, <1>3, <1>8 DEF Whole, Past, RateTypeOK
  <1>9. CASE UNCHANGED rateVars
    BY <1>1, <1>8, <1>9 DEF rateVars, Moments, Under, RateTypeOK
  <1>10. CASE Tick
    BY <1>1, <1>8, <1>10 DEF Tick, Moments, Under, RateTypeOK
  <1>11. ASSUME NEW c \in Callers, check_rate_limit(c)
         PROVE  Whole(t)' \/ Past(t)'
    <2>1. A = B /\ entries' = entries /\ clock' = clock
      BY <1>11 DEF check_rate_limit, Moments
    <2>2. E = D
      BY <1>1, <1>11 DEF check_rate_limit, Under, RateTypeOK
    <2>3. clock > t => J = K
      BY <1>1, <1>7, <1>11 DEF check_rate_limit, Under, RateTypeOK, InSpan
    <2> QED BY <1>1, <1>8, <2>1, <2>2, <2>3 DEF RateTypeOK
  <1>12. ASSUME NEW c \in Callers, count(c)
         PROVE  Whole(t)' \/ Past(t)'
    <2>1. /\ A = B /\ clock' = clock
          /\ call[c].at = "counting" /\ call[c].now \in 0..MaxTime
          /\ call[c].now <= clock
      BY <1>1, <1>12 DEF count, Moments, LimitInv, RateTypeOK
    <2> DEFINE n == call[c].now
    <2>2. entries' = Recent(entries, n)  BY <1>12 DEF count
    <2>3. /\ BelowLimit(entries') =>
               call' = [call EXCEPT ![c] = [at |-> "adding", now |-> n]]
          /\ ~BelowLimit(entries') => call' = [call EXCEPT ![c] = Idle]
      BY <1>1, <1>12, Counted
    <2>4. c \notin D /\ c \notin J /\ J = K \ {c}
      BY <1>1, <2>1, <2>3 DEF Under, RateTypeOK, Idle
    <2>5. ASSUME Whole(t), n <= t  PROVE A \subseteq Recent(entries, n)
      <3> SUFFICES ASSUME NEW m \in A  PROVE m \in entries /\ m > n - Window
        BY DEF Recent
      <3>1. m \in entries  BY <2>5 DEF Whole
      <3>2. m \in Int /\ n \in Int /\ m > t - Window
        BY <2>1, RateAssumption DEF Moments
      <3> QED BY <1>7, <2>5, <3>1, <3>2
    <2>6. CASE ~BelowLimit(entries') \/ ~InSpan(n, t)
      <3>1. E = D
        BY <1>1, <2>1, <2>3, <2>6 DEF Under, RateTypeOK, Idle
      <3>2. CASE Past(t)
        <4>1. Cardinality(J) <= Cardinality(K)
          BY <1>4, <2>4, CallersFinite, NoMoreThan
        <4> QED BY <1>1, <1>2, <1>5, <1>6, <1>7, <2>1, <3>1, <3>2, <4>1 DEF Past
      <3>3. CASE Whole(t) /\ n <= t
        <4>1. A \subseteq entries'
          BY <2>2, <2>5, <3>3
        <4> QED BY <1>2, <2>1, <3>1, <3>3, <4>1 DEF Whole
      <3>4. CASE Whole(t) /\ n > t
        <4>1. clock' > t  BY <1>1, <1>7, <2>1, <3>4 DEF RateTypeOK
        <4>2. Cardinality(J) <= Spare
          <5>1. CASE serial
            <6>1. J = {}
              BY <1>1, <2>1, <2>4, <5>1 DEF LimitInv, Under
            <6> QED BY <1>6, <6>1, FS_EmptySet
          <5>2. CASE ~serial
            <6>1. Cardinality(Callers \ {c}) = Spare
              BY <1>5, <1>6, <5>2, Moves, CallersFinite
            <6>2. J \in SUBSET (Callers \ {c}) /\ IsFiniteSet(Callers \ {c})
              BY <1>4, <2>4, CallersFinite
            <6> QED BY <6>1, <6>2, NoMoreThan
          <5> QED BY <5>1, <5>2
        <4>3. Cardinality(A) + Cardinality(D) <= Limit + Spare  BY <3>4 DEF Whole
        <4> QED BY <1>2, <1>5, <1>6, <1>7, <2>1, <3>1, <4>1, <4>2, <4>3 DEF Past
      <3>5. n <= t \/ n > t  BY <1>7, <2>1
      <3> QED BY <1>3, <3>2, <3>3, <3>4, <3>5
    <2>7. CASE BelowLimit(entries') /\ InSpan(n, t)
      <3>1. E = D \cup {c}
        BY <1>1, <2>1, <2>3, <2>7 DEF Under, RateTypeOK
      <3>2. c \in K  BY <2>1, <2>7 DEF Under
      <3>3. CASE Past(t)
        <4>1. Cardinality(J) = Cardinality(K) - 1
          BY <1>4, <2>4, <3>2, Moves
        <4>2. Cardinality(E) = Cardinality(D) + 1
          BY <1>4, <2>4, <3>1, CallersFinite, FS_AddElement
        <4> QED BY <1>1, <1>2, <1>5, <1>6, <1>7, <2>1, <3>3, <4>1, <4>2 DEF Past
      <3>4. CASE Whole(t)
        <4>1. A \subseteq entries' /\ entries' \in SUBSET (0..MaxTime)
          BY <1>1, <2>2, <2>7, <2>5, <3>4 DEF InSpan, RateTypeOK
        <4>2. Cardinality(A) <= Cardinality(entries') /\ Cardinality(entries') \in Nat
          BY <4>1, TimesFinite, NoMoreThan
        <4>3. Cardinality(A) <= Limit - 1
          BY <1>5, <1>7, <2>7, <4>2 DEF BelowLimit
        <4>4. Cardinality(E) <= Spare + 1
          <5>1. CASE serial
            <6>1. E = {c}
              BY <1>1, <2>1, <3>1, <5>1 DEF LimitInv, Under
            <6> QED BY <1>6, <6>1, FS_Singleton
          <5>2. CASE ~serial
            BY <1>4, <1>5, <1>6, <5>2, CallersFinite
          <5> QED BY <5>1, <5>2
        <4> QED BY <1>2, <1>5, <1>6, <1>7, <2>1, <4>1, <4>3, <4>4 DEF Whole
      <3> QED BY <1>3, <3>3, <3>4
    <2> QED BY <2>6, <2>7
  <1>13. ASSUME NEW c \in Callers, add(c)
         PROVE  Whole(t)' \/ Past(t)'
    <2>1. /\ call[c].at = "adding" /\ clock' = clock
          /\ call[c].now \in 0..MaxTime
          /\ entries' = entries \cup {call[c].now}
          /\ allowed' = allowed \cup {<<c, call[c].now>>}
          /\ call' = [call EXCEPT ![c] = Idle]
      BY <1>1, <1>13 DEF add, RateTypeOK
    <2>2. J = K /\ E = D \ {c}
      BY <1>1, <2>1 DEF Under, RateTypeOK, Idle
    <2>3. CASE InSpan(call[c].now, t)
      <3>1. c \in D  BY <2>1, <2>3 DEF Under
      <3>2. Cardinality(E) = Cardinality(D) - 1  BY <1>4, <2>2, <3>1, Moves
      <3>3. B = A \cup {call[c].now}  BY <2>1, <2>3 DEF Moments, InSpan
      <3>4. Cardinality(B) <= Cardinality(A) + 1
        <4> HIDE DEF A, B
        <4>1. Cardinality(A \cup {call[c].now}) <= Cardinality(A) + 1
          BY <1>4, TimesFinite, OneMore
        <4> QED BY <3>3, <4>1
      <3>5. Whole(t) => Whole(t)'
        BY <1>2, <1>5, <1>6, <1>7, <2>1, <3>2, <3>3, <3>4 DEF Whole
      <3>6. Past(t) => Past(t)'
        BY <1>2, <1>5, <1>6, <1>7, <2>1, <2>2, <3>2, <3>4 DEF Past
      <3> QED BY <1>3, <3>5, <3>6
    <2>4. CASE ~InSpan(call[c].now, t)
      <3>1. E = D  BY <2>2, <2>4 DEF Under
      <3>2. B = A  BY <2>1, <2>4 DEF Moments, InSpan
      <3> QED BY <1>2, <1>3, <2>1, <2>2, <3>1, <3>2 DEF Whole, Past
    <2> QED BY <2>3, <2>4
  <1>14. ASSUME NEW c \in Callers, fail_open(c)
         PROVE  FALSE
    BY <1>14 DEF fail_open
  <1> QED BY <1>9, <1>10, <1>11, <1>12, <1>13, <1>14 DEF RateNext

LEMMA LimitStart == RateInit => LimitInv
  <1> SUFFICES ASSUME RateInit  PROVE LimitInv  OBVIOUS
  <1>1. RateTypeOK
    <2>1. Idle \in [at : {"idle", "counting", "adding"}, now : 0..MaxTime]
      BY RateAssumption DEF Idle
    <2>2. clock = 0 /\ 0 \in 0..MaxTime  BY RateAssumption DEF RateInit
    <2>3. call = [c \in Callers |-> Idle] /\ serial \in BOOLEAN /\ outage = FALSE
          /\ entries = {} /\ allowed = {}
      BY DEF RateInit
    <2> QED BY <2>1, <2>2, <2>3 DEF RateTypeOK
  <1>2. ASSUME NEW t \in 0..MaxTime  PROVE Whole(t)
    <2>1. Moments(t) = {} /\ Under(t, "adding") = {}
      BY DEF RateInit, Moments, Under, Idle
    <2>2. Spare \in Nat  BY <1>1, FewSpare DEF RateTypeOK
    <2> QED BY <2>1, <2>2, FS_EmptySet, RateAssumption DEF Whole
  <1> QED BY <1>1, <1>2 DEF LimitInv, RateInit, Idle

LEMMA LimitEnough == LimitInv => WithinLimit
  <1> SUFFICES ASSUME LimitInv, ~outage, NEW t \in 0..MaxTime
               PROVE  Cardinality(Moments(t)) <= Limit + Slack
    BY DEF WithinLimit
  <1>1. Whole(t) \/ Past(t)  BY DEF LimitInv
  <1>2. Spare \in Nat /\ Slack = 2 * Spare
    <2>1. Cardinality(Callers) \in Nat  BY CallersFinite
    <2>2. serial \in BOOLEAN  BY DEF LimitInv, RateTypeOK
    <2> QED BY <2>1, <2>2, FewSpare DEF Slack, Spare
  <1>3. /\ Moments(t) \in SUBSET (0..MaxTime)
        /\ Under(t, "adding") \in SUBSET Callers
        /\ Under(t, "counting") \in SUBSET Callers
    BY DEF Moments, Under, LimitInv, RateTypeOK
  <1>4. /\ Cardinality(Moments(t)) \in Nat
        /\ Cardinality(Under(t, "adding")) \in Nat
        /\ Cardinality(Under(t, "counting")) \in Nat
    BY <1>3, TimesFinite, CallersFinite
  <1> QED BY <1>1, <1>2, <1>4, RateAssumption DEF Whole, Past

\* Calls are let through at no more different times of a window than the limit says,
\* if they do not overlap, and otherwise at two more for each other caller, at most,
\* whatever the number of callers, the limit and the window, unless Redis failed.
THEOREM LimitIsKept ==
  RateSpec => []WithinLimit
  <1> QED BY LimitStart, LimitEnough, LimitStep, PTL DEF RateSpec

-----------------------------------------------------------------------------
(* Alerts *)

EvaluationFields == {"todo", "values", "rule", "since", "current"}

EvaluationsInv ==
  /\ now \in Nat
  /\ DOMAIN evaluation = Evaluations
  /\ \A e \in Evaluations :
       /\ DOMAIN evaluation[e] = EvaluationFields
       /\ evaluation[e].rule # "none" => evaluation[e].since \in 0..now
  /\ oneByOne => \A d, e \in Evaluations : ~AtRest(d) /\ ~AtRest(e) => d = e

Entries == [time : Nat, escalated : BOOLEAN]

AlertTypes ==
  /\ alerts \in [Rules -> Seq(Entries)]
  /\ tracking \in [Rules -> [last : Int, count : Nat]]

\* The evaluations that await the handlers of a rule's alert, those of which the
\* alert is of a time before t, and the alerts in the cooldown from t on.
Pending(rule) == {e \in Evaluations : evaluation[e].rule = rule}

Older(rule, t) == {e \in Pending(rule) : evaluation[e].since < t}

CooldownFrom(t) == t..(t + Cooldown - 1)

Within(log, t) == {i \in 1..Len(log) : log[i].time \in CooldownFrom(t)}

\* With p pending, o of them older, and f alerts in the cooldown: each older one
\* may yet put back the time of the last alert, and until then those that are
\* noted bar another.
Kept(n, p, o, f, free) ==
  /\ 2 * f <= (n - o) * (n - o + 1)
  /\ free => 2 * (f - (p - o)) <= (n - o - 1) * (n - o)

CooldownKept(rule, t) ==
  Kept(Overlapping, Cardinality(Pending(rule)), Cardinality(Older(rule, t)),
       Cardinality(Within(alerts[rule], t)), tracking[rule].last < t)

RuleInv(rule) ==
  /\ Len(alerts[rule]) = tracking[rule].count + Cardinality(Pending(rule))
  /\ \A i \in 1..Len(alerts[rule]) : alerts[rule][i].time <= now
  /\ \A i, j \in 1..Len(alerts[rule]) :
       i <= j => alerts[rule][i].time <= alerts[rule][j].time
  /\ \A i \in 1..Len(alerts[rule]) : i >= Overlapping + 3 => alerts[rule][i].escalated
  /\ \A t \in Nat : CooldownKept(rule, t)

AlertInv == EvaluationsInv /\ AlertTypes /\ \A rule \in Rules : RuleInv(rule)

LEMMA NoneIsNoRule == "none" \notin Rules
  BY DEF Rules, DEFAULT_ALERT_RULES

LEMMA EvaluationsFinite ==
  ASSUME NEW S \in SUBSET Evaluations
  PROVE  /\ IsFiniteSet(S) /\ Cardinality(S) \in Nat
         /\ \A T \in SUBSET S : Cardinality(T) <= Cardinality(S)
         /\ \A e \in Evaluations :
              /\ e \notin S => Cardinality(S \cup {e}) = Cardinality(S) + 1
              /\ e \in S => Cardinality(S \ {e}) = Cardinality(S) - 1
  <1>1. IsFiniteSet(S)  BY FS_Subset, AlertsAssumption
  <1> QED BY <1>1, FS_CardinalityType, FS_Subset, FS_AddElement, FS_RemoveElement

LEMMA IndicesFinite ==
  ASSUME NEW n \in Nat, NEW S \in SUBSET (1..n)
  PROVE  /\ IsFiniteSet(S) /\ Cardinality(S) \in Nat
         /\ n + 1 \notin S /\ Cardinality(S \cup {n + 1}) = Cardinality(S) + 1
  <1>1. IsFiniteSet(1..n)  BY FS_Interval
  <1>2. IsFiniteSet(S)  BY <1>1, FS_Subset
  <1> QED BY <1>2, FS_CardinalityType, FS_AddElement

LEMMA LogEntries ==
  ASSUME NEW log \in Seq(Entries)
  PROVE  /\ Len(log) \in Nat
         /\ \A i \in 1..Len(log) : log[i] \in Entries /\ log[i].time \in Nat
  <1>1. Len(log) \in Nat /\ \A i \in 1..Len(log) : log[i] \in Entries  OBVIOUS
  <1> QED BY <1>1 DEF Entries

LEMMA LogAppend ==
  ASSUME NEW log \in Seq(Entries), NEW x \in Entries
  PROVE  /\ Append(log, x) \in Seq(Entries)
         /\ Len(Append(log, x)) = Len(log) + 1
         /\ Append(log, x)[Len(log) + 1] = x
         /\ \A i \in 1..Len(log) : Append(log, x)[i] = log[i]
  OBVIOUS

LEMMA AtRestFields ==
  /\ DOMAIN NothingToDo = EvaluationFields
  /\ NothingToDo.rule = "none" /\ NothingToDo.todo = <<>> /\ NothingToDo.current = FALSE
  BY DEF NothingToDo, EvaluationFields

\* Those that await are no more than those that overlap.
LEMMA PendingFew ==
  ASSUME EvaluationsInv, NEW S \in SUBSET Evaluations, \A e \in S : ~AtRest(e)
  PROVE  Cardinality(S) <= Overlapping /\ Overlapping \in Nat
  <1>1. CASE ~oneByOne
    BY <1>1, EvaluationsFinite DEF Overlapping
  <1>2. CASE oneByOne /\ S = {}
    BY <1>2, FS_EmptySet DEF Overlapping
  <1>3. CASE oneByOne /\ S # {}
    <2>1. PICK e \in S : S = {e}  BY <1>3 DEF EvaluationsInv
    <2> QED BY <1>3, <2>1, FS_Singleton DEF Overlapping
  <1> QED BY <1>1, <1>2, <1>3

-----------------------------------------------------------------------------

\* What a step leaves of a rule.
Untouched(rule) ==
  /\ now' \in Nat /\ now' >= now /\ oneByOne' = oneByOne
  /\ alerts'[rule] = alerts[rule] /\ tracking'[rule] = tracking[rule]
  /\ Pending(rule)' = Pending(rule)
  /\ \A e \in Pending(rule) : evaluation'[e].since = evaluation[e].since

LEMMA UntouchedKept ==
  ASSUME AlertInv, NEW rule \in Rules, Untouched(rule)
  PROVE  RuleInv(rule)'
  <1>1. RuleInv(rule)  BY DEF AlertInv
  <1>2. Overlapping' = Overlapping  BY DEF Untouched, Overlapping
  <1>3. \A t \in Nat : CooldownKept(rule, t)'
    <2> TAKE t \in Nat
    <2>1. Older(rule, t)' = Older(rule, t)  BY DEF Untouched, Older
    <2>2. Within(alerts'[rule], t) = Within(alerts[rule], t)
      BY DEF Untouched
    <2> QED BY <1>1, <1>2, <2>1, <2>2 DEF Untouched, CooldownKept, RuleInv
  <1>4. \A i \in 1..Len(alerts[rule]) : alerts[rule][i].time \in Int
    <2>1. alerts[rule] \in Seq(Entries)  BY DEF AlertInv, AlertTypes
    <2> QED BY <2>1, LogEntries
  <1>5. \A i \in 1..Len(alerts[rule]) : alerts[rule][i].time <= now'
    BY <1>1, <1>4 DEF Untouched, RuleInv, AlertInv, EvaluationsInv
  <1> QED BY <1>1, <1>2, <1>3, <1>5 DEF Untouched, RuleInv

LEMMA Alerting ==
  ASSUME NEW n \in Nat, NEW p \in Nat, NEW o \in Nat, NEW f \in Nat,
         o <= p, p + 1 <= n, 2 * (f - (p - o)) <= (n - o - 1) * (n - o)
  PROVE  /\ 2 * (f + 1) <= (n - o) * (n - o + 1)
         /\ 2 * ((f + 1) - ((p + 1) - o)) <= (n - o - 1) * (n - o)
  <1> DEFINE k == n - o
  <1>1. k \in Int /\ p - o <= k - 1  OBVIOUS
  <1>2. (k - 1) * k + 2 * k = k * (k + 1)  BY <1>1
  <1>3. 2 * (f + 1) <= (k - 1) * k + 2 * k
    <2> DEFINE m == (k - 1) * k
    <2>1. m \in Int /\ 2 * (f - (p - o)) <= m  BY <1>1
    <2> HIDE DEF m, k
    <2> QED BY <1>1, <2>1 DEF m
  <1> QED BY <1>2, <1>3

LEMMA NoneYet ==
  ASSUME NEW n \in Nat, NEW p \in Nat, p <= n
  PROVE  0 <= (n - p) * (n - p + 1) /\ 2 * (0 - (p - p)) <= (n - p - 1) * (n - p)
  <1> DEFINE k == n - p
  <1>1. k \in Nat  OBVIOUS
  <1>2. k * (k + 1) >= 0  BY <1>1
  <1>3. (k - 1) * k >= 0
    <2>1. CASE k = 0  BY <2>1
    <2>2. CASE k # 0  BY <1>1, <2>2
    <2> QED BY <2>1, <2>2
  <1> QED BY <1>2, <1>3

LEMMA Fewer ==
  ASSUME NEW n \in Nat, NEW o \in Nat, o <= n
  PROVE  (n - o) * (n - o + 1) <= n * (n + 1)
  <1> DEFINE k == n - o
  <1>1. k \in Nat /\ n = k + o  OBVIOUS
  <1>2. n * (n + 1) = k * (k + 1) + (2 * (k * o) + o * o + o)  BY <1>1
  <1>3. k * o \in Nat /\ o * o \in Nat /\ k * (k + 1) \in Nat  BY <1>1
  <1> DEFINE a == k * (k + 1)
             b == k * o
             c == o * o
  <1>4. a <= a + (2 * b + c + o)
    <2>1. a \in Nat /\ b \in Nat /\ c \in Nat  BY <1>3
    <2> HIDE DEF a, b, c
    <2> QED BY <2>1
  <1> QED BY <1>2, <1>4

LEMMA Halved ==
  ASSUME NEW n \in Nat
  PROVE  (n * (n + 1)) \div 2 \in Nat /\ 2 * ((n * (n + 1)) \div 2) = n * (n + 1)
  <1>1. PICK k \in Nat : n = 2 * k \/ n = 2 * k + 1
    <2>1. n \div 2 \in Nat /\ (n = 2 * (n \div 2) \/ n = 2 * (n \div 2) + 1)
      OBVIOUS
    <2> QED BY <2>1
  <1>2. PICK h \in Nat : n * (n + 1) = 2 * h
    <2>1. CASE n = 2 * k
      <3>1. n * (n + 1) = 2 * (k * (n + 1)) /\ k * (n + 1) \in Nat  BY <1>1, <2>1
      <3> QED BY <3>1
    <2>2. CASE n = 2 * k + 1
      <3>1. n * (n + 1) = 2 * (n * (k + 1)) /\ n * (k + 1) \in Nat  BY <1>1, <2>2
      <3> QED BY <3>1
    <2> QED BY <1>1, <2>1, <2>2
  <1>3. (2 * h) \div 2 = h  BY <1>2
  <1> QED BY <1>2, <1>3

LEMMA NotingOlder ==
  ASSUME NEW n \in Nat, NEW p \in Nat, NEW o \in Nat \ {0}, NEW f \in Nat,
         o <= p, p <= n, 2 * f <= (n - o) * (n - o + 1)
  PROVE  /\ 2 * f <= (n - (o - 1)) * (n - (o - 1) + 1)
         /\ 2 * (f - ((p - 1) - (o - 1))) <= (n - (o - 1) - 1) * (n - (o - 1))
  <1> DEFINE k == n - o
  <1>1. k \in Nat  OBVIOUS
  <1>2. (k + 1) * (k + 2) = k * (k + 1) + 2 * (k + 1)  BY <1>1
  <1>3. n - (o - 1) = k + 1 /\ n - (o - 1) + 1 = k + 2 /\ n - (o - 1) - 1 = k
    OBVIOUS
  <1>4. k * (k + 1) \in Int  BY <1>1
  <1>5. 2 * (f - ((p - 1) - (o - 1))) <= 2 * f  OBVIOUS
  <1> DEFINE m == k * (k + 1)
  <1>6. 2 * f <= m /\ m \in Int  BY <1>4
  <1>7. 2 * f <= m + 2 * (k + 1)  BY <1>1, <1>6
  <1>8. 2 * (f - ((p - 1) - (o - 1))) <= m  BY <1>5, <1>6
  <1> QED BY <1>2, <1>3, <1>7, <1>8

\* A log that gets another entry, as late as any.
LEMMA LogGrows ==
  ASSUME NEW log \in Seq(Entries), NEW x \in Entries, NEW latest \in Nat, NEW m \in Nat,
         x.time = latest,
         \A i \in 1..Len(log) : log[i].time <= latest,
         \A i, j \in 1..Len(log) : i <= j => log[i].time <= log[j].time,
         \A i \in 1..Len(log) : i >= m => log[i].escalated,
         Len(log) + 1 >= m => x.escalated
  PROVE  LET more == Append(log, x)
         IN /\ Len(more) = Len(log) + 1
            /\ more[Len(log) + 1] = x
            /\ \A i \in 1..Len(log) : more[i] = log[i] /\ log[i].time \in Nat
            /\ \A i \in 1..Len(more) : more[i].time <= latest
            /\ \A i, j \in 1..Len(more) : i <= j => more[i].time <= more[j].time
            /\ \A i \in 1..Len(more) : i >= m => more[i].escalated
  <1> DEFINE more == Append(log, x)
  <1>1. /\ Len(log) \in Nat /\ Len(more) = Len(log) + 1
        /\ more[Len(log) + 1] = x
        /\ \A i \in 1..Len(log) : more[i] = log[i] /\ log[i].time \in Nat
    BY LogEntries, LogAppend
  <1>2. \A i \in 1..Len(more) : i \in 1..Len(log) \/ i = Len(log) + 1
    BY <1>1
  <1> HIDE DEF more
  <1>3. \A i \in 1..Len(more) : more[i].time <= latest
    BY <1>1, <1>2
  <1>4. \A i, j \in 1..Len(more) : i <= j => more[i].time <= more[j].time
    BY <1>1, <1>2, <1>3
  <1>5. \A i \in 1..Len(more) : i >= m => more[i].escalated
    BY <1>1, <1>2
  <1> QED BY <1>1, <1>3, <1>4, <1>5 DEF more

LEMMA WithinGrows ==
  ASSUME NEW log \in Seq(Entries), NEW x \in Entries, NEW t \in Nat
  PROVE  /\ Cardinality(Within(log, t)) \in Nat
         /\ Cardinality(Within(Append(log, x), t)) =
              Cardinality(Within(log, t)) + (IF x.time \in CooldownFrom(t) THEN 1 ELSE 0)
         /\ (\A i \in 1..Len(log) : log[i].time < t) => Cardinality(Within(log, t)) = 0
  <1> DEFINE more == Append(log, x)
             n == Len(log)
  <1>1. /\ n \in Nat /\ Len(more) = n + 1 /\ more[n + 1] = x
        /\ \A i \in 1..n : more[i] = log[i] /\ log[i].time \in Nat
    BY LogEntries, LogAppend
  <1>2. Within(log, t) \in SUBSET (1..n)  BY DEF Within
  <1> HIDE DEF more, n
  <1>3. \A i : i \in 1..(n + 1) <=> i \in 1..n \/ i = n + 1  BY <1>1
  <1>4. Within(more, t) = {i \in 1..n : log[i].time \in CooldownFrom(t)}
           \cup (IF x.time \in CooldownFrom(t) THEN {n + 1} ELSE {})
    BY <1>1, <1>3 DEF Within
  <1>5. Within(more, t) = IF x.time \in CooldownFrom(t) THEN Within(log, t) \cup {n + 1}
                                                       ELSE Within(log, t)
    BY <1>4 DEF Within, n
  <1>6. /\ Cardinality(Within(log, t)) \in Nat
        /\ Cardinality(Within(log, t) \cup {n + 1}) = Cardinality(Within(log, t)) + 1
    BY <1>1, <1>2, IndicesFinite
  <1>7. ASSUME \A i \in 1..n : log[i].time < t  PROVE Within(log, t) = {}
    BY <1>1, <1>7, AlertsAssumption DEF Within, CooldownFrom, n
  <1>8. Cardinality(Within(more, t)) =
           Cardinality(Within(log, t)) + (IF x.time \in CooldownFrom(t) THEN 1 ELSE 0)
    BY <1>5, <1>6
  <1>9. (\A i \in 1..n : log[i].time < t) => Cardinality(Within(log, t)) = 0
    BY <1>7, FS_EmptySet
  <1> QED BY <1>6, <1>8, <1>9 DEF more, n

LEMMA AlertRaised ==
  ASSUME AlertInv, NEW e \in Evaluations, _trigger_alert(e), NEW rule \in Rules,
         rule = Head(evaluation[e].todo)
  PROVE  RuleInv(rule)'
  <1> DEFINE n == Overlapping
             P == Pending(rule)
             log == alerts[rule]
             new == [time |-> now, escalated |-> _check_escalation(rule, ValueFor(e, rule))]
  <1>1. RuleInv(rule) /\ now \in Nat /\ DOMAIN evaluation = Evaluations
    BY DEF AlertInv, EvaluationsInv
  <1>2. /\ log \in Seq(Entries)
        /\ tracking[rule].last \in Int /\ tracking[rule].count \in Nat
        /\ alerts'[rule] = Append(log, new)
    BY DEF AlertInv, AlertTypes, _trigger_alert
  <1>3. /\ new \in Entries /\ new.time = now
        /\ tracking[rule].count >= 3 => new.escalated
    <2>1. _check_escalation(rule, ValueFor(e, rule)) \in BOOLEAN
      BY DEF _check_escalation
    <2>2. tracking[rule].count >= 3 => _check_escalation(rule, ValueFor(e, rule))
      BY DEF _check_escalation
    <2> QED BY <1>1, <2>1, <2>2 DEF Entries
  <1> HIDE DEF new
  <1>4. /\ evaluation[e].rule = "none" /\ ~AtRest(e)
        /\ evaluation' = [evaluation EXCEPT ![e] =
                            [@ EXCEPT !.rule = rule, !.since = now]]
        /\ now' = now /\ tracking' = tracking /\ oneByOne' = oneByOne
    BY AtRestFields DEF _trigger_alert, Between, AtRest
  <1>5. now - tracking[rule].last >= Cooldown
    <2>1. ~InCooldown(rule)
      <3>1. Triggers(e, rule)  BY DEF _trigger_alert
      <3> QED BY <3>1 DEF Triggers
    <2>2. \A last \in Int : ~(now - last < Cooldown) => now - last >= Cooldown
      BY <1>1, AlertsAssumption
    <2>3. tracking[rule].last \in Int  BY <1>2
    <2> QED BY <2>1, <2>2, <2>3 DEF InCooldown
  <1>6. /\ evaluation'[e].rule = rule /\ evaluation'[e].since = now
        /\ \A d \in Evaluations \ {e} : evaluation'[d] = evaluation[d]
    BY <1>1, <1>4 DEF AlertInv, EvaluationsInv, EvaluationFields
  <1>7. e \notin P /\ P' = P \cup {e} /\ P \in SUBSET Evaluations
    BY <1>4, <1>6, NoneIsNoRule DEF Pending
  <1>8. \A d \in P \cup {e} : ~AtRest(d)
    BY <1>4, AtRestFields, NoneIsNoRule DEF Pending, AtRest
  <1>9. /\ Cardinality(P) \in Nat /\ Cardinality(P') = Cardinality(P) + 1
        /\ Cardinality(P) + 1 <= n /\ n \in Nat /\ n' = n
    <2>1. Cardinality(P \cup {e}) <= n /\ n \in Nat
      BY <1>7, <1>8, PendingFew DEF AlertInv
    <2>2. Overlapping' = Overlapping  BY <1>4 DEF Overlapping
    <2>3. Cardinality(P) \in Nat /\ Cardinality(P \cup {e}) = Cardinality(P) + 1
      BY <1>7, EvaluationsFinite
    <2> QED BY <1>7, <2>1, <2>2, <2>3
  <1>10. /\ Len(log) \in Nat
         /\ Len(log) = tracking[rule].count + Cardinality(P)
         /\ \A i \in 1..Len(log) : log[i].time <= now
         /\ \A i, j \in 1..Len(log) : i <= j => log[i].time <= log[j].time
         /\ \A i \in 1..Len(log) : i >= n + 3 => log[i].escalated
    <2>1. Len(log) \in Nat  BY <1>2, LogEntries
    <2> QED BY <1>1, <2>1 DEF RuleInv
  <1>11. Len(log) + 1 >= n + 3 => new.escalated
    <2> DEFINE a == tracking[rule].count
               l == Len(log)
               p == Cardinality(P)
    <2>1. a \in Nat /\ p \in Nat /\ n \in Nat /\ l = a + p /\ p + 1 <= n
      BY <1>2, <1>9, <1>10
    <2>2. l + 1 >= n + 3 => a >= 3
      <3> HIDE DEF a, l, p, n
      <3> QED BY <2>1
    <2> QED BY <1>3, <2>2
  <1> DEFINE more == Append(log, new)
  <1>12. /\ Len(more) = Len(log) + 1 /\ more[Len(log) + 1] = new
         /\ \A i \in 1..Len(log) : more[i] = log[i] /\ log[i].time \in Nat
         /\ \A i \in 1..Len(more) : more[i].time <= now
         /\ \A i, j \in 1..Len(more) : i <= j => more[i].time <= more[j].time
         /\ \A i \in 1..Len(more) : i >= n + 3 => more[i].escalated
    <2> DEFINE m == n + 3
    <2>1. /\ m \in Nat
          /\ \A i \in 1..Len(log) : i >= m => log[i].escalated
          /\ Len(log) + 1 >= m => new.escalated
      <3>1. n + 3 \in Nat  BY <1>9
      <3> HIDE DEF log, n
      <3> QED BY <1>10, <1>11, <3>1
    <2>2. log \in Seq(Entries) /\ new \in Entries /\ now \in Nat /\ new.time = now
      BY <1>1, <1>2, <1>3
    <2> HIDE DEF log, n, m
    <2>3. /\ Len(more) = Len(log) + 1 /\ more[Len(log) + 1] = new
          /\ \A i \in 1..Len(log) : more[i] = log[i] /\ log[i].time \in Nat
          /\ \A i \in 1..Len(more) : more[i].time <= now
          /\ \A i, j \in 1..Len(more) : i <= j => more[i].time <= more[j].time
          /\ \A i \in 1..Len(more) : i >= m => more[i].escalated
      BY <1>10, <2>1, <2>2, LogGrows
    <2> QED BY <2>3 DEF m
  <1>13. ASSUME NEW t \in Nat  PROVE CooldownKept(rule, t)'
    <2> DEFINE O == Older(rule, t)
               p == Cardinality(P)
               o == Cardinality(O)
               f == Cardinality(Within(log, t))
    <2>1. O \in SUBSET P  BY DEF Older
    <2>2. o \in Nat /\ o <= p /\ Cardinality(O \cup {e}) = o + 1
      <3>1. O \in SUBSET Evaluations /\ e \notin O  BY <1>7, <2>1
      <3> QED BY <1>7, <2>1, <3>1, EvaluationsFinite
    <2>3. /\ 2 * f <= (n - o) * (n - o + 1)
          /\ tracking[rule].last < t => 2 * (f - (p - o)) <= (n - o - 1) * (n - o)
      BY <1>1 DEF RuleInv, CooldownKept, Kept
    <2>4. O' = IF now < t THEN O \cup {e} ELSE O
      BY <1>6, <1>7 DEF Older
    <2>5. /\ f \in Nat
          /\ Cardinality(Within(more, t)) =
               f + (IF now \in CooldownFrom(t) THEN 1 ELSE 0)
          /\ (\A i \in 1..Len(log) : log[i].time < t) => f = 0
      <3>1. log \in Seq(Entries) /\ new \in Entries /\ new.time = now
        BY <1>2, <1>3
      <3> HIDE DEF log, more
      <3>2. /\ f \in Nat
            /\ Cardinality(Within(more, t)) =
                 f + (IF new.time \in CooldownFrom(t) THEN 1 ELSE 0)
            /\ (\A i \in 1..Len(log) : log[i].time < t) => f = 0
        BY <3>1, WithinGrows DEF more
      <3> QED BY <3>1, <3>2
    <2> DEFINE g == Cardinality(Within(more, t))
    <2>6. CooldownKept(rule, t)' <=>
            Kept(n, p + 1, Cardinality(O'), g, tracking[rule].last < t)
      BY <1>2, <1>4, <1>9 DEF CooldownKept
    <2>7. CASE now < t
      <3>1. \A i \in 1..Len(log) : log[i].time < t
        <4> HIDE DEF log, more
        <4> TAKE i \in 1..Len(log)
        <4>1. log[i].time \in Nat /\ log[i].time <= now  BY <1>10, <1>12
        <4> QED BY <1>1, <2>7, <4>1
      <3>2. g = 0  BY <1>1, <2>5, <2>7, <3>1, AlertsAssumption DEF CooldownFrom
      <3>3. O = P
        BY <1>1, <2>7, NoneIsNoRule DEF Older, Pending, AlertInv, EvaluationsInv
      <3>4. Cardinality(O') = p + 1  BY <1>7, <1>9, <2>4, <2>7, <3>3
      <3>5. Kept(n, p + 1, p + 1, 0, tracking[rule].last < t)
        BY <1>9, NoneYet DEF Kept
      <3> QED BY <2>6, <3>2, <3>4, <3>5
    <2>8. CASE now >= t
      <3>1. O' = O  BY <1>1, <2>4, <2>8
      <3>2. CASE now \in CooldownFrom(t)
        <4>1. tracking[rule].last < t
          BY <1>1, <1>2, <1>5, <3>2, AlertsAssumption DEF CooldownFrom
        <4>2. 2 * (f - (p - o)) <= (n - o - 1) * (n - o)  BY <2>3, <4>1
        <4>3. g = f + 1  BY <2>5, <3>2
        <4>4. n \in Nat /\ p \in Nat /\ o \in Nat /\ f \in Nat /\ o <= p /\ p + 1 <= n
          BY <1>9, <2>2, <2>5
        <4> HIDE DEF n, p, o, f, g
        <4>5. Kept(n, p + 1, o, f + 1, tracking[rule].last < t)
          BY <4>2, <4>4, Alerting DEF Kept
        <4> QED BY <2>6, <3>1, <4>3, <4>5 DEF o
      <3>3. CASE now \notin CooldownFrom(t)
        <4>1. g = f  BY <2>5, <3>3
        <4>2. n \in Nat /\ p \in Nat /\ o \in Nat /\ f \in Nat
          BY <1>9, <2>2, <2>5
        <4> HIDE DEF n, p, o, f, g
        <4>3. 2 * (f - ((p + 1) - o)) <= 2 * (f - (p - o))  BY <4>2
        <4>4. (n - o - 1) * (n - o) \in Int  BY <4>2
        <4>5. Kept(n, p + 1, o, f, tracking[rule].last < t)
          BY <2>3, <4>2, <4>3, <4>4 DEF Kept
        <4> QED BY <2>6, <3>1, <4>1, <4>5 DEF o
      <3> QED BY <3>2, <3>3
    <2> QED BY <1>1, <2>7, <2>8
  <1>14. Len(more) = tracking[rule].count + Cardinality(P')
    <2> DEFINE p == Cardinality(P)
               q == Cardinality(P')
               a == tracking[rule].count
               l == Len(log)
               m == Len(more)
    <2>1. a \in Nat /\ p \in Nat /\ q = p + 1 /\ l = a + p /\ m = l + 1
      BY <1>2, <1>9, <1>10, <1>12
    <2>2. m = a + q
      <3> HIDE DEF p, q, a, l, m
      <3> QED BY <2>1
    <2> QED BY <2>2
  <1> QED BY <1>2, <1>4, <1>9, <1>12, <1>13, <1>14 DEF RuleInv

\* The handlers of an alert are done.
LEMMA AlertNoted ==
  ASSUME AlertInv, NEW e \in Evaluations, update_tracking(e), NEW rule \in Rules,
         rule = evaluation[e].rule
  PROVE  RuleInv(rule)'
  <1> DEFINE n == Overlapping
             P == Pending(rule)
             since == evaluation[e].since
             p == Cardinality(P)
  <1>1. /\ RuleInv(rule) /\ now \in Nat /\ DOMAIN evaluation = Evaluations
        /\ since \in Nat
    BY NoneIsNoRule DEF AlertInv, EvaluationsInv
  <1>2. /\ tracking[rule].last \in Int /\ tracking[rule].count \in Nat
        /\ tracking'[rule].last = since
        /\ tracking'[rule].count = tracking[rule].count + 1
        /\ Len(alerts[rule]) \in Nat
    <2>1. tracking'[rule] = Noted(rule, since)
      BY DEF AlertInv, AlertTypes, update_tracking
    <2>2. alerts[rule] \in Seq(Entries)  BY DEF AlertInv, AlertTypes
    <2> QED BY <2>1, <2>2 DEF AlertInv, AlertTypes, Noted
  <1>3. /\ evaluation' = [evaluation EXCEPT ![e] = After(e)]
        /\ now' = now /\ alerts' = alerts /\ oneByOne' = oneByOne
    BY DEF update_tracking
  <1>4. /\ evaluation'[e].rule = "none"
        /\ \A d \in Evaluations \ {e} : evaluation'[d] = evaluation[d]
    BY <1>1, <1>3, AtRestFields DEF AlertInv, EvaluationsInv, EvaluationFields, After
  <1>5. e \in P /\ P' = P \ {e} /\ P \in SUBSET Evaluations
    BY <1>1, <1>4, NoneIsNoRule DEF Pending
  <1>6. \A d \in P : ~AtRest(d)
    BY AtRestFields, NoneIsNoRule DEF Pending, AtRest
  <1>7. p \in Nat /\ Cardinality(P') = p - 1 /\ p <= n /\ n \in Nat /\ n' = n
    <2>1. p <= n /\ n \in Nat  BY <1>5, <1>6, PendingFew DEF AlertInv
    <2>2. n' = n  BY <1>3 DEF Overlapping
    <2> QED BY <1>5, <2>1, <2>2, EvaluationsFinite
  <1>8. Len(alerts'[rule]) = tracking'[rule].count + Cardinality(P')
    <2> DEFINE q == Cardinality(P')
               a == tracking[rule].count
               c == tracking'[rule].count
               l == Len(alerts[rule])
    <2>1. /\ a \in Nat /\ p \in Nat /\ l = a + p /\ q = p - 1 /\ c = a + 1
          /\ alerts' = alerts
      BY <1>1, <1>2, <1>3, <1>7 DEF RuleInv
    <2>2. l = c + q
      <3> HIDE DEF p, q, a, c, l
      <3> QED BY <2>1
    <2> QED BY <2>1, <2>2
  <1>9. ASSUME NEW t \in Nat  PROVE CooldownKept(rule, t)'
    <2> DEFINE O == Older(rule, t)
               o == Cardinality(O)
               f == Cardinality(Within(alerts[rule], t))
    <2>1. O \in SUBSET P  BY DEF Older
    <2>2. o \in Nat /\ o <= p /\ f \in Nat
      <3>1. O \in SUBSET Evaluations  BY <1>5, <2>1
      <3>2. Within(alerts[rule], t) \in SUBSET (1..Len(alerts[rule]))  BY DEF Within
      <3> QED BY <1>2, <1>5, <2>1, <3>1, <3>2, EvaluationsFinite, IndicesFinite
    <2>3. 2 * f <= (n - o) * (n - o + 1)
      BY <1>1 DEF RuleInv, CooldownKept, Kept
    <2>4. O' = IF since < t THEN O \ {e} ELSE O
      BY <1>4, <1>5 DEF Older
    <2>5. CooldownKept(rule, t)' <=> Kept(n, p - 1, Cardinality(O'), f, since < t)
      BY <1>2, <1>3, <1>7 DEF CooldownKept
    <2>6. CASE since < t
      <3>1. e \in O  BY <1>5, <2>6 DEF Older
      <3>2. Cardinality(O') = o - 1
        BY <1>5, <2>1, <2>4, <2>6, <3>1, EvaluationsFinite
      <3>3. o # 0
        <4>1. O \in SUBSET Evaluations  BY <1>5, <2>1
        <4>2. IsFiniteSet(O)  BY <4>1, EvaluationsFinite
        <4> QED BY <3>1, <4>2, FS_EmptySet
      <3>4. Kept(n, p - 1, o - 1, f, since < t)
        <4>1. n \in Nat /\ p \in Nat /\ o \in Nat \ {0} /\ f \in Nat /\ o <= p /\ p <= n
          BY <1>7, <2>2, <3>3
        <4> HIDE DEF n, p, o, f
        <4> QED BY <2>3, <4>1, NotingOlder DEF Kept
      <3> QED BY <2>5, <3>2, <3>4
    <2>7. CASE ~(since < t)
      BY <2>3, <2>4, <2>5, <2>7 DEF Kept
    <2> QED BY <2>6, <2>7
  <1> QED BY <1>1, <1>3, <1>7, <1>8, <1>9 DEF RuleInv

LEMMA ChangedKeeps ==
  ASSUME EvaluationsInv, NEW rule \in Rules,
         add_rule(rule) \/ remove_rule(rule) \/ enable_rule(rule) \/ disable_rule(rule)
  PROVE  /\ DOMAIN evaluation' = Evaluations
         /\ \A e \in Evaluations :
              /\ DOMAIN evaluation'[e] = EvaluationFields
              /\ evaluation'[e].rule = evaluation[e].rule
              /\ evaluation'[e].rule # "none" => evaluation'[e].since = evaluation[e].since
              /\ AtRest(e) => AtRest(e)'
  <1>1. CASE add_rule(rule)
    BY <1>1, AtRestFields DEF add_rule, EvaluationsInv, EvaluationFields, AtRest
  <1>2. CASE remove_rule(rule)
    BY <1>2, AtRestFields DEF remove_rule, EvaluationsInv, EvaluationFields, AtRest
  <1>3. CASE enable_rule(rule) \/ disable_rule(rule)
    BY <1>3 DEF enable_rule, disable_rule, EvaluationsInv, AtRest
  <1> QED BY <1>1, <1>2, <1>3

\* Which evaluation awaits what: all actions but two leave the rules alone.
LEMMA EvaluationsStep ==
  ASSUME AlertInv, [AlertsNext]_alertVars
  PROVE  EvaluationsInv' /\ AlertTypes'
  <1> USE DEF AlertInv
  <1>1. CASE UNCHANGED alertVars
    BY <1>1 DEF alertVars, EvaluationsInv, AlertTypes, AtRest
  <1>2. CASE AlertTick
    BY <1>2 DEF AlertTick, EvaluationsInv, AlertTypes, AtRest
  <1>3. ASSUME NEW e \in Evaluations, NEW values \in [Metrics -> MetricValues],
               evaluate_rules(e, values)
        PROVE  EvaluationsInv' /\ AlertTypes'
    <2>1. AlertTypes'  BY <1>3 DEF evaluate_rules, AlertTypes
    <2>2. /\ DOMAIN evaluation' = Evaluations
          /\ DOMAIN evaluation'[e] = EvaluationFields
          /\ evaluation'[e].rule = "none"
          /\ \A d \in Evaluations \ {e} : evaluation'[d] = evaluation[d]
      BY <1>3, AtRestFields DEF evaluate_rules, EvaluationsInv, EvaluationFields
    <2>3. oneByOne => \A d \in Evaluations \ {e} : AtRest(d)'
      BY <1>3, <2>2 DEF evaluate_rules, AtRest
    <2>4. now' = now /\ oneByOne' = oneByOne  BY <1>3 DEF evaluate_rules
    <2> QED BY <2>1, <2>2, <2>3, <2>4 DEF EvaluationsInv
  <1>4. ASSUME NEW e \in Evaluations, skip_rule(e) \/ _trigger_alert(e) \/ update_tracking(e)
        PROVE  EvaluationsInv' /\ AlertTypes'
    <2>1. /\ ~AtRest(e) /\ now' = now /\ oneByOne' = oneByOne
          /\ DOMAIN evaluation' = Evaluations
          /\ \A d \in Evaluations \ {e} : evaluation'[d] = evaluation[d]
      BY <1>4, AtRestFields
      DEF skip_rule, _trigger_alert, update_tracking, Between, AtRest, EvaluationsInv
    <2>2. /\ DOMAIN evaluation'[e] = EvaluationFields
          /\ evaluation'[e].rule # "none" => evaluation'[e].since \in 0..now
      <3>1. CASE skip_rule(e) \/ update_tracking(e)
        <4>1. evaluation'[e] = After(e)
          BY <3>1 DEF skip_rule, update_tracking, EvaluationsInv
        <4> QED BY <4>1, AtRestFields DEF After, EvaluationsInv, EvaluationFields
      <3>2. CASE _trigger_alert(e)
        BY <3>2 DEF _trigger_alert, EvaluationsInv, EvaluationFields
      <3> QED BY <1>4, <3>1, <3>2
    <2>3. EvaluationsInv'
      BY <2>1, <2>2 DEF EvaluationsInv, AtRest
    <2>4. AlertTypes'
      <3>1. CASE skip_rule(e)  BY <3>1 DEF skip_rule, AlertTypes
      <3>2. CASE update_tracking(e)
        <4> DEFINE rule == evaluation[e].rule
        <4>1. rule \in Rules => Noted(rule, evaluation[e].since) \in [last : Int, count : Nat]
          BY NoneIsNoRule DEF Noted, AlertTypes, EvaluationsInv
        <4> QED BY <3>2, <4>1 DEF update_tracking, AlertTypes
      <3>3. CASE _trigger_alert(e)
        <4> DEFINE rule == Head(evaluation[e].todo)
                   new == [time |-> now, escalated |-> _check_escalation(rule, ValueFor(e, rule))]
        <4>1. new \in Entries
          <5>1. _check_escalation(rule, ValueFor(e, rule)) \in BOOLEAN
            BY DEF _check_escalation
          <5> QED BY <5>1 DEF Entries, EvaluationsInv
        <4>2. /\ alerts' = [alerts EXCEPT ![rule] = Append(@, new)]
              /\ tracking' = tracking
          BY <3>3 DEF _trigger_alert
        <4> HIDE DEF new, rule
        <4>3. \A log \in Seq(Entries) : Append(log, new) \in Seq(Entries)
          BY <4>1, LogAppend
        <4> QED BY <4>2, <4>3 DEF AlertTypes
      <3> QED BY <1>4, <3>1, <3>2, <3>3
    <2> QED BY <2>3, <2>4
  <1>5. ASSUME NEW rule \in Rules,
               add_rule(rule) \/ remove_rule(rule) \/ enable_rule(rule) \/ disable_rule(rule)
        PROVE  EvaluationsInv' /\ AlertTypes'
    <2>1. now' = now /\ oneByOne' = oneByOne /\ AlertTypes'
      BY <1>5 DEF add_rule, remove_rule, enable_rule, disable_rule, AlertTypes
    <2>2. /\ DOMAIN evaluation' = Evaluations
          /\ \A e \in Evaluations :
               /\ DOMAIN evaluation'[e] = EvaluationFields
               /\ evaluation'[e].rule = evaluation[e].rule
               /\ evaluation'[e].rule # "none" => evaluation'[e].since = evaluation[e].since
               /\ AtRest(e) => AtRest(e)'
      BY <1>5, ChangedKeeps
    <2> QED BY <2>1, <2>2 DEF EvaluationsInv
  <1> QED BY <1>1, <1>2, <1>3, <1>4, <1>5 DEF AlertsNext

LEMMA AlertsStart == AlertsInit => AlertInv
  <1> SUFFICES ASSUME AlertsInit  PROVE AlertInv  OBVIOUS
  <1>1. EvaluationsInv
    BY AtRestFields DEF AlertsInit, EvaluationsInv, AtRest
  <1>2. AlertTypes
    <2>1. [last |-> Never, count |-> 0] \in [last : Int, count : Nat]
      BY AlertsAssumption DEF Never
    <2>2. tracking = [r \in Rules |-> [last |-> Never, count |-> 0]]
          /\ alerts = [r \in Rules |-> <<>>]
      BY DEF AlertsInit
    <2> QED BY <2>1, <2>2 DEF AlertTypes
  <1>3. ASSUME NEW rule \in Rules  PROVE RuleInv(rule)
    <2>1. alerts[rule] = <<>> /\ tracking[rule].count = 0
      BY <1>3 DEF AlertsInit
    <2>2. Pending(rule) = {}
      BY AtRestFields, NoneIsNoRule DEF AlertsInit, Pending
    <2>3. ASSUME NEW t \in Nat  PROVE CooldownKept(rule, t)
      <3>1. Older(rule, t) = {}  BY <2>2 DEF Older
      <3>2. Within(alerts[rule], t) = {}  BY <2>1 DEF Within
      <3>3. Cardinality({}) = 0  BY FS_EmptySet
      <3>4. Overlapping \in Nat /\ 0 <= Overlapping
        BY <1>1, PendingFew, FS_EmptySet
      <3>5. /\ 0 <= (Overlapping - 0) * (Overlapping - 0 + 1)
            /\ 2 * (0 - (0 - 0)) <= (Overlapping - 0 - 1) * (Overlapping - 0)
        <4> HIDE DEF Overlapping
        <4> QED BY <3>4, NoneYet
      <3> QED BY <2>2, <3>1, <3>2, <3>3, <3>5 DEF CooldownKept, Kept
    <2> QED BY <2>1, <2>2, <2>3, FS_EmptySet DEF RuleInv
  <1> QED BY <1>1, <1>2, <1>3 DEF AlertInv

LEMMA AlertStep == AlertInv /\ [AlertsNext]_alertVars => AlertInv'
  <1> SUFFICES ASSUME AlertInv, [AlertsNext]_alertVars  PROVE AlertInv'
    OBVIOUS
  <1>1. EvaluationsInv' /\ AlertTypes'  BY EvaluationsStep
  <1>2. ASSUME NEW rule \in Rules  PROVE RuleInv(rule)'
    <2>1. /\ now' \in Nat /\ now' >= now /\ oneByOne' = oneByOne
          /\ DOMAIN evaluation = Evaluations
      <3>1. now' = now \/ now' = now + 1
        BY DEF AlertsNext, alertVars, AlertTick, evaluate_rules, skip_rule,
               _trigger_alert, update_tracking, add_rule, remove_rule, enable_rule,
               disable_rule
      <3>2. oneByOne' = oneByOne
        BY DEF AlertsNext, alertVars, AlertTick, evaluate_rules, skip_rule,
               _trigger_alert, update_tracking, add_rule, remove_rule, enable_rule,
               disable_rule
      <3> QED BY <3>1, <3>2 DEF AlertInv, EvaluationsInv
    <2>2. CASE UNCHANGED alertVars \/ AlertTick
      BY <2>1, <2>2, UntouchedKept DEF alertVars, AlertTick, Untouched, Pending
    <2>3. ASSUME NEW e \in Evaluations, NEW values \in [Metrics -> MetricValues],
                 evaluate_rules(e, values)
          PROVE  RuleInv(rule)'
      <3>1. /\ evaluation[e].rule = "none" /\ evaluation'[e].rule = "none"
            /\ \A d \in Evaluations \ {e} : evaluation'[d] = evaluation[d]
            /\ alerts' = alerts /\ tracking' = tracking
        BY <2>1, <2>3, AtRestFields DEF evaluate_rules, AtRest, EvaluationFields
      <3> QED BY <2>1, <3>1, NoneIsNoRule, UntouchedKept DEF Untouched, Pending
    <2>4. ASSUME NEW e \in Evaluations, skip_rule(e)
          PROVE  RuleInv(rule)'
      <3>1. /\ evaluation[e].rule = "none" /\ evaluation'[e].rule = "none"
            /\ \A d \in Evaluations \ {e} : evaluation'[d] = evaluation[d]
            /\ alerts' = alerts /\ tracking' = tracking
        BY <2>1, <2>4, AtRestFields
        DEF skip_rule, Between, After, EvaluationFields, AlertInv, EvaluationsInv
      <3> QED BY <2>1, <3>1, NoneIsNoRule, UntouchedKept DEF Untouched, Pending
    <2>5. ASSUME NEW e \in Evaluations, _trigger_alert(e)
          PROVE  RuleInv(rule)'
      <3>1. CASE rule = Head(evaluation[e].todo)  BY <2>5, <3>1, AlertRaised
      <3>2. CASE rule # Head(evaluation[e].todo)
        <4>1. /\ evaluation[e].rule = "none"
              /\ evaluation'[e].rule = Head(evaluation[e].todo)
              /\ \A d \in Evaluations \ {e} : evaluation'[d] = evaluation[d]
              /\ tracking' = tracking
          BY <2>1, <2>5
          DEF _trigger_alert, Between, EvaluationFields, AlertInv, EvaluationsInv
        <4>2. alerts'[rule] = alerts[rule]
          BY <2>5, <3>2 DEF _trigger_alert, AlertInv, AlertTypes
        <4> QED BY <2>1, <3>2, <4>1, <4>2, NoneIsNoRule, UntouchedKept
                DEF Untouched, Pending
      <3> QED BY <3>1, <3>2
    <2>6. ASSUME NEW e \in Evaluations, update_tracking(e)
          PROVE  RuleInv(rule)'
      <3>1. CASE rule = evaluation[e].rule  BY <2>6, <3>1, AlertNoted
      <3>2. CASE rule # evaluation[e].rule
        <4>1. /\ evaluation'[e].rule = "none"
              /\ \A d \in Evaluations \ {e} : evaluation'[d] = evaluation[d]
              /\ alerts' = alerts
          BY <2>1, <2>6, AtRestFields
          DEF update_tracking, After, EvaluationFields, AlertInv, EvaluationsInv
        <4>2. tracking'[rule] = tracking[rule]
          BY <2>6, <3>2 DEF update_tracking, AlertInv, AlertTypes
        <4> QED BY <2>1, <3>2, <4>1, <4>2, NoneIsNoRule, UntouchedKept
                DEF Untouched, Pending
      <3> QED BY <3>1, <3>2
    <2>7. ASSUME NEW r \in Rules,
                 add_rule(r) \/ remove_rule(r) \/ enable_rule(r) \/ disable_rule(r)
          PROVE  RuleInv(rule)'
      <3>1. alerts' = alerts /\ tracking' = tracking
        BY <2>7 DEF add_rule, remove_rule, enable_rule, disable_rule
      <3>2. \A e \in Evaluations :
              /\ evaluation'[e].rule = evaluation[e].rule
              /\ evaluation'[e].rule # "none" => evaluation'[e].since = evaluation[e].since
        BY <2>7, ChangedKeeps DEF AlertInv
      <3> QED BY <2>1, <3>1, <3>2, NoneIsNoRule, UntouchedKept DEF Untouched, Pending
    <2> QED BY <2>2, <2>3, <2>4, <2>5, <2>6, <2>7 DEF AlertsNext
  <1> QED BY <1>1, <1>2 DEF AlertInv

LEMMA AlertsFollow == AlertInv => AlertsDisciplined
  <1> SUFFICES ASSUME AlertInv, NEW rule \in Rules, NEW i \in DOMAIN alerts[rule]
               PROVE  LET later == i + (Overlapping * (Overlapping + 1)) \div 2
                      IN /\ later \in DOMAIN alerts[rule] =>
                              alerts[rule][later].time - alerts[rule][i].time >= Cooldown
                         /\ i >= Overlapping + 3 => alerts[rule][i].escalated
    BY DEF AlertsDisciplined
  <1> DEFINE log == alerts[rule]
             n == Overlapping
             some == (n * (n + 1)) \div 2
             later == i + some
             t == log[i].time
             f == Cardinality(Within(log, t))
             o == Cardinality(Older(rule, t))
  <1>1. log \in Seq(Entries) /\ RuleInv(rule) /\ EvaluationsInv
    BY DEF AlertInv, AlertTypes
  <1>2. /\ Len(log) \in Nat /\ DOMAIN log = 1..Len(log)
        /\ \A j \in 1..Len(log) : log[j].time \in Nat
    BY <1>1, LogEntries
  <1>3. i >= n + 3 => log[i].escalated  BY <1>1, <1>2 DEF RuleInv
  <1>4. ASSUME later \in DOMAIN log, log[later].time - t < Cooldown
        PROVE  FALSE
    <2>1. n \in Nat /\ o \in Nat /\ o <= n
      <3>1. Older(rule, t) \in SUBSET Evaluations  BY DEF Older, Pending
      <3>2. \A e \in Older(rule, t) : ~AtRest(e)
        BY AtRestFields, NoneIsNoRule DEF Older, Pending, AtRest
      <3> QED BY <1>1, <3>1, <3>2, EvaluationsFinite, PendingFew
    <2>2. some \in Nat /\ 2 * some = n * (n + 1)
      BY <2>1, Halved
    <2>3. i..later \in SUBSET Within(log, t)
      <3> HIDE DEF later, t, log
      <3> SUFFICES ASSUME NEW j \in i..later
                   PROVE  j \in Within(log, t)
        OBVIOUS
      <3> USE DEF later, t, log
      <3>1. i \in Nat /\ 1 <= i /\ later \in Nat /\ later <= Len(log) /\ j \in 1..Len(log)
        BY <1>2, <1>4, <2>2
      <3>2. t <= log[j].time /\ log[j].time <= log[later].time
        BY <1>1, <1>2, <1>4, <3>1 DEF RuleInv
      <3>3. t \in Nat /\ log[j].time \in Nat /\ log[later].time \in Nat
        BY <1>2, <1>4, <3>1
      <3>4. \A a, b, c \in Nat : a <= b /\ b <= c /\ c - a < Cooldown
                              => b \in CooldownFrom(a)
        BY AlertsAssumption DEF CooldownFrom
      <3> HIDE DEF later, t, log
      <3>5. log[j].time \in CooldownFrom(t)
        BY <1>4, <3>2, <3>3, <3>4
      <3> QED BY <3>1, <3>5 DEF Within
    <2>4. Cardinality(i..later) = some + 1
      BY <1>2, <2>2, FS_Interval
    <2>5. f \in Nat /\ some + 1 <= f
      <3>1. Within(log, t) \in SUBSET (1..Len(log))  BY DEF Within
      <3>2. IsFiniteSet(Within(log, t)) /\ f \in Nat
        BY <1>2, <3>1, IndicesFinite
      <3> QED BY <2>3, <2>4, <3>2, FS_Subset
    <2>6. 2 * f <= (n - o) * (n - o + 1)
      <3>1. t \in Nat  BY <1>2
      <3> QED BY <1>1, <3>1 DEF RuleInv, CooldownKept, Kept
    <2>7. (n - o) * (n - o + 1) <= n * (n + 1)
      BY <2>1, Fewer
    <2> HIDE DEF n, o, f, some
    <2>8. n * (n + 1) \in Int /\ (n - o) * (n - o + 1) \in Int  BY <2>1
    <2> QED BY <2>2, <2>5, <2>6, <2>7, <2>8
  <1>5. later \in DOMAIN log => log[later].time - t >= Cooldown
    BY <1>2, <1>4, AlertsAssumption
  <1> QED BY <1>3, <1>5

\* However many evaluations overlap and however the rules change meanwhile: n of
\* them raise no more than 1 + 2 + ... + n alerts of a rule within its cooldown,
\* and escalate from the fourth or at most n - 1 alerts later.
THEOREM AlertsAreDisciplined ==
  AlertsInit /\ [][AlertsNext]_alertVars => []AlertsDisciplined
  <1> QED BY AlertsFollow, AlertsStart, AlertStep, PTL
=============================================================================
