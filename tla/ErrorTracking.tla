---------------------------- MODULE ErrorTracking ----------------------------
(***************************************************************************)
(* Error tracking of services/error_service.py: the errors of a group, the  *)
(* endpoint and the type of the exception, are counted over a window, and   *)
(* some are notified, a cooldown apart.                                     *)
(*                                                                          *)
(* The message decides on the severity, and is no part of the group.  A     *)
(* call awaits nothing that suspends it, so that each is one step.          *)
(***************************************************************************)
EXTENDS Integers, Sequences, FiniteSets

CONSTANTS Exceptions,      \* exceptions: their type, and what their text mentions
          Endpoints,
          UserErrorTypes,  \* 'ValidationError', 'ValueError', 'KeyError', ...
          RateWindow,      \* error_rate_window, in seconds
          NotificationCooldown,
          TickLength,      \* in seconds
          MaxSeconds, MaxErrors

ASSUME ErrorTrackingAssumption ==
  /\ RateWindow \in Nat \ {0} /\ NotificationCooldown \in Nat \ {0}
  /\ TickLength \in Nat \ {0} /\ MaxSeconds \in Nat /\ MaxErrors \in Nat
  /\ \A e \in Exceptions : e.mentions \subseteq {"transient", "permanent", "database"}

VARIABLES second,
          error_timestamps,   \* of each group, within the window: a list that is
                              \* only counted, here with the numbers of the errors
          last_notification,  \* of each group
          tracked,            \* history: the errors, in order
          notified            \* history: the notifications, in order

errorVars == <<second, error_timestamps, last_notification, tracked, notified>>

Groups == [endpoint : Endpoints, type : {e.type : e \in Exceptions}]

group_error(error, endpoint) == [endpoint |-> endpoint, type |-> error.type]

classify_error(error) ==
  CASE "transient" \in error.mentions -> "transient"
    [] "transient" \notin error.mentions /\ error.type \in UserErrorTypes -> "user_error"
    [] OTHER -> IF "permanent" \in error.mentions THEN "permanent" ELSE "unknown"

classify_severity(error) ==
  LET classification == classify_error(error)
  IN CASE classification = "user_error" -> "warning"
       [] classification # "user_error" /\ "database" \in error.mentions -> "critical"
       [] OTHER -> IF classification = "transient" THEN "warning" ELSE "error"

Seconds == 0..MaxSeconds

Timestamps == [error : 1..MaxErrors, at : Seconds]

NeverNotified == -NotificationCooldown

ErrorTypeOK ==
  /\ second \in Seconds
  /\ error_timestamps \in [Groups -> SUBSET Timestamps]
  /\ last_notification \in [Groups -> Seconds \cup {NeverNotified}]
  /\ tracked \in Seq([time : Seconds, group : Groups, notify : BOOLEAN,
                      severity : {"warning", "error", "critical"}])
  /\ notified \in Seq([time : Seconds, group : Groups,
                       type : {"immediate", "batch"}])

ErrorInit ==
  /\ second = 0
  /\ error_timestamps = [g \in Groups |-> {}]
  /\ last_notification = [g \in Groups |-> NeverNotified]
  /\ tracked = <<>> /\ notified = <<>>

ErrorTick ==
  /\ second + TickLength <= MaxSeconds
  /\ second' = second + TickLength
  /\ UNCHANGED <<error_timestamps, last_notification, tracked, notified>>

WithinRate(timestamps) == {ts \in timestamps : ts.at > second - RateWindow}

\* calculate_error_rate is in errors per second; in hundredths of these.
RateAbove(group, hundredths) ==
  100 * Cardinality(WithinRate(error_timestamps'[group])) > hundredths * RateWindow

Quiet(group) == second - last_notification[group] < NotificationCooldown

should_notify(severity, group) ==
  \/ severity = "critical"
  \/ severity = "error" /\ RateAbove(group, 10)
  \/ RateAbove(group, 5)

notification_type(severity, group) ==
  IF severity = "critical" \/ (severity = "error" /\ RateAbove(group, 10))
    THEN "immediate" ELSE "batch"

\* Looking at an error starts the cooldown, notified or not: a variant of the
\* next.
StampAlways(severity, group) ==
  IF Quiet(group) THEN UNCHANGED <<last_notification, notified>>
  ELSE /\ notified' = IF should_notify(severity, group)
                        THEN Append(notified, [time |-> second, group |-> group,
                               type |-> notification_type(severity, group)])
                        ELSE notified
       /\ last_notification' = [last_notification EXCEPT ![group] = second]

_route_notification(severity, group) ==
  IF ~Quiet(group) /\ should_notify(severity, group)
    THEN /\ notified' = Append(notified, [time |-> second, group |-> group,
                          type |-> notification_type(severity, group)])
         /\ last_notification' = [last_notification EXCEPT ![group] = second]
    ELSE UNCHANGED <<last_notification, notified>>

track_error(error, endpoint, notify) ==
  LET group    == group_error(error, endpoint)
      severity == classify_severity(error)
  IN /\ Len(tracked) < MaxErrors
     /\ error_timestamps' = [error_timestamps EXCEPT ![group] =
                               WithinRate(@ \cup {[error |-> Len(tracked) + 1,
                                                  at |-> second]})]
     /\ tracked' = Append(tracked, [time |-> second, group |-> group,
                                    notify |-> notify, severity |-> severity])
     /\ IF notify THEN _route_notification(severity, group)
        ELSE UNCHANGED <<last_notification, notified>>
     /\ UNCHANGED second

ErrorNext ==
  \/ ErrorTick
  \/ \E error \in Exceptions, endpoint \in Endpoints, notify \in BOOLEAN :
       track_error(error, endpoint, notify)

-----------------------------------------------------------------------------
(* Property *)

\* The number of errors of the group of a tracked one, up to it and within the
\* window before it.
Burst(i) ==
  Cardinality({j \in 1..i : /\ tracked[j].group = tracked[i].group
                            /\ tracked[j].time > tracked[i].time - RateWindow})

Heard(i) ==
  \E n \in DOMAIN notified :
    /\ notified[n].group = tracked[i].group
    /\ tracked[i].time - notified[n].time \in 0..(NotificationCooldown - 1)

\* The notifications of a group are a cooldown apart, and a critical error that
\* is to be notified has one of its group within the cooldown before it, at the
\* latest its own: that may have been for an error of less weight.
CriticalIsHeard ==
  /\ \A i \in DOMAIN tracked :
       tracked[i].notify /\ tracked[i].severity = "critical" => Heard(i)
  /\ \A n, m \in DOMAIN notified :
       n < m /\ notified[n].group = notified[m].group
       => notified[m].time - notified[n].time >= NotificationCooldown

\* An error that is to be notified, and is critical or one too many for its
\* group, has a notification of its group within the cooldown before it, which
\* may have been for an error of less weight; and the notifications of a group
\* are a cooldown apart.
TroubleIsHeard ==
  /\ CriticalIsHeard
  /\ \A i \in DOMAIN tracked :
       tracked[i].notify /\ 100 * Burst(i) > 5 * RateWindow => Heard(i)
=============================================================================
