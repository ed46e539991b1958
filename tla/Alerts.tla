--------------------------------- MODULE Alerts ---------------------------------
(***************************************************************************)
(* The alert manager of core/alerts.py: rules on metrics, the alerts they   *)
(* trigger, and the handlers these are sent to.                             *)
(*                                                                          *)
(* An evaluation goes through the rules one by one and awaits the handler   *)
(* of each channel.  Others run meanwhile; what keeps a rule from           *)
(* alerting again is noted only after the last handler.                     *)
(***************************************************************************)
EXTENDS Integers, Sequences, FiniteSets, SequencesExt

CONSTANTS Evaluations,       \* calls of evaluate_rules
          Metrics,           \* the metrics they are given
          MetricValues,      \* and the values of these
          Cooldown,          \* cooldown_seconds
          MaxAlertTime,
          MaxRuleChanges

ASSUME AlertsAssumption ==
  /\ IsFiniteSet(Evaluations)
  /\ Cooldown \in Nat \ {0} /\ MaxAlertTime \in Nat /\ MaxRuleChanges \in Nat

VARIABLES now,
          rules,       \* the manager's list, names of rules
          disabled,    \* those that are not enabled
          tracking,    \* last_alert_time and alert_counts of each rule
          evaluation,  \* what each evaluation has still to do
          oneByOne,    \* evaluations do not overlap
          ruleChanges,
          alerts       \* history: for each rule its alerts, in the order of
                       \* their triggering

alertVars ==
  <<now, rules, disabled, tracking, evaluation, oneByOne,
    ruleChanges, alerts>>

Rule(metric, threshold, severity) ==
  [metric_name |-> metric, threshold |-> threshold, severity |-> severity]

\* All of them with the operator ">"; rates and shares in hundredths, times in
\* milliseconds.
DEFAULT_ALERT_RULES ==
  [high_error_rate_warning   |-> Rule("error_rate", 5, "warning"),
   high_error_rate_critical  |-> Rule("error_rate", 15, "critical"),
   high_latency_p95_warning  |-> Rule("latency_p95", 2000, "warning"),
   high_latency_p95_critical |-> Rule("latency_p95", 5000, "critical"),
   db_connections_high |-> Rule("db_connection_utilization", 80, "warning"),
   db_query_slow       |-> Rule("db_query_time", 1000, "warning"),
   disk_space_critical |-> Rule("disk_usage_percent", 90, "critical"),
   memory_high         |-> Rule("memory_usage_percent", 85, "warning"),
   cpu_high            |-> Rule("cpu_usage_percent", 90, "warning")]

\* The rules that speak of a metric which is reported, all others being skipped.
Rules ==
  {r \in DOMAIN DEFAULT_ALERT_RULES : DEFAULT_ALERT_RULES[r].metric_name \in Metrics}

evaluate(rule, value) ==
  rule \notin disabled /\ value > DEFAULT_ALERT_RULES[rule].threshold

NothingToDo ==
  [todo |-> <<>>, values |-> [m \in {} |-> 0], rule |-> "none", since |-> 0,
   current |-> FALSE]

Never == -Cooldown

AlertsTypeOK ==
  /\ now \in 0..MaxAlertTime /\ ruleChanges \in 0..MaxRuleChanges
  /\ rules \in Seq(Rules) /\ disabled \subseteq Rules
  /\ tracking \in [Rules -> [last : Never..MaxAlertTime, count : Nat]]
  /\ \A e \in Evaluations :
       /\ evaluation[e].todo \in Seq(Rules)
       /\ evaluation[e].rule \in Rules \cup {"none"}
  /\ alerts \in [Rules -> Seq([time : 0..MaxAlertTime, escalated : BOOLEAN])]

AlertsInit ==
  /\ now = 0
  /\ rules \in {SetToSeq(given) : given \in SUBSET Rules \ {{}}} /\ disabled = {}
  /\ tracking = [r \in Rules |-> [last |-> Never, count |-> 0]]
  /\ evaluation = [e \in Evaluations |-> NothingToDo]
  /\ oneByOne \in BOOLEAN
  /\ ruleChanges = 0
  /\ alerts = [r \in Rules |-> <<>>]

AlertTick ==
  /\ now < MaxAlertTime
  /\ now' = now + 1
  /\ UNCHANGED <<rules, disabled, tracking, evaluation, oneByOne,
                 ruleChanges, alerts>>

AtRest(e) == evaluation[e] = NothingToDo

\* "current": the list it goes through is still the manager's.
evaluate_rules(e, values) ==
  /\ AtRest(e)
  /\ oneByOne => \A d \in Evaluations : AtRest(d)
  /\ rules # <<>>
  /\ evaluation' = [evaluation EXCEPT ![e] =
       [NothingToDo EXCEPT !.todo = rules, !.values = values, !.current = TRUE]]
  /\ UNCHANGED <<now, rules, disabled, tracking, oneByOne,
                 ruleChanges, alerts>>

Between(e) == evaluation[e].todo # <<>> /\ evaluation[e].rule = "none"

ValueFor(e, rule) == evaluation[e].values[DEFAULT_ALERT_RULES[rule].metric_name]

InCooldown(rule) == now - tracking[rule].last < Cooldown

Triggers(e, rule) == evaluate(rule, ValueFor(e, rule)) /\ ~InCooldown(rule)

\* What is left of an evaluation when a rule is done with.
After(e) ==
  IF Len(evaluation[e].todo) = 1 THEN NothingToDo
  ELSE [evaluation[e] EXCEPT !.todo = Tail(@), !.rule = "none"]

skip_rule(e) ==
  /\ Between(e)
  /\ ~Triggers(e, Head(evaluation[e].todo))
  /\ evaluation' = [evaluation EXCEPT ![e] = After(e)]
  /\ UNCHANGED <<now, rules, disabled, tracking, oneByOne,
                 ruleChanges, alerts>>

_check_escalation(rule, value) ==
  \/ tracking[rule].count >= 3
  \/ value > 2 * DEFAULT_ALERT_RULES[rule].threshold

\* The alert is built; its time is the one the cooldown is counted from.
_trigger_alert(e) ==
  LET rule  == Head(evaluation[e].todo)
      alert == [time |-> now, escalated |-> _check_escalation(rule, ValueFor(e, rule))]
  IN /\ Between(e)
     /\ Triggers(e, rule)
     /\ alerts' = [alerts EXCEPT ![rule] = Append(@, alert)]
     /\ evaluation' = [evaluation EXCEPT ![e] =
          [@ EXCEPT !.rule = rule, !.since = now]]
     /\ UNCHANGED <<now, rules, disabled, tracking, oneByOne,
                    ruleChanges>>

\* The alerts before are forgotten: a variant of the next.
NotedAlone(rule, since) == [last |-> since, count |-> 1]

Noted(rule, since) == [last |-> since, count |-> tracking[rule].count + 1]

\* The handlers of the channels are done.  A channel without one is passed over,
\* and a failure is printed: no different.
update_tracking(e) ==
  LET rule == evaluation[e].rule
  IN /\ rule # "none"
     /\ tracking' = [tracking EXCEPT ![rule] = Noted(rule, evaluation[e].since)]
     /\ evaluation' = [evaluation EXCEPT ![e] = After(e)]
     /\ UNCHANGED <<now, rules, disabled, oneByOne, ruleChanges,
                    alerts>>

ChangesRules == ruleChanges < MaxRuleChanges /\ ruleChanges' = ruleChanges + 1

\* The evaluations that go through the manager's list come to the new rule, too.
add_rule(rule) ==
  /\ ChangesRules
  /\ ~Contains(rules, rule)
  /\ rules' = Append(rules, rule)
  /\ evaluation' = [e \in Evaluations |->
       IF evaluation[e].current THEN [evaluation[e] EXCEPT !.todo = Append(@, rule)]
       ELSE evaluation[e]]
  /\ UNCHANGED <<now, disabled, tracking, oneByOne, alerts>>

\* The manager gets another list, without the rule, which is in it once at most:
\* the evaluations keep the one they have.
remove_rule(rule) ==
  /\ ChangesRules
  /\ rules' = RemoveFirst(rules, rule)
  /\ evaluation' = [e \in Evaluations |->
       IF AtRest(e) THEN NothingToDo ELSE [evaluation[e] EXCEPT !.current = FALSE]]
  /\ UNCHANGED <<now, disabled, tracking, oneByOne, alerts>>

enable_rule(rule) ==
  /\ ChangesRules
  /\ Contains(rules, rule)
  /\ disabled' = disabled \ {rule}
  /\ UNCHANGED <<now, rules, tracking, evaluation, oneByOne, alerts>>

disable_rule(rule) ==
  /\ ChangesRules
  /\ Contains(rules, rule)
  /\ disabled' = disabled \cup {rule}
  /\ UNCHANGED <<now, rules, tracking, evaluation, oneByOne, alerts>>

AlertsNext ==
  \/ AlertTick
  \/ \E e \in Evaluations :
       \/ \E values \in [Metrics -> MetricValues] : evaluate_rules(e, values)
       \/ skip_rule(e) \/ _trigger_alert(e) \/ update_tracking(e)
  \/ \E rule \in Rules :
       add_rule(rule) \/ remove_rule(rule) \/ enable_rule(rule) \/ disable_rule(rule)

-----------------------------------------------------------------------------
(* Property *)

Overlapping == IF oneByOne THEN 1 ELSE Cardinality(Evaluations)

\* With evaluations one after the other, the alerts of a rule are a cooldown
\* apart and the fourth and later ones are escalated.  Where n of them overlap,
\* each late one that puts back the time of a newer alert lets those that are
\* free alert once more: no more than 1 + 2 + ... + n alerts fall within a
\* cooldown.  A late one counts what the others have not: the escalation comes
\* no more than n - 1 alerts later.
AlertsDisciplined ==
  \A rule \in Rules : \A i \in DOMAIN alerts[rule] :
    LET later == i + (Overlapping * (Overlapping + 1)) \div 2
    IN /\ later \in DOMAIN alerts[rule] =>
            alerts[rule][later].time - alerts[rule][i].time >= Cooldown
       /\ i >= Overlapping + 3 => alerts[rule][i].escalated
=============================================================================
