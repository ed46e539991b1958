----------------------------- MODULE RuleEngine -----------------------------
(***************************************************************************)
(* The deployment rules of a tenant: the endpoints of api/v1/rules.py that  *)
(* change them and the verdict of services/rule_engine.py on a deployment.  *)
(* Nothing that is decided about a rule depends on another row, so that an  *)
(* endpoint is one step.  The verdict is on the day it is asked for, not on *)
(* that of the maintenance window it is asked about.                        *)
(***************************************************************************)
EXTENDS Integers, FiniteSets

CONSTANTS Rules,      \* identities of rows, by descending priority
          Bodies,     \* what a rule may say
          Targets     \* the deployments that rules are evaluated for


VARIABLES rules,      \* the table: the rules that exist, with what they say
          target,     \* the deployment in question
          today       \* the current date and hour

ruleVars == <<rules, target, today>>

\* The type of an action is any string; these are the ones that are known.
Warnings == {"warn", "require_approval", "escalate_risk", "notify"}
Actions == {"block", "unknown"} \cup Warnings

Body == [scope_type : {"global", "environment", "tag", "asset", "asset_group"},
         scope_value : STRING, scope_tags : SUBSET STRING,
         condition : {"always", "month_end", "quarter_end", "day_of_week",
                      "holiday", "risk_threshold"},
         days_before : Nat, days : SUBSET (0..6), after_hour : 0..23,
         action_type : Actions, enabled : BOOLEAN, is_default : BOOLEAN]

ASSUME RuleAssumption == Rules \subseteq Nat /\ Bodies \subseteq Body

\* 1 January was a Monday in 2024 and a Wednesday in 2025.
Years == {2024, 2025}
MonthLength(year, month) ==
  CASE month = 2 -> IF year = 2024 THEN 29 ELSE 28
    [] month \in {4, 6, 9, 11} -> 30
    [] OTHER -> 31

Dates == {d \in [year : Years, month : 1..12, day : 1..31, hour : {9, 22}] :
            d.day <= MonthLength(d.year, d.month)}

\* Days since 1 January.
DayOfYear(year) ==
  LET first[month \in 1..13] ==
        IF month = 1 THEN 0 ELSE first[month - 1] + MonthLength(year, month - 1)
  IN  first

Ordinal(d) == DayOfYear(d.year)[d.month] + d.day - 1

Weekday(d) == (Ordinal(d) + (IF d.year = 2024 THEN 0 ELSE 2)) % 7

RuleTypeOK ==
  /\ DOMAIN rules \subseteq Rules
  /\ \A r \in DOMAIN rules : rules[r] \in Bodies
  /\ target \in Targets
  /\ today \in Dates

\* Default rules are there from the start (seeded); the API makes no others.
RuleInit ==
  /\ rules \in UNION {[R -> {b \in Bodies : b.is_default}] : R \in SUBSET Rules}
  /\ target \in Targets
  /\ today \in Dates

-----------------------------------------------------------------------------
(* Evaluation *)

\* A scope of groups of assets is accepted, and matches nothing.
_matches_scope(b) ==
  \/ b.scope_type = "global"
  \/ b.scope_type = "environment" /\ b.scope_value = target.environment
  \/ /\ b.scope_type = "tag"
     /\ target.tags # {}
     /\ IF b.scope_tags # {} THEN b.scope_tags \subseteq target.tags
                             ELSE b.scope_value \in target.tags
  \/ b.scope_type = "asset" /\ b.scope_value \in target.assets

DaysUntilMonthEnd == MonthLength(today.year, today.month) - today.day

_is_near_month_end_inclusive(days_before) == DaysUntilMonthEnd <= days_before

_is_near_month_end(days_before) == DaysUntilMonthEnd < days_before

_is_near_quarter_end(days_before) ==
  /\ today.month \in {3, 6, 9, 12}
  /\ DaysUntilMonthEnd < days_before

_matches_day_of_week(b) == Weekday(today) \in b.days /\ today.hour >= b.after_hour

\* No date is known to be a holiday, and no other condition is implemented.
_matches_condition(b) ==
  \/ b.condition = "always"
  \/ b.condition = "month_end" /\ _is_near_month_end(b.days_before)
  \/ b.condition = "quarter_end" /\ _is_near_quarter_end(b.days_before)
  \/ b.condition = "day_of_week" /\ _matches_day_of_week(b)

Matches == {r \in DOMAIN rules : /\ rules[r].enabled
                                 /\ _matches_scope(rules[r])
                                 /\ _matches_condition(rules[r])}

\* The rule of highest priority decides.
_determine_verdict_by_priority(matches) ==
  IF matches = {} THEN "allow"
  ELSE LET first == CHOOSE r \in matches : \A q \in matches : r <= q
       IN  IF rules[first].action_type = "block" THEN "block" ELSE "warn"

_determine_verdict(matches) ==
  IF \E r \in matches : rules[r].action_type = "block" THEN "block"
  ELSE IF \E r \in matches : rules[r].action_type \in Warnings THEN "warn"
  ELSE "allow"

evaluate_deployment == _determine_verdict(Matches)

-----------------------------------------------------------------------------
(* The endpoints *)

create_rule(r) ==
  /\ r \in Rules \ DOMAIN rules
  /\ \E b \in {c \in Bodies : ~c.is_default} :
       rules' = [q \in DOMAIN rules \cup {r} |-> IF q = r THEN b ELSE rules[q]]
  /\ UNCHANGED <<target, today>>

\* Every field but is_default can be changed; scope and condition stay together.
update_rule(r) ==
  /\ r \in DOMAIN rules
  /\ \E b \in Bodies : /\ b.is_default = rules[r].is_default
                       /\ rules' = [rules EXCEPT ![r] = b]
  /\ UNCHANGED <<target, today>>

delete_rule(r) ==
  /\ r \in DOMAIN rules
  /\ ~rules[r].is_default
  /\ rules' = [q \in DOMAIN rules \ {r} |-> rules[q]]
  /\ UNCHANGED <<target, today>>

NextDay ==
  IF today.day < MonthLength(today.year, today.month)
  THEN [today EXCEPT !.day = @ + 1, !.hour = 9]
  ELSE IF today.month < 12
  THEN [today EXCEPT !.month = @ + 1, !.day = 1, !.hour = 9]
  ELSE [today EXCEPT !.year = @ + 1, !.month = 1, !.day = 1, !.hour = 9]

TimePasses ==
  /\ today' = IF today.hour = 9 THEN [today EXCEPT !.hour = 22] ELSE NextDay
  /\ today'.year \in Years
  /\ UNCHANGED <<rules, target>>

RuleNext ==
  \/ \E r \in Rules : create_rule(r) \/ update_rule(r) \/ delete_rule(r)
  \/ TimePasses

RuleSpec == RuleInit /\ [][RuleNext]_ruleVars

-----------------------------------------------------------------------------
(* Properties *)

\* Days left of the month and of the quarter, counted in the year.
DaysLeft(month) == DayOfYear(today.year)[month + 1] - Ordinal(today)
QuarterEnd == 3 * ((today.month + 2) \div 3)

\* The two tests on the date mean what their comments say, "within N days of
\* month end" and "of quarter end", the last day being within one day of it, in
\* leap years as in others.  (From 31 on, the second would have to look beyond
\* the quarter's last month, and does not.)
CalendarAgrees ==
  LET month == DaysLeft(today.month)
      quarter == DaysLeft(QuarterEnd)
  IN  \A n \in 0..30 : /\ _is_near_month_end(n) <=> month <= n
                       /\ _is_near_quarter_end(n) <=> quarter <= n

Severity == [allow |-> 0, warn |-> 1, block |-> 2]

\* "Blocks override everything": another rule, of whatever priority, makes the
\* verdict on a deployment no milder, and taking one away no stricter.
RulesOnlyRestrict ==
  [][/\ today' = today
     /\ DOMAIN rules # DOMAIN rules'
     => IF DOMAIN rules \subseteq DOMAIN rules'
        THEN Severity[evaluate_deployment] <= Severity[evaluate_deployment']
        ELSE Severity[evaluate_deployment] >= Severity[evaluate_deployment']]_ruleVars
=============================================================================
