---------------------------- MODULE PlanningProofs ----------------------------
(***************************************************************************)
(* Proofs about the calendar and the rules that decide when something may   *)
(* be deployed, about maintenance windows, and about goals.                 *)
(***************************************************************************)
EXTENDS MCPlanning, OptimizerProofs

-----------------------------------------------------------------------------
(* The calendar *)

\* The days before each month, one by one.
DaysBefore(year, month) ==
  LET leap == IF year = 2024 THEN 1 ELSE 0 IN
  CASE month = 1  -> 0
    [] month = 2  -> 31
    [] month = 3  -> 59 + leap
    [] month = 4  -> 90 + leap
    [] month = 5  -> 120 + leap
    [] month = 6  -> 151 + leap
    [] month = 7  -> 181 + leap
    [] month = 8  -> 212 + leap
    [] month = 9  -> 243 + leap
    [] month = 10 -> 273 + leap
    [] month = 11 -> 304 + leap
    [] month = 12 -> 334 + leap
    [] month = 13 -> 365 + leap

LEMMA MonthByMonth ==
  ASSUME NEW y \in Years, NEW m \in 2..13
  PROVE  DaysBefore(y, m) = DaysBefore(y, m - 1) + MonthLength(y, m - 1)
  BY DEF DaysBefore, MonthLength, Years

LEMMA FirstDays ==
  ASSUME NEW y \in Years, NEW m \in 1..13
  PROVE  DayOfYear(y)[m] = DaysBefore(y, m)
  <1> DEFINE Follows(f) ==
        f = [n \in 1..13 |-> IF n = 1 THEN 0 ELSE f[n - 1] + MonthLength(y, n - 1)]
  <1>1. PICK known : known = [n \in 1..13 |-> DaysBefore(y, n)]
    OBVIOUS
  <1>2. Follows(known)
    <2>1. ASSUME NEW n \in 1..13
          PROVE  DaysBefore(y, n) = IF n = 1 THEN 0 ELSE known[n - 1] + MonthLength(y, n - 1)
      <3>1. CASE n = 1
        BY <3>1 DEF DaysBefore
      <3>2. CASE n # 1
        <4>1. n \in 2..13 /\ n - 1 \in 1..13
          BY <3>2
        <4> QED BY <1>1, <3>2, <4>1, MonthByMonth
      <3> QED BY <3>1, <3>2
    <2> QED BY <1>1, <2>1
  <1>3. DayOfYear(y) = CHOOSE f : Follows(f)
    BY DEF DayOfYear
  <1>4. PICK days : days = DayOfYear(y)
    OBVIOUS
  <1>5. Follows(days)
    BY <1>2, <1>3, <1>4
  <1>6. days[1] = 0 /\ \A n \in 2..13 : days[n] = days[n - 1] + MonthLength(y, n - 1)
    BY <1>5
  <1> HIDE DEF Follows
  <1>7. days[1] = DaysBefore(y, 1)
    BY <1>6 DEF DaysBefore
  <1>8. \A n \in 2..13 : days[n - 1] = DaysBefore(y, n - 1) => days[n] = DaysBefore(y, n)
    BY <1>6, MonthByMonth
  <1>9. days[2] = DaysBefore(y, 2)
    BY <1>7, <1>8
  <1>10. days[3] = DaysBefore(y, 3)
    BY <1>9, <1>8
  <1>11. days[4] = DaysBefore(y, 4)
    BY <1>10, <1>8
  <1>12. days[5] = DaysBefore(y, 5)
    BY <1>11, <1>8
  <1>13. days[6] = DaysBefore(y, 6)
    BY <1>12, <1>8
  <1>14. days[7] = DaysBefore(y, 7)
    BY <1>13, <1>8
  <1>15. days[8] = DaysBefore(y, 8)
    BY <1>14, <1>8
  <1>16. days[9] = DaysBefore(y, 9)
    BY <1>15, <1>8
  <1>17. days[10] = DaysBefore(y, 10)
    BY <1>16, <1>8
  <1>18. days[11] = DaysBefore(y, 11)
    BY <1>17, <1>8
  <1>19. days[12] = DaysBefore(y, 12)
    BY <1>18, <1>8
  <1>20. days[13] = DaysBefore(y, 13)
    BY <1>19, <1>8
  <1> QED BY <1>4, <1>7, <1>9, <1>10, <1>11, <1>12, <1>13, <1>14, <1>15, <1>16, <1>17, <1>18, <1>19, <1>20

LEMMA DateFields ==
  ASSUME NEW d \in Dates
  PROVE  /\ d.year \in Years /\ d.month \in 1..12
         /\ d.day \in 1..MonthLength(d.year, d.month) /\ d.hour \in {9, 22}
         /\ d = [year |-> d.year, month |-> d.month, day |-> d.day, hour |-> d.hour]
  <1>1. d \in [year : Years, month : 1..12, day : 1..31, hour : {9, 22}]
    BY DEF Dates
  <1>2. MonthLength(d.year, d.month) \in 28..31
    BY <1>1 DEF MonthLength, Years
  <1>3. d.day <= MonthLength(d.year, d.month)
    BY DEF Dates
  <1> QED BY <1>1, <1>2, <1>3

LEMMA MakeDate ==
  ASSUME NEW y \in Years, NEW m \in 1..12, NEW day \in 1..MonthLength(y, m), NEW h \in {9, 22}
  PROVE  [year |-> y, month |-> m, day |-> day, hour |-> h] \in Dates
  <1>1. MonthLength(y, m) \in 28..31
    BY DEF MonthLength, Years
  <1>2. day \in 1..31 /\ day <= MonthLength(y, m)
    BY <1>1
  <1> QED BY <1>2 DEF Dates

LEMMA TimeKeepsDates ==
  ASSUME today \in Dates, TimePasses
  PROVE  today' \in Dates
  <1>1. PICK d \in Dates : d = today
    OBVIOUS
  <1>2. /\ d.year \in Years /\ d.month \in 1..12
        /\ d.day \in 1..MonthLength(d.year, d.month) /\ d.hour \in {9, 22}
        /\ d = [year |-> d.year, month |-> d.month, day |-> d.day, hour |-> d.hour]
    BY DateFields
  <1>3. \A y \in Years, m \in 1..12 : MonthLength(y, m) \in 28..31
    BY DEF MonthLength, Years
  <1>4. today'.year \in Years
    BY DEF TimePasses
  <1>5. CASE d.hour = 9
    <2>1. today' = [year |-> d.year, month |-> d.month, day |-> d.day, hour |-> 22]
      BY <1>1, <1>2, <1>5 DEF TimePasses
    <2> QED BY <1>2, <2>1, MakeDate
  <1>6. CASE d.hour # 9 /\ d.day < MonthLength(d.year, d.month)
    <2>1. today' = [year |-> d.year, month |-> d.month, day |-> d.day + 1, hour |-> 9]
      BY <1>1, <1>2, <1>6 DEF TimePasses, NextDay
    <2>2. d.day + 1 \in 1..MonthLength(d.year, d.month)
      BY <1>2, <1>3, <1>6
    <2> QED BY <1>2, <2>1, <2>2, MakeDate
  <1>7. CASE d.hour # 9 /\ ~(d.day < MonthLength(d.year, d.month)) /\ d.month < 12
    <2>1. today' = [year |-> d.year, month |-> d.month + 1, day |-> 1, hour |-> 9]
      BY <1>1, <1>2, <1>7 DEF TimePasses, NextDay
    <2>2. d.month + 1 \in 1..12
      BY <1>2, <1>7
    <2>3. 1 \in 1..MonthLength(d.year, d.month + 1)
      BY <1>2, <1>3, <2>2
    <2> QED BY <1>2, <2>1, <2>2, <2>3, MakeDate
  <1>8. CASE d.hour # 9 /\ ~(d.day < MonthLength(d.year, d.month)) /\ ~(d.month < 12)
    <2>1. today' = [year |-> d.year + 1, month |-> 1, day |-> 1, hour |-> 9]
      BY <1>1, <1>2, <1>8 DEF TimePasses, NextDay
    <2>2. d.year + 1 \in Years
      BY <1>4, <2>1
    <2>3. 1 \in 1..MonthLength(d.year + 1, 1)
      BY <1>3, <2>2
    <2>4. 1 \in 1..12 /\ 9 \in {9, 22}
      OBVIOUS
    <2> QED BY <2>1, <2>2, <2>3, <2>4, MakeDate
  <1> QED BY <1>5, <1>6, <1>7, <1>8

LEMMA RuleStep == RuleTypeOK /\ [RuleNext]_ruleVars => RuleTypeOK'
  <1> SUFFICES ASSUME RuleTypeOK, [RuleNext]_ruleVars PROVE RuleTypeOK'
    OBVIOUS
  <1>1. ASSUME NEW r \in Rules, create_rule(r) \/ update_rule(r) \/ delete_rule(r)
        PROVE  RuleTypeOK'
    <2>1. target' = target /\ today' = today
      BY <1>1 DEF create_rule, update_rule, delete_rule
    <2>2. /\ DOMAIN rules \subseteq Rules /\ \A q \in DOMAIN rules : rules[q] \in Bodies
          /\ target \in Targets /\ today \in Dates
      BY DEF RuleTypeOK
    <2>3. DOMAIN rules' \subseteq Rules /\ \A q \in DOMAIN rules' : rules'[q] \in Bodies
      BY <1>1, <2>2 DEF create_rule, update_rule, delete_rule
    <2> QED BY <2>1, <2>2, <2>3 DEF RuleTypeOK
  <1>2. ASSUME TimePasses
        PROVE  RuleTypeOK'
    <2>1. rules' = rules /\ target' = target /\ today' \in Dates
      BY <1>2, TimeKeepsDates DEF TimePasses, RuleTypeOK
    <2> QED BY <2>1 DEF RuleTypeOK
  <1>3. CASE UNCHANGED ruleVars
    BY <1>3 DEF ruleVars, RuleTypeOK
  <1> QED BY <1>1, <1>2, <1>3 DEF RuleNext

LEMMA RuleTypes == RuleSpec => []RuleTypeOK
  <1>1. RuleInit => RuleTypeOK
    BY DEF RuleInit, RuleTypeOK
  <1> QED BY <1>1, RuleStep, PTL DEF RuleSpec

\* The tests on the date mean what their comments say, on every day.
THEOREM CalendarIsRight == RuleSpec => []CalendarAgrees
  <1>1. RuleTypeOK => CalendarAgrees
    <2> SUFFICES ASSUME today \in Dates, NEW n \in 0..30
                 PROVE  /\ _is_near_month_end(n) <=> DaysLeft(today.month) <= n
                        /\ _is_near_quarter_end(n) <=> DaysLeft(QuarterEnd) <= n
      BY DEF RuleTypeOK, CalendarAgrees
    <2>1. PICK y \in Years, m \in 1..12, day \in Int :
            /\ y = today.year /\ m = today.month /\ day = today.day
            /\ day \in 1..MonthLength(y, m)
      <3>1. MonthLength(today.year, today.month) \in Int
        BY DateFields DEF MonthLength
      <3> QED BY <3>1, DateFields
    <2>2. \A k \in 1..12 : DaysLeft(k) = DaysBefore(y, k + 1) - (DaysBefore(y, m) + day - 1)
      <3>1. ASSUME NEW k \in 1..12
            PROVE  DaysLeft(k) = DaysBefore(y, k + 1) - (DaysBefore(y, m) + day - 1)
        <4>1. k + 1 \in 1..13 /\ m \in 1..13
          OBVIOUS
        <4>2. /\ DayOfYear(y)[k + 1] = DaysBefore(y, k + 1)
              /\ DayOfYear(y)[m] = DaysBefore(y, m)
          BY <4>1, FirstDays
        <4> QED BY <2>1, <4>2 DEF DaysLeft, Ordinal
      <3> QED BY <3>1
    <2>3. MonthLength(y, m) \in 28..31
      BY DEF MonthLength, Years
    <2>4. _is_near_month_end(n) <=> DaysLeft(today.month) <= n
      <3>1. DaysBefore(y, m + 1) = DaysBefore(y, m) + MonthLength(y, m)
        BY DEF DaysBefore, MonthLength, Years
      <3>2. DaysBefore(y, m) \in 0..365
        BY DEF DaysBefore, Years
      <3>3. DaysLeft(m) = MonthLength(y, m) - day + 1
        BY <2>2, <2>3, <3>1, <3>2
      <3>4. _is_near_month_end(n) <=> MonthLength(y, m) - day < n
        BY <2>1 DEF _is_near_month_end, DaysUntilMonthEnd
      <3> QED BY <2>1, <2>3, <3>3, <3>4
    <2>5. QuarterEnd = IF m \in 1..3 THEN 3 ELSE IF m \in 4..6 THEN 6
                       ELSE IF m \in 7..9 THEN 9 ELSE 12
      <3>1. \A k \in 1..12 :
              (k + 2) \div 3 = IF k \in 1..3 THEN 1 ELSE IF k \in 4..6 THEN 2
                              ELSE IF k \in 7..9 THEN 3 ELSE 4
        OBVIOUS
      <3>2. PICK third \in 1..4 :
              /\ third = (m + 2) \div 3
              /\ third = IF m \in 1..3 THEN 1 ELSE IF m \in 4..6 THEN 2
                         ELSE IF m \in 7..9 THEN 3 ELSE 4
        BY <3>1
      <3>3. QuarterEnd = 3 * third
        BY <2>1, <3>2 DEF QuarterEnd
      <3> QED BY <3>2, <3>3
    <2>6. CASE m \in {3, 6, 9, 12}
      <3>1. QuarterEnd = m
        BY <2>5, <2>6
      <3> QED BY <2>1, <2>4, <2>6, <3>1 DEF _is_near_month_end, _is_near_quarter_end
    <2>7. CASE m \notin {3, 6, 9, 12}
      <3>1. PICK q \in {3, 6, 9, 12} : q = QuarterEnd
        BY <2>5
      <3>2. DaysBefore(y, q + 1) - DaysBefore(y, m) >= MonthLength(y, m) + 30
        BY <2>5, <2>7, <3>1 DEF DaysBefore, MonthLength, Years
      <3>3. DaysBefore(y, q + 1) \in 0..366 /\ DaysBefore(y, m) \in 0..366
        BY DEF DaysBefore, Years
      <3>4. DaysLeft(q) = DaysBefore(y, q + 1) - (DaysBefore(y, m) + day - 1)
        BY <2>2, <3>1
      <3>5. \A after, before \in 0..366, lasts \in 28..31, d \in Int :
              d \in 1..lasts /\ after - before >= lasts + 30
              => after - (before + d - 1) \in Int /\ after - (before + d - 1) > 30
        OBVIOUS
      <3>6. DaysBefore(y, q + 1) - (DaysBefore(y, m) + day - 1) \in Int
            /\ DaysBefore(y, q + 1) - (DaysBefore(y, m) + day - 1) > 30
        BY <2>1, <2>3, <3>2, <3>3, <3>5
      <3>7. DaysLeft(q) \in Int /\ DaysLeft(q) > 30
        BY <3>4, <3>6
      <3>8. ~ (DaysLeft(QuarterEnd) <= n)
        BY <3>1, <3>7
      <3>9. ~ _is_near_quarter_end(n)
        BY <2>1, <2>7 DEF _is_near_quarter_end
      <3> QED BY <2>4, <3>8, <3>9
    <2> QED BY <2>4, <2>6, <2>7
  <1> QED BY <1>1, RuleTypes, PTL

-----------------------------------------------------------------------------
(* The verdict of the rules *)

\* A rule that says the same, on the same day and of the same deployment, goes
\* on to match or not to.
LEMMA SameMatch ==
  ASSUME NEW q, q \in DOMAIN rules, q \in DOMAIN rules', rules'[q] = rules[q],
         today' = today, target' = target
  PROVE  q \in Matches' <=> q \in Matches
  BY DEF Matches, _matches_scope, _matches_condition, _is_near_month_end,
         _is_near_quarter_end, DaysUntilMonthEnd, _matches_day_of_week, Weekday, Ordinal

Blocking == \E r \in Matches : rules[r].action_type = "block"
Warning == \E r \in Matches : rules[r].action_type \in Warnings

LEMMA VerdictIs ==
  Severity[evaluate_deployment] = IF Blocking THEN 2 ELSE IF Warning THEN 1 ELSE 0
  BY DEF evaluate_deployment, _determine_verdict, Blocking, Warning, Severity

LEMMA VerdictWillBe ==
  Severity[evaluate_deployment'] = IF Blocking' THEN 2 ELSE IF Warning' THEN 1 ELSE 0
  BY DEF evaluate_deployment, _determine_verdict, Blocking, Warning, Severity

\* Another rule makes no verdict milder, and one less makes none stricter.
THEOREM RulesRestrict == RuleSpec => RulesOnlyRestrict
  <1> DEFINE Restricts ==
        today' = today /\ DOMAIN rules # DOMAIN rules'
        => IF DOMAIN rules \subseteq DOMAIN rules'
           THEN Severity[evaluate_deployment] <= Severity[evaluate_deployment']
           ELSE Severity[evaluate_deployment] >= Severity[evaluate_deployment']
  <1>1. [RuleNext]_ruleVars => [Restricts]_ruleVars
    <2> SUFFICES ASSUME RuleNext PROVE Restricts
      OBVIOUS
    <2>1. ASSUME NEW r \in Rules, create_rule(r)
          PROVE  Restricts
      <3>1. /\ today' = today /\ target' = target
            /\ r \notin DOMAIN rules /\ DOMAIN rules' = DOMAIN rules \cup {r}
            /\ \A q \in DOMAIN rules : rules'[q] = rules[q]
        BY <2>1 DEF create_rule
      <3>2. \A q \in Matches : q \in Matches' /\ rules'[q] = rules[q]
        BY <3>1, SameMatch DEF Matches
      <3>3. (Blocking => Blocking') /\ (Warning => Warning')
        BY <3>2 DEF Blocking, Warning
      <3> QED BY <3>1, <3>3, VerdictIs, VerdictWillBe
    <2>2. ASSUME NEW r \in Rules, update_rule(r)
          PROVE  Restricts
      BY <2>2 DEF update_rule
    <2>3. ASSUME NEW r \in Rules, delete_rule(r)
          PROVE  Restricts
      <3>1. /\ today' = today /\ target' = target
            /\ r \in DOMAIN rules /\ DOMAIN rules' = DOMAIN rules \ {r}
            /\ \A q \in DOMAIN rules' : rules'[q] = rules[q]
        BY <2>3 DEF delete_rule
      <3>2. \A q \in Matches' : q \in Matches /\ rules'[q] = rules[q]
        <4>1. \A q \in Matches' : q \in DOMAIN rules'
          BY DEF Matches
        <4> QED BY <3>1, <4>1, SameMatch
      <3>3. (Blocking' => Blocking) /\ (Warning' => Warning)
        BY <3>2 DEF Blocking, Warning
      <3> QED BY <3>1, <3>3, VerdictIs, VerdictWillBe
    <2>4. CASE TimePasses
      BY <2>4 DEF TimePasses
    <2> QED BY <2>1, <2>2, <2>3, <2>4 DEF RuleNext
  <1> QED BY <1>1, PTL DEF RuleSpec, RulesOnlyRestrict

-----------------------------------------------------------------------------
(* Goals *)

Marks == [GoalUpdate -> {"seeded", "seeded inactive", "requested"}]

\* A row has its attributes: an update assigns some of them and leaves the
\* others as they were.
GInv == \A g \in DOMAIN goals : \E row \in Marks : row = goals[g]

\* Which requests raise follows from the attributes of the class.
LEMMA WhatRaises == ~ Assignable(GoalCreate) /\ ~ Metrics
  <1>1. "type" \in GoalCreate /\ "type" \notin Columns
    BY DEF GoalCreate, Columns
  <1>2. "asset_filters" \notin Columns \cup Properties
    BY DEF Columns, Properties
  <1> QED BY <1>1, <1>2 DEF Assignable, Metrics, Readable

LEMMA GoalsStart == GoalsInit => GInv
  <1> SUFFICES ASSUME GoalsInit PROVE GInv
    OBVIOUS
  <1>1. \A active \in BOOLEAN : Seeded(active) \in Marks
    BY DEF Seeded, Marks
  <1>2. \A g \in DOMAIN goals : goals[g] \in {Seeded(TRUE), Seeded(FALSE)}
    BY DEF GoalsInit
  <1> QED BY <1>1, <1>2 DEF GInv

LEMMA GoalStep == GInv /\ [GoalsNext]_goalVars => GInv'
  <1> SUFFICES ASSUME GInv, [GoalsNext]_goalVars PROVE GInv'
    OBVIOUS
  <1>1. ASSUME goals' = goals
        PROVE  GInv'
    BY <1>1 DEF GInv
  <1>2. ASSUME NEW g \in DOMAIN goals, NEW fields \in SUBSET GoalUpdate,
               update_goal(g, fields), Assignable(fields)
        PROVE  GInv'
    <2>1. PICK row \in Marks : row = goals[g]
      BY DEF GInv
    <2>2. PICK new : new = [a \in GoalUpdate |-> IF a \in fields THEN "requested" ELSE row[a]]
      OBVIOUS
    <2>3. goals' = [goals EXCEPT ![g] = new]
      BY <1>2, <2>1, <2>2 DEF update_goal
    <2>4. new \in Marks
      BY <2>1, <2>2 DEF Marks
    <2>5. DOMAIN goals' = DOMAIN goals /\ goals'[g] = new
          /\ \A h \in DOMAIN goals : h # g => goals'[h] = goals[h]
      BY <2>3
    <2> QED BY <2>4, <2>5 DEF GInv
  <1>3. CASE UNCHANGED goalVars
    BY <1>1, <1>3 DEF goalVars
  <1>4. CASE GoalsNext
    <2>1. CASE \E g \in GoalIds : create_goal(g)
      BY <1>1, <2>1, WhatRaises DEF create_goal
    <2>2. ASSUME NEW g \in DOMAIN goals, NEW fields \in SUBSET GoalUpdate,
                 update_goal(g, fields)
          PROVE  GInv'
      BY <1>1, <1>2, <2>2 DEF update_goal
    <2>3. CASE \E g \in DOMAIN goals :
                 \/ \E forced, preview \in BOOLEAN : optimize_goal(g, forced, preview)
                 \/ recommend_plans(g) \/ delete_goal(g)
      BY <1>1, <2>3 DEF optimize_goal, recommend_plans, delete_goal
    <2> QED BY <1>4, <2>1, <2>2, <2>3 DEF GoalsNext
  <1> QED BY <1>3, <1>4

\* What is kept of goals besides their rows.
AboutGoals ==
  /\ DOMAIN goals \subseteq GoalIds /\ recent \subseteq GoalIds
  /\ planned \subseteq GoalIds /\ asked \subseteq GoalIds
  /\ requests \in 0..MaxGoalRequests

LEMMA AboutGoalsStep ==
  ASSUME GInv, AboutGoals, [GoalsNext]_goalVars
  PROVE  AboutGoals'
  <1>1. requests \in 0..MaxGoalRequests /\ MaxGoalRequests \in Nat
    BY GoalAssumption DEF AboutGoals
  <1>2. Request => requests' \in 0..MaxGoalRequests
    BY <1>1 DEF Request
  <1>3. ASSUME NEW g \in GoalIds, create_goal(g)
        PROVE  AboutGoals'
    <2>1. /\ goals' = goals /\ planned' = planned /\ recent' = recent
          /\ asked' = asked \cup {g} /\ Request
      BY <1>3, WhatRaises DEF create_goal
    <2> QED BY <1>2, <2>1 DEF AboutGoals
  <1>4. ASSUME NEW g \in DOMAIN goals, NEW fields, update_goal(g, fields)
        PROVE  AboutGoals'
    <2>1. /\ DOMAIN goals' = DOMAIN goals /\ planned' = planned /\ recent' = recent
          /\ asked' = asked /\ Request
      BY <1>4 DEF update_goal
    <2> QED BY <1>2, <2>1 DEF AboutGoals
  <1>5. ASSUME NEW g, NEW forced, NEW preview,
               optimize_goal(g, forced, preview) \/ recommend_plans(g) \/ delete_goal(g)
        PROVE  AboutGoals'
    <2>1. goals' = goals /\ planned' = planned /\ recent' = recent /\ asked' = asked /\ Request
      BY <1>5, WhatRaises DEF optimize_goal, recommend_plans, delete_goal
    <2> QED BY <1>2, <2>1 DEF AboutGoals
  <1>6. CASE UNCHANGED goalVars
    <2>1. /\ goals' = goals /\ planned' = planned /\ recent' = recent /\ asked' = asked
          /\ requests' = requests
      BY <1>6 DEF goalVars
    <2> QED BY <2>1 DEF AboutGoals
  <1> QED BY <1>3, <1>4, <1>5, <1>6 DEF GoalsNext

\* What is stored stays a table of goals.
LEMMA GoalsTyped == GoalsSpec => []GoalsTypeOK
  <1>1. GoalsInit => AboutGoals
    <2> SUFFICES ASSUME GoalsInit PROVE AboutGoals
      OBVIOUS
    <2>1. /\ DOMAIN goals \subseteq GoalIds /\ recent \subseteq GoalIds
          /\ planned = {} /\ asked = {} /\ requests = 0
      BY DEF GoalsInit
    <2>2. 0 \in 0..MaxGoalRequests
      BY GoalAssumption
    <2> QED BY <2>1, <2>2 DEF AboutGoals
  <1>2. GInv /\ AboutGoals => GoalsTypeOK
    <2>1. GInv => \A g \in DOMAIN goals :
            goals[g] \in [GoalUpdate -> {"seeded", "seeded inactive", "requested"}]
      BY DEF GInv, Marks
    <2> QED BY <2>1 DEF AboutGoals, GoalsTypeOK
  <1> QED BY <1>1, <1>2, GoalsStart, GoalStep, AboutGoalsStep, PTL DEF GoalsSpec

-----------------------------------------------------------------------------
(* Maintenance windows *)

\* When requests do not overlap, the only one under way still sees what bundles
\* are in which window; that a window has started since, it need not see.
WInv ==
  /\ calendar \in Calendar
  /\ \A s \in DOMAIN seen : seen[s] \in Calendar
  /\ isolated => /\ \A s, t \in DOMAIN seen : s = t
                 /\ \A s \in DOMAIN seen : /\ seen[s].at = calendar.at
                                           /\ seen[s].status = calendar.status

LEMMA CalendarFields ==
  ASSUME NEW c \in Calendar
  PROVE  /\ c.phase \in [Windows -> Phases]
         /\ c.status \in [Bundles -> BundleStatuses]
         /\ c.at \in [Bundles -> Windows \cup {NoWindow}]
         /\ c = [phase |-> c.phase, status |-> c.status, at |-> c.at]
  BY DEF Calendar

\* A request that ends leaves nobody behind with what it has changed.
LEMMA WindowCommit ==
  ASSUME WInv, NEW s, EndOf(s), calendar' \in Calendar
  PROVE  WInv'
  <1>1. isolated' = isolated /\ s \in DOMAIN seen /\ DOMAIN seen' = DOMAIN seen \ {s}
        /\ \A t \in DOMAIN seen' : seen'[t] = seen[t]
    BY DEF EndOf, UnderWay
  <1>2. isolated => DOMAIN seen' = {}
    BY <1>1 DEF WInv
  <1> QED BY <1>1, <1>2 DEF WInv

\* What the one writes that a bundle's row is written by: its columns stay of
\* their types, and no window's phase changes.
LEMMA BundleWritten ==
  ASSUME WInv, NEW s \in DOMAIN seen, NEW b \in Bundles, NEW status \in BundleStatuses,
         NEW w \in Windows \cup {NoWindow}, WriteBundle(s, b, status, w)
  PROVE  calendar' \in Calendar /\ calendar'.phase = calendar.phase
  <1>1. PICK c \in Calendar : c = calendar
    BY DEF WInv
  <1>2. PICK old : old = seen[s]
    OBVIOUS
  <1>3. PICK st : st = Put(old.status[b], status, c.status[b])
    OBVIOUS
  <1>4. PICK at : at = Put(old.at[b], w, c.at[b])
    OBVIOUS
  <1>5. /\ c.phase \in [Windows -> Phases]
        /\ c.status \in [Bundles -> BundleStatuses]
        /\ c.at \in [Bundles -> Windows \cup {NoWindow}]
    BY CalendarFields
  <1>6. st \in BundleStatuses /\ at \in Windows \cup {NoWindow}
    BY <1>3, <1>4, <1>5 DEF Put
  <1>7. calendar' = [c EXCEPT !.status[b] = st, !.at[b] = at]
    BY <1>1, <1>2, <1>3, <1>4 DEF WriteBundle, Calendar
  <1>8. calendar' = [phase |-> c.phase, status |-> [c.status EXCEPT ![b] = st],
                     at |-> [c.at EXCEPT ![b] = at]]
    BY <1>7 DEF Calendar
  <1> QED BY <1>1, <1>5, <1>6, <1>8 DEF Calendar

\* Handlers that write the row of a bundle.
LEMMA BundleHandlers ==
  ASSUME WInv, NEW s,
         assign_bundle_to_window(s) \/ unassign(s) \/ update_bundle(s) \/ update_bundle_status(s)
  PROVE  EndOf(s) /\ calendar' \in Calendar /\ calendar'.phase = calendar.phase
  <1>1. EndOf(s) /\ s \in DOMAIN seen
    BY DEF assign_bundle_to_window, unassign, update_bundle, update_bundle_status, EndOf, UnderWay
  <1>2. PICK old \in Calendar : old = seen[s]
    BY <1>1 DEF WInv
  <1>3. old.status \in [Bundles -> BundleStatuses] /\ old.at \in [Bundles -> Windows \cup {NoWindow}]
    BY CalendarFields
  <1>4. {"draft", "scheduled", "approved"} \subseteq BundleStatuses
    BY DEF BundleStatuses
  <1>5. \E b \in Bundles, status \in BundleStatuses, w \in Windows \cup {NoWindow} :
          WriteBundle(s, b, status, w)
    <2>1. CASE assign_bundle_to_window(s)
      BY <2>1, <1>4 DEF assign_bundle_to_window, Existing
    <2>2. CASE unassign(s)
      BY <2>2, <1>2, <1>3, <1>4 DEF unassign
    <2>3. CASE update_bundle(s)
      BY <2>3, <1>2, <1>3, <1>4 DEF update_bundle, Existing
    <2>4. CASE update_bundle_status(s)
      BY <2>4, <1>2, <1>3, <1>4 DEF update_bundle_status
    <2> QED BY <2>1, <2>2, <2>3, <2>4
  <1> QED BY <1>1, <1>5, BundleWritten

\* A handler that makes windows deletes none.
LEMMA WindowsMade ==
  ASSUME WInv, NEW s, create_maintenance_window(s) \/ create_recurring_windows(s)
  PROVE  /\ EndOf(s) /\ calendar' \in Calendar
         /\ \A w \in Windows : calendar'.phase[w] = "deleted" => calendar.phase[w] = "deleted"
  <1>1. PICK c \in Calendar : c = calendar
    BY DEF WInv
  <1>2. /\ c.phase \in [Windows -> Phases]
        /\ c = [phase |-> c.phase, status |-> c.status, at |-> c.at]
        /\ c.status \in [Bundles -> BundleStatuses]
        /\ c.at \in [Bundles -> Windows \cup {NoWindow}]
    BY CalendarFields
  <1>3. EndOf(s)
    BY DEF create_maintenance_window, create_recurring_windows
  <1>4. \E f \in [Windows -> Phases] :
          /\ calendar' = [c EXCEPT !.phase = f]
          /\ \A w \in Windows : f[w] = "deleted" => c.phase[w] = "deleted"
    <2>1. CASE create_maintenance_window(s)
      <3>1. PICK w \in Windows, p \in {"future", "started"} :
              calendar' = [c EXCEPT !.phase[w] = p]
        BY <2>1, <1>1 DEF create_maintenance_window
      <3>2. PICK f : f = [c.phase EXCEPT ![w] = p]
        OBVIOUS
      <3>3. calendar' = [c EXCEPT !.phase = f]
        BY <3>1, <3>2
      <3>4. f \in [Windows -> Phases]
            /\ \A v \in Windows : f[v] = "deleted" => c.phase[v] = "deleted"
        BY <3>2, <1>2 DEF Phases
      <3> QED BY <3>3, <3>4
    <2>2. CASE create_recurring_windows(s)
      <3>1. PICK W \in SUBSET Windows :
              calendar' = [calendar EXCEPT !.phase =
                             [w \in Windows |-> IF w \in W THEN "future" ELSE @[w]]]
        BY <2>2 DEF create_recurring_windows
      <3>2. PICK f : f = [w \in Windows |-> IF w \in W THEN "future" ELSE c.phase[w]]
        OBVIOUS
      <3>3. calendar' = [c EXCEPT !.phase = f]
        BY <3>1, <3>2, <1>1
      <3>4. f \in [Windows -> Phases]
            /\ \A v \in Windows : f[v] = "deleted" => c.phase[v] = "deleted"
        BY <3>2, <1>2 DEF Phases
      <3> QED BY <3>3, <3>4
    <2> QED BY <2>1, <2>2
  <1>5. PICK f \in [Windows -> Phases] :
          /\ calendar' = [c EXCEPT !.phase = f]
          /\ \A w \in Windows : f[w] = "deleted" => c.phase[w] = "deleted"
    BY <1>4
  <1>6. calendar' = [phase |-> f, status |-> c.status, at |-> c.at]
    BY <1>2, <1>5
  <1> QED BY <1>1, <1>2, <1>3, <1>5, <1>6 DEF Calendar

\* The deletion of a window: which row goes, and which bundles it takes along.
LEMMA WindowDeleted ==
  ASSUME WInv, NEW s, delete_maintenance_window(s)
  PROVE  \E w \in Windows :
           /\ EndOf(s) /\ calendar' \in Calendar
           /\ calendar'.phase = [calendar.phase EXCEPT ![w] = "deleted"]
           /\ \A b \in Bundles :
                calendar'.at[b] # calendar.at[b]
                => /\ seen[s].at[b] = w
                   /\ seen[s].status[b] \notin {"scheduled", "approved"}
  <1>1. PICK c \in Calendar : c = calendar
    BY DEF WInv
  <1>2. /\ c.phase \in [Windows -> Phases]
        /\ c = [phase |-> c.phase, status |-> c.status, at |-> c.at]
        /\ c.status \in [Bundles -> BundleStatuses]
        /\ c.at \in [Bundles -> Windows \cup {NoWindow}]
    BY CalendarFields
  <1>31. PICK w \in Windows :
          /\ DeletableWindow(seen[s], w)
          /\ calendar' = [calendar EXCEPT
               !.phase[w] = "deleted",
               !.at = [b \in Bundles |-> IF b \in InWindow(seen[s], w) THEN NoWindow ELSE @[b]]]
    BY DEF delete_maintenance_window, Existing
  <1>32. PICK loaded : loaded = InWindow(seen[s], w)
    OBVIOUS
  <1>3. /\ loaded = InWindow(seen[s], w) /\ DeletableWindow(seen[s], w)
        /\ calendar' = [c EXCEPT
             !.phase[w] = "deleted",
             !.at = [b \in Bundles |-> IF b \in loaded THEN NoWindow ELSE @[b]]]
    BY <1>1, <1>31, <1>32
  <1>4. PICK at : at = [b \in Bundles |-> IF b \in loaded THEN NoWindow ELSE c.at[b]]
    OBVIOUS
  <1>5. PICK phases : phases = [c.phase EXCEPT ![w] = "deleted"]
    OBVIOUS
  <1>6. calendar' = [c EXCEPT !.phase = phases, !.at = at]
    BY <1>1, <1>2, <1>3, <1>4, <1>5
  <1>7. calendar' = [phase |-> phases, status |-> c.status, at |-> at]
    BY <1>2, <1>6
  <1>8. phases \in [Windows -> Phases] /\ at \in [Bundles -> Windows \cup {NoWindow}]
    BY <1>2, <1>4, <1>5 DEF Phases
  <1>9. calendar' \in Calendar /\ calendar'.phase = phases /\ calendar'.at = at
    <2>1. calendar' \in Calendar
      BY <1>2, <1>7, <1>8 DEF Calendar
    <2> QED BY <1>7, <2>1
  <1>10. \A b \in Bundles :
           at[b] # c.at[b] => /\ seen[s].at[b] = w
                              /\ seen[s].status[b] \notin {"scheduled", "approved"}
    BY <1>3, <1>4 DEF InWindow, DeletableWindow
  <1>11. EndOf(s)
    BY DEF delete_maintenance_window
  <1> QED BY <1>1, <1>5, <1>9, <1>10, <1>11

LEMMA TimeStarts ==
  ASSUME WInv, NEW w \in Windows, StartTime(w)
  PROVE  /\ WInv'
         /\ \A v \in Windows : calendar'.phase[v] = "deleted" => calendar.phase[v] = "deleted"
  <1>1. PICK c \in Calendar : c = calendar
    BY DEF WInv
  <1>2. /\ c.phase \in [Windows -> Phases]
        /\ c = [phase |-> c.phase, status |-> c.status, at |-> c.at]
        /\ c.status \in [Bundles -> BundleStatuses]
        /\ c.at \in [Bundles -> Windows \cup {NoWindow}]
    BY CalendarFields
  <1>3. PICK f : f = [c.phase EXCEPT ![w] = "started"]
    OBVIOUS
  <1>4. calendar' = [phase |-> f, status |-> c.status, at |-> c.at]
    BY <1>1, <1>2, <1>3 DEF StartTime
  <1>5. f \in [Windows -> Phases] /\ \A v \in Windows : f[v] = "deleted" => c.phase[v] = "deleted"
    BY <1>2, <1>3 DEF Phases
  <1>6. seen' = seen /\ isolated' = isolated
    BY DEF StartTime, requestVars
  <1>7. calendar' \in Calendar /\ calendar'.phase = f
        /\ calendar'.at = calendar.at /\ calendar'.status = calendar.status
    BY <1>1, <1>2, <1>4, <1>5 DEF Calendar
  <1> QED BY <1>1, <1>5, <1>6, <1>7 DEF WInv

LEMMA WindowStep == WInv /\ [WindowNext]_<<windowVars, requestVars>> => WInv'
  <1> SUFFICES ASSUME WInv, [WindowNext]_<<windowVars, requestVars>> PROVE WInv'
    OBVIOUS
  <1>1. ASSUME NEW s \in Sessions, Read(s)
        PROVE  WInv'
    <2>1. /\ calendar' = calendar /\ isolated' = isolated
          /\ isolated => DOMAIN seen = {}
          /\ DOMAIN seen' = DOMAIN seen \cup {s} /\ seen'[s] = calendar
          /\ \A t \in DOMAIN seen : t # s => seen'[t] = seen[t]
      BY <1>1 DEF Read, ReadBy, UnderWay, windowVars
    <2> QED BY <2>1 DEF WInv
  <1>2. ASSUME NEW s \in Sessions, Refused(s)
        PROVE  WInv'
    <2>1. EndOf(s) /\ calendar' = calendar /\ calendar \in Calendar
      BY <1>2 DEF Refused, windowVars, WInv
    <2> QED BY <2>1, WindowCommit
  <1>3. ASSUME NEW s \in Sessions, WindowHandler(s)
        PROVE  WInv'
    BY <1>1, <1>2, <1>3, WindowsMade, WindowDeleted, BundleHandlers, WindowCommit DEF WindowHandler
  <1>4. CASE UNCHANGED <<windowVars, requestVars>>
    BY <1>4 DEF windowVars, requestVars, WInv
  <1> QED BY <1>3, <1>4, TimeStarts DEF WindowNext

LEMMA WindowStart == WindowInit => WInv
  <1> SUFFICES ASSUME WindowInit PROVE WInv
    OBVIOUS
  <1>1. DOMAIN seen = {}
    BY DEF WindowInit, RequestsInit
  <1>2. calendar \in Calendar
    BY DEF WindowInit, Calendar, Phases, BundleStatuses
  <1> QED BY <1>1, <1>2 DEF WInv

\* A window that is deleted by the only request under way takes no scheduled or
\* approved bundle with it.
THEOREM DeletionsSpare == WindowSpec => DeletionSparesScheduled
  <1> DEFINE Spares ==
        \A w \in Windows :
          isolated /\ calendar.phase[w] # "deleted" /\ calendar'.phase[w] = "deleted"
          => \A b \in Bundles : calendar.status[b] \in {"scheduled", "approved"}
                                => calendar'.at[b] = calendar.at[b]
  <1>1. WInv /\ [WindowNext]_<<windowVars, requestVars>> => [Spares]_<<windowVars, requestVars>>
    <2> SUFFICES ASSUME WInv, WindowNext PROVE Spares
      OBVIOUS
    <2>1. ASSUME NEW s \in Sessions, delete_maintenance_window(s)
          PROVE  Spares
      <3> SUFFICES ASSUME isolated, NEW b \in Bundles,
                          calendar.status[b] \in {"scheduled", "approved"}
                   PROVE  calendar'.at[b] = calendar.at[b]
        OBVIOUS
      <3>1. s \in DOMAIN seen
        BY <2>1 DEF delete_maintenance_window, EndOf, UnderWay
      <3>2. seen[s].at = calendar.at /\ seen[s].status = calendar.status
        BY <3>1 DEF WInv
      <3>3. calendar'.at[b] = calendar.at[b] \/ seen[s].status[b] \notin {"scheduled", "approved"}
        BY <2>1, WindowDeleted
      <3> QED BY <3>2, <3>3
    <2>2. ASSUME NEW s \in Sessions,
                 assign_bundle_to_window(s) \/ unassign(s) \/ update_bundle(s)
                 \/ update_bundle_status(s)
          PROVE  Spares
      BY <2>2, BundleHandlers
    <2>3. ASSUME NEW s \in Sessions, create_maintenance_window(s) \/ create_recurring_windows(s)
          PROVE  Spares
      BY <2>3, WindowsMade
    <2>4. ASSUME NEW s \in Sessions, Read(s) \/ Refused(s)
          PROVE  Spares
      BY <2>4 DEF Read, Refused, windowVars
    <2>5. ASSUME NEW w \in Windows, StartTime(w)
          PROVE  Spares
      BY <2>5, TimeStarts
    <2> QED BY <2>1, <2>2, <2>3, <2>4, <2>5 DEF WindowNext, WindowHandler
  <1> QED BY <1>1, WindowStart, WindowStep, PTL DEF WindowSpec, DeletionSparesScheduled

-----------------------------------------------------------------------------
(* How much is in a window *)

\* The minutes of some bundles, each by itself: counting them is summing up.
Taken(S) == {p \in S \X Nat : p[2] \in 1..Minutes[p[1]]}

\* What the recursive function of MapThenFoldSet satisfies, over the subsets of S.
Sums(g, S) ==
  g = [s \in SUBSET S |->
         IF s = {} THEN 0
         ELSE Minutes[CHOOSE b \in s : TRUE] + g[s \ {CHOOSE b \in s : TRUE}]]

\* The minutes of one bundle are as many as it takes.
LEMMA OneTaken ==
  ASSUME NEW b \in Bundles
  PROVE  IsFiniteSet(Taken({b})) /\ Cardinality(Taken({b})) = Minutes[b]
  <1>1. Minutes[b] \in Nat  BY WindowAssumption
  <1>2. IsFiniteSet(1..Minutes[b]) /\ Cardinality(1..Minutes[b]) = Minutes[b]
    BY <1>1, FS_Interval
  <1>3. PICK f : f = [m \in 1..Minutes[b] |-> <<b, m>>]
    OBVIOUS
  <1>4. f \in Bijection(1..Minutes[b], Taken({b}))
    <2>1. \A m \in 1..Minutes[b] : <<b, m>> \in Taken({b})
      BY <1>1 DEF Taken
    <2>2. \A p \in Taken({b}) : p[2] \in 1..Minutes[b] /\ p = <<b, p[2]>>
      BY DEF Taken
    <2> QED BY <1>3, <2>1, <2>2 DEF Bijection, Injection, Surjection, IsInjective
  <1> QED BY <1>2, <1>4, FS_Bijection DEF ExistsBijection

\* They are finitely many, and so can be counted.
LEMMA TakenFinite ==
  ASSUME NEW S \in SUBSET Bundles
  PROVE  IsFiniteSet(S) /\ IsFiniteSet(Taken(S)) /\ Cardinality(Taken(S)) \in Nat
  <1>1. IsFiniteSet(S)  BY FS_Subset, WindowAssumption
  <1>2. PICK parts : parts = {Taken({b}) : b \in S}
    OBVIOUS
  <1>3. PICK f : f = [b \in S |-> Taken({b})]
    OBVIOUS
  <1>4. f \in Surjection(S, parts)
    BY <1>2, <1>3 DEF Surjection
  <1>5. IsFiniteSet(parts)  BY <1>1, <1>4, FS_Surjection
  <1>6. \A T \in parts : IsFiniteSet(T)  BY <1>2, OneTaken
  <1>7. IsFiniteSet(UNION parts)  BY <1>5, <1>6, FS_UNION
  <1>8. Taken(S) \in SUBSET UNION parts
    <2>1. ASSUME NEW p \in Taken(S)
          PROVE  \E b \in S : p \in Taken({b})
      BY <2>1 DEF Taken
    <2> QED BY <1>2, <2>1
  <1>9. IsFiniteSet(Taken(S))  BY <1>7, <1>8, FS_Subset
  <1> QED BY <1>1, <1>9, FS_CardinalityType

\* A further bundle adds its own.
LEMMA TakenAdds ==
  ASSUME NEW S \in SUBSET Bundles, NEW b \in Bundles \ S
  PROVE  Cardinality(Taken(S \cup {b})) = Cardinality(Taken(S)) + Minutes[b]
  <1>1. Taken(S \cup {b}) = Taken(S) \cup Taken({b}) /\ Taken(S) \cap Taken({b}) = {}
    BY DEF Taken
  <1>2. Cardinality(Taken(S) \cap Taken({b})) = 0
    BY <1>1, FS_EmptySet
  <1>3. Minutes[b] \in Nat /\ Cardinality(Taken(S)) \in Nat
    BY TakenFinite, WindowAssumption
  <1>4. IsFiniteSet(Taken(S)) /\ IsFiniteSet(Taken({b})) /\ Cardinality(Taken({b})) = Minutes[b]
    BY OneTaken, TakenFinite
  <1>5. Cardinality(Taken(S) \cup Taken({b}))
          = Cardinality(Taken(S)) + Cardinality(Taken({b})) - Cardinality(Taken(S) \cap Taken({b}))
    BY <1>4, FS_Union
  <1>6. \A m, n \in Nat : m + n - 0 = m + n
    OBVIOUS
  <1> QED BY <1>1, <1>2, <1>3, <1>4, <1>5, <1>6

\* The sum that the code takes is that count: the function above satisfies Sums,
\* and a function that does has no smallest set on which it differs from the count.
LEMMA LoadCounts ==
  ASSUME NEW S \in SUBSET Bundles
  PROVE  Load(S) = Cardinality(Taken(S))
  <1> DEFINE First(s) == CHOOSE b \in s : TRUE
             Count(s) == Cardinality(Taken(s))
  <1>1. PICK known : known = [s \in SUBSET S |-> Count(s)]
    OBVIOUS
  <1>2. Count({}) = 0
    <2>1. Taken({}) = {}  BY DEF Taken
    <2> QED BY <2>1, FS_EmptySet
  <1>3. ASSUME NEW s \in SUBSET S, s # {}
        PROVE  /\ First(s) \in s /\ s \ {First(s)} \in SUBSET S
               /\ Count(s) = Minutes[First(s)] + Count(s \ {First(s)})
    <2>1. PICK b \in s : b = First(s)
      BY <1>3
    <2>2. Count((s \ {b}) \cup {b}) = Count(s \ {b}) + Minutes[b]
      BY TakenAdds
    <2>3. (s \ {b}) \cup {b} = s  OBVIOUS
    <2>4. Count(s \ {b}) \in Nat /\ Minutes[b] \in Nat
      BY TakenFinite, WindowAssumption
    <2> HIDE DEF First, Count
    <2>5. Count(s) = Minutes[b] + Count(s \ {b})
      BY <2>2, <2>3, <2>4
    <2> QED BY <2>1, <2>5
  <1> HIDE DEF Count
  <1>4. Sums(known, S)
    BY <1>1, <1>2, <1>3 DEF Sums
  <1>5. Load(S) = (CHOOSE g : Sums(g, S))[S]
    BY DEF Load, MapThenSumSet, MapThenFoldSet, Sums
  <1>6. PICK sums : sums = CHOOSE g : Sums(g, S)
    OBVIOUS
  <1>7. Sums(sums, S)  BY <1>4, <1>6
  <1>8. ASSUME NEW wrong, wrong = {s \in SUBSET S : sums[s] # Count(s)}, wrong # {}
        PROVE  FALSE
    <2>1. IsWellFoundedOn(StrictSubsetOrdering(S), FiniteSubsetsOf(S))
      BY FS_StrictSubsetOrderingWellFounded
    <2>2. wrong \subseteq FiniteSubsetsOf(S)
      BY <1>8, TakenFinite DEF FiniteSubsetsOf
    <2>3. PICK s \in wrong : \A r \in wrong : <<r, s>> \notin StrictSubsetOrdering(S)
      BY <1>8, <2>1, <2>2, WFMin
    <2>4. s \in SUBSET S /\ sums[s] # Count(s)  BY <1>8
    <2>5. s # {}  BY <1>2, <1>7, <2>4 DEF Sums
    <2>6. First(s) \in s /\ s \ {First(s)} \in SUBSET S
          /\ Count(s) = Minutes[First(s)] + Count(s \ {First(s)})
      BY <1>3, <2>4, <2>5
    <2>7. <<s \ {First(s)}, s>> \in StrictSubsetOrdering(S)
      BY <2>4, <2>6 DEF StrictSubsetOrdering
    <2>8. sums[s \ {First(s)}] = Count(s \ {First(s)})
      BY <1>8, <2>3, <2>6, <2>7
    <2>9. sums[s] = Minutes[First(s)] + sums[s \ {First(s)}]
      BY <1>7, <2>4, <2>5 DEF Sums
    <2> QED BY <2>4, <2>6, <2>8, <2>9
  <1>9. sums[S] = Count(S)  BY <1>8
  <1> QED BY <1>5, <1>6, <1>9 DEF Count

\* Nothing takes no time.
LEMMA LoadOfNone == Load({}) = 0
  <1>1. Taken({}) = {}  BY DEF Taken
  <1> QED BY <1>1, LoadCounts, FS_EmptySet

\* One bundle more takes at most its own time.
LEMMA LoadAdds ==
  ASSUME NEW S \in SUBSET Bundles, NEW b \in Bundles
  PROVE  /\ Load(S) \in Nat
         /\ Load(S \cup {b}) <= Load(S) + Minutes[b]
         /\ b \notin S => Load(S \cup {b}) = Load(S) + Minutes[b]
  <1>1. Load(S) = Cardinality(Taken(S)) /\ Load(S) \in Nat /\ Minutes[b] \in Nat
    BY LoadCounts, TakenFinite, WindowAssumption
  <1>2. CASE b \in S
    <2>1. S \cup {b} = S  BY <1>2
    <2>2. Load(S \cup {b}) = Load(S)  BY <2>1
    <2>3. \A m, n \in Nat : m <= m + n
      OBVIOUS
    <2> QED BY <1>1, <1>2, <2>2, <2>3
  <1>3. CASE b \notin S
    <2>1. S \cup {b} \in SUBSET Bundles /\ Load(S \cup {b}) = Cardinality(Taken(S \cup {b}))
      BY LoadCounts
    <2> QED BY <1>1, <1>3, <2>1, TakenAdds
  <1> QED BY <1>2, <1>3

\* Fewer bundles take no longer.
LEMMA LoadGrows ==
  ASSUME NEW S \in SUBSET Bundles, NEW T \in SUBSET S
  PROVE  Load(T) <= Load(S)
  <1>1. Taken(T) \in SUBSET Taken(S)  BY DEF Taken
  <1> QED BY <1>1, LoadCounts, TakenFinite, FS_Subset

\* The longest bundle is one of them.
LEMMA LongestIs ==
  /\ LongestBundle \in Nat
  /\ \A b \in Bundles : Minutes[b] <= LongestBundle
  <1>1. PICK lengths : lengths = {Minutes[b] : b \in Bundles}
    OBVIOUS
  <1> DEFINE Upper(b) == {c \in Bundles : Minutes[c] > Minutes[b]}
  <1>2. \E b \in Bundles : Upper(b) = {}
    <2> SUFFICES ASSUME \A b \in Bundles : Upper(b) # {} PROVE FALSE
      OBVIOUS
    <2>1. PICK uppers : uppers = {Upper(b) : b \in Bundles}
      OBVIOUS
    <2>2. uppers # {}
      <3>1. PICK b : b \in Bundles
        BY WindowAssumption
      <3>2. Upper(b) \in {Upper(c) : c \in Bundles}
        BY <3>1
      <3> HIDE DEF Upper
      <3> QED BY <2>1, <3>2
    <2>3. IsWellFoundedOn(StrictSubsetOrdering(Bundles), FiniteSubsetsOf(Bundles))
      BY FS_StrictSubsetOrderingWellFounded
    <2>4. uppers \subseteq FiniteSubsetsOf(Bundles)
      BY <2>1, TakenFinite DEF FiniteSubsetsOf
    <2>5. PICK U \in uppers : \A V \in uppers : <<V, U>> \notin StrictSubsetOrdering(Bundles)
      BY <2>2, <2>3, <2>4, WFMin
    <2>6. PICK b \in Bundles : U = Upper(b)  BY <2>1
    <2>7. PICK c \in Bundles : Minutes[c] > Minutes[b]  BY <2>6
    <2>8. Upper(c) \in SUBSET Upper(b) /\ c \in Upper(b) /\ c \notin Upper(c)
      BY <2>7, WindowAssumption
    <2>9. <<Upper(c), U>> \in StrictSubsetOrdering(Bundles)
      BY <2>6, <2>8 DEF StrictSubsetOrdering
    <2> QED BY <2>1, <2>5, <2>9
  <1>3. PICK b \in Bundles : \A c \in Bundles : Minutes[c] <= Minutes[b]
    BY <1>2, WindowAssumption
  <1>4. Minutes[b] \in lengths /\ \A m \in lengths : Minutes[b] >= m
    BY <1>1, <1>3, WindowAssumption
  <1>5. LongestBundle \in lengths /\ \A m \in lengths : LongestBundle >= m
    BY <1>1, <1>4 DEF LongestBundle, Max
  <1> QED BY <1>1, <1>5, WindowAssumption

\* A session under way that may yet put a bundle into a window in which, for it,
\* the bundle was not.
Adds(s, b, w) == seen[s].at[b] # w /\ Fits(seen[s], b, w)

Adding(w) == {s \in DOMAIN seen : \E b \in Bundles : Adds(s, b, w)}

Bound == WindowMinutes + Overlap * LongestBundle

LoadOf(w) == Load(InWindow(calendar, w))

\* There is room for each of them to add the longest bundle, but for one, which
\* may be the one that read last and needs the room it saw.
Crowded(w) ==
  IF Adding(w) = {} THEN LoadOf(w) <= Bound
  ELSE \E s \in Adding(w) : \A b \in Bundles :
         Adds(s, b, w)
         => LoadOf(w) + Minutes[b] + (Cardinality(Adding(w)) - 1) * LongestBundle <= Bound

CapacityInv ==
  /\ WInv
  /\ DOMAIN seen \subseteq Sessions
  /\ \A w \in Windows \ unchecked : Crowded(w)

\* Of the sessions, and one if they do not overlap, no more are under way than one
\* and those that Overlap counts.
LEMMA FewUnderWay ==
  ASSUME NEW D \in SUBSET Sessions, isolated => \A s, t \in D : s = t
  PROVE  /\ Overlap \in Nat /\ IsFiniteSet(D)
         /\ Cardinality(D) \in Nat /\ Cardinality(D) <= Overlap + 1
  <1>1. /\ Cardinality(Sessions) \in Nat /\ Cardinality(Sessions) # 0
    BY FS_CardinalityType, FS_EmptySet, WindowAssumption
  <1>2. /\ IsFiniteSet(D) /\ Cardinality(D) \in Nat
        /\ Cardinality(D) <= Cardinality(Sessions)
    BY FS_Subset, FS_CardinalityType, WindowAssumption
  <1>3. CASE isolated
    <2>1. CASE D = {}
      BY <1>1, <1>2, <1>3, <2>1, FS_EmptySet DEF Overlap
    <2>2. CASE D # {}
      <3>1. PICK s : D = {s}
        BY <1>3, <2>2
      <3> QED BY <1>1, <1>2, <1>3, <3>1, FS_Singleton DEF Overlap
    <2> QED BY <2>1, <2>2
  <1>4. CASE ~isolated
    BY <1>1, <1>2, <1>4 DEF Overlap
  <1> QED BY <1>3, <1>4

\* The same of those under way.
LEMMA OverlapIs ==
  ASSUME WInv, DOMAIN seen \subseteq Sessions
  PROVE  /\ Overlap \in Nat /\ IsFiniteSet(DOMAIN seen)
         /\ Cardinality(DOMAIN seen) \in Nat
         /\ Cardinality(DOMAIN seen) <= Overlap + 1
  BY FewUnderWay DEF WInv

\* What a window may hold is a number of minutes.
LEMMA BoundIs ==
  ASSUME WInv, DOMAIN seen \subseteq Sessions
  PROVE  Bound \in Nat /\ Bound = WindowMinutes + Overlap * LongestBundle
  <1>1. Overlap \in Nat /\ LongestBundle \in Nat /\ WindowMinutes \in Nat
    BY OverlapIs, LongestIs, WindowAssumption
  <1>2. \A m, n, k \in Nat : m + n * k \in Nat
    OBVIOUS
  <1> QED BY <1>1, <1>2 DEF Bound

\* So is what it holds.
LEMMA LoadOfType ==
  ASSUME NEW c, NEW w
  PROVE  InWindow(c, w) \in SUBSET Bundles /\ Load(InWindow(c, w)) \in Nat
  <1>1. InWindow(c, w) \in SUBSET Bundles
    BY DEF InWindow
  <1> QED BY <1>1, LoadCounts, TakenFinite

\* The room for k sessions against that for h of them.
LEMMA LessRoom ==
  ASSUME NEW m \in Nat, NEW h \in Nat, NEW k \in Nat
  PROVE  /\ (h - 1) * m \in Int
         /\ h >= 1 => (h - 1) * m >= 0
         /\ k <= h => (k - 1) * m <= (h - 1) * m
         /\ k < h => (k - 1) * m + m <= (h - 1) * m
         /\ k <= h + 1 => (k - 1) * m <= h * m
  <1>1. \A a, b \in Int : a <= b => a * m <= b * m
    OBVIOUS
  <1>2. \A a \in Int : (a - 1) * m + m = a * m
    OBVIOUS
  <1>3. k < h => k * m <= (h - 1) * m
    BY <1>1
  <1>4. \A a \in Int : a >= 0 => a * m >= 0
    OBVIOUS
  <1> QED BY <1>1, <1>2, <1>3, <1>4

\* When one session ends, no more is in the window than before and than what it
\* had to add.
LEMMA CrowdedByOne ==
  ASSUME WInv, WInv', DOMAIN seen \subseteq Sessions, Overlap' = Overlap,
         NEW w, Crowded(w), NEW s,
         DOMAIN seen' = DOMAIN seen \ {s}, \A t \in DOMAIN seen' : seen'[t] = seen[t],
         \/ LoadOf(w)' <= LoadOf(w)
         \/ \E b \in Bundles : /\ s \in DOMAIN seen /\ Adds(s, b, w)
                               /\ LoadOf(w)' <= LoadOf(w) + Minutes[b]
  PROVE  Crowded(w)'
  <1> DEFINE longest == LongestBundle
             old == LoadOf(w)
             new == LoadOf(w)'
             hopes == Adding(w)
             rest == Adding(w)'
             h == Cardinality(Adding(w))
             k == Cardinality(rest)
  <1>1. /\ longest \in Nat /\ \A b \in Bundles : Minutes[b] \in Nat /\ Minutes[b] <= longest
        /\ old \in Nat /\ new \in Nat
    BY LongestIs, LoadOfType, WindowAssumption DEF LoadOf
  <1>2. Bound' = Bound /\ Bound \in Nat
    BY BoundIs DEF Bound
  <1>3. \A t \in DOMAIN seen', b \in Bundles : Adds(t, b, w)' <=> Adds(t, b, w)
    BY DEF Adds
  <1>4. rest = hopes \ {s}
    BY <1>3 DEF Adding
  <1>5. /\ h \in Nat /\ k \in Nat /\ k <= h
        /\ s \in hopes => k < h
        /\ hopes # {} => h >= 1
    <2>1. hopes \in SUBSET DOMAIN seen  BY DEF Adding
    <2>2. IsFiniteSet(hopes)  BY <2>1, OverlapIs, FS_Subset
    <2>3. k = IF s \in hopes THEN h - 1 ELSE h
      BY <1>4, <2>2, FS_RemoveElement
    <2>4. h \in Nat /\ (hopes # {} => h # 0)
      BY <2>2, FS_CardinalityType, FS_EmptySet
    <2>5. k \in Nat
      BY <1>4, <2>2, FS_RemoveElement, FS_CardinalityType
    <2> QED BY <2>3, <2>4, <2>5
  <1>6. CASE hopes = {}
    <2>1. rest = {} /\ old <= Bound  BY <1>4, <1>6 DEF Crowded
    <2>2. new <= old  BY <1>6 DEF Adding
    <2> QED BY <1>1, <1>2, <2>1, <2>2 DEF Crowded
  <1>7. CASE hopes # {}
    <2>1. PICK one \in hopes : \A b \in Bundles :
            Adds(one, b, w) => old + Minutes[b] + (h - 1) * longest <= Bound
      BY <1>7 DEF Crowded
    <2>2. PICK first \in Bundles : Adds(one, first, w)
      BY DEF Adding
    <2>3. old + Minutes[first] + (h - 1) * longest <= Bound
      BY <2>1, <2>2
    <2> HIDE DEF longest, old, new, hopes, rest, h, k
    <2>4. /\ (h - 1) * longest \in Int /\ (h - 1) * longest >= 0 /\ (k - 1) * longest \in Int
          /\ (k - 1) * longest <= (h - 1) * longest
          /\ k < h => (k - 1) * longest + longest <= (h - 1) * longest
      BY <1>1, <1>5, <1>7, LessRoom
    <2>5. ASSUME NEW b \in Bundles, new <= old + Minutes[b], s \in hopes, Adds(s, b, w)
          PROVE  Crowded(w)'
      <3>1. CASE rest = {}
        <4>1. new <= Bound
          <5>1. CASE s = one
            BY <1>1, <1>2, <2>1, <2>4, <2>5, <5>1
          <5>2. CASE s # one
            BY <1>4, <3>1, <5>2
          <5> QED BY <5>1, <5>2
        <4> QED BY <1>2, <3>1, <4>1 DEF Crowded, new, rest
      <3>2. CASE rest # {}
        <4>1. CASE one \in rest
          <5>1. \A c \in Bundles : Adds(one, c, w)
                  => new + Minutes[c] + (k - 1) * longest <= Bound
            BY <1>1, <1>2, <1>5, <2>1, <2>4, <2>5
          <5> QED BY <1>2, <1>3, <3>2, <4>1, <5>1 DEF Crowded, new, rest, k, longest, Adding
        <4>2. CASE one \notin rest
          <5>1. s = one  BY <1>4, <4>2
          <5>2. PICK two \in rest : TRUE  BY <3>2
          <5>3. \A c \in Bundles : new + Minutes[c] + (k - 1) * longest <= Bound
            BY <1>1, <1>2, <1>5, <2>1, <2>4, <2>5, <5>1
          <5> QED BY <1>2, <3>2, <5>2, <5>3 DEF Crowded, new, rest, k, longest
        <4> QED BY <4>1, <4>2
      <3> QED BY <3>1, <3>2
    <2>6. ASSUME new <= old
          PROVE  Crowded(w)'
      <3>1. CASE rest = {}
        <4>1. new <= Bound  BY <1>1, <1>2, <2>3, <2>4, <2>6
        <4> QED BY <1>2, <3>1, <4>1 DEF Crowded, new, rest
      <3>2. CASE one \in rest
        <4>1. \A c \in Bundles : Adds(one, c, w)
                => new + Minutes[c] + (k - 1) * longest <= Bound
          BY <1>1, <1>2, <1>5, <2>1, <2>4, <2>6
        <4> QED BY <1>2, <1>3, <3>2, <4>1 DEF Crowded, new, rest, k, longest, Adding
      <3>3. CASE rest # {} /\ one \notin rest
        <4>1. s \in hopes  BY <1>4, <3>3
        <4>2. PICK two \in rest : TRUE  BY <3>3
        <4>3. \A c \in Bundles : new + Minutes[c] + (k - 1) * longest <= Bound
          BY <1>1, <1>2, <1>5, <2>3, <2>4, <2>6, <4>1
        <4> QED BY <1>2, <3>3, <4>2, <4>3 DEF Crowded, new, rest, k, longest
      <3> QED BY <3>1, <3>2, <3>3
    <2>7. \A b \in Bundles : s \in DOMAIN seen /\ Adds(s, b, w) => s \in hopes
      BY DEF hopes, Adding
    <2> QED BY <2>5, <2>6, <2>7 DEF new, old
  <1> QED BY <1>6, <1>7

\* A session reads the window as it is, and what fits fits.
LEMMA CrowdedByReading ==
  ASSUME WInv, WInv', DOMAIN seen' \subseteq Sessions, isolated' = isolated,
         NEW w \in Windows, Crowded(w), NEW s, s \notin DOMAIN seen,
         DOMAIN seen' = DOMAIN seen \cup {s}, seen'[s] = calendar,
         \A t \in DOMAIN seen : seen'[t] = seen[t], calendar' = calendar
  PROVE  Crowded(w)'
  <1>1. /\ LongestBundle \in Nat /\ \A b \in Bundles : Minutes[b] \in Nat
        /\ LoadOf(w) \in Nat /\ LoadOf(w)' = LoadOf(w) /\ WindowMinutes \in Nat
    BY LongestIs, LoadOfType, WindowAssumption DEF LoadOf
  <1>2. Bound' = Bound /\ Bound = WindowMinutes + Overlap * LongestBundle /\ Bound \in Nat
        /\ Overlap \in Nat
    BY BoundIs, OverlapIs DEF Bound, Overlap
  <1>3. \A t \in DOMAIN seen, b \in Bundles : Adds(t, b, w)' <=> Adds(t, b, w)
    BY DEF Adds
  <1>4. CASE s \in Adding(w)'
    <2>1. \A b \in Bundles : Adds(s, b, w)' => LoadOf(w) + Minutes[b] <= WindowMinutes
      <3>1. ASSUME NEW b \in Bundles, calendar.at[b] # w
            PROVE  InWindow(calendar, w) \ {b} = InWindow(calendar, w)
        BY <3>1 DEF InWindow
      <3> QED BY <3>1 DEF Adds, Fits, LoadOf
    <2>2. PICK k : k = Cardinality(Adding(w)')
      OBVIOUS
    <2>3. k \in Nat /\ k <= Overlap + 1
      <3>1. Adding(w)' \in SUBSET DOMAIN seen'  BY DEF Adding
      <3>2. IsFiniteSet(DOMAIN seen') /\ Cardinality(DOMAIN seen') \in Nat
            /\ Cardinality(DOMAIN seen') <= Overlap + 1
        BY FewUnderWay DEF WInv
      <3>3. IsFiniteSet(Adding(w)') /\ k <= Cardinality(DOMAIN seen')
        BY <2>2, <3>1, <3>2, FS_Subset
      <3>4. k \in Nat  BY <2>2, <3>3, FS_CardinalityType
      <3> QED BY <1>2, <3>2, <3>3, <3>4
    <2>4. (k - 1) * LongestBundle \in Int /\ (k - 1) * LongestBundle <= Overlap * LongestBundle
      BY <1>1, <1>2, <2>3, LessRoom
    <2>5. Overlap * LongestBundle \in Int
      BY <1>1, <1>2
    <2>6. \A b \in Bundles : Adds(s, b, w)'
            => LoadOf(w) + Minutes[b] + (k - 1) * LongestBundle <= Bound
      BY <1>1, <1>2, <2>1, <2>4, <2>5
    <2> QED BY <1>1, <1>2, <1>4, <2>2, <2>6 DEF Crowded
  <1>5. CASE s \notin Adding(w)'
    <2>1. Adding(w)' = Adding(w)
      BY <1>3, <1>5 DEF Adding
    <2> QED BY <1>1, <1>2, <1>3, <2>1 DEF Crowded, Adding
  <1> QED BY <1>4, <1>5

\* The one bundle that a handler moves fits where it goes, unless it does not
\* look, or leaves it where it was.
LEMMA MovesOne ==
  ASSUME WInv, NEW s,
         assign_bundle_to_window(s) \/ unassign(s) \/ update_bundle(s) \/ update_bundle_status(s)
  PROVE  \E b \in Bundles, w \in Windows \cup {NoWindow} :
           /\ calendar'.at = [calendar.at EXCEPT ![b] = Put(seen[s].at[b], w, calendar.at[b])]
           /\ w \in Windows \ unchecked' => Fits(seen[s], b, w) \/ seen[s].at[b] = w
           /\ unchecked \subseteq unchecked'
  <1>1. s \in DOMAIN seen
    BY DEF assign_bundle_to_window, unassign, update_bundle, update_bundle_status, EndOf, UnderWay
  <1>2. PICK old \in Calendar : old = seen[s]
    BY <1>1 DEF WInv
  <1>3. old.at \in [Bundles -> Windows \cup {NoWindow}]
    BY CalendarFields
  <1>4. old.status \in [Bundles -> BundleStatuses]
        /\ {"draft", "scheduled", "approved"} \subseteq BundleStatuses
    BY CalendarFields DEF BundleStatuses
  <1>5. \E b \in Bundles, status \in BundleStatuses, w \in Windows \cup {NoWindow} :
          /\ WriteBundle(s, b, status, w)
          /\ w \in Windows \ unchecked' => Fits(seen[s], b, w) \/ seen[s].at[b] = w
          /\ unchecked \subseteq unchecked'
    <2>1. CASE assign_bundle_to_window(s)
      <3>1. PICK b \in Bundles, w \in Windows :
              Fits(seen[s], b, w) /\ WriteBundle(s, b, "scheduled", w)
        BY <2>1 DEF assign_bundle_to_window, Existing
      <3>2. unchecked' = unchecked
        BY <2>1 DEF assign_bundle_to_window
      <3> QED BY <1>4, <3>1, <3>2
    <2>2. CASE unassign(s)
      <3>1. PICK b \in Bundles :
              WriteBundle(s, b, IF old.status[b] = "scheduled" THEN "draft" ELSE old.status[b],
                          NoWindow)
        BY <1>2, <2>2 DEF unassign
      <3>2. (IF old.status[b] = "scheduled" THEN "draft" ELSE old.status[b]) \in BundleStatuses
        BY <1>4
      <3>3. unchecked' = unchecked /\ NoWindow \notin Windows
        BY <2>2, WindowAssumption DEF unassign
      <3> QED BY <3>1, <3>2, <3>3
    <2>3. CASE update_bundle(s)
      <3>1. PICK b \in Bundles, w \in Existing(calendar) \cup {NoWindow} :
              /\ WriteBundle(s, b,
                    IF old.status[b] = "approved" THEN "draft" ELSE old.status[b], w)
              /\ unchecked' = unchecked \cup ({w} \ {NoWindow})
        BY <1>2, <2>3 DEF update_bundle
      <3>2. (IF old.status[b] = "approved" THEN "draft" ELSE old.status[b]) \in BundleStatuses
        BY <1>4
      <3>3. w \in Windows \cup {NoWindow} /\ w \notin Windows \ unchecked'
        BY <3>1, WindowAssumption DEF Existing
      <3> QED BY <3>1, <3>2, <3>3
    <2>4. CASE update_bundle_status(s)
      <3>1. PICK b \in Bundles, status \in {"draft", "scheduled", "approved"} :
              WriteBundle(s, b, status, old.at[b])
        BY <1>2, <2>4 DEF update_bundle_status
      <3>2. unchecked' = unchecked
        BY <2>4 DEF update_bundle_status
      <3>3. old.at[b] \in Windows \cup {NoWindow}
        BY <1>3
      <3> QED BY <1>2, <1>4, <3>1, <3>2, <3>3
    <2> QED BY <2>1, <2>2, <2>3, <2>4
  <1>6. PICK b \in Bundles, status \in BundleStatuses, w \in Windows \cup {NoWindow} :
          /\ WriteBundle(s, b, status, w)
          /\ w \in Windows \ unchecked' => Fits(seen[s], b, w) \/ seen[s].at[b] = w
          /\ unchecked \subseteq unchecked'
    BY <1>5
  <1>7. calendar'.at = [calendar.at EXCEPT ![b] = Put(seen[s].at[b], w, calendar.at[b])]
    BY <1>6, CalendarFields DEF WriteBundle, WInv, Calendar
  <1> QED BY <1>6, <1>7

\* What a handler's end does to the load of a window.
LEMMA LoadMoves ==
  ASSUME WInv, NEW s \in Sessions, WindowHandler(s), ~Read(s), NEW v \in Windows \ unchecked'
  PROVE  /\ EndOf(s) /\ v \notin unchecked
         /\ \/ LoadOf(v)' <= LoadOf(v)
            \/ \E b \in Bundles : Adds(s, b, v) /\ LoadOf(v)' <= LoadOf(v) + Minutes[b]
  <1>1. calendar.at \in [Bundles -> Windows \cup {NoWindow}]
    BY CalendarFields DEF WInv
  <1>2. ASSUME InWindow(calendar, v)' \subseteq InWindow(calendar, v)
        PROVE  LoadOf(v)' <= LoadOf(v)
    BY <1>2, LoadOfType, LoadGrows DEF LoadOf
  <1>3. CASE Refused(s) \/ create_maintenance_window(s) \/ create_recurring_windows(s)
    <2>1. calendar'.at = calendar.at /\ unchecked' = unchecked /\ EndOf(s)
      BY <1>3 DEF Refused, create_maintenance_window, create_recurring_windows, windowVars,
                  WInv, Calendar
    <2> QED BY <1>2, <2>1 DEF InWindow
  <1>4. CASE delete_maintenance_window(s)
    <2>1. PICK w \in Windows, loaded \in SUBSET Bundles :
            calendar' = [calendar EXCEPT !.phase[w] = "deleted",
                           !.at = [b \in Bundles |-> IF b \in loaded THEN NoWindow ELSE @[b]]]
      BY <1>4 DEF delete_maintenance_window, Existing, InWindow
    <2>2. \A b \in Bundles : calendar'.at[b] = calendar.at[b] \/ calendar'.at[b] = NoWindow
      BY <2>1 DEF WInv, Calendar
    <2> QED BY <1>2, <1>4, <2>2, WindowAssumption DEF InWindow, delete_maintenance_window
  <1>5. CASE assign_bundle_to_window(s) \/ unassign(s) \/ update_bundle(s) \/ update_bundle_status(s)
    <2>1. EndOf(s)
      BY <1>5 DEF assign_bundle_to_window, unassign, update_bundle, update_bundle_status
    <2>2. PICK b \in Bundles, w \in Windows \cup {NoWindow} :
            /\ calendar'.at = [calendar.at EXCEPT ![b] = Put(seen[s].at[b], w, calendar.at[b])]
            /\ w \in Windows \ unchecked' => Fits(seen[s], b, w) \/ seen[s].at[b] = w
            /\ unchecked \subseteq unchecked'
      BY <1>5, MovesOne
    <2>3. CASE w = v /\ seen[s].at[b] # v
      <3>1. InWindow(calendar, v)' = InWindow(calendar, v) \cup {b}
        BY <1>1, <2>2, <2>3 DEF InWindow, Put
      <3>2. LoadOf(v)' <= LoadOf(v) + Minutes[b]
        BY <3>1, LoadOfType, LoadAdds DEF LoadOf
      <3> QED BY <2>1, <2>2, <2>3, <3>2 DEF Adds
    <2>4. CASE ~(w = v /\ seen[s].at[b] # v)
      <3>1. InWindow(calendar, v)' \subseteq InWindow(calendar, v)
        BY <1>1, <2>2, <2>4 DEF InWindow, Put
      <3> QED BY <1>2, <2>1, <2>2, <3>1
    <2> QED BY <2>3, <2>4
  <1> QED BY <1>3, <1>4, <1>5 DEF WindowHandler

\* Every step keeps room for those under way.
LEMMA CapacityStep == CapacityInv /\ [WindowNext]_<<windowVars, requestVars>> => CapacityInv'
  <1> SUFFICES ASSUME CapacityInv, [WindowNext]_<<windowVars, requestVars>>
               PROVE  CapacityInv'
    OBVIOUS
  <1>1. WInv /\ WInv' /\ DOMAIN seen \subseteq Sessions
    BY WindowStep DEF CapacityInv
  <1>2. ASSUME isolated' = isolated
        PROVE  Overlap' = Overlap
    BY <1>2 DEF Overlap
  <1>3. ASSUME NEW s \in Sessions, Read(s)
        PROVE  CapacityInv'
    <2>1. /\ calendar' = calendar /\ isolated' = isolated /\ unchecked' = unchecked
          /\ s \notin DOMAIN seen
          /\ DOMAIN seen' = DOMAIN seen \cup {s} /\ seen'[s] = calendar
          /\ \A t \in DOMAIN seen : seen'[t] = seen[t]
      BY <1>3 DEF Read, ReadBy, UnderWay, windowVars
    <2>2. DOMAIN seen' \subseteq Sessions  BY <1>1, <2>1
    <2> QED BY <1>1, <2>1, <2>2, CrowdedByReading DEF CapacityInv
  <1>4. ASSUME NEW s \in Sessions, WindowHandler(s), ~Read(s)
        PROVE  CapacityInv'
    <2>1. EndOf(s)
      BY <1>4 DEF WindowHandler, Refused, create_maintenance_window, create_recurring_windows,
           delete_maintenance_window, assign_bundle_to_window, unassign, update_bundle,
           update_bundle_status
    <2>2. /\ isolated' = isolated /\ DOMAIN seen' = DOMAIN seen \ {s} /\ s \in DOMAIN seen
          /\ \A t \in DOMAIN seen' : seen'[t] = seen[t]
      BY <2>1 DEF EndOf, UnderWay
    <2>3. ASSUME NEW v \in Windows \ unchecked'
          PROVE  Crowded(v)'
      <3>1. Crowded(v)  BY <1>1, <1>4, LoadMoves DEF CapacityInv
      <3>2. \/ LoadOf(v)' <= LoadOf(v)
            \/ \E b \in Bundles : Adds(s, b, v) /\ LoadOf(v)' <= LoadOf(v) + Minutes[b]
        BY <1>1, <1>4, LoadMoves
      <3> QED BY <1>1, <1>2, <2>2, <3>1, <3>2, CrowdedByOne
    <2> QED BY <1>1, <2>2, <2>3 DEF CapacityInv
  <1>5. ASSUME seen' = seen, isolated' = isolated, unchecked' = unchecked,
               calendar'.at = calendar.at
        PROVE  CapacityInv'
    <2>1. ASSUME NEW w
          PROVE  InWindow(calendar, w)' = InWindow(calendar, w)
      BY <1>5 DEF InWindow
    <2>2. Bound' = Bound  BY <1>2, <1>5 DEF Bound
    <2>3. ASSUME NEW w, Crowded(w)
          PROVE  Crowded(w)'
      BY <1>5, <2>1, <2>2, <2>3 DEF Crowded, LoadOf, Adding, Adds
    <2> QED BY <1>1, <1>5, <2>3 DEF CapacityInv
  <1>6. ASSUME NEW w \in Windows, StartTime(w)
        PROVE  CapacityInv'
    <2>1. seen' = seen /\ isolated' = isolated /\ unchecked' = unchecked
          /\ calendar'.at = calendar.at
      BY <1>1, <1>6 DEF StartTime, requestVars, WInv, Calendar
    <2> QED BY <1>5, <2>1
  <1>7. CASE UNCHANGED <<windowVars, requestVars>>
    BY <1>5, <1>7 DEF windowVars, requestVars
  <1> QED BY <1>3, <1>4, <1>6, <1>7 DEF WindowNext

\* At first nothing is in a window and nobody is under way.
LEMMA CapacityStart == WindowInit => CapacityInv
  <1> SUFFICES ASSUME WindowInit PROVE CapacityInv
    OBVIOUS
  <1>1. DOMAIN seen = {} /\ WInv
    BY WindowStart DEF WindowInit, RequestsInit
  <1>2. ASSUME NEW w \in Windows
        PROVE  Crowded(w)
    <2>1. InWindow(calendar, w) = {}
      BY WindowAssumption DEF WindowInit, InWindow
    <2>2. LoadOf(w) = 0  BY <2>1, LoadOfNone DEF LoadOf
    <2>3. Adding(w) = {}  BY <1>1 DEF Adding
    <2>4. Bound \in Nat  BY <1>1, BoundIs
    <2> QED BY <2>2, <2>3, <2>4 DEF Crowded
  <1> QED BY <1>1, <1>2 DEF CapacityInv

\* If every bundle was assigned to a window through the endpoint that looks at
\* the room, a window is overcommitted by no more than the longest bundle for
\* each further request that may be under way, and not at all without one.
THEOREM CapacityIsKept == WindowSpec => []CapacityKept
  <1>1. CapacityInv => CapacityKept
    <2> SUFFICES ASSUME CapacityInv, NEW w \in Windows \ unchecked
                 PROVE  LoadOf(w) <= Bound
      BY DEF CapacityKept, LoadOf, Bound
    <2>1. Crowded(w) /\ WInv /\ DOMAIN seen \subseteq Sessions  BY DEF CapacityInv
    <2>2. CASE Adding(w) = {}  BY <2>1, <2>2 DEF Crowded
    <2>3. CASE Adding(w) # {}
      <3>1. PICK s \in Adding(w), b \in Bundles :
              LoadOf(w) + Minutes[b] + (Cardinality(Adding(w)) - 1) * LongestBundle <= Bound
        BY <2>1, <2>3 DEF Crowded, Adding
      <3>2. PICK h : h = Cardinality(Adding(w))
        OBVIOUS
      <3>3. h \in Nat /\ h >= 1
        <4>1. Adding(w) \in SUBSET DOMAIN seen  BY DEF Adding
        <4>2. IsFiniteSet(Adding(w))  BY <2>1, <4>1, OverlapIs, FS_Subset
        <4>3. h \in Nat /\ h # 0  BY <2>3, <3>2, <4>2, FS_CardinalityType, FS_EmptySet
        <4> QED BY <4>3
      <3>4. LongestBundle \in Nat /\ Minutes[b] \in Nat /\ LoadOf(w) \in Nat /\ Bound \in Nat
        BY <2>1, LongestIs, LoadOfType, BoundIs, WindowAssumption DEF LoadOf
      <3>5. (h - 1) * LongestBundle \in Int /\ (h - 1) * LongestBundle >= 0
        BY <3>3, <3>4, LessRoom
      <3> QED BY <3>1, <3>2, <3>4, <3>5
    <2> QED BY <2>2, <2>3
  <1> QED BY <1>1, CapacityStart, CapacityStep, PTL DEF WindowSpec

\* Both properties of windows: no load beyond CapacityKept, whose overlap the
\* check of assign_bundle_to_window leaves open, and a deletion that takes no
\* scheduled or approved bundle off its window when it does not overlap.
THEOREM WindowsAreKept == WindowSpec => WindowsKept
  BY CapacityIsKept, DeletionsSpare, PTL DEF WindowsKept

\* Both tables stay tables, and the history one of windows.
LEMMA WindowsTyped == WindowSpec => []WindowTypeOK
  <1> DEFINE Typed == WInv /\ unchecked \subseteq Windows
  <1>1. WindowInit => Typed
    BY WindowStart DEF WindowInit
  <1>2. Typed /\ [WindowNext]_<<windowVars, requestVars>> => Typed'
    <2> SUFFICES ASSUME Typed, [WindowNext]_<<windowVars, requestVars>> PROVE Typed'
      OBVIOUS
    <2>1. ASSUME NEW s \in Sessions, WindowHandler(s)
          PROVE  unchecked' \subseteq Windows
      <3>1. CASE update_bundle(s)
        BY <3>1, WindowAssumption DEF update_bundle, Existing
      <3>2. CASE ~update_bundle(s)
        <4>1. unchecked' = unchecked
          BY <2>1, <3>2 DEF WindowHandler, Read, Refused, windowVars, create_maintenance_window,
             create_recurring_windows, delete_maintenance_window, assign_bundle_to_window,
             unassign, update_bundle_status
        <4> QED BY <4>1
      <3> QED BY <3>1, <3>2
    <2>2. ASSUME NEW w \in Windows, StartTime(w)
          PROVE  unchecked' \subseteq Windows
      BY <2>2 DEF StartTime
    <2>3. UNCHANGED <<windowVars, requestVars>> => unchecked' \subseteq Windows
      BY DEF windowVars
    <2> QED BY <2>1, <2>2, <2>3, WindowStep DEF WindowNext
  <1>3. Typed => WindowTypeOK
    BY DEF WInv, WindowTypeOK
  <1> QED BY <1>1, <1>2, <1>3, PTL DEF WindowSpec

-----------------------------------------------------------------------------
(* The parts together *)

\* In the specification that the runs check, each part behaves as by itself: what
\* is proved of windows, of the optimizer, of the rules and of goals holds of it.
THEOREM PartsAreApart == Spec => WindowSpec /\ OptimizerSpec /\ RuleSpec /\ GoalsSpec
  <1>1. Init => WindowInit /\ OptimizerInit /\ RuleInit /\ GoalsInit
    BY DEF Init
  <1>2. [Next]_vars => /\ [WindowNext]_<<windowVars, requestVars>>
                       /\ [OptimizerNext]_optimizerVars
                       /\ [RuleNext]_ruleVars
                       /\ [GoalsNext]_goalVars
    BY DEF Next, vars
  <1> QED BY <1>1, <1>2, PTL DEF Spec, WindowSpec, OptimizerSpec, RuleSpec, GoalsSpec

\* No part leaves its types.
THEOREM PlanningTyped == Spec => []TypeOK
  <1>1. []WindowTypeOK /\ []OptimizerTypeOK /\ []RuleTypeOK /\ []GoalsTypeOK => []TypeOK
    BY PTL DEF TypeOK
  <1> QED BY <1>1, PartsAreApart, WindowsTyped, Typing, RuleTypes, GoalsTyped, PTL

=============================================================================
