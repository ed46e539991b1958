------------------------------- MODULE Scoring -------------------------------
(***************************************************************************)
(* services/scoring.py: the score of a vulnerability on an asset and the    *)
(* action that is recommended, as functions of the factors that are stored  *)
(* with the vulnerability, the asset and the link between them, while       *)
(* scanners, imports and enrichments report these factors anew.             *)
(***************************************************************************)
EXTENDS Integers, FiniteSetsExt

CONSTANTS EpssScores   \* epss_score, in hundredths

ASSUME ScoringAssumption == EpssScores \subseteq 0..100

VARIABLE factors     \* of one finding

Severity == {"NONE", "LOW", "MEDIUM", "HIGH", "CRITICAL"}
Exposure == {"ISOLATED", "INTRANET", "INTERNET"}

\* kev_listed, exploit_available, patch_available, code_executed,
\* library_loaded, and mitigation_applied or compensating_controls.
Flags == {"kev", "exploit", "patch", "executed", "loaded", "controls"}

Factors ==
  [severity : Severity, epss : EpssScores, kev : BOOLEAN, exploit : BOOLEAN,
   patch : BOOLEAN, criticality : 1..5, exposure : Exposure,
   executed : BOOLEAN, loaded : BOOLEAN, controls : BOOLEAN]

ScoringTypeOK == factors \in Factors

-----------------------------------------------------------------------------
SeverityWeight ==
  [NONE |-> 0, LOW |-> 5, MEDIUM |-> 10, HIGH |-> 20, CRITICAL |-> 30]

ExposureWeight == [ISOLATED |-> 0, INTRANET |-> 5, INTERNET |-> 10]

If(condition, points) == IF condition THEN points ELSE 0

\* As if a library that is known to be loaded, but not used, counted for more
\* than code that runs.
RuntimePointsSwapped(f) ==
  CASE f.loaded                   -> 0
    [] f.executed /\ ~f.loaded    -> 15
    [] ~f.executed /\ ~f.loaded   -> -10

RuntimePoints(f) ==
  CASE f.executed                 -> 15
    [] f.loaded /\ ~f.executed    -> 0
    [] ~f.loaded /\ ~f.executed   -> -10

Clamp(score) == Max({0, Min({100, score})})

\* int() rounds the points of the EPSS score down.
calculate_score(f) ==
  Clamp(SeverityWeight[f.severity]
        + (f.epss * 15) \div 100
        + If(f.kev, 20)
        + 3 * f.criticality
        + ExposureWeight[f.exposure]
        + RuntimePoints(f)
        + If(~f.patch, -5)
        + If(f.controls, -10))

Immediate(f, score) ==
  \/ score >= 80
  \/ f.kev
  \/ f.executed
  \/ f.exposure = "INTERNET" /\ score >= 60

get_recommended_action(f, score) ==
  CASE Immediate(f, score) -> "PATCH_IMMEDIATELY"
    [] ~Immediate(f, score) /\ (score >= 40 \/ f.exploit) -> "PATCH_STANDARD"
    [] ~Immediate(f, score) /\ ~f.exploit /\ score \in 20..39 -> "MONITOR"
    [] ~Immediate(f, score) /\ ~f.exploit /\ score < 20 -> "ACCEPT_RISK"

-----------------------------------------------------------------------------
\* A finding is linked before anything is known of how its code runs.
ScoringInit ==
  factors \in {f \in Factors : ~f.executed /\ ~f.loaded /\ ~f.controls}

\* One factor is reported anew.
Reported ==
  \/ \E v \in Severity : factors' = [factors EXCEPT !.severity = v]
  \/ \E v \in EpssScores : factors' = [factors EXCEPT !.epss = v]
  \/ \E v \in 1..5 : factors' = [factors EXCEPT !.criticality = v]
  \/ \E v \in Exposure : factors' = [factors EXCEPT !.exposure = v]
  \/ \E k \in Flags : factors' = [factors EXCEPT ![k] = ~@]

ScoringNext == Reported

ScoringSpec == ScoringInit /\ [][ScoringNext]_factors

-----------------------------------------------------------------------------
(* Properties *)

\* The factors of g are as bad as those of f, or worse.
AsBad(f, g) ==
  /\ SeverityWeight[f.severity] <= SeverityWeight[g.severity]
  /\ f.epss <= g.epss /\ f.criticality <= g.criticality
  /\ ExposureWeight[f.exposure] <= ExposureWeight[g.exposure]
  /\ \A k \in Flags \ {"controls"} : f[k] => g[k]
  /\ g.controls => f.controls

Urgency == [ACCEPT_RISK |-> 0, MONITOR |-> 1, PATCH_STANDARD |-> 2, PATCH_IMMEDIATELY |-> 3]

Recommended(f) == get_recommended_action(f, calculate_score(f))

\* News that make a finding worse, or that it can be patched, never lower its
\* score, and never make the recommended action less urgent: whatever the points
\* of the other factors, and wherever the score is clamped or the recommendation
\* passes from one rule to another.
WorseNeverLower ==
  [][AsBad(factors, factors')
       => /\ calculate_score(factors) <= calculate_score(factors')
          /\ Urgency[Recommended(factors)] <= Urgency[Recommended(factors')]]_factors
=============================================================================
