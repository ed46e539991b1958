------------------------------ MODULE Optimizer ------------------------------
(***************************************************************************)
(* services/optimization.py: how the vulnerabilities in scope of a goal are *)
(* spread over the maintenance windows ahead, by the constraint solver if   *)
(* it is installed and finds an answer in time, otherwise by the heuristic, *)
(* one iteration of its loop being one step here.                           *)
(*                                                                          *)
(* Vulnerabilities are numbered by descending score, the order in which the *)
(* heuristic takes them, and windows by their start.  Times are in minutes. *)
(* The solver is external: an answer is any plan its constraints allow, and *)
(* the best one by its objective if it finished.                            *)
(***************************************************************************)
EXTENDS Integers, FiniteSets, FiniteSetsExt

CONSTANTS NVulns, NWindows,
          MaxVulns,     \* the values of max_vulns_per_window considered
          Downtimes,    \* those of max_downtime_hours, in minutes
          Lengths,      \* those of the length of a window
          Scores,       \* those of the score of a vulnerability
          Solvers       \* "absent", "slow" (no proof of optimality), "done"

ASSUME OptimizerAssumption ==
  /\ NVulns \in Nat
  /\ NWindows \in Nat
  /\ MaxVulns \subseteq Nat
  /\ Downtimes \subseteq Nat
  /\ Lengths \subseteq Nat
  /\ Scores \subseteq Nat

Vulns == 1..NVulns
Slots == 1..NWindows

VARIABLES goal,      \* the limits of the goal
          length,    \* of each window
          score,     \* of each vulnerability
          solver,    \* what is installed
          phase,     \* of the optimization
          next,      \* the loop's vulnerability
          idx,       \* window_idx, from 1
          current,   \* current_window_vulns
          schedule   \* the vulnerabilities saved for each window

optimizerVars == <<goal, length, score, solver, phase, next, idx, current, schedule>>
input == <<goal, length, score, solver>>

OptimizerTypeOK ==
  /\ goal \in [max_vulns : MaxVulns, max_downtime : Downtimes]
  /\ length \in [Slots -> Lengths]
  /\ score \in [Vulns -> Scores]
  /\ solver \in Solvers
  /\ phase \in {"start", "packing", "packed", "solved"}
  /\ next \in 1..(NVulns + 1)
  /\ idx \in 1..(NWindows + 1)
  /\ current \subseteq Vulns
  /\ schedule \in [Slots -> SUBSET Vulns]

OptimizerInit ==
  /\ goal \in [max_vulns : MaxVulns, max_downtime : Downtimes]
  /\ length \in [Slots -> Lengths]
  /\ score \in [Vulns -> Scores]
  /\ \A u, v \in Vulns : u < v => score[u] >= score[v]
  /\ solver \in Solvers
  /\ phase = "start"
  /\ next = 1
  /\ idx = 1
  /\ current = {}
  /\ schedule = [w \in Slots |-> {}]

\* Half an hour is estimated for each vulnerability.
Estimate == 30

\* window_duration_limit
Available(w) == IF length[w] < goal.max_downtime THEN length[w] ELSE goal.max_downtime

-----------------------------------------------------------------------------
(* The heuristic *)

StartPacking ==
  /\ phase = "start"
  /\ solver # "done"       \* not installed, or no answer within its 30 seconds
  /\ phase' = "packing"
  /\ UNCHANGED <<input, next, idx, current, schedule>>

FitsCurrentOffByOne ==
  /\ Cardinality(current) <= goal.max_vulns
  /\ Cardinality(current) * Estimate + Estimate <= Available(idx)

FitsCurrentStrictly ==
  /\ Cardinality(current) < goal.max_vulns
  /\ Cardinality(current) * Estimate + Estimate < Available(idx)

FitsCurrent ==
  /\ Cardinality(current) < goal.max_vulns
  /\ Cardinality(current) * Estimate + Estimate <= Available(idx)

Packing == phase = "packing" /\ next <= NVulns /\ idx <= NWindows

AddToCurrent ==
  /\ Packing
  /\ FitsCurrent
  /\ current' = current \cup {next}
  /\ next' = next + 1
  /\ UNCHANGED <<input, phase, idx, schedule>>

NextWindowDropsOne ==
  /\ Packing
  /\ ~FitsCurrent
  /\ schedule' = [schedule EXCEPT ![idx] = current]
  /\ idx' = idx + 1
  /\ current' = {}
  /\ next' = next + 1
  /\ UNCHANGED <<input, phase>>

\* The current window is saved and the vulnerability opens the next one, if
\* there is a next one, whether it fits there or not.
NextWindow ==
  /\ Packing
  /\ ~FitsCurrent
  /\ schedule' = [schedule EXCEPT ![idx] = current]
  /\ idx' = idx + 1
  /\ current' = IF idx < NWindows THEN {next} ELSE current
  /\ next' = next + 1
  /\ UNCHANGED <<input, phase>>

\* The loop ends, or breaks for want of windows; the last window is saved.
FinishPacking ==
  /\ phase = "packing"
  /\ next > NVulns \/ idx > NWindows
  /\ phase' = "packed"
  /\ schedule' = IF idx <= NWindows THEN [schedule EXCEPT ![idx] = current]
                                    ELSE schedule
  /\ UNCHANGED <<input, next, idx, current>>

-----------------------------------------------------------------------------
(* The constraint solver *)

Critical == {v \in Vulns : score[v] >= 80}
High == {v \in Vulns : score[v] >= 60 /\ score[v] < 80}

\* Constraints 1 to 4, in hundredths of an hour; the fourth keeps a critical
\* and a high vulnerability from sharing any window but the first.
FeasibleUncounted(p) ==
  /\ \A u, w \in Slots : u # w => p[u] \cap p[w] = {}
  /\ \A w \in Slots : Cardinality(p[w]) * 50 <= (Available(w) * 100) \div 60

Feasible(p) ==
  /\ \A u, w \in Slots : u # w => p[u] \cap p[w] = {}
  /\ \A w \in Slots : Cardinality(p[w]) <= goal.max_vulns
  /\ \A w \in Slots : Cardinality(p[w]) * 50 <= (Available(w) * 100) \div 60
  /\ \A w \in Slots \ {1} : p[w] \cap Critical = {} \/ p[w] \cap High = {}

Plans == {p \in [Slots -> SUBSET Vulns] : Feasible(p)}

TotalScore(V) == MapThenSumSet(LAMBDA v : score[v], V)

\* "Penalty for each window the vuln remains unpatched": summed over what is
\* assigned, nothing being charged for what is not.
Objective(p) == MapThenSumSet(LAMBDA w : (w - 1) * TotalScore(p[w]), Slots)

Solve ==
  /\ phase = "start"
  /\ solver \in {"slow", "done"}
  /\ schedule' \in Plans
  /\ solver = "done" => Objective(schedule') = Min({Objective(p) : p \in Plans})
  /\ phase' = "solved"
  /\ UNCHANGED <<input, next, idx, current>>

-----------------------------------------------------------------------------
OptimizerNext ==
  \/ StartPacking \/ AddToCurrent \/ NextWindow \/ FinishPacking
  \/ Solve

OptimizerSpec == OptimizerInit /\ [][OptimizerNext]_optimizerVars

-----------------------------------------------------------------------------
(* Properties *)

\* The plan so far: what is saved, and the window being filled.
Plan == [w \in Slots |-> IF phase = "packing" /\ w = idx THEN current ELSE schedule[w]]

Scheduled == UNION {Plan[w] : w \in Slots}

\* No vulnerability is in two windows, and no window has more of them than the
\* goal allows or its length has room for; except that the heuristic always puts
\* one into a window it moves on to ("respecting constraints").
PlanWithinLimits ==
  /\ \A u, w \in Slots : u # w => Plan[u] \cap Plan[w] = {}
  /\ \A w \in Slots :
       \/ /\ Cardinality(Plan[w]) <= goal.max_vulns
          /\ Cardinality(Plan[w]) * Estimate <= Available(w)
       \/ phase # "solved" /\ Cardinality(Plan[w]) = 1

\* The heuristic skips nothing: whatever is scheduled, all that scores higher is
\* scheduled too, and not later ("highest risk first").
HighestRiskFirst ==
  phase # "solved" =>
    \A w \in Slots : \A v \in Plan[w] : \A u \in 1..(v - 1) :
      \E x \in 1..w : u \in Plan[x]

\* If the heuristic leaves out a vulnerability, no window had room for another.
NothingLeftBehind ==
  phase = "packed" /\ Scheduled # Vulns =>
    \A w \in Slots : \/ Cardinality(Plan[w]) >= goal.max_vulns
                     \/ (Cardinality(Plan[w]) + 1) * Estimate > Available(w)

\* The heuristic is greedy: by falling score, as long as there is room.
GreedyByRisk == HighestRiskFirst /\ NothingLeftBehind

\* Both ways of making a plan implement the promise made of plans.
Limits == INSTANCE PlanLimits WITH Windows <- Slots, limit <- goal.max_vulns,
                                   plan <- Plan

ImplementsPlanLimits == Limits!Spec
=============================================================================
