--------------------------- MODULE OptimizerProofs ---------------------------
(* Proofs about Optimizer, for any number of vulnerabilities and windows and  *)
(* any limits, lengths and scores.                                            *)
EXTENDS Optimizer, FiniteSetTheorems, TLAPS

-----------------------------------------------------------------------------
(* The inductive invariant *)

Room(w, V) ==
  \/ Cardinality(V) <= goal.max_vulns /\ Cardinality(V) * Estimate <= Available(w)
  \/ phase # "solved" /\ Cardinality(V) = 1

\* Nothing has happened yet.
Fresh ==
  phase = "start" =>
    /\ next = 1 /\ idx = 1 /\ current = {}
    /\ schedule = [w \in Slots |-> {}]

\* While the heuristic packs, the plan consists of vulnerabilities it has been
\* at, all of them as long as there are windows, and nothing is in later windows.
Packed ==
  phase = "packing" =>
    /\ \A w \in Slots : Plan[w] \subseteq 1..(next - 1)
    /\ \A w \in Slots : w >= idx => schedule[w] = {}
    /\ idx <= NWindows => \A u \in 1..(next - 1) : \E x \in 1..idx : u \in Plan[x]

OInv == OptimizerTypeOK /\ Fresh /\ Packed /\ PlanWithinLimits /\ HighestRiskFirst

\* The plan is one of sets of vulnerabilities, which are finite.
LEMMA PlanTyped ==
  ASSUME OptimizerTypeOK
  PROVE  /\ Plan \in [Slots -> SUBSET Vulns]
         /\ \A w \in Slots : IsFiniteSet(Plan[w]) /\ Cardinality(Plan[w]) \in Nat
         /\ IsFiniteSet(current) /\ Cardinality(current) \in Nat
         /\ goal.max_vulns \in Nat
         /\ \A w \in Slots : Available(w) \in Nat
  <1>1. Plan \in [Slots -> SUBSET Vulns]
    BY DEF Plan, OptimizerTypeOK
  <1>2. IsFiniteSet(Vulns)
    BY OptimizerAssumption, FS_Interval DEF Vulns
  <1>3. \A V \in SUBSET Vulns : IsFiniteSet(V) /\ Cardinality(V) \in Nat
    BY <1>2, FS_Subset, FS_CardinalityType
  <1>4. goal.max_vulns \in Nat /\ goal.max_downtime \in Nat
    BY OptimizerAssumption DEF OptimizerTypeOK
  <1>5. \A w \in Slots : length[w] \in Nat
    BY OptimizerAssumption DEF OptimizerTypeOK
  <1>6. \A w \in Slots : Available(w) \in Nat
    BY <1>4, <1>5 DEF Available
  <1> QED BY <1>1, <1>3, <1>4, <1>6 DEF OptimizerTypeOK

-----------------------------------------------------------------------------
(* What each step does to the plan *)

LEMMA PlanIsFunction ==
  /\ Plan = [w \in Slots |-> Plan[w]]
  /\ Plan' = [w \in Slots |-> Plan'[w]]
  BY DEF Plan

\* The loop's vulnerability joins the window being filled.
LEMMA AddsOne ==
  ASSUME OptimizerTypeOK, AddToCurrent
  PROVE  /\ idx \in Slots /\ next \in Vulns
         /\ Plan' = [Plan EXCEPT ![idx] = Plan[idx] \cup {next}]
         /\ Plan[idx] = current
  <1> USE OptimizerAssumption
  <1>1. /\ idx \in Slots /\ next \in Vulns /\ phase = "packing" /\ phase' = "packing"
        /\ idx' = idx /\ current' = current \cup {next} /\ schedule' = schedule
    BY DEF AddToCurrent, Packing, OptimizerTypeOK, Slots, Vulns
  <1>2. \A w \in Slots : Plan'[w] = [Plan EXCEPT ![idx] = Plan[idx] \cup {next}][w]
    BY <1>1 DEF Plan
  <1> QED BY <1>1, <1>2, PlanIsFunction DEF Plan

\* It opens the next window, if there is one, which was empty.
LEMMA OpensNext ==
  ASSUME OptimizerTypeOK, Packed, NextWindow
  PROVE  /\ idx \in Slots /\ next \in Vulns
         /\ idx < NWindows => /\ idx + 1 \in Slots
                              /\ Plan[idx + 1] = {}
                              /\ Plan' = [Plan EXCEPT ![idx + 1] = {next}]
         /\ idx = NWindows => Plan' = Plan
  <1> USE OptimizerAssumption
  <1>1. /\ idx \in Slots /\ next \in Vulns /\ phase = "packing" /\ phase' = "packing"
        /\ idx' = idx + 1
    BY DEF NextWindow, Packing, OptimizerTypeOK, Slots, Vulns
  <1>2. schedule' = [schedule EXCEPT ![idx] = current]
    BY DEF NextWindow
  <1>3. \A w \in Slots : Plan'[w] = IF w = idx + 1 THEN current' ELSE schedule'[w]
    BY <1>1 DEF Plan
  <1>4. \A w \in Slots : Plan[w] = IF w = idx THEN current ELSE schedule[w]
    BY <1>1 DEF Plan
  <1>5. ASSUME idx < NWindows
        PROVE  /\ idx + 1 \in Slots
               /\ Plan[idx + 1] = {}
               /\ Plan' = [Plan EXCEPT ![idx + 1] = {next}]
    <2>1. idx + 1 \in Slots
      BY <1>1, <1>5 DEF Slots
    <2>2. schedule[idx + 1] = {}
      BY <1>1, <2>1 DEF Packed, Slots
    <2>3. current' = {next}
      BY <1>5 DEF NextWindow
    <2>4. \A w \in Slots : Plan'[w] = [Plan EXCEPT ![idx + 1] = {next}][w]
      BY <1>1, <1>2, <1>3, <1>4, <2>1, <2>3 DEF OptimizerTypeOK, Plan, Slots
    <2>5. Plan' = [Plan EXCEPT ![idx + 1] = {next}]
      BY <2>4, PlanIsFunction
    <2>6. Plan[idx + 1] = {}
      BY <1>1, <1>4, <2>1, <2>2 DEF Slots
    <2> QED BY <2>1, <2>5, <2>6
  <1>6. ASSUME idx = NWindows
        PROVE  Plan' = Plan
    <2>1. \A w \in Slots : Plan'[w] = Plan[w]
      BY <1>1, <1>2, <1>3, <1>4, <1>6 DEF OptimizerTypeOK, Slots
    <2> QED BY <2>1 DEF Plan
  <1> QED BY <1>1, <1>5, <1>6

\* The beginning and the end of the loop leave the plan as it is.
LEMMA KeepsPlan ==
  ASSUME OptimizerTypeOK, Fresh, StartPacking \/ FinishPacking
  PROVE  Plan' = Plan
  <1> USE OptimizerAssumption
  <1>1. ASSUME StartPacking PROVE Plan' = Plan
    BY <1>1 DEF StartPacking, Fresh, Plan, Slots, input
  <1>2. ASSUME FinishPacking PROVE Plan' = Plan
    BY <1>2 DEF FinishPacking, OptimizerTypeOK, Plan, Slots, input
  <1> QED BY <1>1, <1>2

\* The solver's constraints leave the promised room.
LEMMA SolverWithinLimits ==
  ASSUME OptimizerTypeOK, Solve
  PROVE  PlanWithinLimits'
  <1> USE OptimizerAssumption
  <1>1. phase' = "solved" /\ Plan' = schedule' /\ schedule' \in Plans
    BY DEF Solve, Plans, Plan
  <1>2. schedule' \in [Slots -> SUBSET Vulns] /\ Feasible(schedule')
    BY <1>1 DEF Plans
  <1>3. goal' = goal /\ \A w \in Slots : Available(w)' = Available(w)
    BY DEF Solve, input, Available
  <1>4. IsFiniteSet(Vulns)
    BY FS_Interval DEF Vulns
  <1>5. ASSUME NEW w \in Slots
        PROVE  Cardinality(schedule'[w]) * Estimate <= Available(w)
    <2>1. Cardinality(schedule'[w]) \in Nat
      BY <1>2, <1>4, FS_Subset, FS_CardinalityType
    <2>2. Available(w) \in Nat
      BY PlanTyped
    <2>3. Cardinality(schedule'[w]) * 50 <= (Available(w) * 100) \div 60
      BY <1>2 DEF Feasible
    <2> DEFINE n == Cardinality(schedule'[w])
               a == Available(w)
    <2> HIDE DEF n, a
    <2>4. n \in Nat /\ a \in Nat /\ n * 50 <= (a * 100) \div 60
      BY <2>1, <2>2, <2>3 DEF n, a
    <2>5. 60 * ((a * 100) \div 60) <= a * 100
      BY <2>4
    <2>6. n * 30 <= a
      BY <2>4, <2>5
    <2> QED BY <2>6 DEF n, a, Estimate
  <1>6. \A w \in Slots : Cardinality(schedule'[w]) <= goal.max_vulns
    BY <1>2 DEF Feasible
  <1>7. \A u, w \in Slots : u # w => schedule'[u] \cap schedule'[w] = {}
    BY <1>2 DEF Feasible
  <1> QED BY <1>1, <1>3, <1>5, <1>6, <1>7 DEF PlanWithinLimits

-----------------------------------------------------------------------------
(* The invariant holds initially and is preserved *)

LEMMA InitOInv == OptimizerInit => OInv
  <1> SUFFICES ASSUME OptimizerInit PROVE OInv
    OBVIOUS
  <1> USE OptimizerAssumption
  <1>1. OptimizerTypeOK /\ phase = "start"
    BY DEF OptimizerInit, OptimizerTypeOK, Slots, Vulns
  <1>2. Fresh
    BY DEF OptimizerInit, Fresh
  <1>3. Plan = [w \in Slots |-> {}]
    BY <1>1, <1>2 DEF Fresh, Plan
  <1>4. \A w \in Slots : Plan[w] = {} /\ Cardinality(Plan[w]) = 0
    BY <1>3, FS_EmptySet
  <1>5. \A w \in Slots : Available(w) \in Nat /\ goal.max_vulns \in Nat
    BY <1>1, PlanTyped
  <1>6. PlanWithinLimits
    BY <1>4, <1>5 DEF PlanWithinLimits, Estimate
  <1> QED BY <1>1, <1>2, <1>4, <1>6 DEF OInv, Packed, HighestRiskFirst

LEMMA TypingStep ==
  ASSUME OptimizerTypeOK, [OptimizerNext]_optimizerVars
  PROVE  OptimizerTypeOK'
  <1> USE OptimizerAssumption
  <1>1. CASE StartPacking
    BY <1>1 DEF StartPacking, OptimizerTypeOK, input
  <1>2. CASE AddToCurrent
    BY <1>2 DEF AddToCurrent, Packing, OptimizerTypeOK, input, Vulns
  <1>3. CASE NextWindow
    BY <1>3 DEF NextWindow, Packing, OptimizerTypeOK, input, Vulns, Slots
  <1>4. CASE FinishPacking
    BY <1>4 DEF FinishPacking, OptimizerTypeOK, input
  <1>5. CASE Solve
    BY <1>5 DEF Solve, Plans, OptimizerTypeOK, input
  <1>6. CASE UNCHANGED optimizerVars
    BY <1>6 DEF optimizerVars, OptimizerTypeOK
  <1> QED BY <1>1, <1>2, <1>3, <1>4, <1>5, <1>6 DEF OptimizerNext

\* Steps that leave the plan and the limits as they are, and do not solve.
LEMMA PlanKeptStep ==
  ASSUME OInv, Plan' = Plan, UNCHANGED input,
         phase # "solved", phase' # "solved"
  PROVE  PlanWithinLimits' /\ HighestRiskFirst'
  <1>1. goal' = goal /\ \A w \in Slots : Available(w)' = Available(w)
    BY DEF input, Available
  <1>2. PlanWithinLimits'
    BY <1>1 DEF OInv, PlanWithinLimits
  <1>3. HighestRiskFirst'
    BY DEF OInv, HighestRiskFirst
  <1> QED BY <1>2, <1>3

LEMMA AddStep ==
  ASSUME OInv, AddToCurrent
  PROVE  Fresh' /\ Packed' /\ PlanWithinLimits' /\ HighestRiskFirst'
  <1> USE OptimizerAssumption
  <1>1. /\ idx \in Slots /\ next \in Vulns
        /\ Plan' = [Plan EXCEPT ![idx] = Plan[idx] \cup {next}]
        /\ Plan[idx] = current
    BY AddsOne DEF OInv
  <1>2. /\ phase = "packing" /\ phase' = "packing" /\ next' = next + 1 /\ idx' = idx
        /\ schedule' = schedule /\ goal' = goal /\ FitsCurrent
        /\ \A w \in Slots : Available(w)' = Available(w)
    BY DEF AddToCurrent, Packing, input, Available
  <1>3. Packed
    BY DEF OInv
  <1>4. next \in Nat /\ idx \in Nat /\ idx <= NWindows
    BY <1>1 DEF Slots, Vulns
  <1>5. \A w \in Slots : Plan[w] \subseteq 1..(next - 1)
    BY <1>2, <1>3 DEF Packed
  <1>6. \A u \in 1..(next - 1) : \E x \in 1..idx : u \in Plan[x]
    BY <1>2, <1>3, <1>4 DEF Packed
  <1>7. \A w \in Slots : Plan'[w] = IF w = idx THEN Plan[w] \cup {next} ELSE Plan[w]
    BY <1>1, PlanTyped DEF OInv
  <1>7a. \A w \in Slots : Plan[w] \subseteq Plan'[w]
    BY <1>7
  <1>7b. next \in Plan'[idx] /\ next' - 1 = next
    BY <1>1, <1>2, <1>4, <1>7
  <1>8. Packed'
    <2>1. ASSUME NEW w \in Slots, NEW v \in Plan'[w]
          PROVE  v \in 1..next
      <3>1. CASE v = next
        BY <1>1, <3>1 DEF Vulns
      <3>2. CASE v # next
        <4>1. v \in 1..(next - 1)
          BY <1>5, <1>7, <3>2
        <4> QED BY <1>4, <4>1
      <3> QED BY <3>1, <3>2
    <2>2. \A w \in Slots : w >= idx' => schedule'[w] = {}
      BY <1>2, <1>3 DEF Packed
    <2>3. ASSUME NEW u \in 1..(next' - 1)
          PROVE  \E x \in 1..idx' : u \in Plan'[x]
      <3>1. CASE u = next
        BY <1>1, <1>2, <1>7b, <3>1 DEF Slots
      <3>2. CASE u # next
        <4>1. u \in 1..(next - 1)
          BY <1>2, <1>4, <3>2
        <4>2. PICK x \in 1..idx : u \in Plan[x]
          BY <1>6, <4>1
        <4>3. x \in Slots /\ x \in 1..idx'
          BY <1>2, <1>4, <4>2 DEF Slots
        <4> QED BY <1>7a, <4>2, <4>3
      <3> QED BY <3>1, <3>2
    <2> QED BY <1>7b, <2>1, <2>2, <2>3 DEF Packed
  <1>9. PlanWithinLimits'
    <2>1. \A u, w \in Slots : u # w => Plan[u] \cap Plan[w] = {}
      BY DEF OInv, PlanWithinLimits
    <2>2. \A w \in Slots : next \notin Plan[w]
      BY <1>4, <1>5
    <2>3. \A u, w \in Slots : u # w => Plan'[u] \cap Plan'[w] = {}
      BY <1>7, <2>1, <2>2
    <2>4. /\ Cardinality(Plan'[idx]) <= goal.max_vulns
          /\ Cardinality(Plan'[idx]) * Estimate <= Available(idx)
      <3>1. IsFiniteSet(current) /\ Cardinality(current) \in Nat
            /\ goal.max_vulns \in Nat /\ Available(idx) \in Nat
        BY <1>1, PlanTyped DEF OInv
      <3>2. Cardinality(current \cup {next}) = Cardinality(current) + 1
        BY <1>1, <2>2, <3>1, FS_AddElement
      <3>3. Plan'[idx] = current \cup {next}
        BY <1>1, <1>7
      <3> QED BY <1>2, <3>1, <3>2, <3>3 DEF FitsCurrent, Estimate
    <2>5. \A w \in Slots \ {idx} : Plan'[w] = Plan[w]
      BY <1>7
    <2>6. \A w \in Slots :
            \/ /\ Cardinality(Plan[w]) <= goal.max_vulns
               /\ Cardinality(Plan[w]) * Estimate <= Available(w)
            \/ phase # "solved" /\ Cardinality(Plan[w]) = 1
      BY DEF OInv, PlanWithinLimits
    <2> QED BY <1>2, <2>3, <2>4, <2>5, <2>6 DEF PlanWithinLimits
  <1>10. HighestRiskFirst'
    <2> SUFFICES ASSUME NEW w \in Slots, NEW v \in Plan'[w], NEW u \in 1..(v - 1)
                 PROVE  \E x \in 1..w : u \in Plan'[x]
      BY DEF HighestRiskFirst
    <2>1. \E x \in 1..w : u \in Plan[x]
      <3>1. CASE v \in Plan[w]
        BY <1>2, <3>1 DEF OInv, HighestRiskFirst
      <3>2. CASE v \notin Plan[w]
        BY <1>6, <1>7, <3>2
      <3> QED BY <3>1, <3>2
    <2>2. PICK x \in 1..w : u \in Plan[x]
      BY <2>1
    <2>3. x \in Slots
      BY DEF Slots
    <2> QED BY <1>7a, <2>2, <2>3
  <1> QED BY <1>2, <1>8, <1>9, <1>10 DEF Fresh

LEMMA NextWindowStep ==
  ASSUME OInv, NextWindow
  PROVE  Fresh' /\ Packed' /\ PlanWithinLimits' /\ HighestRiskFirst'
  <1> USE OptimizerAssumption
  <1>1. /\ idx \in Slots /\ next \in Vulns
        /\ idx < NWindows => /\ idx + 1 \in Slots
                             /\ Plan[idx + 1] = {}
                             /\ Plan' = [Plan EXCEPT ![idx + 1] = {next}]
        /\ idx = NWindows => Plan' = Plan
    BY OpensNext DEF OInv
  <1>2. /\ phase = "packing" /\ phase' = "packing" /\ next' = next + 1 /\ idx' = idx + 1
        /\ schedule' = [schedule EXCEPT ![idx] = current] /\ goal' = goal
        /\ \A w \in Slots : Available(w)' = Available(w)
        /\ UNCHANGED input
    BY DEF NextWindow, Packing, input, Available
  <1>3. Packed
    BY DEF OInv
  <1>4. next \in Nat /\ idx \in Nat /\ idx <= NWindows
    BY <1>1 DEF Slots, Vulns
  <1>5. \A w \in Slots : Plan[w] \subseteq 1..(next - 1)
    BY <1>2, <1>3 DEF Packed
  <1>6. \A u \in 1..(next - 1) : \E x \in 1..idx : u \in Plan[x]
    BY <1>2, <1>3, <1>4 DEF Packed
  <1>7. \A w \in Slots : w >= idx' => schedule'[w] = {}
    BY <1>2, <1>3, <1>4 DEF OInv, OptimizerTypeOK, Packed, Slots
  <1>8. CASE idx = NWindows
    <2>1. Plan' = Plan
      BY <1>1, <1>8
    <2>2. Packed'
      BY <1>2, <1>4, <1>5, <1>7, <1>8, <2>1 DEF Packed
    <2> QED BY <1>2, <2>1, <2>2, PlanKeptStep DEF Fresh
  <1>9. CASE idx < NWindows
    <2>1. \A w \in Slots : Plan'[w] = IF w = idx + 1 THEN {next} ELSE Plan[w]
      BY <1>1, <1>9, PlanTyped DEF OInv
    <2>2. \A w \in Slots : Plan[w] \subseteq Plan'[w] /\ next \notin Plan[w]
      BY <1>1, <1>4, <1>5, <1>9, <2>1
    <2>3. Packed'
      <3>0. next' - 1 = next /\ next >= 1
        BY <1>1, <1>2, <1>4 DEF Vulns
      <3>1. \A w \in Slots : \A v \in Plan'[w] : v \in 1..next
        BY <1>4, <1>5, <2>1, <3>0
      <3>2. ASSUME NEW u \in 1..(next' - 1)
            PROVE  \E x \in 1..idx' : u \in Plan'[x]
        <4>1. CASE u = next
          BY <1>1, <1>2, <1>4, <1>9, <2>1, <4>1
        <4>2. CASE u # next
          <5>1. u \in 1..(next - 1)
            BY <1>2, <1>4, <4>2
          <5>2. PICK x \in 1..idx : u \in Plan[x]
            BY <1>6, <5>1
          <5> QED BY <1>2, <1>4, <2>2, <5>2 DEF Slots
        <4> QED BY <4>1, <4>2
      <3> QED BY <1>7, <3>0, <3>1, <3>2 DEF Packed
    <2>4. PlanWithinLimits'
      <3>1. \A u, w \in Slots : u # w => Plan[u] \cap Plan[w] = {}
        BY DEF OInv, PlanWithinLimits
      <3>2. \A u, w \in Slots : u # w => Plan'[u] \cap Plan'[w] = {}
        BY <2>1, <2>2, <3>1
      <3>3. Cardinality({next}) = 1
        BY FS_Singleton
      <3>4. \A w \in Slots :
              \/ /\ Cardinality(Plan[w]) <= goal.max_vulns
                 /\ Cardinality(Plan[w]) * Estimate <= Available(w)
              \/ phase # "solved" /\ Cardinality(Plan[w]) = 1
        BY DEF OInv, PlanWithinLimits
      <3> QED BY <1>2, <2>1, <3>2, <3>3, <3>4 DEF PlanWithinLimits
    <2>5. HighestRiskFirst'
      <3> SUFFICES ASSUME NEW w \in Slots, NEW v \in Plan'[w], NEW u \in 1..(v - 1)
                   PROVE  \E x \in 1..w : u \in Plan'[x]
        BY DEF HighestRiskFirst
      <3>1. \E x \in 1..w : u \in Plan[x]
        <4>1. CASE w = idx + 1
          <5>1. u \in 1..(next - 1)
            BY <2>1, <4>1
          <5> QED BY <1>4, <1>6, <4>1, <5>1
        <4>2. CASE w # idx + 1
          BY <1>2, <2>1, <4>2 DEF OInv, HighestRiskFirst
        <4> QED BY <4>1, <4>2
      <3> QED BY <2>2, <3>1 DEF Slots
    <2> QED BY <1>2, <2>3, <2>4, <2>5 DEF Fresh
  <1> QED BY <1>4, <1>8, <1>9

LEMMA NextOInv == OInv /\ [OptimizerNext]_optimizerVars => OInv'
  <1> SUFFICES ASSUME OInv, [OptimizerNext]_optimizerVars PROVE OInv'
    OBVIOUS
  <1> USE OptimizerAssumption
  <1>1. OptimizerTypeOK'
    BY TypingStep DEF OInv
  <1>2. CASE StartPacking
    <2>1. Plan' = Plan
      BY <1>2, KeepsPlan DEF OInv
    <2>2. /\ phase = "start" /\ phase' = "packing" /\ next' = 1 /\ idx' = 1
          /\ schedule' = [w \in Slots |-> {}]
      BY <1>2 DEF StartPacking, OInv, Fresh
    <2>3. \A w \in Slots : Plan'[w] = {}
      BY <1>2, <2>1, <2>2 DEF StartPacking, OInv, Fresh, Plan
    <2>4. Packed' /\ Fresh'
      BY <2>2, <2>3 DEF Packed, Fresh
    <2>5. PlanWithinLimits' /\ HighestRiskFirst'
      BY <1>2, <2>1, <2>2, PlanKeptStep DEF StartPacking
    <2> QED BY <1>1, <2>4, <2>5 DEF OInv
  <1>3. CASE AddToCurrent
    BY <1>1, <1>3, AddStep DEF OInv
  <1>4. CASE NextWindow
    BY <1>1, <1>4, NextWindowStep DEF OInv
  <1>5. CASE FinishPacking
    <2>1. Plan' = Plan
      BY <1>5, KeepsPlan DEF OInv
    <2>2. phase = "packing" /\ phase' = "packed"
      BY <1>5 DEF FinishPacking
    <2> QED BY <1>1, <1>5, <2>1, <2>2, PlanKeptStep DEF OInv, Fresh, Packed, FinishPacking
  <1>6. CASE Solve
    <2>1. phase' = "solved"
      BY <1>6 DEF Solve
    <2>2. PlanWithinLimits'
      BY <1>6, SolverWithinLimits DEF OInv
    <2> QED BY <1>1, <2>1, <2>2 DEF OInv, Fresh, Packed, HighestRiskFirst
  <1>7. CASE UNCHANGED optimizerVars
    <2>1. Plan' = Plan /\ \A w \in Slots : Available(w)' = Available(w)
      BY <1>7 DEF optimizerVars, Plan, Available
    <2> QED BY <1>1, <1>7, <2>1
            DEF optimizerVars, OInv, Fresh, Packed, PlanWithinLimits, HighestRiskFirst
  <1> QED BY <1>2, <1>3, <1>4, <1>5, <1>6, <1>7 DEF OptimizerNext

\* A window has no room for another vulnerability.
Filled(w) ==
  \/ Cardinality(Plan[w]) >= goal.max_vulns
  \/ (Cardinality(Plan[w]) + 1) * Estimate > Available(w)

\* The heuristic leaves no window that it could have used.
Behind == phase = "packing" => \A w \in Slots : w < idx => Filled(w)

BInv == Behind /\ NothingLeftBehind

LEMMA LeavesFilled ==
  ASSUME OInv, Behind, NextWindow
  PROVE  Behind'
  <1> USE OptimizerAssumption
  <1>1. /\ idx \in Slots /\ idx' = idx + 1 /\ goal' = goal /\ ~FitsCurrent
        /\ phase = "packing"
        /\ \A w \in Slots : Available(w)' = Available(w)
    BY OpensNext DEF OInv, NextWindow, Packing, input, Available
  <1>2. \A w \in Slots : w < idx' => Plan'[w] = Plan[w]
    <2>1. CASE idx < NWindows
      BY <1>1, <2>1, OpensNext, PlanTyped DEF OInv, Slots
    <2>2. CASE idx = NWindows
      BY <2>2, OpensNext DEF OInv
    <2> QED BY <1>1, <2>1, <2>2 DEF Slots
  <1>3. Filled(idx)
    <2>1. Plan[idx] = current
      BY <1>1 DEF Plan
    <2>2. Cardinality(current) \in Nat /\ goal.max_vulns \in Nat /\ Available(idx) \in Nat
      BY <1>1, PlanTyped DEF OInv
    <2> QED BY <1>1, <2>1, <2>2 DEF Filled, FitsCurrent, Estimate
  <1>4. \A w \in Slots : w < idx' => Filled(w)
    BY <1>1, <1>3 DEF Behind, Slots
  <1> QED BY <1>1, <1>2, <1>4 DEF Behind, Filled

LEMMA EndsFilled ==
  ASSUME OInv, BInv, FinishPacking
  PROVE  NothingLeftBehind'
  <1> USE OptimizerAssumption
  <1>1. /\ Plan' = Plan /\ goal' = goal /\ phase = "packing"
        /\ \A w \in Slots : Available(w)' = Available(w)
        /\ next > NVulns \/ idx > NWindows
    BY KeepsPlan DEF OInv, FinishPacking, input, Available
  <1>2. idx \in 1..(NWindows + 1) /\ next \in 1..(NVulns + 1)
    BY DEF OInv, OptimizerTypeOK
  <1>3. CASE idx > NWindows
    BY <1>1, <1>2, <1>3 DEF BInv, Behind, Filled, NothingLeftBehind, Slots
  <1>4. CASE idx <= NWindows
    <2>1. next - 1 = NVulns
      BY <1>1, <1>2, <1>4
    <2>2. \A u \in Vulns : \E x \in 1..idx : u \in Plan[x]
      BY <1>1, <1>4, <2>1 DEF OInv, Packed, Vulns
    <2>3. Vulns \subseteq Scheduled
      BY <1>2, <1>4, <2>2 DEF Scheduled, Slots
    <2>4. Scheduled \subseteq Vulns
      BY PlanTyped DEF OInv, Scheduled
    <2> QED BY <1>1, <2>3, <2>4 DEF NothingLeftBehind, Scheduled
  <1> QED BY <1>2, <1>3, <1>4

LEMMA NextBInv == OInv /\ BInv /\ [OptimizerNext]_optimizerVars => BInv'
  <1> SUFFICES ASSUME OInv, BInv, [OptimizerNext]_optimizerVars PROVE BInv'
    OBVIOUS
  <1> USE OptimizerAssumption
  <1>1. CASE StartPacking
    BY <1>1 DEF StartPacking, OInv, Fresh, BInv, Behind, NothingLeftBehind, Slots
  <1>2. CASE AddToCurrent
    <2>1. /\ phase' = "packing" /\ phase = "packing" /\ idx' = idx /\ goal' = goal
          /\ idx \in Slots
          /\ \A w \in Slots : Available(w)' = Available(w)
      BY <1>2, AddsOne DEF AddToCurrent, Packing, input, Available, OInv
    <2>2. \A w \in Slots : w < idx => Plan'[w] = Plan[w]
      BY <1>2, AddsOne, PlanTyped DEF OInv, Slots
    <2> QED BY <2>1, <2>2 DEF BInv, Behind, Filled, NothingLeftBehind
  <1>3. CASE NextWindow
    <2>1. phase' = "packing"
      BY <1>3 DEF NextWindow, Packing
    <2> QED BY <1>3, <2>1, LeavesFilled DEF BInv, NothingLeftBehind
  <1>4. CASE FinishPacking
    BY <1>4, EndsFilled DEF BInv, Behind, FinishPacking
  <1>5. CASE Solve
    BY <1>5 DEF Solve, BInv, Behind, NothingLeftBehind
  <1>6. CASE UNCHANGED optimizerVars
    BY <1>6 DEF optimizerVars, BInv, Behind, NothingLeftBehind, Filled, Scheduled, Plan,
                Available
  <1> QED BY <1>1, <1>2, <1>3, <1>4, <1>5, <1>6 DEF OptimizerNext

\* The strengthened invariant, for all constants.
THEOREM Invariance == OptimizerSpec => []OInv
  BY InitOInv, NextOInv, PTL DEF OptimizerSpec

-----------------------------------------------------------------------------
(* Theorems *)

\* The optimizer's variables keep their types.
THEOREM Typing == OptimizerSpec => []OptimizerTypeOK
  <1>1. OInv => OptimizerTypeOK
    BY DEF OInv
  <1> QED BY <1>1, Invariance, PTL

\* Neither the heuristic nor the solver ever overfills a window or puts a
\* vulnerability into two.
THEOREM WithinLimits == OptimizerSpec => []PlanWithinLimits
  <1>1. OInv => PlanWithinLimits
    BY DEF OInv
  <1> QED BY <1>1, Invariance, PTL

\* The heuristic takes vulnerabilities in the order of their scores, and none
\* of a higher score is later than one of a lower.
THEOREM RiskOrder == OptimizerSpec => []HighestRiskFirst
  <1>1. OInv => HighestRiskFirst
    BY DEF OInv
  <1> QED BY <1>1, Invariance, PTL

\* The heuristic leaves vulnerabilities out only if no window has room.
THEOREM AllRoomUsed == OptimizerSpec => []NothingLeftBehind
  <1>1. OptimizerInit => BInv
    BY DEF OptimizerInit, BInv, Behind, NothingLeftBehind
  <1>2. BInv => NothingLeftBehind
    BY DEF BInv
  <1> QED BY <1>1, <1>2, NextBInv, Invariance, PTL DEF OptimizerSpec

\* The heuristic takes by falling score whatever there is room for.
THEOREM Greedy == OptimizerSpec => []GreedyByRisk
  <1>1. HighestRiskFirst /\ NothingLeftBehind => GreedyByRisk
    BY DEF GreedyByRisk
  <1> QED BY <1>1, RiskOrder, AllRoomUsed, PTL

-----------------------------------------------------------------------------
(* Refinement *)

LEMMA PlanGrows ==
  ASSUME OInv, OptimizerNext
  PROVE  \A w \in Slots : Plan[w] \subseteq Plan'[w]
  <1> USE OptimizerAssumption
  <1>1. CASE StartPacking \/ FinishPacking
    BY <1>1, KeepsPlan DEF OInv
  <1>2. CASE AddToCurrent
    BY <1>2, AddsOne, PlanTyped DEF OInv
  <1>3. CASE NextWindow
    <2>1. CASE idx < NWindows
      BY <1>3, <2>1, OpensNext, PlanTyped DEF OInv
    <2>2. CASE idx = NWindows
      BY <1>3, <2>2, OpensNext DEF OInv
    <2>3. idx <= NWindows /\ idx \in Nat
      BY <1>3, OpensNext DEF OInv, Slots
    <2> QED BY <2>1, <2>2, <2>3
  <1>4. CASE Solve
    <2>1. \A w \in Slots : Plan[w] = {}
      BY <1>4 DEF Solve, OInv, Fresh, Plan
    <2> QED BY <2>1
  <1> QED BY <1>1, <1>2, <1>3, <1>4 DEF OptimizerNext

\* The instance has its own copy of the definition of a cardinality.
LEMMA SameCardinality == \A S : Limits!Cardinality(S) = Cardinality(S)
  BY DEF Limits!Cardinality, Cardinality

\* The limits that the solver and the heuristic keep are those that are promised.
LEMMA LimitsAllow ==
  ASSUME OptimizerTypeOK', PlanWithinLimits', goal' = goal
  PROVE  Limits!Allowed(Plan')
  <1>1. \A u, w \in Slots : u # w => Plan'[u] \cap Plan'[w] = {}
    BY DEF PlanWithinLimits
  <1>2. \A w \in Slots : Cardinality(Plan'[w]) <= goal.max_vulns \/ Cardinality(Plan'[w]) <= 1
    BY PlanTyped DEF PlanWithinLimits
  <1> QED BY <1>1, <1>2, SameCardinality DEF Limits!Allowed

LEMMA RefinedStep ==
  ASSUME OInv, OInv', [OptimizerNext]_optimizerVars
  PROVE  [Limits!Extend]_<<goal.max_vulns, Plan>>
  <1>1. CASE OptimizerNext
    <2>1. goal' = goal
      BY <1>1 DEF OptimizerNext, StartPacking, AddToCurrent, NextWindow, FinishPacking,
                  Solve, input
    <2>2. Plan' \in [Slots -> SUBSET Vulns]
      BY PlanTyped DEF OInv, OptimizerTypeOK, Plan
    <2>3. \A w \in Slots : Plan[w] \subseteq Plan'[w]
      BY <1>1, PlanGrows
    <2>4. Limits!Allowed(Plan')
      BY <2>1, LimitsAllow DEF OInv
    <2> QED BY <2>1, <2>2, <2>3, <2>4 DEF Limits!Extend
  <1>2. CASE UNCHANGED optimizerVars
    BY <1>2 DEF optimizerVars, Plan
  <1> QED BY <1>1, <1>2

\* Whichever way a plan is made, it grows as promised: no vulnerability moves or
\* is dropped once it is scheduled, and no window exceeds the goal's limit.
THEOREM Implements == OptimizerSpec => ImplementsPlanLimits
  <1>1. OInv /\ OptimizerInit => Limits!Init
    <2> SUFFICES ASSUME OInv, OptimizerInit PROVE Limits!Init
      OBVIOUS
    <2>1. goal.max_vulns \in Nat
      BY PlanTyped DEF OInv
    <2>2. Plan = [w \in Slots |-> {}]
      BY DEF OptimizerInit, Plan
    <2> QED BY <2>1, <2>2 DEF Limits!Init
  <1>2. OInv /\ OInv' /\ [OptimizerNext]_optimizerVars
          => [Limits!Extend]_<<goal.max_vulns, Plan>>
    BY RefinedStep
  <1> QED BY <1>1, <1>2, Invariance, InitOInv, PTL
          DEF OptimizerSpec, ImplementsPlanLimits, Limits!Spec

=============================================================================
