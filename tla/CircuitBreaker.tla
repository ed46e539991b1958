--------------------------- MODULE CircuitBreaker ---------------------------
(***************************************************************************)
(* call_with_circuit_breaker of services/error_service.py, for one external *)
(* service and the coroutines of one process.  A coroutine decides by the   *)
(* state of the circuit when it starts (a local variable) and acts on the   *)
(* circuit by that state when the call is over, whatever it is by then.     *)
(***************************************************************************)
EXTENDS Integers, FiniteSets

CONSTANTS Coroutines,
          Threshold,      \* circuit_failure_threshold
          MaxProbes,      \* circuit_half_open_max_requests
          MaxCalls        \* bound on the calls

ASSUME CircuitAssumption ==
  Threshold \in Nat \ {0} /\ MaxProbes \in Nat \ {0} /\ MaxCalls \in Nat

VARIABLES circuit,   \* circuit_states, circuit_failures, circuit_half_open_requests
          timedOut,  \* the last failure is longer ago than circuit_timeout
          calls,     \* calls still to be made
          local,     \* the state with which each coroutine started its call
          probing    \* history: calls since the circuit last tried to recover

circuitVars == <<circuit, timedOut, calls, local, probing>>

CircuitState == {"closed", "open", "half_open"}

CircuitTypeOK ==
  /\ circuit \in [state : CircuitState, failures : 0..MaxCalls, requests : 0..MaxProbes]
  /\ timedOut \in BOOLEAN
  /\ calls \in 0..MaxCalls
  /\ local \in [Coroutines -> CircuitState \cup {"idle"}]
  /\ probing \in 0..MaxCalls

CircuitInit ==
  /\ circuit = [state |-> "closed", failures |-> 0, requests |-> 0]
  /\ timedOut = TRUE
  /\ calls = MaxCalls
  /\ local = [c \in Coroutines |-> "idle"]
  /\ probing = 0

\* circuit_timeout seconds pass after the last failure.
TimeOut ==
  /\ ~timedOut
  /\ timedOut' = TRUE
  /\ UNCHANGED <<circuit, calls, local, probing>>

Starts(c) ==
  /\ local[c] = "idle" /\ calls > 0
  /\ calls' = calls - 1
  /\ local' = [local EXCEPT ![c] = circuit.state]
  /\ UNCHANGED timedOut

start_closed(c) ==
  /\ circuit.state = "closed"
  /\ Starts(c)
  /\ UNCHANGED <<circuit, probing>>

\* The coroutine that finds the timeout over is not counted itself, and goes on
\* with the state it has read, which is OPEN.
start_open(c) ==
  /\ circuit.state = "open" /\ timedOut
  /\ Starts(c)
  /\ circuit' = [circuit EXCEPT !.state = "half_open", !.requests = 0]
  /\ probing' = 1

\* "circuit_half_open_requests >= circuit_half_open_max_requests" is refused.
ProbesLeftOrNone == circuit.requests <= MaxProbes

ProbesLeft == circuit.requests < MaxProbes

start_half_open(c) ==
  /\ circuit.state = "half_open" /\ ProbesLeft
  /\ Starts(c)
  /\ circuit' = [circuit EXCEPT !.requests = @ + 1]
  /\ probing' = probing + 1

Ends(c) ==
  /\ local[c] # "idle"
  /\ local' = [local EXCEPT ![c] = "idle"]
  /\ UNCHANGED calls

succeed(c) ==
  /\ Ends(c)
  /\ IF local[c] = "half_open"
     THEN circuit' = [circuit EXCEPT !.state = "closed", !.failures = 0]
     ELSE circuit' = [circuit EXCEPT !.failures = IF @ = 0 THEN 0 ELSE @ - 1]
  /\ UNCHANGED <<timedOut, probing>>

fail(c) ==
  /\ Ends(c)
  /\ circuit' = [circuit EXCEPT
                   !.failures = @ + 1,
                   !.state = IF circuit.failures + 1 >= Threshold THEN "open" ELSE @]
  /\ timedOut' = FALSE
  /\ UNCHANGED probing

\* The task is cancelled: CancelledError is no Exception and passes both blocks.
cancel(c) ==
  /\ Ends(c)
  /\ UNCHANGED <<circuit, timedOut, probing>>

CircuitNext ==
  \/ TimeOut
  \/ \E c \in Coroutines : \/ start_closed(c) \/ start_open(c) \/ start_half_open(c)
                           \/ succeed(c) \/ fail(c) \/ cancel(c)

CircuitSpec == CircuitInit /\ [][CircuitNext]_circuitVars

-----------------------------------------------------------------------------
(* Properties *)

\* While a service is being tested for recovery, it gets the calls that may
\* test it and the one that found the timeout over, and no more, in whatever
\* order late answers of earlier calls move the circuit.
FewProbes == circuit.state = "half_open" => probing <= MaxProbes + 1
=============================================================================
