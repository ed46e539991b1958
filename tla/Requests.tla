------------------------------ MODULE Requests ------------------------------
(***************************************************************************)
(* What the handlers of the API have in common.  A handler is a coroutine   *)
(* with a database session of its own (db/session.py): it reads what it     *)
(* decides on, decides in memory, and commits.  Nothing locks a row and the *)
(* level is READ COMMITTED, so that between the two anything may be         *)
(* committed by others.                                                     *)
(*                                                                          *)
(* A component keeps its committed tables in one variable of its own and    *)
(* has one action per handler, named after it: the handler's commit, whose  *)
(* guard speaks of what the handler read (seen[s]) and whose effect is on   *)
(* what is stored now.  A handler's SELECTs are taken to be one moment.     *)
(***************************************************************************)
EXTENDS Integers, FiniteSets

CONSTANTS Sessions,     \* requests that may be under way at once
          MaxRequests   \* bound on the requests that are made

ASSUME RequestsAssumption == MaxRequests \in Nat

VARIABLES seen,      \* for each session under way, what it has read
          isolated,  \* requests do not overlap, as with a single client
          left       \* requests still to be made

requestVars == <<seen, isolated, left>>

UnderWay == DOMAIN seen

RequestsInit ==
  /\ seen = [s \in {} |-> 0]
  /\ isolated \in BOOLEAN
  /\ left = MaxRequests

\* The handler's SELECTs: the session now works on this copy of the tables.
ReadBy(s, tables) ==
  /\ s \notin UnderWay
  /\ left > 0
  /\ isolated => UnderWay = {}
  /\ seen' = [t \in UnderWay \cup {s} |-> IF t = s THEN tables ELSE seen[t]]
  /\ left' = left - 1
  /\ UNCHANGED isolated

\* The handler's last commit, or its refusal, or the death of its process.
EndOf(s) ==
  /\ s \in UnderWay
  /\ seen' = [t \in UnderWay \ {s} |-> seen[t]]
  /\ UNCHANGED <<isolated, left>>

\* A commit after which the handler goes on, with "tables" in its memory.
GoesOn(s, tables) ==
  /\ s \in UnderWay
  /\ seen' = [seen EXCEPT ![s] = tables]
  /\ UNCHANGED <<isolated, left>>

\* How many other requests can be between their reading and their commit while
\* one is.
Overlap == IF isolated THEN 0 ELSE Cardinality(Sessions) - 1

\* The UPDATE that the unit of work emits names only the columns whose value
\* differs from the loaded one.
Put(loaded, new, stored) == IF new = loaded THEN stored ELSE new

\* The INSERT of a row into a table of rows.
Inserted(table, id, row) ==
  [i \in DOMAIN table \cup {id} |-> IF i = id THEN row ELSE table[i]]
=============================================================================
