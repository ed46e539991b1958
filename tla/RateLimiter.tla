----------------------------- MODULE RateLimiter -----------------------------
(***************************************************************************)
(* The sliding window of services/rate_limiter.py, for one key, as          *)
(* api/v1/auth.py asks it before every login and registration.              *)
(*                                                                          *)
(* A sorted set in Redis holds the times of the calls that were let         *)
(* through.  A call drops what has left the window and counts the rest in   *)
(* one transaction, and adds its own time later, by another command.  The   *)
(* time is all there is of a member: calls with the same one are the same   *)
(* member, and count as one.                                                *)
(*                                                                          *)
(* The processes' clocks are taken to agree; a call's time is nevertheless  *)
(* older than that of others by the time it reaches Redis.                  *)
(***************************************************************************)
EXTENDS Integers, FiniteSets

CONSTANTS Callers,        \* coroutines of all processes
          Limit, Window,  \* limit and window_seconds
          MaxTime         \* bound on the clock

ASSUME RateAssumption ==
  /\ Callers # {} /\ IsFiniteSet(Callers)
  /\ Limit \in Nat \ {0} /\ Window \in Nat \ {0} /\ MaxTime \in Nat

VARIABLES clock,
          entries,   \* the sorted set: its members are times, str(now)
          call,      \* where each caller is, and the time it has taken
          serial,    \* calls do not overlap
          allowed,   \* history: calls let through
          outage     \* history: Redis has failed some call

rateVars == <<clock, entries, call, serial, allowed, outage>>

\* A caller takes a time once only; several callers may take the same.
Calls == Callers \X (0..MaxTime)

Idle == [at |-> "idle", now |-> 0]

RateTypeOK ==
  /\ clock \in 0..MaxTime
  /\ entries \in SUBSET (0..MaxTime)
  /\ call \in [Callers -> [at : {"idle", "counting", "adding"}, now : 0..MaxTime]]
  /\ serial \in BOOLEAN
  /\ allowed \in SUBSET Calls
  /\ outage \in BOOLEAN

RateInit ==
  /\ clock = 0
  /\ entries = {}
  /\ call = [c \in Callers |-> Idle]
  /\ serial \in BOOLEAN
  /\ allowed = {}
  /\ outage = FALSE

Tick ==
  /\ clock < MaxTime
  /\ clock' = clock + 1
  /\ UNCHANGED <<entries, call, serial, allowed, outage>>

\* "now = time.time()".
check_rate_limit(c) ==
  /\ call[c].at = "idle" /\ <<c, clock>> \notin allowed
  /\ serial => \A d \in Callers : call[d].at = "idle"
  /\ call' = [call EXCEPT ![c] = [at |-> "counting", now |-> clock]]
  /\ UNCHANGED <<clock, entries, serial, allowed, outage>>

Recent(members, now) == {m \in members : m > now - Window}

\* "current_count >= limit" is refused.
BelowLimitOrAt(members) == Cardinality(members) <= Limit

BelowLimit(members) == Cardinality(members) < Limit

\* zremrangebyscore and zcard.
count(c) ==
  /\ call[c].at = "counting"
  /\ entries' = Recent(entries, call[c].now)
  /\ call' = [call EXCEPT ![c] = IF BelowLimit(entries') THEN [@ EXCEPT !.at = "adding"]
                                                          ELSE Idle]
  /\ UNCHANGED <<clock, serial, allowed, outage>>

\* zadd, and the expiry of the key, which is later than any member's.
add(c) ==
  /\ call[c].at = "adding"
  /\ entries' = entries \cup {call[c].now}
  /\ allowed' = allowed \cup {<<c, call[c].now>>}
  /\ call' = [call EXCEPT ![c] = Idle]
  /\ UNCHANGED <<clock, serial, outage>>

\* Redis cannot be reached, or its answer cannot: the call is let through, and
\* what it asked for may have been done.
fail_open(c) ==
  /\ call[c].at # "idle"
  /\ entries' \in {entries, IF call[c].at = "counting" THEN Recent(entries, call[c].now)
                                                     ELSE entries \cup {call[c].now}}
  /\ allowed' = allowed \cup {<<c, call[c].now>>}
  /\ call' = [call EXCEPT ![c] = Idle]
  /\ outage' = TRUE
  /\ UNCHANGED <<clock, serial>>

RateNext ==
  \/ Tick
  \/ \E c \in Callers : \/ check_rate_limit(c)
                        \/ count(c)
                        \/ add(c)
                        \/ fail_open(c)

RateSpec == RateInit /\ [][RateNext]_rateVars

-----------------------------------------------------------------------------
(* Properties *)

\* The times in the window that ends with t at which calls were let through.
Moments(t) == {n \in 0..MaxTime : /\ n > t - Window /\ n <= t
                                  /\ \E c \in Callers : <<c, n>> \in allowed}

\* Calls are let through at no more different times of a window than the limit
\* says, and of calls that overlap at two more for each other caller: one that
\* has not added itself when the rest count, and one whose time is older than
\* that of a call which has dropped already what it should have counted.  The
\* bound is on times: calls that took the same time count as one, however many.
Slack == IF serial THEN 0 ELSE 2 * (Cardinality(Callers) - 1)

WithinLimit == ~outage => \A t \in 0..MaxTime : Cardinality(Moments(t)) <= Limit + Slack
=============================================================================
