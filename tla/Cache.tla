--------------------------------- MODULE Cache ---------------------------------
(***************************************************************************)
(* services/cache_service.py: what the decorators "cached" and              *)
(* "cache_invalidate_on_write" do with one query and the entity it is       *)
(* about, for one tenant.                                                   *)
(*                                                                          *)
(* The key contains a hash that Python salts in each process, so that every *)
(* process has an entry of its own in Redis; the pattern of an invalidation *)
(* matches them all.  Nothing holds between the steps of a call.            *)
(***************************************************************************)
EXTENDS Integers, FiniteSets, FiniteSetsExt

CONSTANTS Workers,     \* processes of the application
          CacheCalls,  \* calls of the decorated functions
          Ttl,         \* in ticks of the clock
          MaxClock, MaxVersions

ASSUME CacheAssumption == Ttl \in Nat \ {0} /\ MaxClock \in Nat /\ MaxVersions \in Nat

VARIABLES time,
          replaced,  \* when each version of the data was replaced by the next
          cache,     \* Redis: for each process its entry, and until when
          running,   \* the calls: where they are, and what they hold
          alone,     \* calls do not overlap
          failures,  \* Redis may fail, and processes die
          staleness, \* history: how long ago the value returned was replaced,
                     \* at most, and 0 if it was still the newest
          slowness   \* history: the longest a result waited to be stored

cacheVars ==
  <<time, replaced, cache, running, alone, failures, staleness, slowness>>

Version == Cardinality(DOMAIN replaced)

NoEntry == [value |-> 0, until |-> 0]

Waiting == [at |-> "idle", worker |-> 0, value |-> 0, since |-> 0, keys |-> {}]

CacheTypeOK ==
  /\ time \in 0..MaxClock
  /\ DOMAIN replaced = 0..(Version - 1)
  /\ cache \in [Workers -> [value : 0..MaxVersions, until : 0..(MaxClock + Ttl)]]
  /\ \A c \in CacheCalls :
       /\ running[c].at \in {"idle", "missed", "computed", "written", "scanned"}
       /\ running[c].value \in 0..Version /\ running[c].keys \subseteq Workers
  /\ staleness \in 0..(MaxClock + 1) /\ slowness \in 0..MaxClock

CacheInit ==
  /\ time = 0
  /\ replaced = [v \in {} |-> 0]
  /\ cache = [w \in Workers |-> NoEntry]
  /\ running = [c \in CacheCalls |-> Waiting]
  /\ alone \in BOOLEAN /\ failures \in BOOLEAN
  /\ staleness = 0 /\ slowness = 0

CacheTick ==
  /\ time < MaxClock
  /\ time' = time + 1
  /\ UNCHANGED <<replaced, cache, running, alone, failures, staleness, slowness>>

\* Redis drops an entry when its time to live is over.
Live(w) == time < cache[w].until

Begins(c) ==
  /\ running[c].at = "idle"
  /\ alone => \A d \in CacheCalls : running[d].at = "idle"

At(c, place) == running[c].at = place

Returns(value) ==
  staleness' = Max({staleness, IF value = Version THEN 0 ELSE 1 + time - replaced[value]})

get_hit(c, w) ==
  /\ Begins(c)
  /\ Live(w)
  /\ Returns(cache[w].value)
  /\ UNCHANGED <<time, replaced, cache, running, alone, failures, slowness>>

\* There is no entry, Redis fails, or it could not be reached when the process
\* started, which it does not try again.
get_miss(c, w) ==
  /\ Begins(c)
  /\ ~Live(w) \/ failures
  /\ running' = [running EXCEPT ![c] = [Waiting EXCEPT !.at = "missed", !.worker = w]]
  /\ UNCHANGED <<time, replaced, cache, alone, failures, staleness, slowness>>

\* The decorated function asks the database.
call_function(c) ==
  /\ At(c, "missed")
  /\ running' = [running EXCEPT ![c] = [@ EXCEPT !.at = "computed", !.value = Version,
                                                 !.since = time]]
  /\ UNCHANGED <<time, replaced, cache, alone, failures, staleness, slowness>>

\* As if the entry had no time to live: a variant of the next.
EntryForever(value) == [value |-> value, until |-> MaxClock + Ttl]

Entry(value) == [value |-> value, until |-> time + Ttl]

\* The result is stored, whatever was written in the meantime, and returned.
set(c) ==
  /\ At(c, "computed")
  /\ cache' = [cache EXCEPT ![running[c].worker] = Entry(running[c].value)]
  /\ slowness' = Max({slowness, time - running[c].since})
  /\ running' = [running EXCEPT ![c] = Waiting]
  /\ UNCHANGED <<time, replaced, alone, failures, staleness>>

set_failing(c) ==
  /\ At(c, "computed") /\ failures
  /\ running' = [running EXCEPT ![c] = Waiting]
  /\ UNCHANGED <<time, replaced, cache, alone, failures, staleness, slowness>>

\* A decorated function that writes: it has committed when it returns.
write(c) ==
  /\ Begins(c)
  /\ Version < MaxVersions
  /\ replaced' = [v \in 0..Version |-> IF v = Version THEN time ELSE replaced[v]]
  /\ running' = [running EXCEPT ![c] = [Waiting EXCEPT !.at = "written"]]
  /\ UNCHANGED <<time, cache, alone, failures, staleness, slowness>>

\* delete_pattern: the keys are listed, then deleted.
scan_iter(c) ==
  /\ At(c, "written")
  /\ running' = [running EXCEPT ![c] = [@ EXCEPT !.at = "scanned",
                                                 !.keys = {w \in Workers : Live(w)}]]
  /\ UNCHANGED <<time, replaced, cache, alone, failures, staleness, slowness>>

delete(c) ==
  /\ At(c, "scanned")
  /\ cache' = [w \in Workers |-> IF w \in running[c].keys THEN NoEntry ELSE cache[w]]
  /\ running' = [running EXCEPT ![c] = Waiting]
  /\ UNCHANGED <<time, replaced, alone, failures, staleness, slowness>>

\* An error of Redis is logged and the write is answered as usual; or the
\* process dies.
invalidate_failing(c) ==
  /\ At(c, "written") \/ At(c, "scanned")
  /\ failures
  /\ running' = [running EXCEPT ![c] = Waiting]
  /\ UNCHANGED <<time, replaced, cache, alone, failures, staleness, slowness>>

CacheNext ==
  \/ CacheTick
  \/ \E c \in CacheCalls :
       \/ \E w \in Workers : get_hit(c, w) \/ get_miss(c, w)
       \/ call_function(c) \/ set(c) \/ set_failing(c)
       \/ write(c) \/ scan_iter(c) \/ delete(c) \/ invalidate_failing(c)

-----------------------------------------------------------------------------
(* Property *)

\* Calls one after the other, with a Redis that works, return what is stored.
\* Whatever overlaps, fails or dies, a value is not returned from the cache
\* after its time to live, counted from when it was last the newest, except for
\* as long as the call that has read it took to store it.
FreshEnough ==
  /\ alone /\ ~failures => staleness = 0
  /\ staleness <= Ttl + slowness
=============================================================================
