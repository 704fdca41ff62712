----------------------------- MODULE CacheStore -----------------------------
(* The entries of one cache store and the clock they expire by. Each call of  *)
(* the client (cashews, over memory or redis) is one atomic step.             *)
EXTENDS Integers
CONSTANTS
    Keys,
    MaxTime,    \* bound: the clock stops here
    Null        \* nothing; as a ttl or an expiry: never
VARIABLES now, entries

ASSUME ClockAssumption == MaxTime \in Nat /\ Null \notin Nat

StoreInit == entries = [k \in Keys |-> Null]

Present(k) == entries[k] # Null
\* Mutant: the time to live is taken off the time.
UntilBackwards(ttl) == IF ttl = Null THEN Null ELSE now - ttl

Until(ttl) == IF ttl = Null THEN Null ELSE now + ttl

Put(k, v, ttl) == entries' = [entries EXCEPT ![k] = [value |-> v, expires |-> Until(ttl)]]
Forget(k) == entries' = [entries EXCEPT ![k] = Null]
Expire(k, ttl) ==
    entries' = IF Present(k) THEN [entries EXCEPT ![k].expires = Until(ttl)] ELSE entries

\* An expired entry counts as none, so it is dropped as it expires.
Expires ==
    entries' =
        [k \in Keys |-> IF Present(k) /\ entries[k].expires = now + 1 THEN Null ELSE entries[k]]
=============================================================================
