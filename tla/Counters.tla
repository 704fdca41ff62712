------------------------------ MODULE Counters ------------------------------
(* Fixed-window counters in the cache (http/rate_limiter.py and the job       *)
(* middleware RateLimited and ThrottlesExceptions): counted in one step with  *)
(* its expiry, or checked, used, counted and given an expiry in four.         *)
EXTENDS CacheStore, FiniteSets
CONSTANTS
    Limited,    \* the key counted by hit_with_ttl
    Throttle,   \* the key counted by hit, or by ThrottlesExceptions
    Jobs,       \* tasks that run under a limit
    MaxAttempts,
    Decay

ASSUME CountersAssumption ==
    /\ {Limited, Throttle} \subseteq Keys /\ Limited # Throttle
    /\ IsFiniteSet(Jobs) /\ MaxAttempts \in Nat \ {0} /\ Decay \in Nat \ {0}

VARIABLES
    job,        \* where each task is
    admitted,   \* history: how many ran since the counter of Limited was created
    died        \* history: a task died between an increment and its expiry

countVars == <<job, admitted, died>>

CountTypeOK ==
    /\ job \in [Jobs -> {"idle", "work", "count", "arm"}]
    /\ admitted \in Nat /\ died \in BOOLEAN

CountInit == job = [j \in Jobs |-> "idle"] /\ admitted = 0 /\ died = FALSE

Count(k) == IF Present(k) THEN entries[k].value ELSE 0
Increment(k) ==
    entries' = [entries EXCEPT ![k] = [value |-> Count(k) + 1,
                                       expires |-> IF Present(k) THEN @.expires ELSE Null]]
Goto(j, label) == job' = [job EXCEPT ![j] = label]

\* Mutant: the attempt is compared before it is counted.
UnderLimitBefore(count) == count - 1 <= MaxAttempts

UnderLimit(count) == count <= MaxAttempts

\* hit_with_ttl: one script increments, and arms the window of a counter it created. Then
\* RateLimited compares its own count, runs the job or puts it back.
HitWithTtl(j) ==
    /\ job[j] = "idle"
    /\ IF Present(Limited)
       THEN Increment(Limited)
       ELSE Put(Limited, 1, Decay)
    /\ admitted' = (IF Present(Limited) THEN admitted ELSE 0)
                   + (IF UnderLimit(Count(Limited) + 1) THEN 1 ELSE 0)
    /\ UNCHANGED <<now, job, died>>

\* RateLimiter.attempt and ThrottlesExceptions read the counter, and decide.
Check(j) ==
    /\ job[j] = "idle"
    /\ Count(Throttle) < MaxAttempts
    /\ Goto(j, "work")
    /\ UNCHANGED <<now, entries, admitted, died>>

\* attempt counts what returned, ThrottlesExceptions what raised; the other is not counted.
Work(j, counts) ==
    /\ job[j] = "work"
    /\ Goto(j, IF counts THEN "count" ELSE "idle")
    /\ UNCHANGED <<now, entries, admitted, died>>

Created == Count(Throttle) = 0

Hit(j) ==
    /\ job[j] = "count"
    /\ Increment(Throttle)
    /\ Goto(j, IF Created THEN "arm" ELSE "idle")
    /\ UNCHANGED <<now, admitted, died>>

Arm(j) ==
    /\ job[j] = "arm"
    /\ Expire(Throttle, Decay)
    /\ Goto(j, "idle")
    /\ UNCHANGED <<now, admitted, died>>

Clear ==
    /\ \E k \in {Limited, Throttle} : Present(k) /\ Forget(k)
    /\ UNCHANGED <<now, countVars>>

JobDies(j) ==
    /\ job[j] # "idle"
    /\ Goto(j, "idle")
    /\ died' = (died \/ job[j] = "arm")
    /\ UNCHANGED <<now, entries, admitted>>

CountStep ==
    \/ \E j \in Jobs : \/ HitWithTtl(j) \/ Check(j) \/ Hit(j) \/ Arm(j) \/ JobDies(j)
                       \/ \E counts \in BOOLEAN : Work(j, counts)
    \/ Clear

----------------------------------------------------------------------------
(* Properties *)

\* A counter is going to expire, so nobody is kept out for ever: only between its first
\* increment and the expiry that follows, or after a death there, it has none.
CountersExpire ==
    /\ Present(Limited) => entries[Limited].expires # Null
    /\ Present(Throttle) /\ entries[Throttle].expires = Null
           => died \/ \E j \in Jobs : job[j] = "arm"

\* The atomic hit lets through what the limit says; the check made before the work lets
\* through at most what was under way when the limit was reached.
WithinLimit ==
    /\ admitted <= MaxAttempts
    /\ Count(Throttle) + Cardinality({j \in Jobs : job[j] \in {"work", "count"}})
           <= MaxAttempts - 1 + Cardinality(Jobs)

CountersRight == CountersExpire /\ WithinLimit
=============================================================================
