------------------------------- MODULE Cache -------------------------------
(* One cache store with all that arvel keeps in it: flexible entries, tagged  *)
(* entries and the tags' sets, counters, locks and the claims and locks of    *)
(* scheduled tasks. They share the clock, and flush() empties the store under *)
(* all of them; the locks and claims only on redis, where they are keys too.  *)
EXTENDS Flexible, TaggedCache, Counters, Scheduler

vars == <<now, entries, flexVars, tagVars, countVars, lockVars, runVars>>

\* What is kept under a key.
Values(k) ==
    IF k = Page THEN [read : 0..MaxTime, stamp : 0..MaxTime]
    ELSE IF k \in {Limited, Throttle} THEN Nat ELSE {"1", "value"}
Entry(k) == [value : Values(k), expires : Nat \cup {Null}]

\* Each use of the store has keys of its own.
ASSUME KeysAssumption ==
    /\ \A k \in {Page, Guard} : k \notin {Limited, Throttle}
    /\ \A k \in Tagged : k \notin {Page, Guard, Limited, Throttle}
    /\ \A k \in Keys : Null \notin Entry(k)

TypeOK ==
    /\ now \in 0..MaxTime
    /\ DOMAIN entries = Keys /\ \A k \in Keys : Present(k) => entries[k] \in Entry(k)
    /\ FlexTypeOK /\ TagTypeOK /\ CountTypeOK /\ ScheduleTypeOK

Init == now = 0 /\ StoreInit /\ FlexInit /\ TagInit /\ CountInit /\ ScheduleInit

\* CacheRepository.flush: what a put under way has registered is forgotten too.
Flush ==
    /\ entries' = [k \in Keys |-> Null]
    /\ members' = [t \in Tags |-> {}]
    /\ disturbed' = TRUE
    /\ raced' = raced \cup UNION {op[u].keys : u \in {v \in Users : In(v, "put")}}
    /\ FlushLocks
    /\ UNCHANGED <<now, caller, refresh, op, countVars, runVars>>

Tick ==
    /\ now < MaxTime
    /\ now' = now + 1
    /\ Expires /\ FlexTick /\ ScheduleTick
    /\ UNCHANGED <<tagVars, countVars>>

Next ==
    \/ FlexStep /\ UNCHANGED <<tagVars, countVars, lockVars, runVars>>
    \/ TagStep /\ UNCHANGED <<flexVars, countVars, lockVars, runVars>>
    \/ CountStep /\ UNCHANGED <<flexVars, tagVars, lockVars, runVars>>
    \/ ScheduleStep /\ UNCHANGED <<entries, flexVars, tagVars, countVars>>
    \/ Flush
    \/ Tick

Spec == Init /\ [][Next]_vars
=============================================================================
