------------------------------ MODULE MCCache ------------------------------
(* Two time units make a minute of the schedule's clock, which is set back by *)
(* two minutes, the life of a claim, after the second one.                    *)
EXTENDS Cache, TLC
CONSTANTS page, guard, limited, throttle, profile, feed, people, artists,
          a1, a2, a3, b1, b2, r1, r2, report, prune, mutex

MCKeys == {page, guard, limited, throttle, profile, feed}
MCTagsOf == [k \in Tagged |-> IF k = profile THEN Tags ELSE {people}]

MCWall == [i \in 0..7 |-> IF i < 4 THEN i \div 2 ELSE (i - 4) \div 2]
MCIdentity == [t \in Tasks |-> t]
\* Schedule.command names every task Schedule.command.<locals>._invoke.
Shared == [t \in Tasks |-> "_invoke"]
MCOwners == Runs \cup Clients
MCNames == {Mutex} \cup {OverlapName(t) : t \in Tasks}
           \cup {ClaimName(t, m) : t \in Tasks, m \in 0..1}

\* Jobs, ticks and lock clients are a1 to a3; callers and users are b1 and b2.
Alike == Permutations(Ticks) \cup Permutations(Users) \cup Permutations(Refreshes)

\* Every use of the store has keys or locks of its own and is explored alone.
VARIABLE part

OnePart ==
    /\ \/ part = "pages" /\ FlexStep /\ UNCHANGED <<tagVars, countVars, lockVars, runVars>>
       \/ part = "tags" /\ TagStep /\ UNCHANGED <<flexVars, countVars, lockVars, runVars>>
       \/ part = "counters" /\ CountStep /\ UNCHANGED <<flexVars, tagVars, lockVars, runVars>>
       \/ part = "locks" /\ LockStep
          /\ UNCHANGED <<now, entries, flexVars, tagVars, countVars, runVars>>
       \/ part = "schedule" /\ RunStep
          /\ UNCHANGED <<now, entries, flexVars, tagVars, countVars>>
       \/ part \in {"pages", "tags", "counters"} /\ Flush
       \/ part \in {"locks", "schedule"} /\ (\E n \in Names : ~Free(n)) /\ Flush
       \/ Tick
    /\ UNCHANGED part

OneInit == Init /\ part \in {"pages", "tags", "counters", "locks", "schedule"}
EachAlone == OneInit /\ [][OnePart]_<<vars, part>>

\* Tags and counters are explored until the first of their entries have expired, and the
\* schedule's clock goes on for one unit less than its table has, and for two less than that
\* once the store was flushed under it. Of a key that raced nothing is asked any more.
Enough ==
    /\ part = "tags" => now <= TagTTL /\ raced # Tagged
    /\ part = "counters" => now <= Decay + 1 /\ Count(limited) <= MaxAttempts + 1
    /\ part = "locks" => now <= 5
    /\ part = "schedule" => now + 2 * flushes <= 5
=============================================================================
