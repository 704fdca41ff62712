---------------------------- MODULE DurableJobs ----------------------------
(***************************************************************************)
(* The durable `jobs` table of arvel.queue (class DurableJobs) and the     *)
(* workers that drain it.  A delayed or released job is a row; every       *)
(* worker runs release_due over and over: it frees the reservations whose  *)
(* visibility deadline has passed, reads the due rows, and for each of     *)
(* them claims the row, decodes it, refines the deadline, pushes the job   *)
(* onto the broker and deletes the row.  Every await on the database or    *)
(* the broker is a step of its own, so several workers interleave between  *)
(* any two of them, and a pass may be abandoned at any await (the process  *)
(* dies, or the statement raises and the release loop swallows it).        *)
(*                                                                         *)
(* SQL's NULL is the constant Null.  Row ids are autoincrement and never   *)
(* reused, so a row is named by its job.                                   *)
(***************************************************************************)
EXTENDS Integers, FiniteSets

CONSTANTS
    Jobs,           \* the rows that may ever be stored
    Workers,        \* the processes running release_due
    Queues,         \* queue labels
    QueueOf,        \* [Jobs -> Queues], JobRouter.label's answer for the job
    Rank,           \* [Workers -> queue |-> index in work(queues=[...])]
    Null,           \* SQL NULL
    RetryAfter,     \* queue.retry_after: the default visibility window, seconds
    Override,       \* [Jobs -> window or Null], the job class's retry_after
    Poison,         \* jobs whose payload no worker can deserialize
    Legacy,         \* rows reserved before the reserved_until column existed
    Delays,         \* delays asked of store: [sec, sub] records
    SubSecond,      \* clock ticks per second
    MaxSecond,      \* bound: the clock stops here
    MaxFaults       \* bound: passes abandoned midway

Second == Nat
Instant == [sec : Nat, sub : 0..SubSecond - 1]

ASSUME JobsAssumption ==
    /\ QueueOf \in [Jobs -> Queues]
    /\ Poison \subseteq Jobs
    /\ Legacy \subseteq Jobs
    /\ Override \in [Jobs -> Nat \cup {Null}]

ASSUME ClockAssumption ==
    /\ Null \notin Nat
    /\ RetryAfter \in Nat
    /\ SubSecond \in Nat \ {0}
    /\ MaxSecond \in Nat
    /\ MaxFaults \in Nat
    /\ Delays \subseteq Instant

ASSUME WorkersAssumption ==
    /\ IsFiniteSet(Workers)
    /\ \A w \in Workers : /\ DOMAIN Rank[w] \subseteq Queues
                          /\ \A q \in DOMAIN Rank[w] : Rank[w][q] \in Nat

VARIABLES
    clock,          \* the wall clock, an Instant
    rows,           \* ids present in the jobs table
    availableAt,    \* column available_at
    reservedAt,     \* column reserved_at
    reservedUntil,  \* column reserved_until
    pushed,         \* external: deliveries handed to the broker, per job
    pc,             \* where each worker is in release_due
    moment,         \* release_due's `moment`, read once per pass
    stuck,          \* the rows _reclaim_stuck read, with the column it compares
    due,            \* the rows left in the `due` loop
    cur,            \* the row the worker has claimed
    stored,         \* history: every job ever stored
    notBefore,      \* history: the instant the caller asked for, per job
    frees,          \* history: reservations of the job that were freed
    faults          \* bound: passes abandoned so far

table == <<rows, availableAt, reservedAt, reservedUntil>>
pass == <<pc, moment, stuck, due, cur>>
history == <<stored, notBefore, frees>>
vars == <<clock, table, pushed, pass, history, faults>>

-----------------------------------------------------------------------------
(* Time.  available_at and reserved_* are integer unix seconds, read with  *)
(* int(time.time()); the clock itself is finer.                            *)

Earlier(s, t) == s.sec < t.sec \/ (s.sec = t.sec /\ s.sub < t.sub)

Plus(t, d) ==
    IF t.sub + d.sub < SubSecond
    THEN [sec |-> t.sec + d.sec, sub |-> t.sub + d.sub]
    ELSE [sec |-> t.sec + d.sec + 1, sub |-> t.sub + d.sub - SubSecond]

\* math.ceil(delay)
CeilSeconds(d) == IF d.sub > 0 THEN d.sec + 1 ELSE d.sec

\* The visibility window a claimed job ends up with.
Window(j) == IF Override[j] = Null THEN RetryAfter ELSE Override[j]

\* The window no claim of j undercuts: the default until the deadline is
\* refined, the job's own afterwards.
SureWindow(j) == IF Window(j) < RetryAfter THEN Window(j) ELSE RetryAfter

-----------------------------------------------------------------------------
Init ==
    /\ clock = [sec |-> 0, sub |-> 0]
    /\ rows = Legacy
    /\ availableAt = [j \in Jobs |-> 0]
    /\ reservedAt = [j \in Jobs |-> IF j \in Legacy THEN 0 ELSE Null]
    /\ reservedUntil = [j \in Jobs |-> Null]
    /\ pushed = [j \in Jobs |-> 0]
    /\ pc = [w \in Workers |-> "idle"]
    /\ moment = [w \in Workers |-> Null]
    /\ stuck = [w \in Workers |-> {}]
    /\ due = [w \in Workers |-> {}]
    /\ cur = [w \in Workers |-> Null]
    /\ stored = Legacy
    /\ notBefore = [j \in Jobs |-> [sec |-> 0, sub |-> 0]]
    /\ frees = [j \in Jobs |-> 0]
    /\ faults = 0

Tick ==
    /\ clock.sec < MaxSecond
    /\ clock' = Plus(clock, IF SubSecond = 1 THEN [sec |-> 1, sub |-> 0]
                                             ELSE [sec |-> 0, sub |-> 1])
    /\ UNCHANGED <<table, pushed, pass, history, faults>>

\* Mutant: int(delay) instead of math.ceil(delay).
TruncatedDue(delay) == clock.sec + delay.sec

\* Mutant: the insert leaves available_at out.
UndatedDue(delay) == Null

\* int(time.time()) + math.ceil(delay)
DueSecond(delay) == clock.sec + CeilSeconds(delay)

\* store: a new row, due `delay` from now.
Store(j) ==
    \E delay \in Delays :
        /\ j \notin stored
        /\ clock.sec + CeilSeconds(delay) <= MaxSecond
        /\ rows' = rows \cup {j}
        /\ stored' = stored \cup {j}
        /\ availableAt' = [availableAt EXCEPT ![j] = DueSecond(delay)]
        /\ notBefore' = [notBefore EXCEPT ![j] = Plus(clock, delay)]
        /\ UNCHANGED <<clock, reservedAt, reservedUntil, pushed, pass, frees, faults>>

-----------------------------------------------------------------------------
(* release_due, one action per await.                                      *)

Goto(w, label) == pc' = [pc EXCEPT ![w] = label]

\* Back to idle with no local state: the loop is done, or the pass is lost.
Forget(w) ==
    /\ Goto(w, "idle")
    /\ moment' = [moment EXCEPT ![w] = Null]
    /\ stuck' = [stuck EXCEPT ![w] = {}]
    /\ due' = [due EXCEPT ![w] = {}]
    /\ cur' = [cur EXCEPT ![w] = Null]

StartPass(w) ==
    /\ pc[w] = "idle"
    /\ moment' = [moment EXCEPT ![w] = clock.sec]
    /\ Goto(w, "overdue")
    /\ UNCHANGED <<clock, table, pushed, stuck, due, cur, history, faults>>

\* _reclaim_stuck reads the rows whose deadline has passed ...
ReadOverdue(w) ==
    /\ pc[w] = "overdue"
    /\ stuck' = [stuck EXCEPT ![w] =
           {<<j, reservedUntil[j]>> : j \in {r \in rows :
               reservedUntil[r] # Null /\ reservedUntil[r] <= moment[w]}}]
    /\ Goto(w, "free")
    /\ UNCHANGED <<clock, table, pushed, moment, due, cur, history, faults>>

\* Mutant: UPDATE ... WHERE id only.
AnyDeadline(j, deadline) == j \in rows

\* The optimistic WHERE of the freeing UPDATE.
SameDeadline(j, deadline) == j \in rows /\ reservedUntil[j] = deadline

\* ... and frees each with an UPDATE that skips a row whose deadline changed.
FreeOverdue(w) ==
    \E s \in stuck[w] :
        LET j == s[1]
            hit == SameDeadline(j, s[2])
        IN
        /\ pc[w] = "free"
        /\ stuck' = [stuck EXCEPT ![w] = @ \ {s}]
        /\ reservedAt' = IF hit THEN [reservedAt EXCEPT ![j] = Null] ELSE reservedAt
        /\ reservedUntil' = IF hit THEN [reservedUntil EXCEPT ![j] = Null]
                                   ELSE reservedUntil
        /\ frees' = IF hit THEN [frees EXCEPT ![j] = @ + 1] ELSE frees
        /\ UNCHANGED <<clock, rows, availableAt, pushed, pc, moment, due, cur,
                       stored, notBefore, faults>>

\* Rows reserved without a deadline are freed at the default window.
ReadLegacy(w) ==
    /\ pc[w] = "free"
    /\ stuck[w] = {}
    /\ stuck' = [stuck EXCEPT ![w] =
           {<<j, reservedAt[j]>> : j \in {r \in rows :
               /\ reservedAt[r] # Null
               /\ reservedUntil[r] = Null
               /\ reservedAt[r] <= moment[w] - RetryAfter}}]
    /\ Goto(w, "legacy")
    /\ UNCHANGED <<clock, table, pushed, moment, due, cur, history, faults>>

FreeLegacy(w) ==
    \E s \in stuck[w] :
        LET j == s[1]
            hit == j \in rows /\ reservedAt[j] = s[2]
        IN
        /\ pc[w] = "legacy"
        /\ stuck' = [stuck EXCEPT ![w] = @ \ {s}]
        /\ reservedAt' = IF hit THEN [reservedAt EXCEPT ![j] = Null] ELSE reservedAt
        /\ frees' = IF hit THEN [frees EXCEPT ![j] = @ + 1] ELSE frees
        /\ UNCHANGED <<clock, rows, availableAt, reservedUntil, pushed, pc, moment,
                       due, cur, stored, notBefore, faults>>

\* Mutant: the claim is an UPDATE by id alone.
Exists(j) == j \in rows

\* WHERE reserved_at IS NULL
Unreserved(j) == j \in rows /\ reservedAt[j] = Null

\* Mutant: the query has no available_at condition.
UnreservedAtAll(w) == {j \in rows : reservedAt[j] = Null}

DueRows(w) == {j \in rows : availableAt[j] <= moment[w] /\ reservedAt[j] = Null}

\* The due rows nobody holds, of the queues this worker serves.
SelectDue(w) ==
    /\ pc[w] = "legacy"
    /\ stuck[w] = {}
    /\ due' = [due EXCEPT ![w] =
           {j \in DueRows(w) : QueueOf[j] \in DOMAIN Rank[w]}]
    /\ Goto(w, "release")
    /\ UNCHANGED <<clock, table, pushed, moment, stuck, cur, history, faults>>

\* The loop takes the rows queue by queue, in the worker's priority order.
Foremost(w, j) ==
    /\ j \in due[w]
    /\ \A k \in due[w] : Rank[w][QueueOf[j]] <= Rank[w][QueueOf[k]]

\* The atomic claim, with the default window; another worker's row is skipped.
Claim(w) ==
    \E j \in due[w] :
        LET won == Unreserved(j) IN
        /\ pc[w] = "release"
        /\ Foremost(w, j)
        /\ due' = [due EXCEPT ![w] = @ \ {j}]
        /\ \/ /\ won
              /\ reservedAt' = [reservedAt EXCEPT ![j] = moment[w]]
              /\ reservedUntil' = [reservedUntil EXCEPT ![j] = moment[w] + RetryAfter]
              /\ cur' = [cur EXCEPT ![w] = j]
              /\ Goto(w, "claimed")
           \/ /\ ~won
              /\ UNCHANGED <<reservedAt, reservedUntil, cur, pc>>
        /\ UNCHANGED <<clock, rows, availableAt, pushed, moment, stuck, history, faults>>

\* Mutant: an undecodable payload leaves release_due, its claim rolled back.
PoisonAborts(w) ==
    /\ pc[w] = "claimed"
    /\ cur[w] \in Poison
    /\ reservedAt' = [reservedAt EXCEPT ![cur[w]] = Null]
    /\ reservedUntil' = [reservedUntil EXCEPT ![cur[w]] = Null]
    /\ Forget(w)
    /\ UNCHANGED <<clock, rows, availableAt, pushed, history, faults>>

\* deserialize_instance raised: the row stays parked as reserved.
ParkPoison(w) ==
    /\ pc[w] = "claimed"
    /\ cur[w] \in Poison
    /\ cur' = [cur EXCEPT ![w] = Null]
    /\ Goto(w, "release")
    /\ UNCHANGED <<clock, table, pushed, moment, stuck, due, history, faults>>

\* The payload decoded: the job's own window replaces the default, unless the
\* row is no longer reserved at this worker's moment.
Refine(w) ==
    LET j == cur[w]
        hit == Override[j] # Null /\ j \in rows /\ reservedAt[j] = moment[w]
    IN
    /\ pc[w] = "claimed"
    /\ j \notin Poison
    /\ reservedUntil' = IF hit THEN [reservedUntil EXCEPT ![j] = moment[w] + Override[j]]
                               ELSE reservedUntil
    /\ Goto(w, "push")
    /\ UNCHANGED <<clock, rows, availableAt, reservedAt, pushed, moment, stuck, due,
                   cur, history, faults>>

\* Mutant: a failing push is swallowed and the row deleted all the same.
PushSwallowed(w) ==
    /\ pc[w] = "push"
    /\ pushed' \in {pushed, [pushed EXCEPT ![cur[w]] = @ + 1]}
    /\ Goto(w, "delete")
    /\ UNCHANGED <<clock, table, moment, stuck, due, cur, history, faults>>

\* push_instance: the broker holds one more message of the job.
Push(w) ==
    /\ pc[w] = "push"
    /\ pushed' = [pushed EXCEPT ![cur[w]] = @ + 1]
    /\ Goto(w, "delete")
    /\ UNCHANGED <<clock, table, moment, stuck, due, cur, history, faults>>

\* row.delete() goes by id, whoever holds the row by now.
Delete(w) ==
    LET j == cur[w] IN
    /\ pc[w] = "delete"
    /\ rows' = rows \ {j}
    /\ reservedAt' = [reservedAt EXCEPT ![j] = Null]
    /\ reservedUntil' = [reservedUntil EXCEPT ![j] = Null]
    /\ cur' = [cur EXCEPT ![w] = Null]
    /\ Goto(w, "release")
    /\ UNCHANGED <<clock, availableAt, pushed, moment, stuck, due, history, faults>>

EndPass(w) ==
    /\ pc[w] = "release"
    /\ due[w] = {}
    /\ Forget(w)
    /\ UNCHANGED <<clock, table, pushed, history, faults>>

-----------------------------------------------------------------------------
(* The process dies, or an await raises and _release_loop swallows it.     *)
(* Bounds: MaxFaults, and early enough that every visibility window still  *)
(* ends before the clock stops.                                            *)

Abandon(w) ==
    /\ pc[w] # "idle"
    /\ faults < MaxFaults
    /\ \A j \in Jobs : clock.sec + RetryAfter <= MaxSecond /\ clock.sec + Window(j) <= MaxSecond
    /\ faults' = faults + 1
    /\ Forget(w)
    /\ UNCHANGED <<clock, table, pushed, history>>

Work(w) ==
    \/ StartPass(w)
    \/ ReadOverdue(w) \/ FreeOverdue(w)
    \/ ReadLegacy(w) \/ FreeLegacy(w)
    \/ SelectDue(w) \/ Claim(w)
    \/ ParkPoison(w) \/ Refine(w) \/ Push(w) \/ Delete(w)
    \/ EndPass(w)

Next ==
    \/ Tick
    \/ \E j \in Jobs : Store(j)
    \/ \E w \in Workers : Work(w) \/ Abandon(w)

Spec == Init /\ [][Next]_vars

\* Time passes, and the release loop of every worker keeps running: it is a
\* `while` that only a stop request ends and no exception leaves.
Fairness == WF_vars(Tick) /\ \A w \in Workers : WF_vars(Work(w))

FairSpec == Spec /\ Fairness

-----------------------------------------------------------------------------
(* Properties.                                                             *)

Holding == {"claimed", "push", "delete"}
Labels == Holding \cup {"idle", "overdue", "free", "legacy", "release"}

TypeOK ==
    /\ clock \in Instant
    /\ rows \subseteq stored
    /\ stored \subseteq Jobs
    /\ availableAt \in [Jobs -> Second]
    /\ reservedAt \in [Jobs -> Second \cup {Null}]
    /\ reservedUntil \in [Jobs -> Second \cup {Null}]
    /\ pushed \in [Jobs -> Nat]
    /\ pc \in [Workers -> Labels]
    /\ moment \in [Workers -> Second \cup {Null}]
    /\ stuck \in [Workers -> SUBSET (Jobs \X Second)]
    /\ due \in [Workers -> SUBSET Jobs]
    /\ cur \in [Workers -> Jobs \cup {Null}]
    /\ notBefore \in [Jobs -> Instant]
    /\ frees \in [Jobs -> Nat]
    /\ faults \in 0..MaxFaults

Holds(w, j) == pc[w] \in Holding /\ cur[w] = j

\* The worker's claim on j is younger than every window the row may carry.
Fresh(w, j) == Holds(w, j) /\ clock.sec < moment[w] + SureWindow(j)

\* No job is lost (release_due's claim, push, delete order): whatever workers
\* die or stall between the claim and the delete, and whoever else deletes the
\* row, a stored job is still a row or has reached the broker.
NoJobLost == \A j \in stored : j \in rows \/ pushed[j] > 0

\* The visibility timeout is a lease (atomic claim, optimistic reclaim): two
\* workers may be inside the claim-push-delete section of one row only if one
\* of them has outlived its window.
LeaseExclusive ==
    \A w, v \in Workers : \A j \in Jobs :
        Fresh(w, j) /\ Fresh(v, j) => w = v

\* "No double-dispatch": the broker gets a job more often than once only after
\* a visibility timeout freed a reservation of it, and once more per freeing.
DuplicateNeedsTimeout == \A j \in Jobs : pushed[j] <= 1 + frees[j]

\* The delay is rounded up: a job reaches the broker less than one second
\* before the instant its dispatcher asked for, never earlier than that.
LessThanASecondEarly ==
    [][\A j \in Jobs : pushed'[j] > pushed[j] =>
           Earlier(notBefore[j], Plus(clock, [sec |-> 1, sub |-> 0]))]_vars

\* At-least-once delivery: every decodable job reaches the broker, past worker
\* deaths, failing statements and undecodable rows ahead of it in the loop.
EveryJobReleased ==
    \A j \in Jobs \ Poison : j \in stored ~> pushed[j] > 0

\* The table implements what the rail promises: a row is what is owed.
Rail == INSTANCE DelayedDelivery WITH
    Deliverable <- Jobs \ Poison,
    accepted <- stored,
    ripe <- {j \in stored : availableAt[j] <= clock.sec},
    owed <- rows,
    delivered <- {j \in Jobs : pushed[j] > 0}

\* release_due delivers a stored job at least once and never before it is due,
\* and deletes the row only of a job that has been delivered.
ImplementsRail == Rail!Spec

=============================================================================
