----------------------------- MODULE Scheduler -----------------------------
(* schedule:run on several servers (queue/scheduler.py): each tick runs the   *)
(* due tasks concurrently; on_one_server claims the minute in the cache and   *)
(* keeps the claim, without_overlapping holds a lock around the run.          *)
EXTENDS CacheLocks
CONSTANTS
    Ticks,          \* invocations of schedule:run
    Tasks,
    Identity,       \* [Tasks -> the name its locks are made of]
    OneServer,      \* tasks with on_one_server
    Overlap,        \* tasks with without_overlapping
    ClaimTTL, OverlapTTL,
    Wall,           \* the minute a task's local clock shows, as a function of time
    Skew            \* how far a server's clock may be ahead

Runs == Ticks \X Tasks
ClaimName(t, minute) == <<"one_server", Identity[t], minute>>
OverlapName(t) == <<"overlap", Identity[t]>>

ASSUME SchedulerAssumption ==
    /\ ClaimTTL \in Nat \ {0} /\ OverlapTTL \in Nat \ {0}
    /\ Skew \in Nat /\ 0..(MaxTime + Skew) \subseteq DOMAIN Wall
    /\ Runs \subseteq Owners /\ Runs \cap Clients = {}
    /\ OneServer \subseteq Tasks /\ Overlap \subseteq Tasks
    /\ \A t \in Tasks : OverlapName(t) \in Names \ {Mutex}
    /\ \A t \in Tasks, i \in DOMAIN Wall : ClaimName(t, Wall[i]) \in Names \ {Mutex}
    /\ \A i \in DOMAIN Wall : Wall[i] # Null
    /\ Null \notin [at : Nat, flushes : Nat]

VARIABLES
    minute,     \* [Ticks -> the minute it runs for, or Null before it started]
    pc,         \* [Runs -> where event.run is]
    claimed,    \* history: when a run claimed its minute and after how many flushes, or Null
    executed,   \* history: the runs whose callback was called
    lostTo,     \* history: whose lock made a run skip, or Null
    abandoned   \* history: the runs that ended without their finally block

runVars == <<minute, pc, claimed, executed, lostTo, abandoned>>

ScheduleTypeOK ==
    /\ LocksTypeOK
    /\ minute \in [Ticks -> {Wall[i] : i \in DOMAIN Wall} \cup {Null}]
    /\ pc \in [Runs -> {"off", "gate", "lock", "running", "after", "over"}]
    /\ claimed \in [Runs -> [at : 0..MaxTime, flushes : 0..MaxFlushes] \cup {Null}]
    /\ lostTo \in [Runs -> Owners \cup {Null}]
    /\ executed \subseteq Runs /\ abandoned \subseteq Runs

ScheduleInit ==
    /\ LocksInit
    /\ minute = [k \in Ticks |-> Null]
    /\ pc = [r \in Runs |-> "off"]
    /\ claimed = [r \in Runs |-> Null]
    /\ executed = {} /\ abandoned = {}
    /\ lostTo = [r \in Runs |-> Null]

Move(r, label) == pc' = [pc EXCEPT ![r] = label]
LocksKept == UNCHANGED <<now, locks, clients, held, lease, flushes>>

\* run_due: cron_matches and the gates (between, when, skip, environments) decide which
\* tasks are due; the servers' clocks may be Skew apart.
RunDue(k) ==
    /\ minute[k] = Null
    /\ \E i \in now..(now + Skew) : minute' = [minute EXCEPT ![k] = Wall[i]]
    /\ \E due \in SUBSET Tasks :
          pc' = [r \in Runs |-> IF r[1] # k THEN pc[r] ELSE IF r[2] \in due THEN "gate" ELSE "over"]
    /\ LocksKept /\ UNCHANGED <<claimed, executed, lostTo, abandoned>>

\* Maintenance mode skips the run unless the task opted out.
Down(r) ==
    /\ pc[r] = "gate"
    /\ Move(r, "over")
    /\ LocksKept /\ UNCHANGED <<minute, claimed, executed, lostTo, abandoned>>

Skip(r, name) ==
    /\ Move(r, "over")
    /\ lostTo' = [lostTo EXCEPT ![r] = locks[name].owner]
    /\ LocksKept /\ UNCHANGED claimed

Claim(r) ==
    LET name == ClaimName(r[2], minute[r[1]]) IN
    /\ pc[r] = "gate"
    /\ IF r[2] \notin OneServer
       THEN Move(r, "lock") /\ LocksKept /\ UNCHANGED <<claimed, lostTo>>
       ELSE IF Free(name)
       THEN /\ Grant(name, r, ClaimTTL)
            /\ claimed' = [claimed EXCEPT ![r] = [at |-> now, flushes |-> flushes]]
            /\ Move(r, "lock")
            /\ UNCHANGED <<now, clients, held, lease, flushes, lostTo>>
       ELSE Skip(r, name)
    /\ UNCHANGED <<minute, executed, abandoned>>

Lock(r) ==
    LET name == OverlapName(r[2]) IN
    /\ pc[r] = "lock"
    /\ IF r[2] \notin Overlap
       THEN Move(r, "running") /\ LocksKept /\ UNCHANGED <<claimed, lostTo>>
       ELSE IF Free(name)
       THEN Enter(name, r, OverlapTTL) /\ Move(r, "running")
            /\ UNCHANGED <<now, clients, flushes, claimed, lostTo>>
       ELSE Skip(r, name)
    /\ UNCHANGED <<minute, executed, abandoned>>

\* A before hook that raises goes straight to the finally block.
BeforeRaises(r) ==
    /\ pc[r] = "running"
    /\ Move(r, "after")
    /\ LocksKept /\ UNCHANGED <<minute, claimed, executed, lostTo, abandoned>>

\* Mutant: an exception of the callback passes the finally block by.
CallbackEscapes(r, raises) ==
    /\ pc[r] = "running"
    /\ executed' = executed \cup {r}
    /\ Move(r, IF raises THEN "over" ELSE "after")
    /\ LocksKept /\ UNCHANGED <<minute, claimed, lostTo, abandoned>>

\* The before hooks, the callback and the success or failure hooks; what they raise is logged by _run_one.
Callback(r, raises) ==
    /\ pc[r] = "running"
    /\ executed' = executed \cup {r}
    /\ Move(r, "after")
    /\ LocksKept /\ UNCHANGED <<minute, claimed, lostTo, abandoned>>

\* An after hook that raises leaves the finally block before the lock is released.
AfterRaises(r) ==
    /\ pc[r] = "after"
    /\ Move(r, "over")
    /\ abandoned' = abandoned \cup {r}
    /\ held' = [held EXCEPT ![r] = Null]
    /\ lease' = [lease EXCEPT ![r] = 0]
    /\ UNCHANGED <<now, locks, clients, flushes, minute, claimed, executed, lostTo>>

\* Mutant: the minute's claim is released with the overlap lock.
FinishReleasesClaim(r) ==
    /\ pc[r] = "after"
    /\ Move(r, "over")
    /\ locks' = [n \in Names |-> IF Owns(n, r) THEN Null ELSE locks[n]]
    /\ held' = [held EXCEPT ![r] = Null]
    /\ lease' = [lease EXCEPT ![r] = 0]
    /\ UNCHANGED <<now, clients, flushes, minute, claimed, executed, lostTo, abandoned>>

\* The finally block: the after hooks, then the overlap lock. The claim is kept.
Finish(r) ==
    /\ pc[r] = "after"
    /\ Move(r, "over")
    /\ IF r[2] \in Overlap THEN Leave(OverlapName(r[2]), r) ELSE UNCHANGED <<locks, held, lease>>
    /\ UNCHANGED <<now, clients, flushes, minute, claimed, executed, lostTo, abandoned>>

\* The process of a tick dies, and its runs with it.
Kill(k) ==
    LET mine == {r \in Runs : r[1] = k /\ pc[r] \notin {"off", "over"}} IN
    /\ mine # {}
    /\ pc' = [r \in Runs |-> IF r \in mine THEN "over" ELSE pc[r]]
    /\ held' = [o \in Owners |-> IF o \in mine THEN Null ELSE held[o]]
    /\ lease' = [o \in Owners |-> IF o \in mine THEN 0 ELSE lease[o]]
    /\ abandoned' = abandoned \cup mine
    /\ UNCHANGED <<now, locks, clients, flushes, minute, claimed, executed, lostTo>>

RunStep ==
    \/ \E k \in Ticks : RunDue(k) \/ Kill(k)
    \/ \E r \in Runs :
          \/ Down(r) \/ Claim(r) \/ Lock(r) \/ BeforeRaises(r) \/ AfterRaises(r) \/ Finish(r)
          \/ \E raises \in BOOLEAN : Callback(r, raises)

ScheduleStep == RunStep \/ (LockStep /\ UNCHANGED runVars)

\* Nothing of a run waits for the clock.
ScheduleTick == LocksExpire /\ UNCHANGED runVars

----------------------------------------------------------------------------
(* Properties *)

Apart(a, b) == IF a <= b THEN b - a ELSE a - b

\* Two runs of a one-server task for the same minute, and not the minute that a clock
\* set back shows again an hour, the life of a claim, later.
Repeats(q, r) ==
    /\ q # r /\ q[2] = r[2] /\ q[2] \in OneServer
    /\ minute[q[1]] = minute[r[1]]
    /\ Apart(claimed[q].at, claimed[r].at) < ClaimTTL

\* A task that runs on one server is executed once per minute of its clock, also by a
\* tick that starts after the other has ended, unless a flush of the store, as
\* cache:clear on redis, came between the two claims: it drops them with everything else.
OncePerMinute ==
    \A q, r \in executed : Repeats(q, r) => claimed[q].flushes # claimed[r].flushes

\* An overlap lock belongs to a run that is in flight; only a run killed, or left by an
\* exception of its after hooks, keeps later ticks out with nothing running.
LockedMeansInFlight ==
    \A t \in Tasks :
        ~Free(OverlapName(t)) =>
            LET r == locks[OverlapName(t)].owner IN
            r \in abandoned \/ pc[r] \in {"running", "after"}

\* docs/scheduling.md: "ensure a task runs on one server only". A tick is given up only
\* for another run of the same task.
LosesOnlyToItself == \A r \in Runs : lostTo[r] # Null => lostTo[r][2] = r[2]
=============================================================================
