----------------------------- MODULE JobWorker -----------------------------
(***************************************************************************)
(* One job from its dispatch to its end (arvel.queue): Job.dispatch and    *)
(* Bus.chain enqueue it, a worker takes the message and runs it            *)
(* (JobWorker._invoke_body), a failed attempt is released to the jobs      *)
(* table or retried inline (run_job_with_retries), an exhausted job goes   *)
(* to failed_jobs, a success dispatches the next link of its chain, and    *)
(* both ends free the slot of a unique job.                                *)
(*                                                                         *)
(* Every await is a step.  The jobs table keeps what DelayedDelivery       *)
(* promises: a row is pushed at least once.  The broker is external: what  *)
(* a worker held when it died is delivered again (amqp) or lost (redis     *)
(* lists, memory).  Members of a batch are the subject of JobBatch.        *)
(***************************************************************************)
EXTENDS Integers

CONSTANTS
    Jobs,           \* job instances
    Workers,        \* the tasks of all workers
    Null,           \* None
    Tries,          \* [Jobs -> max(1, job.tries)]
    MaxExceptions,  \* [Jobs -> job.max_exceptions or Null]
    FailOnTimeout,  \* jobs with fail_on_timeout
    RetryUntil,     \* jobs with a retry_until
    Link,           \* [Jobs -> the next job of its chain, or Null]
    Chained,        \* heads of chains: enqueued by PendingChain.dispatch
    Direct,         \* enqueued by Job.dispatch
    Unique,         \* ShouldBeUnique jobs, all of one class and unique_id
    Served,         \* [Workers -> the jobs whose queue work(queues=...) names]
    MaxTries,       \* bound on Tries
    MaxDeferrals,   \* bound: times the middleware puts a job back
    MaxFaults       \* bound: deaths, lost or doubled messages, expiries,
                    \* raising calls, manual retries

ASSUME JobsAssumption ==
    /\ MaxTries \in Nat
    /\ Tries \in [Jobs -> 1..MaxTries]
    /\ Null \notin Nat
    /\ MaxExceptions \in [Jobs -> (Nat \ {0}) \cup {Null}]
    /\ Null \notin Jobs
    /\ Link \in [Jobs -> Jobs \cup {Null}]
    /\ FailOnTimeout \subseteq Jobs /\ RetryUntil \subseteq Jobs
    /\ Chained \subseteq Jobs /\ Direct \subseteq Jobs /\ Unique \subseteq Jobs
    /\ MaxDeferrals \in Nat /\ MaxFaults \in Nat

\* A chain: the jobs that lead to job k, one of which is dispatched.
Line(chain, k) ==
    /\ k \in chain /\ Link[k] \notin chain
    /\ \A j \in Jobs : Link[j] \in chain => j \in chain
    /\ \A i, j \in chain \cap (Direct \cup Chained) : i = j

\* A job is one instance in one queue call: it is dispatched, or is the link of one other.
ASSUME ChainsAssumption ==
    /\ \A j \in Jobs : Link[j] \notin Direct \cup Chained
    /\ \A i, j \in Jobs : Link[i] = Link[j] /\ Link[i] # Null => i = j
    /\ \A k \in Jobs : \E chain \in SUBSET Jobs : Line(chain, k)

\* What travels: the instance with its __arvel_attempts__.
Message == [job : Jobs, attempts : 0..MaxTries]
Fresh(j) == [job |-> j, attempts |-> 0]

VARIABLES
    bound,          \* a database is bound; never changes
    late,           \* the clock is past retry_until
    dispatch,       \* how far the enqueueing of each job got
    holder,         \* the unique slot's CacheLock: whose dispatch holds it
    broker,         \* external: copies of each message on the broker
    rows,           \* copies of each message stored in the jobs table
    dead,           \* rows of failed_jobs, per job
    pc,             \* where each worker is
    taken,          \* the message it runs, or Null
    attempt,        \* the attempt it is at
    thrown,         \* history: attempts that raised, per job
    won,            \* history: attempts that returned, per job
    gaveUp,         \* history: times the job was recorded as exhausted
    caught,         \* history: runs of the chain's catch, per failing job
    broken,         \* history: a message was lost, or an exception left a handler
    deferrals,      \* bound: jobs put back by their middleware
    faults          \* bound and history, see MaxFaults

store == <<bound, late, dispatch, holder>>
queues == <<broker, rows, dead>>
worker == <<pc, taken, attempt>>
history == <<thrown, won, gaveUp, caught, broken>>
bounds == <<deferrals, faults>>
vars == <<store, queues, worker, history, bounds>>

Init ==
    /\ bound \in BOOLEAN
    /\ late = FALSE
    /\ dispatch = [j \in Jobs |-> "new"]
    /\ holder = Null
    /\ broker = [m \in Message |-> 0]
    /\ rows = [m \in Message |-> 0]
    /\ dead = [j \in Jobs |-> 0]
    /\ pc = [w \in Workers |-> "idle"]
    /\ taken = [w \in Workers |-> Null]
    /\ attempt = [w \in Workers |-> 0]
    /\ thrown = [j \in Jobs |-> 0]
    /\ won = [j \in Jobs |-> 0]
    /\ gaveUp = [j \in Jobs |-> 0]
    /\ caught = [j \in Jobs |-> 0]
    /\ broken = FALSE
    /\ deferrals = 0
    /\ faults = 0

Fault == faults < MaxFaults /\ faults' = faults + 1 /\ UNCHANGED deferrals

\* A copy of the message leaves a queue, or comes to one.
Less(bag, m) == [bag EXCEPT ![m] = @ - 1]
More(bag, m) == [bag EXCEPT ![m] = @ + 1]

-----------------------------------------------------------------------------
(* Enqueueing.                                                             *)

\* Mutant: the slot's lock is taken whether or not it is held.
TakesSlotAnyway == TRUE

SlotFree == holder = Null

\* Job.dispatch and dispatch_after of a unique job first acquire the slot, or
\* drop the job.
AcquireSlot(j) ==
    /\ dispatch[j] = "new"
    /\ j \in Direct \cap Unique
    /\ IF SlotFree
       THEN holder' = j /\ dispatch' = [dispatch EXCEPT ![j] = "enqueue"]
       ELSE dispatch' = [dispatch EXCEPT ![j] = "dropped"] /\ UNCHANGED holder
    /\ UNCHANGED <<bound, late, queues, worker, history, bounds>>

Dispatching(j) ==
    \/ dispatch[j] = "enqueue"
    \/ dispatch[j] = "new" /\ j \in (Direct \ Unique) \cup Chained

\* kiq (push), or push_instance: the head of a chain acquires no slot.
Enqueue(j) ==
    /\ Dispatching(j)
    /\ dispatch' = [dispatch EXCEPT ![j] = "enqueued"]
    /\ broker' = More(broker, Fresh(j))
    /\ UNCHANGED <<bound, late, holder, rows, dead, worker, history, bounds>>

\* Job.dispatch_after: stored in the jobs table, for which it needs a database.
EnqueueLater(j) ==
    /\ Dispatching(j) /\ j \in Direct
    /\ bound
    /\ dispatch' = [dispatch EXCEPT ![j] = "enqueued"]
    /\ rows' = More(rows, Fresh(j))
    /\ UNCHANGED <<bound, late, holder, broker, dead, worker, history, bounds>>

\* The broker refuses the message, or there is no table to store it in: the
\* exception leaves dispatch.
EnqueueRaises(j) ==
    /\ dispatch[j] = "enqueue"
    /\ Fault
    /\ dispatch' = [dispatch EXCEPT ![j] = "refused"]
    /\ broken' = TRUE
    /\ UNCHANGED <<bound, late, holder, queues, worker, thrown, won, gaveUp, caught>>

-----------------------------------------------------------------------------
(* _invoke_body.                                                           *)

Goto(w, label) == pc' = [pc EXCEPT ![w] = label]

\* The worker's task is over; the broker acknowledges the message.
Finish(w) ==
    /\ Goto(w, "idle")
    /\ taken' = [taken EXCEPT ![w] = Null]
    /\ attempt' = [attempt EXCEPT ![w] = 0]

\* Without a database the attempts carried by the message are not looked at.
Receive(w, m) ==
    /\ pc[w] = "idle"
    /\ broker[m] > 0
    /\ broker' = Less(broker, m)
    /\ taken' = [taken EXCEPT ![w] = m]
    /\ attempt' = [attempt EXCEPT ![w] = IF bound THEN m.attempts + 1 ELSE 1]
    /\ Goto(w, IF bound /\ m.job \notin Served[w] THEN "park" ELSE "run")
    /\ UNCHANGED <<store, rows, dead, history, bounds>>

\* Mutant: a job of another queue is dropped.
ParkDrops(w) ==
    /\ pc[w] = "park"
    /\ Finish(w)
    /\ UNCHANGED <<store, queues, history, bounds>>

\* A job of a queue this worker does not serve is stored, due now.
Park(w) ==
    /\ pc[w] = "park"
    /\ rows' = More(rows, taken[w])
    /\ Finish(w)
    /\ UNCHANGED <<store, broker, dead, history, bounds>>

\* Mutant: an off-by-one in the comparison with tries.
StopsLate(j, n) == n > Tries[j]

\* _retry_should_stop
ShouldStop(j, n) ==
    \/ MaxExceptions[j] # Null /\ n >= MaxExceptions[j]
    \/ j \in RetryUntil /\ late
    \/ n >= Tries[j]

\* handle() returns.
Succeed(w) ==
    LET j == taken[w].job IN
    /\ pc[w] = "run"
    /\ won' = [won EXCEPT ![j] = @ + 1]
    /\ Goto(w, "link")
    /\ UNCHANGED <<store, queues, taken, attempt, thrown, gaveUp, caught, broken, bounds>>

\* handle() raises or times out: the job is given up or tried again.
Throw(w) ==
    LET j == taken[w].job IN
    /\ pc[w] = "run"
    /\ thrown' = [thrown EXCEPT ![j] = @ + 1]
    /\ \E timedOut \in BOOLEAN :
           Goto(w, IF ShouldStop(j, attempt[w]) \/ (timedOut /\ j \in FailOnTimeout)
                   THEN "hook" ELSE "retry")
    /\ UNCHANGED <<store, queues, taken, attempt, won, gaveUp, caught, broken, bounds>>

\* The middleware wants the job back on the queue: no attempt is counted.
Defer(w) ==
    /\ pc[w] = "run"
    /\ deferrals < MaxDeferrals
    /\ deferrals' = deferrals + 1
    /\ Goto(w, "putback")
    /\ UNCHANGED <<store, queues, taken, attempt, history, faults>>

\* Mutant: the attempt number does not travel with the released job.
AttemptForgotten(w) == [taken[w] EXCEPT !.attempts = 0]

\* job.__arvel_attempts__ = attempt
NextAttempt(w) == [taken[w] EXCEPT !.attempts = attempt[w]]

\* Mutant: a failed attempt that is not the last is forgotten.
RetryLost(w) ==
    /\ pc[w] = "retry"
    /\ Finish(w)
    /\ UNCHANGED <<store, queues, history, bounds>>

\* _release_for_retry stores the next attempt; without a database the loop
\* sleeps and goes round.
Retry(w) ==
    /\ pc[w] = "retry"
    /\ IF bound
       THEN rows' = More(rows, NextAttempt(w)) /\ Finish(w)
       ELSE /\ attempt' = [attempt EXCEPT ![w] = @ + 1]
            /\ Goto(w, "run")
            /\ UNCHANGED <<rows, taken>>
    /\ UNCHANGED <<store, broker, dead, history, bounds>>

\* _release_job: to the jobs table, or straight back to the broker.
PutBack(w) ==
    /\ pc[w] = "putback"
    /\ rows' = IF bound THEN More(rows, taken[w]) ELSE rows
    /\ broker' = IF bound THEN broker ELSE More(broker, taken[w])
    /\ Finish(w)
    /\ UNCHANGED <<store, dead, history, bounds>>

\* job.failed(exc)
FailedHook(w) ==
    /\ pc[w] = "hook"
    /\ Goto(w, "record")
    /\ UNCHANGED <<store, queues, taken, attempt, history, bounds>>

\* Mutant: the dead-letter row is not written.
Unrecorded(j) == dead

Recorded(j) == IF bound THEN [dead EXCEPT ![j] = @ + 1] ELSE dead

\* _record_failed_job
RecordFailed(w) ==
    LET j == taken[w].job IN
    /\ pc[w] = "record"
    /\ dead' = Recorded(j)
    /\ gaveUp' = [gaveUp EXCEPT ![j] = @ + 1]
    /\ Goto(w, "catch")
    /\ UNCHANGED <<store, broker, rows, taken, attempt, thrown, won, caught, broken, bounds>>

\* The next link of the job's chain, if any, is pushed.
Advance(j) ==
    LET k == Link[j] IN
    IF k = Null
    THEN UNCHANGED <<dispatch, broker>>
    ELSE /\ dispatch' = [dispatch EXCEPT ![k] = "enqueued"]
         /\ broker' = More(broker, Fresh(k))

\* Mutant: an exhausted link starts the next one too.
ChainGoesOn(w) ==
    /\ pc[w] = "catch"
    /\ Advance(taken[w].job)
    /\ caught' = [caught EXCEPT ![taken[w].job] = @ + 1]
    /\ Goto(w, "unlock")
    /\ UNCHANGED <<bound, late, holder, rows, dead, taken, attempt, thrown, won, gaveUp,
                   broken, bounds>>

\* _run_chain_catch
ChainCatch(w) ==
    /\ pc[w] = "catch"
    /\ caught' = [caught EXCEPT ![taken[w].job] = @ + 1]
    /\ Goto(w, "unlock")
    /\ UNCHANGED <<store, queues, taken, attempt, thrown, won, gaveUp, broken, bounds>>

\* Mutant: the rest of the chain is left behind.
ChainForgotten(w) ==
    /\ pc[w] = "link"
    /\ Goto(w, "unlock")
    /\ UNCHANGED <<store, queues, taken, attempt, history, bounds>>

\* _dispatch_next_link
NextLink(w) ==
    /\ pc[w] = "link"
    /\ Advance(taken[w].job)
    /\ Goto(w, "unlock")
    /\ UNCHANGED <<bound, late, holder, rows, dead, taken, attempt, history, bounds>>

\* Mutant: release() by a process that does not own the lock.
FreesNothing(w) == holder

\* force_release: whoever holds the slot.
Freed(w) == IF taken[w].job \in Unique THEN Null ELSE holder

\* _release_unique, the last step of both ends.
ReleaseUnique(w) ==
    /\ pc[w] = "unlock"
    /\ holder' = Freed(w)
    /\ Finish(w)
    /\ UNCHANGED <<bound, late, dispatch, queues, history, bounds>>

-----------------------------------------------------------------------------
(* The jobs table, the operator and the environment.                       *)

\* Mutant: the row is pushed but not deleted.
RowKept(m) ==
    /\ rows[m] > 0
    /\ broker' = More(broker, m)
    /\ UNCHANGED <<store, rows, dead, worker, history, bounds>>

\* DurableJobs.release_due pushes the row and deletes it.
ReleaseRow(m) ==
    /\ rows[m] > 0
    /\ rows' = Less(rows, m)
    /\ broker' = More(broker, m)
    /\ UNCHANGED <<store, dead, worker, history, bounds>>

\* The releaser dies between the push and the delete.
ReleaseRowTwice(m) ==
    /\ rows[m] > 0
    /\ Fault
    /\ broker' = More(broker, m)
    /\ UNCHANGED <<store, rows, dead, worker, history>>

\* FailedJob.retry: a fresh dispatch with no slot, then the record is deleted
\* (or not, when the process dies in between).
RetryFailed(j) ==
    /\ dead[j] > 0
    /\ Fault
    /\ broker' = More(broker, Fresh(j))
    /\ dead' \in {dead, [dead EXCEPT ![j] = @ - 1]}
    /\ UNCHANGED <<store, rows, worker, history>>

\* retry_until goes by.
BecomeLate ==
    /\ ~late
    /\ late' = TRUE
    /\ UNCHANGED <<bound, dispatch, holder, queues, worker, history, bounds>>

\* unique_for seconds are over, or a flush of the redis cache has dropped the slot's lock.
SlotExpires ==
    /\ holder # Null
    /\ Fault
    /\ holder' = Null
    /\ UNCHANGED <<bound, late, dispatch, queues, worker, history>>

\* A worker dies: the broker delivers its message again, or has lost it.
Die(w) ==
    /\ pc[w] # "idle"
    /\ Fault
    /\ \/ broker' = More(broker, taken[w]) /\ UNCHANGED broken
       \/ broken' = TRUE /\ UNCHANGED broker
    /\ Finish(w)
    /\ UNCHANGED <<store, rows, dead, thrown, won, gaveUp, caught>>

\* failed(), the chain's catch, or a statement of these steps raises: the
\* exception leaves _invoke_body, and the broker acknowledges the message.
StepRaises(w) ==
    /\ pc[w] \in {"park", "retry", "putback", "hook", "record", "catch", "link", "unlock"}
    /\ pc[w] = "retry" => bound
    /\ Fault
    /\ broken' = TRUE
    /\ Finish(w)
    /\ UNCHANGED <<store, queues, thrown, won, gaveUp, caught>>

Work(w) ==
    \/ Park(w) \/ Succeed(w) \/ Throw(w) \/ Retry(w) \/ PutBack(w)
    \/ FailedHook(w) \/ RecordFailed(w) \/ ChainCatch(w) \/ NextLink(w) \/ ReleaseUnique(w)

Trouble ==
    \/ \E m \in Message : ReleaseRowTwice(m)
    \/ \E j \in Jobs : RetryFailed(j) \/ EnqueueRaises(j)
    \/ \E w \in Workers : Die(w) \/ StepRaises(w)
    \/ SlotExpires

Next ==
    \/ \E j \in Jobs : AcquireSlot(j) \/ Enqueue(j) \/ EnqueueLater(j)
    \/ \E w \in Workers, m \in Message : Receive(w, m)
    \/ \E w \in Workers : Work(w) \/ Defer(w)
    \/ \E m \in Message : ReleaseRow(m)
    \/ BecomeLate
    \/ Trouble

Spec == Init /\ [][Next]_vars

\* Dispatchers run on; a worker that has a message runs it to its end; the
\* release loop pushes every row; and the broker does not hold a message back
\* from the workers that serve its queue.
Fairness ==
    /\ \A j \in Jobs : WF_vars(Enqueue(j) \/ EnqueueLater(j))
    /\ \A w \in Workers : WF_vars(Work(w))
    /\ \A m \in Message : WF_vars(ReleaseRow(m))
    /\ \A m \in Message :
          SF_vars(\E w \in Workers : m.job \in Served[w] /\ Receive(w, m))

FairSpec == Spec /\ Fairness

-----------------------------------------------------------------------------
(* Properties.                                                             *)

Busy == {"park", "run", "retry", "putback", "hook", "record", "catch", "link", "unlock"}

TypeOK ==
    /\ bound \in BOOLEAN /\ late \in BOOLEAN /\ broken \in BOOLEAN
    /\ dispatch \in [Jobs -> {"new", "enqueue", "enqueued", "dropped", "refused"}]
    /\ holder \in Unique \cup {Null}
    /\ broker \in [Message -> Nat]
    /\ rows \in [Message -> Nat]
    /\ dead \in [Jobs -> Nat]
    /\ pc \in [Workers -> Busy \cup {"idle"}]
    /\ taken \in [Workers -> Message \cup {Null}]
    /\ attempt \in [Workers -> 0..MaxTries]
    /\ thrown \in [Jobs -> Nat] /\ won \in [Jobs -> Nat]
    /\ gaveUp \in [Jobs -> Nat] /\ caught \in [Jobs -> Nat]
    /\ deferrals \in 0..MaxDeferrals /\ faults \in 0..MaxFaults

\* A copy of the job is on the broker, in the jobs table or with a worker.
InFlight(j) ==
    \/ \E m \in Message : m.job = j /\ (broker[m] > 0 \/ rows[m] > 0)
    \/ \E w \in Workers : pc[w] # "idle" /\ taken[w].job = j

Settled(j) == won[j] > 0 \/ dead[j] > 0 \/ (~bound /\ gaveUp[j] > 0)

\* "Nothing is silently dropped": through parking, releases, deferrals, deaths
\* with redelivery and manual retries, an enqueued job is somewhere until it
\* has succeeded or is in failed_jobs, unless the broker lost it or a call of
\* the bookkeeping raised.
NothingDropped ==
    ~broken => \A j \in Jobs : dispatch[j] = "enqueued" => InFlight(j) \/ Settled(j)

\* The attempts that may raise before the job is given up.
Limit(j) ==
    IF MaxExceptions[j] # Null /\ MaxExceptions[j] < Tries[j]
    THEN MaxExceptions[j] ELSE Tries[j]

\* tries and max_exceptions bound the attempts across worker passes of a
\* durable queue: the count travels with the job, a deferral or parking does
\* not reset it, and only a doubled message or a manual retry grants another
\* budget.
RetryBudget == bound => \A j \in Jobs : thrown[j] <= Limit(j) * (1 + faults)

\* "tries/backoff are honored exactly the same either way", that is, also by
\* the inline loop of a queue without a database.
TriesHonoured == faults = 0 => \A j \in Jobs : thrown[j] <= Limit(j)

\* A job ends once, as a success or as a failure, and once more for every
\* doubled message or manual retry.
EndsOnce == \A j \in Jobs : won[j] + gaveUp[j] <= 1 + faults

\* "Job N+1 only starts after N succeeds", also when a worker dies midway; and
\* without doubled messages the catch of a chain means no later link runs.
ChainOrder ==
    \A j \in Jobs : Link[j] # Null =>
        LET k == Link[j]
            started == dispatch[k] = "enqueued" \/ InFlight(k) \/ won[k] + thrown[k] > 0
        IN  (started => won[j] > 0) /\ (faults = 0 => ~(started /\ caught[j] > 0))

\* "At most one queued/running instance": as long as the lock does not expire,
\* no message is doubled and nothing is retried by hand.
AtMostOneUnique ==
    faults = 0 => \A u, v \in Unique : InFlight(u) /\ InFlight(v) => u = v

\* Every enqueued job succeeds or is given up.
EventuallySettled ==
    \A j \in Jobs : dispatch[j] = "enqueued" ~> Settled(j) \/ gaveUp[j] > 0 \/ broken

\* A link that succeeded starts the next one, also when its worker died before
\* it could, unless the second delivery then failed.
ChainContinues ==
    \A j \in Jobs : Link[j] # Null =>
        (won[j] > 0 ~> dispatch[Link[j]] = "enqueued" \/ gaveUp[j] > 0 \/ broken)

\* "The lock is released once the worker finishes processing the job": no
\* slot stays taken for good, short of the TTL.
SlotFreed == holder # Null ~> holder = Null \/ broken

=============================================================================
