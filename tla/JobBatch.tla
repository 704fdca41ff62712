------------------------------ MODULE JobBatch ------------------------------
(***************************************************************************)
(* Job batches of arvel.queue: PendingBatch.dispatch creates a job_batches *)
(* row and pushes every member; each worker that settles a member applies  *)
(* the outcome to the row (batch.py apply_job_outcome) with one statement  *)
(* per await: count the outcome, read the row back, cancel the batch once  *)
(* on a disallowed failure, stamp it finished once when nothing is         *)
(* pending, and run the then / catch / finally callbacks.                  *)
(*                                                                         *)
(* The broker is external: when a worker dies before its acknowledgement,  *)
(* amqp delivers the member again, and the redis list or the memory broker *)
(* has lost it.  An operator may retry a failed member from failed_jobs.   *)
(***************************************************************************)
EXTENDS Integers, FiniteSets

CONSTANTS
    Jobs,           \* the jobs a batch may be made of
    MaxFaults       \* bound: deaths, lost members, retries, raising calls

ASSUME JobsAssumption == IsFiniteSet(Jobs) /\ MaxFaults \in Nat

VARIABLES
    dispatcher,     \* where PendingBatch.dispatch is
    members,        \* the jobs of this batch
    allowFailures,  \* options["allow_failures"]
    pending,        \* column pending_jobs
    failed,         \* column failed_jobs
    cancelled,      \* column cancelled_at is not NULL
    finished,       \* column finished_at is not NULL
    pc,             \* where the worker processing each member is
    outcome,        \* how the member's latest execution ended
    seen,           \* pending_jobs as the worker re-read it
    thenRuns, catchRuns, finallyRuns,   \* callbacks run, each a history
    counted,        \* history: outcomes of the member applied to the row
    userCancelled,  \* history: Batch.cancel() was called
    broken,         \* history: a push or callback raised, or a member was lost
    faults          \* history and bound: deaths, retries, raising calls

row == <<members, allowFailures, pending, failed, cancelled, finished>>
callbacks == <<thenRuns, catchRuns, finallyRuns>>
worker == <<pc, outcome, seen>>
history == <<counted, userCancelled, broken>>
vars == <<dispatcher, row, worker, callbacks, history, faults>>

Init ==
    /\ dispatcher = "new"
    /\ members = {}
    /\ allowFailures \in BOOLEAN
    /\ pending = 0
    /\ failed = 0
    /\ cancelled = FALSE
    /\ finished = FALSE
    /\ pc = [j \in Jobs |-> "unpushed"]
    /\ outcome = [j \in Jobs |-> "none"]
    /\ seen = [j \in Jobs |-> 0]
    /\ thenRuns = 0 /\ catchRuns = 0 /\ finallyRuns = 0
    /\ counted = [j \in Jobs |-> 0]
    /\ userCancelled = FALSE
    /\ broken = FALSE
    /\ faults = 0

-----------------------------------------------------------------------------
(* PendingBatch.dispatch.                                                  *)

\* Bound: one more fault of the environment.
Fault == faults < MaxFaults /\ faults' = faults + 1

\* The row is created with every counter at the batch's size.
CreateRow ==
    /\ dispatcher = "new"
    /\ members' \in SUBSET Jobs
    /\ pending' = Cardinality(members')
    /\ dispatcher' = IF members' = {} THEN "empty" ELSE "pushing"
    /\ UNCHANGED <<allowFailures, failed, cancelled, finished, worker, callbacks,
                   history, faults>>

\* finalize_empty_batch: nobody settles an empty batch, so dispatch does.
FinalizeEmpty ==
    /\ dispatcher = "empty"
    /\ dispatcher' = "done"
    /\ finished' = TRUE
    /\ thenRuns' = thenRuns + 1
    /\ finallyRuns' = finallyRuns + 1
    /\ UNCHANGED <<members, allowFailures, pending, failed, cancelled, worker,
                   catchRuns, history, faults>>

\* push_instance of one member; workers may take it before the next is pushed.
PushMember(j) ==
    /\ dispatcher = "pushing"
    /\ j \in members
    /\ pc[j] = "unpushed"
    /\ pc' = [pc EXCEPT ![j] = "queued"]
    /\ dispatcher' = IF \A k \in members \ {j} : pc[k] # "unpushed"
                     THEN "done" ELSE dispatcher
    /\ UNCHANGED <<row, outcome, seen, callbacks, history, faults>>

\* The broker refuses a push: the exception leaves dispatch, the rest of the
\* members are never enqueued.
PushRaises ==
    /\ dispatcher = "pushing"
    /\ Fault
    /\ broken' = TRUE
    /\ dispatcher' = "failed"
    /\ UNCHANGED <<row, worker, callbacks, counted, userCancelled>>

-----------------------------------------------------------------------------
(* JobWorker._invoke_body on a member, and apply_job_outcome.              *)

Goto(j, label) == pc' = [pc EXCEPT ![j] = label]

\* A member of a cancelled batch is not run but still counted, as no failure.
Begin(j) ==
    /\ pc[j] = "queued"
    /\ Goto(j, IF cancelled THEN "record" ELSE "running")
    /\ outcome' = [outcome EXCEPT ![j] = IF cancelled THEN "skipped" ELSE "none"]
    /\ UNCHANGED <<dispatcher, row, seen, callbacks, history, faults>>

\* All attempts of the job (see RetryPolicy): it succeeds or is exhausted.
Execute(j) ==
    /\ pc[j] = "running"
    /\ Goto(j, "record")
    /\ \E o \in {"succeeded", "failed"} : outcome' = [outcome EXCEPT ![j] = o]
    /\ UNCHANGED <<dispatcher, row, seen, callbacks, history, faults>>

\* Mutant: a skipped member leaves pending_jobs alone.
SettledUnlessSkipped(j) == IF outcome[j] = "skipped" THEN 0 ELSE 1

\* What an outcome takes off pending_jobs ...
Settled(j) == 1

\* Mutant: the same sign for both columns.
FailureSubtracted(j) == IF outcome[j] = "failed" THEN -1 ELSE 0

\* ... and adds to failed_jobs.
Failure(j) == IF outcome[j] = "failed" THEN 1 ELSE 0

\* One atomic UPDATE: pending_jobs - 1, failed_jobs + 1 on a failure.
Record(j) ==
    /\ pc[j] = "record"
    /\ Goto(j, "reread")
    /\ pending' = pending - Settled(j)
    /\ failed' = failed + Failure(j)
    /\ counted' = [counted EXCEPT ![j] = @ + 1]
    /\ UNCHANGED <<dispatcher, members, allowFailures, cancelled, finished,
                   outcome, seen, callbacks, userCancelled, broken, faults>>

Disallowed(j) == outcome[j] = "failed" /\ ~allowFailures

\* The row is read back in a statement of its own.
Reread(j) ==
    /\ pc[j] = "reread"
    /\ seen' = [seen EXCEPT ![j] = pending]
    /\ Goto(j, IF Disallowed(j) THEN "cancel" ELSE "finish")
    /\ UNCHANGED <<dispatcher, row, outcome, callbacks, history, faults>>

\* Mutant: catch runs in the workers whose UPDATE hit nothing.
CatchIfLost == IF cancelled THEN "catch" ELSE "finish"

CatchIfWon == IF cancelled THEN "finish" ELSE "catch"

\* _cancel_batch_once: the worker whose UPDATE hits runs catch.
CancelOnce(j) ==
    /\ pc[j] = "cancel"
    /\ cancelled' = TRUE
    /\ Goto(j, CatchIfWon)
    /\ UNCHANGED <<dispatcher, members, allowFailures, pending, failed, finished,
                   outcome, seen, callbacks, history, faults>>

RunCatch(j) ==
    /\ pc[j] = "catch"
    /\ catchRuns' = catchRuns + 1
    /\ Goto(j, "finish")
    /\ UNCHANGED <<dispatcher, row, outcome, seen, thenRuns, finallyRuns, history, faults>>

\* Mutant: only the settle that reads exactly zero finishes the batch.
ReadsZero(j) == seen[j] = 0 /\ ~finished

\* Mutant: an off-by-one in the comparison.
ReadsOneLeft(j) == seen[j] <= 1 /\ ~finished

\* Mutant: the stamp lacks WHERE finished_at IS NULL.
ReadsNothingLeft(j) == seen[j] <= 0

\* updated.pending_jobs <= 0 and _finish_batch_once
FinishesBatch(j) == seen[j] <= 0 /\ ~finished

FinishOnce(j) ==
    /\ pc[j] = "finish"
    /\ finished' = (finished \/ FinishesBatch(j))
    /\ Goto(j, IF FinishesBatch(j) THEN "check" ELSE "settled")
    /\ seen' = [seen EXCEPT ![j] = 0]
    /\ UNCHANGED <<dispatcher, members, allowFailures, pending, failed, cancelled,
                   outcome, callbacks, history, faults>>

\* Mutant: then runs whatever happened.
AlwaysThen == TRUE

\* not await batch.cancelled()
NotCancelled == ~cancelled

\* The batch is read again, in a statement of its own: then is due unless it is
\* cancelled by now.
CheckCancelled(j) ==
    /\ pc[j] = "check"
    /\ Goto(j, IF NotCancelled THEN "then" ELSE "finally")
    /\ UNCHANGED <<dispatcher, row, outcome, seen, callbacks, history, faults>>

\* What was read is not asked again: others may have cancelled the batch since.
RunThen(j) ==
    /\ pc[j] = "then"
    /\ thenRuns' = thenRuns + 1
    /\ Goto(j, "finally")
    /\ UNCHANGED <<dispatcher, row, outcome, seen, catchRuns, finallyRuns, history, faults>>

RunFinally(j) ==
    /\ pc[j] = "finally"
    /\ finallyRuns' = finallyRuns + 1
    /\ Goto(j, "settled")
    /\ UNCHANGED <<dispatcher, row, outcome, seen, thenRuns, catchRuns, history, faults>>

-----------------------------------------------------------------------------
(* The environment: an operator and the broker.                            *)

\* Batch.cancel()
UserCancel ==
    /\ dispatcher # "new"
    /\ ~cancelled
    /\ cancelled' = TRUE
    /\ userCancelled' = TRUE
    /\ UNCHANGED <<dispatcher, members, allowFailures, pending, failed, finished,
                   worker, callbacks, counted, broken, faults>>

\* The worker dies before its acknowledgement: the member is delivered again.
Redeliver(j) ==
    /\ pc[j] \notin {"unpushed", "queued"}
    /\ Fault
    /\ Goto(j, "queued")
    /\ UNCHANGED <<dispatcher, row, outcome, seen, callbacks, history>>

\* The worker dies, and the message with it.
Lose(j) ==
    /\ pc[j] \notin {"unpushed", "queued", "settled"}
    /\ Fault
    /\ broken' = TRUE
    /\ Goto(j, "settled")
    /\ UNCHANGED <<dispatcher, row, outcome, seen, callbacks, counted, userCancelled>>

\* FailedJob.retry pushes the failed member, still stamped with its batch.
RetryFailed(j) ==
    /\ pc[j] = "settled"
    /\ outcome[j] = "failed"
    /\ Fault
    /\ Goto(j, "queued")
    /\ UNCHANGED <<dispatcher, row, outcome, seen, callbacks, history>>

\* A catch or then callback raises: the rest of apply_job_outcome is skipped,
\* and the broker acknowledges the message.
CallbackRaises(j) ==
    /\ pc[j] \in {"catch", "then"}
    /\ Fault
    /\ broken' = TRUE
    /\ Goto(j, "settled")
    /\ UNCHANGED <<dispatcher, row, outcome, seen, callbacks, counted, userCancelled>>

Settle(j) ==
    \/ Begin(j) \/ Execute(j) \/ Record(j) \/ Reread(j) \/ CancelOnce(j)
    \/ RunCatch(j) \/ FinishOnce(j) \/ CheckCancelled(j) \/ RunThen(j) \/ RunFinally(j)

Dispatch == CreateRow \/ FinalizeEmpty \/ \E j \in Jobs : PushMember(j)

Next ==
    \/ Dispatch \/ PushRaises \/ UserCancel
    \/ \E j \in Jobs :
          Settle(j) \/ Redeliver(j) \/ Lose(j) \/ RetryFailed(j) \/ CallbackRaises(j)

Spec == Init /\ [][Next]_vars

\* The dispatcher runs on, and some worker takes every delivered message and
\* runs it to its end; nobody has to cancel, retry, die or raise.
FairSpec == Spec /\ WF_vars(Dispatch) /\ \A j \in Jobs : WF_vars(Settle(j))

-----------------------------------------------------------------------------
(* Properties.                                                             *)

Labels == {"unpushed", "queued", "running", "record", "reread", "cancel", "catch",
           "finish", "check", "then", "finally", "settled"}

TypeOK ==
    /\ dispatcher \in {"new", "empty", "pushing", "done", "failed"}
    /\ members \subseteq Jobs
    /\ allowFailures \in BOOLEAN
    /\ pending \in Int
    /\ failed \in Nat
    /\ cancelled \in BOOLEAN
    /\ finished \in BOOLEAN
    /\ pc \in [Jobs -> Labels]
    /\ outcome \in [Jobs -> {"none", "skipped", "succeeded", "failed"}]
    /\ seen \in [Jobs -> Int]
    /\ thenRuns \in Nat /\ catchRuns \in Nat /\ finallyRuns \in Nat
    /\ counted \in [Jobs -> Nat]
    /\ userCancelled \in BOOLEAN
    /\ broken \in BOOLEAN
    /\ faults \in 0..MaxFaults

\* docs/queues.md: then, catch and finally_ fire "never twice".  However many
\* members settle at once, are delivered again or are retried, no callback of
\* apply_job_outcome runs a second time.
CallbacksAtMostOnce == thenRuns <= 1 /\ catchRuns <= 1 /\ finallyRuns <= 1

\* No outcome was applied to the row twice (a second delivery or retry would).
AppliedOnce == \A j \in Jobs : counted[j] <= 1

\* The finish transition fires on the last settle, not before: as long as no
\* outcome was applied twice, a finished batch has every member's outcome.
FinishedMeansSettled ==
    finished /\ AppliedOnce => \A j \in members : counted[j] = 1

\* A batch cancelled before the last settle stamped it finished, by a disallowed
\* failure or its user, never runs then, in whatever worker the last settle is. One
\* cancelled later may, even after its catch: what the last worker has read is old then.
NoThenIfCancelledFirst ==
    [](cancelled /\ ~finished /\ members # {} => [](thenRuns = 0))

\* A dispatched batch converges: unless a callback raises or a member is lost,
\* it is stamped finished, also when a worker dies between the count and the
\* stamp and the member is delivered again.
EventuallyFinished == (dispatcher \in {"empty", "done"}) ~> (finished \/ broken)

\* "finally_ always fires once", when no worker dies and no callback raises.
EventuallyFinally == (dispatcher = "done") ~> (finallyRuns = 1 \/ faults > 0)

\* "catch fires on the batch's first failure", when nobody cancelled before and
\* no worker dies.
FailureCaught ==
    (\E j \in Jobs : Disallowed(j)) ~> (catchRuns = 1 \/ userCancelled \/ faults > 0)

\* PendingBatch.then: "once every job has succeeded".
ThenMeansAllSucceeded ==
    thenRuns > 0 /\ ~allowFailures /\ faults = 0
        => \A j \in members : outcome[j] = "succeeded"

=============================================================================
