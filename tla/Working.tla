------------------------------ MODULE Working ------------------------------
(* work() of a worker process (queue/worker.py): it takes messages from the   *)
(* broker until a limit, a signal or an idle tick of its release loop stops   *)
(* it, lets what it took end, and waits for the loop. What a message goes     *)
(* through is JobWorker's, the rows the loop releases are DurableJobs'.       *)
EXTENDS Naturals, FiniteSets
CONSTANTS
    Jobs,       \* messages and rows
    Unserved,   \* acknowledged and not run: of a queue it does not serve, or a cancelled batch
    Limits,     \* values of max_jobs; 0 is none
    MaxWorks,   \* bound: calls of work()
    NoOptions

ASSUME WorkingAssumption ==
    /\ Unserved \subseteq Jobs /\ IsFiniteSet(Jobs) /\ MaxWorks \in Nat
    /\ Limits \subseteq Nat
    /\ NoOptions \notin [limit : Limits, whenEmpty : BOOLEAN, processed : Nat, lastTick : Nat]

VARIABLES
    inMemory,   \* the broker runs jobs in tasks of its own: work() takes nothing, it only waits
    stage,      \* where work() is
    options,    \* its _WorkerOptions
    finish,     \* the stop event
    loop,       \* where its release loop is
    job,        \* [Jobs -> where it is]
    works,      \* calls of work() so far
    tally,      \* history: the jobs that ended under these options
    moved,      \* history: one of them did since the last tick
    busyStop,   \* history: a tick stopped it as idle although jobs had ended or rows left
    deserted    \* history: jobs that ran when work() was cancelled

workingVars ==
    <<inMemory, stage, options, finish, loop, job, works, tally, moved, busyStop, deserted>>

Running == {j \in Jobs : job[j] \in {"runs", "rests"}}
Settled == \A j \in Jobs : job[j] \in {"done", "skipped"}

WorkingTypeOK ==
    /\ {inMemory, finish, moved, busyStop} \subseteq BOOLEAN
    /\ stage \in {"off", "listens", "closes"} /\ loop \in {"off", "waits", "releases"}
    /\ \/ options = NoOptions
       \/ options \in [limit : Limits, whenEmpty : BOOLEAN, processed : Nat, lastTick : Nat]
    /\ job \in [Jobs -> {"none", "row", "queued", "runs", "rests", "done", "skipped"}]
    /\ works \in 0..MaxWorks /\ tally \subseteq Jobs /\ deserted \subseteq Jobs

WorkingInit ==
    /\ inMemory \in BOOLEAN
    /\ stage = "off" /\ options = NoOptions /\ finish = FALSE /\ loop = "off" /\ works = 0
    /\ job = [j \in Jobs |-> "none"]
    /\ tally = {} /\ moved = FALSE /\ busyStop = FALSE /\ deserted = {}

AsWorked == UNCHANGED <<inMemory, works>>
HistoryStays == UNCHANGED <<tally, moved, busyStop, deserted>>

----------------------------------------------------------------------------
\* Somebody dispatches the job, now or later.
DispatchJob(j) ==
    /\ job[j] = "none"
    /\ \E at \in {"queued", "row"} : job' = [job EXCEPT ![j] = at]
    /\ UNCHANGED <<stage, options, finish, loop>> /\ AsWorked /\ HistoryStays

StartWork ==
    /\ stage = "off" /\ works < MaxWorks
    /\ stage' = "listens" /\ finish' = FALSE /\ loop' = "waits" /\ works' = works + 1
    /\ \E limit \in Limits, whenEmpty \in BOOLEAN :
          options' = [limit |-> limit, whenEmpty |-> whenEmpty, processed |-> 0, lastTick |-> 0]
    /\ tally' = {} /\ moved' = FALSE
    /\ UNCHANGED <<inMemory, job, busyStop, deserted>>

\* The receiver takes messages until the stop event; the in-memory broker runs what is
\* dispatched, whoever works.
Take(j) ==
    /\ job[j] = "queued" /\ (inMemory \/ (stage = "listens" /\ ~finish))
    /\ job' = [job EXCEPT ![j] = "runs"]
    /\ UNCHANGED <<stage, options, finish, loop>> /\ AsWorked /\ HistoryStays

\* _invoke_body parks the job, or counts it for its batch, and returns; or what it does after
\* any job raises out of it. It is not processed.
Skip(j) ==
    /\ job[j] = "runs"
    /\ job' = [job EXCEPT ![j] = "skipped"]
    /\ UNCHANGED <<stage, options, finish, loop>> /\ AsWorked /\ HistoryStays

\* _note_job_processed, of a job that succeeded, failed or was deferred, and the rest after it.
Processed(j) ==
    /\ job[j] = "runs" /\ j \notin Unserved
    /\ IF options = NoOptions
       THEN job' = [job EXCEPT ![j] = "done"] /\ UNCHANGED <<options, finish>> /\ HistoryStays
       ELSE /\ job' = [job EXCEPT ![j] = "rests"]
            /\ options' = [options EXCEPT !.processed = @ + 1]
            /\ finish' = (finish \/ (options.limit > 0 /\ options'.processed >= options.limit))
            /\ tally' = tally \cup {j} /\ moved' = TRUE
            /\ UNCHANGED <<busyStop, deserted>>
    /\ UNCHANGED <<stage, loop>> /\ AsWorked

Rested(j) ==
    /\ job[j] = "rests"
    /\ job' = [job EXCEPT ![j] = "done"]
    /\ UNCHANGED <<stage, options, finish, loop>> /\ AsWorked /\ HistoryStays

\* A signal, _stop_after or _stop_on_memory.
Stop ==
    /\ stage = "listens" /\ ~finish
    /\ finish' = TRUE
    /\ UNCHANGED <<stage, options, loop, job>> /\ AsWorked /\ HistoryStays

----------------------------------------------------------------------------
\* _release_loop: it sleeps for an interval or until the stop event, which it reads before a
\* call of the database and not during one.
Wake ==
    /\ loop = "waits"
    /\ loop' = IF finish THEN "off" ELSE "releases"
    /\ UNCHANGED <<stage, options, finish, job>> /\ AsWorked /\ HistoryStays

\* Mutant: the rows that were released do not count.
IdleTickWhatever(released) == options.processed = options.lastTick

IdleTick(released) == released = 0 /\ options.processed = options.lastTick

\* Mutant: a pass that raised ends the loop.
ErrorEnds(failed) == IF failed THEN "off" ELSE "waits"

\* The exception of a pass is logged, and swallowed.
AfterPass(failed) == "waits"

\* release_due pushes some of the rows, those that are due, or raises after it pushed them,
\* and then reports none; _on_release_tick.
Tick ==
    /\ loop = "releases"
    /\ \E rows \in SUBSET {j \in Jobs : job[j] = "row"}, failed \in BOOLEAN :
          LET released == IF failed THEN 0 ELSE Cardinality(rows)
              idle == options.whenEmpty /\ options.processed > 0 /\ IdleTick(released)
          IN  /\ job' = [j \in Jobs |-> IF j \in rows THEN "queued" ELSE job[j]]
              /\ options' = IF options.whenEmpty
                            THEN [options EXCEPT !.lastTick = options.processed] ELSE options
              /\ finish' = (finish \/ idle)
              /\ busyStop' = (busyStop \/ (idle /\ (moved \/ (rows # {} /\ ~failed))))
              /\ loop' = AfterPass(failed)
    /\ moved' = FALSE
    /\ UNCHANGED <<stage, tally, deserted>> /\ AsWorked

\* Mutant: listen returns while a job rests.
DrainedOfRunning == {j \in Jobs : job[j] = "runs"} \subseteq deserted

\* listen returns when what it took has ended; in memory the stop event is enough.
Drained == Running \subseteq deserted

ListenEnds ==
    /\ stage = "listens" /\ finish /\ (inMemory \/ Drained)
    /\ stage' = "closes"
    /\ UNCHANGED <<options, finish, loop, job>> /\ AsWorked /\ HistoryStays

\* The task of work() is cancelled from outside: the jobs run on, the loop is told to stop.
CancelWork ==
    /\ stage = "listens"
    /\ stage' = "closes" /\ finish' = TRUE
    /\ deserted' = deserted \cup Running
    /\ UNCHANGED <<options, loop, job, tally, moved, busyStop>> /\ AsWorked

\* wait_for(releaser): the loop ends by itself, or is cancelled in a call that hangs.
Close ==
    /\ stage = "closes" /\ loop \in {"off", "releases"}
    /\ stage' = "off" /\ loop' = "off" /\ options' = NoOptions
    /\ UNCHANGED <<finish, job>> /\ AsWorked /\ HistoryStays

WorkingRuns ==
    \/ \E j \in Jobs : Take(j) \/ Skip(j) \/ Processed(j) \/ Rested(j)
    \/ Wake \/ Tick \/ ListenEnds \/ Close

WorkingStep ==
    \/ \E j \in Jobs : DispatchJob(j)
    \/ StartWork \/ Stop \/ CancelWork \/ WorkingRuns

----------------------------------------------------------------------------
\* A worker that has returned runs nothing any more, unless its broker does, or it was
\* cancelled, and its release loop is gone; what it processed is what ended while it worked,
\* and a full count has stopped it; an idle tick stops it only if no job has ended since the
\* tick before and no row was released, except by a pass that raised in the end
\* (_note_job_processed, _on_release_tick).
WorkedOff ==
    /\ stage = "off" => loop = "off" /\ (inMemory \/ Running \subseteq deserted)
    /\ options # NoOptions =>
          /\ options.processed = Cardinality(tally)
          /\ options.limit \notin 1..options.processed \/ finish
    /\ ~busyStop

\* A worker that is told to stop is to return, also while the database fails; and so is one
\* that stops when it is empty, has processed a job and has nothing left: not one that has
\* only skipped jobs.
ToReturn ==
    stage = "listens" /\ (finish \/ (options.whenEmpty /\ tally # {} /\ Settled))
=============================================================================
