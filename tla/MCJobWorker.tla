---------------------------- MODULE MCJobWorker ----------------------------
(* A chain of two jobs, and two instances of one unique job; the worker      *)
(* named some serves the queue of every other job.                           *)
EXTENDS JobWorker
CONSTANTS head, tail, unique, twin, all, some

MCLink == [j \in Jobs |-> IF j = head THEN tail ELSE Null]

\* The chain: two attempts, cut short by a deadline or by fail_on_timeout.
ChainJobs == {head, tail}
ChainTries == [j \in ChainJobs |-> 2]
ChainMaxExceptions == [j \in ChainJobs |-> Null]
ChainServed == [w \in {all, some} |-> IF w = all THEN ChainJobs ELSE {tail}]

\* The unique job: max_exceptions stops the twin before its tries are used up.
UniqueJobs == {unique, twin}
UniqueTries == [j \in UniqueJobs |-> 2]
UniqueMaxExceptions == [j \in UniqueJobs |-> IF j = twin THEN 1 ELSE Null]
UniqueServed == [w \in {all, some} |-> IF w = all THEN UniqueJobs ELSE {}]
=============================================================================
