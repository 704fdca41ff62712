-------------------------- MODULE JobWorkerProofs --------------------------
(***************************************************************************)
(* Theorems about the life of a job, for every set of jobs, workers and    *)
(* queues, any budget of attempts and any number of faults.                *)
(***************************************************************************)
EXTENDS JobWorker, FiniteSetTheorems, TLAPS

USE DEF store, queues, worker, history, bounds, Goto, Fault, Finish

-----------------------------------------------------------------------------
(* The two halves of TypeOK: Boolean flags, and everything else.           *)

FlagsOK == bound \in BOOLEAN /\ late \in BOOLEAN /\ broken \in BOOLEAN

\* Where a job is, and what has happened to it.
JobsOK ==
    /\ dispatch \in [Jobs -> {"new", "enqueue", "enqueued", "dropped", "refused"}]
    /\ holder \in Unique \cup {Null}
    /\ dead \in [Jobs -> Nat]
    /\ thrown \in [Jobs -> Nat] /\ won \in [Jobs -> Nat]
    /\ gaveUp \in [Jobs -> Nat] /\ caught \in [Jobs -> Nat]
    /\ deferrals \in 0..MaxDeferrals /\ faults \in 0..MaxFaults

\* The messages and the workers that run them.
MessagesOK ==
    /\ broker \in [Message -> Nat]
    /\ rows \in [Message -> Nat]
    /\ pc \in [Workers -> Busy \cup {"idle"}]
    /\ taken \in [Workers -> Message \cup {Null}]
    /\ attempt \in [Workers -> 0..MaxTries]

LEMMA TypeParts == TypeOK <=> FlagsOK /\ JobsOK /\ MessagesOK
  BY DEF TypeOK, FlagsOK, JobsOK, MessagesOK

\* A message has attempts left.
Left(m) == m \in Message /\ m.attempts < Tries[m.job]

\* No message travels with its attempts used up, and a worker that is to try
\* again has one left.
AttemptsLeft ==
    /\ \A m \in Message : broker[m] > 0 \/ rows[m] > 0 => Left(m)
    /\ \A w \in Workers : pc[w] # "idle" =>
          Left(taken[w]) /\ attempt[w] \in 1..Tries[taken[w].job]
    /\ \A w \in Workers : pc[w] = "retry" => attempt[w] < Tries[taken[w].job]

LEMMA TriesType == MaxTries \in Nat /\ \A j \in Jobs : Tries[j] \in 1..MaxTries
  BY JobsAssumption

LEMMA FreshLeft == \A j \in Jobs : Left(Fresh(j))
<1> SUFFICES ASSUME NEW j \in Jobs PROVE Left(Fresh(j))
  OBVIOUS
<1>1. Fresh(j) \in Message
  BY TriesType DEF Fresh, Message
<1>2. Fresh(j).attempts < Tries[Fresh(j).job]
  BY TriesType DEF Fresh
<1> QED BY <1>1, <1>2 DEF Left

LEMMA LeftJob == \A m : Left(m) => m.job \in Jobs /\ m.attempts \in 0..MaxTries
  BY DEF Left, Message

-----------------------------------------------------------------------------
LEMMA FlagsNext == FlagsOK /\ [Next]_vars => FlagsOK'
<1> SUFFICES ASSUME FlagsOK, [Next]_vars PROVE FlagsOK'
  OBVIOUS
<1> USE DEF FlagsOK
<1>1. ASSUME NEW j \in Jobs, AcquireSlot(j) \/ Enqueue(j) \/ EnqueueLater(j)
      PROVE FlagsOK'
  BY <1>1, Zenon DEF AcquireSlot, Enqueue, EnqueueLater
<1>2. ASSUME NEW w \in Workers, NEW m \in Message, Receive(w, m) PROVE FlagsOK'
  BY <1>2, Zenon DEF Receive
<1>3. ASSUME NEW w \in Workers, Park(w) \/ Succeed(w) \/ Throw(w) \/ Retry(w) \/ PutBack(w)
      PROVE FlagsOK'
  BY <1>3, Zenon DEF Park, Succeed, Throw, Retry, PutBack
<1>4. ASSUME NEW w \in Workers,
             FailedHook(w) \/ RecordFailed(w) \/ ChainCatch(w) \/ NextLink(w)
               \/ ReleaseUnique(w) \/ Defer(w)
      PROVE FlagsOK'
  BY <1>4, Zenon DEF FailedHook, RecordFailed, ChainCatch, NextLink, ReleaseUnique, Defer
<1>5. ASSUME NEW m \in Message, ReleaseRow(m) \/ ReleaseRowTwice(m) PROVE FlagsOK'
  BY <1>5, Zenon DEF ReleaseRow, ReleaseRowTwice
<1>6. ASSUME NEW j \in Jobs, RetryFailed(j) \/ EnqueueRaises(j) PROVE FlagsOK'
  BY <1>6, Zenon DEF RetryFailed, EnqueueRaises
<1>7. ASSUME NEW w \in Workers, Die(w) \/ StepRaises(w) PROVE FlagsOK'
  BY <1>7, Zenon DEF Die, StepRaises
<1>8. CASE BecomeLate \/ SlotExpires
  BY <1>8, Zenon DEF BecomeLate, SlotExpires
<1>9. CASE UNCHANGED vars
  BY <1>9, Zenon DEF vars
<1> QED
  BY <1>1, <1>2, <1>3, <1>4, <1>5, <1>6, <1>7, <1>8, <1>9 DEF Next, Work, Trouble

LEMMA JobsNext == JobsOK /\ MessagesOK /\ AttemptsLeft /\ [Next]_vars => JobsOK'
<1> SUFFICES ASSUME JobsOK, MessagesOK, AttemptsLeft, [Next]_vars PROVE JobsOK'
  OBVIOUS
<1> USE DEF JobsOK
<1>j. \A w \in Workers : pc[w] # "idle" => taken[w].job \in Jobs
  BY LeftJob DEF AttemptsLeft
<1>1. ASSUME NEW j \in Jobs, AcquireSlot(j) \/ Enqueue(j) \/ EnqueueLater(j)
      PROVE JobsOK'
  BY <1>1 DEF AcquireSlot, Enqueue, EnqueueLater
<1>2. ASSUME NEW w \in Workers, NEW m \in Message, Receive(w, m) PROVE JobsOK'
  BY <1>2 DEF Receive
<1>3. ASSUME NEW w \in Workers, Park(w) \/ Retry(w) \/ PutBack(w) \/ FailedHook(w)
      PROVE JobsOK'
  BY <1>3 DEF Park, Retry, PutBack, FailedHook
<1>4. ASSUME NEW w \in Workers, Succeed(w) \/ Throw(w) \/ ChainCatch(w) PROVE JobsOK'
  BY <1>4, <1>j DEF Succeed, Throw, ChainCatch
<1>5. ASSUME NEW w \in Workers, RecordFailed(w) PROVE JobsOK'
  <2>1. dead' = dead \/ dead' = [dead EXCEPT ![taken[w].job] = @ + 1]
    BY <1>5, Zenon DEF RecordFailed, Recorded
  <2>2. UNCHANGED <<dispatch, holder, thrown, won, caught, deferrals, faults>>
        /\ gaveUp' = [gaveUp EXCEPT ![taken[w].job] = @ + 1]
    BY <1>5 DEF RecordFailed
  <2>3. taken[w].job \in Jobs
    BY <1>5, <1>j DEF RecordFailed
  <2> QED BY <2>1, <2>2, <2>3
<1>6. ASSUME NEW w \in Workers, NextLink(w) PROVE JobsOK'
  <2>1. dispatch' = dispatch \/ dispatch' = [dispatch EXCEPT ![Link[taken[w].job]] = "enqueued"]
    BY <1>6, Zenon DEF NextLink, Advance
  <2>2. UNCHANGED <<holder, dead, thrown, won, gaveUp, caught, deferrals, faults>>
    BY <1>6 DEF NextLink
  <2> QED BY <2>1, <2>2
<1>7. ASSUME NEW w \in Workers, ReleaseUnique(w) PROVE JobsOK'
  BY <1>7 DEF ReleaseUnique, Freed
<1>8. ASSUME NEW w \in Workers, Defer(w) PROVE JobsOK'
  BY <1>8, JobsAssumption DEF Defer
<1>9. ASSUME NEW m \in Message, ReleaseRow(m) PROVE JobsOK'
  BY <1>9 DEF ReleaseRow
<1>10. ASSUME NEW m \in Message, ReleaseRowTwice(m) PROVE JobsOK'
  BY <1>10, JobsAssumption DEF ReleaseRowTwice
<1>11. ASSUME NEW j \in Jobs, RetryFailed(j) PROVE JobsOK'
  BY <1>11, JobsAssumption DEF RetryFailed
<1>12. ASSUME NEW j \in Jobs, EnqueueRaises(j) PROVE JobsOK'
  BY <1>12, JobsAssumption DEF EnqueueRaises
<1>13. ASSUME NEW w \in Workers, Die(w) PROVE JobsOK'
  BY <1>13, JobsAssumption DEF Die
<1>14. ASSUME NEW w \in Workers, StepRaises(w) PROVE JobsOK'
  BY <1>14, JobsAssumption DEF StepRaises
<1>15. CASE BecomeLate
  BY <1>15 DEF BecomeLate
<1>16. CASE SlotExpires
  BY <1>16, JobsAssumption DEF SlotExpires
<1>17. CASE UNCHANGED vars
  BY <1>17 DEF vars
<1> QED
  BY <1>1, <1>2, <1>3, <1>4, <1>5, <1>6, <1>7, <1>8, <1>9, <1>10, <1>11, <1>12, <1>13,
     <1>14, <1>15, <1>16, <1>17 DEF Next, Work, Trouble

-----------------------------------------------------------------------------
(* Messages.  Every action adds messages with attempts left to the queues, *)
(* and moves one worker.                                                   *)

\* bag was changed by at most one copy of a message with attempts left.
Moved(bag, next) ==
    \/ next = bag
    \/ \E m \in Message : Left(m) /\ next = More(bag, m)
    \/ \E m \in Message : bag[m] > 0 /\ next = Less(bag, m)

LEMMA MovedBags ==
  ASSUME MessagesOK, AttemptsLeft, Moved(broker, broker'), Moved(rows, rows')
  PROVE  /\ broker' \in [Message -> Nat] /\ rows' \in [Message -> Nat]
         /\ \A m \in Message : broker'[m] > 0 \/ rows'[m] > 0 => Left(m)
  BY DEF MessagesOK, AttemptsLeft, Moved, More, Less

\* Worker w is done, or moves on with the same message to a label other than
\* "retry" and no new attempt.
LEMMA WorkerMoves ==
  ASSUME MessagesOK, AttemptsLeft, Moved(broker, broker'), Moved(rows, rows'),
         NEW w \in Workers, pc[w] # "idle",
         \/ Finish(w)
         \/ /\ UNCHANGED <<taken, attempt>>
            /\ \E l \in Busy \ {"retry"} : pc' = [pc EXCEPT ![w] = l]
  PROVE  MessagesOK' /\ AttemptsLeft'
<1>1. /\ broker' \in [Message -> Nat] /\ rows' \in [Message -> Nat]
      /\ \A m \in Message : broker'[m] > 0 \/ rows'[m] > 0 => Left(m)
  BY MovedBags
<1>2. MessagesOK'
  BY <1>1, TriesType DEF MessagesOK, Busy
<1>3. AttemptsLeft'
  BY <1>1 DEF MessagesOK, AttemptsLeft, Busy
<1> QED BY <1>2, <1>3

\* No worker moves.
LEMMA QueuesMove ==
  ASSUME MessagesOK, AttemptsLeft, Moved(broker, broker'), Moved(rows, rows'),
         UNCHANGED worker
  PROVE  MessagesOK' /\ AttemptsLeft'
  BY MovedBags DEF MessagesOK, AttemptsLeft

LEMMA MessagesNext ==
  FlagsOK /\ JobsOK /\ MessagesOK /\ AttemptsLeft /\ [Next]_vars
    => MessagesOK' /\ AttemptsLeft'
<1> SUFFICES ASSUME FlagsOK, JobsOK, MessagesOK, AttemptsLeft, [Next]_vars
             PROVE MessagesOK' /\ AttemptsLeft'
  OBVIOUS
<1>l. \A w \in Workers : pc[w] # "idle" =>
         Left(taken[w]) /\ taken[w] \in Message /\ taken[w].job \in Jobs
  BY LeftJob DEF AttemptsLeft, Left
<1>f. \A j \in Jobs : Fresh(j) \in Message /\ Left(Fresh(j))
  BY FreshLeft DEF Left
<1>1. ASSUME NEW j \in Jobs, AcquireSlot(j) \/ Enqueue(j) \/ EnqueueLater(j)
      PROVE MessagesOK' /\ AttemptsLeft'
  <2>1. Moved(broker, broker') /\ Moved(rows, rows') /\ UNCHANGED worker
    BY <1>1, <1>f DEF AcquireSlot, Enqueue, EnqueueLater, Moved
  <2> QED BY <2>1, QueuesMove
<1>2. ASSUME NEW w \in Workers, NEW m \in Message, Receive(w, m)
      PROVE MessagesOK' /\ AttemptsLeft'
  <2>1. Moved(broker, broker') /\ Moved(rows, rows')
    BY <1>2 DEF Receive, Moved
  <2>2. Left(m) /\ m.job \in Jobs /\ m.attempts \in 0..MaxTries
    BY <1>2, LeftJob DEF Receive, AttemptsLeft
  <2>3. \E n \in {m.attempts + 1, 1} : attempt' = [attempt EXCEPT ![w] = n]
    BY <1>2, Zenon DEF Receive
  <2>4. \E n \in 1..Tries[m.job] : attempt' = [attempt EXCEPT ![w] = n]
    <3>1. m.attempts < Tries[m.job] /\ Tries[m.job] \in Nat
      BY <2>2, TriesType DEF Left
    <3>2. m.attempts + 1 \in 1..Tries[m.job] /\ 1 \in 1..Tries[m.job]
      BY <2>2, <3>1
    <3> QED BY <2>3, <3>2
  <2>5. \E l \in {"park", "run"} : pc' = [pc EXCEPT ![w] = l]
    BY <1>2, Zenon DEF Receive
  <2>6. taken' = [taken EXCEPT ![w] = m]
    BY <1>2 DEF Receive
  <2>7. /\ broker' \in [Message -> Nat] /\ rows' \in [Message -> Nat]
        /\ \A k \in Message : broker'[k] > 0 \/ rows'[k] > 0 => Left(k)
    BY <2>1, MovedBags
  <2>8. MessagesOK'
    BY <2>2, <2>4, <2>5, <2>6, <2>7, TriesType DEF MessagesOK, Busy
  <2>9. AttemptsLeft'
    BY <2>2, <2>4, <2>5, <2>6, <2>7 DEF MessagesOK, AttemptsLeft
  <2> QED BY <2>8, <2>9
<1>3. ASSUME NEW w \in Workers, Park(w) \/ PutBack(w) PROVE MessagesOK' /\ AttemptsLeft'
  <2>1. Finish(w) /\ pc[w] # "idle"
    BY <1>3 DEF Park, PutBack
  <2>2. broker' = broker \/ broker' = More(broker, taken[w])
    BY <1>3, Zenon DEF Park, PutBack
  <2>3. rows' = rows \/ rows' = More(rows, taken[w])
    BY <1>3, Zenon DEF Park, PutBack
  <2>4. Moved(broker, broker') /\ Moved(rows, rows')
    BY <2>1, <2>2, <2>3, <1>l DEF Moved
  <2> QED BY <2>1, <2>4, WorkerMoves
<1>4. ASSUME NEW w \in Workers, Succeed(w) \/ FailedHook(w) \/ RecordFailed(w)
                                  \/ ChainCatch(w) \/ Defer(w)
      PROVE MessagesOK' /\ AttemptsLeft'
  <2>1. UNCHANGED <<broker, rows, taken, attempt>> /\ pc[w] # "idle"
    BY <1>4 DEF Succeed, FailedHook, RecordFailed, ChainCatch, Defer
  <2>2. \E l \in Busy \ {"retry"} : pc' = [pc EXCEPT ![w] = l]
    BY <1>4 DEF Succeed, FailedHook, RecordFailed, ChainCatch, Defer, Busy
  <2> QED BY <2>1, <2>2, WorkerMoves DEF Moved
<1>5. ASSUME NEW w \in Workers, Throw(w) PROVE MessagesOK' /\ AttemptsLeft'
  <2>1. UNCHANGED <<broker, rows, taken, attempt>> /\ pc[w] = "run"
    BY <1>5 DEF Throw
  <2>2. \/ pc' = [pc EXCEPT ![w] = "hook"]
        \/ /\ ~ShouldStop(taken[w].job, attempt[w])
           /\ pc' = [pc EXCEPT ![w] = "retry"]
    BY <1>5, Zenon DEF Throw
  <2>3. CASE pc' = [pc EXCEPT ![w] = "hook"]
    BY <2>1, <2>3, WorkerMoves DEF Moved, Busy
  <2>4. CASE ~ShouldStop(taken[w].job, attempt[w]) /\ pc' = [pc EXCEPT ![w] = "retry"]
    <3>1. ~(attempt[w] >= Tries[taken[w].job])
      BY <2>4, Zenon DEF ShouldStop
    <3>2. attempt[w] < Tries[taken[w].job]
      BY <3>1, <2>1, <1>l, TriesType DEF MessagesOK
    <3> QED BY <2>1, <2>4, <3>2 DEF MessagesOK, AttemptsLeft, Busy
  <2> QED BY <2>2, <2>3, <2>4
<1>6. ASSUME NEW w \in Workers, Retry(w) PROVE MessagesOK' /\ AttemptsLeft'
  <2>1. pc[w] = "retry" /\ UNCHANGED broker
        /\ \/ rows' = More(rows, NextAttempt(w)) /\ Finish(w)
           \/ /\ attempt' = [attempt EXCEPT ![w] = @ + 1]
              /\ pc' = [pc EXCEPT ![w] = "run"]
              /\ UNCHANGED <<rows, taken>>
    BY <1>6, Zenon DEF Retry
  <2>2. taken[w].job \in Jobs /\ attempt[w] \in 1..Tries[taken[w].job]
        /\ attempt[w] < Tries[taken[w].job] /\ taken[w] \in Message
    BY <2>1, <1>l DEF AttemptsLeft
  <2>3. NextAttempt(w) \in Message /\ Left(NextAttempt(w))
    BY <2>2, TriesType DEF NextAttempt, Left, Message
  <2>4. CASE rows' = More(rows, NextAttempt(w)) /\ Finish(w)
    BY <2>1, <2>3, <2>4, WorkerMoves DEF Moved
  <2>5. CASE /\ attempt' = [attempt EXCEPT ![w] = @ + 1]
             /\ pc' = [pc EXCEPT ![w] = "run"]
             /\ UNCHANGED <<rows, taken>>
    BY <2>1, <2>2, <2>5, TriesType DEF MessagesOK, AttemptsLeft, Busy
  <2> QED BY <2>1, <2>4, <2>5
<1>7. ASSUME NEW w \in Workers, NextLink(w) PROVE MessagesOK' /\ AttemptsLeft'
  <2>1. UNCHANGED <<rows, taken, attempt>> /\ pc[w] # "idle"
        /\ pc' = [pc EXCEPT ![w] = "unlock"]
    BY <1>7 DEF NextLink
  <2>2. \/ broker' = broker
        \/ /\ Link[taken[w].job] # Null
           /\ broker' = More(broker, Fresh(Link[taken[w].job]))
    BY <1>7, Zenon DEF NextLink, Advance
  <2>3. Link[taken[w].job] # Null => Link[taken[w].job] \in Jobs
    BY <2>1, <1>l, JobsAssumption
  <2>4. Moved(broker, broker') /\ Moved(rows, rows')
    BY <2>1, <2>2, <2>3, <1>f DEF Moved
  <2> QED BY <2>1, <2>4, WorkerMoves DEF Busy
<1>8. ASSUME NEW w \in Workers, ReleaseUnique(w) PROVE MessagesOK' /\ AttemptsLeft'
  BY <1>8, WorkerMoves DEF ReleaseUnique, Moved
<1>9. ASSUME NEW m \in Message, ReleaseRow(m) \/ ReleaseRowTwice(m)
      PROVE MessagesOK' /\ AttemptsLeft'
  <2>1. Left(m)
    BY <1>9 DEF ReleaseRow, ReleaseRowTwice, AttemptsLeft
  <2>2. Moved(broker, broker') /\ Moved(rows, rows') /\ UNCHANGED worker
    BY <1>9, <2>1 DEF ReleaseRow, ReleaseRowTwice, Moved
  <2> QED BY <2>2, QueuesMove
<1>10. ASSUME NEW j \in Jobs, RetryFailed(j) \/ EnqueueRaises(j)
       PROVE MessagesOK' /\ AttemptsLeft'
  <2>1. Moved(broker, broker') /\ Moved(rows, rows') /\ UNCHANGED worker
    BY <1>10, <1>f DEF RetryFailed, EnqueueRaises, Moved
  <2> QED BY <2>1, QueuesMove
<1>11. ASSUME NEW w \in Workers, Die(w) \/ StepRaises(w) PROVE MessagesOK' /\ AttemptsLeft'
  <2>1. Finish(w) /\ pc[w] # "idle"
    BY <1>11 DEF Die, StepRaises
  <2>2. (broker' = broker \/ broker' = More(broker, taken[w])) /\ rows' = rows
    BY <1>11 DEF Die, StepRaises
  <2> QED BY <2>1, <2>2, <1>l, WorkerMoves DEF Moved
<1>12. CASE BecomeLate \/ SlotExpires
  BY <1>12, QueuesMove DEF BecomeLate, SlotExpires, Moved
<1>13. CASE UNCHANGED vars
  BY <1>13, QueuesMove DEF vars, Moved
<1> QED
  BY <1>1, <1>2, <1>3, <1>4, <1>5, <1>6, <1>7, <1>8, <1>9, <1>10, <1>11, <1>12, <1>13
  DEF Next, Work, Trouble

-----------------------------------------------------------------------------
LEMMA TypeInit == Init => TypeOK /\ AttemptsLeft
<1> SUFFICES ASSUME Init PROVE FlagsOK /\ JobsOK /\ MessagesOK /\ AttemptsLeft
  BY TypeParts
<1>1. FlagsOK
  BY Zenon DEF Init, FlagsOK
<1>2. JobsOK
  BY JobsAssumption DEF Init, JobsOK
<1>3. MessagesOK /\ AttemptsLeft
  BY JobsAssumption DEF Init, MessagesOK, AttemptsLeft
<1> QED BY <1>1, <1>2, <1>3

LEMMA TypeNext == TypeOK /\ AttemptsLeft /\ [Next]_vars => TypeOK' /\ AttemptsLeft'
<1>1. FlagsOK' /\ JobsOK' /\ MessagesOK' => TypeOK'
  BY DEF TypeOK, FlagsOK, JobsOK, MessagesOK
<1> QED BY <1>1, TypeParts, FlagsNext, JobsNext, MessagesNext

\* The tables, the broker and the workers always have their types; in
\* particular no attempt is beyond the greatest budget.
THEOREM WorkerTypeCorrect == Spec => []TypeOK
  BY TypeInit, TypeNext, PTL DEF Spec

\* No message on the broker, in the jobs table or with a worker has used up
\* its attempts: an exhausted job never travels again.
THEOREM NoExhaustedMessage == Spec => []AttemptsLeft
  BY TypeInit, TypeNext, PTL DEF Spec

-----------------------------------------------------------------------------
(* Nothing is dropped.  A copy of a job counts only while it may still end *)
(* the job: on a queue, or with a worker that has not recorded its end.    *)

Trying == {"park", "run", "retry", "putback", "hook", "record"}

Waiting(j) == \E m \in Message : m.job = j /\ (broker[m] > 0 \/ rows[m] > 0)
Held(j) == \E w \in Workers : pc[w] \in Trying /\ taken[w].job = j
Owed(j) == Waiting(j) \/ Held(j) \/ Settled(j)

OwedInv == ~broken => \A j \in Jobs : dispatch[j] = "enqueued" => Owed(j)

\* No copy leaves a queue.
Grows == \A m \in Message : (broker[m] > 0 => broker'[m] > 0) /\ (rows[m] > 0 => rows'[m] > 0)

\* No end is forgotten.
Remembers ==
    /\ bound' = bound
    /\ \A j \in Jobs : (won[j] > 0 => won'[j] > 0) /\ (gaveUp[j] > 0 => gaveUp'[j] > 0)
                        /\ (dead[j] > 0 => dead'[j] > 0)

LEMMA MoreGrows ==
  ASSUME NEW bag \in [Message -> Nat], NEW m \in Message
  PROVE  More(bag, m)[m] > 0 /\ \A k \in Message : bag[k] > 0 => More(bag, m)[k] > 0
  BY DEF More

\* A step that takes no copy off a queue and moves no worker keeps what is owed.
LEMMA QueuesKeep ==
  ASSUME Grows, Remembers, UNCHANGED <<pc, taken>>, NEW j \in Jobs, Owed(j)
  PROVE  Owed(j)'
<1>1. Settled(j) => Settled(j)'
  BY Zenon DEF Settled, Remembers
<1>2. Waiting(j) => Waiting(j)'
  BY DEF Waiting, Grows
<1>3. Held(j) => Held(j)'
  BY DEF Held
<1> QED BY <1>1, <1>2, <1>3 DEF Owed

\* Nor does a step of one worker, as long as its own job stays owed.
LEMMA WorkerKeeps ==
  ASSUME Grows, Remembers, NEW w \in Workers,
         \A v \in Workers \ {w} : pc'[v] = pc[v] /\ taken'[v] = taken[v],
         \A i \in Jobs : pc[w] \in Trying /\ i = taken[w].job => Owed(i)',
         NEW j \in Jobs, Owed(j)
  PROVE  Owed(j)'
<1>1. Settled(j) => Settled(j)'
  BY Zenon DEF Settled, Remembers
<1>2. Waiting(j) => Waiting(j)'
  BY DEF Waiting, Grows
<1>3. ASSUME NEW v \in Workers, v # w, pc[v] \in Trying /\ taken[v].job = j
      PROVE Held(j)'
  BY <1>3 DEF Held
<1>4. Held(j) => Held(j)' \/ Owed(j)'
  BY <1>3 DEF Held
<1> QED BY <1>1, <1>2, <1>4 DEF Owed

LEMMA OwedNext ==
  TypeOK /\ AttemptsLeft /\ OwedInv /\ [Next]_vars => OwedInv'
<1> SUFFICES ASSUME TypeOK, AttemptsLeft, OwedInv, [Next]_vars, ~broken',
                    NEW j \in Jobs, dispatch'[j] = "enqueued"
             PROVE  Owed(j)'
  BY DEF OwedInv
<1>t. FlagsOK /\ JobsOK /\ MessagesOK
  BY TypeParts
<1>l. \A w \in Workers : pc[w] # "idle" => taken[w] \in Message /\ taken[w].job \in Jobs
  BY LeftJob DEF AttemptsLeft, Left
<1>f. \A i \in Jobs : Fresh(i) \in Message /\ Fresh(i).job = i
  BY FreshLeft DEF Left, Fresh
<1>b. ~broken /\ dispatch[j] = "enqueued" => Owed(j)
  BY DEF OwedInv
<1> USE DEF MessagesOK, JobsOK
<1>1. ASSUME NEW i \in Jobs, AcquireSlot(i) PROVE Owed(j)'
  <2>1. ~broken /\ dispatch[j] = "enqueued"
    BY <1>1, <1>t DEF AcquireSlot
  <2> QED BY <1>1, <2>1, <1>b, QueuesKeep DEF AcquireSlot, Grows, Remembers
<1>2. ASSUME NEW i \in Jobs, Enqueue(i) \/ EnqueueLater(i) PROVE Owed(j)'
  <2>1. Grows /\ Remembers /\ UNCHANGED <<pc, taken>> /\ broken' = broken
    BY <1>2, <1>t, <1>f, MoreGrows DEF Enqueue, EnqueueLater, Grows, Remembers
  <2>2. CASE i = j
    BY <1>2, <2>2, <1>t, <1>f, MoreGrows DEF Enqueue, EnqueueLater, Owed, Waiting
  <2>3. CASE i # j
    <3>1. ~broken /\ dispatch[j] = "enqueued"
      BY <1>2, <2>1, <2>3, <1>t DEF Enqueue, EnqueueLater
    <3> QED BY <2>1, <3>1, <1>b, QueuesKeep
  <2> QED BY <2>2, <2>3
<1>3. ASSUME NEW w \in Workers, NEW m \in Message, Receive(w, m) PROVE Owed(j)'
  <2>1. Owed(j)
    BY <1>3, <1>b DEF Receive
  <2>2. \E l \in {"park", "run"} : pc' = [pc EXCEPT ![w] = l]
    BY <1>3, Zenon DEF Receive
  <2>3. /\ pc[w] = "idle" /\ taken' = [taken EXCEPT ![w] = m]
        /\ broker' = Less(broker, m)
        /\ UNCHANGED <<bound, rows, won, dead, gaveUp>>
    BY <1>3 DEF Receive
  <2>4. CASE m.job = j
    BY <2>2, <2>3, <2>4, <1>t DEF Owed, Held, Trying
  <2>5. CASE m.job # j
    <3>1. Settled(j) => Settled(j)'
      BY <2>3 DEF Settled
    <3>2. Waiting(j) => Waiting(j)'
      BY <2>3, <2>5, <1>t DEF Waiting, Less
    <3>3. Held(j) => Held(j)'
      BY <2>2, <2>3, <1>t DEF Held, Trying
    <3> QED BY <2>1, <3>1, <3>2, <3>3 DEF Owed
  <2> QED BY <2>4, <2>5
<1>4. ASSUME NEW w \in Workers, Park(w) \/ PutBack(w) PROVE Owed(j)'
  <2>1. /\ Owed(j) /\ Finish(w) /\ pc[w] # "idle" /\ Remembers
        /\ \/ broker' = broker /\ rows' = More(rows, taken[w])
           \/ broker' = More(broker, taken[w]) /\ rows' = rows
    <3>1. \/ broker' = broker /\ rows' = More(rows, taken[w])
          \/ broker' = More(broker, taken[w]) /\ rows' = rows
      BY <1>4, Zenon DEF Park, PutBack
    <3> QED BY <1>4, <1>b, <3>1 DEF Park, PutBack, Remembers
  <2>2. taken[w] \in Message
    BY <2>1, <1>l
  <2>3. Grows
    BY <2>1, <2>2, <1>t, MoreGrows DEF Grows
  <2>4. ASSUME NEW i \in Jobs, i = taken[w].job PROVE Owed(i)'
    BY <2>1, <2>2, <2>4, <1>t, MoreGrows DEF Owed, Waiting
  <2> QED BY <2>1, <2>3, <2>4, <1>t, WorkerKeeps
<1>5. ASSUME NEW w \in Workers, Succeed(w) PROVE Owed(j)'
  <2>1. Owed(j) /\ pc[w] # "idle"
    BY <1>5, <1>b DEF Succeed
  <2>2. Grows /\ Remembers
    BY <1>5, <1>t, <2>1, <1>l DEF Succeed, Grows, Remembers
  <2>3. won'[taken[w].job] > 0
    BY <1>5, <1>t, <2>1, <1>l DEF Succeed
  <2>4. ASSUME NEW i \in Jobs, i = taken[w].job PROVE Owed(i)'
    BY <2>3, <2>4 DEF Owed, Settled
  <2>5. \A v \in Workers \ {w} : pc'[v] = pc[v] /\ taken'[v] = taken[v]
    BY <1>5, <1>t DEF Succeed
  <2> QED BY <2>1, <2>2, <2>4, <2>5, WorkerKeeps
<1>6. ASSUME NEW w \in Workers, Throw(w) \/ Defer(w) \/ FailedHook(w) PROVE Owed(j)'
  <2>1. \E l \in Trying : pc' = [pc EXCEPT ![w] = l]
    BY <1>6 DEF Throw, Defer, FailedHook, Trying
  <2>2. Owed(j) /\ Grows /\ Remembers /\ taken' = taken
    BY <1>6, <1>b DEF Throw, Defer, FailedHook, Grows, Remembers
  <2>3. ASSUME NEW i \in Jobs, i = taken[w].job PROVE Owed(i)'
    BY <2>1, <2>2, <2>3, <1>t DEF Owed, Held, Trying
  <2> QED BY <2>1, <2>2, <2>3, <1>t, WorkerKeeps
<1>7. ASSUME NEW w \in Workers, Retry(w) PROVE Owed(j)'
  <2>1. /\ Owed(j) /\ pc[w] = "retry" /\ Remembers /\ broker' = broker
        /\ \/ rows' = More(rows, NextAttempt(w)) /\ Finish(w)
           \/ pc' = [pc EXCEPT ![w] = "run"] /\ rows' = rows /\ taken' = taken
    <3>1. \/ rows' = More(rows, NextAttempt(w)) /\ Finish(w)
          \/ pc' = [pc EXCEPT ![w] = "run"] /\ rows' = rows /\ taken' = taken
      BY <1>7, Zenon DEF Retry
    <3> QED BY <1>7, <1>b, <3>1 DEF Retry, Remembers
  <2>2. NextAttempt(w) \in Message /\ NextAttempt(w).job = taken[w].job
    <3>1. taken[w] \in Message /\ attempt[w] \in 0..MaxTries
      BY <2>1, <1>l, <1>t
    <3> QED BY <3>1 DEF NextAttempt, Message
  <2>3. Grows
    BY <2>1, <2>2, <1>t, MoreGrows DEF Grows
  <2>4. ASSUME NEW i \in Jobs, i = taken[w].job PROVE Owed(i)'
    <3>1. CASE rows' = More(rows, NextAttempt(w))
      BY <2>2, <2>4, <3>1, <1>t, MoreGrows DEF Owed, Waiting
    <3>2. CASE pc' = [pc EXCEPT ![w] = "run"] /\ taken' = taken
      BY <2>4, <3>2, <1>t DEF Owed, Held, Trying
    <3> QED BY <2>1, <3>1, <3>2
  <2>5. \A v \in Workers \ {w} : pc'[v] = pc[v] /\ taken'[v] = taken[v]
    BY <2>1, <1>t
  <2> QED BY <2>1, <2>3, <2>4, <2>5, WorkerKeeps
<1>8. ASSUME NEW w \in Workers, RecordFailed(w) PROVE Owed(j)'
  <2>1. /\ Owed(j) /\ pc[w] # "idle" /\ bound' = bound
        /\ gaveUp' = [gaveUp EXCEPT ![taken[w].job] = @ + 1]
        /\ UNCHANGED <<broker, rows, won, taken>>
        /\ pc' = [pc EXCEPT ![w] = "catch"]
    BY <1>8, <1>b DEF RecordFailed
  <2>2. taken[w].job \in Jobs
    BY <2>1, <1>l
  <2>3. \/ bound /\ dead' = [dead EXCEPT ![taken[w].job] = @ + 1]
        \/ ~bound /\ dead' = dead
    BY <1>8, Zenon DEF RecordFailed, Recorded
  <2>4. dead'[taken[w].job] > 0 \/ (~bound' /\ gaveUp'[taken[w].job] > 0)
    BY <2>1, <2>2, <2>3, <1>t
  <2>5. ASSUME NEW i \in Jobs, i = taken[w].job PROVE Owed(i)'
    BY <2>4, <2>5 DEF Owed, Settled
  <2>6. Grows /\ Remembers
    BY <2>1, <2>2, <2>3, <1>t DEF Grows, Remembers
  <2>7. \A v \in Workers \ {w} : pc'[v] = pc[v] /\ taken'[v] = taken[v]
    BY <2>1, <1>t
  <2> QED BY <2>1, <2>5, <2>6, <2>7, WorkerKeeps
<1>9. ASSUME NEW w \in Workers, ChainCatch(w) \/ ReleaseUnique(w) PROVE Owed(j)'
  <2>1. Owed(j) /\ Grows /\ Remembers /\ pc[w] \notin Trying
    BY <1>9, <1>b DEF ChainCatch, ReleaseUnique, Grows, Remembers, Trying
  <2>2. \A v \in Workers \ {w} : pc'[v] = pc[v] /\ taken'[v] = taken[v]
    BY <1>9, <1>t DEF ChainCatch, ReleaseUnique
  <2> QED BY <2>1, <2>2, WorkerKeeps
<1>10. ASSUME NEW w \in Workers, NextLink(w) PROVE Owed(j)'
  <2> DEFINE k == Link[taken[w].job]
  <2>1. /\ pc[w] = "link" /\ pc' = [pc EXCEPT ![w] = "unlock"] /\ taken' = taken
        /\ rows' = rows /\ Remembers /\ broken' = broken
    BY <1>10 DEF NextLink, Remembers
  <2>2. \/ UNCHANGED <<dispatch, broker>>
        \/ /\ k # Null
           /\ dispatch' = [dispatch EXCEPT ![k] = "enqueued"]
           /\ broker' = More(broker, Fresh(k))
    BY <1>10, Zenon DEF NextLink, Advance
  <2>3. k # Null => k \in Jobs /\ Fresh(k) \in Message /\ Fresh(k).job = k
    BY <2>1, <1>l, <1>f, JobsAssumption
  <2>4. Grows
    BY <2>1, <2>2, <2>3, <1>t, MoreGrows DEF Grows
  <2>5. CASE j = k /\ broker' = More(broker, Fresh(k)) /\ k # Null
    BY <2>3, <2>5, <1>t, MoreGrows DEF Owed, Waiting
  <2>6. CASE ~(j = k /\ broker' = More(broker, Fresh(k)) /\ k # Null)
    <3>1. Owed(j)
      BY <2>1, <2>2, <2>6, <1>t, <1>b
    <3>2. pc[w] \notin Trying /\ \A v \in Workers \ {w} : pc'[v] = pc[v] /\ taken'[v] = taken[v]
      BY <2>1, <1>t DEF Trying
    <3> QED BY <2>1, <2>4, <3>1, <3>2, WorkerKeeps
  <2> QED BY <2>5, <2>6
<1>11. ASSUME NEW m \in Message, ReleaseRow(m) PROVE Owed(j)'
  <2>1. /\ Owed(j) /\ rows' = Less(rows, m) /\ broker' = More(broker, m)
        /\ UNCHANGED <<bound, dead, won, gaveUp, pc, taken>>
    BY <1>11, <1>b DEF ReleaseRow
  <2>2. Waiting(j) => Waiting(j)'
    BY <2>1, <1>t DEF Waiting, More, Less
  <2>3. Held(j) => Held(j)'
    BY <2>1 DEF Held
  <2>4. Settled(j) => Settled(j)'
    BY <2>1 DEF Settled
  <2> QED BY <2>1, <2>2, <2>3, <2>4 DEF Owed
<1>12. ASSUME NEW m \in Message, ReleaseRowTwice(m) PROVE Owed(j)'
  <2>1. Owed(j) /\ broker' = More(broker, m) /\ rows' = rows /\ Remembers
        /\ UNCHANGED <<pc, taken>>
    BY <1>12, <1>b DEF ReleaseRowTwice, Remembers
  <2>2. Grows
    BY <2>1, <1>t, MoreGrows DEF Grows
  <2> QED BY <2>1, <2>2, QueuesKeep
<1>13. ASSUME NEW i \in Jobs, RetryFailed(i) PROVE Owed(j)'
  <2>1. /\ Owed(j) /\ broker' = More(broker, Fresh(i))
        /\ dead' \in {dead, [dead EXCEPT ![i] = @ - 1]}
        /\ UNCHANGED <<bound, rows, won, gaveUp, pc, taken>>
    BY <1>13, <1>b DEF RetryFailed
  <2>2. CASE i = j
    BY <2>1, <2>2, <1>t, <1>f, MoreGrows DEF Owed, Waiting
  <2>3. CASE i # j
    <3>1. Waiting(j) => Waiting(j)'
      BY <2>1, <1>t, <1>f, MoreGrows DEF Waiting
    <3>2. Held(j) => Held(j)'
      BY <2>1 DEF Held
    <3>3. dead'[j] = dead[j]
      BY <2>1, <2>3, <1>t
    <3>4. Settled(j) => Settled(j)'
      BY <2>1, <3>3 DEF Settled
    <3> QED BY <2>1, <3>1, <3>2, <3>4 DEF Owed
  <2> QED BY <2>2, <2>3
<1>14. ASSUME NEW i \in Jobs, EnqueueRaises(i) PROVE Owed(j)'
  BY <1>14 DEF EnqueueRaises
<1>15. ASSUME NEW w \in Workers, Die(w) PROVE Owed(j)'
  <2>1. broker' = More(broker, taken[w]) /\ broken' = broken /\ rows' = rows
    BY <1>15 DEF Die
  <2>2. Owed(j) /\ Finish(w) /\ pc[w] # "idle" /\ Remembers
    BY <1>15, <2>1, <1>b DEF Die, Remembers
  <2>3. taken[w] \in Message
    BY <2>2, <1>l
  <2>4. Grows
    BY <2>1, <2>3, <1>t, MoreGrows DEF Grows
  <2>5. ASSUME NEW i \in Jobs, i = taken[w].job PROVE Owed(i)'
    BY <2>1, <2>3, <2>5, <1>t, MoreGrows DEF Owed, Waiting
  <2> QED BY <2>2, <2>4, <2>5, <1>t, WorkerKeeps
<1>16. ASSUME NEW w \in Workers, StepRaises(w) PROVE Owed(j)'
  BY <1>16 DEF StepRaises
<1>17. CASE BecomeLate \/ SlotExpires
  <2>1. Owed(j)
    BY <1>17, <1>b DEF BecomeLate, SlotExpires
  <2> QED BY <1>17, <2>1, QueuesKeep DEF BecomeLate, SlotExpires, Grows, Remembers
<1>18. CASE UNCHANGED vars
  <2>1. Owed(j)
    BY <1>18, <1>b DEF vars
  <2> QED BY <1>18, <2>1, QueuesKeep DEF vars, Grows, Remembers
<1> QED
  BY <1>1, <1>2, <1>3, <1>4, <1>5, <1>6, <1>7, <1>8, <1>9, <1>10, <1>11, <1>12, <1>13,
     <1>14, <1>15, <1>16, <1>17, <1>18 DEF Next, Work, Trouble

LEMMA OwedInit == Init => OwedInv
  BY DEF Init, OwedInv

\* An enqueued job is on its way until it has succeeded or is recorded as
\* failed, whatever is parked, deferred, doubled, redelivered or retried.
THEOREM NothingSilentlyDropped == Spec => []NothingDropped
<1>1. Spec => [](TypeOK /\ AttemptsLeft /\ OwedInv)
  BY TypeInit, OwedInit, TypeNext, OwedNext, PTL DEF Spec
<1>2. ASSUME TypeOK, AttemptsLeft, OwedInv PROVE NothingDropped
  <2>1. \A j \in Jobs : Owed(j) => InFlight(j) \/ Settled(j)
    BY DEF Owed, Waiting, Held, Trying, InFlight
  <2> QED BY <1>2, <2>1 DEF OwedInv, NothingDropped
<1> QED BY <1>1, <1>2, PTL

-----------------------------------------------------------------------------
(* The invariants that count: how often a job ends, how often it is thrown,    *)
(* what a unique job has in flight. A job may be in many places at once after *)
(* a fault, and a chain hands its end on from link to link, so each argument  *)
(* numbers the copies of all the jobs that may still lead to the event and    *)
(* shows that their number never grows by a step.                             *)

(* The story of a job: what has happened to it, and to the link before it.  *)

Sent(j) == dispatch[j] = "enqueued"

USE DEF Sent

\* What travels, is held or has ended was enqueued.
TravelsSent ==
    /\ \A m \in Message : broker[m] > 0 \/ rows[m] > 0 => Sent(m.job)
    /\ \A w \in Workers : pc[w] # "idle" => Sent(taken[w].job)

\* A worker goes on to the next link after a success, to the catch after a failure.
EndsHappened ==
    \A w \in Workers : /\ pc[w] = "link" => won[taken[w].job] > 0
                       /\ pc[w] = "catch" => gaveUp[taken[w].job] > 0

Ended(j) == thrown[j] > 0 \/ won[j] > 0 \/ gaveUp[j] > 0

JobStory ==
    \A j \in Jobs :
        /\ Ended(j) => Sent(j)
        /\ dispatch[j] = "enqueue" => j \in Direct
        /\ dead[j] > 0 \/ caught[j] > 0 => gaveUp[j] > 0
        /\ Link[j] # Null /\ Sent(Link[j]) => won[j] > 0

Story == TravelsSent /\ EndsHappened /\ JobStory

\* Nothing that was enqueued or has ended is taken back.
Lasting ==
    \A j \in Jobs : /\ Sent(j) => Sent(j)'
                    /\ won[j] > 0 => won'[j] > 0
                    /\ gaveUp[j] > 0 => gaveUp'[j] > 0

\* No link is enqueued, and no job ends or is recorded.
Quiet ==
    /\ Lasting /\ UNCHANGED <<thrown, won, gaveUp, caught>>
    /\ \A j \in Jobs : dead'[j] > 0 => dead[j] > 0
    /\ \A j \in Jobs : Link[j] # Null /\ Sent(Link[j])' => Sent(Link[j])
    /\ \A j \in Jobs : dispatch'[j] = "enqueue" => j \in Direct

\* The copies on the queues are of jobs that were enqueued.
SentBags ==
    \A m \in Message : broker'[m] > 0 \/ rows'[m] > 0 => Sent(m.job)'

LEMMA QuietStory ==
  ASSUME JobsOK, JobStory, Quiet PROVE JobStory'
  BY DEF JobsOK, JobStory, Quiet, Lasting, Ended, Sent

LEMMA BagsSent ==
  ASSUME MessagesOK, TravelsSent, Lasting,
         broker' = broker \/ (\E m \in Message : Sent(m.job)' /\ broker' = More(broker, m))
           \/ (\E m \in Message : broker[m] > 0 /\ broker' = Less(broker, m)),
         rows' = rows \/ (\E m \in Message : Sent(m.job)' /\ rows' = More(rows, m))
           \/ (\E m \in Message : rows[m] > 0 /\ rows' = Less(rows, m))
  PROVE  SentBags
<1> SUFFICES ASSUME NEW m \in Message, broker'[m] > 0 \/ rows'[m] > 0 PROVE Sent(m.job)'
  BY DEF SentBags
<1>1. m.job \in Jobs
  BY DEF Message
<1>2. broker'[m] > 0 => Sent(m.job)'
  BY <1>1 DEF MessagesOK, TravelsSent, Lasting, More, Less
<1>3. rows'[m] > 0 => Sent(m.job)'
  BY <1>1 DEF MessagesOK, TravelsSent, Lasting, More, Less
<1> QED BY <1>2, <1>3

\* A worker that is done, or at a label whose past is known, keeps the story.
LEMMA WorkerStory ==
  ASSUME MessagesOK, AttemptsLeft, TravelsSent, EndsHappened, Lasting, SentBags,
         NEW w \in Workers, pc[w] # "idle",
         \/ Finish(w)
         \/ /\ UNCHANGED taken
            /\ \E l \in Busy : /\ pc' = [pc EXCEPT ![w] = l]
                               /\ l = "link" => won'[taken[w].job] > 0
                               /\ l = "catch" => gaveUp'[taken[w].job] > 0
  PROVE  TravelsSent' /\ EndsHappened'
<1>j. \A v \in Workers : pc[v] # "idle" => taken[v].job \in Jobs
  BY LeftJob DEF AttemptsLeft
<1>1. ASSUME NEW v \in Workers, pc'[v] # "idle" PROVE dispatch'[taken'[v].job] = "enqueued"
  BY <1>1, <1>j DEF MessagesOK, TravelsSent, Lasting, Busy
<1>2. ASSUME NEW v \in Workers
      PROVE  /\ pc'[v] = "link" => won'[taken'[v].job] > 0
             /\ pc'[v] = "catch" => gaveUp'[taken'[v].job] > 0
  BY <1>j DEF MessagesOK, EndsHappened, Lasting
<1> QED BY <1>1, <1>2 DEF TravelsSent, EndsHappened, SentBags

LEMMA QueueStory ==
  ASSUME MessagesOK, AttemptsLeft, TravelsSent, EndsHappened, Lasting, SentBags,
         UNCHANGED worker
  PROVE  TravelsSent' /\ EndsHappened'
<1>j. \A v \in Workers : pc[v] # "idle" => taken[v].job \in Jobs
  BY LeftJob DEF AttemptsLeft
<1> QED BY <1>j DEF TravelsSent, EndsHappened, Lasting, SentBags

LEMMA StoryInit == Init => Story
<1> SUFFICES ASSUME Init PROVE TravelsSent /\ EndsHappened /\ JobStory
  BY DEF Story
<1>1. TravelsSent /\ EndsHappened
  BY DEF Init, TravelsSent, EndsHappened
<1>2. ASSUME NEW j \in Jobs
      PROVE  ~Ended(j) /\ dispatch[j] = "new" /\ ~(dead[j] > 0 \/ caught[j] > 0)
  BY DEF Init, Ended
<1>3. JobStory
  BY <1>2, JobsAssumption DEF JobStory
<1> QED BY <1>1, <1>3

LEMMA StoryNext == TypeOK /\ AttemptsLeft /\ Story /\ [Next]_vars => Story'
<1> SUFFICES ASSUME TypeOK, AttemptsLeft, Story, [Next]_vars
             PROVE  TravelsSent' /\ EndsHappened' /\ JobStory'
  BY DEF Story
<1>t. JobsOK /\ MessagesOK /\ TravelsSent /\ EndsHappened /\ JobStory
  BY TypeParts DEF Story
<1>l. \A w \in Workers : pc[w] # "idle" =>
         taken[w] \in Message /\ taken[w].job \in Jobs /\ Sent(taken[w].job)
  BY <1>t, LeftJob DEF AttemptsLeft, Left, TravelsSent
<1>m. \A m \in Message : m.job \in Jobs
  BY DEF Message
<1>f. \A j \in Jobs : Fresh(j) \in Message /\ Fresh(j).job = j
  BY FreshLeft DEF Left, Fresh
<1> USE DEF JobsOK
<1>1. ASSUME NEW j \in Jobs, AcquireSlot(j)
      PROVE  TravelsSent' /\ EndsHappened' /\ JobStory'
  <2>1. /\ dispatch[j] = "new" /\ j \in Direct
        /\ \E d \in {"enqueue", "dropped"} : dispatch' = [dispatch EXCEPT ![j] = d]
        /\ UNCHANGED <<queues, worker, history>>
    BY <1>1 DEF AcquireSlot
  <2>2. Quiet
    BY <2>1, <1>t, ChainsAssumption DEF Quiet, Lasting, JobStory
  <2>3. SentBags
    BY <2>1, <2>2, <1>t, BagsSent DEF Quiet
  <2> QED BY <2>1, <2>2, <2>3, <1>t, QuietStory, QueueStory DEF Quiet
<1>2. ASSUME NEW j \in Jobs, Enqueue(j) \/ EnqueueLater(j)
      PROVE  TravelsSent' /\ EndsHappened' /\ JobStory'
  <2>1. /\ dispatch[j] \in {"new", "enqueue"} /\ j \in Direct \cup Chained
        /\ dispatch' = [dispatch EXCEPT ![j] = "enqueued"]
        /\ broker' = broker \/ broker' = More(broker, Fresh(j))
        /\ rows' = rows \/ rows' = More(rows, Fresh(j))
        /\ UNCHANGED <<dead, worker, history>>
    BY <1>2, <1>t DEF Enqueue, EnqueueLater, Dispatching, JobStory
  <2>2. Quiet
    BY <2>1, <1>t, ChainsAssumption DEF Quiet, Lasting, JobStory
  <2>3. SentBags
    BY <2>1, <2>2, <1>t, <1>f, BagsSent DEF Quiet
  <2> QED BY <2>1, <2>2, <2>3, <1>t, QuietStory, QueueStory DEF Quiet
<1>3. ASSUME NEW w \in Workers, NEW m \in Message, Receive(w, m)
      PROVE  TravelsSent' /\ EndsHappened' /\ JobStory'
  <2>1. /\ pc[w] = "idle" /\ broker[m] > 0 /\ broker' = Less(broker, m)
        /\ taken' = [taken EXCEPT ![w] = m]
        /\ UNCHANGED <<dispatch, rows, dead, history>>
    BY <1>3 DEF Receive
  <2>2. \E l \in {"park", "run"} : pc' = [pc EXCEPT ![w] = l]
    BY <1>3, Zenon DEF Receive
  <2>3. Quiet
    BY <2>1, <1>t DEF Quiet, Lasting, JobStory
  <2>4. SentBags
    BY <2>1, <2>3, <1>t, BagsSent DEF Quiet
  <2>5. Sent(m.job)
    BY <2>1, <1>t DEF TravelsSent
  <2>6. TravelsSent'
    BY <2>1, <2>2, <2>4, <2>5, <1>t DEF TravelsSent, SentBags, MessagesOK
  <2>7. EndsHappened'
    BY <2>1, <2>2, <1>t DEF EndsHappened, MessagesOK
  <2> QED BY <2>3, <2>6, <2>7, <1>t, QuietStory
<1>4. ASSUME NEW w \in Workers, Park(w) \/ PutBack(w)
      PROVE  TravelsSent' /\ EndsHappened' /\ JobStory'
  <2>1. /\ pc[w] # "idle" /\ Finish(w)
        /\ UNCHANGED <<dispatch, dead, history>>
    BY <1>4 DEF Park, PutBack
  <2>2. /\ broker' = broker \/ broker' = More(broker, taken[w])
        /\ rows' = rows \/ rows' = More(rows, taken[w])
    BY <1>4, Zenon DEF Park, PutBack
  <2>3. Quiet
    BY <2>1, <1>t DEF Quiet, Lasting, JobStory
  <2>4. SentBags
    BY <2>1, <2>2, <2>3, <1>t, <1>l, BagsSent DEF Quiet, Lasting
  <2> QED BY <2>1, <2>3, <2>4, <1>t, QuietStory, WorkerStory DEF Quiet
<1>5. ASSUME NEW w \in Workers, Retry(w)
      PROVE  TravelsSent' /\ EndsHappened' /\ JobStory'
  <2>1. /\ pc[w] = "retry" /\ UNCHANGED <<dispatch, broker, dead, history>>
        /\ \/ rows' = More(rows, NextAttempt(w)) /\ Finish(w)
           \/ pc' = [pc EXCEPT ![w] = "run"] /\ UNCHANGED <<rows, taken>>
    <3>1. \/ rows' = More(rows, NextAttempt(w)) /\ Finish(w)
          \/ pc' = [pc EXCEPT ![w] = "run"] /\ UNCHANGED <<rows, taken>>
      BY <1>5, Zenon DEF Retry
    <3> QED BY <1>5, <3>1 DEF Retry
  <2>2. NextAttempt(w) \in Message /\ NextAttempt(w).job = taken[w].job
    <3>1. taken[w] \in Message /\ attempt[w] \in 0..MaxTries
      BY <2>1, <1>l, <1>t DEF MessagesOK
    <3> QED BY <3>1 DEF NextAttempt, Message
  <2>3. Quiet
    BY <2>1, <1>t DEF Quiet, Lasting, JobStory
  <2>4. SentBags
    BY <2>1, <2>2, <2>3, <1>t, <1>l, BagsSent DEF Quiet, Lasting
  <2>5. "run" \in Busy
    BY DEF Busy
  <2> QED BY <2>1, <2>3, <2>4, <2>5, <1>t, QuietStory, WorkerStory DEF Quiet
<1>6. ASSUME NEW w \in Workers, Succeed(w) \/ Throw(w) \/ RecordFailed(w) \/ ChainCatch(w)
      PROVE  TravelsSent' /\ EndsHappened' /\ JobStory'
  <2> DEFINE j == taken[w].job
  <2>1. pc[w] # "idle" /\ UNCHANGED <<dispatch, broker, rows, taken>>
    BY <1>6 DEF Succeed, Throw, RecordFailed, ChainCatch
  <2>2. /\ won' = won \/ won' = [won EXCEPT ![j] = @ + 1]
        /\ thrown' = thrown \/ thrown' = [thrown EXCEPT ![j] = @ + 1]
        /\ gaveUp' = gaveUp \/ gaveUp' = [gaveUp EXCEPT ![j] = @ + 1]
        /\ caught' = caught \/ (caught' = [caught EXCEPT ![j] = @ + 1] /\ gaveUp[j] > 0)
    BY <1>6, <1>t DEF Succeed, Throw, RecordFailed, ChainCatch, EndsHappened
  <2>3. dead' = dead \/ (dead' = [dead EXCEPT ![j] = @ + 1]
                          /\ gaveUp' = [gaveUp EXCEPT ![j] = @ + 1])
    BY <1>6, Zenon DEF Succeed, Throw, RecordFailed, Recorded, ChainCatch
  <2>4. j \in Jobs /\ Sent(j)
    BY <2>1, <1>l
  <2>5. Lasting
    BY <2>1, <2>2, <2>4, <1>t DEF Lasting
  <2>6. JobStory'
    <3> SUFFICES ASSUME NEW i \in Jobs
                 PROVE  /\ Ended(i)' => Sent(i)'
                        /\ dispatch'[i] = "enqueue" => i \in Direct
                        /\ dead'[i] > 0 \/ caught'[i] > 0 => gaveUp'[i] > 0
                        /\ Link[i] # Null /\ Sent(Link[i])' => won'[i] > 0
      BY DEF JobStory
    <3>1. Ended(i)' => Sent(i)'
      BY <2>1, <2>2, <2>4, <1>t DEF JobStory, Ended
    <3>2. dead'[i] > 0 \/ caught'[i] > 0 => gaveUp'[i] > 0
      BY <2>2, <2>3, <2>4, <1>t DEF JobStory
    <3>3. Link[i] # Null /\ Sent(Link[i])' => won'[i] > 0
      BY <2>1, <2>5, <1>t DEF JobStory, Lasting
    <3> QED BY <2>1, <3>1, <3>2, <3>3, <1>t DEF JobStory
  <2>7. SentBags
    BY <2>1, <2>5, <1>t, BagsSent
  <2>8. \E l \in Busy : /\ pc' = [pc EXCEPT ![w] = l]
                        /\ l = "link" => won'[j] > 0
                        /\ l = "catch" => gaveUp'[j] > 0
    <3>1. CASE Succeed(w)
      BY <3>1, <2>4, <1>t DEF Succeed, Busy
    <3>2. CASE Throw(w)
      BY <3>2 DEF Throw, Busy
    <3>3. CASE RecordFailed(w)
      BY <3>3, <2>4, <1>t DEF RecordFailed, Busy
    <3>4. CASE ChainCatch(w)
      BY <3>4 DEF ChainCatch, Busy
    <3> QED BY <1>6, <3>1, <3>2, <3>3, <3>4
  <2>9. TravelsSent' /\ EndsHappened'
    BY <2>1, <2>5, <2>7, <2>8, <1>t, WorkerStory
  <2> QED BY <2>6, <2>9
<1>7. ASSUME NEW w \in Workers, FailedHook(w) \/ Defer(w) \/ ReleaseUnique(w)
      PROVE  TravelsSent' /\ EndsHappened' /\ JobStory'
  <2>1. pc[w] # "idle" /\ UNCHANGED <<dispatch, queues, history>>
    BY <1>7 DEF FailedHook, Defer, ReleaseUnique
  <2>2. \/ Finish(w)
        \/ UNCHANGED taken /\ \E l \in {"record", "putback"} : pc' = [pc EXCEPT ![w] = l]
    BY <1>7 DEF FailedHook, Defer, ReleaseUnique
  <2>3. Quiet
    BY <2>1, <1>t DEF Quiet, Lasting, JobStory
  <2>4. SentBags
    BY <2>1, <2>3, <1>t, BagsSent DEF Quiet
  <2>5. {"record", "putback"} \subseteq Busy
    BY DEF Busy
  <2> QED BY <2>1, <2>2, <2>3, <2>4, <2>5, <1>t, QuietStory, WorkerStory DEF Quiet
<1>8. ASSUME NEW w \in Workers, NextLink(w)
      PROVE  TravelsSent' /\ EndsHappened' /\ JobStory'
  <2> DEFINE j == taken[w].job
             k == Link[j]
  <2>1. /\ pc[w] = "link" /\ pc' = [pc EXCEPT ![w] = "unlock"]
        /\ UNCHANGED <<rows, dead, taken, history>>
    BY <1>8 DEF NextLink
  <2>2. \/ UNCHANGED <<dispatch, broker>>
        \/ /\ k # Null
           /\ dispatch' = [dispatch EXCEPT ![k] = "enqueued"]
           /\ broker' = More(broker, Fresh(k))
    BY <1>8, Zenon DEF NextLink, Advance
  <2>3. j \in Jobs /\ won[j] > 0 /\ (k # Null => k \in Jobs)
    BY <2>1, <1>l, <1>t, JobsAssumption DEF EndsHappened
  <2>4. Lasting
    BY <2>1, <2>2, <2>3, <1>t DEF Lasting
  <2>5. JobStory'
    <3>1. CASE UNCHANGED <<dispatch, broker>>
      BY <3>1, <2>1, <1>t DEF JobStory, Ended
    <3>2. CASE k # Null /\ dispatch' = [dispatch EXCEPT ![k] = "enqueued"]
      <4>1. \A i \in Jobs : Link[i] # Null /\ Sent(Link[i])' => Link[i] = k \/ Sent(Link[i])
        BY <3>2, <2>3, <1>t, JobsAssumption
      <4>2. \A i \in Jobs : Link[i] = k => i = j
        BY <3>2, <2>3, ChainsAssumption
      <4>3. \A i \in Jobs : Link[i] # Null /\ Sent(Link[i])' => won[i] > 0
        BY <4>1, <4>2, <2>3, <1>t DEF JobStory
      <4>4. \A i \in Jobs : dispatch'[i] = "enqueue" => dispatch[i] = "enqueue"
        BY <3>2, <2>3, <1>t
      <4> QED BY <4>3, <4>4, <2>1, <2>4, <1>t DEF JobStory, Ended, Lasting
    <3> QED BY <2>2, <3>1, <3>2
  <2>6. SentBags
    BY <2>1, <2>2, <2>3, <2>4, <1>t, <1>f, BagsSent
  <2>7. "unlock" \in Busy
    BY DEF Busy
  <2> QED BY <2>1, <2>4, <2>5, <2>6, <2>7, <1>t, WorkerStory
<1>9. ASSUME NEW m \in Message, ReleaseRow(m) \/ ReleaseRowTwice(m)
      PROVE  TravelsSent' /\ EndsHappened' /\ JobStory'
  <2>1. /\ rows[m] > 0 /\ broker' = More(broker, m)
        /\ rows' = rows \/ rows' = Less(rows, m)
        /\ UNCHANGED <<dispatch, dead, worker, history>>
    BY <1>9 DEF ReleaseRow, ReleaseRowTwice
  <2>2. Quiet
    BY <2>1, <1>t DEF Quiet, Lasting, JobStory
  <2>3. Sent(m.job)
    BY <2>1, <1>t DEF TravelsSent
  <2>4. SentBags
    BY <2>1, <2>2, <2>3, <1>m, <1>t, BagsSent DEF Quiet, Lasting
  <2> QED BY <2>1, <2>2, <2>4, <1>t, QuietStory, QueueStory DEF Quiet
<1>10. ASSUME NEW j \in Jobs, RetryFailed(j)
       PROVE  TravelsSent' /\ EndsHappened' /\ JobStory'
  <2>1. /\ dead[j] > 0 /\ broker' = More(broker, Fresh(j))
        /\ dead' \in {dead, [dead EXCEPT ![j] = @ - 1]}
        /\ UNCHANGED <<dispatch, rows, worker, history>>
    BY <1>10 DEF RetryFailed
  <2>2. Quiet
    BY <2>1, <1>t DEF Quiet, Lasting, JobStory
  <2>3. Sent(j)
    BY <2>1, <1>t DEF JobStory, Ended
  <2>4. SentBags
    BY <2>1, <2>2, <2>3, <1>f, <1>t, BagsSent DEF Quiet, Lasting
  <2> QED BY <2>1, <2>2, <2>4, <1>t, QuietStory, QueueStory DEF Quiet
<1>11. ASSUME NEW j \in Jobs, EnqueueRaises(j)
       PROVE  TravelsSent' /\ EndsHappened' /\ JobStory'
  <2>1. /\ dispatch[j] = "enqueue" /\ dispatch' = [dispatch EXCEPT ![j] = "refused"]
        /\ UNCHANGED <<queues, worker, thrown, won, gaveUp, caught>>
    BY <1>11 DEF EnqueueRaises
  <2>2. Quiet
    BY <2>1, <1>t, JobsAssumption DEF Quiet, Lasting, JobStory
  <2>3. SentBags
    BY <2>1, <2>2, <1>t, BagsSent DEF Quiet
  <2> QED BY <2>1, <2>2, <2>3, <1>t, QuietStory, QueueStory DEF Quiet
<1>12. ASSUME NEW w \in Workers, Die(w) \/ StepRaises(w)
       PROVE  TravelsSent' /\ EndsHappened' /\ JobStory'
  <2>1. /\ pc[w] # "idle" /\ Finish(w)
        /\ broker' = broker \/ broker' = More(broker, taken[w])
        /\ UNCHANGED <<dispatch, rows, dead, thrown, won, gaveUp, caught>>
    BY <1>12 DEF Die, StepRaises
  <2>2. Quiet
    BY <2>1, <1>t DEF Quiet, Lasting, JobStory
  <2>3. SentBags
    BY <2>1, <2>2, <1>t, <1>l, BagsSent DEF Quiet, Lasting
  <2> QED BY <2>1, <2>2, <2>3, <1>t, QuietStory, WorkerStory DEF Quiet
<1>13. CASE BecomeLate \/ SlotExpires \/ UNCHANGED vars
  <2>1. UNCHANGED <<dispatch, queues, worker, history>>
    BY <1>13 DEF BecomeLate, SlotExpires, vars
  <2>2. Quiet
    BY <2>1, <1>t DEF Quiet, Lasting, JobStory
  <2>3. SentBags
    BY <2>1, <2>2, <1>t, BagsSent DEF Quiet
  <2> QED BY <2>1, <2>2, <2>3, <1>t, QuietStory, QueueStory DEF Quiet
<1> QED
  BY <1>1, <1>2, <1>3, <1>4, <1>5, <1>6, <1>7, <1>8, <1>9, <1>10, <1>11, <1>12, <1>13
  DEF Next, Work, Trouble
-----------------------------------------------------------------------------
(* Counting.  Every copy of the jobs of a chain that may still lead to an   *)
(* end of its last job is counted, with the ends that job has had.          *)

Heads == Direct \cup Chained

\* A chain begins with its dispatch.
HeadFirst ==
    \A chain \in SUBSET Jobs, k \in Jobs :
        Line(chain, k) /\ (\E j \in chain : Sent(j)) => \E h \in chain \cap Heads : Sent(h)

One(holds) == IF holds THEN 1 ELSE 0

\* The copies in a bag of messages, numbered, of the jobs in a chain.
Copies(bag, chain) == {c \in Message \X Nat : c[1].job \in chain /\ c[2] < bag[c[1]]}

\* The workers that may yet end job k: they run it, or a job that leads to it.
Holders(chain, k) ==
    {w \in Workers : /\ taken[w].job \in chain
                     /\ pc[w] \in Trying \/ (pc[w] = "link" /\ taken[w].job # k)}

Finite(chain, k) ==
    /\ IsFiniteSet(Copies(broker, chain)) /\ IsFiniteSet(Copies(rows, chain))
    /\ IsFiniteSet(Holders(chain, k))

Count(chain, k) ==
    Cardinality(Copies(broker, chain)) + Cardinality(Copies(rows, chain))
      + Cardinality(Holders(chain, k)) + won[k] + gaveUp[k]

CountInv ==
    \A chain \in SUBSET Jobs, k \in Jobs :
        Line(chain, k) => Finite(chain, k) /\ Count(chain, k) <= 1 + faults

\* Two sets that differ in one element.
LEMMA DifferInOne ==
  ASSUME NEW S, NEW T, NEW x, IsFiniteSet(S), S \ {x} = T \ {x}
  PROVE  /\ IsFiniteSet(T) /\ Cardinality(T) \in Nat /\ Cardinality(S) \in Nat
         /\ Cardinality(T) = Cardinality(S) - One(x \in S) + One(x \in T)
<1>1. /\ IsFiniteSet(S \ {x})
      /\ Cardinality(S \ {x}) = Cardinality(S) - One(x \in S)
  BY FS_RemoveElement, FS_CardinalityType DEF One
<1>2. CASE x \in T
  <2>1. T = (S \ {x}) \cup {x}
    BY <1>2
  <2>2. IsFiniteSet(T) /\ Cardinality(T) = Cardinality(S \ {x}) + 1
    BY <1>1, <2>1, FS_AddElement
  <2> QED BY <1>1, <1>2, <2>2, FS_CardinalityType DEF One
<1>3. CASE x \notin T
  <2>1. T = S \ {x}
    BY <1>3
  <2>2. One(x \in T) = 0
    BY <1>3 DEF One
  <2>3. IsFiniteSet(T) /\ Cardinality(T) \in Nat /\ Cardinality(S) \in Nat
    BY <1>1, <2>1, FS_CardinalityType
  <2> QED BY <1>1, <2>1, <2>2, <2>3
<1> QED BY <1>2, <1>3

LEMMA CopiesMore ==
  ASSUME NEW bag \in [Message -> Nat], NEW m \in Message, NEW chain,
         IsFiniteSet(Copies(bag, chain))
  PROVE  /\ IsFiniteSet(Copies(More(bag, m), chain))
         /\ Cardinality(Copies(bag, chain)) \in Nat
         /\ Cardinality(Copies(More(bag, m), chain)) \in Nat
         /\ Cardinality(Copies(More(bag, m), chain))
              = Cardinality(Copies(bag, chain)) + One(m.job \in chain)
<1> DEFINE S == Copies(bag, chain)
           T == Copies(More(bag, m), chain)
           x == <<m, bag[m]>>
<1>1. More(bag, m) \in [Message -> Nat] /\ More(bag, m)[m] = bag[m] + 1
      /\ \A n \in Message : n # m => More(bag, m)[n] = bag[n]
  BY DEF More
<1>2. x \notin S
  BY DEF Copies
<1>3. x \in T <=> m.job \in chain
  BY <1>1 DEF Copies
<1>4. ASSUME NEW c, c # x PROVE c \in S <=> c \in T
  <2>1. CASE c \in Message \X Nat
    <3>1. PICK n \in Message, i \in Nat : c = <<n, i>>
      BY <2>1
    <3>2. n = m => i # bag[m]
      BY <1>4, <3>1
    <3>3. i < bag[n] <=> i < More(bag, m)[n]
      BY <1>1, <3>2
    <3> QED BY <3>1, <3>3 DEF Copies
  <2>2. CASE c \notin Message \X Nat
    BY <2>2 DEF Copies
  <2> QED BY <2>1, <2>2
<1>5. S \ {x} = T \ {x}
  BY <1>4
<1> HIDE DEF S, T, x
<1>6. IsFiniteSet(S)
  BY DEF S
<1>7. /\ IsFiniteSet(T) /\ Cardinality(T) \in Nat /\ Cardinality(S) \in Nat
      /\ Cardinality(T) = Cardinality(S) - One(x \in S) + One(x \in T)
  BY <1>5, <1>6, DifferInOne
<1>8. One(x \in S) = 0 /\ One(x \in T) = One(m.job \in chain)
  BY <1>2, <1>3 DEF One
<1>9. /\ IsFiniteSet(T) /\ Cardinality(T) \in Nat /\ Cardinality(S) \in Nat
      /\ Cardinality(T) = Cardinality(S) + One(m.job \in chain)
  BY <1>7, <1>8 DEF One
<1> QED BY <1>9 DEF S, T

LEMMA CopiesLess ==
  ASSUME NEW bag \in [Message -> Nat], NEW m \in Message, bag[m] > 0, NEW chain,
         IsFiniteSet(Copies(bag, chain))
  PROVE  /\ IsFiniteSet(Copies(Less(bag, m), chain))
         /\ Cardinality(Copies(bag, chain)) \in Nat
         /\ Cardinality(Copies(Less(bag, m), chain)) \in Nat
         /\ Cardinality(Copies(Less(bag, m), chain))
              = Cardinality(Copies(bag, chain)) - One(m.job \in chain)
<1> DEFINE S == Copies(bag, chain)
           T == Copies(Less(bag, m), chain)
           x == <<m, bag[m] - 1>>
<1>1. Less(bag, m) \in [Message -> Nat] /\ Less(bag, m)[m] = bag[m] - 1
      /\ \A n \in Message : n # m => Less(bag, m)[n] = bag[n]
  BY DEF Less
<1>2. x \notin T
  BY <1>1 DEF Copies
<1>3. x \in S <=> m.job \in chain
  BY DEF Copies
<1>4. ASSUME NEW c, c # x PROVE c \in S <=> c \in T
  <2>1. CASE c \in Message \X Nat
    <3>1. PICK n \in Message, i \in Nat : c = <<n, i>>
      BY <2>1
    <3>2. n = m => i # bag[m] - 1
      BY <1>4, <3>1
    <3>3. i < bag[n] <=> i < Less(bag, m)[n]
      BY <1>1, <3>2
    <3> QED BY <3>1, <3>3 DEF Copies
  <2>2. CASE c \notin Message \X Nat
    BY <2>2 DEF Copies
  <2> QED BY <2>1, <2>2
<1>5. S \ {x} = T \ {x}
  BY <1>4
<1> HIDE DEF S, T, x
<1>6. IsFiniteSet(S)
  BY DEF S
<1>7. /\ IsFiniteSet(T) /\ Cardinality(T) \in Nat /\ Cardinality(S) \in Nat
      /\ Cardinality(T) = Cardinality(S) - One(x \in S) + One(x \in T)
  BY <1>5, <1>6, DifferInOne
<1>8. One(x \in T) = 0 /\ One(x \in S) = One(m.job \in chain)
  BY <1>2, <1>3 DEF One
<1>9. /\ IsFiniteSet(T) /\ Cardinality(T) \in Nat /\ Cardinality(S) \in Nat
      /\ Cardinality(T) = Cardinality(S) - One(m.job \in chain)
  BY <1>7, <1>8 DEF One
<1> QED BY <1>9 DEF S, T

LEMMA HoldersMove ==
  ASSUME NEW chain, NEW k, NEW w \in Workers, IsFiniteSet(Holders(chain, k)),
         \A v \in Workers \ {w} : pc'[v] = pc[v] /\ taken'[v] = taken[v]
  PROVE  /\ IsFiniteSet(Holders(chain, k)')
         /\ Cardinality(Holders(chain, k)) \in Nat
         /\ Cardinality(Holders(chain, k)') \in Nat
         /\ Cardinality(Holders(chain, k)')
              = Cardinality(Holders(chain, k)) - One(w \in Holders(chain, k))
                  + One(w \in Holders(chain, k)')
<1> DEFINE S == Holders(chain, k)
           T == Holders(chain, k)'
<1>1. S \ {w} = T \ {w}
  BY DEF Holders
<1> HIDE DEF S, T
<1>2. IsFiniteSet(S)
  BY DEF S
<1>3. /\ IsFiniteSet(T) /\ Cardinality(T) \in Nat /\ Cardinality(S) \in Nat
      /\ Cardinality(T) = Cardinality(S) - One(w \in S) + One(w \in T)
  BY <1>1, <1>2, DifferInOne
<1> QED BY <1>3 DEF S, T

LEMMA HeadFirstNext ==
  TypeOK /\ AttemptsLeft /\ Story /\ HeadFirst /\ [Next]_vars => HeadFirst'
<1> SUFFICES ASSUME TypeOK, AttemptsLeft, Story, HeadFirst, [Next]_vars,
                    NEW chain \in SUBSET Jobs, NEW k \in Jobs, Line(chain, k),
                    NEW j \in chain, Sent(j)'
             PROVE  \E h \in chain \cap Heads : Sent(h)'
  BY DEF HeadFirst, Line
<1>t. JobsOK /\ TravelsSent /\ JobStory
  BY TypeParts DEF Story
<1>1. ASSUME NEW i \in Jobs, AcquireSlot(i) \/ EnqueueRaises(i)
      PROVE  \E h \in chain \cap Heads : Sent(h)'
  <2>1. /\ dispatch[i] \in {"new", "enqueue"}
        /\ \E d \in {"enqueue", "dropped", "refused"} : dispatch' = [dispatch EXCEPT ![i] = d]
    BY <1>1 DEF AcquireSlot, EnqueueRaises
  <2>2. Sent(j) /\ \A h \in Jobs : Sent(h) => Sent(h)'
    BY <2>1, <1>t DEF JobsOK
  <2> QED BY <2>2 DEF HeadFirst
<1>2. ASSUME NEW i \in Jobs, Enqueue(i) \/ EnqueueLater(i)
      PROVE  \E h \in chain \cap Heads : Sent(h)'
  <2>1. i \in Heads /\ dispatch' = [dispatch EXCEPT ![i] = "enqueued"]
    BY <1>2, <1>t DEF Enqueue, EnqueueLater, Dispatching, JobStory, Heads
  <2>2. CASE i = j
    BY <2>1, <2>2, <1>t DEF JobsOK
  <2>3. CASE i # j
    <3>1. Sent(j) /\ \A h \in Jobs : Sent(h) => Sent(h)'
      BY <2>1, <2>3, <1>t DEF JobsOK
    <3> QED BY <3>1 DEF HeadFirst
  <2> QED BY <2>2, <2>3
<1>3. ASSUME NEW w \in Workers, NextLink(w)
      PROVE  \E h \in chain \cap Heads : Sent(h)'
  <2> DEFINE i == taken[w].job
  <2>1. pc[w] # "idle"
        /\ \/ dispatch' = dispatch
           \/ Link[i] # Null /\ dispatch' = [dispatch EXCEPT ![Link[i]] = "enqueued"]
    <3>1. \/ dispatch' = dispatch
          \/ Link[i] # Null /\ dispatch' = [dispatch EXCEPT ![Link[i]] = "enqueued"]
      BY <1>3, Zenon DEF NextLink, Advance
    <3> QED BY <1>3, <3>1 DEF NextLink
  <2>2. i \in Jobs /\ Sent(i)
    BY <2>1, <1>t, LeftJob DEF AttemptsLeft, TravelsSent
  <2>3. \A h \in Jobs : Sent(h) => Sent(h)'
    BY <2>1, <1>t DEF JobsOK
  <2>4. \E g \in chain : Sent(g)
    <3>1. CASE Sent(j)
      BY <3>1
    <3>2. CASE ~Sent(j)
      <4>1. j = Link[i]
        BY <2>1, <3>2, <1>t DEF JobsOK
      <4>2. i \in chain
        BY <4>1, <2>2 DEF Line
      <4> QED BY <4>2, <2>2
    <3> QED BY <3>1, <3>2
  <2> QED BY <2>3, <2>4 DEF HeadFirst
<1>4. CASE UNCHANGED dispatch
  BY <1>4 DEF HeadFirst
<1>5. ASSUME NEW w \in Workers, NEW m \in Message, Receive(w, m) PROVE UNCHANGED dispatch
  BY <1>5 DEF Receive
<1>6. ASSUME NEW w \in Workers, Park(w) \/ Succeed(w) \/ Throw(w) \/ Retry(w) \/ PutBack(w)
               \/ FailedHook(w) \/ RecordFailed(w) \/ ChainCatch(w) \/ ReleaseUnique(w)
               \/ Defer(w) \/ Die(w) \/ StepRaises(w)
      PROVE  UNCHANGED dispatch
  BY <1>6 DEF Park, Succeed, Throw, Retry, PutBack, FailedHook, RecordFailed, ChainCatch,
              ReleaseUnique, Defer, Die, StepRaises
<1>7. ASSUME NEW m \in Message, ReleaseRow(m) \/ ReleaseRowTwice(m) PROVE UNCHANGED dispatch
  BY <1>7 DEF ReleaseRow, ReleaseRowTwice
<1>8. ASSUME NEW i \in Jobs, RetryFailed(i) PROVE UNCHANGED dispatch
  BY <1>8 DEF RetryFailed
<1>9. CASE BecomeLate \/ SlotExpires \/ UNCHANGED vars
  BY <1>4, <1>9 DEF BecomeLate, SlotExpires, vars
<1> QED
  BY <1>1, <1>2, <1>3, <1>4, <1>5, <1>6, <1>7, <1>8, <1>9 DEF Next, Work, Trouble

\* Before its head is enqueued there is nothing of a chain to count.
LEMMA NothingToCount ==
  ASSUME TypeOK, AttemptsLeft, Story, HeadFirst, NEW chain \in SUBSET Jobs, NEW k \in Jobs,
         Line(chain, k), ~ \E h \in chain \cap Heads : Sent(h)
  PROVE  Copies(broker, chain) = {} /\ Copies(rows, chain) = {} /\ Holders(chain, k) = {}
         /\ won[k] = 0 /\ gaveUp[k] = 0
<1>t. JobsOK /\ MessagesOK /\ TravelsSent /\ JobStory
  BY TypeParts DEF Story
<1>1. \A j \in chain : ~Sent(j)
  BY DEF HeadFirst
<1>2. ASSUME NEW bag \in {broker, rows} PROVE Copies(bag, chain) = {}
  <2> SUFFICES ASSUME NEW c \in Copies(bag, chain) PROVE FALSE
    OBVIOUS
  <2>1. PICK m \in Message, i \in Nat : c = <<m, i>>
    BY DEF Copies
  <2>2. m.job \in chain /\ i < bag[m]
    BY <2>1 DEF Copies
  <2>3. bag[m] > 0
    BY <2>2, <1>t DEF MessagesOK
  <2> QED BY <2>2, <2>3, <1>1, <1>t DEF TravelsSent
<1>3. Holders(chain, k) = {}
  BY <1>1, <1>t DEF Holders, Trying, TravelsSent
<1>4. k \in chain
  BY DEF Line
<1>5. ~Ended(k)
  BY <1>1, <1>4, <1>t DEF JobStory
<1>6. won[k] = 0 /\ gaveUp[k] = 0
  BY <1>5, <1>t DEF JobsOK, Ended
<1> QED BY <1>2, <1>3, <1>6

LEMMA CountInit == Init => HeadFirst /\ CountInv
<1> SUFFICES ASSUME Init, NEW chain \in SUBSET Jobs, NEW k \in Jobs, Line(chain, k)
             PROVE  /\ (\E j \in chain : Sent(j)) => \E h \in chain \cap Heads : Sent(h)
                    /\ Finite(chain, k) /\ Count(chain, k) <= 1 + faults
  BY DEF HeadFirst, CountInv
<1>1. \A j \in chain : ~Sent(j)
  BY DEF Init
<1>2. Copies(broker, chain) = {} /\ Copies(rows, chain) = {} /\ Holders(chain, k) = {}
  BY DEF Init, Copies, Holders, Trying
<1>3. won[k] = 0 /\ gaveUp[k] = 0 /\ faults = 0
  BY DEF Init
<1> QED BY <1>1, <1>2, <1>3, FS_EmptySet DEF Finite, Count

LEMMA CountNext ==
  TypeOK /\ AttemptsLeft /\ Story /\ HeadFirst /\ CountInv /\ [Next]_vars => CountInv'
<1> SUFFICES ASSUME TypeOK, AttemptsLeft, Story, HeadFirst, CountInv, [Next]_vars,
                    NEW chain \in SUBSET Jobs, NEW k \in Jobs, Line(chain, k)
             PROVE  Finite(chain, k)' /\ Count(chain, k)' <= 1 + faults'
  BY DEF CountInv, Line
<1> DEFINE Goal == Finite(chain, k)' /\ Count(chain, k)' <= 1 + faults'
           b == Cardinality(Copies(broker, chain))
           r == Cardinality(Copies(rows, chain))
           h == Cardinality(Holders(chain, k))
           b2 == Cardinality(Copies(broker', chain))
           r2 == Cardinality(Copies(rows', chain))
           h2 == Cardinality(Holders(chain, k)')
<1>t. JobsOK /\ MessagesOK /\ JobStory /\ TravelsSent
  BY TypeParts DEF Story
<1>c. /\ Finite(chain, k) /\ b + r + h + won[k] + gaveUp[k] <= 1 + faults
      /\ b \in Nat /\ r \in Nat /\ h \in Nat /\ won[k] \in Nat /\ gaveUp[k] \in Nat
      /\ faults \in Nat
  <2>1. Finite(chain, k) /\ Count(chain, k) <= 1 + faults
    BY DEF CountInv
  <2>2. b \in Nat /\ r \in Nat /\ h \in Nat
    BY <2>1, FS_CardinalityType DEF Finite
  <2> QED BY <2>1, <2>2, <1>t DEF Count, JobsOK
<1>l. \A w \in Workers : pc[w] # "idle" => taken[w] \in Message /\ taken[w].job \in Jobs
  BY LeftJob DEF AttemptsLeft, Left
<1>f. \A j \in Jobs : Fresh(j) \in Message /\ Fresh(j).job = j
  BY FreshLeft DEF Left, Fresh
<1>g. ASSUME IsFiniteSet(Copies(broker', chain)), IsFiniteSet(Copies(rows', chain)),
             IsFiniteSet(Holders(chain, k)'),
             b2 + r2 + h2 + won'[k] + gaveUp'[k] <= 1 + faults'
      PROVE  Goal
  BY <1>g DEF Finite, Count
<1>o. \A m \in Message, S \in {chain} : One(m.job \in S) \in {0, 1}
  BY DEF One
<1>b. ASSUME NEW m \in Message, broker' = More(broker, m)
      PROVE  IsFiniteSet(Copies(broker', chain)) /\ b2 = b + One(m.job \in chain)
  BY <1>b, <1>c, <1>t, CopiesMore DEF MessagesOK, Finite
<1>r. ASSUME NEW m \in Message, rows' = More(rows, m)
      PROVE  IsFiniteSet(Copies(rows', chain)) /\ r2 = r + One(m.job \in chain)
  BY <1>r, <1>c, <1>t, CopiesMore DEF MessagesOK, Finite
<1>w. ASSUME NEW w \in Workers, \A v \in Workers \ {w} : pc'[v] = pc[v] /\ taken'[v] = taken[v]
      PROVE  /\ IsFiniteSet(Holders(chain, k)') /\ h2 \in Nat
             /\ h2 = h - One(w \in Holders(chain, k)) + One(w \in Holders(chain, k)')
  BY <1>w, <1>c, HoldersMove DEF Finite
<1>q. ASSUME UNCHANGED <<pc, taken>> PROVE Holders(chain, k)' = Holders(chain, k)
  BY <1>q DEF Holders
<1> HIDE DEF Goal, b, r, h, b2, r2, h2
<1>1. ASSUME UNCHANGED <<broker, rows, pc, taken, won, gaveUp>>, faults' \in {faults, faults + 1}
      PROVE  Goal
  <2>1. /\ Copies(broker', chain) = Copies(broker, chain)
        /\ Copies(rows', chain) = Copies(rows, chain)
        /\ Holders(chain, k)' = Holders(chain, k)
    BY <1>1, <1>q
  <2>2. b2 = b /\ r2 = r /\ h2 = h
    BY <2>1 DEF b, r, h, b2, r2, h2
  <2> QED BY <1>1, <2>1, <2>2, <1>c, <1>g DEF Finite
<1>2. ASSUME NEW i \in Jobs, Enqueue(i) \/ EnqueueLater(i) PROVE Goal
  <2>1. /\ \/ broker' = More(broker, Fresh(i)) /\ rows' = rows
           \/ broker' = broker /\ rows' = More(rows, Fresh(i))
        /\ UNCHANGED <<pc, taken, won, gaveUp, faults>>
        /\ i \in Heads /\ ~Sent(i)
    BY <1>2, <1>t DEF Enqueue, EnqueueLater, Dispatching, JobStory, Heads
  <2>2. /\ IsFiniteSet(Copies(broker', chain)) /\ IsFiniteSet(Copies(rows', chain))
        /\ b2 + r2 = b + r + One(i \in chain)
    <3>1. CASE broker' = More(broker, Fresh(i)) /\ rows' = rows
      <4>1. IsFiniteSet(Copies(broker', chain)) /\ b2 = b + One(i \in chain)
        BY <3>1, <1>b, <1>f
      <4> QED BY <3>1, <4>1, <1>c, <1>o, <1>f DEF r, r2, Finite
    <3>2. CASE broker' = broker /\ rows' = More(rows, Fresh(i))
      <4>1. IsFiniteSet(Copies(rows', chain)) /\ r2 = r + One(i \in chain)
        BY <3>2, <1>r, <1>f
      <4> QED BY <3>2, <4>1, <1>c, <1>o, <1>f DEF b, b2, Finite
    <3> QED BY <2>1, <3>1, <3>2
  <2>3. Holders(chain, k)' = Holders(chain, k) /\ h2 = h
    BY <2>1, <1>q DEF h, h2
  <2>4. CASE i \in chain
    <3>1. ~ \E g \in chain \cap Heads : Sent(g)
      BY <2>1, <2>4 DEF Line, Heads
    <3>2. b = 0 /\ r = 0 /\ h = 0 /\ won[k] = 0 /\ gaveUp[k] = 0
      BY <3>1, NothingToCount, FS_EmptySet DEF b, r, h
    <3>3. One(i \in chain) = 1
      BY <2>4 DEF One
    <3>4. b2 + r2 = 1
      BY <2>2, <3>2, <3>3
    <3>5. b2 + r2 + h2 + won'[k] + gaveUp'[k] <= 1 + faults'
      BY <2>1, <2>3, <3>2, <3>4, <1>c
    <3> QED BY <2>2, <2>3, <3>5, <1>c, <1>g DEF Finite
  <2>5. CASE i \notin chain
    <3>1. b2 + r2 = b + r
      BY <2>2, <2>5, <1>c DEF One
    <3> QED BY <2>1, <2>2, <2>3, <3>1, <1>c, <1>g DEF Finite
  <2> QED BY <2>4, <2>5
<1>3. ASSUME NEW w \in Workers, NEW m \in Message, Receive(w, m) PROVE Goal
  <2>1. /\ pc[w] = "idle" /\ broker[m] > 0 /\ broker' = Less(broker, m)
        /\ taken' = [taken EXCEPT ![w] = m]
        /\ UNCHANGED <<rows, won, gaveUp, faults>>
    BY <1>3 DEF Receive
  <2>2. \E l \in {"park", "run"} : pc' = [pc EXCEPT ![w] = l]
    BY <1>3, Zenon DEF Receive
  <2>3. IsFiniteSet(Copies(broker', chain)) /\ b2 = b - One(m.job \in chain)
    BY <2>1, <1>c, <1>t, CopiesLess DEF MessagesOK, Finite, b, b2
  <2>4. \A v \in Workers \ {w} : pc'[v] = pc[v] /\ taken'[v] = taken[v]
    BY <2>1, <2>2, <1>t DEF MessagesOK
  <2>5. w \notin Holders(chain, k) /\ (w \in Holders(chain, k)' <=> m.job \in chain)
    BY <2>1, <2>2, <1>t DEF MessagesOK, Holders, Trying
  <2>6. IsFiniteSet(Holders(chain, k)') /\ h2 = h + One(m.job \in chain)
    BY <2>4, <2>5, <1>w, <1>c DEF One
  <2>7. IsFiniteSet(Copies(rows', chain)) /\ r2 = r
    BY <2>1, <1>c DEF Finite, r, r2
  <2>8. One(m.job \in chain) \in {0, 1}
    BY DEF One
  <2> QED BY <2>1, <2>3, <2>6, <2>7, <2>8, <1>c, <1>g
<1>4. ASSUME NEW w \in Workers, NEW m \in Message, m.job = taken[w].job, w \in Workers,
             pc[w] \in Trying, Finish(w),
             \/ broker' = More(broker, m) /\ rows' = rows
             \/ broker' = broker /\ rows' = More(rows, m),
             UNCHANGED <<won, gaveUp>>, faults' \in {faults, faults + 1}
      PROVE  Goal
  <2>1. \A v \in Workers \ {w} : pc'[v] = pc[v] /\ taken'[v] = taken[v]
    BY <1>4, <1>t DEF MessagesOK
  <2>2. w \notin Holders(chain, k)' /\ (w \in Holders(chain, k) <=> m.job \in chain)
    BY <1>4, <1>t DEF MessagesOK, Holders, Trying
  <2>3. One(m.job \in chain) \in {0, 1}
    BY DEF One
  <2>4. IsFiniteSet(Holders(chain, k)') /\ h2 = h - One(m.job \in chain)
    BY <2>1, <2>2, <1>w, <1>c DEF One
  <2>5. /\ IsFiniteSet(Copies(broker', chain)) /\ IsFiniteSet(Copies(rows', chain))
        /\ b2 + r2 = b + r + One(m.job \in chain)
    <3>1. CASE broker' = More(broker, m) /\ rows' = rows
      <4>1. IsFiniteSet(Copies(broker', chain)) /\ b2 = b + One(m.job \in chain)
        BY <3>1, <1>b
      <4> QED BY <3>1, <4>1, <2>3, <1>c DEF r, r2, Finite
    <3>2. CASE broker' = broker /\ rows' = More(rows, m)
      <4>1. IsFiniteSet(Copies(rows', chain)) /\ r2 = r + One(m.job \in chain)
        BY <3>2, <1>r
      <4> QED BY <3>2, <4>1, <2>3, <1>c DEF b, b2, Finite
    <3> QED BY <1>4, <3>1, <3>2
  <2>6. b2 + r2 + h2 = b + r + h
    <3>1. b2 + r2 \in Nat
      BY <2>3, <2>5, <1>c
    <3> QED BY <2>3, <2>4, <2>5, <3>1, <1>c
  <2> QED BY <1>4, <2>4, <2>5, <2>6, <1>c, <1>g
<1>5. ASSUME NEW w \in Workers, Park(w) \/ PutBack(w) PROVE Goal
  <2>1. \/ broker' = More(broker, taken[w]) /\ rows' = rows
        \/ broker' = broker /\ rows' = More(rows, taken[w])
    BY <1>5, Zenon DEF Park, PutBack
  <2>2. pc[w] \in Trying /\ Finish(w) /\ UNCHANGED <<won, gaveUp, faults>>
    BY <1>5 DEF Park, PutBack, Trying
  <2>3. taken[w] \in Message
    BY <2>2, <1>l DEF Trying
  <2> QED BY <2>1, <2>2, <2>3, <1>4
<1>6. ASSUME NEW w \in Workers, UNCHANGED <<broker, rows, faults>>,
             \A v \in Workers \ {w} : pc'[v] = pc[v] /\ taken'[v] = taken[v],
             won'[k] + gaveUp'[k] + One(w \in Holders(chain, k)')
               <= won[k] + gaveUp[k] + One(w \in Holders(chain, k)),
             won'[k] \in Nat, gaveUp'[k] \in Nat
      PROVE  Goal
  <2>1. /\ IsFiniteSet(Holders(chain, k)')
        /\ h2 = h - One(w \in Holders(chain, k)) + One(w \in Holders(chain, k)')
    BY <1>6, <1>w
  <2>2. One(w \in Holders(chain, k)) \in {0, 1} /\ One(w \in Holders(chain, k)') \in {0, 1}
    BY DEF One
  <2>3. /\ Copies(broker', chain) = Copies(broker, chain)
        /\ Copies(rows', chain) = Copies(rows, chain) /\ b2 = b /\ r2 = r
    BY <1>6 DEF b, b2, r, r2
  <2> QED BY <1>6, <2>1, <2>2, <2>3, <1>c, <1>g DEF Finite
<1>7. ASSUME NEW w \in Workers, Succeed(w) PROVE Goal
  <2>1. /\ pc[w] = "run" /\ pc' = [pc EXCEPT ![w] = "link"]
        /\ won' = [won EXCEPT ![taken[w].job] = @ + 1]
        /\ UNCHANGED <<broker, rows, faults, taken, gaveUp>>
    BY <1>7 DEF Succeed
  <2>2. taken[w].job \in Jobs
    BY <2>1, <1>l
  <2>3. w \in Holders(chain, k) <=> taken[w].job \in chain
    BY <2>1 DEF Holders, Trying
  <2>4. w \in Holders(chain, k)' <=> taken[w].job \in chain /\ taken[w].job # k
    BY <2>1, <1>t DEF Holders, Trying, MessagesOK
  <2>5. won'[k] \in Nat /\ (taken[w].job # k => won'[k] = won[k])
        /\ (taken[w].job = k => won'[k] = won[k] + 1)
    BY <2>1, <2>2, <1>t DEF JobsOK
  <2>6. k \in chain
    BY DEF Line
  <2>7. won'[k] + gaveUp'[k] + One(w \in Holders(chain, k)')
          <= won[k] + gaveUp[k] + One(w \in Holders(chain, k))
    BY <2>1, <2>3, <2>4, <2>5, <2>6, <1>c DEF One
  <2> QED BY <2>1, <2>5, <2>7, <1>c, <1>t, <1>6 DEF MessagesOK
<1>8. ASSUME NEW w \in Workers, Throw(w) \/ Defer(w) \/ FailedHook(w) PROVE Goal
  <2>1. /\ pc[w] \in Trying
        /\ UNCHANGED <<broker, rows, faults, taken, won, gaveUp>>
    BY <1>8 DEF Throw, Defer, FailedHook, Trying
  <2>2. \E l \in Trying : pc' = [pc EXCEPT ![w] = l]
    BY <1>8 DEF Throw, Defer, FailedHook, Trying
  <2>3. w \in Holders(chain, k)' <=> w \in Holders(chain, k)
    BY <2>1, <2>2, <1>t DEF Holders, MessagesOK
  <2> QED BY <2>1, <2>2, <2>3, <1>c, <1>t, <1>6 DEF MessagesOK, One
<1>9. ASSUME NEW w \in Workers, Retry(w) PROVE Goal
  <2>1. /\ pc[w] = "retry" /\ UNCHANGED <<broker, won, gaveUp, faults>>
        /\ \/ rows' = More(rows, NextAttempt(w)) /\ Finish(w)
           \/ pc' = [pc EXCEPT ![w] = "run"] /\ UNCHANGED <<rows, taken>>
    <3>1. \/ rows' = More(rows, NextAttempt(w)) /\ Finish(w)
          \/ pc' = [pc EXCEPT ![w] = "run"] /\ UNCHANGED <<rows, taken>>
      BY <1>9, Zenon DEF Retry
    <3> QED BY <1>9, <3>1 DEF Retry
  <2>2. NextAttempt(w) \in Message /\ NextAttempt(w).job = taken[w].job
    <3>1. taken[w] \in Message /\ attempt[w] \in 0..MaxTries
      BY <2>1, <1>l, <1>t DEF MessagesOK
    <3> QED BY <3>1 DEF NextAttempt, Message
  <2>3. CASE rows' = More(rows, NextAttempt(w)) /\ Finish(w)
    BY <2>1, <2>2, <2>3, <1>4 DEF Trying
  <2>4. CASE pc' = [pc EXCEPT ![w] = "run"] /\ UNCHANGED <<rows, taken>>
    <3>1. w \in Holders(chain, k)' <=> w \in Holders(chain, k)
      BY <2>1, <2>4, <1>t DEF Holders, MessagesOK, Trying
    <3> QED BY <2>1, <2>4, <3>1, <1>c, <1>t, <1>6 DEF MessagesOK, One
  <2> QED BY <2>1, <2>3, <2>4
<1>10. ASSUME NEW w \in Workers, RecordFailed(w) PROVE Goal
  <2>1. /\ pc[w] = "record" /\ pc' = [pc EXCEPT ![w] = "catch"]
        /\ gaveUp' = [gaveUp EXCEPT ![taken[w].job] = @ + 1]
        /\ UNCHANGED <<broker, rows, faults, taken, won>>
    BY <1>10 DEF RecordFailed
  <2>2. taken[w].job \in Jobs
    BY <2>1, <1>l
  <2>3. w \in Holders(chain, k) <=> taken[w].job \in chain
    BY <2>1 DEF Holders, Trying
  <2>4. w \notin Holders(chain, k)'
    BY <2>1, <1>t DEF Holders, Trying, MessagesOK
  <2>5. gaveUp'[k] \in Nat /\ (taken[w].job # k => gaveUp'[k] = gaveUp[k])
        /\ (taken[w].job = k => gaveUp'[k] = gaveUp[k] + 1)
    BY <2>1, <2>2, <1>t DEF JobsOK
  <2>6. k \in chain
    BY DEF Line
  <2>7. won'[k] + gaveUp'[k] + One(w \in Holders(chain, k)')
          <= won[k] + gaveUp[k] + One(w \in Holders(chain, k))
    BY <2>1, <2>3, <2>4, <2>5, <2>6, <1>c DEF One
  <2> QED BY <2>1, <2>5, <2>7, <1>c, <1>t, <1>6 DEF MessagesOK
<1>11. ASSUME NEW w \in Workers, ChainCatch(w) \/ ReleaseUnique(w) PROVE Goal
  <2>1. /\ pc[w] \in {"catch", "unlock"} /\ UNCHANGED <<broker, rows, faults, won, gaveUp>>
        /\ \/ Finish(w)
           \/ pc' = [pc EXCEPT ![w] = "unlock"] /\ UNCHANGED taken
    BY <1>11 DEF ChainCatch, ReleaseUnique
  <2>2. w \notin Holders(chain, k) /\ w \notin Holders(chain, k)'
    BY <2>1, <1>t DEF Holders, Trying, MessagesOK
  <2> QED BY <2>1, <2>2, <1>c, <1>t, <1>6 DEF MessagesOK, One
<1>12. ASSUME NEW w \in Workers, NextLink(w) PROVE Goal
  <2> DEFINE j == taken[w].job
             n == Link[j]
  <2>1. /\ pc[w] = "link" /\ pc' = [pc EXCEPT ![w] = "unlock"]
        /\ UNCHANGED <<rows, taken, won, gaveUp, faults>>
    BY <1>12 DEF NextLink
  <2>2. \/ broker' = broker
        \/ n # Null /\ broker' = More(broker, Fresh(n))
    BY <1>12, Zenon DEF NextLink, Advance
  <2>3. j \in Jobs /\ (n # Null => n \in Jobs)
    BY <2>1, <1>l, JobsAssumption
  <2>4. w \notin Holders(chain, k)' /\ (w \in Holders(chain, k) <=> j \in chain /\ j # k)
    BY <2>1, <1>t DEF Holders, Trying, MessagesOK
  <2>5. \A v \in Workers \ {w} : pc'[v] = pc[v] /\ taken'[v] = taken[v]
    BY <2>1, <1>t DEF MessagesOK
  <2>6. CASE broker' = broker
    BY <2>1, <2>4, <2>5, <2>6, <1>c, <1>6 DEF One
  <2>7. CASE n # Null /\ broker' = More(broker, Fresh(n))
    <3>1. IsFiniteSet(Copies(broker', chain)) /\ b2 = b + One(n \in chain)
      BY <2>3, <2>7, <1>b, <1>f
    <3>2. /\ IsFiniteSet(Holders(chain, k)')
          /\ h2 = h - One(w \in Holders(chain, k)) + One(w \in Holders(chain, k)')
      BY <2>5, <1>w
    <3>3. n \in chain => j \in chain /\ j # k
      BY <2>3 DEF Line
    <3>4. b2 + h2 <= b + h
      BY <3>1, <3>2, <3>3, <2>4, <1>c DEF One
    <3>5. IsFiniteSet(Copies(rows', chain)) /\ r2 = r
      BY <2>1, <1>c DEF Finite, r, r2
    <3>6. b2 \in Nat /\ h2 \in Nat
      BY <3>1, <3>2, FS_CardinalityType DEF b2, h2
    <3> QED BY <2>1, <3>1, <3>2, <3>4, <3>5, <3>6, <1>c, <1>g
  <2> QED BY <2>2, <2>6, <2>7
<1>13. ASSUME NEW m \in Message, ReleaseRow(m) PROVE Goal
  <2>1. /\ rows[m] > 0 /\ rows' = Less(rows, m) /\ broker' = More(broker, m)
        /\ UNCHANGED <<pc, taken, won, gaveUp, faults>>
    BY <1>13 DEF ReleaseRow
  <2>2. IsFiniteSet(Copies(broker', chain)) /\ b2 = b + One(m.job \in chain)
    BY <2>1, <1>b
  <2>3. IsFiniteSet(Copies(rows', chain)) /\ r2 = r - One(m.job \in chain)
    BY <2>1, <1>c, <1>t, CopiesLess DEF MessagesOK, Finite, r, r2
  <2>4. Holders(chain, k)' = Holders(chain, k) /\ h2 = h
    BY <2>1, <1>q DEF h, h2
  <2>5. One(m.job \in chain) \in {0, 1}
    BY DEF One
  <2> QED BY <2>1, <2>2, <2>3, <2>4, <2>5, <1>c, <1>g DEF Finite
<1>14. ASSUME NEW m \in Message, broker' = More(broker, m),
              UNCHANGED <<rows, pc, taken, won, gaveUp>>, faults' = faults + 1
       PROVE  Goal
  <2>1. IsFiniteSet(Copies(broker', chain)) /\ b2 = b + One(m.job \in chain)
    BY <1>14, <1>b
  <2>2. Holders(chain, k)' = Holders(chain, k) /\ h2 = h
    BY <1>14, <1>q DEF h, h2
  <2>3. Copies(rows', chain) = Copies(rows, chain) /\ r2 = r
    BY <1>14 DEF r, r2
  <2>4. One(m.job \in chain) \in {0, 1}
    BY DEF One
  <2> QED BY <1>14, <2>1, <2>2, <2>3, <2>4, <1>c, <1>g DEF Finite
<1>15. ASSUME NEW w \in Workers, Die(w) \/ StepRaises(w) PROVE Goal
  <2>1. /\ pc[w] # "idle" /\ Finish(w) /\ faults' = faults + 1
        /\ broker' = broker \/ broker' = More(broker, taken[w])
        /\ UNCHANGED <<rows, won, gaveUp>>
    BY <1>15 DEF Die, StepRaises
  <2>2. \A v \in Workers \ {w} : pc'[v] = pc[v] /\ taken'[v] = taken[v]
    BY <2>1, <1>t DEF MessagesOK
  <2>3. w \notin Holders(chain, k)'
    BY <2>1, <1>t DEF Holders, Trying, MessagesOK
  <2>4. IsFiniteSet(Holders(chain, k)') /\ h2 \in Nat /\ h2 <= h
    BY <2>2, <2>3, <1>w, <1>c DEF One
  <2>5. Copies(rows', chain) = Copies(rows, chain) /\ r2 = r
    BY <2>1 DEF r, r2
  <2>6. IsFiniteSet(Copies(broker', chain)) /\ b2 \in {b, b + 1}
    <3>1. CASE broker' = broker
      BY <3>1, <1>c DEF Finite, b, b2
    <3>2. CASE broker' = More(broker, taken[w])
      <4>1. taken[w] \in Message
        BY <2>1, <1>l
      <4>2. IsFiniteSet(Copies(broker', chain)) /\ b2 = b + One(taken[w].job \in chain)
        BY <3>2, <4>1, <1>b
      <4> QED BY <4>2, <1>c DEF One
    <3> QED BY <2>1, <3>1, <3>2
  <2> QED BY <2>1, <2>4, <2>5, <2>6, <1>c, <1>g DEF Finite
<1>16. ASSUME NEW j \in Jobs, AcquireSlot(j) \/ EnqueueRaises(j) PROVE Goal
  BY <1>16, <1>1 DEF AcquireSlot, EnqueueRaises
<1>17. ASSUME NEW m \in Message, ReleaseRowTwice(m) PROVE Goal
  BY <1>17, <1>14 DEF ReleaseRowTwice
<1>18. ASSUME NEW j \in Jobs, RetryFailed(j) PROVE Goal
  BY <1>18, <1>14, <1>f DEF RetryFailed
<1>19. ASSUME BecomeLate \/ UNCHANGED vars PROVE Goal
  <2>1. UNCHANGED <<broker, rows, pc, taken, won, gaveUp, faults>>
    BY <1>19 DEF BecomeLate, vars
  <2> QED BY <2>1, <1>1
<1>20. ASSUME SlotExpires PROVE Goal
  <2>1. UNCHANGED <<broker, rows, pc, taken, won, gaveUp>> /\ faults' = faults + 1
    BY <1>20 DEF SlotExpires
  <2> QED BY <2>1, <1>1
<1> QED
  <2>1. Goal
    <3>1. CASE \E w \in Workers : Work(w) \/ Defer(w)
      BY <3>1, <1>5, <1>7, <1>8, <1>9, <1>10, <1>11, <1>12 DEF Work
    <3>2. CASE Trouble
      BY <3>2, <1>15, <1>16, <1>17, <1>18, <1>20 DEF Trouble
    <3> QED
      BY <3>1, <3>2, <1>2, <1>3, <1>13, <1>16, <1>19 DEF Next
  <2> QED BY <2>1 DEF Goal

LEMMA Counted == Spec => [](TypeOK /\ AttemptsLeft /\ Story /\ HeadFirst /\ CountInv)
  BY TypeInit, StoryInit, CountInit, TypeNext, StoryNext, HeadFirstNext, CountNext, PTL DEF Spec

\* The ends a job has had are among what is counted for a chain that leads to it.
LEMMA EndsCounted ==
  TypeOK /\ CountInv => \A j \in Jobs : won[j] + gaveUp[j] <= 1 + faults
<1> SUFFICES ASSUME TypeOK, CountInv, NEW j \in Jobs PROVE won[j] + gaveUp[j] <= 1 + faults
  OBVIOUS
<1>1. PICK chain \in SUBSET Jobs : Line(chain, j)
  BY ChainsAssumption
<1>2. Finite(chain, j) /\ Count(chain, j) <= 1 + faults
  BY <1>1 DEF CountInv
<1> DEFINE b == Cardinality(Copies(broker, chain))
           r == Cardinality(Copies(rows, chain))
           h == Cardinality(Holders(chain, j))
<1>3. b \in Nat /\ r \in Nat /\ h \in Nat
  BY <1>2, FS_CardinalityType DEF Finite
<1>4. won[j] \in Nat /\ gaveUp[j] \in Nat /\ faults \in Nat
  BY TypeParts DEF JobsOK
<1>5. b + r + h + won[j] + gaveUp[j] <= 1 + faults
  BY <1>2 DEF Count
<1> HIDE DEF b, r, h
<1> QED BY <1>3, <1>4, <1>5

\* A job ends once, as a success or as a failure, and once more for every
\* fault, however its chain was parked, deferred, redelivered or retried.
THEOREM JobEndsOnce == Spec => []EndsOnce
<1>1. TypeOK /\ CountInv => EndsOnce
  BY EndsCounted DEF EndsOnce
<1> QED BY <1>1, Counted, PTL

\* A link starts after the link before it has succeeded, in every behaviour;
\* and where nothing was doubled, no link starts after the catch of the chain.
THEOREM ChainInOrder == Spec => []ChainOrder
<1>1. ASSUME TypeOK, AttemptsLeft, Story, CountInv PROVE ChainOrder
  <2> SUFFICES ASSUME NEW j \in Jobs, Link[j] # Null,
                      dispatch[Link[j]] = "enqueued" \/ InFlight(Link[j])
                        \/ won[Link[j]] + thrown[Link[j]] > 0
               PROVE  won[j] > 0 /\ (faults = 0 => ~(caught[j] > 0))
    BY DEF ChainOrder
  <2> DEFINE k == Link[j]
  <2>t. JobsOK /\ MessagesOK /\ TravelsSent /\ JobStory
    BY <1>1, TypeParts DEF Story
  <2>1. k \in Jobs
    BY JobsAssumption
  <2>2. InFlight(k) => Sent(k)
    BY <2>t DEF InFlight, TravelsSent
  <2>3. won[k] + thrown[k] > 0 => Sent(k)
    BY <2>1, <2>t DEF JobStory, JobsOK, Ended
  <2>4. won[j] > 0
    BY <2>2, <2>3, <2>t DEF JobStory
  <2>5. caught[j] > 0 => gaveUp[j] > 0
    BY <2>t DEF JobStory
  <2>6. won[j] + gaveUp[j] <= 1 + faults
    BY <1>1, EndsCounted
  <2>7. won[j] \in Nat /\ gaveUp[j] \in Nat
    BY <2>t DEF JobsOK
  <2>8. faults = 0 => ~(caught[j] > 0)
    BY <2>4, <2>5, <2>6, <2>7
  <2> QED BY <2>4, <2>8
<1>2. TypeOK /\ AttemptsLeft /\ Story /\ CountInv => ChainOrder
  BY <1>1
<1> QED BY <1>2, Counted, PTL
-----------------------------------------------------------------------------
(* The slot of a unique job.  Whoever may still put an instance in flight, *)
(* and every copy in flight, is counted: there is none without a holder.   *)

\* No unique job is the head or a link of a chain: those acquire no slot.
OutsideChains == Unique \cap Chained = {} /\ \A j \in Jobs : Link[j] \notin Unique

Claims == {u \in Unique : dispatch[u] = "enqueue"}
Users == {w \in Workers : pc[w] # "idle" /\ taken[w].job \in Unique}

SlotFinite ==
    /\ IsFiniteSet(Copies(broker, Unique)) /\ IsFiniteSet(Copies(rows, Unique))
    /\ IsFiniteSet(Claims) /\ IsFiniteSet(Users)

SlotCount ==
    Cardinality(Copies(broker, Unique)) + Cardinality(Copies(rows, Unique))
      + Cardinality(Claims) + Cardinality(Users)

SlotInv == faults = 0 => SlotFinite /\ SlotCount <= One(holder # Null)

LEMMA SlotInit == Init => SlotInv
<1> SUFFICES ASSUME Init PROVE SlotFinite /\ SlotCount <= One(holder # Null)
  BY DEF SlotInv
<1>1. Copies(broker, Unique) = {} /\ Copies(rows, Unique) = {}
  BY DEF Init, Copies
<1>2. Claims = {} /\ Users = {}
  BY JobsAssumption DEF Init, Claims, Users
<1>3. One(holder # Null) = 0
  BY DEF Init, One
<1> QED BY <1>1, <1>2, <1>3, FS_EmptySet DEF SlotFinite, SlotCount

LEMMA SlotNext ==
  ASSUME OutsideChains, TypeOK, AttemptsLeft, SlotInv, [Next]_vars PROVE SlotInv'
<1> SUFFICES ASSUME faults' = 0 PROVE SlotFinite' /\ SlotCount' <= One(holder' # Null)
  BY DEF SlotInv
<1> DEFINE Goal == SlotFinite' /\ SlotCount' <= One(holder' # Null)
           b == Cardinality(Copies(broker, Unique))
           r == Cardinality(Copies(rows, Unique))
           d == Cardinality(Claims)
           h == Cardinality(Users)
           b2 == Cardinality(Copies(broker', Unique))
           r2 == Cardinality(Copies(rows', Unique))
           d2 == Cardinality(Claims')
           h2 == Cardinality(Users')
           held == One(holder # Null)
           held2 == One(holder' # Null)
<1>t. JobsOK /\ MessagesOK
  BY TypeParts
<1>c. ASSUME faults = 0
      PROVE  /\ SlotFinite /\ b + r + d + h <= held
             /\ b \in Nat /\ r \in Nat /\ d \in Nat /\ h \in Nat
  <2>1. SlotFinite /\ SlotCount <= held
    BY <1>c DEF SlotInv
  <2>2. b \in Nat /\ r \in Nat /\ d \in Nat /\ h \in Nat
    BY <2>1, FS_CardinalityType DEF SlotFinite
  <2> QED BY <2>1, <2>2 DEF SlotCount
<1>l. \A w \in Workers : pc[w] # "idle" => taken[w] \in Message /\ taken[w].job \in Jobs
  BY LeftJob DEF AttemptsLeft, Left
<1>f. \A j \in Jobs : Fresh(j) \in Message /\ Fresh(j).job = j
  BY FreshLeft DEF Left, Fresh
<1>o. held \in {0, 1} /\ held2 \in {0, 1}
  BY DEF One
<1>p. \A j : One(j \in Unique) \in {0, 1}
  BY DEF One
<1>g. ASSUME IsFiniteSet(Copies(broker', Unique)), IsFiniteSet(Copies(rows', Unique)),
             IsFiniteSet(Claims'), IsFiniteSet(Users'), b2 + r2 + d2 + h2 <= held2
      PROVE  Goal
  BY <1>g DEF SlotFinite, SlotCount
<1>b. ASSUME NEW m \in Message, broker' = More(broker, m), faults = 0
      PROVE  IsFiniteSet(Copies(broker', Unique)) /\ b2 = b + One(m.job \in Unique)
  BY <1>b, <1>c, <1>t, CopiesMore DEF MessagesOK, SlotFinite
<1>r. ASSUME NEW m \in Message, rows' = More(rows, m), faults = 0
      PROVE  IsFiniteSet(Copies(rows', Unique)) /\ r2 = r + One(m.job \in Unique)
  BY <1>r, <1>c, <1>t, CopiesMore DEF MessagesOK, SlotFinite
<1>w. ASSUME NEW w \in Workers, \A v \in Workers \ {w} : pc'[v] = pc[v] /\ taken'[v] = taken[v],
             faults = 0
      PROVE  /\ IsFiniteSet(Users') /\ h2 \in Nat
             /\ h2 = h - One(w \in Users) + One(w \in Users')
  <2>1. Users \ {w} = Users' \ {w}
    BY <1>w DEF Users
  <2>2. IsFiniteSet(Users)
    BY <1>c, <1>w DEF SlotFinite
  <2> QED BY <2>1, <2>2, DifferInOne
<1>d. ASSUME NEW i \in Jobs, \A j \in Jobs \ {i} : dispatch'[j] = dispatch[j], faults = 0
      PROVE  /\ IsFiniteSet(Claims') /\ d2 \in Nat
             /\ d2 = d - One(i \in Claims) + One(i \in Claims')
  <2>1. Claims \ {i} = Claims' \ {i}
    BY <1>d, JobsAssumption DEF Claims
  <2>2. IsFiniteSet(Claims)
    BY <1>c, <1>d DEF SlotFinite
  <2> QED BY <2>1, <2>2, DifferInOne
<1>x. ASSUME UNCHANGED dispatch PROVE Claims' = Claims /\ d2 = d
  BY <1>x DEF Claims
<1>y. ASSUME UNCHANGED <<pc, taken>> PROVE Users' = Users /\ h2 = h
  BY <1>y DEF Users
<1>u. ASSUME UNCHANGED broker PROVE b2 = b
  BY <1>u
<1>v. ASSUME UNCHANGED rows PROVE r2 = r
  BY <1>v
<1> HIDE DEF Goal, b, r, d, h, b2, r2, d2, h2, held, held2
<1>1. ASSUME NEW j \in Jobs, AcquireSlot(j) PROVE Goal
  <2>1. /\ dispatch[j] = "new" /\ faults = 0
        /\ UNCHANGED <<broker, rows, pc, taken>>
        /\ \/ holder = Null /\ holder' = j /\ dispatch' = [dispatch EXCEPT ![j] = "enqueue"]
           \/ dispatch' = [dispatch EXCEPT ![j] = "dropped"] /\ UNCHANGED holder
    BY <1>1 DEF AcquireSlot, SlotFree
  <2>2. d2 = d - One(j \in Claims) + One(j \in Claims') /\ IsFiniteSet(Claims')
    BY <2>1, <1>t, <1>d DEF JobsOK
  <2>3. j \notin Claims
    BY <2>1 DEF Claims
  <2>4. j \in Claims' => held = 0 /\ held2 = 1
    BY <2>1, <1>t, JobsAssumption DEF Claims, JobsOK, held, held2, One
  <2>5. j \notin Claims' => held2 = held
    BY <2>1, <1>1, <1>t DEF Claims, JobsOK, held, held2, AcquireSlot
  <2>6. b2 = b /\ r2 = r /\ h2 = h /\ Users' = Users
    BY <2>1, <1>u, <1>v, <1>y
  <2>7. b2 + r2 + d2 + h2 <= held2
    BY <2>1, <2>2, <2>3, <2>4, <2>5, <2>6, <1>c, <1>o DEF One
  <2> QED BY <2>1, <2>2, <2>6, <2>7, <1>c, <1>g DEF SlotFinite
<1>2. ASSUME NEW j \in Jobs, Enqueue(j) \/ EnqueueLater(j) PROVE Goal
  <2>1. /\ \/ broker' = More(broker, Fresh(j)) /\ rows' = rows
           \/ broker' = broker /\ rows' = More(rows, Fresh(j))
        /\ UNCHANGED <<pc, taken, holder, faults>>
        /\ dispatch' = [dispatch EXCEPT ![j] = "enqueued"]
    BY <1>2 DEF Enqueue, EnqueueLater
  <2>2. One(j \in Claims) = One(j \in Unique) /\ One(j \in Claims') = 0
    <3>1. j \in Unique => dispatch[j] = "enqueue"
      BY <1>2 DEF Enqueue, EnqueueLater, Dispatching, OutsideChains
    <3> QED BY <3>1, <2>1, <1>t DEF Claims, JobsOK, One
  <2>3. IsFiniteSet(Claims') /\ d2 = d - One(j \in Unique)
    <3>1. /\ IsFiniteSet(Claims')
          /\ d2 = d - One(j \in Claims) + One(j \in Claims')
      BY <2>1, <1>t, <1>d DEF JobsOK
    <3> QED BY <3>1, <2>1, <2>2, <1>c, <1>p
  <2>4. /\ IsFiniteSet(Copies(broker', Unique)) /\ IsFiniteSet(Copies(rows', Unique))
        /\ b2 + r2 = b + r + One(j \in Unique)
    <3>1. CASE broker' = More(broker, Fresh(j)) /\ rows' = rows
      BY <3>1, <2>1, <1>b, <1>f, <1>c, <1>v, <1>p DEF SlotFinite
    <3>2. CASE broker' = broker /\ rows' = More(rows, Fresh(j))
      BY <3>2, <2>1, <1>r, <1>f, <1>c, <1>u, <1>p DEF SlotFinite
    <3> QED BY <2>1, <3>1, <3>2
  <2>5. h2 = h /\ Users' = Users /\ held2 = held
    BY <2>1, <1>y DEF held, held2
  <2>6. b2 + r2 + d2 + h2 <= held2
    <3>1. b2 + r2 + d2 = b + r + d
      BY <2>1, <2>3, <2>4, <1>c, <1>p
    <3> QED BY <2>1, <2>5, <3>1, <1>c
  <2> QED BY <2>1, <2>3, <2>4, <2>5, <2>6, <1>c, <1>g DEF SlotFinite
<1>3. ASSUME NEW w \in Workers, NEW m \in Message, Receive(w, m) PROVE Goal
  <2>1. /\ pc[w] = "idle" /\ broker[m] > 0 /\ broker' = Less(broker, m)
        /\ taken' = [taken EXCEPT ![w] = m]
        /\ UNCHANGED <<dispatch, rows, holder, faults>>
    BY <1>3 DEF Receive
  <2>2. \E l \in {"park", "run"} : pc' = [pc EXCEPT ![w] = l]
    BY <1>3, Zenon DEF Receive
  <2>3. IsFiniteSet(Copies(broker', Unique)) /\ b2 = b - One(m.job \in Unique)
    BY <2>1, <1>c, <1>t, CopiesLess DEF MessagesOK, SlotFinite, b, b2
  <2>4. \A v \in Workers \ {w} : pc'[v] = pc[v] /\ taken'[v] = taken[v]
    BY <2>1, <2>2, <1>t DEF MessagesOK
  <2>5. One(w \in Users) = 0 /\ One(w \in Users') = One(m.job \in Unique)
    BY <2>1, <2>2, <1>t DEF MessagesOK, Users, One
  <2>6. IsFiniteSet(Users') /\ h2 = h + One(m.job \in Unique)
    <3>1. IsFiniteSet(Users') /\ h2 = h - One(w \in Users) + One(w \in Users')
      BY <2>1, <2>4, <1>w
    <3> QED BY <2>1, <2>5, <3>1, <1>c, <1>p
  <2>7. r2 = r /\ d2 = d /\ Claims' = Claims /\ held2 = held
    BY <2>1, <1>v, <1>x DEF held, held2
  <2> QED BY <2>1, <2>3, <2>6, <2>7, <1>p, <1>c, <1>g DEF SlotFinite
<1>4. ASSUME NEW w \in Workers, NEW m \in Message, m.job = taken[w].job, pc[w] # "idle",
             Finish(w),
             \/ broker' = More(broker, m) /\ rows' = rows
             \/ broker' = broker /\ rows' = More(rows, m),
             UNCHANGED <<dispatch, holder, faults>>
      PROVE  Goal
  <2>1. \A v \in Workers \ {w} : pc'[v] = pc[v] /\ taken'[v] = taken[v]
    BY <1>4, <1>t DEF MessagesOK
  <2>2. One(w \in Users') = 0 /\ One(w \in Users) = One(m.job \in Unique)
    BY <1>4, <1>t DEF MessagesOK, Users, One
  <2>3. IsFiniteSet(Users') /\ h2 = h - One(m.job \in Unique)
    BY <1>4, <2>1, <2>2, <1>w, <1>c, <1>p
  <2>4. /\ IsFiniteSet(Copies(broker', Unique)) /\ IsFiniteSet(Copies(rows', Unique))
        /\ b2 + r2 = b + r + One(m.job \in Unique)
    <3>1. CASE broker' = More(broker, m) /\ rows' = rows
      BY <3>1, <1>4, <1>b, <1>c, <1>v, <1>p DEF SlotFinite
    <3>2. CASE broker' = broker /\ rows' = More(rows, m)
      BY <3>2, <1>4, <1>r, <1>c, <1>u, <1>p DEF SlotFinite
    <3> QED BY <1>4, <3>1, <3>2
  <2>5. d2 = d /\ Claims' = Claims /\ held2 = held
    BY <1>4, <1>x DEF held, held2
  <2>6. b2 + r2 + d2 + h2 = b + r + d + h
    BY <1>4, <2>3, <2>4, <2>5, <1>c, <1>p
  <2> QED BY <1>4, <2>3, <2>4, <2>5, <2>6, <1>c, <1>g DEF SlotFinite
<1>5. ASSUME NEW w \in Workers, Park(w) \/ PutBack(w) PROVE Goal
  <2>1. \/ broker' = More(broker, taken[w]) /\ rows' = rows
        \/ broker' = broker /\ rows' = More(rows, taken[w])
    BY <1>5, Zenon DEF Park, PutBack
  <2>2. pc[w] # "idle" /\ Finish(w) /\ UNCHANGED <<dispatch, holder, faults>>
    BY <1>5 DEF Park, PutBack
  <2>3. taken[w] \in Message
    BY <2>2, <1>l
  <2> QED BY <2>1, <2>2, <2>3, <1>4
<1>6. ASSUME NEW w \in Workers, pc[w] # "idle",
             \E l \in Busy : pc' = [pc EXCEPT ![w] = l],
             UNCHANGED <<taken, rows, dispatch, holder, faults>>,
             \/ UNCHANGED broker
             \/ \E m \in Message : m.job \notin Unique /\ broker' = More(broker, m)
      PROVE  Goal
  <2>1. Users' = Users /\ h2 = h
    <3>1. \A v \in Workers : pc'[v] # "idle" <=> pc[v] # "idle"
      BY <1>6, <1>t DEF MessagesOK, Busy
    <3>2. Users' = Users
      BY <1>6, <3>1 DEF Users
    <3> QED BY <3>2 DEF h, h2
  <2>2. IsFiniteSet(Copies(broker', Unique)) /\ b2 = b
    <3>1. CASE UNCHANGED broker
      BY <3>1, <1>6, <1>u, <1>c DEF SlotFinite
    <3>2. ASSUME NEW m \in Message, m.job \notin Unique, broker' = More(broker, m)
          PROVE  IsFiniteSet(Copies(broker', Unique)) /\ b2 = b
      BY <3>2, <1>6, <1>b, <1>c DEF One
    <3> QED BY <1>6, <3>1, <3>2
  <2>3. r2 = r /\ d2 = d /\ Claims' = Claims /\ held2 = held
    BY <1>6, <1>v, <1>x DEF held, held2
  <2> QED BY <1>6, <2>1, <2>2, <2>3, <1>c, <1>g DEF SlotFinite
<1>7. ASSUME NEW w \in Workers, Succeed(w) \/ Throw(w) \/ Defer(w) \/ FailedHook(w)
               \/ RecordFailed(w) \/ ChainCatch(w)
      PROVE  Goal
  <2>1. /\ pc[w] # "idle"
        /\ UNCHANGED <<taken, broker, rows, dispatch, holder, faults>>
    BY <1>7 DEF Succeed, Throw, Defer, FailedHook, RecordFailed, ChainCatch
  <2>2. \E l \in Busy : pc' = [pc EXCEPT ![w] = l]
    BY <1>7 DEF Succeed, Throw, Defer, FailedHook, RecordFailed, ChainCatch, Busy
  <2> QED BY <2>1, <2>2, <1>6
<1>8. ASSUME NEW w \in Workers, Retry(w) PROVE Goal
  <2>1. /\ pc[w] = "retry" /\ UNCHANGED <<broker, dispatch, holder, faults>>
        /\ \/ rows' = More(rows, NextAttempt(w)) /\ Finish(w)
           \/ pc' = [pc EXCEPT ![w] = "run"] /\ UNCHANGED <<rows, taken>>
    <3>1. \/ rows' = More(rows, NextAttempt(w)) /\ Finish(w)
          \/ pc' = [pc EXCEPT ![w] = "run"] /\ UNCHANGED <<rows, taken>>
      BY <1>8, Zenon DEF Retry
    <3> QED BY <1>8, <3>1 DEF Retry
  <2>2. NextAttempt(w) \in Message /\ NextAttempt(w).job = taken[w].job
    <3>1. taken[w] \in Message /\ attempt[w] \in 0..MaxTries
      BY <2>1, <1>l, <1>t DEF MessagesOK
    <3> QED BY <3>1 DEF NextAttempt, Message
  <2>3. CASE rows' = More(rows, NextAttempt(w)) /\ Finish(w)
    BY <2>1, <2>2, <2>3, <1>4
  <2>4. CASE pc' = [pc EXCEPT ![w] = "run"] /\ UNCHANGED <<rows, taken>>
    BY <2>1, <2>4, <1>6 DEF Busy
  <2> QED BY <2>1, <2>3, <2>4
<1>9. ASSUME NEW w \in Workers, NextLink(w) PROVE Goal
  <2> DEFINE n == Link[taken[w].job]
  <2>1. /\ pc[w] = "link" /\ pc' = [pc EXCEPT ![w] = "unlock"]
        /\ UNCHANGED <<rows, taken, holder, faults>>
    BY <1>9 DEF NextLink
  <2>2. \/ UNCHANGED <<broker, dispatch>>
        \/ /\ n # Null /\ broker' = More(broker, Fresh(n))
           /\ dispatch' = [dispatch EXCEPT ![n] = "enqueued"]
    BY <1>9, Zenon DEF NextLink, Advance
  <2>3. n # Null => n \in Jobs /\ n \notin Unique
    BY <2>1, <1>l, JobsAssumption DEF OutsideChains
  <2>4. CASE UNCHANGED <<broker, dispatch>>
    BY <2>1, <2>4, <1>6 DEF Busy
  <2>5. CASE /\ n # Null /\ broker' = More(broker, Fresh(n))
             /\ dispatch' = [dispatch EXCEPT ![n] = "enqueued"]
    <3>1. Claims' = Claims
      BY <2>3, <2>5, <1>t DEF Claims, JobsOK
    <3>2. Users' = Users
      BY <2>1, <1>t DEF Users, MessagesOK
    <3>3. IsFiniteSet(Copies(broker', Unique)) /\ b2 = b
      BY <2>1, <2>3, <2>5, <1>b, <1>f, <1>c DEF One
    <3>4. r2 = r /\ d2 = d /\ h2 = h /\ held2 = held
      BY <2>1, <3>1, <3>2, <1>v DEF d, d2, h, h2, held, held2
    <3> QED BY <2>1, <3>1, <3>2, <3>3, <3>4, <1>c, <1>g DEF SlotFinite
  <2> QED BY <2>2, <2>4, <2>5
<1>10. ASSUME NEW w \in Workers, ReleaseUnique(w) PROVE Goal
  <2>1. /\ pc[w] = "unlock" /\ Finish(w) /\ UNCHANGED <<dispatch, broker, rows, faults>>
    BY <1>10 DEF ReleaseUnique
  <2>2. \A v \in Workers \ {w} : pc'[v] = pc[v] /\ taken'[v] = taken[v]
    BY <2>1, <1>t DEF MessagesOK
  <2>3. One(w \in Users') = 0 /\ One(w \in Users) = One(taken[w].job \in Unique)
    BY <2>1, <1>t DEF MessagesOK, Users, One
  <2>4. IsFiniteSet(Users') /\ h2 = h - One(taken[w].job \in Unique)
    BY <2>1, <2>2, <2>3, <1>w, <1>c, <1>p
  <2>5. taken[w].job \notin Unique => held2 = held
    BY <1>10, Zenon DEF ReleaseUnique, Freed, held, held2
  <2>6. h2 <= h - One(taken[w].job \in Unique) /\ b2 = b /\ r2 = r /\ d2 = d /\ Claims' = Claims
    BY <2>1, <2>4, <1>u, <1>v, <1>x, <1>c, <1>p
  <2>7. b2 + r2 + d2 + h2 <= held2
    BY <2>1, <2>4, <2>5, <2>6, <1>c, <1>o DEF One
  <2> QED BY <2>1, <2>4, <2>6, <2>7, <1>c, <1>g DEF SlotFinite
<1>11. ASSUME NEW m \in Message, ReleaseRow(m) PROVE Goal
  <2>1. /\ rows[m] > 0 /\ rows' = Less(rows, m) /\ broker' = More(broker, m)
        /\ UNCHANGED <<pc, taken, dispatch, holder, faults>>
    BY <1>11 DEF ReleaseRow
  <2>2. IsFiniteSet(Copies(broker', Unique)) /\ b2 = b + One(m.job \in Unique)
    BY <2>1, <1>b
  <2>3. IsFiniteSet(Copies(rows', Unique)) /\ r2 = r - One(m.job \in Unique)
    BY <2>1, <1>c, <1>t, CopiesLess DEF MessagesOK, SlotFinite, r, r2
  <2>4. d2 = d /\ h2 = h /\ held2 = held /\ Claims' = Claims /\ Users' = Users
    BY <2>1, <1>x, <1>y DEF held, held2
  <2> QED BY <2>1, <2>2, <2>3, <2>4, <1>p, <1>c, <1>g DEF SlotFinite
<1>12. ASSUME BecomeLate \/ UNCHANGED vars PROVE Goal
  <2>1. UNCHANGED <<dispatch, broker, rows, pc, taken, holder, faults>>
    BY <1>12 DEF BecomeLate, vars
  <2>2. /\ b2 = b /\ r2 = r /\ d2 = d /\ h2 = h /\ held2 = held
        /\ Claims' = Claims /\ Users' = Users
    BY <2>1, <1>u, <1>v, <1>x, <1>y DEF held, held2
  <2> QED BY <2>1, <2>2, <1>c, <1>g DEF SlotFinite
<1>13. ~Trouble
  <2>1. faults' # faults + 1
    BY <1>t DEF JobsOK
  <2> QED BY <2>1 DEF Trouble, ReleaseRowTwice, RetryFailed, EnqueueRaises, Die, StepRaises,
                      SlotExpires
<1> QED
  <2>1. Goal
    <3>1. CASE \E w \in Workers : Work(w) \/ Defer(w)
      BY <3>1, <1>5, <1>7, <1>8, <1>9, <1>10 DEF Work
    <3> QED BY <3>1, <1>1, <1>2, <1>3, <1>11, <1>12, <1>13 DEF Next
  <2> QED BY <2>1 DEF Goal

\* Where no unique job is part of a chain, at most one of those that share a
\* slot is in flight, until a lock expires, a message is doubled or a job is
\* retried by hand.
THEOREM OneUniqueInFlight == OutsideChains => (Spec => []AtMostOneUnique)
<1> SUFFICES ASSUME OutsideChains PROVE Spec => []AtMostOneUnique
  OBVIOUS
<1>1. SlotInv /\ TypeOK /\ AttemptsLeft /\ [Next]_vars => SlotInv'
  BY SlotNext
<1>2. Spec => [](TypeOK /\ AttemptsLeft /\ SlotInv)
  BY <1>1, TypeInit, SlotInit, TypeNext, PTL DEF Spec
<1>3. ASSUME TypeOK, AttemptsLeft, SlotInv PROVE AtMostOneUnique
  <2> SUFFICES ASSUME faults = 0, NEW u \in Unique, NEW v \in Unique, InFlight(u), InFlight(v),
                      u # v
               PROVE  FALSE
    BY DEF AtMostOneUnique
  <2> DEFINE b == Cardinality(Copies(broker, Unique))
             r == Cardinality(Copies(rows, Unique))
             d == Cardinality(Claims)
             h == Cardinality(Users)
  <2>t. JobsOK /\ MessagesOK
    BY <1>3, TypeParts
  <2>1. SlotFinite /\ b + r + d + h <= One(holder # Null)
    BY <1>3 DEF SlotInv, SlotCount
  <2>2. /\ b \in Nat /\ r \in Nat /\ d \in Nat /\ h \in Nat
        /\ One(holder # Null) \in {0, 1}
    BY <2>1, FS_CardinalityType DEF SlotFinite, One
  <2>3. ASSUME NEW S, IsFiniteSet(S), Cardinality(S) <= 1, NEW x \in S, NEW y \in S PROVE x = y
    <3>1. Cardinality(S) = 0 \/ Cardinality(S) = 1
      BY <2>3, FS_CardinalityType
    <3> QED BY <2>3, <3>1, FS_EmptySet, FS_Singleton
  <2> DEFINE InBroker(j) == \E c \in Copies(broker, Unique) : c[1].job = j
             InRows(j) == \E c \in Copies(rows, Unique) : c[1].job = j
             InUse(j) == \E w \in Users : taken[w].job = j
  <2>4. ASSUME NEW j \in Unique, InFlight(j) PROVE InBroker(j) \/ InRows(j) \/ InUse(j)
    <3>1. ASSUME NEW m \in Message, m.job = j, broker[m] > 0 PROVE InBroker(j)
      <4>1. <<m, 0>> \in Copies(broker, Unique)
        BY <3>1 DEF Copies
      <4> QED BY <3>1, <4>1
    <3>2. ASSUME NEW m \in Message, m.job = j, rows[m] > 0 PROVE InRows(j)
      <4>1. <<m, 0>> \in Copies(rows, Unique)
        BY <3>2 DEF Copies
      <4> QED BY <3>2, <4>1
    <3>3. ASSUME NEW w \in Workers, pc[w] # "idle", taken[w].job = j PROVE InUse(j)
      BY <3>3 DEF Users
    <3> QED BY <2>4, <3>1, <3>2, <3>3 DEF InFlight
  <2>5. /\ \A j : InBroker(j) => b # 0
        /\ \A j : InRows(j) => r # 0
        /\ \A j : InUse(j) => h # 0
    BY <2>1, FS_EmptySet DEF SlotFinite
  <2>6. b <= 1 /\ r <= 1 /\ h <= 1
    BY <2>1, <2>2
  <2>7. /\ InBroker(u) /\ InBroker(v) => u = v
        /\ InRows(u) /\ InRows(v) => u = v
        /\ InUse(u) /\ InUse(v) => u = v
    BY <2>1, <2>3, <2>6 DEF SlotFinite
  <2> HIDE DEF b, r, d, h, InBroker, InRows, InUse
  <2>8. (b = 0 /\ r = 0) \/ (b = 0 /\ h = 0) \/ (r = 0 /\ h = 0)
    BY <2>1, <2>2
  <2> QED BY <2>4, <2>5, <2>7, <2>8
<1>4. TypeOK /\ AttemptsLeft /\ SlotInv => AtMostOneUnique
  BY <1>3
<1> QED BY <1>2, <1>4, PTL
-----------------------------------------------------------------------------
(* The budget of attempts, for a bound database.  What counts is how often  *)
(* each copy may still be tried: the attempts are numbered, not the copies. *)

LEMMA LimitType ==
  ASSUME NEW j \in Jobs
  PROVE  /\ Limit(j) \in 1..Tries[j] /\ Limit(j) \in Nat
         /\ \A n \in Nat : ~ShouldStop(j, n) => n < Limit(j)
<1>1. Tries[j] \in 1..MaxTries /\ MaxTries \in Nat
      /\ MaxExceptions[j] \in (Nat \ {0}) \cup {Null} /\ Null \notin Nat
  BY JobsAssumption
<1>2. Limit(j) \in 1..Tries[j] /\ Limit(j) \in Nat
  BY <1>1 DEF Limit
<1>3. ASSUME NEW n \in Nat, ~ShouldStop(j, n) PROVE n < Limit(j)
  <2>1. ~(MaxExceptions[j] # Null /\ n >= MaxExceptions[j]) /\ ~(n >= Tries[j])
    BY <1>3, Zenon DEF ShouldStop
  <2> QED BY <2>1, <1>1 DEF Limit
<1> QED BY <1>2, <1>3

\* A message is within the limit of its job.
Fits(m) == m \in Message /\ m.attempts < Limit(m.job)

Fitting ==
    /\ \A m \in Message : broker[m] > 0 \/ rows[m] > 0 => Fits(m)
    /\ \A w \in Workers : pc[w] # "idle" =>
          Fits(taken[w]) /\ (bound => attempt[w] = taken[w].attempts + 1)
    /\ \A w \in Workers : pc[w] = "retry" => attempt[w] < Limit(taken[w].job)

LEMMA FreshFits == \A j \in Jobs : Fresh(j) \in Message /\ Fits(Fresh(j))
<1> SUFFICES ASSUME NEW j \in Jobs PROVE Fresh(j) \in Message /\ Fits(Fresh(j))
  OBVIOUS
<1>1. Fresh(j) \in Message /\ Fresh(j).job = j /\ Fresh(j).attempts = 0
  BY FreshLeft DEF Left, Fresh
<1> QED BY <1>1, LimitType DEF Fits

\* bag was changed by at most one copy of a message that fits.
Shifted(bag, next) ==
    \/ next = bag
    \/ \E m \in Message : Fits(m) /\ next = More(bag, m)
    \/ \E m \in Message : bag[m] > 0 /\ next = Less(bag, m)

LEMMA ShiftedFits ==
  ASSUME MessagesOK, Fitting, Shifted(broker, broker'), Shifted(rows, rows')
  PROVE  \A m \in Message : broker'[m] > 0 \/ rows'[m] > 0 => Fits(m)
  BY DEF MessagesOK, Fitting, Shifted, More, Less

LEMMA WorkerFits ==
  ASSUME MessagesOK, Fitting, Shifted(broker, broker'), Shifted(rows, rows'), bound' = bound,
         NEW w \in Workers, pc[w] # "idle",
         \/ Finish(w)
         \/ /\ UNCHANGED <<taken, attempt>>
            /\ \E l \in Busy : /\ pc' = [pc EXCEPT ![w] = l]
                               /\ l = "retry" => attempt[w] < Limit(taken[w].job)
  PROVE  Fitting'
<1>1. \A m \in Message : broker'[m] > 0 \/ rows'[m] > 0 => Fits(m)
  BY ShiftedFits
<1>2. ASSUME NEW v \in Workers, pc'[v] # "idle"
      PROVE  /\ pc[v] # "idle" /\ taken'[v] = taken[v] /\ attempt'[v] = attempt[v]
             /\ pc'[v] = "retry" => attempt[v] < Limit(taken[v].job)
  BY <1>2 DEF MessagesOK, Fitting
<1>3. ASSUME NEW v \in Workers, pc'[v] # "idle"
      PROVE  /\ Fits(taken'[v])
             /\ pc'[v] = "retry" => attempt'[v] < Limit(taken'[v].job)
  BY <1>2, <1>3 DEF Fitting
<1>4. ASSUME NEW v \in Workers, pc'[v] # "idle", bound'
      PROVE  attempt'[v] = taken'[v].attempts + 1
  BY <1>2, <1>4 DEF Fitting
<1> QED BY <1>1, <1>3, <1>4 DEF Fitting, Fits, Limit

LEMMA QueueFits ==
  ASSUME MessagesOK, Fitting, Shifted(broker, broker'), Shifted(rows, rows'), bound' = bound,
         UNCHANGED worker
  PROVE  Fitting'
<1>1. \A m \in Message : broker'[m] > 0 \/ rows'[m] > 0 => Fits(m)
  BY ShiftedFits
<1>2. ASSUME NEW v \in Workers, pc'[v] # "idle"
      PROVE  /\ Fits(taken'[v])
             /\ pc'[v] = "retry" => attempt'[v] < Limit(taken'[v].job)
  BY <1>2 DEF Fitting
<1>3. ASSUME NEW v \in Workers, pc'[v] # "idle", bound'
      PROVE  attempt'[v] = taken'[v].attempts + 1
  BY <1>3 DEF Fitting
<1> QED BY <1>1, <1>2, <1>3 DEF Fitting, Fits, Limit

\* A database is bound for good, or never.
LEMMA BoundStays == [Next]_vars => bound' = bound
<1> SUFFICES ASSUME [Next]_vars PROVE bound' = bound
  OBVIOUS
<1>1. ASSUME NEW j \in Jobs, AcquireSlot(j) \/ Enqueue(j) \/ EnqueueLater(j)
                               \/ RetryFailed(j) \/ EnqueueRaises(j)
      PROVE  bound' = bound
  BY <1>1, Zenon DEF AcquireSlot, Enqueue, EnqueueLater, RetryFailed, EnqueueRaises
<1>2. ASSUME NEW w \in Workers, NEW m \in Message, Receive(w, m) PROVE bound' = bound
  BY <1>2, Zenon DEF Receive
<1>3. ASSUME NEW w \in Workers, Park(w) \/ Succeed(w) \/ Throw(w) \/ Retry(w) \/ PutBack(w)
      PROVE  bound' = bound
  BY <1>3, Zenon DEF Park, Succeed, Throw, Retry, PutBack
<1>4. ASSUME NEW w \in Workers, FailedHook(w) \/ RecordFailed(w) \/ ChainCatch(w)
               \/ NextLink(w) \/ ReleaseUnique(w) \/ Defer(w) \/ Die(w) \/ StepRaises(w)
      PROVE  bound' = bound
  BY <1>4, Zenon DEF FailedHook, RecordFailed, ChainCatch, NextLink, ReleaseUnique, Defer,
                     Die, StepRaises
<1>5. ASSUME NEW m \in Message, ReleaseRow(m) \/ ReleaseRowTwice(m) PROVE bound' = bound
  BY <1>5, Zenon DEF ReleaseRow, ReleaseRowTwice
<1>6. CASE BecomeLate \/ SlotExpires \/ UNCHANGED vars
  BY <1>6, Zenon DEF BecomeLate, SlotExpires, vars
<1> QED BY <1>1, <1>2, <1>3, <1>4, <1>5, <1>6 DEF Next, Work, Trouble

LEMMA FitNext == TypeOK /\ AttemptsLeft /\ Fitting /\ [Next]_vars => Fitting'
<1> SUFFICES ASSUME TypeOK, AttemptsLeft, Fitting, [Next]_vars PROVE Fitting'
  OBVIOUS
<1>t. MessagesOK /\ bound' = bound
  BY TypeParts, BoundStays
<1>l. \A w \in Workers : pc[w] # "idle" =>
         /\ Fits(taken[w]) /\ taken[w] \in Message /\ taken[w].job \in Jobs
         /\ attempt[w] \in Nat /\ taken[w].attempts \in Nat
  <2>1. \A m \in Message : m.attempts \in Nat /\ m.job \in Jobs
    BY DEF Message
  <2> QED BY <2>1, <1>t DEF Fitting, Fits, MessagesOK
<1>1. ASSUME NEW j \in Jobs, AcquireSlot(j) \/ Enqueue(j) \/ EnqueueLater(j)
                               \/ RetryFailed(j) \/ EnqueueRaises(j)
      PROVE  Fitting'
  <2>1. Shifted(broker, broker') /\ Shifted(rows, rows') /\ UNCHANGED worker
    BY <1>1, FreshFits DEF AcquireSlot, Enqueue, EnqueueLater, RetryFailed, EnqueueRaises,
                           Shifted
  <2> QED BY <2>1, <1>t, QueueFits
<1>2. ASSUME NEW w \in Workers, NEW m \in Message, Receive(w, m) PROVE Fitting'
  <2>1. /\ broker[m] > 0 /\ taken' = [taken EXCEPT ![w] = m]
        /\ Shifted(broker, broker') /\ Shifted(rows, rows')
    BY <1>2 DEF Receive, Shifted
  <2>2. \E l \in {"park", "run"} : pc' = [pc EXCEPT ![w] = l]
    BY <1>2, Zenon DEF Receive
  <2>3. \E n : attempt' = [attempt EXCEPT ![w] = n] /\ (bound => n = m.attempts + 1)
    BY <1>2, Zenon DEF Receive
  <2>4. \A n \in Message : broker'[n] > 0 \/ rows'[n] > 0 => Fits(n)
    BY <2>1, <1>t, ShiftedFits
  <2>5. Fits(m)
    BY <2>1 DEF Fitting
  <2>6. ASSUME NEW v \in Workers, pc'[v] # "idle"
        PROVE  /\ Fits(taken'[v])
               /\ pc'[v] = "retry" => attempt'[v] < Limit(taken'[v].job)
    BY <2>1, <2>2, <2>3, <2>5, <2>6, <1>t DEF MessagesOK, Fitting
  <2>7. ASSUME NEW v \in Workers, pc'[v] # "idle", bound'
        PROVE  attempt'[v] = taken'[v].attempts + 1
    <3>1. bound
      BY <2>7, <1>t
    <3> QED BY <3>1, <2>1, <2>2, <2>3, <2>7, <1>t DEF MessagesOK, Fitting
  <2> QED BY <2>4, <2>6, <2>7 DEF Fitting, Fits, Limit
<1>3. ASSUME NEW w \in Workers, Park(w) \/ PutBack(w) \/ ReleaseUnique(w) \/ Die(w)
               \/ StepRaises(w)
      PROVE  Fitting'
  <2>1. Finish(w) /\ pc[w] # "idle"
    BY <1>3 DEF Park, PutBack, ReleaseUnique, Die, StepRaises
  <2>2. broker' = broker \/ broker' = More(broker, taken[w])
    BY <1>3, Zenon DEF Park, PutBack, ReleaseUnique, Die, StepRaises, queues
  <2>3. rows' = rows \/ rows' = More(rows, taken[w])
    BY <1>3, Zenon DEF Park, PutBack, ReleaseUnique, Die, StepRaises, queues
  <2>4. Shifted(broker, broker') /\ Shifted(rows, rows')
    BY <2>1, <2>2, <2>3, <1>l DEF Shifted
  <2> QED BY <2>1, <2>4, <1>t, WorkerFits
<1>4. ASSUME NEW w \in Workers, Succeed(w) \/ FailedHook(w) \/ RecordFailed(w)
                                  \/ ChainCatch(w) \/ Defer(w)
      PROVE  Fitting'
  <2>1. UNCHANGED <<broker, rows, taken, attempt>> /\ pc[w] # "idle"
    BY <1>4 DEF Succeed, FailedHook, RecordFailed, ChainCatch, Defer
  <2>2. \E l \in Busy : pc' = [pc EXCEPT ![w] = l] /\ l # "retry"
    BY <1>4 DEF Succeed, FailedHook, RecordFailed, ChainCatch, Defer, Busy
  <2> QED BY <2>1, <2>2, <1>t, WorkerFits DEF Shifted
<1>5. ASSUME NEW w \in Workers, Throw(w) PROVE Fitting'
  <2>1. UNCHANGED <<broker, rows, taken, attempt>> /\ pc[w] = "run"
    BY <1>5 DEF Throw
  <2>2. \/ pc' = [pc EXCEPT ![w] = "hook"]
        \/ /\ ~ShouldStop(taken[w].job, attempt[w])
           /\ pc' = [pc EXCEPT ![w] = "retry"]
    BY <1>5, Zenon DEF Throw
  <2>3. ~ShouldStop(taken[w].job, attempt[w]) => attempt[w] < Limit(taken[w].job)
    BY <2>1, <1>l, LimitType
  <2> QED BY <2>1, <2>2, <2>3, <1>t, WorkerFits DEF Shifted, Busy
<1>6. ASSUME NEW w \in Workers, Retry(w) PROVE Fitting'
  <2>1. \/ rows' = More(rows, NextAttempt(w)) /\ Finish(w)
        \/ /\ ~bound /\ attempt' = [attempt EXCEPT ![w] = @ + 1]
           /\ pc' = [pc EXCEPT ![w] = "run"]
           /\ UNCHANGED <<rows, taken>>
    BY <1>6, Zenon DEF Retry
  <2>2. pc[w] = "retry" /\ UNCHANGED broker
    BY <1>6, Zenon DEF Retry
  <2>3. attempt[w] < Limit(taken[w].job) /\ taken[w] \in Message /\ attempt[w] \in 0..MaxTries
    BY <2>2, <1>l, <1>t DEF Fitting, MessagesOK
  <2>4. NextAttempt(w) \in Message /\ Fits(NextAttempt(w))
    <3>1. NextAttempt(w) \in Message /\ NextAttempt(w).job = taken[w].job
          /\ NextAttempt(w).attempts = attempt[w]
      BY <2>3 DEF NextAttempt, Message
    <3> QED BY <3>1, <2>3 DEF Fits
  <2>5. CASE rows' = More(rows, NextAttempt(w)) /\ Finish(w)
    BY <2>2, <2>4, <2>5, <1>t, WorkerFits DEF Shifted
  <2>6. CASE /\ ~bound /\ attempt' = [attempt EXCEPT ![w] = @ + 1]
             /\ pc' = [pc EXCEPT ![w] = "run"]
             /\ UNCHANGED <<rows, taken>>
    <3>1. \A n \in Message : broker'[n] > 0 \/ rows'[n] > 0 => Fits(n)
      BY <2>2, <2>6 DEF Fitting
    <3>2. ASSUME NEW v \in Workers, pc'[v] # "idle"
          PROVE  /\ Fits(taken'[v])
                 /\ pc'[v] = "retry" => attempt'[v] < Limit(taken'[v].job)
      BY <2>2, <2>6, <3>2, <1>t DEF MessagesOK, Fitting
    <3>3. ~bound'
      BY <2>6, <1>t
    <3> QED BY <3>1, <3>2, <3>3 DEF Fitting, Fits, Limit
  <2> QED BY <2>1, <2>5, <2>6
<1>7. ASSUME NEW w \in Workers, NextLink(w) PROVE Fitting'
  <2>1. UNCHANGED <<rows, taken, attempt>> /\ pc[w] # "idle"
        /\ pc' = [pc EXCEPT ![w] = "unlock"]
    BY <1>7 DEF NextLink
  <2>2. \/ broker' = broker
        \/ /\ Link[taken[w].job] # Null
           /\ broker' = More(broker, Fresh(Link[taken[w].job]))
    BY <1>7, Zenon DEF NextLink, Advance
  <2>3. Link[taken[w].job] # Null => Link[taken[w].job] \in Jobs
    BY <2>1, <1>l, JobsAssumption
  <2>4. Shifted(broker, broker') /\ Shifted(rows, rows')
    BY <2>1, <2>2, <2>3, FreshFits DEF Shifted
  <2> QED BY <2>1, <2>4, <1>t, WorkerFits DEF Busy
<1>8. ASSUME NEW m \in Message, ReleaseRow(m) \/ ReleaseRowTwice(m) PROVE Fitting'
  <2>1. Fits(m)
    BY <1>8 DEF ReleaseRow, ReleaseRowTwice, Fitting
  <2>2. Shifted(broker, broker') /\ Shifted(rows, rows') /\ UNCHANGED worker
    BY <1>8, <2>1 DEF ReleaseRow, ReleaseRowTwice, Shifted
  <2> QED BY <2>2, <1>t, QueueFits
<1>9. CASE BecomeLate \/ SlotExpires \/ UNCHANGED vars
  <2>1. UNCHANGED <<broker, rows, worker>>
    BY <1>9 DEF BecomeLate, SlotExpires, vars
  <2> QED BY <2>1, <1>t, QueueFits DEF Shifted
<1> QED BY <1>1, <1>2, <1>3, <1>4, <1>5, <1>6, <1>7, <1>8, <1>9 DEF Next, Work, Trouble
-----------------------------------------------------------------------------
\* Every element of f's domain, numbered up to its weight.
Weighted(f) == {p \in (DOMAIN f) \X Nat : p[2] < f[p[1]]}
Weight(f) == Cardinality(Weighted(f))

LEMMA WeightChanges ==
  ASSUME NEW D, NEW f \in [D -> Nat], NEW g \in [D -> Nat], NEW x \in D,
         \A y \in D \ {x} : g[y] = f[y], IsFiniteSet(Weighted(f))
  PROVE  /\ IsFiniteSet(Weighted(g)) /\ Weight(f) \in Nat /\ Weight(g) \in Nat
         /\ Weight(g) = Weight(f) - f[x] + g[x]
<1> DEFINE R == {p \in Weighted(f) : p[1] # x}
           Part(n) == {x} \X (0 .. n - 1)
<1>1. ASSUME NEW n \in Nat PROVE IsFiniteSet(Part(n)) /\ Cardinality(Part(n)) = n
  <2> DEFINE one == {x}
             upTo == 0 .. n - 1
  <2>1. IsFiniteSet(one) /\ Cardinality(one) = 1
    BY FS_Singleton
  <2>2. IsFiniteSet(upTo) /\ Cardinality(upTo) = IF 0 > n - 1 THEN 0 ELSE n - 1 - 0 + 1
    <3>1. 0 \in Int /\ n - 1 \in Int
      OBVIOUS
    <3> QED BY <3>1, FS_Interval, Zenon
  <2>3. Cardinality(upTo) = n
    BY <2>2
  <2> HIDE DEF one, upTo
  <2>4. IsFiniteSet(one \X upTo) /\ Cardinality(one \X upTo) = 1 * n
    BY <2>1, <2>2, <2>3, FS_Product
  <2>5. IsFiniteSet(one \X upTo) /\ Cardinality(one \X upTo) = n
    BY <2>4
  <2> QED BY <2>5 DEF one, upTo
<1>2. IsFiniteSet(R)
  BY FS_Subset
<1>3. ASSUME NEW e \in {f, g} PROVE Weighted(e) = R \cup Part(e[x])
  <2>1. e \in [D -> Nat] /\ \A y \in D \ {x} : e[y] = f[y]
    OBVIOUS
  <2>2. ASSUME NEW p \in Weighted(e) PROVE p \in R \cup Part(e[x])
    <3>1. PICK y \in D, i \in Nat : p = <<y, i>> /\ i < e[y]
      BY <2>1 DEF Weighted
    <3>2. CASE y = x
      BY <3>1, <3>2, <2>1
    <3>3. CASE y # x
      <4>1. i < f[y]
        BY <3>1, <3>3, <2>1
      <4> QED BY <3>1, <3>3, <4>1 DEF Weighted
    <3> QED BY <3>2, <3>3
  <2>3. ASSUME NEW p \in R PROVE p \in Weighted(e)
    <3>1. PICK y \in D, i \in Nat : p = <<y, i>> /\ i < f[y] /\ y # x
      BY DEF Weighted
    <3> QED BY <3>1, <2>1 DEF Weighted
  <2>4. ASSUME NEW p \in Part(e[x]) PROVE p \in Weighted(e)
    <3>1. PICK i \in 0 .. e[x] - 1 : p = <<x, i>>
      OBVIOUS
    <3>2. i \in Nat /\ i < e[x]
      BY <3>1, <2>1
    <3> QED BY <3>1, <3>2, <2>1 DEF Weighted
  <2> QED BY <2>2, <2>3, <2>4
<1>4. \A n : R \cap Part(n) = {}
  OBVIOUS
<1> HIDE DEF R, Part
<1>5. ASSUME NEW e \in {f, g}
      PROVE  IsFiniteSet(Weighted(e)) /\ Weight(e) = Cardinality(R) + e[x]
  <2>1. e[x] \in Nat
    OBVIOUS
  <2>2. IsFiniteSet(Part(e[x])) /\ Cardinality(Part(e[x])) = e[x]
    BY <2>1, <1>1
  <2>3. Cardinality(R \cap Part(e[x])) = 0
    BY <1>4, FS_EmptySet
  <2>4. Cardinality(R) \in Nat
    BY <1>2, FS_CardinalityType
  <2>5. /\ IsFiniteSet(R \cup Part(e[x]))
        /\ Cardinality(R \cup Part(e[x])) =
             Cardinality(R) + Cardinality(Part(e[x])) - Cardinality(R \cap Part(e[x]))
    BY <1>2, <2>2, FS_Union
  <2>6. Weighted(e) = R \cup Part(e[x])
    BY <1>3
  <2>7. Cardinality(R \cup Part(e[x])) = Cardinality(R) + e[x]
    BY <2>1, <2>2, <2>3, <2>4, <2>5
  <2> QED BY <2>5, <2>6, <2>7 DEF Weight
<1>6. Cardinality(R) \in Nat
  BY <1>2, FS_CardinalityType
<1>7. f \in {f, g} /\ g \in {f, g} /\ f[x] \in Nat /\ g[x] \in Nat
  OBVIOUS
<1>8. /\ IsFiniteSet(Weighted(f)) /\ Weight(f) = Cardinality(R) + f[x]
      /\ IsFiniteSet(Weighted(g)) /\ Weight(g) = Cardinality(R) + g[x]
  BY <1>5
<1> QED BY <1>6, <1>7, <1>8

LEMMA NoWeight ==
  ASSUME NEW f, \A y \in DOMAIN f : f[y] = 0
  PROVE  IsFiniteSet(Weighted(f)) /\ Weight(f) = 0
<1>1. Weighted(f) = {}
  BY DEF Weighted
<1> QED BY <1>1, FS_EmptySet DEF Weight

\* How often job k may still be tried for a copy that carries n attempts.
Rest(k, n) == IF n < Limit(k) THEN Limit(k) - n ELSE 0

\* What a message of the chain is worth: that of an earlier link, a new job k.
Share(chain, k, m) ==
    IF m.job \notin chain THEN 0 ELSE IF m.job = k THEN Rest(k, m.attempts) ELSE Limit(k)

BagShares(bag, chain, k) ==
    [c \in Message \X Nat |-> IF c[2] < bag[c[1]] THEN Share(chain, k, c[1]) ELSE 0]

\* What a worker may still put back, or push.
WorkerShare(chain, k, w) ==
    IF pc[w] \in {"park", "run", "putback"} THEN Share(chain, k, taken[w])
    ELSE IF pc[w] = "retry" THEN Share(chain, k, NextAttempt(w))
    ELSE IF pc[w] = "link" /\ taken[w].job \in chain \ {k} THEN Limit(k)
    ELSE 0

WorkerShares(chain, k) == [w \in Workers |-> WorkerShare(chain, k, w)]

Counts(chain, k) ==
    /\ IsFiniteSet(Weighted(BagShares(broker, chain, k)))
    /\ IsFiniteSet(Weighted(BagShares(rows, chain, k)))
    /\ IsFiniteSet(Weighted(WorkerShares(chain, k)))

Budget(chain, k) ==
    Weight(BagShares(broker, chain, k)) + Weight(BagShares(rows, chain, k))
      + Weight(WorkerShares(chain, k)) + thrown[k]

BudgetInv ==
    bound => \A chain \in SUBSET Jobs, k \in Jobs :
        Line(chain, k) => Counts(chain, k) /\ Budget(chain, k) <= Limit(k) * (1 + faults)

LEMMA ShareType ==
  ASSUME NEW chain, NEW k \in Jobs, NEW m \in Message
  PROVE  Share(chain, k, m) \in 0..Limit(k) /\ Share(chain, k, m) \in Nat
<1>1. Limit(k) \in Nat /\ m.attempts \in Nat
  BY LimitType DEF Message
<1> QED BY <1>1 DEF Share, Rest

LEMMA BagGains ==
  ASSUME NEW bag \in [Message -> Nat], NEW m \in Message, NEW chain, NEW k \in Jobs,
         IsFiniteSet(Weighted(BagShares(bag, chain, k)))
  PROVE  /\ IsFiniteSet(Weighted(BagShares(More(bag, m), chain, k)))
         /\ Weight(BagShares(bag, chain, k)) \in Nat
         /\ Weight(BagShares(More(bag, m), chain, k))
              = Weight(BagShares(bag, chain, k)) + Share(chain, k, m)
<1> DEFINE f == BagShares(bag, chain, k)
           g == BagShares(More(bag, m), chain, k)
           x == <<m, bag[m]>>
<1>1. More(bag, m) \in [Message -> Nat] /\ More(bag, m)[m] = bag[m] + 1
      /\ \A n \in Message : n # m => More(bag, m)[n] = bag[n]
  BY DEF More
<1>2. f \in [Message \X Nat -> Nat] /\ g \in [Message \X Nat -> Nat]
  BY ShareType DEF BagShares
<1>3. ASSUME NEW c \in (Message \X Nat) \ {x} PROVE g[c] = f[c]
  <2>1. PICK n \in Message, i \in Nat : c = <<n, i>>
    OBVIOUS
  <2>2. n = m => i # bag[m]
    BY <2>1, <1>3
  <2>3. i < bag[n] <=> i < More(bag, m)[n]
    BY <1>1, <2>2
  <2> QED BY <2>1, <2>3 DEF BagShares
<1>4. x \in Message \X Nat /\ f[x] = 0 /\ g[x] = Share(chain, k, m)
  BY <1>1 DEF BagShares
<1> HIDE DEF f, g, x
<1>5. IsFiniteSet(Weighted(f))
  BY DEF f
<1>6. /\ IsFiniteSet(Weighted(g)) /\ Weight(f) \in Nat /\ Weight(g) \in Nat
      /\ Weight(g) = Weight(f) - f[x] + g[x]
  BY <1>2, <1>3, <1>4, <1>5, WeightChanges
<1>7. /\ IsFiniteSet(Weighted(g)) /\ Weight(f) \in Nat
      /\ Weight(g) = Weight(f) + Share(chain, k, m)
  BY <1>4, <1>6
<1> QED BY <1>7 DEF f, g

LEMMA BagLoses ==
  ASSUME NEW bag \in [Message -> Nat], NEW m \in Message, bag[m] > 0, NEW chain,
         NEW k \in Jobs, IsFiniteSet(Weighted(BagShares(bag, chain, k)))
  PROVE  /\ IsFiniteSet(Weighted(BagShares(Less(bag, m), chain, k)))
         /\ Weight(BagShares(Less(bag, m), chain, k)) \in Nat
         /\ Weight(BagShares(Less(bag, m), chain, k))
              = Weight(BagShares(bag, chain, k)) - Share(chain, k, m)
<1> DEFINE f == BagShares(bag, chain, k)
           g == BagShares(Less(bag, m), chain, k)
           x == <<m, bag[m] - 1>>
<1>1. Less(bag, m) \in [Message -> Nat] /\ Less(bag, m)[m] = bag[m] - 1
      /\ \A n \in Message : n # m => Less(bag, m)[n] = bag[n]
  BY DEF Less
<1>2. f \in [Message \X Nat -> Nat] /\ g \in [Message \X Nat -> Nat]
  BY ShareType DEF BagShares
<1>3. ASSUME NEW c \in (Message \X Nat) \ {x} PROVE g[c] = f[c]
  <2>1. PICK n \in Message, i \in Nat : c = <<n, i>>
    OBVIOUS
  <2>2. n = m => i # bag[m] - 1
    BY <2>1, <1>3
  <2>3. i < bag[n] <=> i < Less(bag, m)[n]
    BY <1>1, <2>2
  <2> QED BY <2>1, <2>3 DEF BagShares
<1>4. x \in Message \X Nat /\ f[x] = Share(chain, k, m) /\ g[x] = 0
  BY <1>1 DEF BagShares
<1> HIDE DEF f, g, x
<1>5. IsFiniteSet(Weighted(f))
  BY DEF f
<1>6. /\ IsFiniteSet(Weighted(g)) /\ Weight(f) \in Nat /\ Weight(g) \in Nat
      /\ Weight(g) = Weight(f) - f[x] + g[x]
  BY <1>2, <1>3, <1>4, <1>5, WeightChanges
<1>7. /\ IsFiniteSet(Weighted(g)) /\ Weight(g) \in Nat
      /\ Weight(g) = Weight(f) - Share(chain, k, m)
  BY <1>2, <1>4, <1>6
<1> QED BY <1>7 DEF f, g

LEMMA WorkerShareType ==
  ASSUME MessagesOK, AttemptsLeft, NEW chain, NEW k \in Jobs, NEW w \in Workers
  PROVE  WorkerShare(chain, k, w) \in Nat
<1>1. Limit(k) \in Nat
  BY LimitType
<1>2. ASSUME pc[w] # "idle" PROVE taken[w] \in Message /\ NextAttempt(w) \in Message
  <2>1. taken[w] \in Message /\ attempt[w] \in 0..MaxTries
    BY <1>2 DEF AttemptsLeft, Left, MessagesOK
  <2> QED BY <2>1 DEF NextAttempt, Message
<1> QED BY <1>1, <1>2, ShareType DEF WorkerShare

LEMMA WorkerShareMoves ==
  ASSUME MessagesOK, AttemptsLeft, MessagesOK', AttemptsLeft',
         NEW chain, NEW k \in Jobs, NEW w \in Workers,
         IsFiniteSet(Weighted(WorkerShares(chain, k))),
         \A v \in Workers \ {w} : pc'[v] = pc[v] /\ taken'[v] = taken[v]
                                    /\ attempt'[v] = attempt[v]
  PROVE  /\ IsFiniteSet(Weighted(WorkerShares(chain, k)'))
         /\ Weight(WorkerShares(chain, k)') \in Nat
         /\ Weight(WorkerShares(chain, k)')
              = Weight(WorkerShares(chain, k)) - WorkerShare(chain, k, w)
                  + WorkerShare(chain, k, w)'
<1> DEFINE f == WorkerShares(chain, k)
           g == WorkerShares(chain, k)'
<1>1. f \in [Workers -> Nat] /\ g \in [Workers -> Nat]
  <2>1. \A v \in Workers : WorkerShare(chain, k, v) \in Nat
    BY WorkerShareType
  <2>2. ASSUME NEW v \in Workers PROVE WorkerShare(chain, k, v)' \in Nat
    <3>1. Limit(k) \in Nat
      BY LimitType
    <3>2. ASSUME pc'[v] # "idle" PROVE taken'[v] \in Message /\ NextAttempt(v)' \in Message
      <4>1. taken'[v] \in Message /\ attempt'[v] \in 0..MaxTries
        BY <3>2 DEF AttemptsLeft, Left, MessagesOK
      <4> QED BY <4>1 DEF NextAttempt, Message
    <3> QED BY <3>1, <3>2, ShareType DEF WorkerShare, Share, Rest
  <2> QED BY <2>1, <2>2 DEF WorkerShares
<1>2. ASSUME NEW v \in Workers \ {w} PROVE g[v] = f[v]
  <2>1. pc'[v] = pc[v] /\ taken'[v] = taken[v] /\ NextAttempt(v)' = NextAttempt(v)
    BY <1>2 DEF NextAttempt
  <2>2. WorkerShare(chain, k, v)' = WorkerShare(chain, k, v)
    BY <2>1 DEF WorkerShare, Share, Rest, Limit
  <2> QED BY <2>2 DEF WorkerShares
<1>3. f[w] = WorkerShare(chain, k, w) /\ g[w] = WorkerShare(chain, k, w)'
  BY DEF WorkerShares
<1> HIDE DEF f, g
<1>4. IsFiniteSet(Weighted(f))
  BY DEF f
<1>5. /\ IsFiniteSet(Weighted(g)) /\ Weight(g) \in Nat
      /\ Weight(g) = Weight(f) - f[w] + g[w]
  BY <1>1, <1>2, <1>4, WeightChanges
<1> QED BY <1>3, <1>5 DEF f, g, Weight, Weighted

LEMMA BudgetGrows ==
  ASSUME NEW limit \in Nat, NEW n \in Nat
  PROVE  limit * (1 + n) \in Nat /\ limit * (1 + (n + 1)) = limit * (1 + n) + limit
<1>1. limit * (1 + n) \in Nat
  OBVIOUS
<1>2. limit * (1 + (n + 1)) = limit * (1 + n) + limit
  OBVIOUS
<1> QED BY <1>1, <1>2

\* Before its head is enqueued a chain has no copies and no attempts.
LEMMA NothingToSpend ==
  ASSUME TypeOK, AttemptsLeft, Story, HeadFirst, NEW chain \in SUBSET Jobs, NEW k \in Jobs,
         Line(chain, k), ~ \E h \in chain \cap Heads : Sent(h)
  PROVE  /\ Weight(BagShares(broker, chain, k)) = 0 /\ Weight(BagShares(rows, chain, k)) = 0
         /\ Weight(WorkerShares(chain, k)) = 0 /\ thrown[k] = 0
<1>t. JobsOK /\ MessagesOK /\ TravelsSent /\ JobStory
  BY TypeParts DEF Story
<1>1. \A j \in chain : ~Sent(j)
  BY DEF HeadFirst
<1>2. ASSUME NEW bag \in {broker, rows} PROVE Weight(BagShares(bag, chain, k)) = 0
  <2>1. ASSUME NEW c \in Message \X Nat PROVE BagShares(bag, chain, k)[c] = 0
    <3>1. PICK m \in Message, i \in Nat : c = <<m, i>>
      OBVIOUS
    <3>2. m.job \in chain => ~(i < bag[m])
      BY <1>1, <1>t DEF TravelsSent, MessagesOK
    <3> QED BY <3>1, <3>2 DEF BagShares, Share
  <2> QED BY <2>1, NoWeight DEF BagShares
<1>3. Weight(WorkerShares(chain, k)) = 0
  <2>1. ASSUME NEW w \in Workers PROVE WorkerShare(chain, k, w) = 0
    <3>1. pc[w] # "idle" => taken[w].job \notin chain /\ NextAttempt(w).job = taken[w].job
      <4>1. pc[w] # "idle" => taken[w] \in Message
        BY DEF AttemptsLeft, Left
      <4> QED BY <4>1, <1>1, <1>t DEF TravelsSent, NextAttempt, Message
    <3> QED BY <3>1 DEF WorkerShare, Share
  <2> QED BY <2>1, NoWeight DEF WorkerShares
<1>4. k \in chain
  BY DEF Line
<1>5. ~Ended(k)
  BY <1>1, <1>4, <1>t DEF JobStory
<1>6. thrown[k] = 0
  BY <1>5, <1>t DEF JobsOK, Ended
<1> QED BY <1>2, <1>3, <1>6

LEMMA BudgetInit == Init => Fitting /\ BudgetInv
<1>1. ASSUME Init PROVE Fitting
  BY <1>1 DEF Init, Fitting
<1>2. ASSUME Init, NEW chain \in SUBSET Jobs, NEW k \in Jobs
      PROVE  Counts(chain, k) /\ Budget(chain, k) <= Limit(k) * (1 + faults)
  <2>1. \A c \in Message \X Nat : /\ BagShares(broker, chain, k)[c] = 0
                                  /\ BagShares(rows, chain, k)[c] = 0
    BY <1>2 DEF Init, BagShares
  <2>2. \A w \in Workers : WorkerShares(chain, k)[w] = 0
    BY <1>2 DEF Init, WorkerShares, WorkerShare
  <2>3. /\ IsFiniteSet(Weighted(BagShares(broker, chain, k)))
        /\ Weight(BagShares(broker, chain, k)) = 0
    BY <2>1, NoWeight DEF BagShares
  <2>4. /\ IsFiniteSet(Weighted(BagShares(rows, chain, k)))
        /\ Weight(BagShares(rows, chain, k)) = 0
    BY <2>1, NoWeight DEF BagShares
  <2>5. IsFiniteSet(Weighted(WorkerShares(chain, k))) /\ Weight(WorkerShares(chain, k)) = 0
    BY <2>2, NoWeight DEF WorkerShares
  <2>6. thrown[k] = 0 /\ faults = 0 /\ Limit(k) \in Nat
    BY <1>2, LimitType DEF Init
  <2> QED BY <2>3, <2>4, <2>5, <2>6 DEF Counts, Budget
<1> QED BY <1>1, <1>2 DEF BudgetInv

LEMMA BudgetNext ==
  TypeOK /\ AttemptsLeft /\ Story /\ HeadFirst /\ Fitting /\ BudgetInv /\ [Next]_vars
    => BudgetInv'
<1> SUFFICES ASSUME TypeOK, AttemptsLeft, Story, HeadFirst, Fitting, BudgetInv, [Next]_vars,
                    bound', NEW chain \in SUBSET Jobs, NEW k \in Jobs, Line(chain, k)
             PROVE  Counts(chain, k)' /\ Budget(chain, k)' <= Limit(k) * (1 + faults')
  BY DEF BudgetInv, Line, Limit
<1> DEFINE b == Weight(BagShares(broker, chain, k))
           r == Weight(BagShares(rows, chain, k))
           h == Weight(WorkerShares(chain, k))
           b2 == Weight(BagShares(broker', chain, k))
           r2 == Weight(BagShares(rows', chain, k))
           h2 == Weight(WorkerShares(chain, k)')
           t == thrown[k]
           t2 == thrown'[k]
           cap == Limit(k) * (1 + faults)
           cap2 == Limit(k) * (1 + faults')
           Goal == Counts(chain, k)' /\ Budget(chain, k)' <= cap2
           FinB == IsFiniteSet(Weighted(BagShares(broker', chain, k)))
           FinR == IsFiniteSet(Weighted(BagShares(rows', chain, k)))
           FinH == IsFiniteSet(Weighted(WorkerShares(chain, k)'))
           Mine(w) == WorkerShare(chain, k, w)
           Mine2(w) == WorkerShare(chain, k, w)'
<1>t. JobsOK /\ MessagesOK /\ JobStory /\ TravelsSent /\ MessagesOK' /\ AttemptsLeft'
  BY TypeParts, TypeNext DEF Story, TypeOK, MessagesOK
<1>a. bound
  BY BoundStays
<1>c. /\ Counts(chain, k) /\ b + r + h + t <= cap
      /\ b \in Nat /\ r \in Nat /\ h \in Nat /\ t \in Nat
      /\ faults \in Nat /\ Limit(k) \in Nat
  <2>1. Counts(chain, k) /\ Budget(chain, k) <= cap
    BY <1>a DEF BudgetInv
  <2>2. b \in Nat /\ r \in Nat /\ h \in Nat
    BY <2>1, FS_CardinalityType DEF Counts, Weight
  <2> QED BY <2>1, <2>2, <1>t, LimitType DEF Budget, JobsOK
<1>e. /\ cap \in Nat
      /\ faults' = faults => cap2 = cap
      /\ faults' = faults + 1 => cap2 = cap + Limit(k)
  BY <1>c, BudgetGrows
<1>l. \A w \in Workers : pc[w] # "idle" => taken[w] \in Message /\ taken[w].job \in Jobs
  BY LeftJob DEF AttemptsLeft, Left
<1>f. \A j \in Jobs : Fresh(j) \in Message /\ Fresh(j).job = j /\ Fresh(j).attempts = 0
  BY FreshLeft DEF Left, Fresh
<1>s. \A m \in Message : Share(chain, k, m) \in Nat /\ Share(chain, k, m) <= Limit(k)
  BY ShareType, <1>c
<1>m. \A w \in Workers : Mine(w) \in Nat
  BY <1>t, WorkerShareType
<1>g. ASSUME FinB, FinR, FinH, b2 + r2 + h2 + t2 <= cap2 PROVE Goal
  BY <1>g DEF Counts, Budget, BagShares, Weighted, Weight, Share, Rest, Limit
<1>b. ASSUME NEW m \in Message, broker' = More(broker, m)
      PROVE  FinB /\ b2 = b + Share(chain, k, m)
  BY <1>b, <1>c, <1>t, BagGains DEF MessagesOK, Counts
<1>r. ASSUME NEW m \in Message, rows' = More(rows, m)
      PROVE  FinR /\ r2 = r + Share(chain, k, m)
  BY <1>r, <1>c, <1>t, BagGains DEF MessagesOK, Counts
<1>u. ASSUME UNCHANGED broker PROVE FinB /\ b2 = b
  BY <1>u, <1>c DEF Counts
<1>v. ASSUME UNCHANGED rows PROVE FinR /\ r2 = r
  BY <1>v, <1>c DEF Counts
<1>w. ASSUME NEW w \in Workers,
             \A v \in Workers \ {w} : pc'[v] = pc[v] /\ taken'[v] = taken[v]
                                        /\ attempt'[v] = attempt[v]
      PROVE  FinH /\ h2 \in Nat /\ h2 = h - Mine(w) + Mine2(w)
  BY <1>w, <1>c, <1>t, WorkerShareMoves DEF Counts
<1>q. ASSUME UNCHANGED worker PROVE FinH /\ h2 = h
  <2>1. WorkerShares(chain, k)' = WorkerShares(chain, k)
    BY <1>q DEF WorkerShares, WorkerShare, Share, NextAttempt, Rest, Limit
  <2> QED BY <2>1, <1>c DEF Counts
<1> HIDE DEF Goal, b, r, h, b2, r2, h2, t, t2, cap, cap2, FinB, FinR, FinH, Mine, Mine2
<1>1. ASSUME UNCHANGED <<broker, rows, worker, thrown>>, faults' \in {faults, faults + 1}
      PROVE  Goal
  <2>1. FinB /\ FinR /\ FinH /\ b2 = b /\ r2 = r /\ h2 = h /\ t2 = t
    BY <1>1, <1>u, <1>v, <1>q DEF t, t2
  <2> QED BY <1>1, <2>1, <1>c, <1>e, <1>g
<1>2. ASSUME NEW i \in Jobs, Enqueue(i) \/ EnqueueLater(i) PROVE Goal
  <2>1. /\ \/ broker' = More(broker, Fresh(i)) /\ rows' = rows
           \/ broker' = broker /\ rows' = More(rows, Fresh(i))
        /\ UNCHANGED <<worker, thrown, faults>>
        /\ i \in Heads /\ ~Sent(i)
    BY <1>2, <1>t DEF Enqueue, EnqueueLater, Dispatching, JobStory, Heads
  <2>2. FinB /\ FinR /\ b2 + r2 = b + r + Share(chain, k, Fresh(i))
    <3>1. CASE broker' = More(broker, Fresh(i)) /\ rows' = rows
      BY <3>1, <1>b, <1>v, <1>f, <1>c, <1>s
    <3>2. CASE broker' = broker /\ rows' = More(rows, Fresh(i))
      BY <3>2, <1>r, <1>u, <1>f, <1>c, <1>s
    <3> QED BY <2>1, <3>1, <3>2
  <2>3. FinH /\ h2 = h /\ t2 = t
    BY <2>1, <1>q DEF t, t2
  <2>4. CASE i \in chain
    <3>1. ~ \E g \in chain \cap Heads : Sent(g)
      BY <2>1, <2>4 DEF Line, Heads
    <3>2. b = 0 /\ r = 0 /\ h = 0 /\ t = 0
      BY <3>1, NothingToSpend DEF b, r, h, t
    <3>3. b2 + r2 <= Limit(k)
      BY <2>2, <3>2, <1>s, <1>f
    <3>4. b2 + r2 \in Nat
      BY <2>2, <3>2, <1>s, <1>f
    <3>5. cap2 >= Limit(k) /\ cap2 \in Nat
      BY <2>1, <1>c DEF cap2
    <3> QED BY <2>2, <2>3, <3>2, <3>3, <3>4, <3>5, <1>c, <1>g
  <2>5. CASE i \notin chain
    <3>1. Share(chain, k, Fresh(i)) = 0
      BY <2>5, <1>f DEF Share
    <3>2. b2 + r2 = b + r
      BY <2>2, <3>1, <1>c
    <3> QED BY <2>1, <2>2, <2>3, <3>2, <1>c, <1>e, <1>g
  <2> QED BY <2>4, <2>5
<1>3. ASSUME NEW w \in Workers, NEW m \in Message, Receive(w, m) PROVE Goal
  <2>1. /\ pc[w] = "idle" /\ broker[m] > 0 /\ broker' = Less(broker, m)
        /\ taken' = [taken EXCEPT ![w] = m]
        /\ UNCHANGED <<rows, thrown, faults>>
    BY <1>3 DEF Receive
  <2>2. \E l \in {"park", "run"} : pc' = [pc EXCEPT ![w] = l]
    BY <1>3, Zenon DEF Receive
  <2>3. \E n : attempt' = [attempt EXCEPT ![w] = n]
    BY <1>3, Zenon DEF Receive
  <2>4. FinB /\ b2 \in Nat /\ b2 = b - Share(chain, k, m)
    BY <2>1, <1>c, <1>t, BagLoses DEF MessagesOK, Counts, b, b2, FinB
  <2>5. \A v \in Workers \ {w} : pc'[v] = pc[v] /\ taken'[v] = taken[v]
                                   /\ attempt'[v] = attempt[v]
    BY <2>1, <2>2, <2>3, <1>t DEF MessagesOK
  <2>6. Mine(w) = 0 /\ Mine2(w) = Share(chain, k, m)
    BY <2>1, <2>2, <1>t DEF MessagesOK, WorkerShare, Mine, Mine2, Share, Rest, Limit
  <2>7. FinH /\ h2 = h - Mine(w) + Mine2(w)
    BY <2>5, <1>w
  <2>8. FinR /\ r2 = r /\ t2 = t
    BY <2>1, <1>v DEF t, t2
  <2>9. b2 + r2 + h2 + t2 = b + r + h + t
    BY <2>4, <2>6, <2>7, <2>8, <1>c, <1>s
  <2> QED BY <2>1, <2>4, <2>7, <2>8, <2>9, <1>c, <1>e, <1>g
<1>4. ASSUME NEW w \in Workers, pc[w] # "idle", Finish(w), UNCHANGED <<thrown, faults>>,
             \/ \E m \in Message : /\ Share(chain, k, m) <= Mine(w)
                                   /\ \/ broker' = More(broker, m) /\ rows' = rows
                                      \/ broker' = broker /\ rows' = More(rows, m)
             \/ UNCHANGED <<broker, rows>>
      PROVE  Goal
  <2>1. \A v \in Workers \ {w} : pc'[v] = pc[v] /\ taken'[v] = taken[v]
                                   /\ attempt'[v] = attempt[v]
    BY <1>4, <1>t DEF MessagesOK
  <2>2. Mine2(w) = 0
    BY <1>4, <1>t DEF MessagesOK, WorkerShare, Mine2
  <2>3. FinH /\ h2 \in Nat /\ h2 = h - Mine(w)
    BY <2>1, <2>2, <1>w, <1>c, <1>m
  <2>4. FinB /\ FinR /\ b2 + r2 \in Nat /\ b2 + r2 <= b + r + Mine(w)
    <3>1. CASE UNCHANGED <<broker, rows>>
      BY <3>1, <1>u, <1>v, <1>c, <1>m
    <3>2. ASSUME NEW m \in Message, Share(chain, k, m) <= Mine(w),
                 broker' = More(broker, m), rows' = rows
          PROVE  FinB /\ FinR /\ b2 + r2 \in Nat /\ b2 + r2 <= b + r + Mine(w)
      BY <3>2, <1>b, <1>v, <1>c, <1>m, <1>s
    <3>3. ASSUME NEW m \in Message, Share(chain, k, m) <= Mine(w),
                 broker' = broker, rows' = More(rows, m)
          PROVE  FinB /\ FinR /\ b2 + r2 \in Nat /\ b2 + r2 <= b + r + Mine(w)
      BY <3>3, <1>r, <1>u, <1>c, <1>m, <1>s
    <3> QED BY <1>4, <3>1, <3>2, <3>3
  <2>5. t2 = t /\ cap2 = cap
    BY <1>4, <1>e DEF t, t2
  <2>6. b2 + r2 + h2 + t2 <= cap2
    <3>1. b2 + r2 + h2 <= b + r + h /\ b2 + r2 + h2 \in Nat
      BY <2>3, <2>4, <1>c, <1>m
    <3> QED BY <2>5, <3>1, <1>c, <1>e
  <2> QED BY <2>3, <2>4, <2>6, <1>g
<1>5. ASSUME NEW w \in Workers, Park(w) \/ PutBack(w) PROVE Goal
  <2>1. \/ broker' = More(broker, taken[w]) /\ rows' = rows
        \/ broker' = broker /\ rows' = More(rows, taken[w])
    BY <1>5, Zenon DEF Park, PutBack
  <2>2. pc[w] \in {"park", "putback"} /\ Finish(w) /\ UNCHANGED <<thrown, faults>>
    BY <1>5 DEF Park, PutBack
  <2>3. taken[w] \in Message
    BY <2>2, <1>l
  <2>4. Mine(w) = Share(chain, k, taken[w])
    BY <2>2 DEF WorkerShare, Mine
  <2>5. Share(chain, k, taken[w]) <= Mine(w)
    BY <2>3, <2>4, <1>s
  <2> QED BY <2>1, <2>2, <2>3, <2>5, <1>4
<1>6. ASSUME NEW w \in Workers, UNCHANGED <<broker, rows, faults, taken, attempt>>,
             \E l \in Busy : pc' = [pc EXCEPT ![w] = l],
             t2 \in Nat, Mine2(w) \in Nat, Mine2(w) + t2 <= Mine(w) + t
      PROVE  Goal
  <2>1. \A v \in Workers \ {w} : pc'[v] = pc[v] /\ taken'[v] = taken[v]
                                   /\ attempt'[v] = attempt[v]
    BY <1>6, <1>t DEF MessagesOK
  <2>2. FinH /\ h2 \in Nat /\ h2 = h - Mine(w) + Mine2(w)
    BY <2>1, <1>w
  <2>3. FinB /\ FinR /\ b2 = b /\ r2 = r /\ cap2 = cap
    BY <1>6, <1>u, <1>v, <1>e
  <2>4. h2 + t2 <= h + t
    BY <1>6, <2>2, <1>c, <1>m
  <2>5. b2 + r2 + h2 + t2 <= cap2
    BY <1>6, <2>2, <2>3, <2>4, <1>c, <1>e
  <2> QED BY <2>2, <2>3, <2>5, <1>g
<1>7. ASSUME NEW w \in Workers, Succeed(w) PROVE Goal
  <2>1. /\ pc[w] = "run" /\ pc' = [pc EXCEPT ![w] = "link"]
        /\ UNCHANGED <<broker, rows, faults, taken, attempt, thrown>>
    BY <1>7 DEF Succeed
  <2>2. taken[w] \in Message
    BY <2>1, <1>l
  <2>3. Mine(w) = Share(chain, k, taken[w])
    BY <2>1 DEF WorkerShare, Mine
  <2>4. Mine2(w) = IF taken[w].job \in chain \ {k} THEN Limit(k) ELSE 0
    BY <2>1, <1>t DEF WorkerShare, Mine2, MessagesOK, Limit
  <2>5. Mine2(w) \in Nat /\ Mine2(w) <= Mine(w)
    BY <2>2, <2>3, <2>4, <1>c, <1>s, <1>m DEF Share
  <2>6. t2 = t
    BY <2>1 DEF t, t2
  <2>7. Mine2(w) + t2 <= Mine(w) + t /\ t2 \in Nat
    BY <2>5, <2>6, <1>c, <1>m
  <2> QED BY <2>1, <2>5, <2>7, <1>6 DEF Busy
<1>8. ASSUME NEW w \in Workers, Throw(w) PROVE Goal
  <2> DEFINE j == taken[w].job
  <2>1. /\ pc[w] = "run" /\ thrown' = [thrown EXCEPT ![j] = @ + 1]
        /\ UNCHANGED <<broker, rows, faults, taken, attempt>>
    BY <1>8 DEF Throw
  <2>2. \E l \in {"hook", "retry"} : pc' = [pc EXCEPT ![w] = l]
    BY <1>8 DEF Throw
  <2>3. /\ taken[w] \in Message /\ j \in Jobs /\ attempt[w] \in 0..MaxTries
        /\ attempt[w] = taken[w].attempts + 1 /\ taken[w].attempts < Limit(j)
        /\ taken[w].attempts \in Nat
    <3>1. taken[w].attempts \in Nat
      BY <2>1, <1>l DEF Message
    <3> QED BY <2>1, <3>1, <1>a, <1>l, <1>t DEF Fitting, Fits, MessagesOK
  <2>4. Mine(w) = Share(chain, k, taken[w])
    BY <2>1 DEF WorkerShare, Mine
  <2>5. NextAttempt(w)' = [taken[w] EXCEPT !.attempts = attempt[w]]
    BY <2>1 DEF NextAttempt
  <2>6. NextAttempt(w)'.job = j /\ NextAttempt(w)'.attempts = attempt[w]
    BY <2>3, <2>5 DEF Message
  <2>7. \/ Mine2(w) = 0
        \/ /\ Mine2(w) = IF j \notin chain THEN 0
                         ELSE IF j = k THEN Rest(k, attempt[w]) ELSE Limit(k)
    BY <2>1, <2>2, <2>6, <1>t DEF WorkerShare, Mine2, MessagesOK, Share, Rest, Limit
  <2>8. t2 \in Nat /\ (j = k => t2 = t + 1) /\ (j # k => t2 = t)
    BY <2>1, <2>3, <1>t DEF t, t2, JobsOK
  <2>9. k \in chain
    BY DEF Line
  <2>10. Mine2(w) \in Nat /\ Mine2(w) + t2 <= Mine(w) + t
    <3>1. CASE j = k
      <4>1. Mine(w) = Limit(k) - taken[w].attempts
        BY <3>1, <2>3, <2>4, <2>9 DEF Share, Rest
      <4>2. Mine2(w) \in Nat /\ Mine2(w) <= Limit(k) - attempt[w]
        BY <3>1, <2>3, <2>7, <2>9, <1>c DEF Rest
      <4> QED BY <3>1, <4>1, <4>2, <2>3, <2>8, <1>c
    <3>2. CASE j # k
      <4>1. Mine2(w) \in Nat /\ Mine2(w) <= Mine(w)
        BY <3>2, <2>3, <2>4, <2>7, <1>c, <1>s, <1>m DEF Share
      <4> QED BY <3>2, <4>1, <2>8, <1>c, <1>m
    <3> QED BY <3>1, <3>2
  <2> QED BY <2>1, <2>2, <2>8, <2>10, <1>6 DEF Busy
<1>9. ASSUME NEW w \in Workers, Defer(w) \/ FailedHook(w) \/ RecordFailed(w) \/ ChainCatch(w)
      PROVE  Goal
  <2>1. UNCHANGED <<broker, rows, faults, taken, attempt, thrown>>
    BY <1>9 DEF Defer, FailedHook, RecordFailed, ChainCatch
  <2>2. \/ pc[w] = "run" /\ pc' = [pc EXCEPT ![w] = "putback"]
        \/ pc[w] # "idle" /\ \E l \in {"record", "catch", "unlock"} : pc' = [pc EXCEPT ![w] = l]
    BY <1>9 DEF Defer, FailedHook, RecordFailed, ChainCatch
  <2>3. Mine2(w) = Mine(w) \/ Mine2(w) = 0
    <3>1. CASE pc[w] = "run" /\ pc' = [pc EXCEPT ![w] = "putback"]
      BY <2>1, <3>1, <1>t DEF WorkerShare, Mine, Mine2, MessagesOK, Share, Rest, Limit
    <3>2. CASE \E l \in {"record", "catch", "unlock"} : pc' = [pc EXCEPT ![w] = l]
      BY <2>1, <3>2, <1>t DEF WorkerShare, Mine2, MessagesOK
    <3> QED BY <2>2, <3>1, <3>2
  <2>4. t2 = t
    BY <2>1 DEF t, t2
  <2>5. Mine2(w) \in Nat /\ Mine2(w) + t2 <= Mine(w) + t
    BY <2>3, <2>4, <1>c, <1>m
  <2> QED BY <2>1, <2>2, <2>4, <2>5, <1>c, <1>6 DEF Busy
<1>10. ASSUME NEW w \in Workers, Retry(w) PROVE Goal
  <2>1. rows' = More(rows, NextAttempt(w)) /\ Finish(w)
    BY <1>10, <1>a, Zenon DEF Retry
  <2>2. pc[w] = "retry" /\ UNCHANGED <<broker, thrown, faults>>
    BY <1>10 DEF Retry
  <2>3. NextAttempt(w) \in Message
    <3>1. taken[w] \in Message /\ attempt[w] \in 0..MaxTries
      BY <2>2, <1>l, <1>t DEF MessagesOK
    <3> QED BY <3>1 DEF NextAttempt, Message
  <2>4. Mine(w) = Share(chain, k, NextAttempt(w))
    BY <2>2 DEF WorkerShare, Mine
  <2>5. Share(chain, k, NextAttempt(w)) <= Mine(w)
    BY <2>3, <2>4, <1>s
  <2> QED BY <2>1, <2>2, <2>3, <2>5, <1>4
<1>11. ASSUME NEW w \in Workers, ReleaseUnique(w) PROVE Goal
  BY <1>11, <1>4 DEF ReleaseUnique
<1>12. ASSUME NEW w \in Workers, NextLink(w) PROVE Goal
  <2> DEFINE j == taken[w].job
             n == Link[j]
  <2>1. /\ pc[w] = "link" /\ pc' = [pc EXCEPT ![w] = "unlock"]
        /\ UNCHANGED <<rows, taken, attempt, thrown, faults>>
    BY <1>12 DEF NextLink
  <2>2. \/ broker' = broker
        \/ n # Null /\ broker' = More(broker, Fresh(n))
    BY <1>12, Zenon DEF NextLink, Advance
  <2>3. j \in Jobs /\ (n # Null => n \in Jobs)
    BY <2>1, <1>l, JobsAssumption
  <2>4. Mine2(w) = 0 /\ Mine(w) = IF j \in chain \ {k} THEN Limit(k) ELSE 0
    BY <2>1, <1>t DEF WorkerShare, Mine, Mine2, MessagesOK
  <2>5. t2 = t
    BY <2>1 DEF t, t2
  <2>6. CASE broker' = broker
    <3>1. Mine2(w) \in Nat /\ Mine2(w) + t2 <= Mine(w) + t
      BY <2>4, <2>5, <1>c, <1>m
    <3> QED BY <2>1, <2>5, <2>6, <3>1, <1>c, <1>6 DEF Busy
  <2>7. CASE n # Null /\ broker' = More(broker, Fresh(n))
    <3>1. FinB /\ b2 = b + Share(chain, k, Fresh(n))
      BY <2>3, <2>7, <1>b, <1>f
    <3>2. \A v \in Workers \ {w} : pc'[v] = pc[v] /\ taken'[v] = taken[v]
                                     /\ attempt'[v] = attempt[v]
      BY <2>1, <1>t DEF MessagesOK
    <3>3. FinH /\ h2 = h - Mine(w) + Mine2(w)
      BY <3>2, <1>w
    <3>4. n \in chain => j \in chain \ {k}
      BY <2>3 DEF Line
    <3>5. Share(chain, k, Fresh(n)) \in Nat /\ Share(chain, k, Fresh(n)) <= Mine(w)
      <4>1. CASE n \in chain
        BY <4>1, <3>4, <2>3, <2>4, <2>7, <1>s, <1>f
      <4>2. CASE n \notin chain
        <5>1. Share(chain, k, Fresh(n)) = 0
          BY <4>2, <2>3, <2>7, <1>f DEF Share
        <5> QED BY <5>1, <1>m
      <4> QED BY <4>1, <4>2
    <3>6. FinR /\ r2 = r /\ cap2 = cap
      BY <2>1, <1>v, <1>e
    <3>7. b2 + r2 + h2 + t2 <= cap2
      BY <2>4, <2>5, <3>1, <3>3, <3>5, <3>6, <1>c, <1>m, <1>e
    <3> QED BY <3>1, <3>3, <3>6, <3>7, <1>g
  <2> QED BY <2>2, <2>6, <2>7
<1>13. ASSUME NEW m \in Message, ReleaseRow(m) PROVE Goal
  <2>1. /\ rows[m] > 0 /\ rows' = Less(rows, m) /\ broker' = More(broker, m)
        /\ UNCHANGED <<worker, thrown, faults>>
    BY <1>13 DEF ReleaseRow
  <2>2. FinB /\ b2 = b + Share(chain, k, m)
    BY <2>1, <1>b
  <2>3. FinR /\ r2 = r - Share(chain, k, m)
    BY <2>1, <1>c, <1>t, BagLoses DEF MessagesOK, Counts, r, r2, FinR
  <2>4. FinH /\ h2 = h /\ t2 = t /\ cap2 = cap
    BY <2>1, <1>q, <1>e DEF t, t2
  <2>5. b2 + r2 + h2 + t2 <= cap2
    BY <2>2, <2>3, <2>4, <1>c, <1>s, <1>e
  <2> QED BY <2>2, <2>3, <2>4, <2>5, <1>g
<1>14. ASSUME NEW m \in Message, broker' = More(broker, m),
              UNCHANGED <<rows, worker, thrown>>, faults' = faults + 1
       PROVE  Goal
  <2>1. FinB /\ b2 = b + Share(chain, k, m)
    BY <1>14, <1>b
  <2>2. FinR /\ FinH /\ r2 = r /\ h2 = h /\ t2 = t /\ cap2 = cap + Limit(k)
    BY <1>14, <1>v, <1>q, <1>e DEF t, t2
  <2>3. b2 + r2 + h2 + t2 <= cap2
    BY <2>1, <2>2, <1>c, <1>s, <1>e
  <2> QED BY <2>1, <2>2, <2>3, <1>g
<1>15. ASSUME NEW w \in Workers, Die(w) \/ StepRaises(w) PROVE Goal
  <2>1. /\ pc[w] # "idle" /\ Finish(w) /\ faults' = faults + 1
        /\ broker' = broker \/ broker' = More(broker, taken[w])
        /\ UNCHANGED <<rows, thrown>>
    BY <1>15 DEF Die, StepRaises
  <2>2. \A v \in Workers \ {w} : pc'[v] = pc[v] /\ taken'[v] = taken[v]
                                   /\ attempt'[v] = attempt[v]
    BY <2>1, <1>t DEF MessagesOK
  <2>3. Mine2(w) = 0
    BY <2>1, <1>t DEF WorkerShare, Mine2, MessagesOK
  <2>4. FinH /\ h2 \in Nat /\ h2 <= h
    BY <2>2, <2>3, <1>w, <1>c, <1>m
  <2>5. FinB /\ b2 \in Nat /\ b2 <= b + Limit(k)
    <3>1. CASE broker' = broker
      BY <3>1, <1>u, <1>c
    <3>2. CASE broker' = More(broker, taken[w])
      <4>1. taken[w] \in Message
        BY <2>1, <1>l
      <4> QED BY <3>2, <4>1, <1>b, <1>s, <1>c
    <3> QED BY <2>1, <3>1, <3>2
  <2>6. FinR /\ r2 = r /\ t2 = t /\ cap2 = cap + Limit(k)
    BY <2>1, <1>v, <1>e DEF t, t2
  <2>7. b2 + r2 + h2 + t2 <= cap2
    BY <2>4, <2>5, <2>6, <1>c, <1>e
  <2> QED BY <2>4, <2>5, <2>6, <2>7, <1>g
<1>16. ASSUME NEW j \in Jobs, AcquireSlot(j) \/ EnqueueRaises(j) PROVE Goal
  BY <1>16, <1>1 DEF AcquireSlot, EnqueueRaises
<1>17. ASSUME NEW m \in Message, ReleaseRowTwice(m) PROVE Goal
  BY <1>17, <1>14 DEF ReleaseRowTwice
<1>18. ASSUME NEW j \in Jobs, RetryFailed(j) PROVE Goal
  BY <1>18, <1>14, <1>f DEF RetryFailed
<1>19. ASSUME BecomeLate \/ UNCHANGED vars PROVE Goal
  <2>1. UNCHANGED <<broker, rows, worker, thrown, faults>>
    BY <1>19 DEF BecomeLate, vars
  <2> QED BY <2>1, <1>1
<1>20. ASSUME SlotExpires PROVE Goal
  <2>1. UNCHANGED <<broker, rows, worker, thrown>> /\ faults' = faults + 1
    BY <1>20 DEF SlotExpires
  <2> QED BY <2>1, <1>1
<1> QED
  <2>1. Goal
    <3>1. CASE \E w \in Workers : Work(w) \/ Defer(w)
      BY <3>1, <1>5, <1>7, <1>8, <1>9, <1>10, <1>11, <1>12 DEF Work
    <3>2. CASE Trouble
      BY <3>2, <1>15, <1>16, <1>17, <1>18, <1>20 DEF Trouble
    <3> QED
      BY <3>1, <3>2, <1>2, <1>3, <1>13, <1>16, <1>19 DEF Next
  <2> QED BY <2>1 DEF Goal, cap2

\* With a database, the attempts of a job that raise stay within its tries and
\* max_exceptions, whatever parks, defers or releases it between them, and a
\* doubled message or a manual retry grants one more budget.
THEOREM BudgetHonoured == Spec => []RetryBudget
<1>1. Spec => [](/\ TypeOK /\ AttemptsLeft /\ Story /\ HeadFirst
                 /\ Fitting /\ BudgetInv)
  BY TypeInit, StoryInit, CountInit, BudgetInit, TypeNext, StoryNext, HeadFirstNext, FitNext,
     BudgetNext, PTL DEF Spec
<1>2. ASSUME TypeOK, BudgetInv PROVE RetryBudget
  <2> SUFFICES ASSUME bound, NEW j \in Jobs PROVE thrown[j] <= Limit(j) * (1 + faults)
    BY DEF RetryBudget
  <2>1. PICK chain \in SUBSET Jobs : Line(chain, j)
    BY ChainsAssumption
  <2> DEFINE b == Weight(BagShares(broker, chain, j))
             r == Weight(BagShares(rows, chain, j))
             h == Weight(WorkerShares(chain, j))
             cap == Limit(j) * (1 + faults)
  <2>2. Counts(chain, j) /\ b + r + h + thrown[j] <= cap
    BY <1>2, <2>1 DEF BudgetInv, Budget
  <2>3. b \in Nat /\ r \in Nat /\ h \in Nat
    BY <2>2, FS_CardinalityType DEF Counts, Weight
  <2>4. thrown[j] \in Nat /\ faults \in Nat /\ Limit(j) \in Nat
    BY <1>2, TypeParts, LimitType DEF JobsOK
  <2>5. cap \in Nat
    BY <2>4
  <2> HIDE DEF b, r, h, cap
  <2>6. thrown[j] <= cap
    BY <2>2, <2>3, <2>4, <2>5
  <2> QED BY <2>6 DEF cap
<1>3. TypeOK /\ BudgetInv => RetryBudget
  BY <1>2
<1> QED BY <1>1, <1>3, PTL
=============================================================================
