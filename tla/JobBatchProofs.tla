--------------------------- MODULE JobBatchProofs ---------------------------
(***************************************************************************)
(* Theorems about job batches, for every batch and any number of deaths,   *)
(* redeliveries, manual retries and raising callbacks.                     *)
(***************************************************************************)
EXTENDS JobBatch, FiniteSetTheorems, TLAPS

USE DEF row, callbacks, worker, history, Goto, Fault

-----------------------------------------------------------------------------
(* Type correctness.                                                       *)

\* The two halves of TypeOK: Boolean columns, and everything else.
FlagsOK ==
    /\ allowFailures \in BOOLEAN
    /\ cancelled \in BOOLEAN
    /\ finished \in BOOLEAN
    /\ userCancelled \in BOOLEAN
    /\ broken \in BOOLEAN

DataOK ==
    /\ dispatcher \in {"new", "empty", "pushing", "done", "failed"}
    /\ members \subseteq Jobs
    /\ pending \in Int
    /\ failed \in Nat
    /\ pc \in [Jobs -> Labels]
    /\ outcome \in [Jobs -> {"none", "skipped", "succeeded", "failed"}]
    /\ seen \in [Jobs -> Int]
    /\ thenRuns \in Nat /\ catchRuns \in Nat /\ finallyRuns \in Nat
    /\ counted \in [Jobs -> Nat]
    /\ faults \in 0..MaxFaults

LEMMA TypeParts == TypeOK <=> FlagsOK /\ DataOK
  BY DEF TypeOK, FlagsOK, DataOK

LEMMA TypeInit == Init => TypeOK
<1> SUFFICES ASSUME Init PROVE FlagsOK /\ DataOK
  BY TypeParts
<1>1. FlagsOK
  BY Zenon DEF Init, FlagsOK
<1>2. DataOK
  BY JobsAssumption DEF Init, DataOK, Labels
<1> QED BY <1>1, <1>2

\* A flag is kept or becomes TRUE.
LEMMA FlagsNext == FlagsOK /\ [Next]_vars => FlagsOK'
<1> SUFFICES ASSUME FlagsOK, [Next]_vars PROVE FlagsOK'
  OBVIOUS
<1> USE DEF FlagsOK
<1>1. CASE Dispatch \/ PushRaises \/ UserCancel
  BY <1>1, Zenon DEF Dispatch, CreateRow, FinalizeEmpty, PushMember, PushRaises, UserCancel
<1>2. ASSUME NEW j \in Jobs, Begin(j) \/ Execute(j) \/ Record(j) \/ Reread(j)
      PROVE FlagsOK'
  BY <1>2, Zenon DEF Begin, Execute, Record, Reread
<1>3. ASSUME NEW j \in Jobs,
             CancelOnce(j) \/ RunCatch(j) \/ CheckCancelled(j) \/ RunThen(j) \/ RunFinally(j)
      PROVE FlagsOK'
  BY <1>3, Zenon DEF CancelOnce, RunCatch, CheckCancelled, RunThen, RunFinally
<1>4. ASSUME NEW j \in Jobs, FinishOnce(j) PROVE FlagsOK'
  <2>1. (finished \/ FinishesBatch(j)) \in BOOLEAN
    BY Zenon
  <2> QED BY <1>4, <2>1, Zenon DEF FinishOnce
<1>5. ASSUME NEW j \in Jobs, Redeliver(j) \/ Lose(j) \/ RetryFailed(j) \/ CallbackRaises(j)
      PROVE FlagsOK'
  BY <1>5, Zenon DEF Redeliver, Lose, RetryFailed, CallbackRaises
<1>6. CASE UNCHANGED vars
  BY <1>6, Zenon DEF vars
<1> QED BY <1>1, <1>2, <1>3, <1>4, <1>5, <1>6 DEF Next, Settle

LEMMA DataNext == DataOK /\ [Next]_vars => DataOK'
<1> SUFFICES ASSUME DataOK, [Next]_vars PROVE DataOK'
  OBVIOUS
<1> USE DEF DataOK, Labels
<1>1. CASE CreateRow
  <2>1. members' \in SUBSET Jobs /\ pending' \in Nat
    BY <1>1, JobsAssumption, FS_Subset, FS_CardinalityType DEF CreateRow
  <2> QED BY <1>1, <2>1 DEF CreateRow
<1>2. CASE FinalizeEmpty \/ UserCancel
  BY <1>2 DEF FinalizeEmpty, UserCancel
<1>3. CASE PushRaises
  BY <1>3, JobsAssumption DEF PushRaises
<1>4. ASSUME NEW j \in Jobs, PushMember(j) \/ Begin(j) \/ Execute(j) PROVE DataOK'
  BY <1>4 DEF PushMember, Begin, Execute
<1>5. ASSUME NEW j \in Jobs, Record(j) PROVE DataOK'
  BY <1>5 DEF Record, Settled, Failure
<1>6. ASSUME NEW j \in Jobs, Reread(j) PROVE DataOK'
  BY <1>6 DEF Reread
<1>7. ASSUME NEW j \in Jobs, CancelOnce(j) PROVE DataOK'
  BY <1>7 DEF CancelOnce, CatchIfWon
<1>8. ASSUME NEW j \in Jobs, RunCatch(j) \/ RunThen(j) \/ RunFinally(j) PROVE DataOK'
  BY <1>8 DEF RunCatch, RunThen, RunFinally
<1>c. ASSUME NEW j \in Jobs, CheckCancelled(j) PROVE DataOK'
  <2>1. \E l \in {"then", "finally"} : pc' = [pc EXCEPT ![j] = l]
    BY <1>c, Zenon DEF CheckCancelled
  <2> QED BY <1>c, <2>1 DEF CheckCancelled
<1>9. ASSUME NEW j \in Jobs, FinishOnce(j) PROVE DataOK'
  <2>1. \E l \in {"check", "settled"} : pc' = [pc EXCEPT ![j] = l]
    BY <1>9, Zenon DEF FinishOnce
  <2> QED BY <1>9, <2>1 DEF FinishOnce
<1>10. ASSUME NEW j \in Jobs, Redeliver(j) PROVE DataOK'
  BY <1>10, JobsAssumption DEF Redeliver
<1>11. ASSUME NEW j \in Jobs, RetryFailed(j) PROVE DataOK'
  BY <1>11, JobsAssumption DEF RetryFailed
<1>12. ASSUME NEW j \in Jobs, Lose(j) \/ CallbackRaises(j) PROVE DataOK'
  BY <1>12, JobsAssumption DEF Lose, CallbackRaises
<1>13. CASE UNCHANGED vars
  BY <1>13 DEF vars
<1> QED
  BY <1>1, <1>2, <1>3, <1>4, <1>5, <1>6, <1>7, <1>8, <1>c, <1>9, <1>10, <1>11, <1>12, <1>13
  DEF Next, Dispatch, Settle

LEMMA TypeNext == TypeOK /\ [Next]_vars => TypeOK'
<1>1. FlagsOK' /\ DataOK' => TypeOK'
  BY DEF TypeOK, FlagsOK, DataOK
<1> QED BY <1>1, TypeParts, FlagsNext, DataNext

\* The row's columns and the workers' locals always have their types.
THEOREM BatchTypeCorrect == Spec => []TypeOK
  BY TypeInit, TypeNext, PTL DEF Spec

-----------------------------------------------------------------------------
(* Each callback runs at most once.                                        *)

\* Whoever is about to run catch flipped cancelled_at, and is alone.
CatchInv ==
    /\ catchRuns <= 1
    /\ catchRuns > 0 => cancelled
    /\ \A j \in Jobs : pc[j] = "catch" => cancelled /\ catchRuns = 0
    /\ \A j, k \in Jobs : pc[j] = "catch" /\ pc[k] = "catch" => j = k

Finishing == {"check", "then", "finally"}

\* Whoever is about to run then or finally stamped finished_at, and is alone.
FinishInv ==
    /\ thenRuns <= 1 /\ finallyRuns <= 1
    /\ thenRuns > 0 \/ finallyRuns > 0 => finished
    /\ \A j \in Jobs : pc[j] \in Finishing => finished /\ finallyRuns = 0
    /\ \A j \in Jobs : pc[j] \in {"check", "then"} => thenRuns = 0
    /\ \A j, k \in Jobs : pc[j] \in Finishing /\ pc[k] \in Finishing => j = k

\* Before the members are pushed nobody works on the batch.
QuietInv ==
    dispatcher \in {"new", "empty"} =>
        ~finished /\ catchRuns = 0 /\ \A j \in Jobs : pc[j] = "unpushed"

OnceInv == CatchInv /\ FinishInv /\ QuietInv

LEMMA OnceNext == TypeOK /\ OnceInv /\ [Next]_vars => OnceInv'
<1> SUFFICES ASSUME TypeOK, OnceInv, [Next]_vars PROVE OnceInv'
  OBVIOUS
<1> USE DEF TypeOK, Labels, OnceInv, CatchInv, FinishInv, QuietInv, Finishing
<1>1. CASE CreateRow \/ FinalizeEmpty \/ PushRaises \/ UserCancel
  BY <1>1 DEF CreateRow, FinalizeEmpty, PushRaises, UserCancel
<1>2. ASSUME NEW j \in Jobs, PushMember(j) \/ Begin(j) \/ Execute(j) PROVE OnceInv'
  BY <1>2 DEF PushMember, Begin, Execute
<1>3. ASSUME NEW j \in Jobs, Record(j) \/ Reread(j) PROVE OnceInv'
  BY <1>3 DEF Record, Reread
<1>4. ASSUME NEW j \in Jobs, CancelOnce(j) PROVE OnceInv'
  BY <1>4 DEF CancelOnce, CatchIfWon
<1>5. ASSUME NEW j \in Jobs, RunCatch(j) PROVE OnceInv'
  BY <1>5 DEF RunCatch
<1>6. ASSUME NEW j \in Jobs, FinishOnce(j) PROVE OnceInv'
  <2>1. CASE FinishesBatch(j)
    <3>1. ~finished /\ finished'
      BY <1>6, <2>1, Zenon DEF FinishOnce, FinishesBatch
    <3>2. pc' = [pc EXCEPT ![j] = "check"]
      BY <1>6, <2>1, Zenon DEF FinishOnce
    <3>3. CatchInv' /\ QuietInv'
      BY <1>6, <3>2 DEF FinishOnce
    <3>4. thenRuns = 0 /\ finallyRuns = 0 /\ \A k \in Jobs : pc[k] \notin Finishing
      BY <3>1
    <3>5. FinishInv'
      BY <1>6, <3>1, <3>2, <3>4 DEF FinishOnce
    <3> QED BY <3>3, <3>5
  <2>2. CASE ~FinishesBatch(j)
    <3>1. finished => finished'
      BY <1>6, Zenon DEF FinishOnce
    <3>2. pc' = [pc EXCEPT ![j] = "settled"]
      BY <1>6, <2>2, Zenon DEF FinishOnce
    <3> QED BY <1>6, <3>1, <3>2 DEF FinishOnce
  <2> QED BY <2>1, <2>2
<1>c. ASSUME NEW j \in Jobs, CheckCancelled(j) PROVE OnceInv'
  <2>1. \E l \in {"then", "finally"} : pc' = [pc EXCEPT ![j] = l]
    BY <1>c, Zenon DEF CheckCancelled
  <2> QED BY <1>c, <2>1 DEF CheckCancelled
<1>7. ASSUME NEW j \in Jobs, RunThen(j) \/ RunFinally(j) PROVE OnceInv'
  BY <1>7 DEF RunThen, RunFinally
<1>8. ASSUME NEW j \in Jobs, Redeliver(j) \/ Lose(j) \/ RetryFailed(j) \/ CallbackRaises(j)
      PROVE OnceInv'
  BY <1>8 DEF Redeliver, Lose, RetryFailed, CallbackRaises
<1>9. CASE UNCHANGED vars
  BY <1>9 DEF vars
<1> QED
  BY <1>1, <1>2, <1>3, <1>4, <1>5, <1>6, <1>c, <1>7, <1>8, <1>9 DEF Next, Dispatch, Settle

LEMMA OnceInit == Init => OnceInv
  BY DEF Init, OnceInv, CatchInv, FinishInv, QuietInv, Finishing

\* No callback runs twice, whatever is delivered again, retried or racing.
THEOREM BatchCallbacksOnce == Spec => []CallbacksAtMostOnce
<1>1. Spec => [](TypeOK /\ OnceInv)
  BY TypeInit, OnceInit, TypeNext, OnceNext, PTL DEF Spec
<1>2. OnceInv => CallbacksAtMostOnce
  BY DEF OnceInv, CatchInv, FinishInv, CallbacksAtMostOnce
<1> QED BY <1>1, <1>2, PTL

\* Cancelled, not yet stamped: whoever stamps it will find it cancelled.
Barred ==
    /\ cancelled /\ members # {} /\ dispatcher \notin {"new", "empty"}
    /\ thenRuns = 0 /\ \A j \in Jobs : pc[j] # "then"

\* Only an empty batch is finalized by its dispatcher.
NonemptyInv ==
    /\ dispatcher = "new" => ~cancelled
    /\ dispatcher = "empty" => members = {}

LEMMA NonemptyNext == TypeOK /\ OnceInv /\ NonemptyInv /\ [Next]_vars => NonemptyInv'
<1> SUFFICES ASSUME TypeOK, OnceInv, NonemptyInv, [Next]_vars PROVE NonemptyInv'
  OBVIOUS
<1> USE DEF NonemptyInv
<1>1. CASE CreateRow
  <2>1. dispatcher' = "pushing" \/ (dispatcher' = "empty" /\ members' = {})
    BY <1>1, Zenon DEF CreateRow
  <2> QED BY <2>1
<1>2. CASE FinalizeEmpty \/ PushRaises \/ UserCancel
  BY <1>2 DEF FinalizeEmpty, PushRaises, UserCancel
<1>3. ASSUME NEW j \in Jobs, PushMember(j) PROVE NonemptyInv'
  <2>1. dispatcher' = "pushing" \/ dispatcher' = "done"
    BY <1>3, Zenon DEF PushMember
  <2> QED BY <2>1
<1>4. ASSUME NEW j \in Jobs, CancelOnce(j) PROVE NonemptyInv'
  <2>1. dispatcher # "new" /\ UNCHANGED <<dispatcher, members>>
    BY <1>4 DEF CancelOnce, OnceInv, QuietInv
  <2> QED BY <2>1
<1>5. ASSUME NEW j \in Jobs,
             Begin(j) \/ Execute(j) \/ Record(j) \/ Reread(j) \/ RunCatch(j) \/ FinishOnce(j)
      PROVE  NonemptyInv'
  BY <1>5 DEF Begin, Execute, Record, Reread, RunCatch, FinishOnce
<1>6. ASSUME NEW j \in Jobs, CheckCancelled(j) \/ RunThen(j) \/ RunFinally(j) PROVE NonemptyInv'
  BY <1>6 DEF CheckCancelled, RunThen, RunFinally
<1>7. ASSUME NEW j \in Jobs, Redeliver(j) \/ Lose(j) \/ RetryFailed(j) \/ CallbackRaises(j)
      PROVE NonemptyInv'
  BY <1>7 DEF Redeliver, Lose, RetryFailed, CallbackRaises
<1>8. CASE UNCHANGED vars
  BY <1>8 DEF vars
<1> QED
  BY <1>1, <1>2, <1>3, <1>4, <1>5, <1>6, <1>7, <1>8 DEF Next, Dispatch, Settle

LEMMA BarredNext == TypeOK /\ Barred /\ [Next]_vars => Barred'
<1> SUFFICES ASSUME TypeOK, Barred, [Next]_vars PROVE Barred'
  OBVIOUS
<1> USE DEF TypeOK, Labels, Barred
<1>1. CASE CreateRow \/ FinalizeEmpty \/ PushRaises \/ UserCancel
  BY <1>1 DEF CreateRow, FinalizeEmpty, PushRaises, UserCancel
<1>2. ASSUME NEW j \in Jobs, PushMember(j) PROVE Barred'
  <2>1. dispatcher' = "pushing" \/ dispatcher' = "done"
    BY <1>2, Zenon DEF PushMember
  <2> QED BY <1>2, <2>1 DEF PushMember
<1>3. ASSUME NEW j \in Jobs, Begin(j) \/ Execute(j) \/ Record(j) \/ Reread(j) PROVE Barred'
  BY <1>3 DEF Begin, Execute, Record, Reread
<1>4. ASSUME NEW j \in Jobs, CancelOnce(j) PROVE Barred'
  BY <1>4 DEF CancelOnce, CatchIfWon
<1>5. ASSUME NEW j \in Jobs, FinishOnce(j) PROVE Barred'
  <2>1. \E l \in {"check", "settled"} : pc' = [pc EXCEPT ![j] = l]
    BY <1>5, Zenon DEF FinishOnce
  <2> QED BY <1>5, <2>1 DEF FinishOnce
<1>6. ASSUME NEW j \in Jobs, CheckCancelled(j) PROVE Barred'
  <2>1. pc' = [pc EXCEPT ![j] = "finally"]
    BY <1>6, Zenon DEF CheckCancelled, NotCancelled
  <2> QED BY <1>6, <2>1 DEF CheckCancelled
<1>7. ASSUME NEW j \in Jobs, RunCatch(j) \/ RunThen(j) \/ RunFinally(j) PROVE Barred'
  BY <1>7 DEF RunCatch, RunThen, RunFinally
<1>8. ASSUME NEW j \in Jobs, Redeliver(j) \/ Lose(j) \/ RetryFailed(j) \/ CallbackRaises(j)
      PROVE Barred'
  BY <1>8 DEF Redeliver, Lose, RetryFailed, CallbackRaises
<1>9. CASE UNCHANGED vars
  BY <1>9 DEF vars
<1> QED
  BY <1>1, <1>2, <1>3, <1>4, <1>5, <1>6, <1>7, <1>8, <1>9 DEF Next, Dispatch, Settle

\* A batch that is cancelled before it is stamped finished never runs then, with any
\* number of members settling, delivered again and retried.
THEOREM CancelledFirstBarsThen == Spec => NoThenIfCancelledFirst
<1>1. TypeOK /\ OnceInv /\ NonemptyInv /\ cancelled /\ ~finished /\ members # {} => Barred
  BY DEF TypeOK, OnceInv, FinishInv, NonemptyInv, Finishing, Barred
<1>2. Init => NonemptyInv
  BY DEF Init, NonemptyInv
<1>3. Spec => [](TypeOK /\ OnceInv /\ NonemptyInv)
  BY <1>2, TypeInit, OnceInit, TypeNext, OnceNext, NonemptyNext, PTL DEF Spec
<1>4. Barred => thenRuns = 0
  BY DEF Barred
<1> DEFINE P == cancelled /\ ~finished /\ members # {}
           Q == thenRuns = 0
<1>5. TypeOK /\ OnceInv /\ NonemptyInv /\ P => Barred
  BY <1>1
<1>6. Barred => Q
  BY <1>4
<1> HIDE DEF P, Q
<1>7. Spec => [](P => []Q)
  BY <1>3, <1>5, <1>6, BarredNext, PTL DEF Spec
<1> QED BY <1>7 DEF P, Q, NoThenIfCancelledFirst

-----------------------------------------------------------------------------
(* A batch finishes on its last outcome.                                   *)

CountedMembers == {j \in members : counted[j] = 1}

\* pending_jobs is the number of members not counted yet; a worker's copy is
\* never below it; the stamp is set only when nothing is pending.
CountInv ==
    /\ \A j \in Jobs : pc[j] # "unpushed" \/ counted[j] > 0 => j \in members
    /\ dispatcher = "new" => members = {} /\ \A j \in Jobs : counted[j] = 0
    /\ AppliedOnce => pending = Cardinality(members) - Cardinality(CountedMembers)
    /\ \A j \in Jobs : pc[j] \in {"cancel", "catch", "finish"} => pending <= seen[j]
    /\ dispatcher = "empty" => pending = 0
    /\ finished => pending <= 0

Watching == {"cancel", "catch", "finish"}

\* A worker that moves on without touching the row or its copy keeps CountInv.
LEMMA CountMove ==
  ASSUME TypeOK, CountInv, NEW j \in Jobs, j \in members,
         NEW l \in Labels, l \in Watching => pc[j] \in Watching,
         pc' = [pc EXCEPT ![j] = l],
         dispatcher = "empty" => dispatcher' = "empty",
         dispatcher' \in {"new", "empty"} => dispatcher' = dispatcher,
         UNCHANGED <<members, pending, finished, seen, counted>>
  PROVE  CountInv'
<1>1. CountedMembers' = CountedMembers
  BY DEF CountedMembers
<1>2. AppliedOnce' <=> AppliedOnce
  BY DEF AppliedOnce
<1> QED BY <1>1, <1>2 DEF TypeOK, CountInv, Watching

LEMMA CountNext == TypeOK /\ OnceInv /\ CountInv /\ [Next]_vars => CountInv'
<1> SUFFICES ASSUME TypeOK, OnceInv, CountInv, [Next]_vars PROVE CountInv'
  OBVIOUS
<1>f. IsFiniteSet(members) /\ IsFiniteSet(CountedMembers)
      /\ Cardinality(members) \in Nat /\ Cardinality(CountedMembers) \in Nat
  <2>1. members \subseteq Jobs /\ CountedMembers \subseteq members
    BY DEF TypeOK, CountedMembers
  <2>2. IsFiniteSet(members) /\ IsFiniteSet(CountedMembers)
    BY <2>1, JobsAssumption, FS_Subset
  <2> QED BY <2>2, FS_CardinalityType
<1>m. \A j \in Jobs : pc[j] # "unpushed" => j \in members
  BY DEF CountInv
<1> USE DEF Watching, Labels
<1>1. CASE CreateRow
  <2> USE DEF TypeOK, CountInv, AppliedOnce
  <2>1. CountedMembers' = {}
    BY <1>1 DEF CreateRow, CountedMembers
  <2>2. Cardinality(CountedMembers') = 0
    BY <2>1, FS_EmptySet
  <2>3. IsFiniteSet(members') /\ Cardinality(members') \in Nat
    BY <1>1, JobsAssumption, FS_Subset, FS_CardinalityType DEF CreateRow
  <2>4. members' = {} => pending' = 0
    BY <1>1, FS_EmptySet DEF CreateRow
  <2> QED BY <1>1, <2>2, <2>3, <2>4 DEF CreateRow, OnceInv, QuietInv
<1>2. CASE FinalizeEmpty \/ PushRaises \/ UserCancel
  <2>1. CountedMembers' = CountedMembers /\ (AppliedOnce' <=> AppliedOnce)
    BY <1>2 DEF FinalizeEmpty, PushRaises, UserCancel, CountedMembers, AppliedOnce
  <2> QED BY <1>2, <2>1 DEF FinalizeEmpty, PushRaises, UserCancel, TypeOK, CountInv
<1>3. ASSUME NEW j \in Jobs, PushMember(j) PROVE CountInv'
  BY <1>3, CountMove DEF PushMember
<1>4. ASSUME NEW j \in Jobs, Begin(j) \/ Execute(j) PROVE CountInv'
  <2>1. \E l \in {"record", "running"} : pc' = [pc EXCEPT ![j] = l]
    BY <1>4, Zenon DEF Begin, Execute
  <2>2. pc[j] # "unpushed"
        /\ UNCHANGED <<dispatcher, members, pending, finished, seen, counted>>
    BY <1>4 DEF Begin, Execute
  <2> QED BY <2>1, <2>2, <1>m, CountMove
<1>5. ASSUME NEW j \in Jobs, Record(j) PROVE CountInv'
  <2> USE DEF TypeOK, CountInv, AppliedOnce
  <2>1. pending' = pending - 1 /\ j \in members
    BY <1>5 DEF Record, Settled
  <2>2. AppliedOnce' => AppliedOnce /\ counted[j] = 0
    BY <1>5 DEF Record
  <2>3. counted[j] = 0 => CountedMembers' = CountedMembers \cup {j} /\ j \notin CountedMembers
    BY <1>5, <2>1 DEF Record, CountedMembers
  <2>4. counted[j] = 0 => Cardinality(CountedMembers') = Cardinality(CountedMembers) + 1
    BY <2>3, <1>f, FS_AddElement
  <2>5. AppliedOnce' => pending' = Cardinality(members) - Cardinality(CountedMembers')
    BY <1>f, <2>1, <2>2, <2>4
  <2>6. UNCHANGED <<dispatcher, members, finished, seen>>
        /\ pc' = [pc EXCEPT ![j] = "reread"]
        /\ counted' = [counted EXCEPT ![j] = @ + 1]
    BY <1>5 DEF Record
  <2>7. dispatcher # "new"
    BY <2>1
  <2>8. dispatcher # "empty"
    BY <1>5 DEF Record, OnceInv, QuietInv
  <2>9. (\A k \in Jobs : pc[k] \in Watching => pending <= seen[k])'
    BY <2>1, <2>6
  <2>10. finished' => pending' <= 0
    BY <2>1, <2>6
  <2>11. (\A k \in Jobs : pc[k] # "unpushed" \/ counted[k] > 0 => k \in members)'
    BY <2>1, <2>6
  <2> QED BY <2>5, <2>6, <2>7, <2>8, <2>9, <2>10, <2>11
<1>6. ASSUME NEW j \in Jobs, Reread(j) PROVE CountInv'
  BY <1>6 DEF Reread, CountedMembers, TypeOK, CountInv, AppliedOnce
<1>7. ASSUME NEW j \in Jobs, CancelOnce(j) PROVE CountInv'
  <2>1. CatchIfWon \in {"catch", "finish"}
    BY Zenon DEF CatchIfWon
  <2>2. pc' = [pc EXCEPT ![j] = CatchIfWon] /\ pc[j] = "cancel"
        /\ UNCHANGED <<dispatcher, members, pending, finished, seen, counted>>
    BY <1>7 DEF CancelOnce
  <2> QED BY <2>1, <2>2, <1>m, CountMove
<1>8. ASSUME NEW j \in Jobs, RunCatch(j) PROVE CountInv'
  BY <1>8, <1>m, CountMove DEF RunCatch
<1>9. ASSUME NEW j \in Jobs, FinishOnce(j) PROVE CountInv'
  <2> USE DEF TypeOK, CountInv, AppliedOnce
  <2>1. \E l \in {"check", "settled"} : pc' = [pc EXCEPT ![j] = l]
    BY <1>9, Zenon DEF FinishOnce
  <2>2. UNCHANGED <<dispatcher, members, pending, counted>>
        /\ pc[j] = "finish" /\ seen' = [seen EXCEPT ![j] = 0]
    BY <1>9 DEF FinishOnce
  <2>3. finished' => finished \/ seen[j] <= 0
    BY <1>9, Zenon DEF FinishOnce, FinishesBatch
  <2>4. finished' => pending' <= 0
    BY <2>2, <2>3
  <2>5. CountedMembers' = CountedMembers
    BY <2>2 DEF CountedMembers
  <2> QED BY <2>1, <2>2, <2>4, <2>5
<1>10. ASSUME NEW j \in Jobs, RunThen(j) \/ RunFinally(j) PROVE CountInv'
  <2>1. \E l \in {"finally", "settled"} : pc' = [pc EXCEPT ![j] = l]
    BY <1>10 DEF RunThen, RunFinally
  <2>2. pc[j] # "unpushed"
        /\ UNCHANGED <<dispatcher, members, pending, finished, seen, counted>>
    BY <1>10 DEF RunThen, RunFinally
  <2> QED BY <2>1, <2>2, <1>m, CountMove
<1>c. ASSUME NEW j \in Jobs, CheckCancelled(j) PROVE CountInv'
  <2>1. \E l \in {"then", "finally"} : pc' = [pc EXCEPT ![j] = l]
    BY <1>c, Zenon DEF CheckCancelled
  <2>2. pc[j] # "unpushed"
        /\ UNCHANGED <<dispatcher, members, pending, finished, seen, counted>>
    BY <1>c DEF CheckCancelled
  <2> QED BY <2>1, <2>2, <1>m, CountMove
<1>11. ASSUME NEW j \in Jobs, Redeliver(j) \/ Lose(j) \/ RetryFailed(j) \/ CallbackRaises(j)
       PROVE CountInv'
  <2>1. \E l \in {"queued", "settled"} : pc' = [pc EXCEPT ![j] = l]
    BY <1>11 DEF Redeliver, Lose, RetryFailed, CallbackRaises
  <2>2. pc[j] # "unpushed"
        /\ UNCHANGED <<dispatcher, members, pending, finished, seen, counted>>
    BY <1>11 DEF Redeliver, Lose, RetryFailed, CallbackRaises
  <2> QED BY <2>1, <2>2, <1>m, CountMove
<1>12. CASE UNCHANGED vars
  BY <1>12 DEF vars, CountedMembers, CountInv, AppliedOnce
<1> QED
  BY <1>1, <1>2, <1>3, <1>4, <1>5, <1>6, <1>7, <1>8, <1>9, <1>10, <1>c, <1>11, <1>12
  DEF Next, Dispatch, Settle

LEMMA CountInit == Init => CountInv
<1> SUFFICES ASSUME Init PROVE CountInv
  OBVIOUS
<1>1. CountedMembers = {} /\ Cardinality(members) = 0
  BY FS_EmptySet DEF Init, CountedMembers
<1>2. Cardinality(CountedMembers) = 0
  BY <1>1, FS_EmptySet
<1> QED BY <1>1, <1>2 DEF Init, CountInv, AppliedOnce

\* As long as no outcome is applied twice, a finished batch has the outcome of
\* every member.
THEOREM BatchFinishesLast == Spec => []FinishedMeansSettled
<1>1. Spec => [](TypeOK /\ OnceInv /\ CountInv)
  BY TypeInit, OnceInit, CountInit, TypeNext, OnceNext, CountNext, PTL DEF Spec
<1>2. ASSUME TypeOK, CountInv, finished, AppliedOnce
      PROVE  \A j \in members : counted[j] = 1
  <2>1. members \subseteq Jobs /\ CountedMembers \subseteq members
    BY <1>2 DEF TypeOK, CountedMembers
  <2>2. IsFiniteSet(members)
    BY <2>1, JobsAssumption, FS_Subset
  <2>3. Cardinality(members) \in Nat /\ Cardinality(CountedMembers) \in Nat
        /\ Cardinality(CountedMembers) <= Cardinality(members)
    BY <2>1, <2>2, FS_Subset, FS_CardinalityType
  <2>4. Cardinality(members) = Cardinality(CountedMembers)
    BY <1>2, <2>3 DEF CountInv
  <2>5. members = CountedMembers
    BY <2>1, <2>2, <2>4, FS_Subset
  <2> QED BY <2>5 DEF CountedMembers
<1>3. TypeOK /\ OnceInv /\ CountInv => FinishedMeansSettled
  BY <1>2 DEF FinishedMeansSettled
<1> QED BY <1>1, <1>3, PTL

=============================================================================
