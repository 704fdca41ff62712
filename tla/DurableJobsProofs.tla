------------------------- MODULE DurableJobsProofs -------------------------
(***************************************************************************)
(* Theorems about the durable jobs table, for every set of workers and     *)
(* jobs, every window and every bound.                                     *)
(***************************************************************************)
EXTENDS DurableJobs, FiniteSetTheorems, TLAPS

USE DEF Second, DueSecond, SameDeadline, Unreserved, DueRows

-----------------------------------------------------------------------------
(* The inductive invariants: the type invariant with what a program point  *)
(* says of the worker's locals, then one invariant per property.           *)

\* Inside a pass the moment is known and past; inside the claimed section the
\* worker has a row.
LocalsOK(w) ==
    /\ pc[w] # "idle" => moment[w] \in Second /\ moment[w] <= clock.sec
    /\ pc[w] \in Holding => cur[w] \in stored /\ cur[w] \in Jobs
    /\ due[w] \subseteq stored

TypeInv == TypeOK /\ \A w \in Workers : LocalsOK(w)

-----------------------------------------------------------------------------
(* Lemmas about instants.                                                  *)

\* Adding a delay to an instant gives an instant, not before either of them.
LEMMA PlusType ==
    ASSUME NEW t \in Instant, NEW d \in Instant
    PROVE  /\ Plus(t, d) \in Instant
           /\ Plus(t, d).sec >= t.sec + d.sec
  BY ClockAssumption DEF Plus, Instant

\* Rounding the delay up makes up for every carry out of the sub-second part.
LEMMA CeilCoversCarry ==
    ASSUME NEW t \in Instant, NEW d \in Instant
    PROVE  /\ CeilSeconds(d) \in Nat
           /\ Plus(t, d).sec <= t.sec + CeilSeconds(d)
  BY ClockAssumption DEF Plus, Instant, CeilSeconds

LEMMA WindowType ==
    ASSUME NEW j \in Jobs
    PROVE  /\ Window(j) \in Nat
           /\ SureWindow(j) \in Nat
           /\ SureWindow(j) <= RetryAfter
           /\ SureWindow(j) <= Window(j)
           /\ Override[j] # Null => Override[j] \in Nat /\ Window(j) = Override[j]
  BY JobsAssumption, ClockAssumption DEF Window, SureWindow

\* Every step keeps the second hand from going back.
LEMMA TickType ==
    ASSUME clock \in Instant, Tick
    PROVE  clock' \in Instant /\ clock'.sec >= clock.sec
<1>1. [sec |-> 1, sub |-> 0] \in Instant
  BY ClockAssumption DEF Instant
<1>2. SubSecond # 1 => [sec |-> 0, sub |-> 1] \in Instant
  BY ClockAssumption DEF Instant
<1> QED BY <1>1, <1>2, PlusType DEF Tick, Instant

-----------------------------------------------------------------------------
(* Type correctness.                                                       *)

LEMMA TypeInit == Init => TypeInv
  BY JobsAssumption, ClockAssumption
  DEF Init, TypeInv, TypeOK, LocalsOK, Instant, Labels, Holding

LEMMA TypeNext == TypeInv /\ [Next]_vars => TypeInv'
<1> SUFFICES ASSUME TypeInv, [Next]_vars PROVE TypeInv'
  OBVIOUS
<1> USE DEF TypeInv, TypeOK, LocalsOK, Labels, Holding, table, pass, history, Goto
<1>1. CASE Tick
  <2>1. clock' \in Instant /\ clock'.sec >= clock.sec
    BY <1>1, TickType
  <2>2. clock.sec \in Nat /\ clock'.sec \in Nat
    BY <2>1 DEF Instant
  <2> QED BY <1>1, <2>1, <2>2 DEF Tick
<1>2. ASSUME NEW j \in Jobs, Store(j) PROVE TypeInv'
  <2>1. PICK delay \in Delays :
            /\ availableAt' = [availableAt EXCEPT ![j] = DueSecond(delay)]
            /\ notBefore' = [notBefore EXCEPT ![j] = Plus(clock, delay)]
    BY <1>2 DEF Store
  <2>2. delay \in Instant
    BY ClockAssumption
  <2>3. CeilSeconds(delay) \in Nat /\ Plus(clock, delay) \in Instant /\ clock.sec \in Nat
    BY <2>2, PlusType, CeilCoversCarry DEF Instant
  <2>4. availableAt' \in [Jobs -> Nat] /\ notBefore' \in [Jobs -> Instant]
    BY <2>1, <2>3
  <2> QED BY <1>2, <2>4 DEF Store
<1>3. ASSUME NEW w \in Workers, StartPass(w) PROVE TypeInv'
  <2>1. clock.sec \in Nat
    BY DEF Instant
  <2> QED BY <1>3, <2>1 DEF StartPass
<1>4. ASSUME NEW w \in Workers, ReadOverdue(w) PROVE TypeInv'
  <2>1. {<<j, reservedUntil[j]>> : j \in {r \in rows :
               reservedUntil[r] # Null /\ reservedUntil[r] <= moment[w]}}
            \subseteq Jobs \X Nat
    OBVIOUS
  <2> QED BY <1>4, <2>1 DEF ReadOverdue
<1>5. ASSUME NEW w \in Workers, FreeOverdue(w) PROVE TypeInv'
  <2>1. PICK s \in stuck[w] : FreeOverdue(w)!(s)
    BY <1>5 DEF FreeOverdue
  <2>2. s[1] \in Jobs
    BY <2>1
  <2> QED BY <2>1, <2>2
<1>6. ASSUME NEW w \in Workers, ReadLegacy(w) PROVE TypeInv'
  <2>1. {<<j, reservedAt[j]>> : j \in {r \in rows :
               /\ reservedAt[r] # Null
               /\ reservedUntil[r] = Null
               /\ reservedAt[r] <= moment[w] - RetryAfter}}
            \subseteq Jobs \X Nat
    OBVIOUS
  <2> QED BY <1>6, <2>1 DEF ReadLegacy
<1>7. ASSUME NEW w \in Workers, FreeLegacy(w) PROVE TypeInv'
  <2>1. PICK s \in stuck[w] : FreeLegacy(w)!(s)
    BY <1>7 DEF FreeLegacy
  <2>2. s[1] \in Jobs
    BY <2>1
  <2> QED BY <2>1, <2>2
<1>8. ASSUME NEW w \in Workers, SelectDue(w) PROVE TypeInv'
  BY <1>8 DEF SelectDue
<1>9. ASSUME NEW w \in Workers, Claim(w) PROVE TypeInv'
  <2>1. PICK j \in due[w] : Claim(w)!(j)
    BY <1>9 DEF Claim
  <2>2. j \in Jobs /\ j \in stored /\ moment[w] \in Nat /\ moment[w] + RetryAfter \in Nat
    BY <2>1, ClockAssumption
  <2> QED BY <2>1, <2>2
<1>10. ASSUME NEW w \in Workers, ParkPoison(w) PROVE TypeInv'
  BY <1>10 DEF ParkPoison
<1>11. ASSUME NEW w \in Workers, Refine(w) PROVE TypeInv'
  <2>1. cur[w] \in Jobs /\ moment[w] \in Nat
    BY <1>11 DEF Refine
  <2>2. Override[cur[w]] # Null => moment[w] + Override[cur[w]] \in Nat
    BY <2>1, WindowType
  <2> QED BY <1>11, <2>1, <2>2 DEF Refine
<1>12. ASSUME NEW w \in Workers, Push(w) PROVE TypeInv'
  <2>1. pushed' \in [Jobs -> Nat]
    BY <1>12 DEF Push
  <2> QED BY <1>12, <2>1 DEF Push
<1>13. ASSUME NEW w \in Workers, Delete(w) PROVE TypeInv'
  BY <1>13 DEF Delete
<1>14. ASSUME NEW w \in Workers, EndPass(w) PROVE TypeInv'
  BY <1>14 DEF EndPass, Forget
<1>15. ASSUME NEW w \in Workers, Abandon(w) PROVE TypeInv'
  BY <1>15, ClockAssumption DEF Abandon, Forget
<1>16. CASE UNCHANGED vars
  BY <1>16 DEF vars
<1> QED
  BY <1>1, <1>2, <1>3, <1>4, <1>5, <1>6, <1>7, <1>8, <1>9, <1>10, <1>11, <1>12,
     <1>13, <1>14, <1>15, <1>16
  DEF Next, Work

\* The columns and the workers' locals always have their types.
THEOREM TypeCorrect == Spec => []TypeOK
<1>1. Spec => []TypeInv
  BY TypeInit, TypeNext, PTL DEF Spec
<1>2. TypeInv => TypeOK
  BY DEF TypeInv
<1> QED BY <1>1, <1>2, PTL

-----------------------------------------------------------------------------
(* No job is lost.                                                         *)

\* A worker about to delete the row has pushed the job.
PushedBeforeDelete ==
    \A w \in Workers : pc[w] = "delete" => pushed[cur[w]] > 0

LostInv == NoJobLost /\ PushedBeforeDelete

LEMMA LostNext == TypeInv /\ LostInv /\ [Next]_vars => LostInv'
<1> SUFFICES ASSUME TypeInv, LostInv, [Next]_vars PROVE LostInv'
  OBVIOUS
<1> USE DEF TypeInv, TypeOK, LocalsOK, Holding, LostInv, NoJobLost,
            PushedBeforeDelete, table, pass, history, Goto
<1>1. CASE Tick
  BY <1>1 DEF Tick
<1>2. ASSUME NEW j \in Jobs, Store(j) PROVE LostInv'
  BY <1>2 DEF Store
<1>3. ASSUME NEW w \in Workers, Push(w) PROVE LostInv'
  BY <1>3 DEF Push
<1>4. ASSUME NEW w \in Workers, Delete(w) PROVE LostInv'
  BY <1>4 DEF Delete
<1>5. ASSUME NEW w \in Workers, FreeOverdue(w) PROVE LostInv'
  BY <1>5 DEF FreeOverdue
<1>6. ASSUME NEW w \in Workers, FreeLegacy(w) PROVE LostInv'
  BY <1>6 DEF FreeLegacy
<1>7. ASSUME NEW w \in Workers, Claim(w) PROVE LostInv'
  BY <1>7 DEF Claim
<1>8. ASSUME NEW w \in Workers,
             StartPass(w) \/ ReadOverdue(w) \/ ReadLegacy(w) \/ SelectDue(w)
      PROVE LostInv'
  BY <1>8 DEF StartPass, ReadOverdue, ReadLegacy, SelectDue
<1>9. ASSUME NEW w \in Workers,
             ParkPoison(w) \/ Refine(w) \/ EndPass(w) \/ Abandon(w)
      PROVE LostInv'
  BY <1>9 DEF ParkPoison, Refine, EndPass, Abandon, Forget
<1>10. CASE UNCHANGED vars
  BY <1>10 DEF vars
<1> QED
  BY <1>1, <1>2, <1>3, <1>4, <1>5, <1>6, <1>7, <1>8, <1>9, <1>10 DEF Next, Work

\* A stored job is a row or has reached the broker, whoever dies or stalls.
THEOREM NothingLost == Spec => []NoJobLost
<1>1. Init => LostInv
  BY DEF Init, LostInv, NoJobLost, PushedBeforeDelete
<1>2. Spec => [](TypeInv /\ LostInv)
  BY <1>1, TypeInit, TypeNext, LostNext, PTL DEF Spec
<1>3. LostInv => NoJobLost
  BY DEF LostInv
<1> QED BY <1>2, <1>3, PTL

-----------------------------------------------------------------------------
(* The visibility timeout is a lease.                                      *)

\* What a worker read as overdue was overdue at its moment.
StuckInv ==
    \A w \in Workers : \A s \in stuck[w] :
        /\ pc[w] = "free" => s[2] <= moment[w]
        /\ pc[w] = "legacy" => s[2] + RetryAfter <= moment[w]

\* While a claim is fresh, its row (if it still exists) carries that claim,
\* with a deadline no shorter than the sure window.
FreshInv ==
    \A w \in Workers : \A j \in Jobs :
        Fresh(w, j) =>
            \/ j \notin rows
            \/ /\ reservedAt[j] = moment[w]
               /\ reservedUntil[j] # Null
               /\ reservedUntil[j] >= moment[w] + SureWindow(j)

LeaseInv == StuckInv /\ FreshInv /\ LeaseExclusive

LEMMA LeaseNext == TypeInv /\ LeaseInv /\ [Next]_vars => LeaseInv'
<1> SUFFICES ASSUME TypeInv, LeaseInv, [Next]_vars PROVE LeaseInv'
  OBVIOUS
<1>t. /\ clock.sec \in Nat
      /\ \A w \in Workers : pc[w] # "idle" => moment[w] \in Nat /\ moment[w] <= clock.sec
      /\ \A w \in Workers : \A s \in stuck[w] : s[1] \in Jobs /\ s[2] \in Nat
      /\ reservedAt \in [Jobs -> Nat \cup {Null}]
      /\ reservedUntil \in [Jobs -> Nat \cup {Null}]
      /\ pc \in [Workers -> Labels] /\ moment \in [Workers -> Nat \cup {Null}]
      /\ cur \in [Workers -> Jobs \cup {Null}]
      /\ stuck \in [Workers -> SUBSET (Jobs \X Nat)]
      /\ RetryAfter \in Nat /\ Null \notin Nat
      /\ \A j \in Jobs : SureWindow(j) \in Nat /\ SureWindow(j) <= RetryAfter
                                              /\ SureWindow(j) <= Window(j)
  BY WindowType, ClockAssumption DEF TypeInv, TypeOK, LocalsOK, Instant
<1> USE <1>t DEF LeaseInv, StuckInv, FreshInv, LeaseExclusive, Fresh, Holds, Holding,
                 Labels, table, pass, history, Goto
<1>1. CASE Tick
  <2>1. clock'.sec \in Nat /\ clock'.sec >= clock.sec
    BY <1>1, TickType DEF TypeInv, TypeOK, Instant
  <2> QED BY <1>1, <2>1 DEF Tick
<1>2. ASSUME NEW j \in Jobs, Store(j) PROVE LeaseInv'
  <2>1. \A w \in Workers : ~Holds(w, j)
    BY <1>2 DEF Store, TypeInv, LocalsOK
  <2> QED BY <1>2, <2>1 DEF Store
<1>3. ASSUME NEW w \in Workers, StartPass(w) PROVE LeaseInv'
  BY <1>3 DEF StartPass
<1>4. ASSUME NEW w \in Workers, ReadOverdue(w) PROVE LeaseInv'
  BY <1>4 DEF ReadOverdue
<1>5. ASSUME NEW w \in Workers, FreeOverdue(w) PROVE LeaseInv'
  BY <1>5 DEF FreeOverdue
<1>6. ASSUME NEW w \in Workers, ReadLegacy(w) PROVE LeaseInv'
  <2>1. \A s \in stuck'[w] : s[2] + RetryAfter <= moment[w]
    <3>1. stuck'[w] = {<<j, reservedAt[j]>> : j \in {r \in rows :
               /\ reservedAt[r] # Null
               /\ reservedUntil[r] = Null
               /\ reservedAt[r] <= moment[w] - RetryAfter}}
      BY <1>6 DEF ReadLegacy
    <3>2. TAKE s \in stuck'[w]
    <3>3. PICK j \in rows : /\ reservedAt[j] # Null
                            /\ reservedAt[j] <= moment[w] - RetryAfter
                            /\ s = <<j, reservedAt[j]>>
      BY <3>1
    <3>4. reservedAt[j] \in Nat /\ moment[w] \in Nat /\ s[2] = reservedAt[j]
      BY <1>6, <3>3 DEF ReadLegacy, TypeInv, TypeOK
    <3> QED BY <3>3, <3>4
  <2>2. StuckInv'
    BY <1>6, <2>1 DEF ReadLegacy
  <2> QED BY <1>6, <2>2 DEF ReadLegacy
<1>7. ASSUME NEW w \in Workers, FreeLegacy(w) PROVE LeaseInv'
  BY <1>7 DEF FreeLegacy
<1>8. ASSUME NEW w \in Workers, SelectDue(w) PROVE LeaseInv'
  BY <1>8 DEF SelectDue
<1>9. ASSUME NEW w \in Workers, Claim(w) PROVE LeaseInv'
  BY <1>9 DEF Claim
<1>10. ASSUME NEW w \in Workers, ParkPoison(w) PROVE LeaseInv'
  BY <1>10 DEF ParkPoison
<1>11. ASSUME NEW w \in Workers, Refine(w) PROVE LeaseInv'
  BY <1>11, WindowType DEF Refine
<1>12. ASSUME NEW w \in Workers, Push(w) PROVE LeaseInv'
  BY <1>12 DEF Push
<1>13. ASSUME NEW w \in Workers, Delete(w) PROVE LeaseInv'
  BY <1>13 DEF Delete
<1>14. ASSUME NEW w \in Workers, EndPass(w) \/ Abandon(w) PROVE LeaseInv'
  BY <1>14 DEF EndPass, Abandon, Forget
<1>15. CASE UNCHANGED vars
  BY <1>15 DEF vars
<1> QED
  BY <1>1, <1>2, <1>3, <1>4, <1>5, <1>6, <1>7, <1>8, <1>9, <1>10, <1>11, <1>12,
     <1>13, <1>14, <1>15
  DEF Next, Work

\* Of two workers inside the claim-push-delete section of one row, one has
\* outlived its visibility window.
THEOREM LeaseHolds == Spec => []LeaseExclusive
<1>1. Init => LeaseInv
  BY DEF Init, LeaseInv, StuckInv, FreshInv, LeaseExclusive, Fresh, Holds, Holding
<1>2. Spec => [](TypeInv /\ LeaseInv)
  BY <1>1, TypeInit, TypeNext, LeaseNext, PTL DEF Spec
<1>3. LeaseInv => LeaseExclusive
  BY DEF LeaseInv
<1> QED BY <1>2, <1>3, PTL

-----------------------------------------------------------------------------
(* Delays.                                                                 *)

\* available_at makes up for the second's fraction dropped from the clock, and
\* what a worker carries through its loop was due at its moment.
DueInv ==
    /\ \A j \in stored : notBefore[j].sec <= availableAt[j]
    /\ \A w \in Workers : \A j \in due[w] : availableAt[j] <= clock.sec
    /\ \A w \in Workers : pc[w] \in Holding => availableAt[cur[w]] <= clock.sec

LEMMA DueNext == TypeInv /\ DueInv /\ [Next]_vars => DueInv'
<1> SUFFICES ASSUME TypeInv, DueInv, [Next]_vars PROVE DueInv'
  OBVIOUS
<1> USE DEF TypeInv, TypeOK, LocalsOK, Labels, Holding, DueInv, table, pass,
            history, Goto
<1>t. clock.sec \in Nat /\ \A j \in Jobs : notBefore[j].sec \in Nat
  BY DEF Instant
<1>1. CASE Tick
  <2>1. clock'.sec \in Nat /\ clock'.sec >= clock.sec
    BY <1>1, TickType DEF Instant
  <2> QED BY <1>1, <1>t, <2>1 DEF Tick
<1>2. ASSUME NEW j \in Jobs, Store(j) PROVE DueInv'
  <2>1. PICK delay \in Delays :
            /\ availableAt' = [availableAt EXCEPT ![j] = DueSecond(delay)]
            /\ notBefore' = [notBefore EXCEPT ![j] = Plus(clock, delay)]
    BY <1>2 DEF Store
  <2>2. Plus(clock, delay).sec <= clock.sec + CeilSeconds(delay)
    BY CeilCoversCarry, ClockAssumption
  <2>3. \A k \in stored' : notBefore'[k].sec <= availableAt'[k]
    BY <1>2, <2>1, <2>2 DEF Store
  <2>4. \A k \in stored : availableAt'[k] = availableAt[k]
    BY <1>2, <2>1 DEF Store
  <2> QED BY <1>2, <2>3, <2>4 DEF Store
<1>3. ASSUME NEW w \in Workers, SelectDue(w) PROVE DueInv'
  BY <1>3, <1>t DEF SelectDue
<1>4. ASSUME NEW w \in Workers, Claim(w) PROVE DueInv'
  BY <1>4 DEF Claim
<1>5. ASSUME NEW w \in Workers,
             StartPass(w) \/ ReadOverdue(w) \/ FreeOverdue(w) \/ ReadLegacy(w)
      PROVE DueInv'
  BY <1>5 DEF StartPass, ReadOverdue, FreeOverdue, ReadLegacy
<1>6. ASSUME NEW w \in Workers,
             FreeLegacy(w) \/ ParkPoison(w) \/ Refine(w) \/ Push(w) \/ Delete(w)
      PROVE DueInv'
  BY <1>6 DEF FreeLegacy, ParkPoison, Refine, Push, Delete
<1>7. ASSUME NEW w \in Workers, EndPass(w) \/ Abandon(w) PROVE DueInv'
  BY <1>7 DEF EndPass, Abandon, Forget
<1>8. CASE UNCHANGED vars
  BY <1>8 DEF vars
<1> QED
  BY <1>1, <1>2, <1>3, <1>4, <1>5, <1>6, <1>7, <1>8 DEF Next, Work

LEMMA DueInit == Init => DueInv
  BY JobsAssumption DEF Init, DueInv, Holding

\* Only a push hands a job to the broker.
LEMMA OnlyPush ==
    ASSUME TypeInv, [Next]_vars, NEW j \in Jobs, pushed'[j] > pushed[j]
    PROVE  /\ \E w \in Workers : Push(w) /\ cur[w] = j
           /\ UNCHANGED clock
<1>1. pushed \in [Jobs -> Nat] /\ ~(pushed[j] > pushed[j])
  BY DEF TypeInv, TypeOK
<1>2. pushed' # pushed
  BY <1>1
<1>3. \A w \in Workers : Work(w) => Push(w)
  BY <1>2 DEF Work, StartPass, ReadOverdue, FreeOverdue, ReadLegacy, FreeLegacy,
              SelectDue, Claim, ParkPoison, Refine, Delete, EndPass
<1>4. PICK w \in Workers : Push(w)
  BY <1>2, <1>3 DEF Next, vars, Tick, Store, Abandon
<1> QED BY <1>1, <1>4 DEF Push

\* A job reaches the broker less than a second before the instant its
\* dispatcher asked for.
THEOREM DelayRespected == Spec => LessThanASecondEarly
<1>1. ASSUME TypeInv, DueInv, [Next]_vars, NEW j \in Jobs, pushed'[j] > pushed[j]
      PROVE  Earlier(notBefore[j], Plus(clock, [sec |-> 1, sub |-> 0]))
  <2>1. PICK w \in Workers : Push(w) /\ cur[w] = j
    BY <1>1, OnlyPush
  <2>2. availableAt[j] <= clock.sec /\ j \in stored
    BY <1>1, <2>1 DEF Push, DueInv, Holding, TypeInv, LocalsOK
  <2>3. notBefore[j].sec <= clock.sec /\ notBefore[j].sec \in Nat /\ clock.sec \in Nat
    BY <1>1, <2>2 DEF DueInv, TypeInv, TypeOK, Instant
  <2> DEFINE second == [sec |-> 1, sub |-> 0]
  <2>4. second \in Instant /\ second.sec = 1
    BY ClockAssumption DEF Instant
  <2> HIDE DEF second
  <2>5. Plus(clock, second) \in Instant /\ Plus(clock, second).sec >= clock.sec + second.sec
    <3>1. clock \in Instant
      BY <1>1 DEF TypeInv, TypeOK
    <3> QED BY ONLY <2>4, <3>1, PlusType
  <2>6. Plus(clock, second).sec \in Nat
    BY <2>5 DEF Instant
  <2>7. Earlier(notBefore[j], Plus(clock, second))
    BY <2>3, <2>4, <2>5, <2>6 DEF Earlier
  <2> QED BY <2>7 DEF second
<1>2. TypeInv /\ DueInv /\ [Next]_vars
        => [\A j \in Jobs : pushed'[j] > pushed[j] =>
               Earlier(notBefore[j], Plus(clock, [sec |-> 1, sub |-> 0]))]_vars
  BY <1>1
<1>3. Spec => [](TypeInv /\ DueInv)
  BY TypeInit, DueInit, TypeNext, DueNext, PTL DEF Spec
<1> QED BY <1>2, <1>3, PTL DEF Spec, LessThanASecondEarly

-----------------------------------------------------------------------------
(* The table implements the abstract rail.                                 *)

\* Only a decoded job is pushed.
DecodedInv == \A w \in Workers : pc[w] \in {"push", "delete"} => cur[w] \notin Poison

LEMMA DecodedNext == TypeInv /\ DecodedInv /\ [Next]_vars => DecodedInv'
<1> SUFFICES ASSUME TypeInv, DecodedInv, [Next]_vars PROVE DecodedInv'
  OBVIOUS
<1> USE DEF TypeInv, TypeOK, DecodedInv, Labels, Holding, table, pass, history, Goto
<1>1. CASE Tick \/ \E j \in Jobs : Store(j)
  BY <1>1 DEF Tick, Store
<1>2. ASSUME NEW w \in Workers,
             StartPass(w) \/ ReadOverdue(w) \/ FreeOverdue(w) \/ ReadLegacy(w)
      PROVE DecodedInv'
  BY <1>2 DEF StartPass, ReadOverdue, FreeOverdue, ReadLegacy
<1>3. ASSUME NEW w \in Workers,
             FreeLegacy(w) \/ SelectDue(w) \/ Claim(w) \/ ParkPoison(w)
      PROVE DecodedInv'
  BY <1>3 DEF FreeLegacy, SelectDue, Claim, ParkPoison
<1>4. ASSUME NEW w \in Workers, Refine(w) \/ Push(w) \/ Delete(w) PROVE DecodedInv'
  BY <1>4 DEF Refine, Push, Delete
<1>5. ASSUME NEW w \in Workers, EndPass(w) \/ Abandon(w) PROVE DecodedInv'
  BY <1>5 DEF EndPass, Abandon, Forget
<1>6. CASE UNCHANGED vars
  BY <1>6 DEF vars
<1> QED
  BY <1>1, <1>2, <1>3, <1>4, <1>5, <1>6 DEF Next, Work

\* The refinement mapping, by name.
Ripe == {j \in stored : availableAt[j] <= clock.sec}
Delivered == {j \in Jobs : pushed[j] > 0}
RailVars == <<stored, Ripe, rows, Delivered>>

LEMMA RailStep ==
    TypeInv /\ LostInv /\ DueInv /\ DecodedInv /\ [Next]_vars => [Rail!Next]_(Rail!vars)
<1> SUFFICES ASSUME TypeInv, LostInv, DueInv, DecodedInv, [Next]_vars
             PROVE  Rail!Next \/ UNCHANGED RailVars
  BY DEF Rail!vars, RailVars, Ripe, Delivered
<1> USE DEF table, pass, history, Goto, Ripe, Delivered
<1>t. /\ clock.sec \in Nat
      /\ availableAt \in [Jobs -> Nat]
      /\ pushed \in [Jobs -> Nat]
      /\ rows \subseteq stored /\ stored \subseteq Jobs
      /\ \A w \in Workers : pc[w] \in Holding => cur[w] \in stored
  BY DEF TypeInv, TypeOK, LocalsOK, Instant
<1>1. CASE Tick
  <2>1. clock'.sec \in Nat /\ clock'.sec >= clock.sec
    BY <1>1, TickType DEF TypeInv, TypeOK, Instant
  <2>2. Rail!Ripen
    BY <1>1, <1>t, <2>1 DEF Tick, Rail!Ripen
  <2> QED BY <2>2 DEF Rail!Next
<1>2. ASSUME NEW j \in Jobs, Store(j) PROVE Rail!Next
  <2>1. PICK delay \in Delays :
            availableAt' = [availableAt EXCEPT ![j] = DueSecond(delay)]
    BY <1>2 DEF Store
  <2>2. Ripe' = Ripe \/ Ripe' = Ripe \cup {j}
    BY <1>2, <1>t, <2>1 DEF Store
  <2>3. Rail!Accept(j)
    BY <1>2, <2>2 DEF Store, Rail!Accept
  <2> QED BY <2>3 DEF Rail!Next
<1>3. ASSUME NEW w \in Workers, Push(w) PROVE Rail!Next
  <2>0. cur[w] \in Jobs
    BY <1>3, <1>t DEF Push, Holding
  <2>1. cur[w] \in Ripe \ Poison
    BY <1>3, <1>t DEF Push, DueInv, DecodedInv, Holding
  <2>2. Delivered' = Delivered \cup {cur[w]}
    BY <1>3, <1>t, <2>0 DEF Push
  <2>3. Rail!Deliver(cur[w])
    BY <1>3, <2>1, <2>2 DEF Push, Rail!Deliver
  <2>4. \E j \in Jobs : Rail!Deliver(j)
    BY <2>0, <2>3 DEF Rail!Deliver
  <2> QED BY <2>4 DEF Rail!Next
<1>4. ASSUME NEW w \in Workers, Delete(w) PROVE Rail!Next
  <2>1. cur[w] \in Delivered
    BY <1>4, <1>t DEF Delete, LostInv, PushedBeforeDelete, Holding
  <2>2. Rail!Settle(cur[w])
    BY <1>4, <2>1 DEF Delete, Rail!Settle
  <2> QED BY <2>1, <2>2 DEF Rail!Next
<1>5. ASSUME NEW w \in Workers,
             StartPass(w) \/ ReadOverdue(w) \/ FreeOverdue(w) \/ ReadLegacy(w)
                \/ FreeLegacy(w) \/ SelectDue(w)
      PROVE UNCHANGED RailVars
  BY <1>5 DEF StartPass, ReadOverdue, FreeOverdue, ReadLegacy, FreeLegacy, SelectDue,
              RailVars
<1>6. ASSUME NEW w \in Workers,
             Claim(w) \/ ParkPoison(w) \/ Refine(w) \/ EndPass(w) \/ Abandon(w)
      PROVE UNCHANGED RailVars
  BY <1>6 DEF Claim, ParkPoison, Refine, EndPass, Abandon, Forget, RailVars
<1>7. CASE UNCHANGED vars
  BY <1>7 DEF vars, RailVars
<1> QED
  BY <1>1, <1>2, <1>3, <1>4, <1>5, <1>6, <1>7 DEF Next, Work

\* Every behaviour of the table is one of the abstract at-least-once rail.
THEOREM Refinement == Spec => ImplementsRail
<1>1. Init => Rail!Init
  BY JobsAssumption DEF Init, Rail!Init
<1>2. Init => TypeInv /\ LostInv /\ DueInv /\ DecodedInv
  BY TypeInit, DueInit
  DEF Init, LostInv, NoJobLost, PushedBeforeDelete, DecodedInv
<1>3. Spec => [](TypeInv /\ LostInv /\ DueInv /\ DecodedInv)
  BY <1>2, TypeNext, LostNext, DueNext, DecodedNext, PTL DEF Spec
<1> QED BY <1>1, <1>3, RailStep, PTL DEF Spec, ImplementsRail, Rail!Spec

-----------------------------------------------------------------------------
(* Duplicates need a timeout.                                              *)

\* The workers that have claimed j and not pushed it yet.
Pushing(j) == {w \in Workers : pc[w] \in {"claimed", "push"} /\ cur[w] = j}

\* One claim is left to make without a freeing: j is not stored yet, or its row
\* is not reserved.
Unclaimed(j) == IF j \notin stored \/ (j \in rows /\ reservedAt[j] = Null) THEN 1 ELSE 0

\* Claims are paid for by freeings, and pushes by claims.
DuplicateInv ==
    \A j \in Jobs : pushed[j] + Cardinality(Pushing(j)) + Unclaimed(j) <= 1 + frees[j]

LEMMA PushingFinite ==
    ASSUME NEW j \in Jobs
    PROVE  IsFiniteSet(Pushing(j)) /\ Cardinality(Pushing(j)) \in Nat
<1>1. Pushing(j) \subseteq Workers
  BY DEF Pushing
<1> QED BY <1>1, WorkersAssumption, FS_Subset, FS_CardinalityType

LEMMA PushingFiniteNext ==
    ASSUME NEW j \in Jobs
    PROVE  IsFiniteSet(Pushing(j)') /\ Cardinality(Pushing(j)') \in Nat
<1>1. Pushing(j)' \subseteq Workers
  BY DEF Pushing
<1> QED BY <1>1, WorkersAssumption, FS_Subset, FS_CardinalityType

\* Losing a claimed job never raises the count.
LEMMA PushingShrinks ==
    ASSUME NEW j \in Jobs, Pushing(j)' \subseteq Pushing(j)
    PROVE  Cardinality(Pushing(j)') <= Cardinality(Pushing(j))
  BY PushingFinite, FS_Subset

LEMMA DuplicateNext == TypeInv /\ DuplicateInv /\ [Next]_vars => DuplicateInv'
<1> SUFFICES ASSUME TypeInv, DuplicateInv, [Next]_vars, NEW j \in Jobs
             PROVE  (pushed[j] + Cardinality(Pushing(j)) + Unclaimed(j) <= 1 + frees[j])'
  BY DEF DuplicateInv
<1>t. /\ pushed \in [Jobs -> Nat] /\ frees \in [Jobs -> Nat]
      /\ reservedAt \in [Jobs -> Nat \cup {Null}]
      /\ pc \in [Workers -> Labels] /\ cur \in [Workers -> Jobs \cup {Null}]
      /\ rows \subseteq stored
      /\ Unclaimed(j) \in {0, 1} /\ Unclaimed(j)' \in {0, 1}
      /\ Null \notin Nat
  BY ClockAssumption DEF TypeInv, TypeOK, Unclaimed
<1>b. pushed[j] + Cardinality(Pushing(j)) + Unclaimed(j) <= 1 + frees[j]
  BY DEF DuplicateInv
<1>c. /\ Cardinality(Pushing(j)) \in Nat
      /\ Cardinality(Pushing(j)') \in Nat
  BY PushingFinite, PushingFiniteNext
<1> USE DEF table, pass, history, Goto
<1>q. ASSUME Pushing(j)' \subseteq Pushing(j), Unclaimed(j)' <= Unclaimed(j),
             pushed'[j] = pushed[j], frees'[j] = frees[j]
      PROVE  (pushed[j] + Cardinality(Pushing(j)) + Unclaimed(j) <= 1 + frees[j])'
  BY <1>q, <1>t, <1>b, <1>c, PushingShrinks
<1>1. CASE Tick
  BY <1>1, <1>q, <1>t DEF Tick, Pushing, Unclaimed
<1>2. ASSUME NEW k \in Jobs, Store(k)
      PROVE  (pushed[j] + Cardinality(Pushing(j)) + Unclaimed(j) <= 1 + frees[j])'
  BY <1>2, <1>q, <1>t DEF Store, Pushing, Unclaimed
<1>3. ASSUME NEW w \in Workers,
             StartPass(w) \/ ReadOverdue(w) \/ ReadLegacy(w) \/ SelectDue(w)
      PROVE  (pushed[j] + Cardinality(Pushing(j)) + Unclaimed(j) <= 1 + frees[j])'
  <2>1. Pushing(j)' \subseteq Pushing(j)
    BY <1>3, <1>t DEF StartPass, ReadOverdue, ReadLegacy, SelectDue, Pushing
  <2> QED BY <1>3, <2>1, <1>q, <1>t
          DEF StartPass, ReadOverdue, ReadLegacy, SelectDue, Unclaimed
<1>4. ASSUME NEW w \in Workers, FreeOverdue(w) \/ FreeLegacy(w)
      PROVE  (pushed[j] + Cardinality(Pushing(j)) + Unclaimed(j) <= 1 + frees[j])'
  <2>1. Pushing(j)' = Pushing(j) /\ pushed'[j] = pushed[j]
    BY <1>4 DEF FreeOverdue, FreeLegacy, Pushing
  <2>2. \/ frees'[j] = frees[j] + 1
        \/ frees'[j] = frees[j] /\ Unclaimed(j)' = Unclaimed(j)
    BY <1>4, <1>t DEF FreeOverdue, FreeLegacy, Unclaimed
  <2> QED BY <1>t, <1>b, <1>c, <2>1, <2>2
<1>5. ASSUME NEW w \in Workers, Claim(w)
      PROVE  (pushed[j] + Cardinality(Pushing(j)) + Unclaimed(j) <= 1 + frees[j])'
  <2>1. pushed' = pushed /\ frees' = frees /\ rows' = rows /\ stored' = stored
    BY <1>5 DEF Claim
  <2>2. PICK k \in due[w] : Claim(w)!(k)
    BY <1>5 DEF Claim
  <2>3. CASE k = j /\ j \in rows /\ reservedAt[j] = Null
    <3>1. Pushing(j)' \subseteq Pushing(j) \cup {w}
      BY <2>2, <2>3, <1>t DEF Pushing
    <3>2. Cardinality(Pushing(j)') <= Cardinality(Pushing(j)) + 1
      <4>1. IsFiniteSet(Pushing(j) \cup {w})
        BY PushingFinite, FS_AddElement
      <4>2. Cardinality(Pushing(j) \cup {w}) \in Nat
        BY <4>1, FS_CardinalityType
      <4>3. Cardinality(Pushing(j) \cup {w}) <= Cardinality(Pushing(j)) + 1
        <5>1. Cardinality(Pushing(j) \cup {w})
                = IF w \in Pushing(j) THEN Cardinality(Pushing(j))
                                      ELSE Cardinality(Pushing(j)) + 1
          BY PushingFinite, FS_AddElement, Zenon
        <5> QED BY <1>c, <5>1
      <4>4. Cardinality(Pushing(j)') <= Cardinality(Pushing(j) \cup {w})
        BY <3>1, <4>1, FS_Subset
      <4> QED BY <1>c, <4>2, <4>3, <4>4
    <3>3. moment[w] \in Nat
      BY <2>2 DEF TypeInv, LocalsOK
    <3>4. Unclaimed(j) = 1 /\ Unclaimed(j)' = 0
      BY <1>t, <2>1, <2>2, <2>3, <3>3 DEF Unclaimed
    <3> QED BY <1>t, <1>b, <1>c, <2>1, <3>2, <3>4
  <2>4. CASE ~(k = j /\ j \in rows /\ reservedAt[j] = Null)
    <3>1. Pushing(j)' \subseteq Pushing(j)
      BY <2>2, <2>4, <1>t DEF Pushing
    <3>2. Unclaimed(j)' <= Unclaimed(j)
      BY <2>1, <2>2, <2>4, <1>t DEF Unclaimed, TypeInv, LocalsOK
    <3> QED BY <1>q, <2>1, <3>1, <3>2
  <2> QED BY <2>3, <2>4
<1>6. ASSUME NEW w \in Workers, ParkPoison(w) \/ Refine(w)
      PROVE  (pushed[j] + Cardinality(Pushing(j)) + Unclaimed(j) <= 1 + frees[j])'
  <2>1. Pushing(j)' \subseteq Pushing(j)
    BY <1>6, <1>t DEF ParkPoison, Refine, Pushing
  <2> QED BY <1>6, <2>1, <1>q, <1>t DEF ParkPoison, Refine, Unclaimed
<1>7. ASSUME NEW w \in Workers, Push(w)
      PROVE  (pushed[j] + Cardinality(Pushing(j)) + Unclaimed(j) <= 1 + frees[j])'
  <2>1. Unclaimed(j)' = Unclaimed(j) /\ frees'[j] = frees[j]
    BY <1>7 DEF Push, Unclaimed
  <2>2. CASE cur[w] = j
    <3>1. w \in Pushing(j) /\ Pushing(j)' = Pushing(j) \ {w}
      BY <1>7, <1>t, <2>2 DEF Push, Pushing
    <3>2. Cardinality(Pushing(j)') = Cardinality(Pushing(j)) - 1
      BY <3>1, PushingFinite, FS_RemoveElement
    <3>3. pushed'[j] = pushed[j] + 1
      BY <1>7, <1>t, <2>2 DEF Push
    <3> QED BY <1>t, <1>b, <1>c, <2>1, <3>2, <3>3
  <2>3. CASE cur[w] # j
    <3>1. Pushing(j)' \subseteq Pushing(j) /\ pushed'[j] = pushed[j]
      BY <1>7, <1>t, <2>3 DEF Push, Pushing
    <3> QED BY <1>q, <1>t, <2>1, <3>1
  <2> QED BY <2>2, <2>3
<1>8. ASSUME NEW w \in Workers, Delete(w)
      PROVE  (pushed[j] + Cardinality(Pushing(j)) + Unclaimed(j) <= 1 + frees[j])'
  <2>1. Pushing(j)' \subseteq Pushing(j)
    BY <1>8, <1>t DEF Delete, Pushing
  <2>2. Unclaimed(j)' <= Unclaimed(j)
    BY <1>8, <1>t DEF Delete, Unclaimed
  <2> QED BY <1>8, <2>1, <2>2, <1>q DEF Delete
<1>9. ASSUME NEW w \in Workers, EndPass(w) \/ Abandon(w)
      PROVE  (pushed[j] + Cardinality(Pushing(j)) + Unclaimed(j) <= 1 + frees[j])'
  <2>1. Pushing(j)' \subseteq Pushing(j)
    BY <1>9, <1>t DEF EndPass, Abandon, Forget, Pushing
  <2> QED BY <1>9, <2>1, <1>q, <1>t DEF EndPass, Abandon, Forget, Unclaimed
<1>10. CASE UNCHANGED vars
  BY <1>10, <1>q, <1>t DEF vars, Pushing, Unclaimed
<1> QED
  BY <1>1, <1>2, <1>3, <1>4, <1>5, <1>6, <1>7, <1>8, <1>9, <1>10 DEF Next, Work

LEMMA DuplicateInit == Init => DuplicateInv
<1> SUFFICES ASSUME Init, NEW j \in Jobs
             PROVE  pushed[j] + Cardinality(Pushing(j)) + Unclaimed(j) <= 1 + frees[j]
  BY DEF DuplicateInv
<1>1. Pushing(j) = {}
  BY DEF Init, Pushing
<1>2. Cardinality(Pushing(j)) = 0
  BY <1>1, FS_EmptySet
<1>3. Unclaimed(j) \in {0, 1}
  BY DEF Unclaimed
<1> QED BY <1>2, <1>3 DEF Init

\* The broker gets a job a second time only after a freeing of its reservation.
THEOREM NoFreeDuplicates == Spec => []DuplicateNeedsTimeout
<1>1. Spec => [](TypeInv /\ DuplicateInv)
  BY TypeInit, DuplicateInit, TypeNext, DuplicateNext, PTL DEF Spec
<1>2. ASSUME TypeInv, DuplicateInv, NEW j \in Jobs
      PROVE  pushed[j] <= 1 + frees[j]
  <2>1. pushed[j] + Cardinality(Pushing(j)) + Unclaimed(j) <= 1 + frees[j]
    BY <1>2 DEF DuplicateInv
  <2>2. pushed[j] \in Nat /\ frees[j] \in Nat /\ Unclaimed(j) \in {0, 1}
    BY <1>2 DEF TypeInv, TypeOK, Unclaimed
  <2> QED BY <2>1, <2>2, PushingFinite
<1>3. TypeInv /\ DuplicateInv => DuplicateNeedsTimeout
  BY <1>2 DEF DuplicateNeedsTimeout
<1> QED BY <1>1, <1>3, PTL

=============================================================================
