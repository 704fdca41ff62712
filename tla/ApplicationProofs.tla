-------------------------- MODULE ApplicationProofs --------------------------
(* Proofs about parts of the application (Application.tla).                   *)
EXTENDS Application, FiniteSetTheorems, SequenceTheorems, WellFoundedInduction, TLAPS

-----------------------------------------------------------------------------
(* A step of the application is a step of one part; the others stand still.   *)

LEMMA PartSteps ==
  [Next]_vars =>
    /\ [SessionStep]_sessionVars /\ [FeatureStep]_featureVars /\ [LoginStep]_loginVars
    /\ [IdentityStep]_identityVars /\ [MediaStep]_mediaVars /\ [WorkingStep]_workingVars
<1>1. CASE Queries
  BY <1>1 DEF Queries
<1>2. CASE Serves
  BY <1>2 DEF Serves
<1>3. CASE LogsIn
  BY <1>3 DEF LogsIn
<1>4. CASE Flags
  BY <1>4 DEF Flags
<1>5. CASE Lives
  BY <1>5 DEF Lives
<1>6. CASE Injects
  BY <1>6 DEF Injects
<1>7. CASE Attaches
  BY <1>7 DEF Attaches
<1>8. CASE Dispatches
  BY <1>8 DEF Dispatches
<1>9. CASE Notifies
  BY <1>9 DEF Notifies
<1>10. CASE Relays
  BY <1>10 DEF Relays
<1>11. CASE Consumes
  BY <1>11 DEF Consumes
<1>12. CASE Handles
  BY <1>12 DEF Handles
<1>13. CASE Validates
  BY <1>13 DEF Validates
<1>14. CASE Admits
  BY <1>14 DEF Admits
<1>15. CASE Works
  BY <1>15 DEF Works
<1>16. CASE UNCHANGED vars
  BY <1>16 DEF vars
<1> QED
  BY <1>1, <1>2, <1>3, <1>4, <1>5, <1>6, <1>7, <1>8, <1>9, <1>10, <1>11, <1>12, <1>13,
     <1>14, <1>15, <1>16 DEF Next

-----------------------------------------------------------------------------
(* Feature flags *)

\* What is put is what was resolved before the override, or is being resolved since.
FeatureInv ==
    /\ FeaturesTypeOK
    /\ forced # Missing /\ ~outrun =>
          /\ flag = forced
          /\ \A t \in Checkers : check[t].at = "idle"

LEMMA FeatureBegins == FeaturesInit => FeatureInv
<1>1. Forgotten \in [at : {"idle", "everyone", "resolve", "put"}, memo : Maybe, value : Maybe]
  BY DEF Forgotten, Maybe
<1>2. FeaturesInit => FeaturesTypeOK
  BY <1>1 DEF FeaturesInit, FeaturesTypeOK, Maybe
<1> QED BY <1>2 DEF FeaturesInit, FeatureInv

LEMMA FeatureNext == FeatureInv /\ [FeatureStep]_featureVars => FeatureInv'
<1> SUFFICES ASSUME FeatureInv, [FeatureStep]_featureVars PROVE FeatureInv'
  OBVIOUS
<1> USE FeaturesAssumption DEF FeatureInv, FeaturesTypeOK, Maybe, Forgotten, Remember, Stays
<1>1. ASSUME NEW t \in Checkers, ReadOwn(t) \/ ReadEveryone(t) \/ Resolves(t) \/ FlushMemo(t)
      PROVE  FeatureInv'
  <2>1. CASE ReadOwn(t)
    BY <2>1 DEF ReadOwn
  <2>2. CASE ReadEveryone(t)
    BY <2>2 DEF ReadEveryone
  <2>3. CASE Resolves(t)
    <3>1. CASE check' = [check EXCEPT ![t] = Forgotten]
      BY <2>3, <3>1 DEF Resolves
    <3>2. ASSUME NEW v \in Values, check' = [check EXCEPT ![t] = [check[t] EXCEPT !.at = "put", !.value = v]]
          PROVE  FeatureInv'
      <4>1. [check[t] EXCEPT !.at = "put", !.value = v]
              \in [at : {"idle", "everyone", "resolve", "put"}, memo : Maybe, value : Maybe]
        OBVIOUS
      <4> QED BY <2>3, <3>2, <4>1 DEF Resolves
    <3> QED BY <2>3, <3>1, <3>2 DEF Resolves
  <2>4. CASE FlushMemo(t)
    BY <2>4 DEF FlushMemo
  <2> QED BY <1>1, <2>1, <2>2, <2>3, <2>4
<1>2. ASSUME NEW t \in Checkers, PutResolved(t) PROVE FeatureInv'
  BY <1>2 DEF PutResolved
<1>3. ASSUME NEW t \in Checkers, NEW v \in Values, Activate(t, v) PROVE FeatureInv'
  BY <1>3 DEF Activate, Resolving
<1>4. ASSUME NEW t \in Checkers, NEW purge \in BOOLEAN, ForgetOrPurge(t, purge) PROVE FeatureInv'
  BY <1>4 DEF ForgetOrPurge
<1>5. ASSUME NEW v \in Values, ActivateForEveryone(v) PROVE FeatureInv'
  BY <1>5 DEF ActivateForEveryone
<1>6. CASE UNCHANGED featureVars
  BY <1>6 DEF featureVars
<1> QED BY <1>1, <1>2, <1>3, <1>4, <1>5, <1>6 DEF FeatureStep

-----------------------------------------------------------------------------
(* A worker that works off its jobs *)

\* What was counted has left the broker for good, and what moved was counted since the tick.
TallyInv ==
    /\ \A j \in tally : job[j] \in {"rests", "done"}
    /\ options # NoOptions =>
          /\ options.processed = Cardinality(tally)
          /\ options.limit \notin 1..options.processed \/ finish
          /\ options.whenEmpty => /\ options.lastTick <= options.processed
                                  /\ moved => options.lastTick < options.processed
    /\ ~busyStop

\* Once it listens no more it takes nothing, and what still runs was deserted.
StageInv ==
    /\ stage = "off" <=> options = NoOptions
    /\ stage = "off" => loop = "off"
    /\ stage = "closes" => finish
    /\ stage \in {"off", "closes"} => inMemory \/ Running \subseteq deserted

WorkingInv == WorkingTypeOK /\ TallyInv /\ StageInv

LEMMA TallyFacts ==
  ASSUME WorkingTypeOK
  PROVE  /\ IsFiniteSet(tally) /\ Cardinality(tally) \in Nat
         /\ \A j \in Jobs \ tally : Cardinality(tally \cup {j}) = Cardinality(tally) + 1
         /\ \A rows \in SUBSET Jobs : Cardinality(rows) \in Nat /\ (Cardinality(rows) = 0 => rows = {})
<1>1. IsFiniteSet(tally) /\ \A rows \in SUBSET Jobs : IsFiniteSet(rows)
  BY WorkingAssumption, FS_Subset DEF WorkingTypeOK
<1> QED BY <1>1, FS_CardinalityType, FS_EmptySet, FS_AddElement

LEMMA WorkingBegins == WorkingInit => WorkingInv
<1> SUFFICES ASSUME WorkingInit PROVE WorkingInv
  OBVIOUS
<1>1. {inMemory, finish, moved, busyStop} \subseteq BOOLEAN /\ deserted \subseteq Jobs
  BY DEF WorkingInit
<1>2. works \in 0..MaxWorks /\ job \in [Jobs -> {"none", "row", "queued", "runs", "rests", "done", "skipped"}]
  BY WorkingAssumption DEF WorkingInit
<1>3. WorkingTypeOK
  BY <1>1, <1>2 DEF WorkingInit, WorkingTypeOK
<1>4. TallyInv /\ StageInv
  BY DEF WorkingInit, TallyInv, StageInv, Running
<1> QED BY <1>3, <1>4 DEF WorkingInv

LEMMA WorkingNext == WorkingInv /\ [WorkingStep]_workingVars => WorkingInv'
<1> SUFFICES ASSUME WorkingInv, [WorkingStep]_workingVars PROVE WorkingInv'
  OBVIOUS
<1> USE WorkingAssumption DEF WorkingInv, WorkingTypeOK, TallyInv, StageInv, AsWorked, HistoryStays, Running
<1>1. ASSUME NEW j \in Jobs, DispatchJob(j) PROVE WorkingInv'
  BY <1>1 DEF DispatchJob
<1>2. CASE StartWork
  <2>1. PICK limit \in Limits, whenEmpty \in BOOLEAN :
            options' = [limit |-> limit, whenEmpty |-> whenEmpty, processed |-> 0, lastTick |-> 0]
    BY <1>2 DEF StartWork
  <2>2. options' \in [limit : Limits, whenEmpty : BOOLEAN, processed : Nat, lastTick : Nat]
    BY <2>1
  <2>3. options' # NoOptions /\ options'.processed = 0 /\ options'.lastTick = 0
    BY <2>1, <2>2
  <2>4. works' \in 0..MaxWorks /\ Cardinality({}) = 0
    BY <1>2, FS_EmptySet DEF StartWork
  <2>5. WorkingTypeOK'
    BY <1>2, <2>2, <2>4 DEF StartWork
  <2>6. TallyInv' /\ StageInv'
    BY <1>2, <2>3, <2>4 DEF StartWork
  <2> QED BY <2>5, <2>6
<1>3. ASSUME NEW j \in Jobs, Take(j) PROVE WorkingInv'
  BY <1>3 DEF Take
<1>4. ASSUME NEW j \in Jobs, Skip(j) PROVE WorkingInv'
  BY <1>4 DEF Skip
<1>5. ASSUME NEW j \in Jobs, Processed(j) PROVE WorkingInv'
  <2>1. CASE options = NoOptions
    BY <1>5, <2>1 DEF Processed
  <2>2. CASE options # NoOptions
    <3>1. /\ job' = [job EXCEPT ![j] = "rests"] /\ tally' = tally \cup {j} /\ moved' = TRUE
          /\ options' = [options EXCEPT !.processed = @ + 1]
          /\ finish' = (finish \/ (options.limit > 0 /\ options'.processed >= options.limit))
          /\ UNCHANGED <<inMemory, stage, loop, works, busyStop, deserted>>
      BY <1>5, <2>2 DEF Processed
    <3>2. options \in [limit : Limits, whenEmpty : BOOLEAN, processed : Nat, lastTick : Nat]
      BY <2>2
    <3>3. /\ options' \in [limit : Limits, whenEmpty : BOOLEAN, processed : Nat, lastTick : Nat]
          /\ options'.processed = options.processed + 1 /\ options'.limit = options.limit
          /\ options'.whenEmpty = options.whenEmpty /\ options'.lastTick = options.lastTick
      BY <3>1, <3>2
    <3>4. options' # NoOptions
      BY <3>3
    <3>5. j \notin tally /\ Cardinality(tally') = Cardinality(tally) + 1
      BY <1>5, <3>1, TallyFacts DEF Processed
    <3>6. WorkingTypeOK'
      BY <3>1, <3>3
    <3>7. /\ options'.processed = Cardinality(tally')
          /\ options'.limit \notin 1..options'.processed \/ finish'
          /\ options'.whenEmpty => options'.lastTick < options'.processed
      <4>1. options.limit \in Nat /\ options.processed \in Nat /\ options.lastTick \in Nat
        BY <3>2
      <4>2. options'.processed = Cardinality(tally')
        BY <2>2, <3>3, <3>5
      <4>3. options'.whenEmpty => options'.lastTick < options'.processed
        BY <2>2, <3>3, <4>1
      <4>4. CASE options.limit = 0
        BY <3>3, <4>1, <4>2, <4>3, <4>4
      <4>5. CASE options.limit > 0 /\ options.limit <= options.processed
        BY <2>2, <3>1, <4>1, <4>2, <4>3, <4>5
      <4>6. CASE options.limit > options.processed + 1
        BY <3>3, <4>1, <4>2, <4>3, <4>6
      <4>7. CASE options.limit = options.processed + 1
        <5>1. options.limit > 0 /\ options'.processed >= options.limit
          BY <3>3, <4>1, <4>7
        <5>2. finish'
          BY <3>1, <5>1
        <5> QED BY <4>2, <4>3, <5>2
      <4> QED BY <4>1, <4>4, <4>5, <4>6, <4>7
    <3>8. \A i \in tally' : job'[i] \in {"rests", "done"}
      BY <3>1
    <3>9. TallyInv'
      BY <3>1, <3>3, <3>7, <3>8
    <3>10. StageInv'
      BY <1>5, <2>2, <3>1, <3>4 DEF Processed
    <3> QED BY <3>6, <3>9, <3>10
  <2> QED BY <2>1, <2>2
<1>6. ASSUME NEW j \in Jobs, Rested(j) PROVE WorkingInv'
  BY <1>6 DEF Rested
<1>7. CASE Stop
  BY <1>7 DEF Stop
<1>8. CASE Wake
  BY <1>8 DEF Wake
<1>9. CASE Tick
  <2>1. PICK rows \in SUBSET {j \in Jobs : job[j] = "row"}, failed \in BOOLEAN :
          LET released == IF failed THEN 0 ELSE Cardinality(rows)
              idle == options.whenEmpty /\ options.processed > 0 /\ IdleTick(released)
          IN  /\ job' = [j \in Jobs |-> IF j \in rows THEN "queued" ELSE job[j]]
              /\ options' = IF options.whenEmpty
                            THEN [options EXCEPT !.lastTick = options.processed] ELSE options
              /\ finish' = (finish \/ idle)
              /\ busyStop' = (busyStop \/ (idle /\ (moved \/ (rows # {} /\ ~failed))))
              /\ loop' = AfterPass(failed)
    BY <1>9 DEF Tick
  <2>2. options \in [limit : Limits, whenEmpty : BOOLEAN, processed : Nat, lastTick : Nat]
    BY <1>9 DEF Tick
  <2>3. /\ options' \in [limit : Limits, whenEmpty : BOOLEAN, processed : Nat, lastTick : Nat]
        /\ options'.processed = options.processed /\ options'.limit = options.limit
        /\ options'.whenEmpty = options.whenEmpty
        /\ options.whenEmpty => options'.lastTick = options.processed
    BY <2>1, <2>2
  <2>4. options' # NoOptions /\ options # NoOptions
    BY <2>2, <2>3
  <2>5. busyStop' = FALSE
    BY <2>1, <2>2, <2>4, TallyFacts DEF IdleTick
  <2>6. WorkingTypeOK'
    BY <1>9, <2>1, <2>3, <2>5 DEF Tick, AfterPass
  <2>7. TallyInv'
    <3>1. moved' = FALSE /\ tally' = tally /\ (finish => finish')
      BY <1>9, <2>1 DEF Tick
    <3>2. \A j \in tally : job'[j] \in {"rests", "done"}
      <4> SUFFICES ASSUME NEW j \in tally PROVE job'[j] \in {"rests", "done"}
        OBVIOUS
      <4>1. job[j] \in {"rests", "done"} /\ j \in Jobs
        OBVIOUS
      <4>2. j \notin rows
        BY <4>1
      <4> QED BY <2>1, <4>1, <4>2
    <3>3. options'.processed = Cardinality(tally)
      BY <2>3, <2>4
    <3>4. options'.limit \notin 1..options'.processed \/ finish'
      BY <2>3, <2>4, <3>1
    <3>5. options'.whenEmpty => options'.lastTick <= options'.processed
      BY <2>2, <2>3
    <3> QED BY <2>5, <3>1, <3>2, <3>3, <3>4, <3>5
  <2>8. StageInv'
    BY <1>9, <2>1, <2>4 DEF Tick
  <2> QED BY <2>6, <2>7, <2>8
<1>10. CASE ListenEnds
  BY <1>10 DEF ListenEnds, Drained
<1>11. CASE CancelWork
  BY <1>11 DEF CancelWork
<1>12. CASE Close
  BY <1>12 DEF Close
<1>13. CASE UNCHANGED workingVars
  BY <1>13 DEF workingVars
<1> QED
  BY <1>1, <1>2, <1>3, <1>4, <1>5, <1>6, <1>7, <1>8, <1>9, <1>10, <1>11, <1>12, <1>13
  DEF WorkingStep, WorkingRuns

-----------------------------------------------------------------------------
(* The session of a browser *)

Active(r) == request[r].at \notin {"idle", "over"}

\* Loaded, it is what the next request must find.
HoldsDue(s) == s.items = due.items /\ s.flash \cap s.fresh = due.flash

\* One request at a time; ids that were not drawn hold nothing.
OneByOne ==
    /\ \A q, r \in Requests : q < r /\ request[r].at # "idle" => request[q].at = "over"
    /\ \A s \in Sids : s > drawn => sessions[s] = Empty

\* Between two requests, what is due is stored under the cookie.
BetweenRequests ==
    (\A r \in Requests : ~Active(r)) =>
        IF cookie = NoSid THEN due = Nothing ELSE HoldsDue(sessions[cookie])

\* During one, what is due is in its copy, and the cookie names that copy or is about to;
\* or the cookie was lost, and nothing is due from what it still names.
DuringRequest(q) ==
    /\ q.sid \in 1..drawn /\ q.drop \in 0..drawn /\ q.drop # q.sid
    /\ q.at = "resave" => q.drop = NoSid
    /\ \/ HoldsDue(q.session) /\ (cookie = q.sid \/ (q.setCookie /\ q.at \notin Answered))
       \/ due = Nothing /\ cookie # q.sid /\ q.at \in Answered
    /\ q.setCookie /\ q.at \notin Answered => cookie # q.sid
    /\ cookie \in {NoSid, q.sid, q.drop} \/ sessions[cookie] = Empty

CarryInv ==
    /\ SessionCarried
    /\ ~unsettled =>
          OneByOne /\ BetweenRequests /\ \A r \in Requests : Active(r) => DuringRequest(request[r])

\* An id was drawn before it was used.
SidsDrawn == \A r \in Requests : request[r].sid <= drawn

SessionInv == SessionsTypeOK /\ SidsDrawn /\ CarryInv

\* What a step of one request leaves, if it keeps the types of what it changes.
LEMMA RequestMoves ==
  ASSUME SessionsTypeOK, SidsDrawn, NEW r \in Requests, NEW q \in Record,
         request' = [request EXCEPT ![r] = q], q.sid <= drawn',
         drawn' \in 0..MaxSids, drawn <= drawn', cookie' \in 0..drawn',
         sessions' \in [Sids -> Session], due' \in Content, unsettled' \in BOOLEAN
  PROVE  SessionsTypeOK' /\ SidsDrawn'
<1> USE SessionsAssumption DEF SessionsTypeOK, SidsDrawn, NoSid
<1>1. request' \in [Requests -> Record] /\ request'[r] = q
  OBVIOUS
<1>2. \A p \in Requests : request'[p].sid <= drawn'
  <2>1. ASSUME NEW p \in Requests PROVE request[p].sid \in 0..MaxSids
    BY DEF Record, Sids
  <2> QED BY <1>1, <2>1
<1> QED BY <1>1, <1>2

LEMMA SessionConstants ==
  /\ Empty \in Session /\ Nothing \in Content /\ NoRequest \in Record
  /\ \A s \in Session : Aged(s) \in Session
BY DEF Empty, Session, Nothing, Content, NoRequest, Record, Stages, Answered, NoSid, Aged

LEMMA SessionBegins == SessionsInit => SessionInv
<1> SUFFICES ASSUME SessionsInit PROVE SessionInv
  OBVIOUS
<1> USE SessionsAssumption, SessionConstants DEF SessionsInit, Requests, Sids, NoSid
<1>1. drawn \in 0..MaxSids /\ cookie \in 0..drawn
  OBVIOUS
<1>2. sessions \in [Sids -> Session] /\ request \in [Requests -> Record]
  OBVIOUS
<1>3. SidsDrawn
  BY DEF SidsDrawn, NoRequest
<1>4. SessionsTypeOK
  BY <1>1, <1>2 DEF SessionsTypeOK
<1>5. SessionCarried /\ OneByOne /\ BetweenRequests /\ \A r \in Requests : ~Active(r)
  BY DEF SessionCarried, OneByOne, BetweenRequests, Active, NoRequest
<1> QED BY <1>3, <1>4, <1>5 DEF SessionInv, CarryInv

LEMMA SessionTypes ==
  SessionsTypeOK /\ SidsDrawn /\ [SessionStep]_sessionVars => SessionsTypeOK' /\ SidsDrawn'
<1> SUFFICES ASSUME SessionsTypeOK, SidsDrawn, [SessionStep]_sessionVars
             PROVE  SessionsTypeOK' /\ SidsDrawn'
  OBVIOUS
<1> USE SessionsAssumption DEF SessionsTypeOK, SidsDrawn, NoSid
<1>0. ASSUME NEW r \in Requests
      PROVE  /\ request[r] \in Record /\ request[r].session \in Session
             /\ request[r].sid \in 0..drawn /\ request[r].sid \in Sids \cup {0}
             /\ drawn \in Nat /\ drawn <= MaxSids
  BY DEF Record, Sids
<1>1. ASSUME NEW r \in Requests, Receive(r) PROVE SessionsTypeOK' /\ SidsDrawn'
  <2>1. ASSUME NEW sid \in Sids, sid <= drawn', Open(r, sid), drawn <= drawn', drawn' \in 0..MaxSids
        PROVE  SessionsTypeOK' /\ SidsDrawn'
    <3> DEFINE q == [NoRequest EXCEPT !.at = "handler", !.sid = sid, !.session = Aged(sessions[sid]),
              !.setCookie = (cookie = 0),
              !.right = (Aged(sessions[sid]).items = due.items /\ Aged(sessions[sid]).flash = due.flash)]
    <3>1. q \in Record /\ q.sid = sid
      BY SessionConstants DEF Record, Stages
    <3>2. request' = [request EXCEPT ![r] = q]
      BY <2>1 DEF Open
    <3>3. due' \in Content /\ unsettled' \in BOOLEAN /\ sessions' = sessions /\ cookie' \in 0..drawn'
      BY <1>1, <2>1 DEF Receive, Content
    <3> HIDE DEF q
    <3> QED BY <2>1, <3>1, <3>2, <3>3, RequestMoves
  <2>2. CASE cookie # 0 /\ Open(r, cookie) /\ drawn' = drawn
    BY <2>1, <2>2, cookie \in Sids DEF Sids
  <2>3. CASE drawn < MaxSids /\ Open(r, drawn + 1) /\ drawn' = drawn + 1
    BY <2>1, <2>3, drawn + 1 \in Sids DEF Sids
  <2> QED BY <1>1, <2>2, <2>3 DEF Receive
<1>2. ASSUME NEW r \in Requests, NEW i \in Items, PutItem(r, i) PROVE SessionsTypeOK' /\ SidsDrawn'
  <2> DEFINE q == [request[r] EXCEPT !.session.items = @ \cup {i}]
  <2>1. q \in Record /\ q.sid = request[r].sid
    BY <1>0 DEF Record, Session
  <2>2. request' = [request EXCEPT ![r] = q] /\ due' \in Content
    BY <1>2 DEF PutItem, Content
  <2> HIDE DEF q
  <2> QED BY <1>0, <1>2, <2>1, <2>2, RequestMoves DEF PutItem
<1>3. ASSUME NEW r \in Requests, NEW m \in Messages, Flash(r, m) PROVE SessionsTypeOK' /\ SidsDrawn'
  <2> DEFINE s == [request[r].session EXCEPT !.flash = @ \cup {m}, !.fresh = @ \cup {m}]
             q == [request[r] EXCEPT !.session = s]
  <2>1. s \in Session
    BY <1>0 DEF Session
  <2>2. request' = [request EXCEPT ![r] = q]
    BY <1>3 DEF Flash
  <2>4. due' \in Content
    BY <1>3 DEF Flash, Content
  <2> HIDE DEF s
  <2>3. q \in Record /\ q.sid = request[r].sid
    BY <1>0, <2>1 DEF Record
  <2> HIDE DEF q
  <2> QED BY <1>0, <1>3, <2>2, <2>3, <2>4, RequestMoves DEF Flash
<1>4. ASSUME NEW r \in Requests, Reflash(r) PROVE SessionsTypeOK' /\ SidsDrawn'
  <2> DEFINE q == [request[r] EXCEPT !.session.fresh = @ \cup request[r].session.flash]
  <2>1. q \in Record /\ q.sid = request[r].sid
    BY <1>0 DEF Record, Session
  <2>2. request' = [request EXCEPT ![r] = q] /\ due' \in Content
    BY <1>0, <1>4 DEF Reflash, Content, Session
  <2> HIDE DEF q
  <2> QED BY <1>0, <1>4, <2>1, <2>2, RequestMoves DEF Reflash
<1>5. ASSUME NEW r \in Requests, NEW keeps \in BOOLEAN, Rotate(r, keeps) PROVE SessionsTypeOK' /\ SidsDrawn'
  <2> DEFINE q == [request[r] EXCEPT !.sid = drawn + 1, !.drop = request[r].sid, !.setCookie = TRUE,
                       !.session = IF keeps THEN @ ELSE Empty]
  <2>1. drawn + 1 \in Sids /\ drawn' = drawn + 1
    BY <1>0, <1>5 DEF Rotate, Sids
  <2>2. q \in Record /\ q.sid = drawn'
    BY <1>0, <2>1, SessionConstants DEF Record
  <2>3. request' = [request EXCEPT ![r] = q]
    BY <1>5 DEF Rotate
  <2>5. due' \in Content
    BY <1>5, SessionConstants DEF Rotate
  <2>4. drawn' \in 0..MaxSids /\ drawn <= drawn' /\ cookie' \in 0..drawn' /\ q.sid <= drawn'
    BY <1>0, <1>5, <2>1, <2>2 DEF Rotate, Sids
  <2> HIDE DEF q
  <2> QED BY <1>5, <2>2, <2>3, <2>4, <2>5, RequestMoves DEF Rotate
<1>6. ASSUME NEW r \in Requests, NEW raises \in BOOLEAN, HandlerEnds(r, raises)
      PROVE  SessionsTypeOK' /\ SidsDrawn'
  <2> DEFINE q == [request[r] EXCEPT !.at = "forget", !.raised = raises]
  <2>1. q \in Record /\ q.sid = request[r].sid /\ request' = [request EXCEPT ![r] = q]
    BY <1>0, <1>6 DEF Record, Stages, HandlerEnds
  <2> HIDE DEF q
  <2> QED BY <1>0, <1>6, <2>1, RequestMoves DEF HandlerEnds
<1>7. ASSUME NEW r \in Requests, ForgetDropped(r) PROVE SessionsTypeOK' /\ SidsDrawn'
  <2> DEFINE q == [request[r] EXCEPT !.drop = 0, !.at = IF @ = "forget" THEN "save" ELSE "resave"]
  <2>1. q \in Record /\ q.sid = request[r].sid
    BY <1>0 DEF Record, Stages, Answered
  <2>2. request' = [request EXCEPT ![r] = q]
    BY <1>7 DEF ForgetDropped
  <2>3. sessions' \in [Sids -> Session]
    BY <1>7, SessionConstants DEF ForgetDropped
  <2> HIDE DEF q
  <2> QED BY <1>0, <1>7, <2>1, <2>2, <2>3, RequestMoves DEF ForgetDropped
<1>8. ASSUME NEW r \in Requests, SaveSession(r) PROVE SessionsTypeOK' /\ SidsDrawn'
  <2> DEFINE q == [request[r] EXCEPT !.at = "render"]
  <2>1. q \in Record /\ q.sid = request[r].sid
    BY <1>0 DEF Record, Stages
  <2>2. request' = [request EXCEPT ![r] = q] /\ sessions' \in [Sids -> Session]
    BY <1>0, <1>8 DEF SaveSession
  <2> HIDE DEF q
  <2> QED BY <1>0, <1>8, <2>1, <2>2, RequestMoves DEF SaveSession
<1>9. ASSUME NEW r \in Requests PROVE Answer(r) \in Record /\ Answer(r).sid = 0
  BY <1>0 DEF Answer, NoRequest, Record, Stages, Answered, Session, Empty
<1>10. ASSUME NEW r \in Requests, SaveLate(r) PROVE SessionsTypeOK' /\ SidsDrawn'
  <2>1. request' = [request EXCEPT ![r] = Answer(r)] /\ sessions' \in [Sids -> Session]
    BY <1>0, <1>10 DEF SaveLate
  <2> QED BY <1>0, <1>9, <1>10, <2>1, RequestMoves DEF SaveLate
<1>11. ASSUME NEW r \in Requests, SaveFails(r) PROVE SessionsTypeOK' /\ SidsDrawn'
  <2> DEFINE q == [request[r] EXCEPT !.raised = TRUE, !.at = "render"]
  <2>1. q \in Record /\ q.sid = request[r].sid /\ request' = [request EXCEPT ![r] = q]
    BY <1>0, <1>11 DEF Record, Stages, SaveFails
  <2> HIDE DEF q
  <2> QED BY <1>0, <1>11, <2>1, RequestMoves DEF SaveFails
<1>12. ASSUME NEW r \in Requests, LateSaveFails(r) PROVE SessionsTypeOK' /\ SidsDrawn'
  BY <1>0, <1>9, <1>12, RequestMoves DEF LateSaveFails
<1>13. ASSUME NEW r \in Requests, Respond(r) PROVE SessionsTypeOK' /\ SidsDrawn'
  <2> DEFINE q == [request[r] EXCEPT !.at = "reforget"]
  <2>1. q \in Record /\ q.sid = request[r].sid
    BY <1>0 DEF Record, Stages, Answered
  <2>2. request' = [request EXCEPT ![r] = q] /\ due' \in Content /\ cookie' \in 0..drawn'
    BY <1>0, <1>13, SessionConstants DEF Respond
  <2> HIDE DEF q
  <2> QED BY <1>0, <1>13, <2>1, <2>2, RequestMoves DEF Respond
<1>14. CASE UNCHANGED sessionVars
  BY <1>14 DEF sessionVars
<1> QED
  BY <1>1, <1>2, <1>3, <1>4, <1>5, <1>6, <1>7, <1>8, <1>10, <1>11, <1>12, <1>13, <1>14 DEF SessionStep

\* While one request runs, every other one is over or has not begun.
LEMMA OthersRest ==
  ASSUME SessionInv, ~unsettled, NEW r \in Requests, Active(r), NEW p \in Requests \ {r}
  PROVE  ~Active(p) /\ (p < r => request[p].at = "over") /\ (p > r => request[p].at = "idle")
<1>1. p \in Nat /\ r \in Nat
  BY SessionsAssumption DEF Requests
<1> QED BY <1>1 DEF SessionInv, CarryInv, OneByOne, Active

LEMMA RequestGoesOn ==
  ASSUME SessionInv, ~unsettled, ~unsettled', SessionsTypeOK, NEW r \in Requests, Active(r), NEW q,
         request' = [request EXCEPT ![r] = q], q.at \notin {"idle", "over"},
         q.right = request[r].right,
         \A s \in Sids : s > drawn' => sessions'[s] = Empty,
         DuringRequest(request[r])'
  PROVE  CarryInv'
<1>1. /\ request'[r] = q /\ Active(r)'
      /\ \A p \in Requests \ {r} : request'[p] = request[p] /\ ~Active(p)'
  BY OthersRest DEF SessionsTypeOK, Active
<1>2. SessionCarried'
  BY <1>1 DEF SessionCarried, SessionInv, CarryInv
<1>3. OneByOne'
  <2> SUFFICES ASSUME NEW p \in Requests, NEW o \in Requests, p < o, request'[o].at # "idle"
               PROVE  request'[p].at = "over"
    BY DEF OneByOne
  <2>1. CASE o = r
    BY <1>1, <2>1, OthersRest, p # r, SessionsAssumption DEF Requests
  <2>2. CASE p = r
    BY <1>1, <2>2, OthersRest, o # r, SessionsAssumption DEF Requests
  <2>3. CASE o # r /\ p # r
    BY <1>1, <2>3 DEF SessionInv, CarryInv, OneByOne
  <2> QED BY <2>1, <2>2, <2>3
<1> QED BY <1>1, <1>2, <1>3 DEF CarryInv, BetweenRequests

\* A step that keeps the copy, the id and the cookie as they must be to one another.
LEMMA StaysDuring ==
  ASSUME SessionsTypeOK, NEW r \in Requests, NEW q, request' = [request EXCEPT ![r] = q],
         DuringRequest(request[r]), q.sid = request[r].sid, q.setCookie = request[r].setCookie,
         q.drop \in {NoSid, request[r].drop}, q.at = "resave" => q.drop = NoSid,
         q.at \in Answered <=> request[r].at \in Answered, q.at \in Answered => due' = due,
         HoldsDue(request[r].session) =>
             q.session.items = due'.items /\ q.session.flash \cap q.session.fresh = due'.flash,
         drawn' = drawn, cookie' = cookie,
         cookie \in {NoSid, q.sid, q.drop} \/ sessions'[cookie] = Empty
  PROVE  DuringRequest(request[r])'
<1>1. request'[r] = q
  BY DEF SessionsTypeOK
<1>2. q.sid \in 1..drawn /\ q.drop \in 0..drawn /\ q.drop # q.sid
  <2>1. drawn \in Nat /\ request[r].sid \in 1..drawn /\ request[r].drop \in 0..drawn
        /\ request[r].drop # request[r].sid
    BY SessionsAssumption DEF SessionsTypeOK, DuringRequest, NoSid
  <2>2. CASE q.drop = request[r].drop
    BY <2>1, <2>2
  <2>3. CASE q.drop = NoSid
    BY <2>1, <2>3 DEF NoSid
  <2> QED BY <2>2, <2>3
<1>3. \/ HoldsDue(request[r].session)' /\ (cookie = q.sid \/ (q.setCookie /\ q.at \notin Answered))
      \/ due' = Nothing /\ cookie # q.sid /\ q.at \in Answered
  <2>1. CASE HoldsDue(request[r].session) /\ (cookie = q.sid \/ (q.setCookie /\ q.at \notin Answered))
    BY <1>1, <2>1 DEF HoldsDue
  <2>2. CASE due = Nothing /\ cookie # q.sid /\ q.at \in Answered
    BY <2>2
  <2> QED BY <2>1, <2>2 DEF DuringRequest
<1>4. q.setCookie /\ q.at \notin Answered => cookie # q.sid
  BY DEF DuringRequest
<1> QED BY <1>1, <1>2, <1>3, <1>4 DEF DuringRequest

LEMMA SessionNext == SessionInv /\ [SessionStep]_sessionVars => SessionInv'
<1> SUFFICES ASSUME SessionInv, [SessionStep]_sessionVars PROVE SessionInv'
  OBVIOUS
<1>1. SessionsTypeOK /\ SidsDrawn /\ SessionsTypeOK' /\ SidsDrawn'
  BY SessionTypes DEF SessionInv
<1> SUFFICES CarryInv'
  BY <1>1 DEF SessionInv
<1>2. CASE unsettled'
  BY <1>2 DEF CarryInv, SessionCarried
<1>3. CASE UNCHANGED sessionVars
  BY <1>3 DEF sessionVars, SessionInv, CarryInv, SessionCarried, OneByOne, BetweenRequests, Active,
              HoldsDue, DuringRequest
<1> SUFFICES ASSUME ~unsettled', SessionStep PROVE CarryInv'
  BY <1>2, <1>3, Zenon
<1>4. ~unsettled
  BY Zenon DEF SessionStep, Receive, PutItem, Flash, Reflash, Rotate, HandlerEnds, ForgetDropped,
         SaveSession, SaveLate, SaveFails, LateSaveFails, Respond
<1>5. OneByOne /\ BetweenRequests /\ \A p \in Requests : Active(p) => DuringRequest(request[p])
  BY <1>4 DEF SessionInv, CarryInv
<1>6. ASSUME NEW r \in Requests, Active(r)
      PROVE  /\ DuringRequest(request[r]) /\ request[r] \in Record
             /\ drawn \in 0..MaxSids /\ cookie \in 0..drawn /\ request[r].sid \in 1..drawn
             /\ request[r].sid \in Sids /\ MaxSids \in Nat
  BY <1>1, <1>5, <1>6, SessionsAssumption DEF SessionsTypeOK, DuringRequest, Sids, NoSid
<1> USE <1>4 DEF NoSid
<1>7. ASSUME NEW r \in Requests, Receive(r) PROVE CarryInv'
  <2>1. request[r].at = "idle" /\ \A p \in Requests : request[p].at \notin {"reforget", "resave"}
    BY <1>7 DEF Receive
  <2>2. \A p \in Requests : /\ p < r => request[p].at = "over"
                            /\ p > r => request[p].at = "idle"
    <3>1. ASSUME NEW p \in Requests, p < r PROVE request[p].at = "over"
      BY <1>7, <2>1, <3>1, SessionsAssumption, p \in 1..(r - 1) DEF Receive, Requests, Answered
    <3>2. ASSUME NEW p \in Requests, p > r PROVE request[p].at = "idle"
      BY <1>5, <2>1, <3>2, SessionsAssumption DEF OneByOne, Requests
    <3> QED BY <3>1, <3>2
  <2>3. \A p \in Requests : ~Active(p)
    BY <2>1, <2>2, SessionsAssumption DEF Active, Requests
  <2>4. IF cookie = 0 THEN due = Nothing ELSE HoldsDue(sessions[cookie])
    BY <1>5, <2>3 DEF BetweenRequests
  <2>5. ASSUME NEW sid \in Sids, sid <= drawn', Open(r, sid), drawn <= drawn',
               HoldsDue(sessions[sid]), cookie \in {0, sid}
        PROVE  CarryInv'
    <3> DEFINE q == [NoRequest EXCEPT !.at = "handler", !.sid = sid, !.session = Aged(sessions[sid]),
              !.setCookie = (cookie = 0),
              !.right = (Aged(sessions[sid]).items = due.items /\ Aged(sessions[sid]).flash = due.flash)]
    <3>1. /\ request' = [request EXCEPT ![r] = q]
          /\ due' = [due EXCEPT !.flash = {}] /\ sessions' = sessions /\ cookie' = cookie
      BY <1>7, <2>5 DEF Receive, Open
    <3>2. sessions[sid] \in Session /\ due \in Content /\ Requests \subseteq Nat
      BY <1>1, SessionsAssumption DEF SessionsTypeOK, Requests
    <3>3. /\ q.at = "handler" /\ q.sid = sid /\ q.drop = 0 /\ q.setCookie = (cookie = 0)
          /\ q.session = Aged(sessions[sid])
      BY DEF NoRequest
    <3>4. q.right
      BY <2>5, <3>2 DEF NoRequest, Aged, HoldsDue, Session
    <3> HIDE DEF q
    <3>5. request'[r] = q /\ \A p \in Requests \ {r} : request'[p] = request[p]
      BY <1>1, <3>1 DEF SessionsTypeOK
    <3>6. SessionCarried'
      BY <3>4, <3>5 DEF SessionCarried, SessionInv, CarryInv
    <3>7. OneByOne'
      BY <1>1, <1>5, <2>1, <2>2, <2>5, <3>1, <3>2, <3>3, <3>5 DEF OneByOne, SessionsTypeOK, Sids
    <3>8. DuringRequest(request[r])'
      <4>1. sid \in 1..drawn' /\ 0 \in 0..drawn' /\ sid # 0
        BY <1>1, <2>5, SessionsAssumption DEF SessionsTypeOK, Sids
      <4>2. HoldsDue(request[r].session)'
        <5>1. Aged(sessions[sid]).items = sessions[sid].items /\ Aged(sessions[sid]).fresh = {}
          BY <3>2 DEF Aged, Session
        <5>2. due'.items = due.items /\ due'.flash = {}
          BY <3>1, <3>2 DEF Content
        <5>3. request'[r].session = Aged(sessions[sid]) /\ sessions[sid].items = due.items
          BY <2>5, <3>3, <3>5 DEF HoldsDue
        <5> QED BY <5>1, <5>2, <5>3 DEF HoldsDue
      <4> QED BY <2>5, <3>1, <3>3, <3>5, <4>1, <4>2 DEF DuringRequest, Answered
    <3> QED BY <2>3, <3>3, <3>5, <3>6, <3>7, <3>8 DEF CarryInv, BetweenRequests, Active
  <2>6. CASE cookie # 0 /\ Open(r, cookie) /\ drawn' = drawn
    <3>1. cookie \in Sids /\ cookie <= drawn' /\ drawn <= drawn'
      BY <1>1, <2>6, SessionsAssumption DEF SessionsTypeOK, Sids
    <3> QED BY <2>4, <2>5, <2>6, <3>1
  <2>7. CASE cookie = 0 /\ drawn < MaxSids /\ Open(r, drawn + 1) /\ drawn' = drawn + 1
    <3>1. drawn + 1 \in Sids /\ drawn \in Nat
      BY <1>1, <2>7, SessionsAssumption DEF SessionsTypeOK, Sids
    <3>2. HoldsDue(sessions[drawn + 1])
      <4>1. sessions[drawn + 1] = Empty /\ due = Nothing
        BY <1>5, <2>4, <2>7, <3>1 DEF OneByOne
      <4> QED BY <4>1 DEF HoldsDue, Empty, Nothing
    <3> QED BY <2>5, <2>7, <3>1, <3>2
  <2> QED BY <1>7, <2>6, <2>7 DEF Receive
<1>8. ASSUME NEW r \in Requests, NEW i \in Items, PutItem(r, i) PROVE CarryInv'
  <2> DEFINE q == [request[r] EXCEPT !.session.items = @ \cup {i}]
  <2>1. Active(r) /\ request' = [request EXCEPT ![r] = q]
    BY <1>8 DEF PutItem, Active
  <2>2. request[r].at = "handler" /\ q.at = "handler" /\ q.right = request[r].right
    BY <1>6, <1>8, <2>1 DEF PutItem, Record
  <2>3. DuringRequest(request[r])'
    <3>1. /\ q.sid = request[r].sid /\ q.drop = request[r].drop /\ q.setCookie = request[r].setCookie
          /\ q.session = [request[r].session EXCEPT !.items = @ \cup {i}]
      BY <1>6, <2>1 DEF Record
    <3>2. due' = [due EXCEPT !.items = @ \cup {i}] /\ UNCHANGED <<sessions, cookie, drawn>>
      BY <1>8 DEF PutItem
    <3>3. request[r].session \in Session /\ due \in Content
      BY <1>1, <1>6, <2>1 DEF SessionsTypeOK, Record
    <3> HIDE DEF q
    <3>4. HoldsDue(request[r].session) =>
              q.session.items = due'.items /\ q.session.flash \cap q.session.fresh = due'.flash
      BY <3>1, <3>2, <3>3 DEF HoldsDue, Session, Content
    <3>5. cookie \in {NoSid, q.sid, q.drop} \/ sessions'[cookie] = Empty
      BY <1>6, <2>1, <3>1, <3>2 DEF DuringRequest
    <3> QED BY <1>1, <1>6, <2>1, <2>2, <3>1, <3>2, <3>4, <3>5, StaysDuring DEF Answered
  <2>4. \A s \in Sids : s > drawn' => sessions'[s] = Empty
    BY <1>5, <1>8 DEF PutItem, OneByOne
  <2> HIDE DEF q
  <2> QED BY <1>1, <2>1, <2>2, <2>3, <2>4, RequestGoesOn
<1>9. ASSUME NEW r \in Requests, NEW m \in Messages, Flash(r, m) PROVE CarryInv'
  <2> DEFINE q == [request[r] EXCEPT !.session =
                       [request[r].session EXCEPT !.flash = @ \cup {m}, !.fresh = @ \cup {m}]]
  <2>1. Active(r) /\ request' = [request EXCEPT ![r] = q]
    BY <1>9 DEF Flash, Active
  <2>2. request[r].at \in {"handler", "render"} /\ q.at = request[r].at /\ q.right = request[r].right
    BY <1>6, <1>9, <2>1 DEF Flash, Record
  <2>3. DuringRequest(request[r])'
    <3>1. /\ q.sid = request[r].sid /\ q.drop = request[r].drop /\ q.setCookie = request[r].setCookie
          /\ q.session = [request[r].session EXCEPT !.flash = @ \cup {m}, !.fresh = @ \cup {m}]
      BY <1>6, <2>1 DEF Record
    <3>2. due' = [due EXCEPT !.flash = @ \cup {m}] /\ UNCHANGED <<sessions, cookie, drawn>>
      BY <1>9 DEF Flash
    <3>3. request[r].session \in Session /\ due \in Content
      BY <1>1, <1>6, <2>1 DEF SessionsTypeOK, Record
    <3> HIDE DEF q
    <3>4. HoldsDue(request[r].session) =>
              q.session.items = due'.items /\ q.session.flash \cap q.session.fresh = due'.flash
      BY <3>1, <3>2, <3>3 DEF HoldsDue, Session, Content
    <3>5. cookie \in {NoSid, q.sid, q.drop} \/ sessions'[cookie] = Empty
      BY <1>6, <2>1, <3>1, <3>2 DEF DuringRequest
    <3> QED BY <1>1, <1>6, <2>1, <2>2, <3>1, <3>2, <3>4, <3>5, StaysDuring DEF Answered
  <2>4. \A s \in Sids : s > drawn' => sessions'[s] = Empty
    BY <1>5, <1>6, <1>9, <2>1 DEF Flash, OneByOne
  <2> HIDE DEF q
  <2> QED BY <1>1, <2>1, <2>2, <2>3, <2>4, RequestGoesOn
<1>10. ASSUME NEW r \in Requests, Reflash(r) PROVE CarryInv'
  <2> DEFINE q == [request[r] EXCEPT !.session.fresh = @ \cup request[r].session.flash]
  <2>1. Active(r) /\ request' = [request EXCEPT ![r] = q]
    BY <1>10 DEF Reflash, Active
  <2>2. request[r].at = "handler" /\ q.at = "handler" /\ q.right = request[r].right
    BY <1>6, <1>10, <2>1 DEF Reflash, Record
  <2>3. DuringRequest(request[r])'
    <3>1. /\ q.sid = request[r].sid /\ q.drop = request[r].drop /\ q.setCookie = request[r].setCookie
          /\ q.session = [request[r].session EXCEPT !.fresh = @ \cup request[r].session.flash]
      BY <1>6, <2>1 DEF Record
    <3>2. due' = [due EXCEPT !.flash = @ \cup request[r].session.flash] /\ UNCHANGED <<sessions, cookie, drawn>>
      BY <1>10 DEF Reflash
    <3>3. request[r].session \in Session /\ due \in Content
      BY <1>1, <1>6, <2>1 DEF SessionsTypeOK, Record
    <3> HIDE DEF q
    <3>4. HoldsDue(request[r].session) =>
              q.session.items = due'.items /\ q.session.flash \cap q.session.fresh = due'.flash
      BY <3>1, <3>2, <3>3 DEF HoldsDue, Session, Content
    <3>5. cookie \in {NoSid, q.sid, q.drop} \/ sessions'[cookie] = Empty
      BY <1>6, <2>1, <3>1, <3>2 DEF DuringRequest
    <3> QED BY <1>1, <1>6, <2>1, <2>2, <3>1, <3>2, <3>4, <3>5, StaysDuring DEF Answered
  <2>4. \A s \in Sids : s > drawn' => sessions'[s] = Empty
    BY <1>5, <1>6, <1>10, <2>1 DEF Reflash, OneByOne
  <2> HIDE DEF q
  <2> QED BY <1>1, <2>1, <2>2, <2>3, <2>4, RequestGoesOn
<1>11. ASSUME NEW r \in Requests, NEW keeps \in BOOLEAN, Rotate(r, keeps) PROVE CarryInv'
  <2> DEFINE q == [request[r] EXCEPT !.sid = drawn + 1, !.drop = request[r].sid, !.setCookie = TRUE,
                       !.session = IF keeps THEN request[r].session ELSE Empty]
  <2>1. Active(r) /\ request' = [request EXCEPT ![r] = q]
    BY <1>11 DEF Rotate, Active
  <2>2. request[r].at = "handler" /\ q.at = "handler" /\ q.right = request[r].right
    BY <1>6, <1>11, <2>1 DEF Rotate, Record
  <2>3. DuringRequest(request[r])'
    <3>1. /\ request'[r] = q /\ q.sid = drawn + 1 /\ q.drop = request[r].sid
          /\ q.session = IF keeps THEN request[r].session ELSE Empty
      BY <1>1, <1>6, <2>1 DEF SessionsTypeOK, Record
    <3>2. /\ drawn' = drawn + 1 /\ cookie' = cookie /\ sessions' = sessions
          /\ due' = (IF keeps THEN due ELSE Nothing) /\ request[r].drop = 0
      BY <1>11 DEF Rotate
    <3>3. q.setCookie
      BY <1>6, <2>1 DEF Record
    <3> HIDE DEF q
    <3>4. HoldsDue(request[r].session) /\ (cookie \in {0, request[r].sid} \/ sessions[cookie] = Empty)
      BY <1>6, <2>1, <2>2, <3>2 DEF DuringRequest, Answered
    <3>5. HoldsDue(request[r].session)'
      <4>1. CASE keeps
        BY <3>1, <3>2, <3>4, <4>1 DEF HoldsDue
      <4>2. CASE ~keeps
        BY <3>1, <3>2, <4>2 DEF HoldsDue, Empty, Nothing
      <4> QED BY <4>1, <4>2
    <3>6. q.sid \in 1..drawn' /\ q.drop \in 0..drawn' /\ q.drop # q.sid /\ cookie # q.sid
      BY <1>6, <2>1, <3>1, <3>2
    <3> QED BY <2>2, <3>1, <3>2, <3>3, <3>4, <3>5, <3>6 DEF DuringRequest, Answered
  <2>4. \A s \in Sids : s > drawn' => sessions'[s] = Empty
    BY <1>5, <1>6, <1>11, <2>1 DEF Rotate, OneByOne, Sids
  <2> HIDE DEF q
  <2> QED BY <1>1, <2>1, <2>2, <2>3, <2>4, RequestGoesOn
<1>12. ASSUME NEW r \in Requests, NEW raises \in BOOLEAN, HandlerEnds(r, raises) PROVE CarryInv'
  <2> DEFINE q == [request[r] EXCEPT !.at = "forget", !.raised = raises]
  <2>1. Active(r) /\ request' = [request EXCEPT ![r] = q]
    BY <1>12 DEF HandlerEnds, Active
  <2>2. request[r].at = "handler" /\ q.at = "forget" /\ q.right = request[r].right
    BY <1>6, <1>12, <2>1 DEF HandlerEnds, Record
  <2>3. DuringRequest(request[r])'
    <3>1. q.sid = request[r].sid /\ q.drop = request[r].drop /\ q.setCookie = request[r].setCookie /\ q.session = request[r].session
      BY <1>6, <2>1 DEF Record
    <3>2. UNCHANGED <<sessions, cookie, drawn, due>>
      BY <1>12 DEF HandlerEnds
    <3> HIDE DEF q
    <3>3. cookie \in {NoSid, q.sid, q.drop} \/ sessions'[cookie] = Empty
      BY <1>6, <2>1, <3>1, <3>2 DEF DuringRequest
    <3> QED BY <1>1, <1>6, <2>1, <2>2, <3>1, <3>2, <3>3, StaysDuring DEF Answered, HoldsDue
  <2>4. \A s \in Sids : s > drawn' => sessions'[s] = Empty
    BY <1>5, <1>6, <1>12, <2>1 DEF HandlerEnds, OneByOne
  <2> HIDE DEF q
  <2> QED BY <1>1, <2>1, <2>2, <2>3, <2>4, RequestGoesOn
<1>13. ASSUME NEW r \in Requests, ForgetDropped(r) PROVE CarryInv'
  <2> DEFINE q == [request[r] EXCEPT !.drop = 0, !.at = IF request[r].at = "forget" THEN "save" ELSE "resave"]
  <2>1. Active(r) /\ request' = [request EXCEPT ![r] = q]
    BY <1>13 DEF ForgetDropped, Active, Answered
  <2>2. q.at = (IF request[r].at = "forget" THEN "save" ELSE "resave") /\ q.right = request[r].right
    BY <1>6, <1>13, <2>1 DEF ForgetDropped, Record
  <2>3. DuringRequest(request[r])'
    <3>1. /\ q.sid = request[r].sid /\ q.drop = 0 /\ q.setCookie = request[r].setCookie
          /\ q.session = request[r].session
      BY <1>6, <2>1 DEF Record
    <3>2. /\ sessions' = [s \in Sids |-> IF s = request[r].drop THEN Empty ELSE sessions[s]]
          /\ UNCHANGED <<cookie, drawn, due>> /\ request[r].at \in {"forget", "reforget"}
      BY <1>13 DEF ForgetDropped
    <3>3. cookie # 0 => cookie \in Sids
      BY <1>6, <2>1 DEF Sids
    <3> HIDE DEF q
    <3>4. cookie # 0 => sessions'[cookie] = IF cookie = request[r].drop THEN Empty ELSE sessions[cookie]
      BY <3>2, <3>3
    <3>5. cookie \in {0, q.sid, q.drop} \/ sessions'[cookie] = Empty
      BY <1>6, <2>1, <3>1, <3>4 DEF DuringRequest
    <3>6. q.at \in Answered <=> request[r].at \in Answered
      BY <2>2, <3>2 DEF Answered
    <3> QED BY <1>1, <1>6, <2>1, <3>1, <3>2, <3>5, <3>6, StaysDuring DEF HoldsDue
  <2>4. \A s \in Sids : s > drawn' => sessions'[s] = Empty
    BY <1>5, <1>6, <1>13, <2>1 DEF ForgetDropped, OneByOne
  <2> HIDE DEF q
  <2> QED BY <1>1, <2>1, <2>2, <2>3, <2>4, RequestGoesOn
<1>14. ASSUME NEW r \in Requests, SaveSession(r) PROVE CarryInv'
  <2> DEFINE q == [request[r] EXCEPT !.at = "render"]
  <2>1. Active(r) /\ request' = [request EXCEPT ![r] = q]
    BY <1>14 DEF SaveSession, Active
  <2>2. request[r].at = "save" /\ q.at = "render" /\ q.right = request[r].right
    BY <1>6, <1>14, <2>1 DEF SaveSession, Record
  <2>3. DuringRequest(request[r])'
    <3>1. q.sid = request[r].sid /\ q.drop = request[r].drop /\ q.setCookie = request[r].setCookie /\ q.session = request[r].session
      BY <1>6, <2>1 DEF Record
    <3>2. /\ sessions' = [sessions EXCEPT ![request[r].sid] = request[r].session]
          /\ UNCHANGED <<cookie, drawn, due>>
      BY <1>14 DEF SaveSession
    <3>3. cookie # 0 => cookie \in Sids
      BY <1>6, <2>1 DEF Sids
    <3> HIDE DEF q
    <3>4. cookie \notin {0, q.sid} => sessions'[cookie] = sessions[cookie]
      BY <1>1, <3>1, <3>2, <3>3 DEF SessionsTypeOK
    <3>5. cookie \in {0, q.sid, q.drop} \/ sessions'[cookie] = Empty
      BY <1>6, <2>1, <3>1, <3>4 DEF DuringRequest
    <3> QED BY <1>1, <1>6, <2>1, <2>2, <3>1, <3>2, <3>5, StaysDuring DEF Answered, HoldsDue
  <2>4. \A s \in Sids : s > drawn' => sessions'[s] = Empty
    BY <1>5, <1>6, <1>14, <2>1 DEF SaveSession, OneByOne, Sids
  <2> HIDE DEF q
  <2> QED BY <1>1, <2>1, <2>2, <2>3, <2>4, RequestGoesOn
<1>15. ASSUME NEW r \in Requests, SaveFails(r) PROVE CarryInv'
  <2> DEFINE q == [request[r] EXCEPT !.raised = TRUE, !.at = "render"]
  <2>1. Active(r) /\ request' = [request EXCEPT ![r] = q]
    BY <1>15 DEF SaveFails, Active
  <2>2. request[r].at \in {"forget", "save"} /\ q.at = "render" /\ q.right = request[r].right
    BY <1>6, <1>15, <2>1 DEF SaveFails, Record
  <2>3. DuringRequest(request[r])'
    <3>1. q.sid = request[r].sid /\ q.drop = request[r].drop /\ q.setCookie = request[r].setCookie /\ q.session = request[r].session
      BY <1>6, <2>1 DEF Record
    <3>2. UNCHANGED <<sessions, cookie, drawn, due>>
      BY <1>15 DEF SaveFails
    <3> HIDE DEF q
    <3>3. cookie \in {NoSid, q.sid, q.drop} \/ sessions'[cookie] = Empty
      BY <1>6, <2>1, <3>1, <3>2 DEF DuringRequest
    <3> QED BY <1>1, <1>6, <2>1, <2>2, <3>1, <3>2, <3>3, StaysDuring DEF Answered, HoldsDue
  <2>4. \A s \in Sids : s > drawn' => sessions'[s] = Empty
    BY <1>5, <1>6, <1>15, <2>1 DEF SaveFails, OneByOne
  <2> HIDE DEF q
  <2> QED BY <1>1, <2>1, <2>2, <2>3, <2>4, RequestGoesOn
<1>16. ASSUME NEW r \in Requests, Respond(r) PROVE CarryInv'
  <2> DEFINE q == [request[r] EXCEPT !.at = "reforget"]
  <2>1. Active(r) /\ request' = [request EXCEPT ![r] = q]
    BY <1>16 DEF Respond, Active
  <2>2. request[r].at = "render" /\ q.at = "reforget" /\ q.right = request[r].right
    BY <1>6, <1>16, <2>1 DEF Respond, Record
  <2>3. DuringRequest(request[r])'
    <3>1. /\ request'[r] = q /\ q.session = request[r].session
          /\ q.sid = request[r].sid /\ q.drop = request[r].drop /\ q.setCookie = request[r].setCookie
      BY <1>1, <1>6, <2>1 DEF SessionsTypeOK, Record
    <3>2. /\ cookie' = (IF q.setCookie /\ ~request[r].raised THEN q.sid ELSE cookie)
          /\ due' = (IF q.setCookie /\ request[r].raised THEN Nothing ELSE due)
          /\ sessions' = sessions /\ drawn' = drawn
      BY <1>16, <3>1 DEF Respond
    <3> HIDE DEF q
    <3>3. /\ HoldsDue(request[r].session) /\ (cookie = q.sid \/ q.setCookie)
          /\ q.setCookie => cookie # q.sid
          /\ cookie \in {NoSid, q.sid, q.drop} \/ sessions[cookie] = Empty
          /\ q.sid \in 1..drawn /\ q.drop \in 0..drawn /\ q.drop # q.sid
      BY <1>6, <2>1, <2>2, <3>1 DEF DuringRequest, Answered
    <3>4. \/ HoldsDue(request[r].session)' /\ cookie' = q.sid
          \/ due' = Nothing /\ cookie' # q.sid
      <4>1. CASE q.setCookie /\ request[r].raised
        BY <3>2, <3>3, <4>1
      <4>2. CASE ~(q.setCookie /\ request[r].raised)
        BY <3>1, <3>2, <3>3, <4>2 DEF HoldsDue
      <4> QED BY <4>1, <4>2
    <3>5. cookie' \in {NoSid, q.sid, q.drop} \/ sessions'[cookie'] = Empty
      BY <3>2, <3>3
    <3> QED BY <2>2, <3>1, <3>2, <3>3, <3>4, <3>5 DEF DuringRequest, Answered
  <2>4. \A s \in Sids : s > drawn' => sessions'[s] = Empty
    BY <1>5, <1>6, <1>16, <2>1 DEF Respond, OneByOne
  <2> HIDE DEF q
  <2> QED BY <1>1, <2>1, <2>2, <2>3, <2>4, RequestGoesOn
<1>17. ASSUME NEW r \in Requests, SaveLate(r) PROVE CarryInv'
  <2>1. Active(r) /\ request[r].at = "resave"
    BY <1>17 DEF SaveLate, Active
  <2>2. /\ request'[r].at = "over" /\ request'[r].right = request[r].right
        /\ \A p \in Requests \ {r} : request'[p] = request[p] /\ ~Active(p)
    BY <1>1, <1>17, <2>1, OthersRest DEF SaveLate, Answer, NoRequest, SessionsTypeOK
  <2>3. \A p \in Requests : ~Active(p)'
    BY <2>2 DEF Active
  <2>4. SessionCarried'
    BY <2>2 DEF SessionCarried, SessionInv, CarryInv
  <2>5. OneByOne'
    <3>1. \A s \in Sids : s > drawn' => sessions'[s] = Empty
      BY <1>1, <1>5, <1>6, <1>17, <2>1 DEF SaveLate, OneByOne, SessionsTypeOK
    <3>2. ASSUME NEW p \in Requests, NEW o \in Requests, p < o, request'[o].at # "idle"
          PROVE  request'[p].at = "over"
      BY <1>5, <2>1, <2>2, <3>2 DEF OneByOne
    <3> QED BY <3>1, <3>2 DEF OneByOne
  <2>6. BetweenRequests'
    <3> DEFINE q == request[r]
    <3>1. /\ sessions' = [sessions EXCEPT ![q.sid] = q.session] /\ sessions \in [Sids -> Session]
          /\ cookie' = cookie /\ due' = due /\ q.sid \in Sids
      BY <1>1, <1>6, <1>17, <2>1 DEF SaveLate, SessionsTypeOK
    <3>2. /\ q.drop = 0
          /\ \/ HoldsDue(q.session) /\ cookie = q.sid
             \/ due = Nothing /\ cookie # q.sid
          /\ cookie \in {0, q.sid, q.drop} \/ sessions[cookie] = Empty
      BY <1>6, <2>1 DEF DuringRequest, Answered
    <3>3. CASE cookie = q.sid
      BY <3>1, <3>2, <3>3 DEF BetweenRequests, HoldsDue, Sids
    <3>4. CASE cookie = 0
      BY <3>1, <3>2, <3>4 DEF BetweenRequests, Sids
    <3>5. CASE cookie # 0 /\ cookie # q.sid
      <4>1. due = Nothing /\ sessions'[cookie] = Empty
        BY <1>1, <3>1, <3>2, <3>5 DEF SessionsTypeOK, Sids
      <4>2. HoldsDue(sessions[cookie])'
        BY <3>1, <4>1 DEF HoldsDue, Empty, Nothing
      <4> QED BY <3>1, <3>5, <4>2 DEF BetweenRequests
    <3> QED BY <3>3, <3>4, <3>5
  <2> QED BY <2>3, <2>4, <2>5, <2>6 DEF CarryInv
<1> QED
  BY <1>4, <1>7, <1>8, <1>9, <1>10, <1>11, <1>12, <1>13, <1>14, <1>15, <1>16, <1>17 DEF SessionStep, LateSaveFails

-----------------------------------------------------------------------------
(* What keeps a user logged in *)

\* A token that is or was exchanged is revoked; it is exchanged by one request, or has one
\* successor.
OnceFor(t) ==
    \/ Issuing(t) = {} /\ Successors(t) = {}
    \/ tokens[t].revoked /\ (\E x \in Calls : Issuing(t) = {x}) /\ Successors(t) = {}
    \/ tokens[t].revoked /\ Issuing(t) = {} /\ \E s \in DOMAIN tokens : Successors(t) = {s}

ExchangeInv ==
    /\ \A x \in Calls :
          /\ exchange[x].at = "idle" => exchange[x] = NotExchanging
          /\ exchange[x].at = "issue" => exchange[x].won
          /\ exchange[x].won => exchange[x].token \in DOMAIN tokens
    /\ \A s \in DOMAIN tokens : tokens[s].from < s
    /\ \A t \in DOMAIN tokens : OnceFor(t)

\* A validator that was rotated is not the row's any more.
RotateInv ==
    /\ validator <= made
    /\ \A x \in Calls : recall[x].at = "rotate" => recall[x].read # 0
    /\ \A v \in DOMAIN rotatedBy :
          /\ v = validator \/ v > made => rotatedBy[v] = {}
          /\ \A x, y \in rotatedBy[v] : x = y

\* Requests that come one by one find the row they hold the validator of.
RecallInv ==
    ~crossed =>
        /\ \A x, y \in Calls : recall[x].at # "idle" /\ recall[y].at # "idle" => x = y
        /\ ~Recalling => remembered = validator
        /\ \A x \in Calls :
              /\ recall[x].at # "delete"
              /\ recall[x].at = "rotate" => recall[x].read = validator
              /\ recall[x].at = "answer" => recall[x].answer = validator

LoginInv == LoginsTypeOK /\ ExchangeInv /\ RotateInv /\ RecallInv

TokenRow == [revoked : BOOLEAN, from : 0..MaxTokens]

ExchangeTypes ==
    /\ tokens \in Seq(TokenRow) /\ Len(tokens) <= MaxTokens
    /\ exchange \in [Calls -> [at : {"idle", "found", "issue", "revoke"},
                                  token : 0..MaxTokens, won : BOOLEAN]]
RecallTypes ==
    /\ validator \in Versions /\ remembered \in Versions /\ made \in Versions
    /\ recall \in [Calls -> [at : {"idle", "delete", "rotate", "answer"},
                                read : Versions, answer : Versions]]
    /\ rotatedBy \in [1..MaxValidators -> SUBSET Calls] /\ crossed \in BOOLEAN

LEMMA LoginTypes ==
  /\ LoginsTypeOK <=> ExchangeTypes /\ RecallTypes
  /\ LoginsTypeOK' <=> (ExchangeTypes /\ RecallTypes)'
BY DEF LoginsTypeOK, ExchangeTypes, RecallTypes, TokenRow

LEMMA LoginBegins == LoginsInit => LoginInv
<1> SUFFICES ASSUME LoginsInit PROVE LoginInv
  OBVIOUS
<1> USE LoginsAssumption DEF LoginsInit
<1>1. LoginsTypeOK
  <2>1. ExchangeTypes
    BY EmptySeq DEF ExchangeTypes, NotExchanging
  <2>2. NotRecalling \in [at : {"idle", "delete", "rotate", "answer"}, read : Versions, answer : Versions]
    BY DEF NotRecalling, Versions
  <2>3. recall \in [Calls -> [at : {"idle", "delete", "rotate", "answer"}, read : Versions,
                              answer : Versions]]
    BY <2>2
  <2>4. 0 \in Versions /\ rotatedBy \in [1..MaxValidators -> SUBSET Calls]
    BY DEF Versions
  <2>5. RecallTypes
    BY <2>3, <2>4 DEF RecallTypes
  <2> QED BY <2>1, <2>5, LoginTypes
<1>2. ExchangeInv
  BY DEF ExchangeInv, NotExchanging
<1>3. RotateInv /\ RecallInv
  BY DEF RotateInv, RecallInv, NotRecalling, Recalling
<1> QED BY <1>1, <1>2, <1>3 DEF LoginInv

Revokes(hit) ==
    tokens' = [t \in DOMAIN tokens |->
                  IF t \in hit THEN [tokens[t] EXCEPT !.revoked = TRUE] ELSE tokens[t]]

\* Revoking tokens keeps them otherwise.
LEMMA Revoking ==
  ASSUME ExchangeTypes, NEW hit \in SUBSET DOMAIN tokens, Revokes(hit)
  PROVE  /\ tokens' \in Seq(TokenRow) /\ Len(tokens') = Len(tokens) /\ DOMAIN tokens' = DOMAIN tokens
         /\ \A t \in DOMAIN tokens : /\ tokens'[t].from = tokens[t].from
                                     /\ tokens'[t].revoked = (tokens[t].revoked \/ t \in hit)
<1>1. tokens \in Seq(TokenRow) /\ Len(tokens) \in Nat /\ DOMAIN tokens = 1..Len(tokens)
  BY LenProperties DEF ExchangeTypes
<1>2. \A t \in DOMAIN tokens : tokens[t] \in TokenRow
  BY <1>1
<1>3. \A t \in DOMAIN tokens : /\ tokens'[t] \in TokenRow /\ tokens'[t].from = tokens[t].from
                               /\ tokens'[t].revoked = (tokens[t].revoked \/ t \in hit)
  BY <1>2 DEF TokenRow, Revokes
<1>4. tokens' \in [1..Len(tokens) -> TokenRow]
  BY <1>1, <1>3 DEF Revokes
<1>5. tokens' \in Seq(TokenRow) /\ Len(tokens') = Len(tokens)
  BY <1>1, <1>4, SeqDef, LenProperties
<1> QED BY <1>1, <1>3, <1>4, <1>5

\* A token that is issued is the last one, and a successor of one token.
LEMMA Issuance ==
  ASSUME ExchangeTypes, ExchangeInv, NEW from \in 0..Len(tokens), IssueRefreshToken(from)
  PROVE  \E n \in Nat :
         /\ tokens' \in Seq(TokenRow) /\ Len(tokens') <= MaxTokens
         /\ DOMAIN tokens' = DOMAIN tokens \cup {n} /\ n \notin DOMAIN tokens
         /\ tokens'[n].from = from
         /\ \A t \in DOMAIN tokens : t < n /\ tokens'[t] = tokens[t]
         /\ Successors(n)' = {}
         /\ \A t \in DOMAIN tokens :
               Successors(t)' = IF t = from THEN Successors(t) \cup {n} ELSE Successors(t)
<1> DEFINE fresh == [revoked |-> FALSE, from |-> from]
<1>1. Len(tokens) \in Nat /\ DOMAIN tokens = 1..Len(tokens) /\ tokens \in Seq(TokenRow)
  BY LenProperties DEF ExchangeTypes
<1> PICK n : n = Len(tokens) + 1
  OBVIOUS
<1>2. fresh \in TokenRow
  BY <1>1, LoginsAssumption DEF TokenRow, ExchangeTypes
<1>3. /\ tokens' = Append(tokens, fresh) /\ Len(tokens) < MaxTokens
  BY DEF IssueRefreshToken
<1>4. /\ tokens' \in Seq(TokenRow) /\ Len(tokens') = n /\ tokens'[n] = fresh
      /\ \A t \in 1..Len(tokens) : tokens'[t] = tokens[t]
  BY <1>1, <1>2, <1>3, AppendProperties
<1>5. DOMAIN tokens' = 1..n
  BY <1>4, LenProperties
<1>6. Len(tokens') <= MaxTokens
  BY <1>1, <1>3, <1>4, LoginsAssumption
<1>7. DOMAIN tokens' = DOMAIN tokens \cup {n} /\ n \notin DOMAIN tokens /\ n \in Nat
  BY <1>1, <1>5
<1>8. tokens'[n].from = from
  BY <1>4
<1>9. \A s \in DOMAIN tokens : tokens[s].from < n /\ s < n
  <2>1. ASSUME NEW s \in DOMAIN tokens PROVE tokens[s].from \in Nat /\ s \in Nat /\ s <= Len(tokens)
    <3>1. tokens[s] \in TokenRow
      BY <1>1, ElementOfSeq
    <3> QED BY <1>1, <3>1, LoginsAssumption DEF TokenRow
  <2> QED BY <1>1, <2>1 DEF ExchangeInv
<1>10. Successors(n)' = {}
  BY <1>1, <1>4, <1>7, <1>8, <1>9 DEF Successors
<1>11. \A t \in DOMAIN tokens :
               Successors(t)' = IF t = from THEN Successors(t) \cup {n} ELSE Successors(t)
  BY <1>1, <1>4, <1>7, <1>8 DEF Successors
<1> QED BY <1>1, <1>4, <1>6, <1>7, <1>8, <1>9, <1>10, <1>11

\* Nothing that revokes tokens or ends exchanges lets one be exchanged again.
LEMMA OnceKept ==
  ASSUME NEW t \in DOMAIN tokens, OnceFor(t), DOMAIN tokens' = DOMAIN tokens,
         \A s \in DOMAIN tokens : tokens'[s].from = tokens[s].from,
         tokens[t].revoked => tokens'[t].revoked,
         Issuing(t)' \subseteq Issuing(t)
  PROVE  OnceFor(t)'
<1>1. Successors(t)' = Successors(t)
  BY DEF Successors
<1>2. CASE Issuing(t) = {}
  BY <1>1, <1>2 DEF OnceFor
<1>3. ASSUME NEW x \in Calls, Issuing(t) = {x}, tokens[t].revoked, Successors(t) = {}
      PROVE  OnceFor(t)'
  <2>1. Issuing(t)' = {} \/ Issuing(t)' = {x}
    BY <1>3
  <2> QED BY <1>1, <1>3, <2>1 DEF OnceFor
<1> QED BY <1>2, <1>3 DEF OnceFor

\* A step of one exchange.
LEMMA OneExchange ==
  ASSUME ExchangeTypes, NEW x \in Calls,
         NEW e \in [at : {"idle", "found", "issue", "revoke"}, token : 0..MaxTokens, won : BOOLEAN],
         exchange' = [exchange EXCEPT ![x] = e]
  PROVE  /\ exchange' \in [Calls -> [at : {"idle", "found", "issue", "revoke"},
                                     token : 0..MaxTokens, won : BOOLEAN]]
         /\ exchange'[x] = e /\ \A y \in Calls \ {x} : exchange'[y] = exchange[y]
         /\ \A t : Issuing(t)' = IF e.token = t /\ e.won THEN Issuing(t) \cup {x} ELSE Issuing(t) \ {x}
BY DEF ExchangeTypes, Issuing

LEMMA ExchangeNext ==
  ASSUME ExchangeTypes, ExchangeInv,
         \/ SignIn \/ LogoutEverywhere \/ UNCHANGED refreshVars
         \/ \E x \in Calls : \/ ReadToken(x) \/ RevokeFamily(x) \/ IssueSuccessor(x) \/ ExchangeDies(x)
                             \/ \E t \in DOMAIN tokens : ClaimToken(x, t)
  PROVE  ExchangeTypes' /\ ExchangeInv'
<1>0. /\ Len(tokens) \in Nat /\ Len(tokens) <= MaxTokens /\ DOMAIN tokens = 1..Len(tokens)
      /\ MaxTokens \in Nat
      /\ NotExchanging \in [at : {"idle", "found", "issue", "revoke"}, token : 0..MaxTokens, won : BOOLEAN]
  BY LoginsAssumption, LenProperties DEF ExchangeTypes, NotExchanging
<1>1. CASE SignIn
  <2>1. IssueRefreshToken(0) /\ exchange' = exchange /\ 0 \in 0..Len(tokens)
    BY <1>0, <1>1 DEF SignIn
  <2>2. PICK n \in Nat :
        /\ tokens' \in Seq(TokenRow) /\ Len(tokens') <= MaxTokens
        /\ DOMAIN tokens' = DOMAIN tokens \cup {n} /\ n \notin DOMAIN tokens
        /\ tokens'[n].from = 0
        /\ \A t \in DOMAIN tokens : t < n /\ tokens'[t] = tokens[t]
        /\ Successors(n)' = {}
        /\ \A t \in DOMAIN tokens :
               Successors(t)' = IF t = 0 THEN Successors(t) \cup {n} ELSE Successors(t)
    BY <2>1, Issuance
  <2>3. ExchangeTypes'
    BY <2>1, <2>2 DEF ExchangeTypes
  <2>4. \A t : Issuing(t)' = Issuing(t)
    BY <2>1 DEF Issuing
  <2>5. OnceFor(n)'
    <3>1. Issuing(n) = {}
      BY <2>2 DEF ExchangeInv, Issuing
    <3> QED BY <2>2, <2>4, <3>1 DEF OnceFor
  <2>6. ASSUME NEW t \in DOMAIN tokens PROVE OnceFor(t)'
    <3>1. Successors(t)' = Successors(t) /\ tokens'[t] = tokens[t] /\ Issuing(t)' = Issuing(t)
      BY <1>0, <2>2, <2>4
    <3> QED BY <2>2, <3>1 DEF OnceFor, ExchangeInv
  <2>7. ExchangeInv'
    <3>1. \A s \in DOMAIN tokens' : tokens'[s].from < s
      BY <1>0, <2>2 DEF ExchangeInv
    <3>2. \A t \in DOMAIN tokens' : OnceFor(t)'
      BY <2>2, <2>5, <2>6
    <3>3. \A x \in Calls : /\ exchange'[x].at = "idle" => exchange'[x] = NotExchanging
                           /\ exchange'[x].at = "issue" => exchange'[x].won
                           /\ exchange'[x].won => exchange'[x].token \in DOMAIN tokens'
      BY <2>1, <2>2 DEF ExchangeInv
    <3> QED BY <3>1, <3>2, <3>3 DEF ExchangeInv
  <2> QED BY <2>3, <2>7
<1>2. CASE UNCHANGED refreshVars
  BY <1>2 DEF refreshVars, ExchangeTypes, ExchangeInv, OnceFor, Issuing, Successors
<1>3. ASSUME NEW x \in Calls, ReadToken(x) PROVE ExchangeTypes' /\ ExchangeInv'
  <2> DEFINE e == [exchange[x] EXCEPT !.at = IF exchange[x].won THEN "issue" ELSE "revoke"]
  <2>1. /\ e \in [at : {"idle", "found", "issue", "revoke"}, token : 0..MaxTokens, won : BOOLEAN]
        /\ e.token = exchange[x].token /\ e.won = exchange[x].won
        /\ e.at # "idle" /\ (e.at = "issue" => e.won)
    BY DEF ExchangeTypes
  <2>2. exchange' = [exchange EXCEPT ![x] = e] /\ tokens' = tokens
    BY <1>3 DEF ReadToken
  <2> HIDE DEF e
  <2>3. /\ ExchangeTypes' /\ exchange'[x] = e /\ \A y \in Calls \ {x} : exchange'[y] = exchange[y]
        /\ \A t : Issuing(t)' \subseteq Issuing(t)
    BY <2>1, <2>2, OneExchange DEF ExchangeTypes, Issuing
  <2> QED BY <2>1, <2>2, <2>3, OnceKept DEF ExchangeInv
<1>4. ASSUME NEW x \in Calls, exchange' = [exchange EXCEPT ![x] = NotExchanging],
             NEW hit \in SUBSET DOMAIN tokens, Revokes(hit)
      PROVE  ExchangeTypes' /\ ExchangeInv'
  <2>1. /\ tokens' \in Seq(TokenRow) /\ Len(tokens') = Len(tokens) /\ DOMAIN tokens' = DOMAIN tokens
        /\ \A t \in DOMAIN tokens : /\ tokens'[t].from = tokens[t].from
                                    /\ tokens[t].revoked => tokens'[t].revoked
    BY <1>4, Revoking
  <2>2. /\ exchange' \in [Calls -> [at : {"idle", "found", "issue", "revoke"},
                                    token : 0..MaxTokens, won : BOOLEAN]]
        /\ exchange'[x] = NotExchanging /\ \A y \in Calls \ {x} : exchange'[y] = exchange[y]
        /\ \A t : Issuing(t)' \subseteq Issuing(t)
    <3>1. NotExchanging.won = FALSE
      BY DEF NotExchanging
    <3>2. /\ exchange' \in [Calls -> [at : {"idle", "found", "issue", "revoke"},
                                      token : 0..MaxTokens, won : BOOLEAN]]
          /\ exchange'[x] = NotExchanging /\ \A y \in Calls \ {x} : exchange'[y] = exchange[y]
          /\ \A t : Issuing(t)' = IF NotExchanging.token = t /\ NotExchanging.won
                                  THEN Issuing(t) \cup {x} ELSE Issuing(t) \ {x}
      BY <1>0, <1>4, OneExchange
    <3> QED BY <3>1, <3>2
  <2>3. ExchangeTypes'
    BY <2>1, <2>2 DEF ExchangeTypes
  <2>4. \A t \in DOMAIN tokens' : OnceFor(t)'
    BY <2>1, <2>2, OnceKept DEF ExchangeInv
  <2>5. NotExchanging.won = FALSE /\ NotExchanging.at = "idle"
    BY DEF NotExchanging
  <2> QED BY <2>1, <2>2, <2>3, <2>4, <2>5 DEF ExchangeInv
<1>5. ASSUME NEW x \in Calls, RevokeFamily(x) \/ ExchangeDies(x) PROVE ExchangeTypes' /\ ExchangeInv'
  <2>1. CASE RevokeFamily(x)
    <3>1. Revokes(DOMAIN tokens)
      BY <2>1 DEF RevokeFamily, RevokeAll, Revokes
    <3> QED BY <1>4, <2>1, <3>1 DEF RevokeFamily
  <2>2. CASE ExchangeDies(x)
    <3>1. Revokes({})
      BY <1>0, <2>2, LenProperties DEF ExchangeDies, ExchangeTypes, Revokes
    <3> QED BY <1>4, <2>2, <3>1 DEF ExchangeDies
  <2> QED BY <1>5, <2>1, <2>2
<1>6. CASE LogoutEverywhere
  <2>1. Revokes(DOMAIN tokens) /\ exchange' = exchange
    BY <1>6 DEF LogoutEverywhere, RevokeAll, Revokes
  <2>2. /\ tokens' \in Seq(TokenRow) /\ Len(tokens') = Len(tokens) /\ DOMAIN tokens' = DOMAIN tokens
        /\ \A t \in DOMAIN tokens : /\ tokens'[t].from = tokens[t].from
                                    /\ tokens[t].revoked => tokens'[t].revoked
    BY <2>1, Revoking
  <2>3. \A t \in DOMAIN tokens' : OnceFor(t)'
    BY <2>1, <2>2, OnceKept DEF ExchangeInv, Issuing
  <2> QED BY <2>1, <2>2, <2>3 DEF ExchangeInv, ExchangeTypes
<1>7. ASSUME NEW x \in Calls, NEW t \in DOMAIN tokens, ClaimToken(x, t)
      PROVE  ExchangeTypes' /\ ExchangeInv'
  <2> DEFINE e == [at |-> "found", token |-> t, won |-> ~tokens[t].revoked]
  <2>1. /\ e \in [at : {"idle", "found", "issue", "revoke"}, token : 0..MaxTokens, won : BOOLEAN]
        /\ e.token = t /\ e.won = ~tokens[t].revoked /\ e.at = "found"
    BY <1>0
  <2>2. exchange' = [exchange EXCEPT ![x] = e] /\ exchange[x].at = "idle"
    BY <1>7 DEF ClaimToken, ClaimsToken
  <2>3. Revokes({t})
    BY <1>0, <1>7, LenProperties DEF ClaimToken, ExchangeTypes, Revokes
  <2> HIDE DEF e
  <2>4. /\ tokens' \in Seq(TokenRow) /\ Len(tokens') = Len(tokens) /\ DOMAIN tokens' = DOMAIN tokens
        /\ \A s \in DOMAIN tokens : /\ tokens'[s].from = tokens[s].from
                                    /\ tokens'[s].revoked = (tokens[s].revoked \/ s \in {t})
    BY <2>3, Revoking
  <2>5. /\ exchange' \in [Calls -> [at : {"idle", "found", "issue", "revoke"},
                                    token : 0..MaxTokens, won : BOOLEAN]]
        /\ exchange'[x] = e /\ \A y \in Calls \ {x} : exchange'[y] = exchange[y]
        /\ \A s : Issuing(s)' = IF e.token = s /\ e.won THEN Issuing(s) \cup {x} ELSE Issuing(s) \ {x}
    BY <2>1, <2>2, OneExchange
  <2>6. ExchangeTypes'
    BY <2>4, <2>5 DEF ExchangeTypes
  <2>7. ASSUME NEW s \in DOMAIN tokens PROVE OnceFor(s)'
    <3>1. CASE s = t /\ ~tokens[t].revoked
      <4>1. Issuing(t) = {} /\ Successors(t) = {}
        BY <3>1 DEF ExchangeInv, OnceFor
      <4>2. Issuing(t)' = {x} /\ Successors(t)' = {} /\ tokens'[t].revoked
        BY <2>1, <2>4, <2>5, <3>1, <4>1 DEF Successors
      <4> QED BY <3>1, <4>2 DEF OnceFor
    <3>2. CASE s # t \/ tokens[t].revoked
      <4>1. Issuing(s)' \subseteq Issuing(s)
        BY <2>1, <2>5, <3>2
      <4> QED BY <2>4, <4>1, OnceKept DEF ExchangeInv
    <3> QED BY <3>1, <3>2
  <2>8. \A s \in DOMAIN tokens' : tokens'[s].from = tokens[s].from /\ OnceFor(s)'
    BY <2>4, <2>7
  <2>9. \A y \in Calls : /\ exchange'[y].at = "idle" => exchange'[y] = NotExchanging
                         /\ exchange'[y].at = "issue" => exchange'[y].won
                         /\ exchange'[y].won => exchange'[y].token \in DOMAIN tokens'
    BY <2>1, <2>4, <2>5 DEF ExchangeInv
  <2> QED BY <2>4, <2>6, <2>8, <2>9 DEF ExchangeInv
<1>8. ASSUME NEW x \in Calls, IssueSuccessor(x) PROVE ExchangeTypes' /\ ExchangeInv'
  <2> DEFINE from == exchange[x].token
  <2>1. exchange[x].won /\ from \in DOMAIN tokens /\ from \in 0..Len(tokens)
    BY <1>0, <1>8 DEF IssueSuccessor, ExchangeInv
  <2>2. PICK n \in Nat :
        /\ tokens' \in Seq(TokenRow) /\ Len(tokens') <= MaxTokens
        /\ DOMAIN tokens' = DOMAIN tokens \cup {n} /\ n \notin DOMAIN tokens
        /\ tokens'[n].from = from
        /\ \A t \in DOMAIN tokens : t < n /\ tokens'[t] = tokens[t]
        /\ Successors(n)' = {}
        /\ \A t \in DOMAIN tokens :
               Successors(t)' = IF t = from THEN Successors(t) \cup {n} ELSE Successors(t)
    BY <1>8, <2>1, Issuance DEF IssueSuccessor
  <2>3. NotExchanging.won = FALSE /\ NotExchanging.at = "idle"
    BY DEF NotExchanging
  <2>4. /\ exchange' \in [Calls -> [at : {"idle", "found", "issue", "revoke"},
                                    token : 0..MaxTokens, won : BOOLEAN]]
        /\ exchange'[x] = NotExchanging /\ \A y \in Calls \ {x} : exchange'[y] = exchange[y]
        /\ \A t : Issuing(t)' = Issuing(t) \ {x}
    BY <1>0, <1>8, <2>3, OneExchange DEF IssueSuccessor
  <2>5. ExchangeTypes'
    BY <2>2, <2>4 DEF ExchangeTypes
  <2>6. x \in Issuing(from)
    BY <2>1 DEF Issuing
  <2>7. ASSUME NEW t \in DOMAIN tokens PROVE OnceFor(t)'
    <3>1. OnceFor(t) /\ tokens'[t] = tokens[t] /\ Issuing(t)' = Issuing(t) \ {x}
      BY <2>2, <2>4 DEF ExchangeInv
    <3>2. CASE t = from
      <4>1. Issuing(t) = {x} /\ Successors(t) = {} /\ tokens[t].revoked
        BY <2>6, <3>1, <3>2 DEF OnceFor
      <4>2. Issuing(t)' = {} /\ Successors(t)' = {n} /\ n \in DOMAIN tokens'
        BY <2>2, <3>1, <3>2, <4>1
      <4> QED BY <3>1, <4>1, <4>2 DEF OnceFor
    <3>3. CASE t # from
      <4>1. Successors(t)' = Successors(t) /\ (Issuing(t)' = Issuing(t) \/ Issuing(t)' = {})
        BY <2>2, <3>1, <3>3 DEF OnceFor
      <4> QED BY <2>2, <3>1, <4>1 DEF OnceFor
    <3> QED BY <3>2, <3>3
  <2>8. OnceFor(n)'
    <3>1. Issuing(n) = {}
      BY <2>2 DEF ExchangeInv, Issuing
    <3> QED BY <2>2, <2>4, <3>1 DEF OnceFor
  <2>9. \A s \in DOMAIN tokens' : tokens'[s].from < s
    BY <1>0, <2>1, <2>2 DEF ExchangeInv
  <2>10. \A y \in Calls : /\ exchange'[y].at = "idle" => exchange'[y] = NotExchanging
                          /\ exchange'[y].at = "issue" => exchange'[y].won
                          /\ exchange'[y].won => exchange'[y].token \in DOMAIN tokens'
    BY <2>2, <2>3, <2>4 DEF ExchangeInv
  <2> QED BY <2>2, <2>5, <2>7, <2>8, <2>9, <2>10 DEF ExchangeInv
<1> QED BY <1>1, <1>2, <1>3, <1>5, <1>6, <1>7, <1>8

\* A step of one recall.
LEMMA OneRecall ==
  ASSUME RecallTypes, NEW x \in Calls,
         NEW c \in [at : {"idle", "delete", "rotate", "answer"}, read : Versions, answer : Versions],
         recall' = [recall EXCEPT ![x] = c]
  PROVE  /\ recall' \in [Calls -> [at : {"idle", "delete", "rotate", "answer"},
                                   read : Versions, answer : Versions]]
         /\ recall'[x] = c /\ \A y \in Calls \ {x} : recall'[y] = recall[y]
BY DEF RecallTypes

LEMMA RecallNext ==
  ASSUME RecallTypes, RotateInv, RecallInv,
         \/ RememberLogin \/ UNCHANGED rememberVars \/ \E here \in BOOLEAN : ForgetRow(here)
         \/ \E x \in Calls : \/ DeleteRow(x) \/ RotateRow(x)
                             \/ \E expired \in BOOLEAN : ReadRow(x, expired)
                             \/ \E lose \in BOOLEAN : AnswerRecall(x, lose)
  PROVE  RecallTypes' /\ RotateInv' /\ RecallInv'
<1>0. /\ validator \in Nat /\ remembered \in Nat /\ made \in Nat /\ made <= MaxValidators
      /\ MaxValidators \in Nat /\ DOMAIN rotatedBy = 1..MaxValidators /\ 0 \in Versions
  BY LoginsAssumption DEF RecallTypes, Versions
<1>1. CASE RememberLogin
  <2>1. /\ made' = made + 1 /\ validator' = made + 1 /\ remembered' = made + 1 /\ made + 1 \in Versions
        /\ recall' = recall /\ rotatedBy' = rotatedBy /\ crossed' = FALSE
        /\ \A x \in Calls : recall[x].at = "idle"
    BY <1>0, <1>1 DEF RememberLogin, MakeValidator, Versions
  <2>2. RecallTypes'
    BY <2>1 DEF RecallTypes
  <2>3. RotateInv'
    BY <1>0, <2>1 DEF RotateInv
  <2>4. RecallInv'
    BY <2>1 DEF RecallInv, Recalling
  <2> QED BY <2>2, <2>3, <2>4
<1>2. CASE UNCHANGED rememberVars
  BY <1>2 DEF rememberVars, RecallTypes, RotateInv, RecallInv, Recalling
<1>3. ASSUME NEW here \in BOOLEAN, ForgetRow(here) PROVE RecallTypes' /\ RotateInv' /\ RecallInv'
  BY <1>0, <1>3 DEF ForgetRow, RecallTypes, RotateInv, RecallInv
<1>4. ASSUME NEW x \in Calls, NEW expired \in BOOLEAN, ReadRow(x, expired)
      PROVE  RecallTypes' /\ RotateInv' /\ RecallInv'
  <2> DEFINE c == [at |-> IF validator = 0 THEN "answer"
                          ELSE IF expired \/ validator # remembered THEN "delete" ELSE "rotate",
                   read |-> validator, answer |-> 0]
  <2>1. /\ c \in [at : {"idle", "delete", "rotate", "answer"}, read : Versions, answer : Versions]
        /\ c.read = validator /\ c.answer = 0 /\ c.at # "idle"
        /\ c.at = "rotate" => validator # 0
        /\ ~expired /\ validator # 0 /\ validator = remembered => c.at = "rotate"
    BY <1>0 DEF RecallTypes
  <2>2. recall' = [recall EXCEPT ![x] = c]
    BY <1>4 DEF ReadRow
  <2> HIDE DEF c
  <2>3. /\ recall' \in [Calls -> [at : {"idle", "delete", "rotate", "answer"},
                                  read : Versions, answer : Versions]]
        /\ recall'[x] = c /\ \A y \in Calls \ {x} : recall'[y] = recall[y]
    BY <2>1, <2>2, OneRecall
  <2>4. RecallTypes' /\ RotateInv'
    BY <1>4, <2>1, <2>3 DEF ReadRow, RecallTypes, RotateInv
  <2>5. RecallInv'
    <3> SUFFICES ASSUME ~crossed' PROVE RecallInv'
      BY DEF RecallInv
    <3>1. ~crossed /\ ~expired /\ ~Recalling /\ remembered # 0
      BY <1>4 DEF ReadRow
    <3>2. remembered = validator /\ \A y \in Calls : recall[y].at = "idle"
      BY <3>1 DEF RecallInv, Recalling
    <3>3. c.at = "rotate"
      BY <2>1, <3>1, <3>2
    <3>4. validator' = validator /\ Recalling'
      BY <1>4, <2>1, <2>3 DEF ReadRow, Recalling
    <3>5. \A y \in Calls : recall'[y].at # "idle" => y = x
      BY <2>3, <3>2
    <3>6. recall'[x].at = "rotate" /\ recall'[x].read = validator'
      BY <2>1, <2>3, <3>3, <3>4
    <3>7. \A y, z \in Calls : recall'[y].at # "idle" /\ recall'[z].at # "idle" => y = z
      BY <3>5
    <3>8. ASSUME NEW y \in Calls
          PROVE  /\ recall'[y].at # "delete" /\ recall'[y].at # "answer"
                 /\ recall'[y].at = "rotate" => recall'[y].read = validator'
      BY <3>5, <3>6
    <3> QED BY <3>4, <3>7, <3>8 DEF RecallInv
  <2> QED BY <2>4, <2>5
<1>5. ASSUME NEW x \in Calls, DeleteRow(x) PROVE RecallTypes' /\ RotateInv' /\ RecallInv'
  <2> DEFINE c == [recall[x] EXCEPT !.at = "answer"]
  <2>1. /\ c \in [at : {"idle", "delete", "rotate", "answer"}, read : Versions, answer : Versions]
        /\ c.at = "answer"
    BY DEF RecallTypes
  <2>2. recall' = [recall EXCEPT ![x] = c]
    BY <1>5 DEF DeleteRow
  <2> HIDE DEF c
  <2>3. /\ recall' \in [Calls -> [at : {"idle", "delete", "rotate", "answer"},
                                  read : Versions, answer : Versions]]
        /\ recall'[x] = c /\ \A y \in Calls \ {x} : recall'[y] = recall[y]
    BY <2>1, <2>2, OneRecall
  <2>4. RecallTypes' /\ RotateInv'
    BY <1>0, <1>5, <2>1, <2>3 DEF DeleteRow, RecallTypes, RotateInv
  <2>5. RecallInv'
    BY <1>5 DEF DeleteRow, RecallInv
  <2> QED BY <2>4, <2>5
<1>6. ASSUME NEW x \in Calls, RotateRow(x) PROVE RecallTypes' /\ RotateInv' /\ RecallInv'
  <2>0. recall[x].at = "rotate" /\ recall[x].read # 0 /\ remembered' = remembered /\ crossed' = crossed
    BY <1>6 DEF RotateRow, RotateInv
  <2>1. CASE validator = recall[x].read
    <3> DEFINE c == [recall[x] EXCEPT !.at = "answer", !.answer = made + 1]
    <3>1. /\ made' = made + 1 /\ validator' = made + 1 /\ made + 1 \in Versions
          /\ rotatedBy' = [rotatedBy EXCEPT ![validator] = @ \cup {x}]
          /\ recall' = [recall EXCEPT ![x] = c]
      <4>1. made' = made + 1 /\ validator' = made + 1 /\ made < MaxValidators
        BY <1>6, <2>1 DEF RotateRow, HitsRow, MakeValidator
      <4>2. recall' = [recall EXCEPT ![x] = c]
        BY <1>6, <2>1 DEF RotateRow, HitsRow
      <4>3. rotatedBy' = [rotatedBy EXCEPT ![validator] = @ \cup {x}]
        BY <1>6, <2>1 DEF RotateRow, HitsRow
      <4> QED BY <1>0, <4>1, <4>2, <4>3, SMTT(20) DEF Versions
    <3>2. /\ c \in [at : {"idle", "delete", "rotate", "answer"}, read : Versions, answer : Versions]
          /\ c.at = "answer" /\ c.answer = made + 1
      BY <3>1 DEF RecallTypes
    <3> HIDE DEF c
    <3>3. /\ recall' \in [Calls -> [at : {"idle", "delete", "rotate", "answer"},
                                    read : Versions, answer : Versions]]
          /\ recall'[x] = c /\ \A y \in Calls \ {x} : recall'[y] = recall[y]
      BY <3>1, <3>2, OneRecall
    <3>4. /\ rotatedBy' \in [1..MaxValidators -> SUBSET Calls]
          /\ \A v \in 1..MaxValidators : rotatedBy'[v] = IF v = validator THEN rotatedBy[v] \cup {x}
                                                                          ELSE rotatedBy[v]
      BY <3>1 DEF RecallTypes
    <3>5. RecallTypes'
      BY <2>0, <3>1, <3>3, <3>4 DEF RecallTypes
    <3>6. RotateInv'
      <4>1. DOMAIN rotatedBy' = 1..MaxValidators /\ validator' <= made'
        BY <1>0, <3>1, <3>4
      <4>2. \A y \in Calls : recall'[y].at = "rotate" => recall'[y].read # 0
        BY <3>2, <3>3 DEF RotateInv
      <4>3. ASSUME NEW v \in 1..MaxValidators, v = validator' \/ v > made' PROVE rotatedBy'[v] = {}
        BY <1>0, <3>1, <3>4, <4>3 DEF RotateInv
      <4>4. ASSUME NEW v \in 1..MaxValidators, NEW y \in rotatedBy'[v], NEW z \in rotatedBy'[v]
            PROVE  y = z
        BY <1>0, <3>4 DEF RotateInv
      <4> QED BY <4>1, <4>2, <4>3, <4>4 DEF RotateInv
    <3>7. RecallInv'
      <4> SUFFICES ASSUME ~crossed' PROVE RecallInv'
        BY DEF RecallInv
      <4>1. \A y \in Calls \ {x} : recall'[y] = recall[y] /\ recall[y].at = "idle"
        BY <2>0, <3>3 DEF RecallInv
      <4>2. recall'[x].at = "answer" /\ recall'[x].answer = validator'
        BY <3>1, <3>2, <3>3
      <4> QED BY <4>1, <4>2 DEF RecallInv, Recalling
    <3> QED BY <3>5, <3>6, <3>7
  <2>2. CASE validator # recall[x].read
    <3> DEFINE c == [recall[x] EXCEPT !.at = "answer"]
    <3>1. /\ recall' = [recall EXCEPT ![x] = c]
          /\ validator' = validator /\ made' = made /\ rotatedBy' = rotatedBy
      BY <1>6, <2>2 DEF RotateRow, HitsRow
    <3>2. /\ c \in [at : {"idle", "delete", "rotate", "answer"}, read : Versions, answer : Versions]
          /\ c.at = "answer"
      BY DEF RecallTypes
    <3> HIDE DEF c
    <3>3. /\ recall' \in [Calls -> [at : {"idle", "delete", "rotate", "answer"},
                                    read : Versions, answer : Versions]]
          /\ recall'[x] = c /\ \A y \in Calls \ {x} : recall'[y] = recall[y]
      BY <3>1, <3>2, OneRecall
    <3>4. crossed
      BY <2>0, <2>2 DEF RecallInv
    <3> QED BY <2>0, <3>1, <3>2, <3>3, <3>4, SMTT(20) DEF RecallTypes, RotateInv, RecallInv
  <2> QED BY <2>1, <2>2
<1>7. ASSUME NEW x \in Calls, NEW lose \in BOOLEAN, AnswerRecall(x, lose)
      PROVE  RecallTypes' /\ RotateInv' /\ RecallInv'
  <2>1. /\ NotRecalling \in [at : {"idle", "delete", "rotate", "answer"}, read : Versions,
                             answer : Versions]
        /\ NotRecalling.at = "idle"
    BY <1>0 DEF NotRecalling
  <2>2. recall' = [recall EXCEPT ![x] = NotRecalling] /\ recall[x].at = "answer"
    BY <1>7 DEF AnswerRecall
  <2>3. /\ recall' \in [Calls -> [at : {"idle", "delete", "rotate", "answer"},
                                  read : Versions, answer : Versions]]
        /\ recall'[x] = NotRecalling /\ \A y \in Calls \ {x} : recall'[y] = recall[y]
    BY <2>1, <2>2, OneRecall
  <2>4. remembered' \in Versions
    BY <1>7 DEF AnswerRecall, RecallTypes
  <2>5. RecallTypes' /\ RotateInv'
    BY <1>7, <2>1, <2>3, <2>4 DEF AnswerRecall, RecallTypes, RotateInv
  <2>6. RecallInv'
    <3> SUFFICES ASSUME ~crossed' PROVE RecallInv'
      BY DEF RecallInv
    <3>1. ~crossed /\ ~lose /\ remembered' = recall[x].answer /\ validator' = validator
      BY <1>7 DEF AnswerRecall
    <3>2. recall[x].answer = validator /\ \A y \in Calls \ {x} : recall[y].at = "idle"
      BY <2>2, <3>1 DEF RecallInv
    <3> QED BY <2>1, <2>3, <3>1, <3>2 DEF RecallInv, Recalling
  <2> QED BY <2>5, <2>6
<1> QED BY <1>1, <1>2, <1>3, <1>4, <1>5, <1>6, <1>7

LEMMA LoginNext == LoginInv /\ [LoginStep]_loginVars => LoginInv'
<1> SUFFICES ASSUME LoginInv, [LoginStep]_loginVars PROVE LoginInv'
  OBVIOUS
<1>1. ExchangeTypes /\ RecallTypes /\ ExchangeInv /\ RotateInv /\ RecallInv
  BY LoginTypes DEF LoginInv
<1>2. ExchangeTypes' /\ ExchangeInv'
  BY <1>1, ExchangeNext DEF LoginStep, loginVars, refreshVars
<1>3. RecallTypes' /\ RotateInv' /\ RecallInv'
  BY <1>1, RecallNext DEF LoginStep, loginVars, rememberVars
<1> QED BY <1>2, <1>3, LoginTypes DEF LoginInv

\* Of two tokens of one login that both live, each has no successor: going back from one,
\* by way of those it was exchanged for, the other is not met.
LEMMA LoginSafe == LoginInv => LoginsRight
<1> SUFFICES ASSUME LoginInv PROVE LoginsRight
  OBVIOUS
<1>1. ExchangeTypes /\ ExchangeInv /\ RotateInv /\ RecallInv
  BY LoginTypes DEF LoginInv
<1>2. ASSUME NEW s \in DOMAIN tokens, NEW t \in DOMAIN tokens, SameLogin(s, t),
             ~tokens[s].revoked, ~tokens[t].revoked, s # t
      PROVE  FALSE
  <2> DEFINE Back(set) ==
                 /\ set \subseteq DOMAIN tokens /\ s \in set
                 /\ \A u \in set : tokens[u].from # 0 => tokens[u].from \in set
             login == {u \in DOMAIN tokens : \A set \in SUBSET DOMAIN tokens : Back(set) => u \in set}
  <2>1. Successors(s) = {} /\ Successors(t) = {}
    BY <1>1, <1>2 DEF ExchangeInv, OnceFor
  <2>2. \A u \in DOMAIN tokens : tokens[u].from # 0 => tokens[u].from \in DOMAIN tokens
    <3>1. ASSUME NEW u \in DOMAIN tokens, tokens[u].from # 0 PROVE tokens[u].from \in DOMAIN tokens
      <4>1. /\ DOMAIN tokens = 1..Len(tokens) /\ Len(tokens) \in Nat
            /\ tokens[u].from \in Nat /\ tokens[u].from < u
        <5>1. DOMAIN tokens = 1..Len(tokens) /\ Len(tokens) \in Nat /\ tokens[u] \in TokenRow
          BY <1>1, LenProperties, ElementOfSeq DEF ExchangeTypes
        <5> QED BY <1>1, <5>1, LoginsAssumption DEF TokenRow, ExchangeInv
      <4> QED BY <3>1, <4>1
    <3> QED BY <3>1
  <2>3. Back(login)
    BY <2>2
  <2>4. t \notin login
    <3>1. Back(DOMAIN tokens \ {t})
      BY <1>2, <2>1, <2>2 DEF Successors
    <3> QED BY <3>1
  <2>5. \A u, v, w \in DOMAIN tokens : tokens[v].from = u /\ tokens[w].from = u => v = w
    <3>1. \A u \in DOMAIN tokens : Successors(u) = {} \/ \E v \in DOMAIN tokens : Successors(u) = {v}
      BY <1>1 DEF ExchangeInv, OnceFor
    <3> QED BY <3>1 DEF Successors
  <2>6. ASSUME NEW u \in DOMAIN tokens, tokens[u].from # 0, tokens[u].from \in login PROVE u \in login
    <3> DEFINE met == {v \in login : \A w \in DOMAIN tokens : tokens[w].from = v => w \in login}
    <3>1. Back(met)
      <4>1. s \in met
        BY <2>1, <2>3 DEF Successors
      <4>2. ASSUME NEW v \in met, tokens[v].from # 0 PROVE tokens[v].from \in met
        BY <2>2, <2>3, <2>5, <4>2
      <4> QED BY <4>1, <4>2
    <3>2. login \subseteq met
      BY <3>1
    <3> QED BY <2>6, <3>2
  <2> QED BY <1>2, <2>2, <2>3, <2>4, <2>6 DEF SameLogin
<1>3. OneSuccessor
  BY <1>1, <1>2 DEF OneSuccessor, ExchangeInv, OnceFor
<1>4. RememberedOnce
  BY <1>1 DEF RememberedOnce, RotateInv, RecallInv
<1> QED BY <1>3, <1>4 DEF LoginsRight

-----------------------------------------------------------------------------
(* Who acts in a session *)

CurrentOf(b) == IF asking[b].at = "idle" THEN kept[b] ELSE SessionOf(b)
OwnerOf(s) == IF Impersonates(s) THEN s.by ELSE s.user

\* Whoever acts is the session's user, and has a stamp once the login is through.
ActingInv(b) ==
    /\ asking[b].at = "current" => SessionOf(b) = kept[b] /\ Tracked(kept[b])
    /\ asking[b].at # "idle" => asking[b].acts \in {NoPerson, SessionOf(b).user}
    /\ asking[b].at = "restamp" => asking[b].acts # NoPerson /\ ~Impersonates(SessionOf(b))
    /\ asking[b].at = "stamp" => SessionOf(b).user # NoPerson /\ ~Impersonates(SessionOf(b))
    /\ OwnerOf(CurrentOf(b)) # NoPerson /\ asking[b].at # "stamp" => CurrentOf(b).stamp # Unstamped
    /\ Impersonates(CurrentOf(b)) => CurrentOf(b).user # NoPerson

\* The session's owner is who logged in last, with the factors it takes.
OwnerInv(b) ==
    /\ OwnerOf(CurrentOf(b)) \in {NoPerson, proof[b].who}
    /\ CurrentOf(b).pending \in {NoPerson} \cup proof[b].passwords
    /\ proof[b].who \in TwoFactored => proof[b].who \in proof[b].passwords /\ proof[b].code

\* The stamp that a session has, or is about to get from the counter it has raised.
StampOf(b) == IF asking[b].at = "restamp" THEN asking[b].raised ELSE CurrentOf(b).stamp

\* A stamp is not ahead of the owner's counter: behind it in a browser that was signed out,
\* level with it in one that was not and whose login was stamped for sure.
StampInv(b) ==
    LET owner == OwnerOf(CurrentOf(b)) IN
    /\ owner # NoPerson /\ asking[b].at # "stamp" =>
          /\ StampOf(b) <= generation[owner]
          /\ b \in evicted => StampOf(b) < generation[owner]
    /\ proof[b].sure /\ b \notin evicted =>
          /\ asking[b].at # "stamp" /\ ~Impersonates(CurrentOf(b))
          /\ owner = proof[b].who /\ owner # NoPerson
          /\ StampOf(b) = generation[owner]
    /\ asking[b].at = "stamp" => b \notin evicted
    /\ asking[b].out /\ ~Impersonates(SessionOf(b)) => asking[b].acts = NoPerson

BrowserInv(b) == ActingInv(b) /\ OwnerInv(b) /\ StampInv(b)

IdentityInv == IdentitiesTypeOK /\ \A b \in Browsers : BrowserInv(b)

LEMMA IdentityBegins == IdentitiesInit => IdentityInv
<1> SUFFICES ASSUME IdentitiesInit PROVE IdentityInv
  OBVIOUS
<1> USE IdentitiesAssumption DEF IdentitiesInit
<1>1. /\ Stranger \in Identity /\ NotAsking \in Asking /\ NoProof \in Proof
      /\ NotAsking.at = "idle" /\ NotAsking.acts = NoPerson /\ NotAsking.raised = 0 /\ ~NotAsking.out
      /\ OwnerOf(Stranger) = NoPerson /\ ~Impersonates(Stranger) /\ Stranger.pending = NoPerson
      /\ NoProof.who = NoPerson /\ NoProof.sure = FALSE /\ NoPerson \notin TwoFactored
  BY DEF Stranger, Identity, NotAsking, Asking, NoProof, Proof, Anyone, Unstamped, OwnerOf, Impersonates
<1>2. IdentitiesTypeOK
  BY <1>1 DEF IdentitiesTypeOK
<1>3. \A b \in Browsers : BrowserInv(b)
  BY <1>1 DEF BrowserInv, ActingInv, OwnerInv, StampInv, CurrentOf
<1> QED BY <1>2, <1>3 DEF IdentityInv

\* A browser that a step does not concern is as right as before.
LEMMA ElsewhereSame ==
  ASSUME NEW c \in Browsers, BrowserInv(c),
         asking'[c] = asking[c], kept'[c] = kept[c], proof'[c] = proof[c],
         generation' = generation, c \in evicted' <=> c \in evicted
  PROVE  BrowserInv(c)'
<1>1. CurrentOf(c)' = CurrentOf(c) /\ SessionOf(c)' = SessionOf(c) /\ StampOf(c)' = StampOf(c)
  BY DEF CurrentOf, SessionOf, StampOf
<1>2. OwnerOf(CurrentOf(c))' = OwnerOf(CurrentOf(c))
  BY <1>1 DEF OwnerOf, Impersonates
<1>3. ActingInv(c)' /\ OwnerInv(c)'
  BY <1>1, <1>2 DEF BrowserInv, ActingInv, OwnerInv
<1>4. StampInv(c)'
  BY <1>1, <1>2 DEF BrowserInv, StampInv
<1> QED BY <1>3, <1>4 DEF BrowserInv

\* A bump signs out whoever is stamped for that person, and no other.
LEMMA Bumped ==
  ASSUME IdentitiesTypeOK, NEW c \in Browsers, BrowserInv(c), NEW p \in Persons, RaiseGeneration(p),
         asking'[c] = asking[c], kept'[c] = kept[c], proof'[c] = proof[c],
         c \in evicted' <=> c \in evicted \cup SignedOut(p)
  PROVE  BrowserInv(c)'
<1> DEFINE owner == OwnerOf(CurrentOf(c))
<1>1. /\ CurrentOf(c)' = CurrentOf(c) /\ SessionOf(c)' = SessionOf(c) /\ StampOf(c)' = StampOf(c)
      /\ asking[c] \in Asking /\ CurrentOf(c) \in Identity /\ SessionOf(c) \in Identity
  BY DEF CurrentOf, SessionOf, StampOf, IdentitiesTypeOK, Asking
<1>2. owner' = owner /\ owner \in Anyone
  BY <1>1 DEF OwnerOf, Impersonates, Identity
<1>3. ActingInv(c)' /\ OwnerInv(c)'
  BY <1>1, <1>2 DEF BrowserInv, ActingInv, OwnerInv
<1>4. \A q \in Persons : /\ generation[q] \in Nat
                         /\ generation'[q] = IF q = p THEN generation[q] + 1 ELSE generation[q]
  BY IdentitiesAssumption DEF RaiseGeneration, IdentitiesTypeOK
<1>5. c \in SignedOut(p) <=> owner = p /\ asking[c].at # "stamp"
  <2>1. asking[c].at # "stamp" =>
            CurrentOf(c) = IF asking[c].at \in {"act", "restamp"} THEN SessionOf(c) ELSE kept[c]
    BY <1>1 DEF CurrentOf, BrowserInv, ActingInv, Asking
  <2>2. owner = p /\ asking[c].at # "stamp" => Tracked(CurrentOf(c))
    BY IdentitiesAssumption DEF BrowserInv, ActingInv, Tracked, OwnerOf
  <2> QED BY <2>1, <2>2 DEF SignedOut, OwnerOf
<1>6. StampOf(c) \in Nat
  BY <1>1, IdentitiesAssumption DEF StampOf, Asking, Identity, Unstamped
<1>7. StampInv(c)'
  <2>1. CASE owner = p /\ asking[c].at # "stamp"
    BY <1>1, <1>2, <1>4, <1>5, <1>6, <2>1 DEF BrowserInv, StampInv
  <2>2. CASE owner # p \/ asking[c].at = "stamp"
    <3>1. c \in evicted' <=> c \in evicted
      BY <1>5, <2>2
    <3>2. owner # NoPerson /\ asking[c].at # "stamp" => generation'[owner] = generation[owner]
      BY <1>2, <1>4, <2>2 DEF Anyone
    <3> HIDE DEF owner
    <3> QED BY <1>1, <1>2, <3>1, <3>2 DEF BrowserInv, StampInv, owner
  <2> QED BY <2>1, <2>2
<1> QED BY <1>3, <1>7 DEF BrowserInv

\* A step of one browser: what it leaves in its own request, session and history.
LEMMA StepOfOne ==
  ASSUME IdentityInv, NEW b \in Browsers,
         NEW a \in Asking, NEW k \in Identity, NEW g \in Proof,
         asking' = [asking EXCEPT ![b] = a], kept' = [kept EXCEPT ![b] = k],
         proof' = [proof EXCEPT ![b] = g], generation' = generation,
         visits' \in 0..MaxVisits, evicted' = evicted \/ evicted' = evicted \ {b}
  PROVE  /\ asking'[b] = a /\ kept'[b] = k /\ proof'[b] = g
         /\ SessionOf(b)' = a.session
         /\ CurrentOf(b)' = IF a.at = "idle" THEN k ELSE a.session
         /\ BrowserInv(b)' => IdentityInv'
<1>1. /\ asking'[b] = a /\ kept'[b] = k /\ proof'[b] = g
      /\ \A c \in Browsers \ {b} :
            /\ asking'[c] = asking[c] /\ kept'[c] = kept[c] /\ proof'[c] = proof[c]
            /\ c \in evicted' <=> c \in evicted
  BY DEF IdentityInv, IdentitiesTypeOK
<1>2. IdentitiesTypeOK'
  BY DEF IdentityInv, IdentitiesTypeOK
<1>3. \A c \in Browsers \ {b} : BrowserInv(c)'
  BY <1>1, ElsewhereSame DEF IdentityInv
<1>4. /\ SessionOf(b)' = a.session
      /\ CurrentOf(b)' = IF a.at = "idle" THEN k ELSE a.session
  BY <1>1 DEF SessionOf, CurrentOf
<1> QED BY <1>1, <1>2, <1>3, <1>4 DEF IdentityInv

\* What is known of a browser.
LEMMA OfBrowser ==
  ASSUME IdentityInv, NEW b \in Browsers
  PROVE  /\ asking[b] \in Asking /\ kept[b] \in Identity /\ proof[b] \in Proof
         /\ SessionOf(b) \in Identity /\ CurrentOf(b) \in Identity
         /\ asking = [asking EXCEPT ![b] = asking[b]] /\ kept = [kept EXCEPT ![b] = kept[b]]
         /\ proof = [proof EXCEPT ![b] = proof[b]]
         /\ visits \in 0..MaxVisits /\ evicted \subseteq Browsers
         /\ \A p \in Persons : generation[p] \in 0..MaxBumps
         /\ ActingInv(b) /\ OwnerInv(b) /\ StampInv(b)
BY DEF IdentityInv, IdentitiesTypeOK, SessionOf, CurrentOf, Asking, BrowserInv

LEMMA LoadKeeps ==
  ASSUME IdentityInv, NEW b \in Browsers, LoadSession(b)
  PROVE  IdentityInv'
<1> USE IdentitiesAssumption
<1>0. /\ kept[b] \in Identity /\ proof[b] \in Proof /\ ActingInv(b) /\ OwnerInv(b) /\ StampInv(b)
      /\ kept = [kept EXCEPT ![b] = kept[b]] /\ proof = [proof EXCEPT ![b] = proof[b]]
      /\ visits \in 0..MaxVisits
  BY OfBrowser
<1> DEFINE a == [at |-> IF Tracked(kept[b]) THEN "current" ELSE "act", session |-> kept[b],
                 acts |-> kept[b].user, raised |-> 0, out |-> FALSE]
<1>1. /\ a \in Asking /\ a.session = kept[b] /\ a.acts = kept[b].user /\ ~a.out
      /\ a.at = IF Tracked(kept[b]) THEN "current" ELSE "act"
  <2>1. kept[b].user \in Anyone /\ 0 \in 0..MaxBumps
    BY <1>0 DEF Identity
  <2> QED BY <1>0, <2>1 DEF Asking
<1>2. /\ asking' = [asking EXCEPT ![b] = a] /\ kept' = [kept EXCEPT ![b] = kept[b]]
      /\ proof' = [proof EXCEPT ![b] = proof[b]]
      /\ generation' = generation /\ evicted' = evicted /\ visits' \in 0..MaxVisits
      /\ asking[b].at = "idle"
  BY <1>0 DEF LoadSession
<1> HIDE DEF a
<1>3. /\ asking'[b] = a /\ kept'[b] = kept[b] /\ proof'[b] = proof[b]
      /\ SessionOf(b)' = kept[b] /\ CurrentOf(b)' = kept[b]
      /\ BrowserInv(b)' => IdentityInv'
  <2>1. /\ a \in Asking /\ kept[b] \in Identity /\ proof[b] \in Proof
        /\ asking' = [asking EXCEPT ![b] = a] /\ kept' = [kept EXCEPT ![b] = kept[b]]
        /\ proof' = [proof EXCEPT ![b] = proof[b]]
        /\ generation' = generation /\ visits' \in 0..MaxVisits /\ evicted' = evicted
    BY <1>0, <1>1, <1>2
  <2>2. /\ asking'[b] = a /\ kept'[b] = kept[b] /\ proof'[b] = proof[b]
        /\ SessionOf(b)' = a.session
        /\ CurrentOf(b)' = IF a.at = "idle" THEN kept[b] ELSE a.session
        /\ BrowserInv(b)' => IdentityInv'
    BY <2>1, StepOfOne
  <2> QED BY <1>1, <2>2
<1>4. CurrentOf(b) = kept[b] /\ StampOf(b) = kept[b].stamp /\ StampOf(b)' = kept[b].stamp
  BY <1>1, <1>2, <1>3 DEF CurrentOf, StampOf
<1>5. OwnerOf(CurrentOf(b))' = OwnerOf(kept[b]) /\ OwnerOf(CurrentOf(b)) = OwnerOf(kept[b])
  BY <1>3, <1>4 DEF OwnerOf, Impersonates
<1>6. ActingInv(b)' /\ OwnerInv(b)'
  BY <1>0, <1>1, <1>2, <1>3, <1>4, <1>5 DEF ActingInv, OwnerInv, Impersonates, Tracked
<1>7. StampInv(b)'
  BY <1>0, <1>1, <1>2, <1>3, <1>4, <1>5 DEF StampInv, Impersonates
<1> QED BY <1>3, <1>6, <1>7 DEF BrowserInv

LEMMA EnsureKeeps ==
  ASSUME IdentityInv, NEW b \in Browsers, EnsureCurrent(b)
  PROVE  IdentityInv'
<1> USE IdentitiesAssumption
<1> DEFINE s == SessionOf(b)
           guest == [Stranger EXCEPT !.pending = s.pending]
<1>0. /\ asking[b] \in Asking /\ kept[b] \in Identity /\ proof[b] \in Proof /\ s \in Identity
      /\ ActingInv(b) /\ OwnerInv(b) /\ StampInv(b)
      /\ kept = [kept EXCEPT ![b] = kept[b]] /\ proof = [proof EXCEPT ![b] = proof[b]]
      /\ visits \in 0..MaxVisits /\ \A p \in Persons : generation[p] \in 0..MaxBumps
  BY OfBrowser
<1>1. PICK told \in BOOLEAN :
          asking' = [asking EXCEPT ![b] =
              [@ EXCEPT !.at = "act", !.out = told /\ b \in evicted,
                        !.acts = IF ~told \/ s.stamp = generation[s.user] THEN asking[b].acts ELSE NoPerson,
                        !.session = IF ~told \/ s.stamp = generation[s.user] THEN s ELSE guest]]
  BY DEF EnsureCurrent
<1> DEFINE stays == ~told \/ s.stamp = generation[s.user]
           a == [asking[b] EXCEPT !.at = "act", !.out = told /\ b \in evicted,
                     !.acts = IF stays THEN asking[b].acts ELSE NoPerson,
                     !.session = IF stays THEN s ELSE guest]
<1>2. /\ guest \in Identity /\ guest.user = NoPerson /\ guest.by = NoPerson
      /\ guest.stamp = Unstamped /\ guest.pending = s.pending
  BY <1>0 DEF Stranger, Identity, Anyone, Unstamped
<1>3. /\ a \in Asking /\ a.at = "act" /\ a.out = (told /\ b \in evicted)
      /\ a.acts = (IF stays THEN asking[b].acts ELSE NoPerson)
      /\ a.session = IF stays THEN s ELSE guest
  BY <1>0, <1>2 DEF Asking, Anyone
<1>4. /\ asking' = [asking EXCEPT ![b] = a] /\ kept' = [kept EXCEPT ![b] = kept[b]]
      /\ proof' = [proof EXCEPT ![b] = proof[b]]
      /\ generation' = generation /\ evicted' = evicted /\ visits' = visits
      /\ asking[b].at = "current"
  BY <1>0, <1>1 DEF EnsureCurrent
<1>5. CurrentOf(b) = s /\ StampOf(b) = s.stamp /\ s.user # NoPerson /\ s.stamp # Unstamped
      /\ s = kept[b] /\ asking[b].acts \in {NoPerson, s.user}
  BY <1>0, <1>4 DEF CurrentOf, StampOf, ActingInv, Tracked
<1> HIDE DEF a, guest
<1>6. /\ asking'[b] = a /\ kept'[b] = kept[b] /\ proof'[b] = proof[b]
      /\ SessionOf(b)' = a.session /\ CurrentOf(b)' = a.session
      /\ BrowserInv(b)' => IdentityInv'
  <2>1. /\ a \in Asking /\ kept[b] \in Identity /\ proof[b] \in Proof
        /\ asking' = [asking EXCEPT ![b] = a] /\ kept' = [kept EXCEPT ![b] = kept[b]]
        /\ proof' = [proof EXCEPT ![b] = proof[b]]
        /\ generation' = generation /\ visits' \in 0..MaxVisits /\ evicted' = evicted
    BY <1>0, <1>3, <1>4
  <2>2. /\ asking'[b] = a /\ kept'[b] = kept[b] /\ proof'[b] = proof[b]
        /\ SessionOf(b)' = a.session
        /\ CurrentOf(b)' = IF a.at = "idle" THEN kept[b] ELSE a.session
        /\ BrowserInv(b)' => IdentityInv'
    BY <2>1, StepOfOne
  <2> QED BY <1>3, <2>2
<1>7. StampOf(b)' = a.session.stamp
  BY <1>3, <1>6 DEF StampOf
<1>8. CASE stays
  <2>1. /\ a.session = s /\ OwnerOf(CurrentOf(b))' = OwnerOf(s) /\ OwnerOf(CurrentOf(b)) = OwnerOf(s)
    BY <1>3, <1>5, <1>6, <1>8 DEF OwnerOf, Impersonates
  <2>2. ActingInv(b)' /\ OwnerInv(b)'
    BY <1>0, <1>3, <1>4, <1>5, <1>6, <1>8, <2>1 DEF ActingInv, OwnerInv, Impersonates
  <2>3. told /\ b \in evicted => Impersonates(s)
    <3>1. ASSUME told, b \in evicted, ~Impersonates(s) PROVE FALSE
      <4>1. OwnerOf(s) = s.user
        BY <3>1 DEF OwnerOf
      <4>2. s.stamp < generation[s.user] /\ s.user \in Persons
        BY <1>0, <1>4, <1>5, <2>1, <3>1, <4>1 DEF StampInv, Identity, Anyone
      <4>3. s.stamp \in Nat /\ generation[s.user] \in Nat
        BY <1>0, <4>2 DEF Identity, Unstamped
      <4> QED BY <1>8, <3>1, <4>2, <4>3
    <3> QED BY <3>1
  <2>4. StampInv(b)'
    <3>1. SessionOf(b)' = s /\ CurrentOf(b)' = s /\ StampOf(b)' = s.stamp /\ StampOf(b) = s.stamp
      BY <1>5, <1>6, <1>7, <2>1
    <3>2. asking'[b].at = "act" /\ asking'[b].out = (told /\ b \in evicted)
      BY <1>3, <1>6
    <3>3. Impersonates(SessionOf(b))' = Impersonates(s) /\ Impersonates(CurrentOf(b))' = Impersonates(s)
      BY <3>1 DEF Impersonates
    <3>4. CurrentOf(b) = s /\ asking[b].at = "current"
      BY <1>4, <1>5
    <3> HIDE DEF s
    <3> QED BY <1>0, <1>4, <1>6, <2>1, <2>3, <3>1, <3>2, <3>3, <3>4 DEF StampInv
  <2> QED BY <1>6, <2>2, <2>4 DEF BrowserInv
<1>9. CASE ~stays
  <2>1. /\ a.session = guest /\ OwnerOf(CurrentOf(b))' = NoPerson /\ a.acts = NoPerson
        /\ ~Impersonates(guest)
    BY <1>2, <1>3, <1>6, <1>9 DEF OwnerOf, Impersonates
  <2>2. ActingInv(b)'
    BY <1>2, <1>3, <1>6, <2>1 DEF ActingInv, Impersonates
  <2>3. OwnerInv(b)'
    BY <1>0, <1>2, <1>3, <1>5, <1>6, <2>1 DEF OwnerInv
  <2>4. ~(proof[b].sure /\ b \notin evicted)
    BY <1>0, <1>4, <1>5, <1>9 DEF StampInv, OwnerOf
  <2>5. StampInv(b)'
    BY <1>3, <1>4, <1>6, <2>1, <2>4 DEF StampInv
  <2> QED BY <1>6, <2>2, <2>3, <2>5 DEF BrowserInv
<1> QED BY <1>8, <1>9

\* What an act within a request leaves.
AfterAct(b, at, acts, s, g) ==
    /\ asking[b].at = "act" /\ CurrentOf(b) = SessionOf(b) /\ StampOf(b) = SessionOf(b).stamp
    /\ asking'[b].at = at /\ asking'[b].acts = acts /\ ~asking'[b].out /\ proof'[b] = g
    /\ CurrentOf(b)' = s /\ SessionOf(b)' = s /\ StampOf(b)' = s.stamp
    /\ OwnerOf(CurrentOf(b))' = OwnerOf(s)
    /\ Impersonates(SessionOf(b))' = Impersonates(s)
    /\ Impersonates(CurrentOf(b))' = Impersonates(s)

LEMMA ActLeaves ==
  ASSUME IdentityInv, NEW b \in Browsers, NEW at \in {"act", "stamp"}, NEW acts \in Anyone,
         NEW s \in Identity, NEW g \in Proof, Act(b, at, acts, s),
         proof' = [proof EXCEPT ![b] = g], UNCHANGED <<generation, kept, visits>>,
         evicted' = evicted \/ evicted' = evicted \ {b}
  PROVE  /\ AfterAct(b, at, acts, s, g)
         /\ BrowserInv(b)' => IdentityInv'
<1>0. /\ asking[b] \in Asking /\ kept[b] \in Identity /\ kept = [kept EXCEPT ![b] = kept[b]]
      /\ visits \in 0..MaxVisits
  BY OfBrowser
<1> DEFINE a == [asking[b] EXCEPT !.at = at, !.acts = acts, !.session = s, !.out = FALSE]
<1>1. /\ a \in Asking /\ a.at = at /\ a.acts = acts /\ a.session = s /\ ~a.out
  BY <1>0 DEF Asking
<1>2. /\ asking' = [asking EXCEPT ![b] = a] /\ kept' = [kept EXCEPT ![b] = kept[b]]
      /\ generation' = generation /\ visits' \in 0..MaxVisits /\ asking[b].at = "act"
  BY <1>0 DEF Act
<1> HIDE DEF a
<1>3. /\ asking'[b] = a /\ kept'[b] = kept[b] /\ proof'[b] = g
      /\ SessionOf(b)' = s /\ CurrentOf(b)' = s
      /\ BrowserInv(b)' => IdentityInv'
  <2>1. /\ asking'[b] = a /\ kept'[b] = kept[b] /\ proof'[b] = g
        /\ SessionOf(b)' = a.session
        /\ CurrentOf(b)' = IF a.at = "idle" THEN kept[b] ELSE a.session
        /\ BrowserInv(b)' => IdentityInv'
    <3>1. a \in Asking /\ kept[b] \in Identity /\ asking' = [asking EXCEPT ![b] = a]
          /\ kept' = [kept EXCEPT ![b] = kept[b]]
          /\ generation' = generation /\ visits' \in 0..MaxVisits
      BY <1>0, <1>1, <1>2
    <3> QED BY <3>1, StepOfOne
  <2> QED BY <1>1, <2>1
<1>4. CurrentOf(b) = SessionOf(b) /\ StampOf(b) = SessionOf(b).stamp /\ StampOf(b)' = s.stamp
  BY <1>1, <1>2, <1>3 DEF CurrentOf, StampOf
<1>5. /\ OwnerOf(CurrentOf(b))' = OwnerOf(s)
      /\ Impersonates(SessionOf(b))' = Impersonates(s)
      /\ Impersonates(CurrentOf(b))' = Impersonates(s)
  BY <1>3 DEF OwnerOf, Impersonates
<1> QED BY <1>1, <1>2, <1>3, <1>4, <1>5 DEF AfterAct

LEMMA LogOutKeeps ==
  ASSUME IdentityInv, NEW b \in Browsers, LogOut(b)
  PROVE  IdentityInv'
<1> USE IdentitiesAssumption
<1>1. /\ Stranger \in Identity /\ Stranger.user = NoPerson /\ Stranger.by = NoPerson
      /\ Stranger.pending = NoPerson /\ NoPerson \in Anyone
      /\ NoProof \in Proof /\ NoProof.who = NoPerson /\ ~NoProof.sure
  BY DEF Stranger, Identity, Anyone, Unstamped, NoProof, Proof
<1>2. ~Impersonates(Stranger) /\ OwnerOf(Stranger) = NoPerson
  BY <1>1 DEF Impersonates, OwnerOf
<1>3. /\ Act(b, "act", NoPerson, Stranger) /\ proof' = [proof EXCEPT ![b] = NoProof]
      /\ UNCHANGED <<generation, kept, visits>> /\ evicted' = evicted \ {b}
  BY DEF LogOut
<1>4. AfterAct(b, "act", NoPerson, Stranger, NoProof) /\ (BrowserInv(b)' => IdentityInv')
  BY <1>1, <1>3, ActLeaves
<1>5. ActingInv(b)'
  BY <1>1, <1>2, <1>3, <1>4 DEF ActingInv, AfterAct
<1>6. OwnerInv(b)'
  BY <1>1, <1>2, <1>3, <1>4 DEF OwnerInv, AfterAct
<1>7. StampInv(b)'
  BY <1>1, <1>2, <1>3, <1>4 DEF StampInv, AfterAct
<1> QED BY <1>4, <1>5, <1>6, <1>7 DEF BrowserInv

LEMMA EstablishKeeps ==
  ASSUME IdentityInv, NEW b \in Browsers, NEW p \in Persons, NEW code \in BOOLEAN,
         Establish(b, p, code),
         code => SessionOf(b).pending = p, ~code => p \notin TwoFactored
  PROVE  IdentityInv'
<1> USE IdentitiesAssumption
<1> DEFINE s == [SessionOf(b) EXCEPT !.user = p, !.by = NoPerson,
                                     !.pending = IF code THEN NoPerson ELSE @]
           g == [who |-> p, code |-> code, sure |-> FALSE,
                 passwords |-> proof[b].passwords \cup (IF code THEN {} ELSE {p})]
<1>0. /\ SessionOf(b) \in Identity /\ proof[b] \in Proof /\ OwnerInv(b) /\ ActingInv(b)
      /\ proof[b].passwords \subseteq Persons
  BY OfBrowser DEF Proof
<1>1. /\ s \in Identity /\ s.user = p /\ s.by = NoPerson
      /\ s.pending = IF code THEN NoPerson ELSE SessionOf(b).pending
  BY <1>0 DEF Identity, Anyone
<1>2. g \in Proof /\ p \in Anyone
  BY <1>0 DEF Proof, Anyone
<1>3. ~Impersonates(s) /\ OwnerOf(s) = p /\ p # NoPerson
  BY <1>1 DEF Impersonates, OwnerOf
<1>4. /\ Act(b, "stamp", p, s) /\ proof' = [proof EXCEPT ![b] = g]
      /\ UNCHANGED <<generation, kept, visits>> /\ evicted' = evicted \ {b}
  BY <1>0 DEF Establish
<1> HIDE DEF s
<1>5. asking[b].at = "act" /\ CurrentOf(b) = SessionOf(b)
  BY <1>4 DEF Act, CurrentOf
<1>6. /\ s.pending \in {NoPerson} \cup g.passwords
      /\ p \in TwoFactored => p \in g.passwords /\ g.code
  BY <1>0, <1>1, <1>5 DEF OwnerInv
<1>7. g.who = p /\ ~g.sure
  OBVIOUS
<1> HIDE DEF g
<1>8. AfterAct(b, "stamp", p, s, g) /\ (BrowserInv(b)' => IdentityInv')
  BY <1>1, <1>2, <1>4, ActLeaves
<1>9. ActingInv(b)'
  BY <1>1, <1>2, <1>3, <1>4, <1>6, <1>7, <1>8 DEF ActingInv, AfterAct
<1>10. OwnerInv(b)'
  BY <1>1, <1>2, <1>3, <1>4, <1>6, <1>7, <1>8 DEF OwnerInv, AfterAct
<1>11. StampInv(b)'
  BY <1>1, <1>2, <1>3, <1>4, <1>6, <1>7, <1>8 DEF StampInv, AfterAct
<1> QED BY <1>8, <1>9, <1>10, <1>11 DEF BrowserInv

LEMMA ChallengeKeeps ==
  ASSUME IdentityInv, NEW b \in Browsers, NEW p \in Persons, BeginChallenge(b, p)
  PROVE  IdentityInv'
<1> USE IdentitiesAssumption
<1> DEFINE s == [SessionOf(b) EXCEPT !.pending = p]
           g == [proof[b] EXCEPT !.passwords = @ \cup {p}]
<1>0. /\ SessionOf(b) \in Identity /\ proof[b] \in Proof /\ asking[b].acts \in Anyone
      /\ ActingInv(b) /\ OwnerInv(b) /\ StampInv(b)
  BY OfBrowser DEF Asking
<1>1. /\ s \in Identity /\ s.user = SessionOf(b).user /\ s.by = SessionOf(b).by
      /\ s.pending = p /\ s.stamp = SessionOf(b).stamp
  BY <1>0 DEF Identity, Anyone
<1>2. /\ g \in Proof /\ g.who = proof[b].who /\ g.code = proof[b].code /\ g.sure = proof[b].sure
      /\ g.passwords = proof[b].passwords \cup {p}
  BY <1>0 DEF Proof
<1>3. Impersonates(s) = Impersonates(SessionOf(b)) /\ OwnerOf(s) = OwnerOf(SessionOf(b))
  BY <1>1 DEF Impersonates, OwnerOf
<1>4. /\ Act(b, "act", asking[b].acts, s) /\ proof' = [proof EXCEPT ![b] = g]
      /\ UNCHANGED <<generation, kept, visits>> /\ evicted' = evicted
  BY <1>0 DEF BeginChallenge
<1> HIDE DEF s, g
<1>5. AfterAct(b, "act", asking[b].acts, s, g) /\ (BrowserInv(b)' => IdentityInv')
  BY <1>0, <1>1, <1>2, <1>4, ActLeaves
<1>6. ActingInv(b)'
  BY <1>0, <1>1, <1>2, <1>3, <1>4, <1>5 DEF ActingInv, AfterAct
<1>7. OwnerInv(b)'
  BY <1>0, <1>1, <1>2, <1>3, <1>4, <1>5 DEF OwnerInv, AfterAct
<1>8. StampInv(b)'
  BY <1>0, <1>1, <1>2, <1>3, <1>4, <1>5 DEF StampInv, AfterAct
<1> QED BY <1>5, <1>6, <1>7, <1>8 DEF BrowserInv

LEMMA ImpersonateKeeps ==
  ASSUME IdentityInv, NEW b \in Browsers, NEW p \in Persons, Impersonate(b, p)
  PROVE  IdentityInv'
<1> USE IdentitiesAssumption
<1> DEFINE s == [SessionOf(b) EXCEPT !.by = asking[b].acts, !.user = p]
           g == [proof[b] EXCEPT !.sure = FALSE]
<1>0. /\ SessionOf(b) \in Identity /\ proof[b] \in Proof /\ asking[b].acts \in Anyone
      /\ ActingInv(b) /\ OwnerInv(b) /\ StampInv(b)
  BY OfBrowser DEF Asking
<1>1. /\ s \in Identity /\ s.user = p /\ s.by = asking[b].acts
      /\ s.pending = SessionOf(b).pending /\ s.stamp = SessionOf(b).stamp
  BY <1>0 DEF Identity, Anyone
<1>2. /\ g \in Proof /\ g.who = proof[b].who /\ g.code = proof[b].code /\ ~g.sure
      /\ g.passwords = proof[b].passwords
  BY <1>0 DEF Proof
<1>3. /\ Act(b, "act", p, s) /\ proof' = [proof EXCEPT ![b] = g]
      /\ UNCHANGED <<generation, kept, visits>> /\ evicted' = evicted
      /\ asking[b].acts \in Supporters /\ ~Impersonates(SessionOf(b)) /\ p \in Anyone
  BY <1>0 DEF Impersonate, Anyone
<1> HIDE DEF s, g
<1>4. asking[b].at = "act"
  BY <1>3 DEF Act
<1>5. /\ Impersonates(s) /\ OwnerOf(s) = OwnerOf(SessionOf(b)) /\ OwnerOf(s) # NoPerson
      /\ p # NoPerson
  BY <1>0, <1>1, <1>3, <1>4 DEF Impersonates, OwnerOf, ActingInv
<1>6. AfterAct(b, "act", p, s, g) /\ (BrowserInv(b)' => IdentityInv')
  BY <1>1, <1>2, <1>3, ActLeaves
<1>7. ActingInv(b)'
  BY <1>0, <1>1, <1>2, <1>3, <1>5, <1>6 DEF ActingInv, AfterAct
<1>8. OwnerInv(b)'
  BY <1>0, <1>1, <1>2, <1>3, <1>5, <1>6 DEF OwnerInv, AfterAct
<1>9. StampInv(b)'
  BY <1>0, <1>1, <1>2, <1>3, <1>5, <1>6 DEF StampInv, AfterAct
<1> QED BY <1>6, <1>7, <1>8, <1>9 DEF BrowserInv

LEMMA StopKeeps ==
  ASSUME IdentityInv, NEW b \in Browsers, StopImpersonating(b)
  PROVE  IdentityInv'
<1> USE IdentitiesAssumption
<1> DEFINE s == [SessionOf(b) EXCEPT !.user = SessionOf(b).by, !.by = NoPerson]
<1>0. /\ SessionOf(b) \in Identity /\ proof[b] \in Proof /\ NoPerson \in Anyone
      /\ proof = [proof EXCEPT ![b] = proof[b]]
      /\ ActingInv(b) /\ OwnerInv(b) /\ StampInv(b)
  BY OfBrowser DEF Anyone
<1>1. /\ s \in Identity /\ s.user = SessionOf(b).by /\ s.by = NoPerson
      /\ s.pending = SessionOf(b).pending /\ s.stamp = SessionOf(b).stamp
  BY <1>0 DEF Identity, Anyone
<1>2. /\ Act(b, "act", NoPerson, s) /\ proof' = [proof EXCEPT ![b] = proof[b]]
      /\ UNCHANGED <<generation, kept, visits>> /\ evicted' = evicted
      /\ Impersonates(SessionOf(b))
  BY <1>0 DEF StopImpersonating
<1> HIDE DEF s
<1>3. ~Impersonates(s) /\ OwnerOf(s) = OwnerOf(SessionOf(b))
  BY <1>1, <1>2 DEF Impersonates, OwnerOf
<1>4. AfterAct(b, "act", NoPerson, s, proof[b]) /\ (BrowserInv(b)' => IdentityInv')
  BY <1>0, <1>1, <1>2, ActLeaves
<1>5. ActingInv(b)'
  BY <1>0, <1>1, <1>2, <1>3, <1>4 DEF ActingInv, AfterAct
<1>6. OwnerInv(b)'
  BY <1>0, <1>1, <1>2, <1>3, <1>4 DEF OwnerInv, AfterAct
<1>7. StampInv(b)'
  BY <1>0, <1>1, <1>2, <1>3, <1>4 DEF StampInv, AfterAct
<1> QED BY <1>4, <1>5, <1>6, <1>7 DEF BrowserInv

LEMMA StampKeeps ==
  ASSUME IdentityInv, NEW b \in Browsers, Stamp(b)
  PROVE  IdentityInv'
<1> USE IdentitiesAssumption
<1> DEFINE was == SessionOf(b)
<1>0. /\ asking[b] \in Asking /\ kept[b] \in Identity /\ proof[b] \in Proof /\ was \in Identity
      /\ ActingInv(b) /\ OwnerInv(b) /\ StampInv(b)
      /\ kept = [kept EXCEPT ![b] = kept[b]]
      /\ visits \in 0..MaxVisits /\ \A p \in Persons : generation[p] \in 0..MaxBumps
  BY OfBrowser
<1>1. PICK told \in BOOLEAN :
          /\ asking' = [asking EXCEPT ![b] = [@ EXCEPT !.at = "act",
                 !.session.stamp = IF told THEN generation[was.user] ELSE 0]]
          /\ proof' = [proof EXCEPT ![b].sure = told]
  BY DEF Stamp
<1>2. /\ asking[b].at = "stamp" /\ CurrentOf(b) = was /\ was.user \in Persons
      /\ ~Impersonates(was) /\ OwnerOf(was) = was.user /\ was.user # NoPerson
  BY <1>0 DEF Stamp, CurrentOf, ActingInv, Identity, Anyone, OwnerOf
<1> DEFINE stamp == IF told THEN generation[was.user] ELSE 0
           s == [was EXCEPT !.stamp = stamp]
           a == [asking[b] EXCEPT !.at = "act", !.session = s]
           g == [proof[b] EXCEPT !.sure = told]
<1>3. /\ stamp \in 0..MaxBumps /\ generation[was.user] \in Nat /\ stamp <= generation[was.user]
      /\ stamp # Unstamped /\ stamp \in 0..Unstamped
  BY <1>0, <1>2 DEF Unstamped
<1> HIDE DEF stamp
<1>4. /\ s \in Identity /\ s.user = was.user /\ s.by = was.by /\ s.pending = was.pending
      /\ s.stamp = stamp
  BY <1>0, <1>3 DEF Identity
<1>5. /\ a \in Asking /\ a.at = "act" /\ a.acts = asking[b].acts /\ a.session = s
      /\ a.out = asking[b].out
  BY <1>0, <1>4 DEF Asking
<1>6. /\ g \in Proof /\ g.who = proof[b].who /\ g.code = proof[b].code /\ g.sure = told
      /\ g.passwords = proof[b].passwords
  BY <1>0 DEF Proof
<1>7. /\ asking' = [asking EXCEPT ![b] = a] /\ kept' = [kept EXCEPT ![b] = kept[b]]
      /\ proof' = [proof EXCEPT ![b] = g]
      /\ generation' = generation /\ evicted' = evicted /\ visits' \in 0..MaxVisits
  <2>1. asking' = [asking EXCEPT ![b] = a]
    BY <1>1 DEF SessionOf, stamp
  <2>2. proof' = [proof EXCEPT ![b] = g]
    BY <1>1
  <2> QED BY <1>0, <2>1, <2>2 DEF Stamp
<1> HIDE DEF s, a, g, was
<1>8. /\ asking'[b] = a /\ proof'[b] = g /\ SessionOf(b)' = s /\ CurrentOf(b)' = s
      /\ StampOf(b)' = stamp /\ (BrowserInv(b)' => IdentityInv')
  <2>1. /\ a \in Asking /\ g \in Proof /\ kept[b] \in Identity
        /\ asking' = [asking EXCEPT ![b] = a] /\ kept' = [kept EXCEPT ![b] = kept[b]]
        /\ proof' = [proof EXCEPT ![b] = g]
        /\ generation' = generation /\ visits' \in 0..MaxVisits /\ evicted' = evicted
    BY <1>0, <1>5, <1>6, <1>7
  <2>2. /\ asking'[b] = a /\ kept'[b] = kept[b] /\ proof'[b] = g
        /\ SessionOf(b)' = a.session
        /\ CurrentOf(b)' = IF a.at = "idle" THEN kept[b] ELSE a.session
        /\ BrowserInv(b)' => IdentityInv'
    BY <2>1, StepOfOne
  <2> QED BY <1>4, <1>5, <2>2 DEF StampOf
<1>9. /\ OwnerOf(CurrentOf(b))' = was.user /\ ~Impersonates(CurrentOf(b))'
      /\ ~Impersonates(SessionOf(b))'
  BY <1>2, <1>4, <1>8 DEF OwnerOf, Impersonates
<1>10. ActingInv(b)'
  BY <1>0, <1>2, <1>3, <1>4, <1>5, <1>8, <1>9 DEF ActingInv, was
<1>11. OwnerInv(b)'
  BY <1>0, <1>2, <1>4, <1>6, <1>8, <1>9 DEF OwnerInv
<1>12. was.user = proof[b].who /\ b \notin evicted
  BY <1>0, <1>2 DEF OwnerInv, StampInv
<1>13. told => stamp = generation[was.user]
  BY DEF stamp
<1>14. asking[b].out => asking[b].acts = NoPerson
  BY <1>0, <1>2 DEF StampInv, was
<1>15. StampInv(b)'
  BY <1>2, <1>3, <1>5, <1>6, <1>7, <1>8, <1>9, <1>12, <1>13, <1>14 DEF StampInv
<1> QED BY <1>8, <1>10, <1>11, <1>15 DEF BrowserInv

LEMMA RestampKeeps ==
  ASSUME IdentityInv, NEW b \in Browsers, Restamp(b)
  PROVE  IdentityInv'
<1> USE IdentitiesAssumption
<1> DEFINE was == SessionOf(b)
           s == [was EXCEPT !.stamp = asking[b].raised]
           a == [asking[b] EXCEPT !.at = "act", !.raised = 0, !.session = s]
<1>0. /\ asking[b] \in Asking /\ kept[b] \in Identity /\ proof[b] \in Proof /\ was \in Identity
      /\ ActingInv(b) /\ OwnerInv(b) /\ StampInv(b)
      /\ kept = [kept EXCEPT ![b] = kept[b]] /\ proof = [proof EXCEPT ![b] = proof[b]]
      /\ visits \in 0..MaxVisits
  BY OfBrowser
<1>1. /\ asking[b].raised \in 0..MaxBumps /\ asking[b].raised # Unstamped
      /\ asking[b].raised \in 0..Unstamped
  BY <1>0 DEF Asking, Unstamped
<1>2. /\ s \in Identity /\ s.user = was.user /\ s.by = was.by /\ s.pending = was.pending
      /\ s.stamp = asking[b].raised
  BY <1>0, <1>1 DEF Identity
<1>3. /\ a \in Asking /\ a.at = "act" /\ a.acts = asking[b].acts /\ a.session = s
      /\ a.out = asking[b].out
  <2> HIDE DEF s
  <2>1. 0 \in 0..MaxBumps
    OBVIOUS
  <2> QED BY <1>0, <1>2, <2>1 DEF Asking
<1>4. /\ asking' = [asking EXCEPT ![b] = a] /\ kept' = [kept EXCEPT ![b] = kept[b]]
      /\ proof' = [proof EXCEPT ![b] = proof[b]]
      /\ generation' = generation /\ evicted' = evicted /\ visits' \in 0..MaxVisits
  BY <1>0 DEF Restamp, SessionOf
<1>5. /\ asking[b].at = "restamp" /\ CurrentOf(b) = was /\ StampOf(b) = asking[b].raised
  BY DEF Restamp, CurrentOf, StampOf
<1> HIDE DEF s, a
<1>6. /\ asking'[b] = a /\ proof'[b] = proof[b] /\ SessionOf(b)' = s /\ CurrentOf(b)' = s
      /\ StampOf(b)' = StampOf(b) /\ (BrowserInv(b)' => IdentityInv')
  <2>1. /\ a \in Asking /\ kept[b] \in Identity /\ proof[b] \in Proof
        /\ asking' = [asking EXCEPT ![b] = a] /\ kept' = [kept EXCEPT ![b] = kept[b]]
        /\ proof' = [proof EXCEPT ![b] = proof[b]]
        /\ generation' = generation /\ visits' \in 0..MaxVisits /\ evicted' = evicted
    BY <1>0, <1>3, <1>4
  <2>2. /\ asking'[b] = a /\ kept'[b] = kept[b] /\ proof'[b] = proof[b]
        /\ SessionOf(b)' = a.session
        /\ CurrentOf(b)' = IF a.at = "idle" THEN kept[b] ELSE a.session
        /\ BrowserInv(b)' => IdentityInv'
    BY <2>1, StepOfOne
  <2> QED BY <1>2, <1>3, <1>5, <2>2 DEF StampOf
<1>7. /\ OwnerOf(CurrentOf(b))' = OwnerOf(CurrentOf(b))
      /\ Impersonates(CurrentOf(b))' = Impersonates(CurrentOf(b))
      /\ Impersonates(SessionOf(b))' = Impersonates(SessionOf(b))
  BY <1>2, <1>5, <1>6 DEF OwnerOf, Impersonates
<1>8. ActingInv(b)'
  BY <1>0, <1>1, <1>2, <1>3, <1>5, <1>6, <1>7 DEF ActingInv
<1>9. OwnerInv(b)'
  BY <1>0, <1>2, <1>5, <1>6, <1>7 DEF OwnerInv
<1>10. StampInv(b)'
  <2> HIDE DEF was
  <2> QED BY <1>0, <1>3, <1>4, <1>5, <1>6, <1>7 DEF StampInv
<1> QED BY <1>6, <1>8, <1>9, <1>10 DEF BrowserInv

LEMMA KeepKeeps ==
  ASSUME IdentityInv, NEW b \in Browsers, KeepSession(b)
  PROVE  IdentityInv'
<1> USE IdentitiesAssumption
<1> DEFINE s == SessionOf(b)
<1>0. /\ proof[b] \in Proof /\ s \in Identity
      /\ ActingInv(b) /\ OwnerInv(b) /\ StampInv(b)
      /\ proof = [proof EXCEPT ![b] = proof[b]] /\ visits \in 0..MaxVisits
  BY OfBrowser
<1>1. /\ NotAsking \in Asking /\ NotAsking.at = "idle" /\ ~NotAsking.out
  BY DEF NotAsking, Asking, Stranger, Identity, Anyone, Unstamped
<1>2. /\ asking' = [asking EXCEPT ![b] = NotAsking] /\ kept' = [kept EXCEPT ![b] = s]
      /\ proof' = [proof EXCEPT ![b] = proof[b]]
      /\ generation' = generation /\ evicted' = evicted /\ visits' \in 0..MaxVisits
  BY <1>0 DEF KeepSession
<1>3. /\ asking[b].at = "act" /\ CurrentOf(b) = s /\ StampOf(b) = s.stamp
  BY DEF KeepSession, CurrentOf, StampOf
<1>4. /\ asking'[b] = NotAsking /\ proof'[b] = proof[b] /\ CurrentOf(b)' = s
      /\ StampOf(b)' = StampOf(b) /\ (BrowserInv(b)' => IdentityInv')
  <2> HIDE DEF s
  <2>1. /\ NotAsking \in Asking /\ s \in Identity /\ proof[b] \in Proof
        /\ asking' = [asking EXCEPT ![b] = NotAsking] /\ kept' = [kept EXCEPT ![b] = s]
        /\ proof' = [proof EXCEPT ![b] = proof[b]]
        /\ generation' = generation /\ visits' \in 0..MaxVisits /\ evicted' = evicted
    BY <1>0, <1>1, <1>2
  <2>2. /\ asking'[b] = NotAsking /\ kept'[b] = s /\ proof'[b] = proof[b]
        /\ SessionOf(b)' = NotAsking.session
        /\ CurrentOf(b)' = IF NotAsking.at = "idle" THEN s ELSE NotAsking.session
        /\ BrowserInv(b)' => IdentityInv'
    BY <2>1, StepOfOne
  <2> QED BY <1>1, <1>3, <2>2 DEF StampOf
<1>5. /\ OwnerOf(CurrentOf(b))' = OwnerOf(CurrentOf(b))
      /\ Impersonates(CurrentOf(b))' = Impersonates(CurrentOf(b))
  BY <1>3, <1>4 DEF OwnerOf, Impersonates
<1>6. ActingInv(b)'
  BY <1>0, <1>1, <1>3, <1>4, <1>5 DEF ActingInv
<1>7. OwnerInv(b)'
  BY <1>0, <1>3, <1>4, <1>5 DEF OwnerInv
<1>8. StampInv(b)'
  BY <1>0, <1>1, <1>2, <1>3, <1>4, <1>5 DEF StampInv
<1> QED BY <1>4, <1>6, <1>7, <1>8 DEF BrowserInv

\* A counter that is raised keeps the types.
LEMMA RaisedTypes ==
  ASSUME IdentitiesTypeOK, NEW p \in Persons, RaiseGeneration(p)
  PROVE  /\ generation' \in [Persons -> 0..MaxBumps]
         /\ generation'[p] = generation[p] + 1 /\ generation[p] + 1 \in 0..MaxBumps
BY IdentitiesAssumption DEF IdentitiesTypeOK, RaiseGeneration

LEMMA OthersKeeps ==
  ASSUME IdentityInv, NEW b \in Browsers, SignOutOthers(b)
  PROVE  IdentityInv'
<1> USE IdentitiesAssumption
<1>0. /\ asking[b] \in Asking /\ ActingInv(b) /\ OwnerInv(b) /\ StampInv(b) /\ SessionOf(b) \in Identity
      /\ IdentitiesTypeOK
  BY OfBrowser DEF IdentityInv
<1> PICK p : p = asking[b].acts
  OBVIOUS
<1>1. /\ asking[b].at = "act" /\ p \in Persons /\ p = SessionOf(b).user /\ p # NoPerson
      /\ ~Impersonates(SessionOf(b)) /\ RaiseGeneration(p)
      /\ UNCHANGED <<kept, visits, proof>> /\ evicted' = (evicted \cup SignedOut(p)) \ {b}
  BY <1>0 DEF SignOutOthers, ActingInv, Asking, Anyone
<1> DEFINE a == [asking[b] EXCEPT !.at = "restamp", !.raised = generation[p] + 1, !.out = FALSE]
<1>2. /\ a \in Asking /\ a.at = "restamp" /\ a.raised = generation'[p] /\ ~a.out
      /\ a.acts = p /\ a.session = SessionOf(b)
  BY <1>0, <1>1, RaisedTypes DEF Asking, SessionOf
<1>3. asking' = [asking EXCEPT ![b] = a]
  BY DEF SignOutOthers
<1> HIDE DEF a
<1>4. asking'[b] = a /\ \A c \in Browsers \ {b} : asking'[c] = asking[c]
  BY <1>0, <1>3 DEF IdentitiesTypeOK
<1>5. IdentitiesTypeOK'
  <2>1. evicted' \subseteq Browsers
    BY <1>0, <1>1 DEF IdentitiesTypeOK, SignedOut
  <2>2. asking' \in [Browsers -> Asking]
    BY <1>0, <1>2, <1>3 DEF IdentitiesTypeOK
  <2> QED BY <1>0, <1>1, <2>1, <2>2, RaisedTypes DEF IdentitiesTypeOK
<1>6. ASSUME NEW c \in Browsers \ {b} PROVE BrowserInv(c)'
  <2>1. /\ asking'[c] = asking[c] /\ kept'[c] = kept[c] /\ proof'[c] = proof[c]
        /\ c \in evicted' <=> c \in evicted \cup SignedOut(p)
    BY <1>1, <1>4
  <2> QED BY <1>0, <1>1, <2>1, Bumped DEF IdentityInv
<1>7. /\ SessionOf(b)' = SessionOf(b) /\ CurrentOf(b)' = SessionOf(b) /\ CurrentOf(b) = SessionOf(b)
      /\ StampOf(b)' = generation'[p] /\ proof'[b] = proof[b] /\ b \notin evicted'
  BY <1>1, <1>2, <1>4 DEF SessionOf, CurrentOf, StampOf
<1>8. /\ OwnerOf(SessionOf(b)) = p /\ OwnerOf(CurrentOf(b))' = p
      /\ ~Impersonates(CurrentOf(b))' /\ ~Impersonates(SessionOf(b))'
  BY <1>1, <1>7 DEF OwnerOf, Impersonates
<1>9. generation'[p] \in Nat
  BY <1>0, <1>1, RaisedTypes
<1>10. ActingInv(b)'
  BY <1>0, <1>1, <1>2, <1>4, <1>7, <1>8 DEF ActingInv
<1>11. OwnerInv(b)'
  BY <1>0, <1>7, <1>8 DEF OwnerInv
<1>12. p = proof[b].who
  BY <1>0, <1>1, <1>7, <1>8 DEF OwnerInv
<1>13. StampInv(b)'
  BY <1>1, <1>2, <1>4, <1>7, <1>8, <1>9, <1>12 DEF StampInv
<1>14. BrowserInv(b)'
  BY <1>10, <1>11, <1>13 DEF BrowserInv
<1> QED BY <1>5, <1>6, <1>14 DEF IdentityInv

LEMMA EverywhereKeeps ==
  ASSUME IdentityInv, NEW b \in Browsers, SignOutEverywhere(b)
  PROVE  IdentityInv'
<1> PICK p : p = asking[b].acts
  OBVIOUS
<1>0. IdentitiesTypeOK /\ asking[b].acts \in Anyone
  BY OfBrowser DEF IdentityInv, Asking
<1>1. /\ p \in Persons /\ RaiseGeneration(p) /\ UNCHANGED <<kept, asking, visits, proof>>
      /\ evicted' = evicted \cup SignedOut(p)
  BY <1>0 DEF SignOutEverywhere, Anyone
<1>2. IdentitiesTypeOK'
  <2>1. evicted' \subseteq Browsers
    BY <1>0, <1>1 DEF IdentitiesTypeOK, SignedOut
  <2> QED BY <1>0, <1>1, <2>1, RaisedTypes DEF IdentitiesTypeOK
<1>3. ASSUME NEW c \in Browsers PROVE BrowserInv(c)'
  <2>1. /\ asking'[c] = asking[c] /\ kept'[c] = kept[c] /\ proof'[c] = proof[c]
        /\ c \in evicted' <=> c \in evicted \cup SignedOut(p)
    BY <1>1
  <2> QED BY <1>0, <1>1, <2>1, Bumped DEF IdentityInv
<1> QED BY <1>2, <1>3 DEF IdentityInv

LEMMA IdentityNext == IdentityInv /\ [IdentityStep]_identityVars => IdentityInv'
<1> SUFFICES ASSUME IdentityInv, [IdentityStep]_identityVars PROVE IdentityInv'
  OBVIOUS
<1>1. ASSUME NEW b \in Browsers, NEW p \in Persons, LogIn(b, p) \/ CompleteChallenge(b, p)
      PROVE  IdentityInv'
  BY <1>1, EstablishKeeps DEF LogIn, CompleteChallenge
<1>2. CASE UNCHANGED identityVars
  <2>1. IdentitiesTypeOK'
    BY <1>2 DEF IdentityInv, IdentitiesTypeOK, identityVars
  <2>2. ASSUME NEW c \in Browsers PROVE BrowserInv(c)'
    BY <1>2, ElsewhereSame DEF IdentityInv, identityVars
  <2> QED BY <2>1, <2>2 DEF IdentityInv
<1> QED
  BY <1>1, <1>2, LoadKeeps, EnsureKeeps, StampKeeps, LogOutKeeps, OthersKeeps, RestampKeeps,
     EverywhereKeeps, StopKeeps, KeepKeeps, ChallengeKeeps, ImpersonateKeeps DEF IdentityStep

LEMMA IdentitySafe == IdentityInv => IdentitiesRight
<1> SUFFICES ASSUME IdentityInv PROVE IdentitiesRight
  OBVIOUS
<1> USE IdentitiesAssumption
<1>1. SignedOutAlone
  <2> SUFFICES ASSUME NEW b \in Browsers
               PROVE  /\ asking[b].at = "act" /\ asking[b].out /\ ~Impersonates(SessionOf(b)) =>
                             asking[b].acts = NoPerson
                      /\ proof[b].sure /\ b \notin evicted /\ asking[b].at \in {"act", "restamp"} =>
                             SessionOf(b).user = proof[b].who
    BY DEF SignedOutAlone
  <2> QED BY OfBrowser DEF StampInv, CurrentOf, OwnerOf
<1>2. ActsForOneself
  <2> SUFFICES ASSUME NEW b \in Browsers, NEW s \in Copies(b), s.user # NoPerson,
                      s = kept[b] => asking[b].at = "idle"
               PROVE  proof[b].who = (IF Impersonates(s) THEN s.by ELSE s.user)
    BY DEF ActsForOneself
  <2>1. s = CurrentOf(b)
    BY DEF Copies, CurrentOf
  <2>2. OwnerOf(s) \in {NoPerson, proof[b].who}
    BY <2>1, OfBrowser DEF OwnerInv
  <2> QED BY <2>2 DEF OwnerOf, Impersonates
<1>3. BothFactors
  BY OfBrowser DEF BothFactors, OwnerInv
<1> QED BY <1>1, <1>2, <1>3 DEF IdentitiesRight

-----------------------------------------------------------------------------
(* Files of a model *)

\* What an upload has put so far is what it knows to clean up.
UploadInv(u) ==
    /\ upload[u] = "idle" => media[u] = "none" /\ FilesOf(u) = {} /\ written[u] = {}
    /\ upload[u] \in {"storing", "saving", "cleaning"} =>
          media[u] = "row" /\ FilesOf(u) = written[u] /\ names[u] = {}
    /\ upload[u] = "storing" =>
          \/ Original \in todo[u] /\ written[u] = {}
          \/ Original \notin todo[u] /\ Original \in written[u] /\ todo[u] # {}
    /\ upload[u] = "saving" => Original \in written[u]
    /\ upload[u] = "failed" => media[u] = "gone"
    /\ upload[u] # "cancelled"

\* A deletion knows all the files there still are of a row whose files it has begun on.
DeletionInv(u) ==
    /\ upload[u] # "done" =>
          u \notin touched /\ \A d \in Deletions : u \notin deletion[d].rows \cup deletion[d].of
    /\ upload[u] = "idle" => names[u] = {}
    /\ upload[u] = "done" => FilesOf(u) \subseteq Stored(u)
    /\ upload[u] = "done" /\ u \notin touched => media[u] = "row" /\ FilesOf(u) = Stored(u)
    /\ media[u] = "gone" => FilesOf(u) = {}
    /\ \A d \in Deletions :
          deletion[d].at = "files" /\ u \in deletion[d].of =>
              u \in touched /\ FilesOf(u) \subseteq deletion[d].files

\* It takes the rows one by one.
RowByRow == \A d \in Deletions : \A u, v \in deletion[d].of : u = v

MediaInv == MediaTypeOK /\ RowByRow /\ \A u \in Uploads \ disrupted : UploadInv(u) /\ DeletionInv(u)

LEMMA MediaBegins == MediaInit => MediaInv
<1> SUFFICES ASSUME MediaInit PROVE MediaInv
  OBVIOUS
<1>1. MediaTypeOK
  BY DEF MediaInit, MediaTypeOK, NoDeletion
<1>2. RowByRow /\ \A u \in Uploads : UploadInv(u) /\ DeletionInv(u)
  BY DEF MediaInit, UploadInv, DeletionInv, RowByRow, FilesOf, NoDeletion
<1> QED BY <1>1, <1>2 DEF MediaInv

LEMMA MediaTypes == MediaTypeOK /\ [MediaStep]_mediaVars => MediaTypeOK'
<1> SUFFICES ASSUME MediaTypeOK, [MediaStep]_mediaVars PROVE MediaTypeOK'
  OBVIOUS
<1> USE DEF MediaTypeOK
<1>0. Original \in Parts /\ Conversions \subseteq Parts /\ \A c \in Parts \ {Original} : c \in Conversions
  BY DEF Parts
<1>1. ASSUME NEW u \in Uploads, NEW image \in BOOLEAN, Reserve(u, image) PROVE MediaTypeOK'
  BY <1>0, <1>1 DEF Reserve
<1>2. ASSUME NEW u \in Uploads, NEW p \in Parts, Put(u, p) PROVE MediaTypeOK'
  BY <1>2 DEF Put
<1>3. ASSUME NEW u \in Uploads, SaveNames(u) PROVE MediaTypeOK'
  <2>1. written[u] \ {Original} \subseteq Conversions
    BY <1>0
  <2>2. names' \in [Uploads -> SUBSET Conversions]
    BY <1>3, <2>1 DEF SaveNames
  <2> QED BY <1>3, <2>2 DEF SaveNames
<1>4. ASSUME NEW u \in Uploads, NEW leaves \in SUBSET Parts, UploadFails(u, leaves) PROVE MediaTypeOK'
  BY <1>4 DEF UploadFails
<1>5. ASSUME NEW u \in Uploads, NEW refuses \in BOOLEAN, Clean(u, refuses) PROVE MediaTypeOK'
  <2>1. CASE written[u] # {}
    BY <1>5, <2>1 DEF Clean
  <2>2. CASE written[u] = {}
    BY <1>5, <2>2 DEF Clean
  <2> QED BY <2>1, <2>2
<1>6. ASSUME NEW u \in Uploads, UploadCancelled(u) PROVE MediaTypeOK'
  BY <1>6 DEF UploadCancelled
<1>7. ASSUME NEW d \in Deletions, NEW rows \in SUBSET MediaRows, BeginDeletion(d, rows) PROVE MediaTypeOK'
  BY <1>7 DEF BeginDeletion, MediaRows, NoDeletion
<1>8. ASSUME NEW d \in Deletions, NEW u \in Uploads, NextRow(d, u) PROVE MediaTypeOK'
  <2>1. [deletion[d] EXCEPT !.at = "files", !.of = {u}, !.rows = deletion[d].rows \ {u},
                            !.files = names[u] \cup {Original}]
          \in [at : {"idle", "next", "files", "done"}, rows : SUBSET Uploads,
              of : SUBSET Uploads, files : SUBSET Parts]
    BY <1>0
  <2> QED BY <1>8, <2>1 DEF NextRow
<1>9. ASSUME NEW d \in Deletions, NEW u \in Uploads, NEW p \in Parts, DeleteFile(d, u, p)
      PROVE  MediaTypeOK'
  BY <1>9 DEF DeleteFile
<1>10. ASSUME NEW d \in Deletions, NEW u \in Uploads, DeleteMediaRow(d, u) PROVE MediaTypeOK'
  BY <1>10 DEF DeleteMediaRow
<1>11. ASSUME NEW d \in Deletions, DeletionFails(d) PROVE MediaTypeOK'
  BY <1>11 DEF DeletionFails, NoDeletion
<1>12. CASE UNCHANGED mediaVars
  BY <1>12 DEF mediaVars
<1> QED
  BY <1>1, <1>2, <1>3, <1>4, <1>5, <1>6, <1>7, <1>8, <1>9, <1>10, <1>11, <1>12 DEF MediaStep

\* A step keeps what holds of an upload that it does not touch.
LEMMA OtherUpload ==
  ASSUME NEW u \in Uploads, UploadInv(u), DeletionInv(u),
         media'[u] = media[u], names'[u] = names[u], FilesOf(u)' = FilesOf(u),
         upload'[u] = upload[u], todo'[u] = todo[u], written'[u] = written[u],
         deletion' = deletion, u \in touched' <=> u \in touched
  PROVE  UploadInv(u)' /\ DeletionInv(u)'
BY DEF UploadInv, DeletionInv, Stored

LEMMA MediaNext == MediaInv /\ [MediaStep]_mediaVars => MediaInv'
<1> SUFFICES ASSUME MediaInv, [MediaStep]_mediaVars PROVE MediaInv'
  OBVIOUS
<1>0. MediaTypeOK /\ MediaTypeOK' /\ RowByRow
  BY MediaTypes DEF MediaInv
<1>15. RowByRow'
  <2> DEFINE SomeRow(d) == \E u \in Uploads : deletion'[d].of \subseteq {u}
  <2>1. ASSUME NEW d \in Deletions, \A e \in Deletions \ {d} : deletion'[e] = deletion[e],
               deletion'[d].of \subseteq deletion[d].of \/ SomeRow(d)
        PROVE  RowByRow'
    BY <1>0, <2>1 DEF RowByRow
  <2>2. ASSUME NEW d \in Deletions, NEW rows \in SUBSET MediaRows, BeginDeletion(d, rows) PROVE RowByRow'
    BY <1>0, <2>1, <2>2 DEF BeginDeletion, NoDeletion, MediaTypeOK
  <2>3. ASSUME NEW d \in Deletions, NEW u \in Uploads, NextRow(d, u) PROVE RowByRow'
    BY <1>0, <2>1, <2>3 DEF NextRow, MediaTypeOK
  <2>4. ASSUME NEW d \in Deletions, NEW u \in Uploads, NEW p \in Parts, DeleteFile(d, u, p) PROVE RowByRow'
    BY <1>0, <2>1, <2>4 DEF DeleteFile, MediaTypeOK
  <2>5. ASSUME NEW d \in Deletions, NEW u \in Uploads, DeleteMediaRow(d, u) PROVE RowByRow'
    BY <1>0, <2>1, <2>5 DEF DeleteMediaRow, MediaTypeOK
  <2>6. ASSUME NEW d \in Deletions, DeletionFails(d) PROVE RowByRow'
    BY <1>0, <2>1, <2>6 DEF DeletionFails, NoDeletion, MediaTypeOK
  <2>7. CASE UNCHANGED deletion
    BY <1>0, <2>7 DEF RowByRow
  <2> QED
    BY <2>2, <2>3, <2>4, <2>5, <2>6, <2>7
    DEF MediaStep, mediaVars, Reserve, Put, SaveNames, UploadFails, Clean, UploadCancelled
<1> DEFINE Keeps == \A v \in Uploads \ disrupted' : UploadInv(v)' /\ DeletionInv(v)'
<1>1. Keeps => MediaInv'
  BY <1>0, <1>15 DEF MediaInv
<1>2. ASSUME NEW v \in Uploads \ disrupted PROVE UploadInv(v) /\ DeletionInv(v)
  BY DEF MediaInv
<1>3. ASSUME NEW u \in Uploads, NEW image \in BOOLEAN, Reserve(u, image) PROVE Keeps
  <2> SUFFICES ASSUME NEW v \in Uploads \ disrupted' PROVE UploadInv(v)' /\ DeletionInv(v)'
    OBVIOUS
  <2>1. v \notin disrupted /\ UploadInv(v) /\ DeletionInv(v) /\ FilesOf(v)' = FilesOf(v)
    BY <1>2, <1>3 DEF Reserve, FilesOf
  <2>2. CASE v # u
    BY <1>0, <1>3, <2>1, <2>2, OtherUpload DEF Reserve, MediaTypeOK
  <2>3. CASE v = u
    <3>1. UploadInv(v)'
      <4>1. upload'[v] = "storing" /\ media'[v] = "row" /\ todo'[v] \in {{Original}, Parts}
        BY <1>0, <1>3, <2>3 DEF Reserve, MediaTypeOK
      <4>2. FilesOf(v)' = {} /\ written'[v] = {} /\ names'[v] = {}
        BY <1>3, <2>1, <2>3 DEF Reserve, UploadInv, DeletionInv
      <4>3. Original \in todo'[v]
        BY <4>1 DEF Parts
      <4> QED BY <4>1, <4>2, <4>3 DEF UploadInv
    <3>2. DeletionInv(v)'
      BY <1>0, <1>3, <2>1, <2>3 DEF Reserve, MediaTypeOK, UploadInv, DeletionInv, Stored
    <3> QED BY <3>1, <3>2
  <2> QED BY <2>2, <2>3
<1>4. ASSUME NEW u \in Uploads, NEW p \in Parts, Put(u, p) PROVE Keeps
  <2> SUFFICES ASSUME NEW v \in Uploads \ disrupted' PROVE UploadInv(v)' /\ DeletionInv(v)'
    OBVIOUS
  <2>1. v \notin disrupted /\ UploadInv(v) /\ DeletionInv(v)
    BY <1>2, <1>4 DEF Put
  <2>2. CASE v # u
    <3>1. FilesOf(v)' = FilesOf(v)
      BY <1>4, <2>2 DEF Put, FilesOf
    <3> QED BY <1>0, <1>4, <2>1, <2>2, <3>1, OtherUpload DEF Put, MediaTypeOK
  <2>3. CASE v = u
    <3>1. FilesOf(v)' = FilesOf(v) \cup {p} /\ written'[v] = written[v] \cup {p} /\ todo'[v] = todo[v] \ {p}
      BY <1>0, <1>4, <2>3 DEF Put, FilesOf, MediaTypeOK
    <3>2. /\ upload[v] = "storing" /\ media'[v] = "row" /\ names'[v] = {} /\ FilesOf(v)' = written'[v]
          /\ touched' = touched /\ deletion' = deletion
      BY <1>4, <2>1, <2>3, <3>1 DEF Put, UploadInv
    <3>3. /\ Original \in todo[v] => p = Original /\ written[v] = {}
          /\ Original \notin todo[v] => Original \in written[v]
      BY <1>4, <2>1, <2>3, <3>2 DEF Put, NextPart, UploadInv
    <3>4. upload'[v] = IF todo[v] # {p} THEN "storing" ELSE IF p = Original THEN "done" ELSE "saving"
      BY <1>0, <1>4, <2>3 DEF Put, MediaTypeOK
    <3>5. p \in todo[v]
      BY <1>4, <2>3 DEF Put, NextPart
    <3>6. UploadInv(v)'
      BY <3>1, <3>2, <3>3, <3>4, <3>5 DEF UploadInv
    <3>7. DeletionInv(v)'
      BY <2>1, <3>1, <3>2, <3>3, <3>4 DEF DeletionInv, Stored
    <3> QED BY <3>6, <3>7
  <2> QED BY <2>2, <2>3
<1>5. ASSUME NEW u \in Uploads, SaveNames(u) PROVE Keeps
  <2> SUFFICES ASSUME NEW v \in Uploads \ disrupted' PROVE UploadInv(v)' /\ DeletionInv(v)'
    OBVIOUS
  <2>1. v \notin disrupted /\ UploadInv(v) /\ DeletionInv(v) /\ FilesOf(v)' = FilesOf(v)
    BY <1>2, <1>5 DEF SaveNames, FilesOf
  <2>2. CASE v # u
    BY <1>0, <1>5, <2>1, <2>2, OtherUpload DEF SaveNames, MediaTypeOK
  <2>3. CASE v = u
    <3>1. /\ media[v] = "row" /\ FilesOf(v) = written[v] /\ Original \in written[v]
          /\ names'[v] = written[v] \ {Original} /\ upload'[v] = "done" /\ upload[v] = "saving"
          /\ UNCHANGED <<media, written, touched, deletion>>
      BY <1>0, <1>5, <2>1, <2>3 DEF SaveNames, MediaTypeOK, UploadInv
    <3> QED BY <2>1, <3>1 DEF UploadInv, DeletionInv, Stored
  <2> QED BY <2>2, <2>3
<1>6. ASSUME NEW u \in Uploads, NEW leaves \in SUBSET Parts, UploadFails(u, leaves) PROVE Keeps
  <2> SUFFICES ASSUME NEW v \in Uploads \ disrupted' PROVE UploadInv(v)' /\ DeletionInv(v)'
    OBVIOUS
  <2>1. v \notin disrupted /\ UploadInv(v) /\ DeletionInv(v)
    BY <1>2, <1>6 DEF UploadFails
  <2>2. v # u \/ leaves = {}
    BY <1>6 DEF UploadFails
  <2>3. FilesOf(v)' = FilesOf(v)
    BY <1>6, <2>2 DEF UploadFails, FilesOf
  <2>4. CASE v # u
    BY <1>0, <1>6, <2>1, <2>3, <2>4, OtherUpload DEF UploadFails, MediaTypeOK
  <2>5. CASE v = u
    BY <1>0, <1>6, <2>1, <2>3, <2>5 DEF UploadFails, MediaTypeOK, UploadInv, DeletionInv, Stored
  <2> QED BY <2>4, <2>5
<1>7. ASSUME NEW u \in Uploads, NEW refuses \in BOOLEAN, Clean(u, refuses) PROVE Keeps
  <2> SUFFICES ASSUME NEW v \in Uploads \ disrupted' PROVE UploadInv(v)' /\ DeletionInv(v)'
    OBVIOUS
  <2>1. v \notin disrupted /\ UploadInv(v) /\ DeletionInv(v) /\ (v = u => ~refuses)
    BY <1>2, <1>7 DEF Clean
  <2>2. CASE v # u
    <3>1. FilesOf(v)' = FilesOf(v)
      BY <1>7, <2>2 DEF Clean, FilesOf
    <3> QED BY <1>0, <1>7, <2>1, <2>2, <3>1, OtherUpload DEF Clean, MediaTypeOK
  <2>3. CASE v = u /\ written[u] # {}
    <3>1. PICK p \in written[u] : /\ written' = [written EXCEPT ![u] = @ \ {p}]
                                  /\ disk' = disk \ {<<u, p>>}
                                  /\ UNCHANGED <<media, upload, touched, names, todo, deletion>>
      BY <1>7, <2>1, <2>3 DEF Clean
    <3>2. FilesOf(v)' = FilesOf(v) \ {p} /\ written'[v] = written[v] \ {p} /\ upload[v] = "cleaning"
      BY <1>0, <1>7, <2>3, <3>1 DEF Clean, FilesOf, MediaTypeOK
    <3> QED BY <2>1, <3>1, <3>2 DEF UploadInv, DeletionInv
  <2>4. CASE v = u /\ written[u] = {}
    <3>1. /\ media'[v] = "gone" /\ upload'[v] = "failed" /\ upload[v] = "cleaning" /\ FilesOf(v)' = {}
          /\ UNCHANGED <<disk, written, touched, names, deletion>>
      BY <1>0, <1>7, <2>1, <2>4 DEF Clean, MediaTypeOK, UploadInv, FilesOf
    <3> QED BY <2>1, <3>1 DEF UploadInv, DeletionInv
  <2> QED BY <2>2, <2>3, <2>4
<1>8. ASSUME NEW u \in Uploads, UploadCancelled(u) PROVE Keeps
  <2> SUFFICES ASSUME NEW v \in Uploads \ disrupted' PROVE UploadInv(v)' /\ DeletionInv(v)'
    OBVIOUS
  <2>1. v \notin disrupted /\ v # u /\ FilesOf(v)' = FilesOf(v)
    BY <1>8 DEF UploadCancelled, FilesOf
  <2> QED BY <1>0, <1>2, <1>8, <2>1, OtherUpload DEF UploadCancelled, MediaTypeOK
<1>9. ASSUME NEW d \in Deletions, NEW rows \in SUBSET MediaRows, BeginDeletion(d, rows) PROVE Keeps
  <2> SUFFICES ASSUME NEW v \in Uploads \ disrupted' PROVE UploadInv(v)' /\ DeletionInv(v)'
    OBVIOUS
  <2>1. v \notin disrupted /\ UploadInv(v) /\ DeletionInv(v) /\ FilesOf(v)' = FilesOf(v)
    BY <1>2, <1>9 DEF BeginDeletion, FilesOf
  <2>2. v \in rows => upload[v] = "done"
    <3>1. v \in rows => upload[v] \notin {"storing", "saving", "cleaning", "idle", "failed", "cancelled"}
      BY <1>9, <2>1 DEF BeginDeletion, MediaRows, UploadInv
    <3> QED BY <1>0, <3>1 DEF MediaTypeOK
  <2>3. UploadInv(v)'
    BY <1>9, <2>1 DEF BeginDeletion, UploadInv
  <2>4. DeletionInv(v)'
    BY <1>0, <1>9, <2>1, <2>2 DEF BeginDeletion, DeletionInv, Stored, MediaTypeOK, NoDeletion
  <2> QED BY <2>3, <2>4
<1>10. ASSUME NEW d \in Deletions, NEW u \in Uploads, NextRow(d, u) PROVE Keeps
  <2> SUFFICES ASSUME NEW v \in Uploads \ disrupted' PROVE UploadInv(v)' /\ DeletionInv(v)'
    OBVIOUS
  <2>1. v \notin disrupted /\ UploadInv(v) /\ DeletionInv(v) /\ FilesOf(v)' = FilesOf(v)
    BY <1>2, <1>10 DEF NextRow, FilesOf
  <2>2. UploadInv(v)'
    BY <1>10, <2>1 DEF NextRow, UploadInv
  <2>3. DeletionInv(v)'
    <3>1. /\ deletion[d].at = "next" /\ u \in deletion[d].rows
          /\ touched' = touched \cup {u} /\ UNCHANGED <<media, names, upload>>
      BY <1>10 DEF NextRow
    <3>2. /\ deletion'[d].at = "files" /\ deletion'[d].of = {u}
          /\ deletion'[d].rows = deletion[d].rows \ {u} /\ deletion'[d].files = Stored(u)
          /\ \A e \in Deletions \ {d} : deletion'[e] = deletion[e]
      BY <1>0, <1>10 DEF NextRow, MediaTypeOK, Stored
    <3>3. v = u => upload[v] = "done"
      BY <2>1, <3>1 DEF DeletionInv
    <3>4. Stored(v)' = Stored(v) /\ FilesOf(v)' = FilesOf(v)
      BY <2>1, <3>1 DEF Stored
    <3>5. upload[v] # "done" =>
              v \notin touched' /\ \A e \in Deletions : v \notin deletion'[e].rows \cup deletion'[e].of
      BY <2>1, <3>1, <3>2, <3>3 DEF DeletionInv
    <3>6. v = u => FilesOf(v) \subseteq Stored(v)
      BY <2>1, <3>3 DEF DeletionInv
    <3>7. ASSUME NEW e \in Deletions, deletion'[e].at = "files", v \in deletion'[e].of
          PROVE  v \in touched' /\ FilesOf(v) \subseteq deletion'[e].files
      <4>1. CASE e = d
        BY <3>1, <3>2, <3>6, <3>7, <4>1
      <4>2. CASE e # d
        BY <2>1, <3>1, <3>2, <3>7, <4>2 DEF DeletionInv
      <4> QED BY <4>1, <4>2
    <3>8. upload[v] = "done" /\ v \notin touched' => media[v] = "row" /\ FilesOf(v) = Stored(v)
      BY <2>1, <3>1 DEF DeletionInv
    <3>9. /\ upload[v] = "idle" => names[v] = {}
          /\ upload[v] = "done" => FilesOf(v) \subseteq Stored(v)
          /\ media[v] = "gone" => FilesOf(v) = {}
      BY <2>1 DEF DeletionInv
    <3> QED BY <3>1, <3>4, <3>5, <3>7, <3>8, <3>9 DEF DeletionInv
  <2> QED BY <2>2, <2>3
<1>11. ASSUME NEW d \in Deletions, NEW u \in Uploads, NEW p \in Parts, DeleteFile(d, u, p) PROVE Keeps
  <2> SUFFICES ASSUME NEW v \in Uploads \ disrupted' PROVE UploadInv(v)' /\ DeletionInv(v)'
    OBVIOUS
  <2>1. v \notin disrupted /\ UploadInv(v) /\ DeletionInv(v)
    BY <1>2, <1>11 DEF DeleteFile
  <2>2. FilesOf(v)' = IF v = u THEN FilesOf(v) \ {p} ELSE FilesOf(v)
    BY <1>11 DEF DeleteFile, FilesOf
  <2>3. v = u => upload[v] = "done" /\ v \in touched
    BY <1>11, <2>1 DEF DeleteFile, DeletionInv
  <2>4. UploadInv(v)'
    BY <1>11, <2>1, <2>2, <2>3 DEF DeleteFile, UploadInv
  <2>5. DeletionInv(v)'
    BY <1>0, <1>11, <2>1, <2>2, <2>3 DEF DeleteFile, DeletionInv, RowByRow, Stored, MediaTypeOK
  <2> QED BY <2>4, <2>5
<1>12. ASSUME NEW d \in Deletions, NEW u \in Uploads, DeleteMediaRow(d, u) PROVE Keeps
  <2> SUFFICES ASSUME NEW v \in Uploads \ disrupted' PROVE UploadInv(v)' /\ DeletionInv(v)'
    OBVIOUS
  <2>1. v \notin disrupted /\ UploadInv(v) /\ DeletionInv(v) /\ FilesOf(v)' = FilesOf(v)
    BY <1>2, <1>12 DEF DeleteMediaRow, FilesOf
  <2>2. v = u => upload[v] = "done" /\ v \in touched /\ FilesOf(v) = {}
    BY <1>12, <2>1 DEF DeleteMediaRow, DeletionInv
  <2>3. UploadInv(v)'
    BY <1>0, <1>12, <2>1, <2>2 DEF DeleteMediaRow, UploadInv, MediaTypeOK
  <2>4. DeletionInv(v)'
    BY <1>0, <1>12, <2>1, <2>2 DEF DeleteMediaRow, DeletionInv, Stored, MediaTypeOK
  <2> QED BY <2>3, <2>4
<1>13. ASSUME NEW d \in Deletions, DeletionFails(d) PROVE Keeps
  <2> SUFFICES ASSUME NEW v \in Uploads \ disrupted' PROVE UploadInv(v)' /\ DeletionInv(v)'
    OBVIOUS
  <2>1. v \notin disrupted /\ UploadInv(v) /\ DeletionInv(v) /\ FilesOf(v)' = FilesOf(v)
    BY <1>2, <1>13 DEF DeletionFails, FilesOf
  <2>2. UploadInv(v)'
    BY <1>13, <2>1 DEF DeletionFails, UploadInv
  <2>3. DeletionInv(v)'
    BY <1>0, <1>13, <2>1 DEF DeletionFails, DeletionInv, Stored, MediaTypeOK, NoDeletion
  <2> QED BY <2>2, <2>3
<1>14. CASE UNCHANGED mediaVars
  <2> SUFFICES ASSUME NEW v \in Uploads \ disrupted' PROVE UploadInv(v)' /\ DeletionInv(v)'
    BY <1>1
  <2> QED BY <1>2, <1>14, OtherUpload DEF mediaVars, FilesOf
<1> HIDE DEF Keeps
<1> QED
  BY <1>1, <1>3, <1>4, <1>5, <1>6, <1>7, <1>8, <1>9, <1>10, <1>11, <1>12, <1>13, <1>14 DEF MediaStep

-----------------------------------------------------------------------------
(* The application *)

PartsInv == SessionInv /\ FeatureInv /\ LoginInv /\ IdentityInv /\ MediaInv /\ WorkingInv

\* Whatever steps the parts take, each of these keeps its invariant: nobody else writes what
\* it keeps.
THEOREM PartsKeepTheirs == Spec => []PartsInv
<1>1. Init => PartsInv
  BY SessionBegins, FeatureBegins, LoginBegins, IdentityBegins, MediaBegins, WorkingBegins
  DEF Init, PartsInv
<1>2. PartsInv /\ [Next]_vars => PartsInv'
  BY PartSteps, SessionNext, FeatureNext, LoginNext, IdentityNext, MediaNext, WorkingNext
  DEF PartsInv
<1> QED BY <1>1, <1>2, PTL DEF Spec

\* What was kept for a browser, a user or a scope is what the next reader finds, and no
\* other: session items and messages (sessions/), an override of a flag (features/), refresh
\* and remember tokens (auth/), who acts in a session, and the files of a row (media/).
THEOREM NextReaderFinds == Spec => []KeptForNext
<1>1. PartsInv => KeptForNext
  <2> SUFFICES ASSUME PartsInv PROVE KeptForNext
    OBVIOUS
  <2>1. SessionCarried
    BY DEF PartsInv, SessionInv, CarryInv
  <2>2. OverridesStick
    BY DEF PartsInv, FeatureInv, OverridesStick
  <2>3. LoginsRight
    BY LoginSafe DEF PartsInv
  <2>4. IdentitiesRight
    BY IdentitySafe DEF PartsInv
  <2>5. NoOrphans
    BY DEF PartsInv, MediaInv, UploadInv, DeletionInv, NoOrphans
  <2> QED BY <2>1, <2>2, <2>3, <2>4, <2>5 DEF KeptForNext
<1> QED BY <1>1, PartsKeepTheirs, PTL

\* A worker that counts its jobs (queue/worker.py): it stops at its limit, no idle tick stops
\* it while there is something to do, and when it has closed nothing runs that was not left.
THEOREM WorkerCounts == Spec => []WorkedOff
<1>1. PartsInv => WorkedOff
  BY DEF PartsInv, WorkingInv, TallyInv, StageInv, WorkedOff
<1> QED BY <1>1, PartsKeepTheirs, PTL

-----------------------------------------------------------------------------
(* The life of the application and its resources *)

\* Until somebody shuts the manager down, nothing is disconnected, and what came up is open.
WhileOpen ==
    ~closed =>
        /\ \A r \in Managed : leaving[r] = Nobody
        /\ app \in {"starting", "serving"} =>
              \A r \in registry \cap Managed : bring[r] \in {"check", "ok"} => r \in open
        /\ app = "serving" => \A r \in Critical \cap registry : bring[r] = "ok"

\* What was opened is closed, or is being closed, or is to be: by the callback of the manager,
\* from which only the exceptions keep the application.
ToBeReleased ==
    /\ app \in {"booting", "starting"} => ~closed
    /\ open = connected /\ open \subseteq registry
    /\ app = "booting" => open = {} /\ \A r \in Resources : bring[r] = "off"
    /\ app = "starting" => Contains(callbacks, "shutdown")
    /\ \A r \in Resources : bring[r] = "connect" => r \in registry \cap Managed
    /\ excused \/ closed \/ open = {} \/ Contains(callbacks, "shutdown")
    /\ closed /\ ~excused => \A r \in open : r \in stuck \/ leaving[r] # Nobody
    /\ \A r \in Managed : leaving[r] = "main" => app \in {"rollback", "releasing"}
    /\ app = "over" => excused \/ ~Contains(callbacks, "shutdown")

LifeShapes ==
    /\ registry \subseteq Resources /\ callbacks \in Seq({"shutdown", "own"})
    /\ open \subseteq Managed /\ connected \subseteq Managed
    /\ bring \in [Resources -> {"off", "connect", "check", "ok", "failed"}]
    /\ leaving \in [Managed -> {Nobody, "main", "signal"}]

LifeInv == LifeShapes /\ WhileOpen /\ ToBeReleased

\* At boot no resource is up.
LEMMA LifeBegins == LifeInit => LifeInv
  BY LifecycleAssumption DEF LifeInit, LifeInv, LifeShapes, WhileOpen, ToBeReleased, Nobody, Contains

\* What a callback that is added last does to the list of them.
LEMMA AppendHolds ==
  ASSUME NEW S, NEW s \in Seq(S), NEW e \in S
  PROVE  Contains(Append(s, e), e) /\ (\A x : Contains(s, x) => Contains(Append(s, e), x))
<1>1. Len(Append(s, e)) = Len(s) + 1 /\ Append(s, e)[Len(s) + 1] = e
      /\ \A i \in 1..Len(s) : Append(s, e)[i] = s[i]
  OBVIOUS
<1>2. DOMAIN s = 1..Len(s) /\ DOMAIN Append(s, e) = 1..Len(s) + 1 /\ Len(s) \in Nat
  OBVIOUS
<1> QED BY <1>1, <1>2 DEF Contains

\* And one that is taken from its end.
LEMMA FrontHolds ==
  ASSUME NEW S, NEW s \in Seq(S), s # <<>>
  PROVE  /\ Front(s) \in Seq(S) /\ Last(s) \in S /\ Len(Front(s)) = Len(s) - 1
         /\ DOMAIN Front(s) = 1..(Len(s) - 1) /\ \A i \in 1..(Len(s) - 1) : Front(s)[i] = s[i]
         /\ \A x : Contains(s, x) <=> x = Last(s) \/ Contains(Front(s), x)
<1>1. Len(s) \in Nat \ {0} /\ Front(s) = SubSeq(s, 1, Len(s) - 1) /\ Last(s) = s[Len(s)]
  BY DEF Front, Last
<1>2. Len(s) - 1 \in Nat /\ 1 \in Nat /\ Len(s) - 1 <= Len(s)
  BY <1>1
<1>3. Front(s) = [i \in 1..(Len(s) - 1) |-> s[i]]
  BY <1>1, <1>2
<1>7. DOMAIN s = 1..Len(s) /\ \A i \in 1..(Len(s) - 1) : s[i] \in S
  BY <1>1
<1>8. Front(s) \in Seq(S) /\ Len(Front(s)) = Len(s) - 1
  BY <1>2, <1>3, <1>7
<1>4. \A i \in 1..Len(s) : i = Len(s) \/ i \in 1..(Len(s) - 1)
  BY <1>1
<1>5. Last(s) \in S
  BY <1>1
<1>6. \A x : Contains(s, x) <=> x = Last(s) \/ Contains(Front(s), x)
  <2>1. \A x : (\E i \in 1..Len(s) : s[i] = x) <=> x = s[Len(s)] \/ \E i \in 1..(Len(s) - 1) : s[i] = x
    BY <1>1, <1>4
  <2>2. \A x : (\E i \in DOMAIN Front(s) : Front(s)[i] = x) <=> \E i \in 1..(Len(s) - 1) : s[i] = x
    BY <1>3
  <2> QED BY <1>1, <1>7, <2>1, <2>2 DEF Contains
<1> QED BY <1>3, <1>5, <1>6, <1>8

\* Each step of the life of an application, and of who shuts it down meanwhile (kernel/).
LEMMA LifeNext == LifeInv /\ [LifeStep]_lifeVars => LifeInv'
<1> SUFFICES ASSUME LifeInv, [LifeStep]_lifeVars PROVE LifeInv'
  OBVIOUS
<1> USE LifecycleAssumption DEF LifeInv, RegistryKept, ConnectionsKept
<1>i. LifeShapes /\ WhileOpen /\ ToBeReleased
  OBVIOUS
<1>1. ASSUME NEW r \in Resources, Register(r) PROVE LifeInv'
  BY <1>1 DEF Register, LifeShapes, WhileOpen, ToBeReleased
<1>2. CASE Terminating
  <2>1. callbacks' = Append(callbacks, "own") /\ callbacks' \in Seq({"shutdown", "own"})
    BY <1>2 DEF Terminating, LifeShapes
  <2>2. Contains(callbacks, "shutdown") => Contains(callbacks, "shutdown")'
    BY <2>1, AppendHolds DEF LifeShapes
  <2>3. app # "over"
    BY <1>2 DEF Terminating
  <2> QED BY <1>2, <2>1, <2>2, <2>3 DEF Terminating, LifeShapes, WhileOpen, ToBeReleased
<1>3. CASE BootRaises \/ CancelStartup \/ Terminate \/ HooksDone
  BY <1>3 DEF BootRaises, CancelStartup, Terminate, HooksDone, LifeShapes, WhileOpen, ToBeReleased, Contains
<1>4. CASE StartResources
  <2>1. CASE registry = {}
    BY <1>4, <2>1 DEF StartResources, LifeShapes, WhileOpen, ToBeReleased, Contains
  <2>2. CASE registry # {}
    <3>1. callbacks' = Append(callbacks, "shutdown") /\ callbacks' \in Seq({"shutdown", "own"})
      BY <1>4, <2>2 DEF StartResources, LifeShapes
    <3>2. Contains(callbacks, "shutdown")'
      BY <3>1, AppendHolds DEF LifeShapes
    <3> QED BY <1>4, <2>2, <3>1, <3>2 DEF StartResources, LifeShapes, WhileOpen, ToBeReleased
  <2> QED BY <2>1, <2>2
<1>5. ASSUME NEW r \in Resources, AttemptFails(r) PROVE LifeInv'
  BY <1>5 DEF AttemptFails, LifeShapes, WhileOpen, ToBeReleased, Contains
<1>6. ASSUME NEW r \in Resources, Connect(r) PROVE LifeInv'
  BY <1>6 DEF Connect, LifeShapes, WhileOpen, ToBeReleased, Contains
<1>7. ASSUME NEW r \in Resources, NEW verdict \in {"ok", "failed"}, Check(r, verdict) PROVE LifeInv'
  BY <1>7 DEF Check, LifeShapes, WhileOpen, ToBeReleased, Contains
<1>8. CASE Report
  BY <1>8 DEF Report, BeginShutdown, Targets, Nobody, LifeShapes, WhileOpen, ToBeReleased, Contains
<1>9. ASSUME NEW r \in Managed, Disconnected(r) PROVE LifeInv'
  BY <1>9 DEF Disconnected, Nobody, LifeShapes, WhileOpen, ToBeReleased, Contains
<1>10. ASSUME NEW r \in Managed, DisconnectFails(r) PROVE LifeInv'
  BY <1>10 DEF DisconnectFails, Nobody, LifeShapes, WhileOpen, ToBeReleased, Contains
<1>11. CASE CancelShutdown
  BY <1>11 DEF CancelShutdown, Nobody, LifeShapes, WhileOpen, ToBeReleased, Contains
<1>12. CASE SignalShutdown
  BY <1>12 DEF SignalShutdown, BeginShutdown, Targets, Nobody, LifeShapes, WhileOpen, ToBeReleased, Contains
<1>13. CASE RolledBack \/ Released
  BY <1>13 DEF RolledBack, Released, Pending, LifeShapes, WhileOpen, ToBeReleased, Contains
<1>14. CASE TerminateRaises
  BY <1>14 DEF TerminateRaises, LifeShapes, WhileOpen, ToBeReleased, Contains
<1>15. CASE NextCallback
  <2>1. CASE callbacks = <<>>
    BY <1>15, <2>1 DEF NextCallback, LifeShapes, WhileOpen, ToBeReleased, Contains
  <2>2. CASE callbacks # <<>>
    <3>1. callbacks' = Front(callbacks) /\ callbacks' \in Seq({"shutdown", "own"})
          /\ (Contains(callbacks, "shutdown") => Last(callbacks) = "shutdown" \/ Contains(callbacks, "shutdown")')
      BY <1>15, <2>2, FrontHolds DEF NextCallback, LifeShapes
    <3>2. CASE Last(callbacks) = "own"
      BY <1>15, <2>2, <3>1, <3>2 DEF NextCallback, LifeShapes, WhileOpen, ToBeReleased
    <3>3. CASE Last(callbacks) # "own"
      BY <1>15, <2>2, <3>1, <3>3 DEF NextCallback, BeginShutdown, Targets, Nobody, LifeShapes, WhileOpen, ToBeReleased
    <3> QED BY <3>2, <3>3
  <2> QED BY <2>1, <2>2
<1>16. CASE UNCHANGED lifeVars
  BY <1>16 DEF lifeVars, LifeShapes, WhileOpen, ToBeReleased, Contains
<1> QED BY <1>1, <1>2, <1>3, <1>4, <1>5, <1>6, <1>7, <1>8, <1>9, <1>10, <1>11, <1>12, <1>13, <1>14,
           <1>15, <1>16 DEF LifeStep

\* What the resources promise follows.
LEMMA LifeSafe == LifeInv => ResourcesRight
  BY LifecycleAssumption DEF LifeInv, LifeShapes, WhileOpen, ToBeReleased, ResourcesRight, ServesWithItsResources, EverythingReleased, Contains, Nobody

-----------------------------------------------------------------------------
(* The container *)

\* A sequence of closures that are registered, in their order.
Wearable(worn) == worn \in Seq(Extensions) /\ Range(worn) \subseteq Range(extended) /\ InOrder(worn)

Copied(o) == o.id \in 1..built /\ Wearable(o.worn)

ContainerShapes ==
    /\ binds \in 0..MaxBinds /\ built \in 0..MaxBuilt /\ unmet \subseteq 1..built
    /\ extended \in Seq(Extensions) /\ Wearable(extenders)
    /\ scopes \in [Tasks -> Service \cup {NoObject}] /\ instance \in Service \cup {NoObject}
    /\ lent \in [Callers -> Service \cup {NoObject}]

\* The closures that are not spent are those the next build wears, or the instance does.
Accounted ==
    /\ spent \cap Range(extenders) = {} /\ spent \subseteq Range(extended)
    /\ instance = NoObject => Range(extended) = Range(extenders) \cup spent
    /\ instance # NoObject =>
          /\ Range(extended) = Range(extenders) \cup Range(instance.worn) \cup spent
          /\ spent \cap Range(instance.worn) = {}
          /\ instance.of # 0 => instance.of = binds /\ Range(extenders) \subseteq Range(instance.worn)

\* No object is in two places, and what is kept for a scope met its callbacks.
Apart ==
    /\ \A t, u \in Tasks : t # u /\ scopes[t] # NoObject /\ scopes[u] # NoObject =>
          scopes[t].id # scopes[u].id
    /\ \A t \in Tasks : scopes[t] # NoObject =>
          /\ scopes[t].id \notin unmet
          /\ instance # NoObject => scopes[t].id # instance.id
          /\ Has(NoScope) => lent[NoScope].id # scopes[t].id

\* What make returned since the last change.
Lent ==
    /\ \A c \in Callers : Has(c) => Copied(lent[c])
    /\ instance # NoObject => \A c \in Callers : Has(c) => lent[c] = instance
    /\ instance = NoObject => \A c \in Callers : Has(c) =>
          /\ binding # "shared" /\ lent[c].id \notin unmet
          /\ InCopy(c) => lent[c] = scopes[c]
          /\ ~InCopy(c) => lent[c].of = binds /\ lent[c].worn = extenders
    /\ \A t \in Tasks : binding = "scoped" /\ scopes[t] # NoObject /\ scopes[t].of # binds => t \in passed

ContainerInv ==
    /\ ContainerShapes /\ Accounted /\ Apart /\ Lent
    /\ instance # NoObject => Copied(instance)
    /\ \A t \in Tasks : scopes[t] # NoObject => Copied(scopes[t])

\* Nothing is registered or made at the start.
LEMMA ContainerBegins == ContainerInit => ContainerInv
<1> SUFFICES ASSUME ContainerInit PROVE ContainerInv
  OBVIOUS
<1> USE ContainerAssumption
<1>1. Range(extenders) = {} /\ Range(extended) = {} /\ Wearable(extenders)
  BY DEF ContainerInit, Wearable, InOrder, Range
<1> QED
  BY <1>1 DEF ContainerInit, ContainerInv, ContainerShapes, Accounted, Apart, Lent, Has, InCopy, NobodyHas, Callers

\* What is registered last comes last.
LEMMA WornInOrder ==
  ASSUME extended \in Seq(Extensions), NEW x \in Extensions, x \notin Range(extended),
         extended' = Append(extended, x)
  PROVE  /\ extended' \in Seq(Extensions) /\ Range(extended)' = Range(extended) \cup {x}
         /\ \A worn : Wearable(worn) => Wearable(worn)'
         /\ \A worn : Wearable(worn) =>
               Wearable(Append(worn, x))' /\ Range(Append(worn, x)) = Range(worn) \cup {x}
<1>1. Len(extended') = Len(extended) + 1 /\ extended'[Len(extended) + 1] = x /\ Len(extended) \in Nat
      /\ \A i \in 1..Len(extended) : extended'[i] = extended[i]
  OBVIOUS
<1>2. DOMAIN extended = 1..Len(extended) /\ DOMAIN extended' = 1..(Len(extended) + 1)
      /\ extended' \in Seq(Extensions)
  OBVIOUS
<1>3. Range(extended)' = Range(extended) \cup {x}
  <2>1. \A y : (\E i \in DOMAIN extended' : extended'[i] = y) <=> y = x \/ \E i \in DOMAIN extended : extended[i] = y
    BY <1>1, <1>2
  <2> QED BY <2>1 DEF Range
<1>4. \A worn : InOrder(worn) => InOrder(worn)'
  BY <1>1, <1>2 DEF InOrder
<1>5. ASSUME NEW worn, Wearable(worn) PROVE Wearable(worn)'
  BY <1>3, <1>4, <1>5 DEF Wearable
<1>6. ASSUME NEW worn, Wearable(worn)
      PROVE  Wearable(Append(worn, x))' /\ Range(Append(worn, x)) = Range(worn) \cup {x}
  <2> DEFINE w == Append(worn, x)
  <2>1. worn \in Seq(Extensions)
    BY <1>6 DEF Wearable
  <2>2. /\ DOMAIN worn = 1..Len(worn) /\ DOMAIN w = 1..(Len(worn) + 1) /\ w \in Seq(Extensions)
        /\ Len(worn) \in Nat /\ w[Len(worn) + 1] = x /\ \A i \in 1..Len(worn) : w[i] = worn[i]
    BY <2>1
  <2> HIDE DEF w
  <2>3. Range(w) = Range(worn) \cup {x}
    <3>1. \A y : (\E i \in DOMAIN w : w[i] = y) <=> y = x \/ \E i \in DOMAIN worn : worn[i] = y
      BY <2>2
    <3> QED BY <3>1 DEF Range
  <2>4. ASSUME NEW i \in DOMAIN w, NEW j \in DOMAIN w, i < j
        PROVE  \E k, l \in DOMAIN extended' : k < l /\ extended'[k] = w[i] /\ extended'[l] = w[j]
    <3>1. CASE j \in DOMAIN worn
      <4>1. i \in DOMAIN worn /\ w[i] = worn[i] /\ w[j] = worn[j]
        BY <2>2, <2>4, <3>1
      <4>2. PICK k \in DOMAIN extended, l \in DOMAIN extended :
                k < l /\ extended[k] = worn[i] /\ extended[l] = worn[j]
        BY <1>6, <2>4, <3>1, <4>1 DEF Wearable, InOrder
      <4>3. k \in DOMAIN extended' /\ l \in DOMAIN extended' /\ extended'[k] = w[i] /\ extended'[l] = w[j]
        BY <1>1, <1>2, <4>1, <4>2
      <4> QED BY <4>2, <4>3
    <3>2. CASE j \notin DOMAIN worn
      <4>1. i \in DOMAIN worn /\ w[i] = worn[i] /\ w[j] = x
        BY <2>2, <2>4, <3>2
      <4>2. worn[i] \in Range(extended)
        BY <1>6, <4>1 DEF Wearable, Range
      <4>3. PICK k \in DOMAIN extended : extended[k] = worn[i]
        BY <4>2 DEF Range
      <4>4. k < Len(extended) + 1 /\ k \in DOMAIN extended' /\ Len(extended) + 1 \in DOMAIN extended'
            /\ extended'[k] = w[i] /\ extended'[Len(extended) + 1] = w[j]
        BY <1>1, <1>2, <4>1, <4>3
      <4> QED BY <4>4
    <3> QED BY <3>1, <3>2
  <2>5. InOrder(w)'
    BY <2>4 DEF InOrder
  <2>6. Range(w) \subseteq Range(extended)'
    BY <1>3, <1>6, <2>3 DEF Wearable
  <2>7. Wearable(w)'
    BY <2>2, <2>5, <2>6 DEF Wearable
  <2> QED BY <2>3, <2>7 DEF w
<1> QED BY <1>2, <1>3, <1>5, <1>6

\* A binding or an instance that is dropped.
LEMMA DropsKeep ==
  ASSUME ContainerInv, NEW c \in Callers, DropBoth(c), lent' = NobodyHas, spent' = spent \cup LeavesInstance,
         passed' = (passed \ {c}) \cup {t \in Tasks \ {c} : scopes[t] # NoObject},
         binds' \in 0..MaxBinds, UNCHANGED <<extenders, built, extended, unmet>>
  PROVE  ContainerInv'
<1> USE ContainerAssumption
<1>1. scopes' \in [Tasks -> Service \cup {NoObject}] /\ instance' = NoObject
      /\ \A t \in Tasks : scopes'[t] # NoObject => t # c /\ scopes'[t] = scopes[t]
  BY DEF DropBoth, ContainerInv, ContainerShapes, Callers
<1>2. \A d \in Callers : ~Has(d)'
  BY DEF Has, NobodyHas
<1>3. Range(extended)' = Range(extended) /\ Range(extenders)' = Range(extenders)
      /\ (\A worn : Wearable(worn)' <=> Wearable(worn)) /\ \A o : Copied(o)' <=> Copied(o)
  BY DEF Wearable, InOrder, Copied
<1>4. ContainerShapes'
  BY <1>1, <1>3 DEF ContainerInv, ContainerShapes, NobodyHas
<1>5. Accounted'
  BY <1>1, <1>3 DEF ContainerInv, Accounted, LeavesInstance
<1>6. Apart'
  BY <1>1, <1>2 DEF ContainerInv, Apart, Callers
<1>7. Lent'
  BY <1>1, <1>2 DEF ContainerInv, Lent, Callers
<1> QED BY <1>1, <1>3, <1>4, <1>5, <1>6, <1>7 DEF ContainerInv

\* An object that is registered as it is.
LEMMA InstanceKeeps == ASSUME ContainerInv, NEW c \in Callers, Instance(c) PROVE ContainerInv'
<1> USE ContainerAssumption
<1>0. PICK new : new = Given
  OBVIOUS
<1>1. built' = built + 1 /\ instance' = new /\ lent' = NobodyHas /\ spent' = spent \cup LeavesInstance
      /\ UNCHANGED <<binding, binds, scopes, extenders, extended, passed, unmet>> /\ built < MaxBuilt
  BY <1>0 DEF Instance
<1>2. /\ new \in Service /\ new # NoObject /\ new.id = built + 1 /\ new.of = 0 /\ new.worn = <<>>
      /\ Range(new.worn) = {}
  <2>1. built + 1 \in 1..MaxBuilt /\ <<>> \in Seq(Extensions)
    BY <1>1 DEF ContainerInv, ContainerShapes
  <2>2. new \in Service
    BY <1>0, <2>1 DEF Given, Service
  <2>3. new.id = built + 1 /\ new.of = 0 /\ new.worn = <<>> /\ Range(new.worn) = {}
    BY <1>0 DEF Given, Range
  <2> QED BY <2>2, <2>3
<1>3. \A d \in Callers : ~Has(d)'
  BY <1>1 DEF Has, NobodyHas
<1>4. Range(extended)' = Range(extended) /\ Range(extenders)' = Range(extenders)
      /\ (\A worn : Wearable(worn)' <=> Wearable(worn)) /\ \A o : Copied(o) => Copied(o)'
  BY <1>1 DEF Wearable, InOrder, Copied, ContainerInv, ContainerShapes
<1>5. Copied(new)'
  BY <1>1, <1>2 DEF Wearable, InOrder, Copied, ContainerInv, ContainerShapes
<1>6. ContainerShapes'
  BY <1>1, <1>2, <1>4 DEF ContainerInv, ContainerShapes, NobodyHas
<1>7. Accounted'
  BY <1>1, <1>2, <1>4 DEF ContainerInv, Accounted, LeavesInstance
<1>8. Apart'
  BY <1>1, <1>2, <1>3 DEF ContainerInv, ContainerShapes, Apart, Callers, Copied
<1>9. Lent'
  BY <1>1, <1>2, <1>3 DEF ContainerInv, Lent, Callers
<1> QED BY <1>1, <1>4, <1>5, <1>6, <1>7, <1>8, <1>9 DEF ContainerInv

\* An extender, which what is there already wears at once.
LEMMA ExtendKeeps == ASSUME ContainerInv, NEW x \in Extensions, Extend(x) PROVE ContainerInv'
<1> USE ContainerAssumption
<1>1. /\ x \notin Range(extended) /\ extended' = Append(extended, x) /\ lent' = NobodyHas
      /\ UNCHANGED <<binding, binds, scopes, built, spent, passed, unmet>>
  BY DEF Extend
<1>2. /\ extended' \in Seq(Extensions) /\ Range(extended)' = Range(extended) \cup {x}
      /\ \A worn : Wearable(worn) => Wearable(worn)'
      /\ \A worn : Wearable(worn) =>
            Wearable(Append(worn, x))' /\ Range(Append(worn, x)) = Range(worn) \cup {x}
  BY <1>1, WornInOrder DEF ContainerInv, ContainerShapes
<1>3. \A d \in Callers : ~Has(d)'
  BY <1>1 DEF Has, NobodyHas
<1>4. \A o : Copied(o) => Copied(o)'
  BY <1>1, <1>2 DEF Copied
<1>5. lent' \in [Callers -> Service \cup {NoObject}]
  BY <1>1 DEF NobodyHas
<1>6. CASE instance # NoObject
  <2>0. PICK new : new = [instance EXCEPT !.worn = Append(instance.worn, x)]
    OBVIOUS
  <2>1. instance \in Service /\ Copied(instance) /\ Wearable(instance.worn)
    BY <1>6 DEF ContainerInv, ContainerShapes, Copied
  <2>2. /\ new \in Service /\ new.id = instance.id /\ new.of = instance.of
        /\ new.worn = Append(instance.worn, x) /\ new # NoObject
    <3>1. Append(instance.worn, x) \in Seq(Extensions)
      BY <2>1 DEF Wearable
    <3>2. new \in Service /\ new.id = instance.id /\ new.of = instance.of
          /\ new.worn = Append(instance.worn, x)
      BY <2>0, <2>1, <3>1 DEF Service
    <3> QED BY <3>2
  <2>3. instance' = new /\ extenders' = extenders /\ Range(new.worn) = Range(instance.worn) \cup {x}
    BY <1>2, <1>6, <2>0, <2>1, <2>2 DEF Extend
  <2>4. Copied(new)'
    BY <1>1, <1>2, <2>1, <2>2 DEF Copied
  <2>5. ContainerShapes'
    BY <1>1, <1>2, <1>5, <2>2, <2>3 DEF ContainerInv, ContainerShapes
  <2>6. Accounted'
    BY <1>1, <1>2, <1>6, <2>2, <2>3 DEF ContainerInv, Accounted
  <2>7. Apart' /\ Lent'
    BY <1>1, <1>3, <1>6, <2>2, <2>3 DEF ContainerInv, Apart, Lent, Callers
  <2> QED BY <1>1, <1>4, <2>3, <2>4, <2>5, <2>6, <2>7 DEF ContainerInv
<1>7. CASE instance = NoObject
  <2>1. instance' = NoObject /\ extenders' = Append(extenders, x) /\ Wearable(extenders)
    BY <1>7 DEF Extend, ContainerInv, ContainerShapes
  <2>2. Wearable(extenders)' /\ Range(extenders)' = Range(extenders) \cup {x}
    <3>1. PICK worn : worn = extenders
      OBVIOUS
    <3>2. Wearable(Append(worn, x))' /\ Range(Append(worn, x)) = Range(worn) \cup {x}
      BY <1>2, <2>1, <3>1
    <3>3. extenders' = Append(worn, x)
      BY <2>1, <3>1
    <3> QED BY <3>1, <3>2, <3>3 DEF Wearable, InOrder
  <2>3. ContainerShapes'
    BY <1>1, <1>2, <1>5, <2>1, <2>2 DEF ContainerInv, ContainerShapes
  <2>4. Accounted'
    BY <1>1, <1>2, <1>7, <2>1, <2>2 DEF ContainerInv, Accounted
  <2>5. Apart' /\ Lent'
    BY <1>1, <1>3, <1>7, <2>1 DEF ContainerInv, Apart, Lent, Callers
  <2> QED BY <1>1, <1>4, <2>1, <2>3, <2>4, <2>5 DEF ContainerInv
<1> QED BY <1>6, <1>7

\* What make returns, old or new, and what of it is kept.
LEMMA MakeKeeps ==
  ASSUME ContainerInv, NEW c \in Callers, NEW raises \in BOOLEAN, MakeBuilds(c, raises) PROVE ContainerInv'
<1> USE ContainerAssumption
<1>0. PICK new : new = Build
  OBVIOUS
<1>a. ContainerShapes /\ Accounted /\ Apart /\ Lent
  BY DEF ContainerInv
<1>1. /\ built' = built + 1 /\ built < MaxBuilt
      /\ instance = NoObject /\ (binding = "scoped" /\ c # NoScope => scopes[c] = NoObject)
      /\ UNCHANGED <<binding, binds, extenders, extended, spent>>
      /\ instance' = IF binding = "shared" THEN new ELSE NoObject
      /\ scopes' = IF binding = "scoped" /\ c # NoScope /\ ~raises THEN [scopes EXCEPT ![c] = new] ELSE scopes
      /\ lent' = IF raises THEN lent ELSE [lent EXCEPT ![c] = new]
      /\ passed' = passed \ {c}
      /\ unmet' = IF raises THEN unmet \cup {new.id} ELSE unmet
  BY <1>0 DEF MakeBuilds, Cached
<1>2. /\ new.id = built + 1 /\ new.of = binds /\ new.worn = extenders /\ new # NoObject
      /\ new \in Service
  BY <1>0, <1>1, <1>a DEF Build, ContainerShapes, Wearable, Service
<1>3. /\ Range(extended)' = Range(extended) /\ Range(extenders)' = Range(extenders)
      /\ (\A worn : Wearable(worn)' <=> Wearable(worn)) /\ \A o : Copied(o) => Copied(o)'
  BY <1>1, <1>a DEF Wearable, InOrder, Copied, ContainerShapes
<1>4. Copied(new)'
  BY <1>1, <1>2, <1>3, <1>a DEF Copied, ContainerShapes
<1>5. /\ \A t \in Tasks : scopes'[t] # scopes[t] =>
            t = c /\ scopes'[t] = new /\ ~raises /\ binding = "scoped" /\ scopes[t] = NoObject
      /\ \A d \in Callers : lent'[d] # lent[d] => d = c /\ lent'[d] = new /\ ~raises
      /\ scopes' \in [Tasks -> Service \cup {NoObject}]
      /\ lent' \in [Callers -> Service \cup {NoObject}]
  BY <1>1, <1>2, <1>a DEF ContainerShapes, Callers
<1>6. ContainerShapes'
  BY <1>1, <1>2, <1>3, <1>5, <1>a DEF ContainerShapes
<1>7. Accounted'
  BY <1>1, <1>2, <1>3, <1>a DEF Accounted
<1>8. \A o : Copied(o) => o.id # new.id /\ o.id \in 1..built
  BY <1>2, <1>a DEF Copied, ContainerShapes
<1>9. /\ \A t \in Tasks : scopes'[t] # NoObject => scopes'[t] = scopes[t] \/ scopes'[t] = new
      /\ \A t \in Tasks : scopes[t] # NoObject => Copied(scopes[t]) /\ scopes[t].id # new.id
  BY <1>5, <1>8 DEF ContainerInv
<1>10. Apart'
  <2>1. ASSUME NEW t \in Tasks, NEW u \in Tasks, t # u, scopes'[t] # NoObject, scopes'[u] # NoObject
        PROVE  scopes'[t].id # scopes'[u].id
    BY <1>5, <1>9, <1>a, <2>1 DEF Apart
  <2>2. ASSUME NEW t \in Tasks, scopes'[t] # NoObject
        PROVE  /\ scopes'[t].id \notin unmet'
               /\ instance' # NoObject => scopes'[t].id # instance'.id
               /\ Has(NoScope)' => lent'[NoScope].id # scopes'[t].id
    <3>1. CASE scopes'[t] = scopes[t]
      <4>1. scopes[t].id \notin unmet /\ scopes[t].id # new.id
        BY <1>9, <1>a, <2>2, <3>1 DEF Apart
      <4>2. Has(NoScope)' => lent'[NoScope] = new \/ (Has(NoScope) /\ lent'[NoScope] = lent[NoScope])
        BY <1>5 DEF Has, Callers
      <4> QED BY <1>1, <1>2, <1>a, <2>2, <3>1, <4>1, <4>2 DEF Apart
    <3>2. CASE scopes'[t] # scopes[t]
      <4>1. t = c /\ scopes'[t] = new /\ ~raises /\ binding = "scoped" /\ NoScope # c
        BY <1>5, <3>2
      <4>2. new.id \notin unmet' /\ instance' = NoObject
        BY <1>1, <1>2, <1>a, <4>1 DEF ContainerShapes
      <4>3. Has(NoScope)' => Has(NoScope) /\ lent'[NoScope] = lent[NoScope]
        BY <1>5, <4>1 DEF Has, Callers
      <4>4. Has(NoScope) => lent[NoScope].id # new.id
        BY <1>8, <1>a DEF Lent, Callers
      <4> QED BY <4>1, <4>2, <4>3, <4>4
    <3> QED BY <3>1, <3>2
  <2> QED BY <2>1, <2>2 DEF Apart
<1>11. Lent'
  <2>1. ASSUME NEW d \in Callers, Has(d)'
        PROVE  /\ Copied(lent[d])'
               /\ instance' # NoObject => lent'[d] = instance'
               /\ instance' = NoObject => /\ binding' # "shared" /\ lent'[d].id \notin unmet'
                                          /\ InCopy(d)' => lent'[d] = scopes'[d]
                                          /\ ~InCopy(d)' => lent'[d].of = binds' /\ lent'[d].worn = extenders'
    <3>1. CASE lent'[d] # lent[d]
      <4>1. d = c /\ lent'[d] = new /\ ~raises
        BY <1>5, <3>1
      <4>2. binding = "scoped" /\ c # NoScope => scopes'[c] = new
        BY <1>1, <1>a, <4>1 DEF ContainerShapes, Callers
      <4>3. new.id \notin unmet'
        BY <1>1, <1>2, <1>a, <4>1 DEF ContainerShapes
      <4> QED BY <1>1, <1>2, <1>4, <4>1, <4>2, <4>3 DEF InCopy
    <3>2. CASE lent'[d] = lent[d]
      <4>1. Has(d) /\ Copied(lent[d]) /\ binding # "shared" /\ lent[d].id \notin unmet
        BY <1>1, <1>a, <2>1, <3>2 DEF Has, Lent
      <4>2. lent[d].id \notin unmet'
        BY <1>1, <1>8, <4>1
      <4>3. InCopy(d)' => InCopy(d) /\ scopes[d] = lent[d] /\ lent[d] # NoObject
        BY <1>1, <1>a, <4>1 DEF InCopy, Lent, Has
      <4>4. InCopy(d)' => scopes'[d] = scopes[d]
        BY <1>5, <4>3 DEF InCopy, Callers
      <4>5. ~InCopy(d)' => lent[d].of = binds /\ lent[d].worn = extenders
        BY <1>1, <1>a, <4>1 DEF InCopy, Lent
      <4> QED BY <1>1, <1>3, <3>2, <4>1, <4>2, <4>3, <4>4, <4>5
    <3> QED BY <3>1, <3>2
  <2>2. ASSUME NEW t \in Tasks, binding' = "scoped", scopes'[t] # NoObject, scopes'[t].of # binds'
        PROVE  t \in passed'
    <3>1. scopes'[t] = scopes[t]
      BY <1>1, <1>2, <1>5, <2>2
    <3>2. t # c
      BY <1>1, <2>2, <3>1
    <3> QED BY <1>1, <1>a, <2>2, <3>1, <3>2 DEF Lent
  <2> QED BY <2>1, <2>2 DEF Lent
<1>12. instance' # NoObject => Copied(instance)'
  BY <1>1, <1>4
<1>13. ASSUME NEW t \in Tasks, scopes'[t] # NoObject PROVE Copied(scopes[t])'
  BY <1>3, <1>4, <1>9, <1>13
<1> QED BY <1>6, <1>7, <1>10, <1>11, <1>12, <1>13 DEF ContainerInv

\* Each call of the container (container/).
LEMMA ContainerNext == ContainerInv /\ [ContainerStep]_containerVars => ContainerInv'
<1> SUFFICES ASSUME ContainerInv, [ContainerStep]_containerVars PROVE ContainerInv'
  OBVIOUS
<1> USE ContainerAssumption
<1>a. ContainerShapes /\ Accounted /\ Apart /\ Lent
  BY DEF ContainerInv
<1>1. CASE MakeFresh
  <2>1. /\ built' = built + 1 /\ built < MaxBuilt
        /\ UNCHANGED <<binding, binds, instance, scopes, extenders, lent, extended, spent, passed, unmet>>
    BY <1>1 DEF MakeFresh, pasts
  <2>2. \A o : Copied(o) => Copied(o)'
    BY <1>a, <2>1 DEF Copied, Wearable, InOrder, ContainerShapes
  <2>3. ContainerShapes'
    BY <1>a, <2>1 DEF ContainerShapes, Wearable, InOrder
  <2>4. Accounted' /\ Apart'
    BY <1>a, <2>1 DEF Accounted, Apart, Has
  <2>5. Lent'
    BY <1>a, <2>1, <2>2 DEF Lent, Has, InCopy
  <2> QED BY <2>1, <2>2, <2>3, <2>4, <2>5 DEF ContainerInv
<1>2. ASSUME NEW t \in Tasks, EnterScope(t) PROVE ContainerInv'
  <2>1. /\ scopes' = [scopes EXCEPT ![t] = NoObject] /\ lent' = [lent EXCEPT ![t] = NoObject]
        /\ passed' = passed \ {t}
        /\ UNCHANGED <<binding, binds, instance, extenders, built, extended, spent, unmet>>
    BY <1>2 DEF EnterScope
  <2>2. \A o : Copied(o) <=> Copied(o)'
    BY <1>a, <2>1 DEF Copied, Wearable, InOrder, ContainerShapes
  <2>3. ContainerShapes'
    <3>1. Wearable(extenders)' <=> Wearable(extenders)
      BY <2>1 DEF Wearable, InOrder
    <3> QED BY <1>a, <2>1, <3>1 DEF ContainerShapes
  <2>4. /\ \A u \in Tasks : scopes'[u] # NoObject => u # t /\ scopes'[u] = scopes[u]
        /\ \A d \in Callers : Has(d)' => d # t /\ Has(d) /\ lent'[d] = lent[d]
        /\ \A u \in Tasks : u # t => scopes'[u] = scopes[u]
    BY <1>a, <2>1 DEF Has, ContainerShapes, Callers
  <2>5. Accounted'
    BY <1>a, <2>1 DEF Accounted
  <2>6. Apart'
    BY <1>a, <2>1, <2>4 DEF Apart, Callers
  <2>7. Lent'
    <3>1. ASSUME NEW d \in Callers, InCopy(d)', Has(d)' PROVE scopes'[d] = scopes[d]
      BY <2>4, <3>1 DEF InCopy, Callers
    <3>2. \A d \in Callers : InCopy(d)' <=> InCopy(d)
      BY <2>1 DEF InCopy
    <3> QED BY <1>a, <2>1, <2>2, <2>4, <3>1, <3>2 DEF Lent
  <2> QED BY <2>1, <2>2, <2>3, <2>4, <2>5, <2>6, <2>7 DEF ContainerInv
<1>3. ASSUME NEW c \in Callers, Forget(c) PROVE ContainerInv'
  <2>1. binds' \in 0..MaxBinds
    BY <1>3, <1>a DEF Forget, ContainerShapes
  <2> QED BY <1>3, <2>1, DropsKeep DEF Forget, Change
<1>4. ASSUME NEW c \in Callers, NEW as \in {"transient", "shared", "scoped"}, Bind(c, as) PROVE ContainerInv'
  <2>1. binds' \in 0..MaxBinds
    BY <1>4, <1>a DEF Bind, ContainerShapes
  <2> QED BY <1>4, <2>1, DropsKeep DEF Bind, Change
<1>5. ASSUME NEW c \in Callers, MakeCached(c) PROVE ContainerInv'
  <2>1. /\ Cached(c) # NoObject /\ lent' = [lent EXCEPT ![c] = Cached(c)]
        /\ UNCHANGED <<binding, binds, instance, scopes, extenders, built, extended, spent, passed, unmet>>
    BY <1>5 DEF MakeCached, pasts
  <2>2. Cached(c) \in Service \cup {NoObject} /\ Copied(Cached(c))
    BY <1>a, <2>1 DEF Cached, ContainerShapes, Callers, ContainerInv
  <2>3. \A o : Copied(o) <=> Copied(o)'
    BY <1>a, <2>1 DEF Copied, Wearable, InOrder, ContainerShapes
  <2>4. ContainerShapes'
    BY <1>a, <2>1, <2>2 DEF ContainerShapes, Wearable, InOrder
  <2>5. /\ \A d \in Callers \ {c} : lent'[d] = lent[d]
        /\ lent'[c] = Cached(c)
    BY <1>a, <2>1 DEF ContainerShapes
  <2>6. Accounted'
    BY <1>a, <2>1 DEF Accounted
  <2>7. Apart'
    <3>1. c = NoScope => Cached(c) = instance
      BY <2>1 DEF Cached
    <3>2. Has(NoScope)' => \/ Has(NoScope) /\ lent'[NoScope] = lent[NoScope]
                           \/ lent'[NoScope] = instance /\ instance # NoObject
      <4>1. CASE c = NoScope
        BY <2>1, <2>5, <3>1, <4>1 DEF Has
      <4>2. CASE c # NoScope
        BY <2>5, <4>2 DEF Has, Callers
      <4> QED BY <4>1, <4>2
    <3> QED BY <1>a, <2>1, <3>2 DEF Apart
  <2>8. Lent'
    <3>1. ASSUME NEW d \in Callers, Has(d)'
          PROVE  /\ Copied(lent[d])'
                 /\ instance' # NoObject => lent'[d] = instance'
                 /\ instance' = NoObject => /\ binding' # "shared" /\ lent'[d].id \notin unmet'
                                            /\ InCopy(d)' => lent'[d] = scopes'[d]
                                            /\ ~InCopy(d)' => lent'[d].of = binds' /\ lent'[d].worn = extenders'
      <4>1. CASE d = c
        <5>1. instance = NoObject => binding = "scoped" /\ c \in Tasks /\ c # NoScope /\ Cached(c) = scopes[c]
          BY <2>1 DEF Cached, Callers
        <5>2. instance = NoObject => scopes[c].id \notin unmet
          BY <1>a, <2>1, <5>1 DEF Apart
        <5>3. instance # NoObject => Cached(c) = instance
          BY DEF Cached
        <5> QED BY <2>1, <2>2, <2>3, <2>5, <4>1, <5>1, <5>2, <5>3 DEF InCopy
      <4>2. CASE d # c
        <5>1. Has(d) /\ lent'[d] = lent[d] /\ (InCopy(d)' <=> InCopy(d))
          BY <2>1, <2>5, <3>1, <4>2 DEF Has, InCopy
        <5> QED BY <1>a, <2>1, <2>3, <5>1 DEF Lent
      <4> QED BY <4>1, <4>2
    <3>2. \A t \in Tasks : binding' = "scoped" /\ scopes'[t] # NoObject /\ scopes'[t].of # binds' => t \in passed'
      BY <1>a, <2>1 DEF Lent
    <3> QED BY <3>1, <3>2 DEF Lent
  <2> QED BY <2>1, <2>3, <2>4, <2>6, <2>7, <2>8 DEF ContainerInv
<1>6. CASE UNCHANGED containerVars
  <2>1. UNCHANGED <<binding, binds, instance, scopes, extenders, built, lent, extended, spent, passed, unmet>>
    BY <1>6 DEF containerVars, pasts
  <2>2. \A o : Copied(o) <=> Copied(o)'
    BY <2>1 DEF Copied, Wearable, InOrder
  <2>3. ContainerShapes' /\ Accounted' /\ Apart'
    BY <1>a, <2>1 DEF ContainerShapes, Wearable, InOrder, Accounted, Apart, Has
  <2>4. Lent'
    BY <1>a, <2>1, <2>2 DEF Lent, Has, InCopy
  <2> QED BY <2>1, <2>2, <2>3, <2>4 DEF ContainerInv
<1> QED BY <1>1, <1>2, <1>3, <1>4, <1>5, <1>6, InstanceKeeps, ExtendKeeps, MakeKeeps DEF ContainerStep

\* What make promises follows.
LEMMA ContainerSafe == ContainerInv => MakesRight
<1> SUFFICES ASSUME ContainerInv PROVE MakesRight
  OBVIOUS
<1> USE ContainerAssumption
<1>a. ContainerShapes /\ Accounted /\ Apart /\ Lent
  BY DEF ContainerInv
<1>1. instance # NoObject => \A c \in Callers : Has(c) => lent[c] = instance
  BY <1>a DEF Lent
<1>2. ASSUME NEW c \in Callers, NEW d \in Callers, InCopy(c), Has(c), c # d
      PROVE  lent[c] = scopes[c] /\ lent[c] # lent[d]
  <2>1. c \in Tasks /\ lent[c] = scopes[c] /\ scopes[c] # NoObject /\ instance = NoObject
    BY <1>2, <1>a DEF InCopy, Has, Lent, Callers
  <2>2. CASE d = NoScope
    BY <1>a, <2>1, <2>2 DEF Apart, Has
  <2>3. CASE d # NoScope /\ Has(d)
    <3>1. d \in Tasks /\ InCopy(d) /\ lent[d] = scopes[d] /\ scopes[d] # NoObject
      BY <1>2, <1>a, <2>3 DEF InCopy, Has, Lent, Callers
    <3> QED BY <1>2, <1>a, <2>1, <3>1 DEF Apart
  <2>4. CASE ~Has(d)
    BY <1>2, <2>1, <2>4 DEF Has
  <2> QED BY <2>1, <2>2, <2>3, <2>4
<1>3. ASSUME NEW c \in Callers, Has(c), lent[c].of # 0
      PROVE  /\ lent[c].of # binds => InCopy(c) /\ c \in passed
             /\ ~InCopy(c) => Range(lent[c].worn) = Range(extended) \ spent
             /\ Range(lent[c].worn) \subseteq Range(extended) /\ InOrder(lent[c].worn)
  <2>1. Range(lent[c].worn) \subseteq Range(extended) /\ InOrder(lent[c].worn)
    BY <1>3, <1>a DEF Lent, Copied, Wearable
  <2>2. CASE instance # NoObject
    <3>1. lent[c] = instance /\ instance.of = binds /\ ~InCopy(c)
      BY <1>1, <1>3, <1>a, <2>2 DEF Accounted, InCopy
    <3> QED BY <1>3, <1>a, <2>1, <2>2, <3>1 DEF Accounted
  <2>3. CASE instance = NoObject /\ ~InCopy(c)
    <3>1. lent[c].of = binds /\ lent[c].worn = extenders
      BY <1>3, <1>a, <2>3 DEF Lent
    <3> QED BY <1>a, <2>1, <2>3, <3>1 DEF Accounted
  <2>4. CASE instance = NoObject /\ InCopy(c)
    <3>1. lent[c] = scopes[c] /\ scopes[c] # NoObject /\ binding = "scoped" /\ c \in Tasks
      BY <1>3, <1>a, <2>4 DEF Lent, InCopy, Has, Callers
    <3> QED BY <1>a, <2>1, <2>4, <3>1 DEF Lent
  <2> QED BY <2>2, <2>3, <2>4
<1>4. \A c \in Callers : Has(c) /\ lent[c].id \in unmet => lent[c] = instance
  BY <1>1, <1>a DEF Lent
<1> QED BY <1>1, <1>2, <1>3, <1>4 DEF MakesRight

-----------------------------------------------------------------------------
(* A request on its way *)

VisitFields == {"at", "who", "stack", "fits", "found", "saved", "inside", "raised", "answer",
                "reported", "logged", "seen", "moved", "heard"}

\* The middleware that are around a request, and the language they settle on.
Around(v) == {v.inside[i][1] : i \in DOMAIN v.inside}

LocaleOf(around, who) ==
    IF who.asks = "explicit" THEN IF "locale" \in around THEN "explicit" ELSE "default"
    ELSE IF "populate" \in around /\ who.user /\ who.prefers THEN "preferred"
    ELSE IF "locale" \in around /\ who.asks = "header" THEN "header" ELSE "default"

\* On the way in the context holds what the middleware passed so far made of the visitor.
ComesIn(v, c) ==
    /\ v.inside \in Seq(Middleware \X Context) /\ c \in Context
    /\ c.user <=> "populate" \in Around(v) /\ v.who.user
    /\ c.locale = LocaleOf(Around(v), v.who)
    /\ "auth" \in Around(v) => v.who.user

VisitShape(v, c) ==
    /\ DOMAIN v = VisitFields /\ v.fits \in BOOLEAN /\ v.raised \in Raisable \cup {NoneYet}
    /\ v.at \in {"idle", "bind", "render", "over"} => c = Untouched
    /\ v.at # "idle" => v.saved = Untouched /\ v.who \in Visitor
    /\ v.at = "bind" => v.inside = <<>>
    /\ v.at \in {"enter", "payload"} => ComesIn(v, c)
    /\ v.at \in {"idle", "bind", "enter", "payload"} =>
          v.raised = NoneYet /\ v.answer = NoneYet /\ v.heard = Unheard

\* What was heard and answered: of the row and the body only by the destination, of a guest
\* only to one.
VisitHeard(v) ==
    /\ v.fits /\ (\/ v.raised \in {"absent", "denied", "invalid", "unavailable"}
                  \/ v.answer \in {"gone", "absent", "denied", "invalid", "unavailable", "ok"}) =>
          v.heard # Unheard
    /\ "unauthenticated" \in {v.raised, v.answer} /\ Precedes(Priority, "populate", "auth") =>
          ~(v.who.user /\ "populate" \in Range(v.stack))
    /\ v.heard # Unheard =>
          /\ "auth" \in Range(v.stack) => v.who.user
          /\ {"locale", "populate"} \subseteq Range(v.stack) =>
                v.heard = [user |-> v.who.user, locale |-> LocaleOf({"locale", "populate"}, v.who)]

LetIn(v) == v.seen # "up" => v.who.listed /\ (v.seen = "down" => v.moved)

\* The two reads of the gate.
VisitGate(v, m) ==
    /\ v.at = "payload" => v.seen # "up" /\ (m = v.seen \/ v.moved)
    /\ v.answer = "maintenance" => v.seen # "up" /\ (v.seen = "listing" /\ v.who.listed => v.moved)
    /\ v.at \in {"bind", "enter"} \/ v.heard # Unheard => LetIn(v)

VisitReport(v) ==
    /\ v.at # "over" => v.reported = FALSE /\ v.logged = 0
    /\ v.at = "over" => (v.reported <=> v.raised \in ServerErrors) /\ v.logged \in {0, 1}

VisitRight(v, c, m) == VisitShape(v, c) /\ VisitHeard(v) /\ VisitGate(v, m) /\ VisitReport(v)

PipelineInv ==
    /\ DOMAIN visit = Streams /\ DOMAIN context = Streams
    /\ \A s \in Streams : VisitRight(visit[s], context[s], maintenance)
    /\ window \in Nat /\ window <= Limit

\* An exception before the destination.
LEMMA RaiseKeeps ==
  ASSUME NEW v, NEW c, NEW m, VisitRight(v, c, m), v.at \in {"bind", "enter"},
         NEW e \in {"bug", "unauthenticated"},
         e = "unauthenticated" /\ Precedes(Priority, "populate", "auth") =>
             ~(v.who.user /\ "populate" \in Range(v.stack)),
         NEW w, w = [v EXCEPT !.at = "unwind", !.raised = e], NEW d
  PROVE  VisitRight(w, d, m)
<1>1. /\ DOMAIN w = VisitFields /\ w.at = "unwind" /\ w.raised = e /\ w.who = v.who /\ w.saved = v.saved
      /\ w.answer = NoneYet /\ w.heard = Unheard /\ w.fits = v.fits /\ w.stack = v.stack
      /\ w.reported = v.reported /\ w.logged = v.logged /\ v.saved = Untouched /\ v.who \in Visitor
      /\ v.fits \in BOOLEAN
  BY DEF VisitRight, VisitShape, VisitFields
<1>2. VisitShape(w, d)
  BY <1>1 DEF VisitShape, Raisable, ServerErrors
<1>3. VisitHeard(w)
  BY <1>1 DEF VisitHeard, NoneYet
<1>4. VisitGate(w, m)
  BY <1>1 DEF VisitGate, NoneYet
<1>5. VisitReport(w)
  BY <1>1 DEF VisitReport, VisitRight
<1> QED BY <1>2, <1>3, <1>4, <1>5 DEF VisitRight

\* An answer before the destination.
LEMMA ReplyKeeps ==
  ASSUME NEW v, NEW c, NEW m, VisitRight(v, c, m), v.at \in {"enter", "payload"},
         NEW a \in {"own", "maintenance"},
         a = "maintenance" => v.seen # "up" /\ (v.seen = "listing" /\ v.who.listed => v.moved),
         NEW w, w = [v EXCEPT !.at = "unwind", !.answer = a], NEW d
  PROVE  VisitRight(w, d, m)
<1>1. /\ DOMAIN w = VisitFields /\ w.at = "unwind" /\ w.answer = a /\ w.who = v.who /\ w.saved = v.saved
      /\ w.raised = NoneYet /\ w.heard = Unheard /\ w.fits = v.fits /\ w.stack = v.stack
      /\ w.reported = v.reported /\ w.logged = v.logged /\ v.saved = Untouched /\ v.who \in Visitor
      /\ v.fits \in BOOLEAN /\ w.seen = v.seen /\ w.moved = v.moved
  BY DEF VisitRight, VisitShape, VisitFields
<1>2. VisitShape(w, d)
  BY <1>1 DEF VisitShape, Raisable, ServerErrors
<1>3. VisitHeard(w)
  BY <1>1 DEF VisitHeard, NoneYet
<1>4. VisitGate(w, m)
  BY <1>1 DEF VisitGate, NoneYet
<1>5. VisitReport(w)
  BY <1>1 DEF VisitReport, VisitRight
<1> QED BY <1>2, <1>3, <1>4, <1>5 DEF VisitRight

\* One middleware more is around the request.
LEMMA AroundGrows ==
  \A v, c, n, w :
      /\ c \in Context /\ v.inside \in Seq(Middleware \X Context) /\ DOMAIN v = VisitFields
      /\ n \in Middleware
      /\ w = [v EXCEPT !.at = "enter", !.inside = Append(v.inside, <<n, c>>)]
      => Around(w) = Around(v) \cup {n} /\ w.inside \in Seq(Middleware \X Context)
<1> SUFFICES ASSUME NEW v, NEW c \in Context, v.inside \in Seq(Middleware \X Context),
                    NEW n \in Middleware, DOMAIN v = VisitFields,
                    NEW w, w = [v EXCEPT !.at = "enter", !.inside = Append(v.inside, <<n, c>>)]
             PROVE  Around(w) = Around(v) \cup {n} /\ w.inside \in Seq(Middleware \X Context)
  OBVIOUS
<1> DEFINE q == Append(v.inside, <<n, c>>)
<1>1. w.inside = q
  BY DEF VisitFields
<1>2. q \in Seq(Middleware \X Context)
  OBVIOUS
<1>3. /\ Len(v.inside) \in Nat /\ DOMAIN v.inside = 1..Len(v.inside)
      /\ DOMAIN q = 1..(Len(v.inside) + 1)
      /\ \A i \in DOMAIN v.inside : q[i] = v.inside[i]
      /\ q[Len(v.inside) + 1] = <<n, c>>
  OBVIOUS
<1>4. ASSUME NEW x \in Around(w) PROVE x \in Around(v) \cup {n}
  <2>1. PICK i \in DOMAIN q : x = q[i][1]
    BY <1>1, <1>4 DEF Around
  <2>2. CASE i = Len(v.inside) + 1
    BY <1>3, <2>1, <2>2
  <2>3. CASE i # Len(v.inside) + 1
    <3>1. i \in DOMAIN v.inside
      BY <1>3, <2>3
    <3> QED BY <1>3, <2>1, <3>1 DEF Around
  <2> QED BY <2>2, <2>3
<1>5. ASSUME NEW x \in Around(v) PROVE x \in Around(w)
  <2>1. PICK i \in DOMAIN v.inside : x = v.inside[i][1]
    BY <1>5 DEF Around
  <2>2. i \in DOMAIN q /\ q[i] = v.inside[i]
    BY <1>3
  <2> QED BY <1>1, <2>1, <2>2 DEF Around
<1>6. n \in Around(w)
  <2>1. Len(v.inside) + 1 \in DOMAIN q /\ q[Len(v.inside) + 1][1] = n
    BY <1>3
  <2> QED BY <1>1, <2>1 DEF Around
<1> QED BY <1>1, <1>2, <1>4, <1>5, <1>6

\* A middleware lets the request through.
LEMMA EnterKeeps ==
  ASSUME NEW v, NEW c, NEW m, VisitRight(v, c, m), v.at \in {"enter", "payload"},
         v.at = "payload" => LetIn(v), NEW n \in Middleware,
         NEW w, w = [v EXCEPT !.at = "enter", !.inside = Append(v.inside, <<n, c>>)],
         NEW d \in Context,
         d.user <=> ("populate" \in Around(v) \cup {n}) /\ v.who.user,
         d.locale = LocaleOf(Around(v) \cup {n}, v.who), n = "auth" => v.who.user
  PROVE  VisitRight(w, d, m)
<1>1. /\ DOMAIN w = VisitFields /\ w.at = "enter" /\ w.who = v.who /\ w.saved = v.saved
      /\ w.raised = NoneYet /\ w.heard = Unheard /\ w.fits = v.fits /\ w.stack = v.stack
      /\ w.reported = v.reported /\ w.logged = v.logged /\ v.saved = Untouched /\ v.who \in Visitor
      /\ v.fits \in BOOLEAN /\ w.seen = v.seen /\ w.moved = v.moved /\ w.answer = NoneYet
      /\ DOMAIN v = VisitFields /\ ComesIn(v, c)
  BY DEF VisitRight, VisitShape, VisitFields
<1>2. Around(w) = Around(v) \cup {n} /\ w.inside \in Seq(Middleware \X Context)
  <2>1. c \in Context /\ v.inside \in Seq(Middleware \X Context) /\ DOMAIN v = VisitFields
    BY <1>1 DEF ComesIn
  <2>2. w = [v EXCEPT !.at = "enter", !.inside = Append(v.inside, <<n, c>>)]
    OBVIOUS
  <2>3. n \in Middleware
    OBVIOUS
  <2> QED BY ONLY <2>1, <2>2, <2>3, AroundGrows
<1>3. ComesIn(w, d)
  BY <1>1, <1>2 DEF ComesIn
<1>4. VisitShape(w, d)
  BY <1>1, <1>3 DEF VisitShape
<1>5. VisitHeard(w)
  BY <1>1 DEF VisitHeard, NoneYet
<1>6. VisitGate(w, m)
  BY <1>1 DEF VisitGate, NoneYet, VisitRight, LetIn
<1>7. VisitReport(w)
  BY <1>1 DEF VisitReport, VisitRight
<1> QED BY <1>4, <1>5, <1>6, <1>7 DEF VisitRight

\* What is around the request of a stream, and that the rest is still to come.
LEMMA ToCome ==
  ASSUME NEW s, NEW v, v = visit[s]
  PROVE  /\ Entered(s) = Around(v) /\ ToEnter(s) = Range(v.stack) \ Around(v)
         /\ \A n : At(s, n) => v.at = "enter"
         /\ At(s, "auth") /\ Precedes(Priority, "populate", "auth") /\ "populate" \in Range(v.stack) =>
               "populate" \in Around(v)
<1>1. Entered(s) = Around(v) /\ ToEnter(s) = Range(v.stack) \ Around(v)
  BY DEF Entered, ToEnter, Around
<1>2. ASSUME At(s, "auth"), Precedes(Priority, "populate", "auth"), "populate" \in ToEnter(s) PROVE FALSE
  <2>1. Ordered(v.stack, "auth", "populate")
    BY <1>2 DEF At
  <2>2. PICK i \in DOMAIN Priority : Priority[i] = "populate" /\ \A j \in 1..i : Priority[j] # "auth"
    BY <1>2 DEF Precedes
  <2>3. "populate" \in Range(Priority)
    BY <2>2 DEF Range
  <2>4. Precedes(Priority, "auth", "populate")
    BY <2>1, <2>3 DEF Ordered
  <2>5. PICK k \in DOMAIN Priority : Priority[k] = "auth" /\ \A j \in 1..k : Priority[j] # "populate"
    BY <2>4 DEF Precedes
  <2>6. i \in Nat \ {0} /\ k \in Nat \ {0}
    BY PipelineAssumption
  <2>7. CASE i <= k
    BY <2>2, <2>5, <2>6, <2>7
  <2>8. CASE k <= i
    BY <2>2, <2>5, <2>6, <2>8
  <2> QED BY <2>6, <2>7, <2>8
<1> QED BY <1>1, <1>2 DEF At

\* A stream that serves no request.
LEMMA NoVisitRight == VisitRight(NoVisit, Untouched, maintenance)
<1>1. /\ DOMAIN NoVisit = VisitFields /\ NoVisit.at = "idle" /\ NoVisit.raised = NoneYet /\ NoVisit.fits = TRUE
      /\ NoVisit.answer = NoneYet /\ NoVisit.heard = Unheard /\ NoVisit.reported = FALSE
      /\ NoVisit.logged = 0 /\ NoVisit.seen = "up"
  BY DEF NoVisit, VisitFields
<1>2. VisitShape(NoVisit, Untouched)
  BY <1>1 DEF VisitShape
<1>3. VisitHeard(NoVisit) /\ VisitGate(NoVisit, maintenance) /\ VisitReport(NoVisit)
  BY <1>1 DEF VisitHeard, VisitGate, VisitReport, NoneYet
<1> QED BY <1>2, <1>3 DEF VisitRight

\* No request is served at the start.
LEMMA PipelineBegins == PipelineInit => PipelineInv
<1> SUFFICES ASSUME PipelineInit PROVE PipelineInv
  OBVIOUS
<1>1. \A s \in Streams : VisitRight(visit[s], context[s], maintenance)
  BY NoVisitRight DEF PipelineInit
<1> QED BY <1>1, PipelineAssumption DEF PipelineInit, PipelineInv

\* What one stream does leaves the requests of the others alone.
LEMMA OneServed ==
  ASSUME PipelineInv, NEW s \in Streams, NEW w, SetVisit(s, w), maintenance' = maintenance,
         context' = context \/ \E c : context' = [context EXCEPT ![s] = c],
         VisitRight(w, context'[s], maintenance)
  PROVE  /\ DOMAIN visit' = Streams /\ DOMAIN context' = Streams
         /\ \A t \in Streams : VisitRight(visit'[t], context'[t], maintenance')
<1>1. /\ DOMAIN visit' = Streams /\ DOMAIN context' = Streams /\ visit'[s] = w
      /\ \A t \in Streams \ {s} : visit'[t] = visit[t] /\ context'[t] = context[t]
  BY DEF SetVisit, PipelineInv
<1> QED BY <1>1 DEF PipelineInv

\* The visitor arrives.
LEMMA ReceiveKeeps ==
  ASSUME PipelineInv, NEW s \in Streams, NEW who \in Visitors, NEW stack, NEW fits \in BOOLEAN,
         ReceiveVisit(s, who, stack, fits)
  PROVE  PipelineInv'
<1>0. VisitRight(visit[s], context[s], maintenance) /\ visit[s].at = "idle" /\ context[s] = Untouched
  BY DEF PipelineInv, ReceiveVisit, VisitRight, VisitShape
<1> DEFINE w == [NoVisit EXCEPT !.at = IF fits THEN "bind" ELSE "unwind", !.who = who, !.stack = stack,
                                !.fits = fits, !.saved = context[s],
                                !.raised = IF fits THEN NoneYet ELSE "absent"]
<1>1. /\ DOMAIN w = VisitFields /\ w.at = (IF fits THEN "bind" ELSE "unwind") /\ w.who = who
      /\ w.fits = fits /\ w.saved = Untouched /\ w.raised = (IF fits THEN NoneYet ELSE "absent")
      /\ w.answer = NoneYet /\ w.heard = Unheard /\ w.reported = FALSE
      /\ w.logged = 0 /\ w.seen = "up" /\ w.inside = <<>>
  BY <1>0 DEF NoVisit, VisitFields
<1>2. SetVisit(s, w) /\ maintenance' = maintenance /\ window' = window
  BY DEF ReceiveVisit
<1>3. context' = [context EXCEPT ![s] = Untouched]
  <2>1. context' = [context EXCEPT ![s].user = FALSE]
    BY DEF ReceiveVisit
  <2>2. [Untouched EXCEPT !.user = FALSE] = Untouched
    <3>1. Untouched \in Context /\ Untouched.user = FALSE
      BY DEF Untouched, Context, Locales
    <3>2. \A r \in Context : r.user = FALSE => [r EXCEPT !.user = FALSE] = r
      BY DEF Context
    <3> QED BY <3>1, <3>2
  <2>3. context' = [context EXCEPT ![s] = [context[s] EXCEPT !.user = FALSE]]
    BY <2>1
  <2> QED BY <1>0, <2>2, <2>3
<1>4. context'[s] = Untouched
  BY <1>3 DEF PipelineInv
<1>5. VisitRight(w, Untouched, maintenance)
  <2>1. VisitShape(w, Untouched)
    BY <1>1, PipelineAssumption DEF VisitShape, Raisable
  <2>2. VisitHeard(w)
    BY <1>1 DEF VisitHeard, NoneYet
  <2>3. VisitGate(w, maintenance)
    BY <1>1 DEF VisitGate, NoneYet, LetIn
  <2>4. VisitReport(w)
    BY <1>1 DEF VisitReport
  <2> QED BY <2>1, <2>2, <2>3, <2>4 DEF VisitRight
<1> HIDE DEF w
<1>6. /\ DOMAIN visit' = Streams /\ DOMAIN context' = Streams
      /\ \A t \in Streams : VisitRight(visit'[t], context'[t], maintenance')
  BY <1>2, <1>3, <1>4, <1>5, OneServed
<1> QED BY <1>2, <1>6 DEF PipelineInv

\* The middleware, one by one.
LEMMA MiddlewareKeep ==
  ASSUME PipelineInv, NEW s \in Streams,
         \/ GateReads(s) \/ GateDecides(s) \/ ChooseLocale(s) \/ Populate(s) \/ Authenticate(s) \/ Own(s)
  PROVE  PipelineInv'
<1> DEFINE v == visit[s]
           c == context[s]
           Passed(n, d) ==
               /\ n \in Middleware /\ v.at \in {"enter", "payload"} /\ (v.at = "payload" => LetIn(v))
               /\ CallNext(s, n, d) /\ d \in Context
               /\ (d.user <=> ("populate" \in Around(v) \cup {n}) /\ v.who.user)
               /\ d.locale = LocaleOf(Around(v) \cup {n}, v.who) /\ (n = "auth" => v.who.user)
           RepliedWith(a) ==
               /\ a \in {"own", "maintenance"} /\ v.at \in {"enter", "payload"}
               /\ a = "maintenance" => v.seen # "up" /\ (v.seen = "listing" /\ v.who.listed => v.moved)
               /\ Reply(s, a) /\ UNCHANGED context
           Threw(e) ==
               /\ e \in {"bug", "unauthenticated"} /\ v.at = "enter"
               /\ e = "unauthenticated" /\ Precedes(Priority, "populate", "auth") =>
                      ~(v.who.user /\ "populate" \in Range(v.stack))
               /\ RaiseError(s, e) /\ UNCHANGED context
           Noted ==
               /\ v.at = "enter" /\ maintenance # "up" /\ UNCHANGED context
               /\ SetVisit(s, [v EXCEPT !.at = "payload", !.seen = maintenance])
<1>0. VisitRight(v, c, maintenance) /\ VisitShape(v, c) /\ VisitGate(v, maintenance)
  BY DEF PipelineInv, VisitRight
<1>a. maintenance' = maintenance /\ window' = window
  BY DEF GateReads, GateDecides, ChooseLocale, Populate, Authenticate, Own
<1>b. v.at \in {"enter", "payload"} => ComesIn(v, c) /\ v.who \in Visitor
  BY <1>0 DEF VisitShape
<1>c. /\ \A n : At(s, n) => v.at = "enter" /\ n \notin Around(v)
      /\ At(s, "auth") /\ Precedes(Priority, "populate", "auth") /\ "populate" \in Range(v.stack) =>
            "populate" \in Around(v)
  BY ToCome DEF At
<1>d. v.at \in {"enter", "payload"} /\ ComesIn(v, c) /\ v.who \in Visitor
      /\ v.raised = NoneYet /\ v.answer = NoneYet /\ v.heard = Unheard
  <2>1. v.at \in {"enter", "payload"}
    BY <1>c DEF GateReads, GateDecides, ChooseLocale, Populate, Authenticate, Own
  <2> QED BY <1>0, <1>b, <2>1 DEF VisitShape
<1>e. /\ c \in Context /\ (c.user <=> "populate" \in Around(v) /\ v.who.user)
      /\ c.user \in BOOLEAN /\ v.who.user \in BOOLEAN
      /\ c.locale = LocaleOf(Around(v), v.who) /\ ("auth" \in Around(v) => v.who.user)
  BY <1>d DEF ComesIn, Context, Visitor
<1> HIDE DEF v, c
<1>f. ASSUME NEW n \in {"gate", "auth", "own"}
      PROVE  /\ c.user <=> ("populate" \in Around(v) \cup {n}) /\ v.who.user
             /\ c.locale = LocaleOf(Around(v) \cup {n}, v.who)
  BY <1>e, <1>f DEF LocaleOf
<1>g. {"gate", "auth", "own", "locale", "populate"} \subseteq Middleware
  BY DEF Middleware
<1>p. ASSUME NEW n, NEW d, Passed(n, d) PROVE PipelineInv'
  <2> DEFINE w == [v EXCEPT !.at = "enter", !.inside = Append(v.inside, <<n, c>>)]
  <2>1. SetVisit(s, w) /\ context' = [context EXCEPT ![s] = d]
    BY <1>p DEF CallNext, v, c
  <2>2. context'[s] = d
    BY <2>1 DEF PipelineInv
  <2>3. VisitRight(w, d, maintenance)
    BY <1>0, <1>p, EnterKeeps
  <2> HIDE DEF w
  <2>4. /\ DOMAIN visit' = Streams /\ DOMAIN context' = Streams
        /\ \A t \in Streams : VisitRight(visit'[t], context'[t], maintenance')
    BY <1>a, <2>1, <2>2, <2>3, OneServed
  <2> QED BY <1>a, <2>4 DEF PipelineInv
<1>r. ASSUME NEW a, RepliedWith(a) PROVE PipelineInv'
  <2> DEFINE w == [v EXCEPT !.at = "unwind", !.answer = a]
  <2>1. SetVisit(s, w) /\ context' = context
    BY <1>r DEF Reply, v
  <2>2. VisitRight(w, c, maintenance)
    BY <1>0, <1>r, ReplyKeeps
  <2> HIDE DEF w
  <2>3. VisitRight(w, context'[s], maintenance)
    BY <2>1, <2>2 DEF c
  <2>4. /\ DOMAIN visit' = Streams /\ DOMAIN context' = Streams
        /\ \A t \in Streams : VisitRight(visit'[t], context'[t], maintenance')
    BY <1>a, <2>1, <2>3, OneServed
  <2> QED BY <1>a, <2>4 DEF PipelineInv
<1>t. ASSUME NEW e, Threw(e) PROVE PipelineInv'
  <2> DEFINE w == [v EXCEPT !.at = "unwind", !.raised = e]
  <2>1. SetVisit(s, w) /\ context' = context
    BY <1>t DEF RaiseError, v
  <2>2. VisitRight(w, c, maintenance)
    BY <1>0, <1>t, RaiseKeeps
  <2> HIDE DEF w
  <2>3. VisitRight(w, context'[s], maintenance)
    BY <2>1, <2>2 DEF c
  <2>4. /\ DOMAIN visit' = Streams /\ DOMAIN context' = Streams
        /\ \A t \in Streams : VisitRight(visit'[t], context'[t], maintenance')
    BY <1>a, <2>1, <2>3, OneServed
  <2> QED BY <1>a, <2>4 DEF PipelineInv
<1>n. ASSUME Noted PROVE PipelineInv'
  <2> DEFINE w == [v EXCEPT !.at = "payload", !.seen = maintenance]
  <2>1. SetVisit(s, w) /\ context' = context /\ maintenance # "up"
    BY <1>n
  <2>2. /\ DOMAIN w = VisitFields /\ w.at = "payload" /\ w.answer = v.answer /\ w.who = v.who
        /\ w.saved = v.saved /\ w.raised = v.raised /\ w.heard = v.heard /\ w.fits = v.fits
        /\ w.stack = v.stack /\ w.reported = v.reported /\ w.logged = v.logged /\ w.inside = v.inside
        /\ w.seen = maintenance /\ DOMAIN v = VisitFields
    BY <1>0 DEF VisitShape, VisitFields
  <2> HIDE DEF w
  <2>3. ComesIn(w, c)
    BY <1>d, <2>2 DEF ComesIn, Around
  <2>4. VisitShape(w, c)
    BY <1>0, <1>d, <2>2, <2>3 DEF VisitShape
  <2>5. VisitHeard(w)
    BY <1>d, <2>2 DEF VisitHeard, NoneYet
  <2>6. VisitGate(w, maintenance)
    BY <1>d, <2>1, <2>2 DEF VisitGate, NoneYet
  <2>7. VisitReport(w)
    BY <1>0, <1>d, <2>2 DEF VisitReport, VisitRight
  <2>8. VisitRight(w, context'[s], maintenance)
    BY <2>1, <2>4, <2>5, <2>6, <2>7 DEF VisitRight, c
  <2>9. /\ DOMAIN visit' = Streams /\ DOMAIN context' = Streams
        /\ \A t \in Streams : VisitRight(visit'[t], context'[t], maintenance')
    BY <1>a, <2>1, <2>8, OneServed
  <2> QED BY <1>a, <2>9 DEF PipelineInv
<1>1. CASE GateReads(s)
  <2>1. At(s, "gate") /\ IF maintenance = "up" THEN CallNext(s, "gate", c)
        ELSE SetVisit(s, [v EXCEPT !.at = "payload", !.seen = maintenance]) /\ UNCHANGED context
    BY <1>1 DEF GateReads, v, c
  <2>2. v.at = "enter"
    BY <1>c, <2>1
  <2>3. Passed("gate", c) \/ Noted
    BY <1>e, <1>f, <1>g, <2>1, <2>2
  <2> QED BY <2>3, <1>p, <1>n
<1>2. CASE GateDecides(s)
  <2>1. /\ v.at = "payload"
        /\ IF maintenance = "listing" /\ v.who.listed THEN CallNext(s, "gate", c)
           ELSE Reply(s, "maintenance") /\ UNCHANGED context
    BY <1>2 DEF GateDecides, v, c
  <2>2. v.seen # "up" /\ (maintenance = v.seen \/ v.moved)
    BY <1>0, <2>1 DEF VisitGate
  <2>3. CASE maintenance = "listing" /\ v.who.listed
    <3>1. LetIn(v)
      BY <2>2, <2>3 DEF LetIn
    <3>2. Passed("gate", c)
      BY <1>e, <1>f, <1>g, <2>1, <2>3, <3>1
    <3> QED BY <1>p, <3>2
  <2>4. CASE ~(maintenance = "listing" /\ v.who.listed)
    <3>1. RepliedWith("maintenance")
      BY <2>1, <2>2, <2>4
    <3> QED BY <1>r, <3>1
  <2> QED BY <2>3, <2>4
<1>3. CASE ChooseLocale(s)
  <2> DEFINE asks == v.who.asks
             d == [c EXCEPT !.locale = CASE asks = "explicit" -> asks
                                         [] asks # "explicit" /\ Preferred(s, c.user) -> "preferred"
                                         [] asks = "header" /\ ~Preferred(s, c.user) -> asks
                                         [] OTHER -> c.locale]
  <2>1. v.at = "enter" /\ "locale" \notin Around(v) /\ CallNext(s, "locale", d)
    BY <1>3, <1>c DEF ChooseLocale, v, c
  <2>2. /\ v.who.prefers \in BOOLEAN /\ asks \in {"explicit", "header", "nothing"}
        /\ Preferred(s, c.user) = (c.user /\ v.who.prefers)
    BY <1>d DEF Visitor, Preferred, v
  <2>3. /\ d.user = c.user
        /\ d.locale = CASE asks = "explicit" -> asks
                        [] asks # "explicit" /\ Preferred(s, c.user) -> "preferred"
                        [] asks = "header" /\ ~Preferred(s, c.user) -> asks
                        [] OTHER -> c.locale
        /\ (d.locale \in Locales => d \in Context)
    BY <1>e DEF Context
  <2>4. d.locale = LocaleOf(Around(v) \cup {"locale"}, v.who)
    BY <1>e, <2>1, <2>2, <2>3 DEF LocaleOf
  <2>5. d \in Context
    BY <2>3, <2>4 DEF LocaleOf, Locales
  <2>6. Passed("locale", d)
    BY <1>e, <1>g, <2>1, <2>3, <2>4, <2>5
  <2> QED BY <1>p, <2>6
<1>4. CASE Populate(s)
  <2> DEFINE user == v.who.user
             d == [user |-> user, locale |-> IF v.who.asks # "explicit" /\ Preferred(s, user)
                                             THEN "preferred" ELSE c.locale]
  <2>1. /\ v.at = "enter" /\ "populate" \notin Around(v)
        /\ CallNext(s, "populate", d) \/ (RaiseError(s, "bug") /\ UNCHANGED context)
    <3>1. At(s, "populate")
      BY <1>4 DEF Populate
    <3>2. CallNext(s, "populate", d) \/ (RaiseError(s, "bug") /\ UNCHANGED context)
      BY <1>4, Zenon DEF Populate, v, c
    <3> QED BY <1>c, <3>1, <3>2
  <2>2. CASE RaiseError(s, "bug") /\ UNCHANGED context
    <3>1. Threw("bug")
      BY <2>1, <2>2
    <3> QED BY <1>t, <3>1
  <2>3. CASE CallNext(s, "populate", d)
    <3>1. Preferred(s, user) = (user /\ v.who.prefers)
      BY DEF Preferred, v
    <3>2. /\ d.user = user /\ d.locale = IF v.who.asks # "explicit" /\ Preferred(s, user)
                                         THEN "preferred" ELSE c.locale
          /\ (d.locale \in Locales => d \in Context)
      BY <1>e DEF Context
    <3>3. d.locale = LocaleOf(Around(v) \cup {"populate"}, v.who)
      BY <1>e, <2>1, <3>1, <3>2 DEF LocaleOf
    <3>4. d \in Context
      BY <3>2, <3>3 DEF LocaleOf, Locales
    <3>5. Passed("populate", d)
      BY <1>e, <1>g, <2>1, <2>3, <3>2, <3>3, <3>4
    <3> QED BY <1>p, <3>5
  <2> QED BY <2>1, <2>2, <2>3
<1>5. CASE Authenticate(s)
  <2>1. At(s, "auth") /\ IF c.user THEN CallNext(s, "auth", c)
                         ELSE RaiseError(s, "unauthenticated") /\ UNCHANGED context
    BY <1>5 DEF Authenticate, c
  <2>2. v.at = "enter"
    BY <1>c, <2>1
  <2>3. CASE c.user
    <3>1. Passed("auth", c)
      BY <1>e, <1>f, <1>g, <2>1, <2>2, <2>3
    <3> QED BY <1>p, <3>1
  <2>4. CASE ~c.user
    <3>1. Threw("unauthenticated")
      BY <1>c, <1>e, <2>1, <2>2, <2>4
    <3> QED BY <1>t, <3>1
  <2> QED BY <2>3, <2>4
<1>6. CASE Own(s)
  <2>1. v.at = "enter" /\ (\/ CallNext(s, "own", c)
                           \/ (Reply(s, "own") \/ RaiseError(s, "bug")) /\ UNCHANGED context)
    BY <1>6, <1>c DEF Own, c
  <2>2. Passed("own", c) \/ RepliedWith("own") \/ Threw("bug")
    BY <1>e, <1>f, <1>g, <2>1
  <2> QED BY <1>p, <1>r, <1>t, <2>2
<1> QED BY <1>1, <1>2, <1>3, <1>4, <1>5, <1>6

\* The destination hears the request.
LEMMA DestinationKeeps == ASSUME PipelineInv, NEW s \in Streams, Destination(s) PROVE PipelineInv'
<1> DEFINE v == visit[s]
           c == context[s]
<1>1. VisitRight(v, c, maintenance) /\ v.at = "enter" /\ Range(v.stack) \subseteq Around(v)
  <2>1. ToEnter(s) = Range(v.stack) \ Around(v)
    BY ToCome
  <2> QED BY <2>1 DEF PipelineInv, Destination
<1>2. ComesIn(v, c) /\ v.who \in Visitor /\ v.raised = NoneYet /\ v.answer = NoneYet
      /\ DOMAIN v = VisitFields
  BY <1>1 DEF VisitRight, VisitShape
<1>3. PICK outcome \in {"invalid", "denied", "ok", "unavailable", "bug", "gone", "absent"} :
          SetVisit(s, [v EXCEPT !.at = "unwind", !.heard = c,
                                !.answer = IF outcome \in Raisable THEN v.answer ELSE outcome,
                                !.raised = IF outcome \in Raisable THEN outcome ELSE v.raised])
  <2>1. PICK outcome \in IF v.found THEN {"invalid", "denied", "ok", "unavailable", "bug"}
                                    ELSE {"gone", "absent"} :
            SetVisit(s, [v EXCEPT !.at = "unwind", !.heard = c,
                                  !.answer = IF outcome \in Raisable THEN v.answer ELSE outcome,
                                  !.raised = IF outcome \in Raisable THEN outcome ELSE v.raised])
    BY DEF Destination
  <2> QED BY <2>1
<1>4. context' = context /\ maintenance' = maintenance /\ window' = window
  BY DEF Destination
<1> DEFINE w == [v EXCEPT !.at = "unwind", !.heard = c,
                          !.answer = IF outcome \in Raisable THEN v.answer ELSE outcome,
                          !.raised = IF outcome \in Raisable THEN outcome ELSE v.raised]
<1>5. /\ DOMAIN w = VisitFields /\ w.at = "unwind" /\ w.heard = c /\ w.who = v.who
      /\ w.saved = v.saved /\ w.fits = v.fits /\ w.stack = v.stack /\ w.reported = v.reported
      /\ w.logged = v.logged /\ w.inside = v.inside /\ w.seen = v.seen /\ w.moved = v.moved
      /\ w.answer = IF outcome \in Raisable THEN NoneYet ELSE outcome
      /\ w.raised = IF outcome \in Raisable THEN outcome ELSE NoneYet
  BY <1>2 DEF VisitFields
<1>6. SetVisit(s, w)
  BY <1>3
<1> HIDE DEF w
<1>7. VisitShape(w, c)
  BY <1>1, <1>2, <1>5 DEF VisitShape, VisitRight
<1>8. c # Unheard
  BY <1>2 DEF ComesIn, Context, Locales, Unheard
<1>9. VisitHeard(w)
  <2>1. w.raised # "unauthenticated" /\ w.answer # "unauthenticated"
    BY <1>5 DEF NoneYet
  <2>2. "auth" \in Range(v.stack) => v.who.user
    BY <1>1, <1>2 DEF ComesIn
  <2>3. ASSUME {"locale", "populate"} \subseteq Range(v.stack)
        PROVE  c = [user |-> v.who.user, locale |-> LocaleOf({"locale", "populate"}, v.who)]
    <3>1. c \in Context /\ (c.user <=> v.who.user) /\ c.locale = LocaleOf({"locale", "populate"}, v.who)
      BY <1>1, <1>2, <2>3 DEF ComesIn, LocaleOf
    <3>2. c.user \in BOOLEAN /\ v.who.user \in BOOLEAN
      BY <1>2, <3>1 DEF Context, Visitor
    <3>3. c.user = v.who.user
      BY <3>1, <3>2
    <3> QED BY <3>1, <3>3 DEF Context
  <2> QED BY <1>5, <1>8, <2>1, <2>2, <2>3 DEF VisitHeard
<1>10. VisitGate(w, maintenance)
  BY <1>1, <1>5 DEF VisitGate, VisitRight, LetIn, NoneYet
<1>11. VisitReport(w)
  BY <1>1, <1>5 DEF VisitReport, VisitRight
<1>12. VisitRight(w, context'[s], maintenance)
  BY <1>4, <1>7, <1>9, <1>10, <1>11 DEF VisitRight
<1>13. /\ DOMAIN visit' = Streams /\ DOMAIN context' = Streams
       /\ \A t \in Streams : VisitRight(visit'[t], context'[t], maintenance')
  BY <1>4, <1>6, <1>12, OneServed
<1> QED BY <1>4, <1>13 DEF PipelineInv

\* On the way out nothing is heard any more; what is answered then is an exception of the code's.
LEMMA LeavingKeeps ==
  ASSUME NEW v, NEW c, NEW m, VisitRight(v, c, m), v.at \in {"unwind", "respond", "terminate"},
         NEW w, DOMAIN w = VisitFields, w.at \in {"unwind", "respond", "terminate", "render", "over"},
         w.raised \in {v.raised, "bug", NoneYet},
         w.at = "over" => w.raised = NoneYet,
         w.who = v.who, w.stack = v.stack, w.fits = v.fits, w.saved = v.saved, w.answer = v.answer,
         w.reported = v.reported, w.logged = v.logged, w.seen = v.seen, w.moved = v.moved,
         w.heard = v.heard, NEW d, w.at \in {"render", "over"} => d = Untouched
  PROVE  VisitRight(w, d, m)
<1>1. VisitShape(w, d)
  BY DEF VisitRight, VisitShape, Raisable, ServerErrors
<1>2. VisitHeard(w)
  <2>1. VisitHeard(v)
    BY DEF VisitRight
  <2>2. CASE w.raised = v.raised
    BY <2>1, <2>2 DEF VisitHeard
  <2>3. CASE w.raised \in {"bug", NoneYet}
    BY <2>1, <2>3 DEF VisitHeard, NoneYet
  <2> QED BY <2>2, <2>3
<1>3. VisitGate(w, m)
  BY DEF VisitRight, VisitGate, LetIn
<1>4. VisitReport(w)
  BY DEF VisitRight, VisitReport, ServerErrors, NoneYet
<1> QED BY <1>1, <1>2, <1>3, <1>4 DEF VisitRight

\* The middleware in reverse, the response and the hooks after it.
LEMMA WayOutKeeps ==
  ASSUME PipelineInv, NEW s \in Streams, Unwind(s) \/ Unwound(s) \/ MakeResponse(s) \/ RunTerminate(s)
  PROVE  PipelineInv'
<1> DEFINE v == visit[s]
           c == context[s]
           Left(w) ==
               /\ DOMAIN w = VisitFields /\ w.at \in {"unwind", "respond", "terminate", "render", "over"}
               /\ w.raised \in {v.raised, "bug", NoneYet}
               /\ w.at = "over" => w.raised = NoneYet
               /\ w.who = v.who /\ w.stack = v.stack /\ w.fits = v.fits /\ w.saved = v.saved
               /\ w.answer = v.answer /\ w.reported = v.reported /\ w.logged = v.logged
               /\ w.seen = v.seen /\ w.moved = v.moved /\ w.heard = v.heard
               /\ SetVisit(s, w)
               /\ context' = context \/ \E d : context' = [context EXCEPT ![s] = d]
               /\ w.at \in {"render", "over"} => context' = [context EXCEPT ![s] = v.saved]
<1>0. /\ VisitRight(v, c, maintenance) /\ v.at \in {"unwind", "respond", "terminate"}
      /\ maintenance' = maintenance /\ window' = window
  BY DEF PipelineInv, Unwind, Unwound, MakeResponse, RunTerminate
<1>1. DOMAIN v = VisitFields /\ v.saved = Untouched
  BY <1>0 DEF VisitRight, VisitShape
<1>2. ASSUME NEW w, Left(w) PROVE PipelineInv'
  <2>1. w.at \in {"render", "over"} => context'[s] = Untouched
    BY <1>1, <1>2 DEF PipelineInv
  <2>2. VisitRight(w, context'[s], maintenance)
    BY <1>0, <1>2, <2>1, LeavingKeeps
  <2>3. /\ DOMAIN visit' = Streams /\ DOMAIN context' = Streams
        /\ \A t \in Streams : VisitRight(visit'[t], context'[t], maintenance')
    BY <1>0, <1>2, <2>2, OneServed
  <2> QED BY <1>0, <2>3 DEF PipelineInv
<1> HIDE DEF v, c
<1>3. CASE Unwind(s)
  <2>1. PICK r \in {v.raised, "bug"} :
            SetVisit(s, [v EXCEPT !.inside = Front(v.inside), !.raised = r])
    <3>1. SetVisit(s, [v EXCEPT !.inside = Front(v.inside)])
          \/ SetVisit(s, [[v EXCEPT !.inside = Front(v.inside)] EXCEPT !.raised = "bug"])
      BY <1>3 DEF Unwind, v
    <3>2. [v EXCEPT !.inside = Front(v.inside)] = [v EXCEPT !.inside = Front(v.inside), !.raised = v.raised]
      OBVIOUS
    <3>3. [[v EXCEPT !.inside = Front(v.inside)] EXCEPT !.raised = "bug"]
          = [v EXCEPT !.inside = Front(v.inside), !.raised = "bug"]
      OBVIOUS
    <3> QED BY <3>1, <3>2, <3>3
  <2> DEFINE w == [v EXCEPT !.inside = Front(v.inside), !.raised = r]
  <2>2. SetVisit(s, w) /\ v.at = "unwind" /\ \E d : context' = [context EXCEPT ![s] = d]
    BY <1>3, <2>1 DEF Unwind, v
  <2>3. Left(w)
    BY <1>1, <2>1, <2>2 DEF VisitFields
  <2> QED BY <1>2, <2>3
<1>4. CASE Unwound(s)
  <2>1. CASE v.raised = NoneYet
    <3> DEFINE w == [v EXCEPT !.at = "respond"]
    <3>1. SetVisit(s, w) /\ context' = context
      BY <1>4, <2>1 DEF Unwound, v
    <3>2. Left(w)
      BY <1>1, <3>1 DEF VisitFields
    <3> QED BY <1>2, <3>2
  <2>2. CASE v.raised # NoneYet
    <3> DEFINE w == [v EXCEPT !.at = "render", !.raised = v.raised]
    <3>1. SetVisit(s, w) /\ context' = [context EXCEPT ![s] = v.saved]
      BY <1>4, <2>2 DEF Unwound, LeaveWith, v
    <3>2. Left(w)
      BY <1>1, <3>1 DEF VisitFields
    <3> QED BY <1>2, <3>2
  <2> QED BY <2>1, <2>2
<1>5. CASE MakeResponse(s)
  <2>1. CASE SetVisit(s, [v EXCEPT !.at = "terminate"]) /\ UNCHANGED context
    <3> DEFINE w == [v EXCEPT !.at = "terminate"]
    <3>1. Left(w)
      BY <1>1, <2>1 DEF VisitFields
    <3> QED BY <1>2, <3>1
  <2>2. CASE LeaveWith(s, "render", "bug")
    <3> DEFINE w == [v EXCEPT !.at = "render", !.raised = "bug"]
    <3>1. SetVisit(s, w) /\ context' = [context EXCEPT ![s] = v.saved]
      BY <2>2 DEF LeaveWith, v
    <3>2. Left(w)
      BY <1>1, <3>1 DEF VisitFields
    <3> QED BY <1>2, <3>2
  <2> QED BY <1>5, <2>1, <2>2 DEF MakeResponse, v
<1>6. CASE RunTerminate(s)
  <2>1. CASE LeaveWith(s, "over", NoneYet)
    <3> DEFINE w == [v EXCEPT !.at = "over", !.raised = NoneYet]
    <3>1. SetVisit(s, w) /\ context' = [context EXCEPT ![s] = v.saved]
      BY <2>1 DEF LeaveWith, v
    <3>2. Left(w)
      BY <1>1, <3>1 DEF VisitFields
    <3> QED BY <1>2, <3>2
  <2>2. CASE LeaveWith(s, "render", "bug")
    <3> DEFINE w == [v EXCEPT !.at = "render", !.raised = "bug"]
    <3>1. SetVisit(s, w) /\ context' = [context EXCEPT ![s] = v.saved]
      BY <2>2 DEF LeaveWith, v
    <3>2. Left(w)
      BY <1>1, <3>1 DEF VisitFields
    <3> QED BY <1>2, <3>2
  <2> QED BY <1>6, <2>1, <2>2 DEF RunTerminate
<1> QED BY <1>3, <1>4, <1>5, <1>6

\* An exception is reported at most once, however it is rendered.
LEMMA RenderKeeps == ASSUME PipelineInv, NEW s \in Streams, Render(s) PROVE PipelineInv'
<1> DEFINE v == visit[s]
<1>0. /\ VisitRight(v, context[s], maintenance) /\ v.at = "render"
      /\ maintenance' = maintenance /\ context' = context
  BY DEF PipelineInv, Render
<1>1. DOMAIN v = VisitFields /\ v.reported = FALSE /\ v.logged = 0 /\ context[s] = Untouched
      /\ v.saved = Untouched /\ v.who \in Visitor /\ v.raised \in Raisable \cup {NoneYet} /\ v.fits \in BOOLEAN
  BY <1>0 DEF VisitRight, VisitShape, VisitReport
<1>2. PICK u \in IF v.raised = "bug" THEN HandleUncaught(v) ELSE {RenderException(v)} :
          SetVisit(s, [u EXCEPT !.at = "over"]) /\ window' = window + u.logged - v.logged
  BY DEF Render
<1> DEFINE w == [u EXCEPT !.at = "over"]
           one == IF window < Limit THEN 1 ELSE 0
           told == [v EXCEPT !.reported = TRUE, !.logged = v.logged + one]
<1>3. ReportError(v) = told
  BY <1>1 DEF ReportError
<1>4. DOMAIN told = VisitFields /\ told.reported = TRUE /\ told.logged = one /\ told.raised = v.raised
      /\ told.who = v.who /\ told.stack = v.stack /\ told.fits = v.fits /\ told.saved = v.saved
      /\ told.seen = v.seen /\ told.moved = v.moved /\ told.heard = v.heard
  BY <1>1 DEF VisitFields
<1> HIDE DEF told
<1>5. ReportError(told) = told
  BY <1>4 DEF ReportError
<1>6. \E x \in {v, told}, a \in {v.raised, "rendered"} :
          /\ u = [x EXCEPT !.answer = a] /\ (x = told <=> v.raised \in ServerErrors)
  <2>1. CASE v.raised = "bug"
    <3>1. v.raised \in ServerErrors
      BY <2>1 DEF ServerErrors
    <3>2. u = [told EXCEPT !.answer = "rendered"] \/ u = RenderException(told)
      BY <1>2, <1>3, <2>1 DEF HandleUncaught
    <3>3. RenderException(told) = [told EXCEPT !.answer = v.raised]
      BY <1>4, <1>5, <3>1 DEF RenderException
    <3> QED BY <3>1, <3>2, <3>3
  <2>2. CASE v.raised # "bug" /\ v.raised \in ServerErrors
    <3>1. u = RenderException(v)
      BY <1>2, <2>2
    <3>2. RenderException(v) = [told EXCEPT !.answer = v.raised]
      BY <1>3, <2>2 DEF RenderException
    <3> QED BY <2>2, <3>1, <3>2
  <2>3. CASE v.raised # "bug" /\ v.raised \notin ServerErrors
    <3>1. u = RenderException(v)
      BY <1>2, <2>3
    <3>2. RenderException(v) = [v EXCEPT !.answer = v.raised]
      BY <2>3 DEF RenderException
    <3>3. v # told
      BY <1>1, <1>4
    <3> QED BY <2>3, <3>1, <3>2, <3>3
  <2> QED BY <2>1, <2>2, <2>3
<1>7. PICK x \in {v, told}, a \in {v.raised, "rendered"} :
          /\ u = [x EXCEPT !.answer = a] /\ (x = told <=> v.raised \in ServerErrors)
  BY <1>6
<1>8. DOMAIN x = VisitFields /\ x.raised = v.raised /\ x.who = v.who /\ x.stack = v.stack
      /\ x.fits = v.fits /\ x.saved = v.saved /\ x.seen = v.seen /\ x.moved = v.moved /\ x.heard = v.heard
      /\ (x.reported <=> v.raised \in ServerErrors) /\ x.logged \in {0, one}
  BY <1>1, <1>4, <1>7
<1>9. /\ DOMAIN w = VisitFields /\ w.at = "over" /\ w.raised = v.raised /\ w.who = v.who
      /\ w.stack = v.stack /\ w.fits = v.fits /\ w.saved = v.saved /\ w.seen = v.seen
      /\ w.moved = v.moved /\ w.heard = v.heard /\ w.answer = a
      /\ (w.reported <=> v.raised \in ServerErrors) /\ w.logged = x.logged /\ u.logged = x.logged
  BY <1>7, <1>8 DEF VisitFields
<1>10. SetVisit(s, w)
  BY <1>2
<1> HIDE DEF w
<1>11. VisitRight(w, context[s], maintenance)
  <2>1. VisitShape(w, context[s])
    BY <1>1, <1>9 DEF VisitShape
  <2>2. VisitHeard(w)
    <3>1. VisitHeard(v)
      BY <1>0 DEF VisitRight
    <3>2. CASE a = v.raised
      BY <1>1, <1>9, <3>1, <3>2 DEF VisitHeard, Raisable, ServerErrors, NoneYet
    <3>3. CASE a = "rendered"
      BY <1>9, <3>1, <3>3 DEF VisitHeard
    <3> QED BY <1>7, <3>2, <3>3
  <2>3. VisitGate(w, maintenance)
    BY <1>0, <1>1, <1>7, <1>9 DEF VisitGate, VisitRight, LetIn, Raisable, ServerErrors, NoneYet
  <2>4. VisitReport(w)
    BY <1>8, <1>9 DEF VisitReport
  <2> QED BY <2>1, <2>2, <2>3, <2>4 DEF VisitRight
<1>12. /\ DOMAIN visit' = Streams /\ DOMAIN context' = Streams
       /\ \A t \in Streams : VisitRight(visit'[t], context'[t], maintenance')
  BY <1>0, <1>10, <1>11, OneServed
<1>13. window' \in Nat /\ window' <= Limit
  <2>1. window \in Nat /\ window <= Limit /\ Limit \in Nat /\ v.logged = 0 /\ window' = window + x.logged - v.logged
    BY <1>1, <1>2, <1>9, PipelineAssumption DEF PipelineInv
  <2>2. x.logged = 0 \/ (x.logged = 1 /\ window < Limit)
    BY <1>8
  <2> HIDE DEF v
  <2> QED BY <2>1, <2>2
<1> QED BY <1>12, <1>13 DEF PipelineInv

\* Each step of a request, and of the others meanwhile (http/kernel.py).
LEMMA PipelineNext == PipelineInv /\ [PipelineStep]_pipelineVars => PipelineInv'
<1> SUFFICES ASSUME PipelineInv, [PipelineStep]_pipelineVars PROVE PipelineInv'
  OBVIOUS
<1>1. ASSUME NEW s \in Streams, Serve(s) PROVE PipelineInv'
  <2>1. ASSUME BindRow(s) PROVE PipelineInv'
    <3> DEFINE v == visit[s]
               e == [v EXCEPT !.at = "enter", !.found = bound]
               b == [v EXCEPT !.at = "unwind", !.raised = "bug"]
    <3>1. /\ v.at = "bind" /\ VisitRight(v, context[s], maintenance) /\ context' = context
          /\ maintenance' = maintenance /\ window' = window /\ (SetVisit(s, e) \/ SetVisit(s, b))
      BY <2>1 DEF BindRow, RaiseError, PipelineInv
    <3>2. /\ DOMAIN v = VisitFields /\ context[s] = Untouched /\ v.inside = <<>> /\ v.saved = Untouched
          /\ v.who \in Visitor /\ v.raised = NoneYet /\ v.answer = NoneYet /\ v.heard = Unheard
      BY <3>1 DEF VisitRight, VisitShape
    <3>3. VisitRight(b, context[s], maintenance)
      BY <3>1, RaiseKeeps
    <3>4. VisitRight(e, context[s], maintenance)
      <4>1. /\ DOMAIN e = VisitFields /\ e.at = "enter" /\ e.inside = <<>> /\ e.who = v.who /\ e.saved = v.saved
            /\ e.raised = NoneYet /\ e.answer = NoneYet /\ e.heard = Unheard /\ e.stack = v.stack
            /\ e.fits = v.fits /\ e.seen = v.seen /\ e.moved = v.moved /\ e.reported = v.reported
            /\ e.logged = v.logged
        BY <3>2 DEF VisitFields
      <4>2. ComesIn(e, Untouched)
        <5>1. Around(e) = {}
          BY <4>1 DEF Around
        <5>2. Untouched \in Context /\ Untouched.user = FALSE /\ Untouched.locale = "default"
          BY DEF Untouched, Context, Locales
        <5>3. LocaleOf({}, e.who) = "default"
          BY DEF LocaleOf
        <5>4. e.inside \in Seq(Middleware \X Context)
          <6>1. <<>> \in Seq(Middleware \X Context)
            OBVIOUS
          <6>2. e.inside = <<>>
            BY <4>1
          <6> QED BY <6>1, <6>2, Zenon
        <5> HIDE DEF e
        <5> QED BY <5>1, <5>2, <5>3, <5>4 DEF ComesIn
      <4> HIDE DEF e
      <4>3. VisitShape(e, Untouched)
        BY <3>1, <3>2, <4>1, <4>2 DEF VisitShape, VisitRight
      <4>4. VisitHeard(e)
        BY <4>1 DEF VisitHeard, NoneYet
      <4>5. VisitGate(e, maintenance)
        BY <3>1, <4>1 DEF VisitGate, VisitRight, LetIn, NoneYet
      <4>6. VisitReport(e)
        BY <3>1, <4>1 DEF VisitReport, VisitRight
      <4> QED BY <3>2, <4>3, <4>4, <4>5, <4>6 DEF VisitRight
    <3> HIDE DEF e, b
    <3>5. /\ DOMAIN visit' = Streams /\ DOMAIN context' = Streams
          /\ \A t \in Streams : VisitRight(visit'[t], context'[t], maintenance')
      <4>1. CASE SetVisit(s, e)
        <5>1. VisitRight(e, context'[s], maintenance)
          BY <3>1, <3>4
        <5> QED BY <3>1, <4>1, <5>1, OneServed
      <4>2. CASE SetVisit(s, b)
        <5>1. VisitRight(b, context'[s], maintenance)
          BY <3>1, <3>3
        <5> QED BY <3>1, <4>2, <5>1, OneServed
      <4> QED BY <3>1, <4>1, <4>2
    <3> QED BY <3>1, <3>5 DEF PipelineInv
  <2>2. ASSUME Done(s) PROVE PipelineInv'
    <3>1. /\ VisitRight(visit[s], context[s], maintenance) /\ visit[s].at = "over" /\ SetVisit(s, NoVisit)
          /\ context' = context /\ maintenance' = maintenance /\ window' = window
      BY <2>2 DEF Done, PipelineInv
    <3>2. context'[s] = Untouched
      BY <3>1 DEF VisitRight, VisitShape
    <3>3. VisitRight(NoVisit, context'[s], maintenance)
      BY <3>2, NoVisitRight
    <3>4. /\ DOMAIN visit' = Streams /\ DOMAIN context' = Streams
          /\ \A t \in Streams : VisitRight(visit'[t], context'[t], maintenance')
      BY <3>1, <3>3, OneServed
    <3> QED BY <3>1, <3>4 DEF PipelineInv
  <2> QED BY <1>1, <2>1, <2>2, ReceiveKeeps, MiddlewareKeep, DestinationKeeps, WayOutKeeps, RenderKeeps DEF Serve
<1>2. ASSUME NEW f \in {"up", "down", "listing"}, SwitchMaintenance(f) PROVE PipelineInv'
  <2>1. /\ visit' = [s \in Streams |-> [visit[s] EXCEPT !.moved = visit[s].moved \/ visit[s].at = "payload"]]
        /\ context' = context /\ window' = window
    BY <1>2 DEF SwitchMaintenance
  <2>2. ASSUME NEW s \in Streams PROVE VisitRight(visit'[s], context'[s], maintenance')
    <3> DEFINE v == visit[s]
               w == [v EXCEPT !.moved = v.moved \/ v.at = "payload"]
    <3>1. VisitRight(v, context[s], maintenance) /\ visit'[s] = w /\ context'[s] = context[s]
      BY <2>1 DEF PipelineInv
    <3>2. DOMAIN v = VisitFields
      BY <3>1 DEF VisitRight, VisitShape
    <3>3. /\ DOMAIN w = VisitFields /\ w.at = v.at /\ w.inside = v.inside /\ w.who = v.who /\ w.saved = v.saved
          /\ w.raised = v.raised /\ w.answer = v.answer /\ w.heard = v.heard /\ w.stack = v.stack
          /\ w.fits = v.fits /\ w.seen = v.seen /\ w.reported = v.reported /\ w.logged = v.logged
          /\ w.moved = (v.moved \/ v.at = "payload")
      BY <3>2 DEF VisitFields
    <3> HIDE DEF v, w
    <3>4. ComesIn(w, context[s]) <=> ComesIn(v, context[s])
      BY <3>3 DEF ComesIn, Around
    <3>5. VisitShape(w, context[s])
      BY <3>1, <3>3, <3>4 DEF VisitShape, VisitRight
    <3>6. VisitHeard(w)
      BY <3>1, <3>3 DEF VisitHeard, VisitRight
    <3>7. VisitGate(w, maintenance')
      BY <3>1, <3>3 DEF VisitGate, VisitRight, LetIn
    <3>8. VisitReport(w)
      BY <3>1, <3>3 DEF VisitReport, VisitRight
    <3> QED BY <3>1, <3>5, <3>6, <3>7, <3>8 DEF VisitRight
  <2> QED BY <2>1, <2>2 DEF PipelineInv
<1>3. CASE RowComesOrGoes
  BY <1>3 DEF RowComesOrGoes, PipelineInv
<1>4. CASE WindowPasses
  BY <1>4, PipelineAssumption DEF WindowPasses, PipelineInv
<1>5. CASE UNCHANGED pipelineVars
  BY <1>5 DEF pipelineVars, PipelineInv
<1> QED BY <1>1, <1>2, <1>3, <1>4, <1>5 DEF PipelineStep

\* What an answer promises follows.
LEMMA PipelineSafe == PipelineInv => AnsweredRight
<1> SUFFICES ASSUME PipelineInv PROVE AnsweredRight
  OBVIOUS
<1>1. \A s \in Streams : LET v == visit[s] IN
          VisitShape(v, context[s]) /\ VisitHeard(v) /\ VisitGate(v, maintenance) /\ VisitReport(v)
  BY DEF PipelineInv, VisitRight
<1>2. AnswersInOrder
  BY <1>1 DEF AnswersInOrder, VisitHeard, Protected
<1>3. HeardAsOneself
  <2>1. ASSUME NEW s \in Streams, NEW v, v = visit[s]
        PROVE  /\ v.at = "over" /\ v.who.user /\ "populate" \in Range(v.stack)
                                /\ Precedes(Priority, "populate", "auth") => v.answer # "unauthenticated"
               /\ v.heard # Unheard /\ {"locale", "populate"} \subseteq Range(v.stack) =>
                     v.heard = [user |-> v.who.user, locale |-> LocaleOf({"locale", "populate"}, v.who)]
    BY <1>1, <2>1 DEF VisitHeard
  <2>2. ASSUME NEW s \in Streams
        PROVE  LocaleOf({"locale", "populate"}, visit[s].who) =
                   IF visit[s].who.asks = "explicit" THEN "explicit"
                   ELSE IF Preferred(s, visit[s].who.user) THEN "preferred"
                   ELSE IF visit[s].who.asks = "header" THEN "header" ELSE "default"
    BY DEF LocaleOf, Preferred
  <2> QED BY <2>1, <2>2 DEF HeardAsOneself
<1>4. ContextRestored
  BY <1>1 DEF ContextRestored, VisitShape
<1>5. GateKept
  BY <1>1 DEF GateKept, VisitGate, LetIn
<1>6. ReportedOnce
  BY <1>1 DEF ReportedOnce, VisitReport, PipelineInv
<1> QED BY <1>2, <1>3, <1>4, <1>5, <1>6 DEF AnsweredRight

-----------------------------------------------------------------------------
(* Validation *)

\* Of some numbers there is a least one.
LEMMA Earliest ==
  ASSUME NEW S, S \subseteq Nat, S # {}
  PROVE  \E x \in S : \A y \in S : x <= y
<1>1. PICK x \in S : \A y \in S : ~(<<y, x>> \in OpToRel(<, Nat))
  BY NatLessThanWellFounded, WFMin
<1>2. ASSUME NEW y \in S PROVE x <= y
  <2>1. x \in Nat /\ y \in Nat /\ ~(y < x)
    BY <1>1 DEF OpToRel
  <2> QED BY <2>1
<1> QED BY <1>2

\* A ruleset as the framework takes it: each of its rules once.
Ruling(u) == u \in Ruleset /\ IsInjective(u.rules)

\* Of the rules that fail one is the first, and bail reports that one alone.
LEMMA OneIsFirst ==
  ASSUME NEW u, Ruling(u), NEW failing, failing \subseteq Range(u.rules)
  PROVE  /\ Reported(u, failing) \subseteq failing
         /\ failing # {} => Reported(u, failing) # {}
         /\ "bail" \in u.flags => \A r, q \in Reported(u, failing) : r = q
         /\ \A r, q \in Range(u.rules) : r # q => Sooner(u, r, q) \/ Sooner(u, q, r)
         /\ \A r, q, p : Sooner(u, r, q) /\ Sooner(u, q, p) => Sooner(u, r, p)
         /\ \A r, q : Sooner(u, r, q) => ~Sooner(u, q, r)
<1> DEFINE rules == u.rules
<1>1. rules \in Seq(Rules) /\ DOMAIN rules \subseteq Nat
      /\ \A i, j \in DOMAIN rules : rules[i] = rules[j] => i = j
  BY DEF Ruling, Ruleset, IsInjective
<1>2. \A r \in Range(rules) : \E i \in DOMAIN rules : rules[i] = r
  BY DEF Range
<1>3. \A r, q \in Range(rules) : r # q => Sooner(u, r, q) \/ Sooner(u, q, r)
  <2> SUFFICES ASSUME NEW r \in Range(rules), NEW q \in Range(rules), r # q
               PROVE  Sooner(u, r, q) \/ Sooner(u, q, r)
    OBVIOUS
  <2>1. PICK i \in DOMAIN rules : rules[i] = r
    BY <1>2
  <2>2. PICK j \in DOMAIN rules : rules[j] = q
    BY <1>2
  <2>3. i < j \/ j < i
    BY <1>1, <2>1, <2>2
  <2> QED BY <2>1, <2>2, <2>3 DEF Sooner
<1>4. \A r, q, p : Sooner(u, r, q) /\ Sooner(u, q, p) => Sooner(u, r, p)
  <2> SUFFICES ASSUME NEW r, NEW q, NEW p, Sooner(u, r, q), Sooner(u, q, p) PROVE Sooner(u, r, p)
    OBVIOUS
  <2>1. PICK i \in DOMAIN rules, j \in DOMAIN rules : i < j /\ rules[i] = r /\ rules[j] = q
    BY DEF Sooner
  <2>2. PICK k \in DOMAIN rules, l \in DOMAIN rules : k < l /\ rules[k] = q /\ rules[l] = p
    BY DEF Sooner
  <2>3. i < l
    BY <1>1, <2>1, <2>2
  <2> QED BY <2>1, <2>2, <2>3 DEF Sooner
<1>5. \A r, q : Sooner(u, r, q) => ~Sooner(u, q, r)
  <2> SUFFICES ASSUME NEW r, NEW q, Sooner(u, r, q), Sooner(u, q, r) PROVE FALSE
    OBVIOUS
  <2>1. PICK i \in DOMAIN rules, j \in DOMAIN rules : i < j /\ rules[i] = r /\ rules[j] = q
    BY DEF Sooner
  <2>2. PICK k \in DOMAIN rules, l \in DOMAIN rules : k < l /\ rules[k] = q /\ rules[l] = r
    BY DEF Sooner
  <2>3. k = j /\ l = i
    BY <1>1, <2>1, <2>2
  <2> QED BY <1>1, <2>1, <2>2, <2>3
<1>6. ASSUME failing # {} PROVE Reported(u, failing) # {}
  <2> DEFINE places == {i \in DOMAIN rules : rules[i] \in failing}
  <2>1. places \subseteq Nat /\ places # {}
    <3>1. PICK r \in failing : TRUE
      BY <1>6
    <3>2. PICK i \in DOMAIN rules : rules[i] = r
      BY <1>2
    <3> QED BY <1>1, <3>2
  <2>2. PICK x \in places : \A y \in places : x <= y
    BY <2>1, Earliest
  <2>3. ASSUME NEW q \in failing, q # rules[x] PROVE Sooner(u, rules[x], q)
    <3>1. PICK j \in DOMAIN rules : rules[j] = q
      BY <1>2
    <3>2. x \in DOMAIN rules /\ x <= j /\ x # j
      BY <2>2, <2>3, <3>1
    <3>3. x < j
      BY <1>1, <3>1, <3>2
    <3> QED BY <3>1, <3>2, <3>3 DEF Sooner
  <2> QED BY <2>2, <2>3 DEF Reported
<1>7. ASSUME "bail" \in u.flags, NEW r \in Reported(u, failing), NEW q \in Reported(u, failing)
      PROVE  r = q
  BY <1>5, <1>7 DEF Reported
<1> QED BY <1>3, <1>4, <1>5, <1>6, <1>7 DEF Reported

FormShapes ==
    /\ form \in Form /\ taken \in BOOLEAN /\ held \in [Fields -> SUBSET BOOLEAN]
    /\ pass.at \in {"idle", "awaiting", "ran"} /\ pass \in Pass

\* A form is ruled by rulesets that the framework takes.
LEMMA FormRules ==
  ASSUME form \in Form
  PROVE  /\ \A f \in Fields : Ruling(form.rules[f])
         /\ Ruling(form.each) /\ form.list \in Seq(Value) /\ DOMAIN form.list \subseteq Elements
         /\ form.hook \in BOOLEAN /\ form.stop \in BOOLEAN /\ form.excludes \in BOOLEAN
  BY ValidationAssumption DEF Form, Ruling

\* What the sweep finds of each field, element and hook.
LEMMA SweepFinds ==
  ASSUME NEW d, NEW e, e = Swept(d).errors, NEW x, x = Swept(d).excluded
  PROVE  /\ DOMAIN e = ErrorKeys
         /\ e[1] = FieldErrors(1, d)
         /\ e[2] = IF form.stop /\ FieldErrors(1, d) # {} THEN {} ELSE FieldErrors(2, d)
         /\ \A i \in Elements : e[ElementKey(i)] =
               IF form.stop /\ (FieldErrors(1, d) # {} \/ FieldErrors(2, d) # {}) THEN {} ELSE ElementErrors(i)
         /\ e[HookKey] = IF form.hook THEN {"hook"} ELSE {}
         /\ x = {f \in Fields : Excludes(f, d) /\ (f = 2 /\ form.stop => FieldErrors(1, d) = {})}
<1>1. e = [k \in ErrorKeys |->
            CASE k \in Fields -> IF ~form.stop \/ \A g \in 1..(k - 1) : FieldErrors(g, d) = {}
                                 THEN FieldErrors(k, d) ELSE {}
              [] k = HookKey -> IF form.hook THEN {"hook"} ELSE {}
              [] OTHER -> IF ~form.stop \/ \A g \in Fields : FieldErrors(g, d) = {}
                          THEN ElementErrors(k - 10) ELSE {}]
  BY DEF Swept
<1>2. x = {f \in Fields : (~form.stop \/ \A g \in 1..(f - 1) : FieldErrors(g, d) = {}) /\ Excludes(f, d)}
  BY DEF Swept
<1>3. Fields = {1, 2} /\ Elements = {1, 2, 3} /\ 1..(1 - 1) = {} /\ 1..(2 - 1) = {1} /\ HookKey = 0
  BY DEF Fields, Elements, HookKey
<1>4. ErrorKeys = {1, 2, 11, 12, 13, 0}
  BY <1>3 DEF ErrorKeys, ElementKey
<1>5. e[1] = FieldErrors(1, d)
  BY <1>1, <1>3, <1>4
<1>6. e[2] = IF form.stop /\ FieldErrors(1, d) # {} THEN {} ELSE FieldErrors(2, d)
  BY <1>1, <1>3, <1>4
<1>7. e[HookKey] = IF form.hook THEN {"hook"} ELSE {}
  BY <1>1, <1>3, <1>4
<1>8. ASSUME NEW i \in Elements
      PROVE  e[ElementKey(i)] = IF form.stop /\ (FieldErrors(1, d) # {} \/ FieldErrors(2, d) # {})
                                THEN {} ELSE ElementErrors(i)
  <2>1. ElementKey(i) \in ErrorKeys /\ ElementKey(i) \notin Fields /\ ElementKey(i) # HookKey
        /\ ElementKey(i) - 10 = i
    BY <1>3 DEF ElementKey, ErrorKeys
  <2> QED BY <1>1, <1>3, <2>1
<1>9. x = {f \in Fields : Excludes(f, d) /\ (f = 2 /\ form.stop => FieldErrors(1, d) = {})}
  BY <1>2, <1>3
<1> QED BY <1>1, <1>5, <1>6, <1>7, <1>8, <1>9

\* The keys that errors are listed under.
LEMMA KeysAre ==
  /\ ErrorKeys = Fields \cup {ElementKey(i) : i \in Elements} \cup {HookKey} /\ Fields = {1, 2}
  /\ \A k \in ErrorKeys \ Fields : k = HookKey \/ \E i \in Elements : k = ElementKey(i)
  BY DEF ErrorKeys, Fields

\* What a sweep says of a field: the rules that apply, are not deferred and do not hold, or
\* the first of them.
LEMMA FieldFinds ==
  ASSUME form \in Form, NEW f \in Fields, NEW d
  PROVE  /\ \A r \in FieldErrors(f, d) : r \in Judged(f) \ d /\ ~Holds(r, form.input[f])
         /\ FieldErrors(f, d) = {} => \A r \in Judged(f) \ d : Holds(r, form.input[f])
         /\ Flagged(f, "bail") => \A r, q \in FieldErrors(f, d) : r = q
<1> DEFINE failing == {r \in Applicable(f) \ d : ~Holds(r, form.input[f])}
<1>1. Ruling(form.rules[f]) /\ failing \subseteq Range(form.rules[f].rules)
  BY FormRules DEF Applicable
<1>2. /\ Reported(form.rules[f], failing) \subseteq failing
      /\ failing # {} => Reported(form.rules[f], failing) # {}
      /\ "bail" \in form.rules[f].flags =>
            \A r, q \in Reported(form.rules[f], failing) : r = q
  <2> HIDE DEF failing
  <2> QED BY <1>1, OneIsFirst
<1>3. CASE Skipped(f)
  BY <1>3 DEF FieldErrors, Judged
<1>4. CASE ~Skipped(f)
  BY <1>2, <1>4 DEF FieldErrors, Judged, Flagged
<1> QED BY <1>3, <1>4

\* The elements are without error when the rules hold of each, and only then.
LEMMA ElementsFind ==
  ASSUME form \in Form
  PROVE  (\A i \in Elements : ElementErrors(i) = {}) <=> ListHolds
<1> DEFINE failing(i) == {r \in Range(form.each.rules) : ~Holds(r, form.list[i])}
           again(i) == \E j \in 1..(i - 1) : form.list[j] = form.list[i]
<1>1. Ruling(form.each) /\ form.list \in Seq(Value) /\ DOMAIN form.list \subseteq Elements
  BY FormRules
<1>2. ASSUME NEW i
      PROVE  ElementErrors(i) = {} <=>
                 (i \in DOMAIN form.list => /\ "distinct" \in Range(form.each.rules) => ~again(i)
                                            /\ \A r \in Range(form.each.rules) : Holds(r, form.list[i]))
  <2>1. failing(i) \subseteq Range(form.each.rules)
    OBVIOUS
  <2>2. Reported(form.each, failing(i)) = {} <=> failing(i) = {}
    <3> HIDE DEF failing
    <3> QED BY <1>1, <2>1, OneIsFirst
  <2> QED BY <2>2 DEF ElementErrors
<1>3. "distinct" \in Range(form.each.rules) <=> Contains(form.each.rules, "distinct")
  BY <1>1 DEF Ruling, Ruleset, Range, Contains
<1>4. (\A i \in DOMAIN form.list : ~again(i)) <=> IsInjective(form.list)
  <2>1. DOMAIN form.list \subseteq Nat /\ DOMAIN form.list = 1..Len(form.list) /\ Len(form.list) \in Nat
    BY <1>1
  <2>2. ASSUME \A i \in DOMAIN form.list : ~again(i), NEW i \in DOMAIN form.list, NEW j \in DOMAIN form.list,
               form.list[i] = form.list[j], i # j
        PROVE  FALSE
    <3>1. CASE i < j
      <4>1. i \in 1..(j - 1)
        BY <2>1, <3>1
      <4> QED BY <2>2, <4>1
    <3>2. CASE j < i
      <4>1. j \in 1..(i - 1)
        BY <2>1, <3>2
      <4> QED BY <2>2, <4>1
    <3> QED BY <2>1, <2>2, <3>1, <3>2
  <2>3. ASSUME IsInjective(form.list), NEW i \in DOMAIN form.list, again(i) PROVE FALSE
    <3>1. PICK j \in 1..(i - 1) : form.list[j] = form.list[i]
      BY <2>3
    <3>2. j \in DOMAIN form.list /\ j # i
      BY <2>1, <3>1
    <3> QED BY <2>3, <3>1, <3>2 DEF IsInjective
  <2> QED BY <2>2, <2>3 DEF IsInjective
<1> HIDE DEF failing, again
<1>5. ASSUME \A i \in Elements : ElementErrors(i) = {} PROVE ListHolds
  <2>1. \A i \in DOMAIN form.list :
            /\ "distinct" \in Range(form.each.rules) => ~again(i)
            /\ \A r \in Range(form.each.rules) : Holds(r, form.list[i])
    BY <1>1, <1>2, <1>5
  <2> QED BY <1>3, <1>4, <2>1 DEF ListHolds
<1>6. ASSUME ListHolds PROVE \A i \in Elements : ElementErrors(i) = {}
  <2>1. \A i \in DOMAIN form.list :
            /\ "distinct" \in Range(form.each.rules) => ~again(i)
            /\ \A r \in Range(form.each.rules) : Holds(r, form.list[i])
    BY <1>3, <1>4, <1>6 DEF ListHolds
  <2> QED BY <1>2, <2>1
<1> QED BY <1>5, <1>6

\* An error of a sweep is a rule that does not hold; without one, all that were not deferred do,
\* and what is to be excluded is.
LEMMA SweepJudges ==
  ASSUME form \in Form, NEW d, NEW e, e = Swept(d).errors, NEW x, x = Swept(d).excluded
  PROVE  /\ DOMAIN e = ErrorKeys
         /\ \A f \in Fields : \A r \in e[f] : r \in Judged(f) \ d /\ ~Holds(r, form.input[f])
         /\ (\E k \in ErrorKeys \ Fields : e[k] # {}) => ~ListHolds \/ form.hook
         /\ ~Failed(e) => /\ \A f \in Fields : \A r \in Judged(f) \ d : Holds(r, form.input[f])
                          /\ ListHolds /\ ~form.hook
                          /\ x = {f \in Fields : form.excludes /\ "exclude" \in Judged(f)}
         /\ \A f \in Fields : Flagged(f, "bail") => \A r, q \in e[f] : r = q
         /\ form.stop => ~(e[1] # {} /\ e[2] # {})
<1>1. /\ DOMAIN e = ErrorKeys
      /\ e[1] = FieldErrors(1, d)
      /\ e[2] = IF form.stop /\ FieldErrors(1, d) # {} THEN {} ELSE FieldErrors(2, d)
      /\ \A i \in Elements : e[ElementKey(i)] =
            IF form.stop /\ (FieldErrors(1, d) # {} \/ FieldErrors(2, d) # {}) THEN {} ELSE ElementErrors(i)
      /\ e[HookKey] = IF form.hook THEN {"hook"} ELSE {}
      /\ x = {f \in Fields : Excludes(f, d) /\ (f = 2 /\ form.stop => FieldErrors(1, d) = {})}
  BY SweepFinds
<1>2. Fields = {1, 2} /\ (\A k \in ErrorKeys \ Fields : k = HookKey \/ \E i \in Elements : k = ElementKey(i))
      /\ (\A i \in Elements : ElementKey(i) \in ErrorKeys) /\ HookKey \in ErrorKeys /\ Fields \subseteq ErrorKeys
  BY KeysAre
<1>3. \A f \in Fields :
         /\ \A r \in FieldErrors(f, d) : r \in Judged(f) \ d /\ ~Holds(r, form.input[f])
         /\ FieldErrors(f, d) = {} => \A r \in Judged(f) \ d : Holds(r, form.input[f])
         /\ Flagged(f, "bail") => \A r, q \in FieldErrors(f, d) : r = q
  BY FieldFinds
<1>4. (\A i \in Elements : ElementErrors(i) = {}) <=> ListHolds
  BY ElementsFind
<1>5. \A f \in Fields : \A r \in e[f] : r \in Judged(f) \ d /\ ~Holds(r, form.input[f])
  BY <1>1, <1>2, <1>3
<1>6. (\E k \in ErrorKeys \ Fields : e[k] # {}) => ~ListHolds \/ form.hook
  BY <1>1, <1>2, <1>4
<1>7. \A f \in Fields : Flagged(f, "bail") => \A r, q \in e[f] : r = q
  BY <1>1, <1>2, <1>3
<1>8. form.stop => ~(e[1] # {} /\ e[2] # {})
  BY <1>1
<1>9. ASSUME ~Failed(e)
      PROVE  /\ \A f \in Fields : \A r \in Judged(f) \ d : Holds(r, form.input[f])
             /\ ListHolds /\ ~form.hook
             /\ x = {f \in Fields : form.excludes /\ "exclude" \in Judged(f)}
  <2>1. \A k \in ErrorKeys : e[k] = {}
    BY <1>9 DEF Failed
  <2>2. e[1] = {} /\ e[2] = {} /\ e[HookKey] = {} /\ \A i \in Elements : e[ElementKey(i)] = {}
    BY <1>2, <2>1
  <2>3. FieldErrors(1, d) = {} /\ FieldErrors(2, d) = {}
    BY <1>1, <2>2
  <2>4. \A f \in Fields : FieldErrors(f, d) = {}
    BY <1>2, <2>3
  <2>5. ListHolds /\ ~form.hook
    BY <1>1, <1>4, <2>2, <2>3, FormRules
  <2>6. \A f \in Fields : Excludes(f, d) <=> form.excludes /\ "exclude" \in Judged(f)
    BY <2>4 DEF Excludes, Judged
  <2>7. x = {f \in Fields : form.excludes /\ "exclude" \in Judged(f)}
    BY <1>1, <2>3, <2>6
  <2> QED BY <1>3, <2>4, <2>5, <2>7
<1> QED BY <1>1, <1>5, <1>6, <1>7, <1>8, <1>9

Deferred == IF pass.async THEN {"custom"} ELSE {}
Found(f) == Swept(Deferred).errors[f]

\* A rule that was awaited and may have failed when it was its turn.
FailsAwaited(f, r) ==
    /\ r \in {"custom", "unique"} /\ r \in Judged(f)
    /\ r = "custom" => ~Holds(r, form.input[f])
    /\ r = "unique" => form.input[f] = "good" /\ FALSE \in held[f]

\* What of a pass is done: the sweep; of the awaited rules those up to where it is.
Judging ==
    /\ excluded = Swept(Deferred).excluded
    /\ DOMAIN errors = ErrorKeys /\ \A k \in ErrorKeys \ Fields : errors[k] = Found(k)
    /\ \A f \in Fields : Found(f) \subseteq errors[f]
    /\ ~pass.async => \A f \in Fields : errors[f] = Found(f)
    /\ pass.async => \A f \in Fields :
          /\ \A r \in errors[f] \ Found(f) : FailsAwaited(f, r)
          /\ (~taken) \in held[f]
          /\ \A r \in {"custom", "unique"} \cap Judged(f) :
                pass.at = "ran" \/ f < pass.field \/ (f = pass.field /\ r \in pass.met) =>
                    errors[f] # {} \/ MayHold(f, r)
    /\ \A f \in Fields : Flagged(f, "bail") => \A r, q \in errors[f] : r = q

FormsInv ==
    /\ FormShapes /\ (pass.at = "awaiting" => pass.async) /\ (pass.at # "idle" => Judging)

\* What is not, of two.
LEMMA Opposite ==
  ASSUME NEW t \in BOOLEAN, NEW h, (~t) \in h
  PROVE  (t => FALSE \in h) /\ (~t => TRUE \in h)
<1>1. CASE t = TRUE
  <2>1. (~t) = FALSE
    BY <1>1
  <2>2. FALSE \in h
    BY <2>1
  <2> QED BY <1>1, <2>2
<1>2. CASE t = FALSE
  <2>1. (~t) = TRUE
    BY <1>2
  <2>2. TRUE \in h
    BY <2>1
  <2> QED BY <1>2, <2>2
<1> QED BY <1>1, <1>2

\* No pass has run at the start.
LEMMA FormsBegin == FormsInit => FormsInv
<1> SUFFICES ASSUME FormsInit PROVE FormsInv
  OBVIOUS
<1>1. 0 \in 0..MaxPasses /\ FALSE \in BOOLEAN /\ {} \in SUBSET Rules /\ 1 \in 1..3
  BY ValidationAssumption
<1>2. pass = [at |-> "idle", async |-> FALSE, field |-> 1, met |-> {}, count |-> 0]
  BY DEF FormsInit
<1>3. pass \in Pass
  BY <1>1, <1>2 DEF Pass
<1>4. pass.at = "idle"
  BY <1>2
<1> QED BY <1>3, <1>4 DEF FormsInit, FormsInv, FormShapes

\* What a sweep finds is read off the form.
LEMMA FormStays ==
  ASSUME form' = form
  PROVE  /\ \A f, g : Flagged(f, g)' = Flagged(f, g)
         /\ \A f : Judged(f)' = Judged(f)
         /\ \A d : Swept(d)' = Swept(d)
<1>1. \A f, g : Flagged(f, g)' = Flagged(f, g)
  BY DEF Flagged
<1>2. \A f : IsNull(f)' = IsNull(f)
  BY DEF IsNull
<1>3. \A f : Skipped(f)' = Skipped(f)
  BY <1>1 DEF Skipped
<1>4. \A f : Applicable(f)' = Applicable(f)
  BY <1>1, <1>2 DEF Applicable
<1>5. \A f, d : FieldErrors(f, d)' = FieldErrors(f, d)
  BY <1>3, <1>4 DEF FieldErrors
<1>6. \A f, d : Excludes(f, d)' = Excludes(f, d)
  BY <1>1, <1>3, <1>4, <1>5 DEF Excludes
<1>7. \A i : ElementErrors(i)' = ElementErrors(i)
  BY DEF ElementErrors
<1>8. \A f : Judged(f)' = Judged(f)
  BY <1>3, <1>4 DEF Judged
<1>9. \A d : Swept(d)' = Swept(d)
  <2> SUFFICES ASSUME NEW d PROVE Swept(d)' = Swept(d)
    OBVIOUS
  <2>1. Swept(d)'.errors = Swept(d).errors
    BY <1>5, <1>7 DEF Swept
  <2>2. Swept(d)'.excluded = Swept(d).excluded
    BY <1>5, <1>6 DEF Swept
  <2> QED BY <2>1, <2>2 DEF Swept
<1> QED BY <1>1, <1>8, <1>9

\* A pass begins with a sweep, and what it has found is all that is done.
LEMMA SweepJudged ==
  ASSUME FormShapes, NEW d, Sweep(d), pass'.at # "idle", FormShapes',
         d = Deferred', pass'.async => pass'.at = "awaiting" /\ pass'.field = 1 /\ pass'.met = {},
         pass'.async => \A f \in Fields : (~taken) \in held'[f]
  PROVE  Judging'
<1>0. form \in Form /\ form' = form /\ taken' = taken /\ Swept(d)' = Swept(d)
  BY FormStays DEF FormShapes, Sweep
<1>1. errors' = Swept(d).errors /\ excluded' = Swept(d).excluded
  BY DEF Sweep
<1>2. /\ DOMAIN errors' = ErrorKeys
      /\ \A f \in Fields : Flagged(f, "bail") => \A r, q \in errors'[f] : r = q
  BY <1>0, <1>1, SweepJudges
<1>3. Swept(Deferred)' = Swept(d)
  BY <1>0
<1>4. \A k : Found(k)' = errors'[k]
  BY <1>1, <1>3 DEF Found
<1>5. pass'.async => \A f \in Fields : ~(f < pass'.field)
  BY DEF Fields
<1>6. \A f \in Fields : Flagged(f, "bail")' = Flagged(f, "bail")
  BY <1>0 DEF Flagged
<1> QED BY <1>0, <1>1, <1>2, <1>3, <1>4, <1>5, <1>6 DEF Judging

\* A pass, as its rules are awaited one by one and the row changes (validation/).
LEMMA FormsNext == FormsInv /\ [FormStep]_formVars => FormsInv'
<1> SUFFICES ASSUME FormsInv, [FormStep]_formVars PROVE FormsInv'
  OBVIOUS
<1> USE ValidationAssumption
<1>s. FormShapes
  BY DEF FormsInv
<1>1. CASE Passes
  <2>1. pass' = [pass EXCEPT !.at = "ran", !.async = FALSE, !.count = pass.count + 1]
        /\ held' = [f \in Fields |-> {}] /\ form' = form /\ taken' = taken
    BY <1>1 DEF Passes, Sweep
  <2>2. FormShapes' /\ pass'.at = "ran" /\ ~pass'.async
    <3>1. pass \in Pass /\ pass.count < MaxPasses
      BY <1>1, <1>s DEF FormShapes, Passes
    <3>2. pass.count + 1 \in 0..MaxPasses
      BY <3>1 DEF Pass
    <3>3. pass' \in Pass
      BY <2>1, <3>1, <3>2 DEF Pass
    <3>4. pass'.at = "ran"
      BY <2>1, <3>1 DEF Pass
    <3>5. pass'.async = FALSE
      BY <2>1, <3>1 DEF Pass
    <3> QED BY <1>s, <2>1, <3>3, <3>4, <3>5 DEF FormShapes
  <2>3. Sweep({}) /\ Deferred' = {}
    BY <1>1, <2>2 DEF Passes, Deferred
  <2>4. Judging'
    BY <1>s, <2>2, <2>3, SweepJudged
  <2> QED BY <2>2, <2>4 DEF FormsInv
<1>2. CASE PassesAsync
  <2>1. pass' = [at |-> "awaiting", async |-> TRUE, field |-> 1, met |-> {}, count |-> pass.count + 1]
        /\ held' = [f \in Fields |-> {~taken}] /\ form' = form /\ taken' = taken
    BY <1>2 DEF PassesAsync, Sweep
  <2>2. FormShapes' /\ pass'.at = "awaiting" /\ pass'.async /\ pass'.field = 1 /\ pass'.met = {}
    <3>1. pass \in Pass /\ pass.count < MaxPasses
      BY <1>2, <1>s DEF FormShapes, PassesAsync
    <3>2. pass.count + 1 \in 0..MaxPasses /\ TRUE \in BOOLEAN /\ {} \in SUBSET Rules /\ 1 \in 1..3
      BY <3>1 DEF Pass
    <3>3. pass' \in Pass
      BY <2>1, <3>2 DEF Pass
    <3>4. pass'.at = "awaiting" /\ pass'.field = 1 /\ pass'.met = {}
      BY <2>1
    <3>5. pass'.async = TRUE
      BY <2>1
    <3> QED BY <1>s, <2>1, <3>3, <3>4, <3>5 DEF FormShapes
  <2>3. Sweep({"custom"}) /\ Deferred' = {"custom"}
    BY <1>2, <2>2 DEF PassesAsync, Deferred
  <2>4. \A f \in Fields : (~taken) \in held'[f]
    BY <2>1
  <2>5. Judging'
    BY <1>s, <2>2, <2>3, <2>4, SweepJudged
  <2> QED BY <2>2, <2>5 DEF FormsInv
<1>3. ASSUME NEW r \in Rules, AwaitRule(r) PROVE FormsInv'
  <2>a. Judging /\ pass.async /\ pass.at = "awaiting" /\ pass.field \in Fields
    BY <1>3 DEF AwaitRule, FormsInv
  <2>0. PICK g \in Fields : g = pass.field
    BY <2>a
  <2> DEFINE agreed == \/ r = "unique" /\ ~(taken /\ form.input[g] = "good")
                       \/ r = "custom" /\ Holds(r, form.input[g])
  <2>1. /\ ~LeftOut(g) /\ r \in {"custom", "unique"} /\ r \in Range(form.rules[g].rules)
        /\ pass' = [pass EXCEPT !.met = pass.met \cup {r}]
        /\ UNCHANGED <<form, taken, excluded, held>>
        /\ agreed => errors' = errors
        /\ ~agreed => errors' = [errors EXCEPT ![g] = errors[g] \cup {r}]
    <3>1. ~LeftOut(g) /\ r \in ToAwait(g) /\ UNCHANGED <<form, taken, excluded, held>>
          /\ pass' = [pass EXCEPT !.met = pass.met \cup {r}]
      BY <1>3, <2>0 DEF AwaitRule
    <3>2. agreed => errors' = errors
      BY <1>3, <2>0 DEF AwaitRule
    <3>3. ~agreed => errors' = [errors EXCEPT ![g] = errors[g] \cup {r}]
      BY <1>3, <2>0 DEF AwaitRule
    <3> QED BY <3>1, <3>2, <3>3 DEF ToAwait
  <2>2. /\ pass'.at = "awaiting" /\ pass'.async /\ pass'.field = g /\ pass'.met = pass.met \cup {r}
        /\ FormShapes'
    BY <1>s, <2>0, <2>1, <2>a DEF FormShapes, Pass
  <2>3. /\ Swept(Deferred)' = Swept(Deferred) /\ Deferred' = Deferred
        /\ (\A f \in Fields : Judged(f)' = Judged(f)) /\ (\A k : Found(k)' = Found(k))
        /\ (\A f : Flagged(f, "bail")' = Flagged(f, "bail"))
        /\ \A f, q : MayHold(f, q)' = MayHold(f, q) /\ FailsAwaited(f, q)' = FailsAwaited(f, q)
    <3>1. Deferred' = Deferred
      BY <2>2, <2>a DEF Deferred
    <3>2. /\ Swept(Deferred)' = Swept(Deferred)
          /\ \A f : Judged(f)' = Judged(f) /\ Flagged(f, "bail")' = Flagged(f, "bail")
      BY <2>1, <3>1, FormStays
    <3>3. \A k : Found(k)' = Found(k)
      BY <3>2 DEF Found
    <3>4. \A f, q : MayHold(f, q)' = MayHold(f, q)
      BY <2>1, <2>2, <2>a DEF MayHold
    <3>5. \A f, q : FailsAwaited(f, q)' = FailsAwaited(f, q)
      BY <2>1, <3>2 DEF FailsAwaited
    <3> QED BY <3>1, <3>2, <3>3, <3>4, <3>5
  <2>4. r \in Judged(g)
    BY <2>1 DEF LeftOut, Judged, Applicable
  <2>5. CASE agreed
    <3>1. errors' = errors
      BY <2>1, <2>5
    <3>2. MayHold(g, r)
      <4>1. r = "unique" => Holds(r, form.input[g])
        BY DEF Holds
      <4>2. (~taken) \in held[g]
        BY <2>a DEF Judging
      <4>3. taken \in BOOLEAN
        BY <1>s DEF FormShapes
      <4>4. CASE r = "unique" /\ form.input[g] = "good"
        <5>1. ~taken
          BY <2>5, <4>4
        <5>2. TRUE \in held[g]
          BY <4>2, <4>3, <5>1, Opposite
        <5> QED BY <2>a, <4>1, <4>4, <5>2 DEF MayHold
      <4>5. CASE ~(r = "unique" /\ form.input[g] = "good")
        BY <2>5, <4>1, <4>5 DEF MayHold
      <4> QED BY <4>4, <4>5
    <3>3. ASSUME NEW f \in Fields, NEW q \in {"custom", "unique"} \cap Judged(f),
                 f < pass'.field \/ (f = pass'.field /\ q \in pass'.met)
          PROVE  errors'[f] # {} \/ MayHold(f, q)'
      BY <2>0, <2>2, <2>3, <2>a, <3>1, <3>2, <3>3 DEF Judging
    <3>4. Judging'
      BY <2>1, <2>2, <2>3, <2>a, <3>1, <3>3 DEF Judging
    <3> QED BY <2>2, <3>4 DEF FormsInv
  <2>6. CASE ~agreed
    <3>1. errors' = [errors EXCEPT ![g] = errors[g] \cup {r}]
      BY <2>1, <2>6
    <3>2. g \in ErrorKeys /\ DOMAIN errors = ErrorKeys /\ DOMAIN errors' = ErrorKeys
      BY <2>a, <3>1, KeysAre DEF Judging
    <3>3. errors'[g] = errors[g] \cup {r} /\ \A k \in ErrorKeys : k # g => errors'[k] = errors[k]
      BY <3>1, <3>2
    <3>4. FailsAwaited(g, r)
      <4>1. r = "unique" => taken /\ form.input[g] = "good"
        BY <2>6
      <4>2. (~taken) \in held[g]
        BY <2>a DEF Judging
      <4>3. taken \in BOOLEAN
        BY <1>s DEF FormShapes
      <4>4. ASSUME r = "unique" PROVE FALSE \in held[g]
        BY <4>1, <4>2, <4>3, <4>4, Opposite
      <4> QED BY <2>1, <2>4, <2>6, <4>1, <4>4 DEF FailsAwaited
    <3>5. Flagged(g, "bail") => errors[g] = {}
      BY <2>1 DEF LeftOut
    <3>6. /\ \A k \in ErrorKeys \ Fields : errors'[k] = Found(k)'
          /\ \A f \in Fields : Found(f)' \subseteq errors'[f]
          /\ \A f \in Fields : \A q \in errors'[f] \ Found(f)' : FailsAwaited(f, q)'
          /\ \A f \in Fields : Flagged(f, "bail")' => \A p, q \in errors'[f] : p = q
      <4>1. \A f \in Fields : f \in ErrorKeys
        BY KeysAre
      <4>2. \A k \in ErrorKeys \ Fields : errors'[k] = Found(k)'
        BY <2>3, <2>a, <3>3 DEF Judging
      <4>3. ASSUME NEW f \in Fields
            PROVE  /\ Found(f)' \subseteq errors'[f]
                   /\ \A q \in errors'[f] \ Found(f)' : FailsAwaited(f, q)'
                   /\ Flagged(f, "bail")' => \A p, q \in errors'[f] : p = q
        <5>1. CASE f = g
          BY <2>3, <2>a, <3>3, <3>4, <3>5, <5>1 DEF Judging
        <5>2. CASE f # g
          BY <2>3, <2>a, <3>3, <4>1, <5>2 DEF Judging
        <5> QED BY <5>1, <5>2
      <4> QED BY <4>2, <4>3
    <3>7. ASSUME NEW f \in Fields, NEW q \in {"custom", "unique"} \cap Judged(f),
                 f < pass'.field \/ (f = pass'.field /\ q \in pass'.met)
          PROVE  errors'[f] # {} \/ MayHold(f, q)'
      <4>1. CASE f = g
        BY <3>3, <4>1
      <4>2. CASE f # g
        <5>1. f < pass.field /\ errors'[f] = errors[f]
          BY <2>0, <2>2, <3>3, <3>7, <4>2, KeysAre
        <5> QED BY <2>3, <2>a, <5>1 DEF Judging
      <4> QED BY <4>1, <4>2
    <3>8. Judging'
      BY <2>1, <2>2, <2>3, <2>a, <3>2, <3>6, <3>7 DEF Judging
    <3> QED BY <2>2, <3>8 DEF FormsInv
  <2> QED BY <2>5, <2>6
<1>4. ASSUME form' = form, pass'.async = pass.async
      PROVE  /\ Swept(Deferred)' = Swept(Deferred) /\ \A f \in Fields : Judged(f)' = Judged(f)
             /\ (\A k : Found(k)' = Found(k)) /\ (\A f : Flagged(f, "bail")' = Flagged(f, "bail"))
             /\ \A f \in Fields : held[f] \subseteq held'[f] =>
                   \A q : (MayHold(f, q) => MayHold(f, q)') /\ (FailsAwaited(f, q) => FailsAwaited(f, q)')
  <2>1. Swept(Deferred)' = Swept(Deferred) /\ \A f : Judged(f)' = Judged(f)
    BY <1>4 DEF Deferred, Swept, FieldErrors, Excludes, ElementErrors, Applicable, Skipped, Flagged, IsNull, Judged
  <2>2. (\A k : Found(k)' = Found(k)) /\ \A f : Flagged(f, "bail")' = Flagged(f, "bail")
    BY <1>4, <2>1 DEF Found, Flagged
  <2>3. ASSUME NEW f \in Fields, held[f] \subseteq held'[f], NEW q, MayHold(f, q) PROVE MayHold(f, q)'
    BY <1>4, <2>3 DEF MayHold
  <2>4. ASSUME NEW f \in Fields, held[f] \subseteq held'[f], NEW q, FailsAwaited(f, q) PROVE FailsAwaited(f, q)'
    BY <1>4, <2>1, <2>4 DEF FailsAwaited
  <2> QED BY <2>1, <2>2, <2>3, <2>4
<1>5. CASE NextField
  <2>a. Judging /\ pass.async /\ pass.at = "awaiting" /\ pass.field \in Fields
    BY <1>5 DEF NextField, FormsInv
  <2>0. PICK g \in Fields : g = pass.field
    BY <2>a
  <2>1. /\ pass' = [pass EXCEPT !.field = g + 1, !.met = {}]
        /\ UNCHANGED <<form, taken, errors, excluded, held>>
        /\ LeftOut(g) \/ ToAwait(g) = {}
    BY <1>5, <2>0 DEF NextField
  <2>2. /\ pass'.at = "awaiting" /\ pass'.async = pass.async /\ pass'.field = g + 1 /\ pass'.met = {}
        /\ FormShapes' /\ g \in Int
    <3>1. pass \in Pass
      BY <1>s DEF FormShapes
    <3>2. g + 1 \in 1..3 /\ g \in Int /\ {} \in SUBSET Rules
      BY DEF Fields
    <3>3. pass' \in Pass
      BY <2>1, <3>1, <3>2 DEF Pass
    <3>4. pass'.at = pass.at /\ pass'.field = g + 1 /\ pass'.met = {}
      BY <2>1, <3>1 DEF Pass
    <3>5. pass'.async = pass.async
      BY <2>1, <3>1 DEF Pass
    <3> QED BY <1>s, <2>1, <2>a, <3>2, <3>3, <3>4, <3>5 DEF FormShapes
  <2>3. \A q \in {"custom", "unique"} \cap Judged(g) : errors[g] # {} \/ MayHold(g, q)
    <3>1. CASE LeftOut(g)
      BY <3>1 DEF LeftOut, Judged, Applicable
    <3>2. CASE ToAwait(g) = {}
      <4>1. \A q \in {"custom", "unique"} \cap Judged(g) : q \in pass.met
        BY <3>2 DEF ToAwait, Judged, Applicable
      <4> QED BY <2>0, <2>a, <4>1 DEF Judging
    <3> QED BY <2>1, <3>1, <3>2
  <2>4. ASSUME NEW f \in Fields, NEW q \in {"custom", "unique"} \cap Judged(f),
               f < pass'.field \/ (f = pass'.field /\ q \in pass'.met)
        PROVE  errors[f] # {} \/ MayHold(f, q)
    <3>1. f = g \/ f < pass.field
      BY <2>0, <2>2, <2>4 DEF Fields
    <3> QED BY <2>3, <2>a, <3>1 DEF Judging
  <2>5. Judging'
    BY <1>4, <2>1, <2>2, <2>4, <2>a DEF Judging
  <2> QED BY <2>2, <2>5, <2>a DEF FormsInv
<1>6. CASE PassEnds
  <2>a. Judging /\ pass.async /\ pass.at = "awaiting" /\ pass.field \notin Fields
    BY <1>6 DEF PassEnds, FormsInv
  <2>1. /\ pass' = [pass EXCEPT !.at = "ran", !.field = 1]
        /\ UNCHANGED <<form, taken, errors, excluded, held>>
    BY <1>6 DEF PassEnds
  <2>2. /\ pass'.at = "ran" /\ pass'.async = pass.async /\ FormShapes'
        /\ \A f \in Fields : f < pass.field
    <3>1. pass \in Pass
      BY <1>s DEF FormShapes
    <3>2. pass.field = 3 /\ 1 \in 1..3
      BY <2>a, <3>1 DEF Fields, Pass
    <3>3. pass' \in Pass
      BY <2>1, <3>1, <3>2 DEF Pass
    <3>4. pass'.at = "ran"
      BY <2>1, <3>1 DEF Pass
    <3>5. pass'.async = pass.async
      BY <2>1, <3>1 DEF Pass
    <3> QED BY <1>s, <2>1, <3>2, <3>3, <3>4, <3>5 DEF FormShapes, Fields
  <2>3. Judging'
    BY <1>4, <2>1, <2>2, <2>a DEF Judging
  <2> QED BY <2>2, <2>3 DEF FormsInv
<1>7. CASE RowChanges
  <2>a. Judging /\ pass.async /\ pass.at = "awaiting"
    BY <1>7 DEF RowChanges, FormsInv
  <2>1. /\ taken' = ~taken /\ held' = [f \in Fields |-> held[f] \cup {taken}]
        /\ UNCHANGED <<form, pass, errors, excluded>>
    BY <1>7 DEF RowChanges
  <2>2. /\ FormShapes'
        /\ \A f \in Fields : held[f] \subseteq held'[f] /\ taken \in held'[f]
    <3>1. \A f \in Fields : held[f] \subseteq held'[f] /\ taken \in held'[f]
      BY <2>1
    <3>2. taken' \in BOOLEAN /\ held' \in [Fields -> SUBSET BOOLEAN]
      BY <1>s, <2>1 DEF FormShapes
    <3> QED BY <1>s, <2>1, <3>1, <3>2 DEF FormShapes
  <2>3. \A f \in Fields : (~taken') \in held'[f]
    <3>1. CASE taken = TRUE
      <4>1. (~taken') = taken
        BY <2>1, <3>1
      <4> QED BY <2>2, <4>1
    <3>2. CASE taken = FALSE
      <4>1. (~taken') = taken
        BY <2>1, <3>2
      <4> QED BY <2>2, <4>1
    <3> QED BY <1>s, <3>1, <3>2 DEF FormShapes
  <2>4. (\A f \in Fields : Judged(f)' = Judged(f)) /\ (\A k : Found(k)' = Found(k))
        /\ (\A f : Flagged(f, "bail")' = Flagged(f, "bail")) /\ Swept(Deferred)' = Swept(Deferred)
        /\ \A f \in Fields : \A q :
              (MayHold(f, q) => MayHold(f, q)') /\ (FailsAwaited(f, q) => FailsAwaited(f, q)')
    BY <1>4, <2>1, <2>2
  <2>5. Judging'
    BY <2>1, <2>3, <2>4, <2>a DEF Judging
  <2> QED BY <2>1, <2>2, <2>5, <2>a DEF FormsInv
<1>8. CASE UNCHANGED formVars
  <2>1. UNCHANGED <<form, taken, pass, errors, excluded, held>>
    BY <1>8 DEF formVars
  <2>2. FormShapes'
    BY <1>s, <2>1 DEF FormShapes
  <2>3. Judging => Judging'
    BY <1>4, <2>1 DEF Judging
  <2> QED BY <2>1, <2>2, <2>3 DEF FormsInv
<1> QED BY <1>1, <1>2, <1>3, <1>5, <1>6, <1>7, <1>8 DEF FormStep

\* What a verdict promises follows.
LEMMA FormsSafe == FormsInv => FormsRight
<1> SUFFICES ASSUME FormsInv, pass.at = "ran" PROVE FormsRight
  BY DEF FormsRight, Verdict, OneFailure, ValidatedHolds
<1>1. FormShapes /\ Judging /\ form \in Form
  BY DEF FormsInv, FormShapes
<1>2. PICK e : e = Swept(Deferred).errors
  OBVIOUS
<1>3. /\ DOMAIN e = ErrorKeys
      /\ \A f \in Fields : \A r \in e[f] : r \in Judged(f) \ Deferred /\ ~Holds(r, form.input[f])
      /\ (\E k \in ErrorKeys \ Fields : e[k] # {}) => ~ListHolds \/ form.hook
      /\ ~Failed(e) => /\ \A f \in Fields : \A r \in Judged(f) \ Deferred : Holds(r, form.input[f])
                       /\ ListHolds /\ ~form.hook
                       /\ excluded = {f \in Fields : form.excludes /\ "exclude" \in Judged(f)}
      /\ form.stop => ~(e[1] # {} /\ e[2] # {})
  BY <1>1, <1>2, SweepJudges DEF Judging
<1>4. /\ \A k \in ErrorKeys \ Fields : errors[k] = e[k]
      /\ \A f \in Fields : e[f] \subseteq errors[f]
      /\ ~pass.async => \A f \in Fields : errors[f] = e[f]
      /\ pass.async => \A f \in Fields : \A r \in errors[f] \ e[f] : FailsAwaited(f, r)
  BY <1>1, <1>2 DEF Judging, Found
<1>5. \A v : Holds("unique", v)
  BY DEF Holds
<1>6. Fields = {1, 2} /\ Fields \subseteq ErrorKeys
  BY KeysAre
<1>7. ASSUME ~Failed(errors)
      PROVE  /\ \A f \in Fields : \A r \in Judged(f) : MayHold(f, r)
             /\ ListHolds /\ ~form.hook /\ excluded = {f \in Fields : form.excludes /\ "exclude" \in Judged(f)}
  <2>1. \A k \in ErrorKeys : errors[k] = {}
    BY <1>7 DEF Failed
  <2>2. ~Failed(e)
    BY <1>4, <1>6, <2>1 DEF Failed
  <2>3. ASSUME NEW f \in Fields, NEW r \in Judged(f) PROVE MayHold(f, r)
    <3>1. CASE pass.async /\ r \in {"custom", "unique"}
      BY <1>1, <1>6, <2>1, <3>1 DEF Judging
    <3>2. CASE ~(pass.async /\ r \in {"custom", "unique"})
      <4>1. r \notin Deferred
        BY <3>2 DEF Deferred
      <4> QED BY <1>3, <2>2, <3>2, <4>1 DEF MayHold
    <3> QED BY <3>1, <3>2
  <2> QED BY <1>3, <2>2, <2>3
<1>8. ASSUME Failed(errors)
      PROVE  (\E f \in Fields : \E r \in Judged(f) : ~MustHold(f, r)) \/ ~ListHolds \/ form.hook
  <2>1. PICK k \in ErrorKeys : errors[k] # {}
    BY <1>8 DEF Failed
  <2>2. CASE k \notin Fields
    BY <1>3, <1>4, <2>1, <2>2
  <2>3. CASE k \in Fields
    <3>1. PICK r \in errors[k] : TRUE
      BY <2>1
    <3>2. CASE r \in e[k]
      <4>1. r \in Judged(k) /\ ~Holds(r, form.input[k]) /\ r # "unique"
        BY <1>3, <1>5, <2>3, <3>2
      <4> QED BY <2>3, <4>1 DEF MustHold
    <3>3. CASE r \notin e[k]
      <4>1. FailsAwaited(k, r) /\ pass.async
        BY <1>4, <2>3, <3>1, <3>3
      <4> QED BY <2>3, <4>1 DEF FailsAwaited, MustHold
    <3> QED BY <3>2, <3>3
  <2> QED BY <2>2, <2>3
<1>9. Verdict
  BY <1>7, <1>8 DEF Verdict
<1>10. OneFailure
  BY <1>1, <1>3, <1>4, <1>6 DEF OneFailure, Judging
<1>11. ValidatedHolds
  BY <1>7 DEF ValidatedHolds, Validated
<1> QED BY <1>9, <1>10, <1>11 DEF FormsRight

-----------------------------------------------------------------------------
(* All of them *)

\* A step of the application is one of each of these parts, or none of it.
LEMMA ServicesStep ==
  [Next]_vars =>
    /\ [LifeStep]_lifeVars /\ [ContainerStep]_containerVars
    /\ [PipelineStep]_pipelineVars /\ [FormStep]_formVars
<1>1. CASE Queries
  BY <1>1 DEF Queries
<1>2. CASE Lives
  BY <1>2 DEF Lives
<1>3. CASE Injects
  BY <1>3 DEF Injects
<1>4. CASE Handles
  BY <1>4 DEF Handles
<1>5. CASE Validates
  BY <1>5 DEF Validates
<1>6. CASE Serves \/ LogsIn \/ Flags \/ Attaches
  BY <1>6 DEF Serves, LogsIn, Flags, Attaches
<1>7. CASE Dispatches \/ Notifies \/ Relays \/ Consumes
  BY <1>7 DEF Dispatches, Notifies, Relays, Consumes
<1>8. CASE Admits \/ Works
  BY <1>8 DEF Admits, Works
<1>9. CASE UNCHANGED vars
  BY <1>9 DEF vars
<1> QED
  BY <1>1, <1>2, <1>3, <1>4, <1>5, <1>6, <1>7, <1>8, <1>9 DEF Next

ServicesInv == LifeInv /\ ContainerInv /\ PipelineInv /\ FormsInv

\* Whatever steps the parts take, each of these keeps its invariant: they share no state, and
\* within each the tasks, callers and requests that interleave keep it for one another.
THEOREM ServicesKeepTheirs == Spec => []ServicesInv
<1>1. Init => ServicesInv
  BY LifeBegins, ContainerBegins, PipelineBegins, FormsBegin DEF Init, ServicesInv
<1>2. ServicesInv /\ [Next]_vars => ServicesInv'
  BY ServicesStep, LifeNext, ContainerNext, PipelineNext, FormsNext DEF ServicesInv
<1> QED BY <1>1, <1>2, PTL DEF Spec

\* What the application gives and answers is right: resources are up while they are used and
\* released in the end whoever shuts down (kernel/), make returns what is registered and
\* shares what it is to share (container/), a request is answered by what let it through and
\* leaves no trace in its context (http/kernel.py), and a form is accepted if and only if the
\* rules that apply to it hold, while the rows they ask about change (validation/).
THEOREM ServicesAreRight == Spec => []ServicesRight
<1>1. ServicesInv => ServicesRight
  BY LifeSafe, ContainerSafe, PipelineSafe, FormsSafe DEF ServicesInv, ServicesRight
<1> QED BY <1>1, ServicesKeepTheirs, PTL
=============================================================================
