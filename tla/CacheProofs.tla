---------------------------- MODULE CacheProofs ----------------------------
(* Proofs about the cache store with all its uses in it (Cache): it keeps its *)
(* shape, and each use of it what it promises, whatever the others do.        *)
(* TypeInv holds of every use; the invariants of the uses stand on it.        *)
EXTENDS Cache, FiniteSetTheorems, TLAPS

USE DEF flexVars, tagVars, countVars, lockVars, runVars, clients

-----------------------------------------------------------------------------
(* The store *)

StoreOK ==
    /\ now \in 0..MaxTime
    /\ DOMAIN entries = Keys /\ \A k \in Keys : Present(k) => entries[k] \in Entry(k)

\* What the keys of each part hold, and that they are keys.
LEMMA KeysApart ==
  /\ Page \in Keys /\ Guard \in Keys /\ Limited \in Keys /\ Throttle \in Keys /\ Tagged \subseteq Keys
  /\ Page # Guard /\ Limited # Throttle
  /\ \A k \in {Page, Guard} : k \notin {Limited, Throttle}
  /\ \A k \in Tagged : k \notin {Page, Guard, Limited, Throttle}
  /\ Values(Page) = [read : 0..MaxTime, stamp : 0..MaxTime]
  /\ Values(Guard) = {"1", "value"} /\ Values(Limited) = Nat /\ Values(Throttle) = Nat
  /\ \A k \in Tagged : Values(k) = {"1", "value"}
<1>1. /\ Page \in Keys /\ Guard \in Keys /\ Limited \in Keys /\ Throttle \in Keys
      /\ Tagged \subseteq Keys /\ Page # Guard /\ Limited # Throttle
      /\ \A k \in {Page, Guard} : k \notin {Limited, Throttle}
      /\ \A k \in Tagged : k \notin {Page, Guard, Limited, Throttle}
  BY FlexibleAssumption, TaggedAssumption, CountersAssumption, KeysAssumption
<1> QED BY <1>1 DEF Values

LEMMA UntilType == StoreOK => \A ttl \in Nat \cup {Null} : Until(ttl) \in Nat \cup {Null}
  BY ClockAssumption DEF StoreOK, Until

LEMMA PutKeeps ==
  ASSUME StoreOK, NEW k \in Keys, NEW v \in Values(k), NEW ttl \in Nat \cup {Null},
         Put(k, v, ttl), UNCHANGED now
  PROVE  /\ StoreOK' /\ \A j \in Keys \ {k} : entries'[j] = entries[j]
         /\ entries'[k] = [value |-> v, expires |-> Until(ttl)] /\ Present(k)'
<1>1. Until(ttl) \in Nat \cup {Null}
  BY UntilType
<1>2. entries'[k] = [value |-> v, expires |-> Until(ttl)] /\ DOMAIN entries' = Keys
      /\ \A j \in Keys \ {k} : entries'[j] = entries[j]
  BY DEF Put, StoreOK
<1>3. entries'[k] \in Entry(k)
  BY <1>1, <1>2 DEF Entry
<1>4. entries'[k] # Null
  BY <1>3, KeysAssumption
<1> QED BY <1>2, <1>3, <1>4 DEF StoreOK, Present

LEMMA ForgetKeeps ==
  ASSUME StoreOK, NEW k \in Keys, Forget(k), UNCHANGED now
  PROVE  StoreOK' /\ ~Present(k)' /\ \A j \in Keys \ {k} : entries'[j] = entries[j]
  BY DEF Forget, StoreOK, Present

\* Counters are kept as numbers.
LEMMA CountType ==
  ASSUME StoreOK, NEW k \in {Limited, Throttle}
  PROVE  Count(k) \in Nat /\ (Present(k) => entries[k] \in [value : Nat, expires : Nat \cup {Null}])
  BY KeysApart DEF StoreOK, Count, Entry

LEMMA IncrementKeeps ==
  ASSUME StoreOK, NEW k \in {Limited, Throttle}, Increment(k), UNCHANGED now
  PROVE  /\ StoreOK' /\ \A j \in Keys \ {k} : entries'[j] = entries[j]
         /\ Present(k)' /\ entries'[k].value = Count(k) + 1
         /\ entries'[k].expires = IF Present(k) THEN entries[k].expires ELSE Null
<1>1. Count(k) \in Nat /\ (Present(k) => entries[k] \in [value : Nat, expires : Nat \cup {Null}])
  BY CountType
<1>2. k \in Keys /\ Entry(k) = [value : Nat, expires : Nat \cup {Null}]
  BY KeysApart DEF Entry
<1>3. /\ entries'[k] = [value |-> Count(k) + 1,
                        expires |-> IF Present(k) THEN entries[k].expires ELSE Null]
      /\ DOMAIN entries' = Keys /\ \A j \in Keys \ {k} : entries'[j] = entries[j]
  BY <1>2 DEF Increment, StoreOK
<1>4. entries'[k] \in Entry(k)
  BY <1>1, <1>2, <1>3
<1>5. entries'[k] # Null
  BY <1>2, <1>4, KeysAssumption
<1> QED BY <1>3, <1>4, <1>5 DEF StoreOK, Present

LEMMA ExpireKeeps ==
  ASSUME StoreOK, NEW k \in {Limited, Throttle}, NEW ttl \in Nat, Expire(k, ttl), UNCHANGED now
  PROVE  /\ StoreOK' /\ \A j \in Keys \ {k} : entries'[j] = entries[j]
         /\ Present(k) => Present(k)' /\ entries'[k].value = entries[k].value
                          /\ entries'[k].expires # Null
         /\ ~Present(k) => UNCHANGED entries
<1>1. CASE ~Present(k)
  BY <1>1 DEF Expire, StoreOK, Present
<1>2. CASE Present(k)
  <2>1. entries[k] \in [value : Nat, expires : Nat \cup {Null}]
    BY <1>2, CountType
  <2>2. k \in Keys /\ Entry(k) = [value : Nat, expires : Nat \cup {Null}]
    BY KeysApart DEF Entry
  <2>3. Until(ttl) \in Nat /\ Until(ttl) # Null
    BY ClockAssumption DEF StoreOK, Until
  <2>4. /\ entries'[k] = [entries[k] EXCEPT !.expires = Until(ttl)]
        /\ DOMAIN entries' = Keys /\ \A j \in Keys \ {k} : entries'[j] = entries[j]
    BY <1>2, <2>2 DEF Expire, StoreOK
  <2>5. /\ entries'[k] \in Entry(k) /\ entries'[k].value = entries[k].value
        /\ entries'[k].expires = Until(ttl)
    BY <2>1, <2>2, <2>3, <2>4
  <2>6. entries'[k] # Null
    BY <2>2, <2>5, KeysAssumption
  <2> QED BY <1>2, <2>3, <2>4, <2>5, <2>6 DEF StoreOK, Present
<1> QED BY <1>1, <1>2

\* What a step leaves of an entry is the entry, unless it is of its own part's keys.
Only(keys) == UNCHANGED now /\ \A j \in Keys \ keys : entries'[j] = entries[j]

LEMMA FlexStore == StoreOK /\ FlexTypeOK /\ FlexStep => StoreOK' /\ Only({Page, Guard})
<1> SUFFICES ASSUME StoreOK, FlexTypeOK, FlexStep PROVE StoreOK' /\ Only({Page, Guard})
  OBVIOUS
<1>k. Page \in Keys /\ Guard \in Keys /\ Values(Page) = [read : 0..MaxTime, stamp : 0..MaxTime]
      /\ "1" \in Values(Guard) /\ Stale \in Nat /\ GuardTTL \in Nat /\ now \in 0..MaxTime
  BY KeysApart, FlexibleAssumption DEF GuardTTL, StoreOK
<1>1. CASE UNCHANGED <<now, entries>>
  BY <1>1 DEF StoreOK, Present, Only
<1>2. ASSUME NEW c \in Callers, Store(c) PROVE StoreOK' /\ Only({Page, Guard})
  <2> DEFINE v == [read |-> caller[c].since, stamp |-> caller[c].since]
  <2>1. v \in Values(Page)
    BY <1>k DEF FlexTypeOK
  <2>2. Put(Page, v, Stale) /\ UNCHANGED now
    BY <1>2 DEF Store
  <2> HIDE DEF v
  <2> QED BY <2>1, <2>2, <1>k, PutKeeps DEF Only
<1>3. ASSUME NEW c \in Callers, RevalidateOnce(c) PROVE StoreOK' /\ Only({Page, Guard})
  <2>1. CASE Present(Guard)
    BY <1>1, <1>3, <2>1 DEF RevalidateOnce
  <2>2. CASE ~Present(Guard)
    <3>1. Put(Guard, "1", GuardTTL) /\ UNCHANGED now
      BY <1>3, <2>2 DEF RevalidateOnce
    <3> QED BY <3>1, <1>k, PutKeeps DEF Only
  <2> QED BY <2>1, <2>2
<1>4. ASSUME NEW r \in Refreshes, RefreshStores(r) PROVE StoreOK' /\ Only({Page, Guard})
  <2> DEFINE v == [read |-> refresh[r].since, stamp |-> now]
  <2>1. v \in Values(Page)
    BY <1>4, <1>k DEF FlexTypeOK, RefreshStores, Computes
  <2>2. Put(Page, v, Stale) /\ UNCHANGED now
    BY <1>4 DEF RefreshStores
  <2> HIDE DEF v
  <2> QED BY <2>1, <2>2, <1>k, PutKeeps DEF Only
<1>5. ASSUME NEW r \in Refreshes, RefreshEnds(r) PROVE StoreOK' /\ Only({Page, Guard})
  <2>1. Forget(Guard) /\ UNCHANGED now
    BY <1>5 DEF RefreshEnds
  <2> QED BY <2>1, <1>k, ForgetKeeps DEF Only
<1>6. ASSUME NEW c \in Callers, ServeStale(c) \/ Miss(c) \/ CallbackRaises(c)
      PROVE UNCHANGED <<now, entries>>
  BY <1>6 DEF ServeStale, Miss, CallbackRaises
<1>7. ASSUME NEW r \in Refreshes, RefreshRaises(r) \/ RefreshDies(r) PROVE UNCHANGED <<now, entries>>
  BY <1>7 DEF RefreshRaises, RefreshDies
<1> QED BY <1>1, <1>2, <1>3, <1>4, <1>5, <1>6, <1>7 DEF FlexStep

LEMMA TagStore == StoreOK /\ TagTypeOK /\ TagStep => StoreOK' /\ Only(Tagged)
<1> SUFFICES ASSUME StoreOK, TagTypeOK, NEW u \in Users,
                    \/ Call(u) \/ StorePut(u) \/ ForgetEntry(u) \/ TaskDies(u)
                    \/ \E k \in Tagged : Add(u, k) \/ FlushDelete(u, k) \/ PruneCheck(u, k)
                    \/ \E t \in Tags : \/ Register(u, t) \/ Unregister(u, t) \/ Pop(u, t)
                                       \/ FlushTagDone(u, t) \/ PruneTagDone(u, t)
             PROVE  StoreOK' /\ Only(Tagged)
  BY DEF TagStep
<1>k. /\ Tagged \subseteq Keys /\ TagTTL \in Nat /\ \A k \in Tagged : "value" \in Values(k)
      /\ (op[u] # Null => op[u].keys \subseteq Tagged)
  BY KeysApart, TaggedAssumption DEF TagTypeOK, Operation
<1>1. CASE UNCHANGED <<now, entries>>
  BY <1>1 DEF StoreOK, Present, Only
<1>2. ASSUME NEW k \in Tagged, NEW ttl \in {TagTTL, Null}, Put(k, "value", ttl), UNCHANGED now
      PROVE StoreOK' /\ Only(Tagged)
  BY <1>2, <1>k, PutKeeps DEF Only
<1>3. ASSUME NEW k \in Tagged, Forget(k), UNCHANGED now PROVE StoreOK' /\ Only(Tagged)
  BY <1>3, <1>k, ForgetKeeps DEF Only
<1>4. CASE StorePut(u)
  <2>1. PICK k \in op[u].keys : Forget(k) \/ \E ttl \in {TagTTL, Null} : Put(k, "value", ttl)
    BY <1>4 DEF StorePut
  <2>2. k \in Tagged /\ UNCHANGED now
    BY <1>4, <1>k DEF StorePut, In
  <2> QED BY <2>1, <2>2, <1>2, <1>3
<1>5. CASE ForgetEntry(u)
  <2>1. PICK k \in op[u].keys : Forget(k)
    BY <1>5 DEF ForgetEntry
  <2>2. k \in Tagged /\ UNCHANGED now
    BY <1>5, <1>k DEF ForgetEntry, In
  <2> QED BY <2>1, <2>2, <1>3
<1>6. ASSUME NEW k \in Tagged, Add(u, k) \/ FlushDelete(u, k) PROVE StoreOK' /\ Only(Tagged)
  BY <1>6, <1>2, <1>3 DEF Add, FlushDelete
<1>7. CASE Call(u) \/ TaskDies(u)
  BY <1>7, <1>1 DEF Call, TaskDies
<1>8. ASSUME NEW k \in Tagged, PruneCheck(u, k) PROVE StoreOK' /\ Only(Tagged)
  BY <1>8, <1>1 DEF PruneCheck
<1>9. ASSUME NEW t \in Tags,
             Register(u, t) \/ Unregister(u, t) \/ Pop(u, t) \/ FlushTagDone(u, t) \/ PruneTagDone(u, t)
      PROVE StoreOK' /\ Only(Tagged)
  BY <1>9, <1>1 DEF Register, Unregister, Pop, FlushTagDone, PruneTagDone
<1> QED BY <1>4, <1>5, <1>6, <1>7, <1>8, <1>9

LEMMA CountStore == StoreOK /\ CountStep => StoreOK' /\ Only({Limited, Throttle})
<1> SUFFICES ASSUME StoreOK, CountStep PROVE StoreOK' /\ Only({Limited, Throttle})
  OBVIOUS
<1>k. /\ Limited \in Keys /\ Throttle \in Keys /\ Values(Limited) = Nat /\ Decay \in Nat
      /\ 1 \in Values(Limited)
  BY KeysApart, CountersAssumption
<1>1. CASE UNCHANGED <<now, entries>>
  BY <1>1 DEF StoreOK, Present, Only
<1>2. ASSUME NEW j \in Jobs, HitWithTtl(j) PROVE StoreOK' /\ Only({Limited, Throttle})
  <2>1. UNCHANGED now /\ (Increment(Limited) \/ Put(Limited, 1, Decay))
    BY <1>2 DEF HitWithTtl
  <2> QED BY <2>1, <1>k, IncrementKeeps, PutKeeps DEF Only
<1>3. ASSUME NEW j \in Jobs, Hit(j) \/ Arm(j) PROVE StoreOK' /\ Only({Limited, Throttle})
  <2>1. UNCHANGED now /\ (Increment(Throttle) \/ Expire(Throttle, Decay))
    BY <1>3 DEF Hit, Arm
  <2> QED BY <2>1, <1>k, IncrementKeeps, ExpireKeeps DEF Only
<1>4. CASE Clear
  <2>1. PICK k \in {Limited, Throttle} : Forget(k)
    BY <1>4 DEF Clear
  <2> QED BY <1>4, <2>1, <1>k, ForgetKeeps DEF Only, Clear
<1>5. ASSUME NEW j \in Jobs, Check(j) \/ JobDies(j) \/ (\E counts \in BOOLEAN : Work(j, counts))
      PROVE UNCHANGED <<now, entries>>
  BY <1>5 DEF Check, JobDies, Work
<1> QED BY <1>1, <1>2, <1>3, <1>4, <1>5 DEF CountStep

\* A flush leaves nothing, a tick what has not expired.
LEMMA FlushStore == StoreOK /\ Flush => StoreOK' /\ UNCHANGED now /\ \A k \in Keys : ~Present(k)'
  BY DEF Flush, StoreOK, Present

LEMMA TickStore ==
  StoreOK /\ Tick => /\ StoreOK' /\ now' = now + 1
                     /\ \A k \in Keys : IF Present(k) /\ entries[k].expires = now + 1
                                        THEN ~Present(k)' ELSE entries'[k] = entries[k]
<1> SUFFICES ASSUME StoreOK, Tick PROVE /\ StoreOK' /\ now' = now + 1
                     /\ \A k \in Keys : IF Present(k) /\ entries[k].expires = now + 1
                                        THEN ~Present(k)' ELSE entries'[k] = entries[k]
  OBVIOUS
<1>1. now' = now + 1 /\ now' \in 0..MaxTime
  BY ClockAssumption DEF Tick, StoreOK
<1>2. /\ DOMAIN entries' = Keys
      /\ \A k \in Keys : entries'[k] = IF Present(k) /\ entries[k].expires = now + 1
                                       THEN Null ELSE entries[k]
  BY DEF Tick, Expires
<1> QED BY <1>1, <1>2 DEF StoreOK, Present

LEMMA OthersStore ==
  StoreOK /\ ((ScheduleStep /\ UNCHANGED entries) \/ UNCHANGED vars)
      => StoreOK' /\ UNCHANGED <<now, entries>>
<1> SUFFICES ASSUME StoreOK, (ScheduleStep /\ UNCHANGED entries) \/ UNCHANGED vars
             PROVE  StoreOK' /\ UNCHANGED <<now, entries>>
  OBVIOUS
<1>1. UNCHANGED <<now, entries>>
  <2>1. CASE UNCHANGED vars
    BY <2>1 DEF vars
  <2>2. CASE ScheduleStep /\ UNCHANGED entries
    <3>1. ASSUME NEW c \in Clients,
                 \/ Acquire(c) \/ Refused(c) \/ LockTimeout(c) \/ Refresh(c) \/ Release(c) \/ Die(c)
          PROVE UNCHANGED now
      BY <3>1 DEF Acquire, Refused, LockTimeout, Refresh, Release, Die
    <3>2. CASE ForceRelease
      BY <2>2, <3>2 DEF ForceRelease
    <3>3. ASSUME NEW k \in Ticks, RunDue(k) \/ Kill(k) PROVE UNCHANGED now
      BY <3>3 DEF RunDue, Kill, LocksKept
    <3>4. ASSUME NEW r \in Runs,
                 \/ Down(r) \/ BeforeRaises(r) \/ AfterRaises(r) \/ Finish(r)
                 \/ \E raises \in BOOLEAN : Callback(r, raises)
          PROVE UNCHANGED now
      BY <3>4 DEF Down, BeforeRaises, AfterRaises, Finish, Callback, LocksKept
    <3>5. ASSUME NEW r \in Runs, Claim(r) PROVE UNCHANGED now
      BY <3>5, Zenon DEF Claim, Skip, LocksKept
    <3>6. ASSUME NEW r \in Runs, Lock(r) PROVE UNCHANGED now
      BY <3>6, Zenon DEF Lock, Skip, LocksKept
    <3> QED BY <2>2, <3>1, <3>2, <3>3, <3>4, <3>5, <3>6 DEF ScheduleStep, RunStep, LockStep
  <2> QED BY <2>1, <2>2
<1> QED BY <1>1 DEF StoreOK, Present

-----------------------------------------------------------------------------
(* Types *)

LEMMA FlexTypes == StoreOK /\ FlexTypeOK /\ FlexStep => FlexTypeOK'
<1> SUFFICES ASSUME StoreOK, FlexTypeOK, FlexStep PROVE FlexTypeOK'
  OBVIOUS
<1> USE DEF FlexTypeOK, Become, Idle
<1>k. now \in 0..MaxTime /\ 0 \in 0..MaxTime
  BY ClockAssumption DEF StoreOK
<1>1. ASSUME NEW c \in Callers, ServeStale(c) \/ Miss(c) \/ Store(c) \/ CallbackRaises(c)
      PROVE FlexTypeOK'
  BY <1>1, <1>k DEF ServeStale, Miss, Store, CallbackRaises
<1>2. ASSUME NEW c \in Callers, RevalidateOnce(c) PROVE FlexTypeOK'
  <2>1. CASE Present(Guard)
    BY <1>2, <2>1, <1>k DEF RevalidateOnce
  <2>2. CASE ~Present(Guard)
    BY <1>2, <2>2, <1>k DEF RevalidateOnce
  <2> QED BY <2>1, <2>2
<1>3. ASSUME NEW r \in Refreshes,
             RefreshStores(r) \/ RefreshRaises(r) \/ RefreshEnds(r) \/ RefreshDies(r)
      PROVE FlexTypeOK'
  <2>1. CASE RefreshStores(r) \/ RefreshRaises(r)
    <3>1. refresh[r] \in [at : {"compute", "end"}, since : 0..MaxTime]
      BY <2>1 DEF RefreshStores, RefreshRaises, Computes
    <3>2. [refresh[r] EXCEPT !.at = "end"] \in [at : {"compute", "end"}, since : 0..MaxTime]
      BY <3>1
    <3> QED BY <2>1, <3>2 DEF RefreshStores, RefreshRaises
  <2>2. CASE RefreshEnds(r) \/ RefreshDies(r)
    BY <2>2 DEF RefreshEnds, RefreshDies
  <2> QED BY <1>3, <2>1, <2>2
<1> QED BY <1>1, <1>2, <1>3 DEF FlexStep

\* What a task has in hand, and where it goes on.
LEMMA OpType ==
  ASSUME TagTypeOK, NEW u \in Users, op[u] # Null
  PROVE  /\ op[u] \in Operation /\ op[u].kind \in Kinds /\ op[u].keys \subseteq Tagged
         /\ op[u].tags \subseteq Tags /\ op[u].kept \subseteq Tagged
  BY DEF TagTypeOK, Operation

LEMMA RestMeans ==
  ASSUME TagTypeOK, NEW u \in Users, op[u] # Null, NEW keys \in SUBSET Tagged,
         NEW tags \in SUBSET Tags, NEW kept \in SUBSET Tagged, Rest(u, keys, tags, kept)
  PROVE  /\ op' \in [Users -> Operation \cup {Null}] /\ op'[u] # Null
         /\ op'[u] = [kind |-> op[u].kind, keys |-> keys, tags |-> tags, kept |-> kept]
         /\ \A v \in Users \ {u} : op'[v] = op[v]
<1> DEFINE new == [kind |-> op[u].kind, keys |-> keys, tags |-> tags, kept |-> kept]
<1>1. new \in Operation /\ new # Null
  BY OpType, TaggedAssumption DEF Operation
<1>2. op' = [op EXCEPT ![u] = new]
  <2>1. op[u] \in [kind : Kinds, keys : SUBSET Tagged, tags : SUBSET Tags, kept : SUBSET Tagged]
    BY OpType DEF Operation
  <2>2. [op[u] EXCEPT !.keys = keys, !.tags = tags, !.kept = kept] = new
    <3> DEFINE x == [op[u] EXCEPT !.keys = keys, !.tags = tags, !.kept = kept]
    <3>1. /\ x \in [kind : Kinds, keys : SUBSET Tagged, tags : SUBSET Tags, kept : SUBSET Tagged]
          /\ x.kind = op[u].kind /\ x.keys = keys /\ x.tags = tags /\ x.kept = kept
      BY <2>1
    <3> HIDE DEF x
    <3>2. x = [kind |-> x.kind, keys |-> x.keys, tags |-> x.tags, kept |-> x.kept]
      BY <3>1
    <3>3. x = new
      BY <3>1, <3>2
    <3> QED BY <3>3 DEF x
  <2>3. op' = [op EXCEPT ![u] = [op[u] EXCEPT !.keys = keys, !.tags = tags, !.kept = kept]]
    BY DEF Rest, TagTypeOK
  <2> QED BY <2>2, <2>3
<1> HIDE DEF new
<1>3. op' \in [Users -> Operation \cup {Null}] /\ op'[u] = new /\ \A v \in Users \ {u} : op'[v] = op[v]
  BY <1>1, <1>2 DEF TagTypeOK
<1> USE DEF new
<1> QED BY <1>1, <1>3

LEMMA DoneMeans ==
  ASSUME TagTypeOK, NEW u \in Users, Done(u)
  PROVE  /\ op' \in [Users -> Operation \cup {Null}] /\ op'[u] = Null
         /\ \A v \in Users \ {u} : op'[v] = op[v]
  BY DEF TagTypeOK, Done

LEMMA ReachType == ASSUME NEW o \in Operation PROVE Reach(o) \subseteq Tagged
  BY DEF Reach, Operation

LEMMA BeginMeans ==
  ASSUME TagTypeOK, NEW u \in Users, NEW kind \in Kinds, NEW keys \in SUBSET Tagged,
         NEW tags \in SUBSET Tags, Begin(u, kind, keys, tags)
  PROVE  /\ op[u] = Null
         /\ op' \in [Users -> Operation \cup {Null}] /\ op'[u] # Null
         /\ op'[u] = [kind |-> kind, keys |-> keys, tags |-> tags, kept |-> {}]
         /\ \A v \in Users \ {u} : op'[v] = op[v]
         /\ raced' \subseteq Tagged /\ raced \subseteq raced'
         /\ \A v \in Users \ {u} : op[v] # Null /\ Races(op'[u], op[v])
                 => Reach(op'[u]) \cap Reach(op[v]) \subseteq raced'
<1> DEFINE mine == [kind |-> kind, keys |-> keys, tags |-> tags, kept |-> {}]
           rivals == {w \in Users : op[w] # Null /\ Races(mine, op[w])}
<1>1. mine \in Operation /\ mine # Null
  BY TaggedAssumption DEF Operation
<1>2. /\ op[u] = Null /\ op' = [op EXCEPT ![u] = mine]
      /\ raced' = raced \cup UNION {Reach(mine) \cap Reach(op[v]) : v \in rivals}
  BY Zenon DEF Begin
<1>3. \A v \in Users : op[v] # Null => op[v] \in Operation
  BY DEF TagTypeOK
<1>m. op'[u] = mine /\ \A v \in Users \ {u} : op'[v] = op[v]
  BY <1>2 DEF TagTypeOK
<1> HIDE DEF mine
<1>4. op' \in [Users -> Operation \cup {Null}]
  BY <1>1, <1>2 DEF TagTypeOK
<1>5. \A v \in rivals : Reach(op[v]) \subseteq Tagged
  BY <1>3, ReachType
<1>6. raced' \subseteq Tagged /\ raced \subseteq raced'
  BY <1>2, <1>5 DEF TagTypeOK
<1>7. \A v \in Users \ {u} : op[v] # Null /\ Races(mine, op[v]) => Reach(mine) \cap Reach(op[v]) \subseteq raced'
  BY <1>2
<1>8. op'[u] # Null
  BY <1>1, <1>m
<1> QED BY <1>2, <1>4, <1>6, <1>7, <1>8, <1>m DEF mine

LEMMA TagTypes == TagTypeOK /\ TagStep => TagTypeOK'
<1> SUFFICES ASSUME TagTypeOK, NEW u \in Users,
                    \/ Call(u) \/ StorePut(u) \/ ForgetEntry(u) \/ TaskDies(u)
                    \/ \E k \in Tagged : Add(u, k) \/ FlushDelete(u, k) \/ PruneCheck(u, k)
                    \/ \E t \in Tags : \/ Register(u, t) \/ Unregister(u, t) \/ Pop(u, t)
                                       \/ FlushTagDone(u, t) \/ PruneTagDone(u, t)
             PROVE  TagTypeOK'
  BY DEF TagStep
<1>t. /\ members \in [Tags -> SUBSET Tagged] /\ raced \subseteq Tagged
      /\ TagsOf \in [Tagged -> SUBSET Tags]
      /\ op[u] # Null => op[u].keys \subseteq Tagged /\ op[u].tags \subseteq Tags
                         /\ op[u].kept \subseteq Tagged /\ op[u] \in Operation
  BY TaggedAssumption, OpType DEF TagTypeOK
<1>b. ASSUME NEW kind \in Kinds, NEW keys \in SUBSET Tagged, NEW tags \in SUBSET Tags,
             Begin(u, kind, keys, tags), UNCHANGED members
      PROVE TagTypeOK'
  BY <1>b, <1>t, BeginMeans DEF TagTypeOK
<1>1. CASE Call(u)
  <2>1. CASE \E k \in Tagged, kind \in {"put", "forget"} : Begin(u, kind, {k}, TagsOf[k])
    <3>1. PICK k \in Tagged, kind \in {"put", "forget"} : Begin(u, kind, {k}, TagsOf[k])
      BY <2>1
    <3>2. kind \in Kinds /\ {k} \in SUBSET Tagged /\ TagsOf[k] \in SUBSET Tags
      BY <1>t DEF Kinds
    <3> QED BY <3>1, <3>2, <1>b, <1>1 DEF Call
  <2>2. ASSUME NEW tags \in SUBSET Tags, Begin(u, "flush", {}, tags) \/ Begin(u, "prune", {}, tags)
        PROVE TagTypeOK'
    BY <2>2, <1>b, <1>1 DEF Call, Kinds
  <2> QED BY <1>1, <2>1, <2>2 DEF Call
<1>2. ASSUME NEW k \in Tagged, Add(u, k) PROVE TagTypeOK'
  <2>1. "add" \in Kinds /\ {k} \in SUBSET Tagged /\ TagsOf[k] \in SUBSET Tags
    BY <1>t DEF Kinds
  <2> QED BY <1>2, <2>1, <1>b DEF Add
<1>3. CASE StorePut(u) \/ ForgetEntry(u)
  BY <1>3, <1>t, DoneMeans DEF TagTypeOK, StorePut, ForgetEntry
<1>4. CASE TaskDies(u)
  BY <1>4, <1>t, DoneMeans, ReachType DEF TagTypeOK, TaskDies
<1>r. ASSUME NEW keys \in SUBSET Tagged, NEW tags \in SUBSET Tags, NEW kept \in SUBSET Tagged,
             op[u] # Null, Rest(u, keys, tags, kept), UNCHANGED raced,
             members' \in [Tags -> SUBSET Tagged]
      PROVE TagTypeOK'
  BY <1>r, <1>t, RestMeans DEF TagTypeOK
<1>d. ASSUME Done(u), UNCHANGED raced, members' \in [Tags -> SUBSET Tagged] PROVE TagTypeOK'
  BY <1>d, <1>t, DoneMeans DEF TagTypeOK
<1>5. ASSUME NEW k \in Tagged, FlushDelete(u, k) \/ PruneCheck(u, k) PROVE TagTypeOK'
  <2>1. op[u] # Null /\ UNCHANGED <<members, raced>>
    BY <1>5 DEF FlushDelete, PruneCheck, In
  <2>2. CASE FlushDelete(u, k)
    BY <2>1, <2>2, <1>t, <1>r DEF FlushDelete
  <2>3. CASE PruneCheck(u, k)
    BY <2>1, <2>3, <1>t, <1>r DEF PruneCheck
  <2> QED BY <1>5, <2>2, <2>3
<1>6. ASSUME NEW t \in Tags, Register(u, t) PROVE TagTypeOK'
  <2>1. op[u] # Null /\ UNCHANGED raced /\ members' \in [Tags -> SUBSET Tagged]
    BY <1>6, <1>t DEF Register, In
  <2>2. Done(u) \/ Rest(u, op[u].keys, op[u].tags \ {t}, {})
    BY <1>6 DEF Register
  <2> QED BY <2>1, <2>2, <1>t, <1>r, <1>d
<1>7. ASSUME NEW t \in Tags, Unregister(u, t) PROVE TagTypeOK'
  <2>1. op[u] # Null /\ UNCHANGED raced /\ members' \in [Tags -> SUBSET Tagged]
    BY <1>7, <1>t DEF Unregister, In
  <2>2. Rest(u, op[u].keys, op[u].tags \ {t}, {})
    BY <1>7 DEF Unregister
  <2> QED BY <2>1, <2>2, <1>t, <1>r
<1>8. ASSUME NEW t \in Tags, Pop(u, t) PROVE TagTypeOK'
  <2>1. op[u] # Null /\ UNCHANGED raced /\ members' \in [Tags -> SUBSET Tagged]
        /\ members[t] \in SUBSET Tagged
    BY <1>8, <1>t DEF Pop, In
  <2>2. Rest(u, members[t], op[u].tags, op[u].kept)
    BY <1>8 DEF Pop
  <2> QED BY <2>1, <2>2, <1>t, <1>r
<1>9. ASSUME NEW t \in Tags, FlushTagDone(u, t) PROVE TagTypeOK'
  <2>1. op[u] # Null /\ UNCHANGED <<members, raced>>
    BY <1>9 DEF FlushTagDone, In
  <2>2. Done(u) \/ Rest(u, {}, op[u].tags \ {t}, {})
    BY <1>9 DEF FlushTagDone
  <2> QED BY <2>1, <2>2, <1>t, <1>r, <1>d
<1>10. ASSUME NEW t \in Tags, PruneTagDone(u, t) PROVE TagTypeOK'
  <2>1. op[u] # Null /\ UNCHANGED raced /\ members' \in [Tags -> SUBSET Tagged] /\ Done(u)
    BY <1>10, <1>t DEF PruneTagDone, In
  <2> QED BY <2>1, <1>d
<1> QED BY <1>1, <1>2, <1>3, <1>4, <1>5, <1>6, <1>7, <1>8, <1>9, <1>10

LEMMA CountTypes == CountTypeOK /\ CountStep => CountTypeOK'
<1> SUFFICES ASSUME CountTypeOK, CountStep PROVE CountTypeOK'
  OBVIOUS
<1> USE DEF CountTypeOK, Goto
<1>1. ASSUME NEW j \in Jobs, HitWithTtl(j) PROVE CountTypeOK'
  BY <1>1 DEF HitWithTtl
<1>2. ASSUME NEW j \in Jobs, Check(j) \/ Hit(j) \/ Arm(j) PROVE CountTypeOK'
  BY <1>2 DEF Check, Hit, Arm
<1>3. ASSUME NEW j \in Jobs, JobDies(j) PROVE CountTypeOK'
  BY <1>3 DEF JobDies
<1>4. ASSUME NEW j \in Jobs, NEW counts \in BOOLEAN, Work(j, counts) PROVE CountTypeOK'
  BY <1>4 DEF Work
<1>5. CASE Clear
  BY <1>5 DEF Clear
<1> QED BY <1>1, <1>2, <1>3, <1>4, <1>5 DEF CountStep

\* A run that has started knows its minute, of which its claim is named.
Started == \A r \in Runs : pc[r] # "off" => minute[r[1]] # Null

LEMMA LockNames ==
  /\ \A t \in Tasks : OverlapName(t) \in Names /\ OverlapName(t) # Mutex
  /\ \A t \in Tasks, i \in DOMAIN Wall : ClaimName(t, Wall[i]) \in Names /\ ClaimName(t, Wall[i]) # Mutex
  /\ \A t, u \in Tasks : \A m : ClaimName(t, m) # OverlapName(u)
  /\ \A t, u \in Tasks : \A m, n : ClaimName(t, m) = ClaimName(u, n) => m = n
  /\ \A t \in Tasks : \A m, n : m = n => ClaimName(t, m) = ClaimName(t, n)
  /\ Mutex \in Names /\ Clients \subseteq Owners /\ Runs \subseteq Owners /\ Runs \cap Clients = {}
<1>1. \A t, u \in Tasks : \A m : ClaimName(t, m)[1] = "one_server" /\ OverlapName(u)[1] = "overlap"
  BY DEF ClaimName, OverlapName
<1>2. "one_server" # "overlap"
  OBVIOUS
<1>3. \A t, u \in Tasks : \A m : ClaimName(t, m) # OverlapName(u)
  BY <1>1, <1>2
<1>4. \A t, u \in Tasks : \A m, n : ClaimName(t, m)[3] = m /\ ClaimName(u, n)[3] = n
  BY DEF ClaimName
<1>5. \A t, u \in Tasks : \A m, n : ClaimName(t, m) = ClaimName(u, n) => m = n
  BY <1>4
<1> HIDE DEF OverlapName, ClaimName
<1> QED BY <1>3, <1>5, SchedulerAssumption, LocksAssumption

\* A lock that is not free says who holds it, and until when.
LEMMA LockType ==
  ASSUME LocksTypeOK, NEW n \in Names, ~Free(n)
  PROVE  locks[n].owner \in Owners /\ locks[n].expires \in Nat
  BY DEF LocksTypeOK, Free

LEMMA GrantMeans ==
  ASSUME LocksTypeOK, now \in Nat, NEW n \in Names, NEW o \in Owners, NEW ttl \in Nat, Grant(n, o, ttl)
  PROVE  /\ locks' \in [Names -> [owner : Owners, expires : Nat] \cup {Null}]
         /\ locks'[n] = [owner |-> o, expires |-> now + ttl] /\ locks'[n] # Null
         /\ \A m \in Names \ {n} : locks'[m] = locks[m]
<1> DEFINE new == [owner |-> o, expires |-> now + ttl]
<1>1. new \in [owner : Owners, expires : Nat]
  OBVIOUS
<1>2. new # Null
  BY <1>1, LocksAssumption
<1>3. locks' = [locks EXCEPT ![n] = new]
  BY DEF Grant
<1> QED BY <1>1, <1>2, <1>3 DEF LocksTypeOK

LEMMA LeaveMeans ==
  ASSUME LocksTypeOK, NEW n \in Names, NEW o \in Owners, Leave(n, o)
  PROVE  /\ locks' \in [Names -> [owner : Owners, expires : Nat] \cup {Null}]
         /\ held' = [held EXCEPT ![o] = Null] /\ lease' = [lease EXCEPT ![o] = 0]
         /\ \A m \in Names : m # n \/ ~Owns(n, o) => locks'[m] = locks[m]
         /\ Owns(n, o) => locks'[n] = Null
<1>1. CASE Owns(n, o)
  BY <1>1 DEF LocksTypeOK, Leave
<1>2. CASE ~Owns(n, o)
  BY <1>2 DEF LocksTypeOK, Leave
<1> QED BY <1>1, <1>2

LEMMA LockStepTypes == LocksTypeOK /\ now \in Nat /\ LockStep => LocksTypeOK'
<1> SUFFICES ASSUME LocksTypeOK, now \in Nat, LockStep PROVE LocksTypeOK'
  OBVIOUS
<1>k. /\ LockTTL \in Nat /\ MaxWait \in Nat /\ Mutex \in Names /\ Clients \subseteq Owners
  BY LocksAssumption
<1>1. ASSUME NEW c \in Clients, Acquire(c) PROVE LocksTypeOK'
  <2>1. locks' \in [Names -> [owner : Owners, expires : Nat] \cup {Null}]
    BY <1>1, <1>k, GrantMeans DEF Acquire, Enter
  <2> QED BY <1>1, <2>1, <1>k DEF Acquire, Enter, LocksTypeOK
<1>2. ASSUME NEW c \in Clients, Refused(c) PROVE LocksTypeOK'
  <2>1. PICK wait \in 0..MaxWait : deadline' = [deadline EXCEPT ![c] = now + wait]
    BY <1>2 DEF Refused
  <2>2. now + wait \in Nat
    BY <1>k
  <2> QED BY <1>2, <2>1, <2>2 DEF Refused, LocksTypeOK
<1>3. ASSUME NEW c \in Clients, LockTimeout(c) \/ Die(c) PROVE LocksTypeOK'
  BY <1>3, <1>k DEF LockTimeout, Die, LocksTypeOK
<1>4. ASSUME NEW c \in Clients, Refresh(c) PROVE LocksTypeOK'
  <2>1. locks' \in [Names -> [owner : Owners, expires : Nat] \cup {Null}]
    BY <1>4, <1>k, GrantMeans DEF Refresh
  <2> QED BY <1>4, <2>1, <1>k DEF Refresh, LocksTypeOK
<1>5. ASSUME NEW c \in Clients, Release(c) PROVE LocksTypeOK'
  BY <1>5, <1>k, LeaveMeans DEF Release, LocksTypeOK
<1>6. CASE ForceRelease
  BY <1>6, <1>k DEF ForceRelease, LocksTypeOK
<1> QED BY <1>1, <1>2, <1>3, <1>4, <1>5, <1>6 DEF LockStep

\* The steps of a run by what they do to the locks: it claims, it locks, it leaves, it
\* lets go without leaving, or it moves on.
LEMMA ClaimMeans ==
  ASSUME ScheduleTypeOK, Started, NEW r \in Runs, Claim(r)
  PROVE  LET name == ClaimName(r[2], minute[r[1]]) IN
         /\ pc[r] = "gate" /\ name \in Names /\ name # Mutex /\ r[1] \in Ticks /\ r[2] \in Tasks
         /\ UNCHANGED <<now, clients, held, lease, flushes, minute, executed, abandoned>>
         /\ \/ /\ r[2] \in OneServer /\ Free(name) /\ Grant(name, r, ClaimTTL)
               /\ claimed' = [claimed EXCEPT ![r] = [at |-> now, flushes |-> flushes]] /\ Move(r, "lock") /\ UNCHANGED lostTo
            \/ r[2] \notin OneServer /\ Move(r, "lock") /\ UNCHANGED <<locks, claimed, lostTo>>
            \/ /\ ~Free(name) /\ Move(r, "over") /\ UNCHANGED <<locks, claimed>>
               /\ lostTo' = [lostTo EXCEPT ![r] = locks[name].owner]
<1> DEFINE name == ClaimName(r[2], minute[r[1]])
<1>1. pc[r] = "gate" /\ r[1] \in Ticks /\ r[2] \in Tasks
  BY DEF Claim, Runs
<1>2. minute[r[1]] \in {Wall[i] : i \in DOMAIN Wall}
  BY <1>1 DEF ScheduleTypeOK, Started
<1>3. name \in Names /\ name # Mutex
  BY <1>1, <1>2, LockNames
<1> HIDE DEF name
<1>4. /\ UNCHANGED <<minute, executed, abandoned>>
      /\ IF r[2] \notin OneServer
         THEN Move(r, "lock") /\ LocksKept /\ UNCHANGED <<claimed, lostTo>>
         ELSE IF Free(name)
         THEN /\ Grant(name, r, ClaimTTL)
              /\ claimed' = [claimed EXCEPT ![r] = [at |-> now, flushes |-> flushes]]
              /\ Move(r, "lock")
              /\ UNCHANGED <<now, clients, held, lease, flushes, lostTo>>
         ELSE Skip(r, name)
  BY Zenon DEF Claim, name
<1>5. CASE r[2] \notin OneServer
  BY <1>1, <1>3, <1>4, <1>5, Zenon DEF LocksKept, name
<1>6. CASE r[2] \in OneServer /\ Free(name)
  BY <1>1, <1>3, <1>4, <1>6, Zenon DEF name
<1>7. CASE r[2] \in OneServer /\ ~Free(name)
  BY <1>1, <1>3, <1>4, <1>7, Zenon DEF LocksKept, Skip, name
<1> QED BY <1>5, <1>6, <1>7

LEMMA LockMeans ==
  ASSUME NEW r \in Runs, Lock(r)
  PROVE  LET name == OverlapName(r[2]) IN
         /\ pc[r] = "lock" /\ name \in Names /\ name # Mutex /\ r[2] \in Tasks
         /\ UNCHANGED <<now, clients, flushes, minute, claimed, executed, abandoned>>
         /\ \/ /\ r[2] \in Overlap /\ Enter(name, r, OverlapTTL)
               /\ Move(r, "running") /\ UNCHANGED lostTo
            \/ /\ r[2] \notin Overlap /\ Move(r, "running")
               /\ UNCHANGED <<locks, held, lease, lostTo>>
            \/ /\ ~Free(name) /\ Move(r, "over") /\ UNCHANGED <<locks, held, lease>>
               /\ lostTo' = [lostTo EXCEPT ![r] = locks[name].owner]
<1> DEFINE name == OverlapName(r[2])
<1>1. pc[r] = "lock" /\ r[2] \in Tasks
  BY DEF Lock, Runs
<1>3. name \in Names /\ name # Mutex
  BY <1>1, LockNames
<1> HIDE DEF name
<1>4. /\ UNCHANGED <<minute, executed, abandoned>>
      /\ IF r[2] \notin Overlap
         THEN Move(r, "running") /\ LocksKept /\ UNCHANGED <<claimed, lostTo>>
         ELSE IF Free(name)
         THEN Enter(name, r, OverlapTTL) /\ Move(r, "running")
              /\ UNCHANGED <<now, clients, flushes, claimed, lostTo>>
         ELSE Skip(r, name)
  BY Zenon DEF Lock, name
<1>5. CASE r[2] \notin Overlap
  BY <1>1, <1>3, <1>4, <1>5, Zenon DEF LocksKept, name
<1>6. CASE r[2] \in Overlap /\ Free(name)
  BY <1>1, <1>3, <1>4, <1>6, Zenon DEF name
<1>7. CASE r[2] \in Overlap /\ ~Free(name)
  BY <1>1, <1>3, <1>4, <1>7, Zenon DEF LocksKept, Skip, name
<1> QED BY <1>5, <1>6, <1>7

LEMMA FinishMeans ==
  ASSUME NEW r \in Runs, Finish(r)
  PROVE  /\ pc[r] = "after" /\ Move(r, "over") /\ r[2] \in Tasks
         /\ UNCHANGED <<now, clients, flushes, minute, claimed, executed, lostTo, abandoned>>
         /\ \/ r[2] \in Overlap /\ Leave(OverlapName(r[2]), r)
            \/ r[2] \notin Overlap /\ UNCHANGED <<locks, held, lease>>
<1>1. r[2] \in Tasks
  BY DEF Runs
<1>2. CASE r[2] \in Overlap
  BY <1>1, <1>2, Zenon DEF Finish
<1>3. CASE r[2] \notin Overlap
  BY <1>1, <1>3, Zenon DEF Finish
<1> QED BY <1>2, <1>3

\* What a flush does to the locks: nothing, or it drops them all.
LEMMA FlushMeans ==
  ASSUME Flush
  PROVE  /\ UNCHANGED <<now, clients, held, runVars>>
         /\ \/ UNCHANGED lockVars
            \/ /\ locks' = [n \in Names |-> Null] /\ lease' = [o \in Owners |-> 0]
               /\ flushes' = (IF \E n \in Names : ~Free(n) THEN flushes + 1 ELSE flushes)
               /\ flushes' <= MaxFlushes
<1>1. UNCHANGED <<now, runVars>> /\ FlushLocks
  BY DEF Flush
<1>2. CASE Driver = "redis"
  BY <1>1, <1>2 DEF FlushLocks, LocksFlushed
<1>3. CASE Driver # "redis"
  BY <1>1, <1>3 DEF FlushLocks
<1> QED BY <1>2, <1>3

LEMMA FlushTypes == ScheduleTypeOK /\ Started /\ Flush => (ScheduleTypeOK /\ Started)'
<1> SUFFICES ASSUME ScheduleTypeOK, Started, Flush PROVE (ScheduleTypeOK /\ Started)'
  OBVIOUS
<1>1. UNCHANGED <<now, clients, held, runVars>>
  BY FlushMeans
<1>2. LocksTypeOK'
  <2>1. CASE UNCHANGED lockVars
    BY <2>1 DEF ScheduleTypeOK, LocksTypeOK
  <2>2. CASE /\ locks' = [n \in Names |-> Null] /\ lease' = [o \in Owners |-> 0]
             /\ flushes' = (IF \E n \in Names : ~Free(n) THEN flushes + 1 ELSE flushes)
             /\ flushes' <= MaxFlushes
    <3>1. flushes' \in 0..MaxFlushes
      BY <2>2, LocksAssumption DEF ScheduleTypeOK, LocksTypeOK
    <3> QED BY <1>1, <2>2, <3>1 DEF ScheduleTypeOK, LocksTypeOK
  <2> QED BY <2>1, <2>2, FlushMeans
<1> QED BY <1>1, <1>2 DEF ScheduleTypeOK, Started

LEMMA RunTypes ==
  ScheduleTypeOK /\ Started /\ now \in 0..MaxTime /\ RunStep => (ScheduleTypeOK /\ Started)'
<1> SUFFICES ASSUME ScheduleTypeOK, Started, now \in 0..MaxTime, RunStep
             PROVE  (ScheduleTypeOK /\ Started)'
  OBVIOUS
<1>k. /\ now \in Nat /\ ClaimTTL \in Nat /\ OverlapTTL \in Nat /\ Skew \in Nat
      /\ 0..(MaxTime + Skew) \subseteq DOMAIN Wall /\ MaxTime \in Nat
      /\ Runs \subseteq Owners /\ LocksTypeOK
      /\ \A i \in DOMAIN Wall : Wall[i] # Null
  BY SchedulerAssumption, ClockAssumption DEF ScheduleTypeOK
<1>n. UNCHANGED <<locks, clients, held, lease, flushes>> => LocksTypeOK'
  BY <1>k DEF LocksTypeOK
<1> DEFINE Places == {"off", "gate", "lock", "running", "after", "over"}
<1>m. ASSUME NEW r \in Runs, NEW label \in Places \ {"off"}, Move(r, label), pc[r] # "off",
             UNCHANGED minute
      PROVE pc' \in [Runs -> Places] /\ Started'
  BY <1>m DEF Move, ScheduleTypeOK, Started
<1>1. ASSUME NEW k \in Ticks, RunDue(k) PROVE (ScheduleTypeOK /\ Started)'
  <2>1. PICK i \in now..(now + Skew) : minute' = [minute EXCEPT ![k] = Wall[i]]
    BY <1>1 DEF RunDue
  <2>2. i \in DOMAIN Wall
    <3>1. now + Skew <= MaxTime + Skew /\ now >= 0 /\ i \in Int
      BY <1>k
    <3>2. i \in 0..(MaxTime + Skew)
      BY <1>k, <3>1
    <3> QED BY <1>k, <3>2
  <2>3. minute' \in [Ticks -> {Wall[j] : j \in DOMAIN Wall} \cup {Null}]
        /\ \A l \in Ticks : IF l = k THEN minute'[l] # Null ELSE minute'[l] = minute[l]
    BY <1>k, <2>1, <2>2 DEF ScheduleTypeOK
  <2>4. PICK due \in SUBSET Tasks :
          pc' = [r \in Runs |-> IF r[1] # k THEN pc[r] ELSE IF r[2] \in due THEN "gate" ELSE "over"]
    BY <1>1 DEF RunDue
  <2>5. pc' \in [Runs -> Places]
    BY <2>4 DEF ScheduleTypeOK
  <2>6. \A r \in Runs : r[1] \in Ticks
    BY DEF Runs
  <2>7. Started'
    BY <2>3, <2>4, <2>6 DEF Started
  <2>8. LocksTypeOK' /\ UNCHANGED <<claimed, executed, lostTo, abandoned>>
    BY <1>1, <1>n DEF RunDue, LocksKept
  <2> QED BY <2>3, <2>5, <2>7, <2>8 DEF ScheduleTypeOK
<1>2. ASSUME NEW k \in Ticks, Kill(k) PROVE (ScheduleTypeOK /\ Started)'
  <2> DEFINE mine == {r \in Runs : r[1] = k /\ pc[r] \notin {"off", "over"}}
  <2>1. /\ pc' = [r \in Runs |-> IF r \in mine THEN "over" ELSE pc[r]]
        /\ held' = [o \in Owners |-> IF o \in mine THEN Null ELSE held[o]]
        /\ lease' = [o \in Owners |-> IF o \in mine THEN 0 ELSE lease[o]]
        /\ abandoned' = abandoned \cup mine
        /\ UNCHANGED <<now, locks, clients, flushes, minute, claimed, executed, lostTo>>
    BY <1>2 DEF Kill
  <2>2. mine \subseteq Runs /\ \A r \in mine : pc[r] # "off"
    OBVIOUS
  <2> HIDE DEF mine
  <2>3. LocksTypeOK'
    BY <1>k, <2>1 DEF LocksTypeOK
  <2> QED BY <2>1, <2>2, <2>3 DEF ScheduleTypeOK, Started
<1>3. ASSUME NEW r \in Runs, Down(r) PROVE (ScheduleTypeOK /\ Started)'
  BY <1>3, <1>m, <1>n DEF Down, LocksKept, ScheduleTypeOK
<1>4. ASSUME NEW r \in Runs, Claim(r) PROVE (ScheduleTypeOK /\ Started)'
  <2> DEFINE name == ClaimName(r[2], minute[r[1]])
  <2>1. /\ pc[r] = "gate" /\ name \in Names
        /\ UNCHANGED <<now, clients, held, lease, flushes, minute, executed, abandoned>>
        /\ \/ /\ r[2] \in OneServer /\ Free(name) /\ Grant(name, r, ClaimTTL)
              /\ claimed' = [claimed EXCEPT ![r] = [at |-> now, flushes |-> flushes]] /\ Move(r, "lock") /\ UNCHANGED lostTo
           \/ r[2] \notin OneServer /\ Move(r, "lock") /\ UNCHANGED <<locks, claimed, lostTo>>
           \/ /\ ~Free(name) /\ Move(r, "over") /\ UNCHANGED <<locks, claimed>>
              /\ lostTo' = [lostTo EXCEPT ![r] = locks[name].owner]
    BY <1>4, ClaimMeans
  <2> HIDE DEF name
  <2>2. pc' \in [Runs -> Places] /\ Started'
    BY <2>1, <1>m
  <2>3. CASE Grant(name, r, ClaimTTL) /\ claimed' = [claimed EXCEPT ![r] = [at |-> now, flushes |-> flushes]] /\ UNCHANGED lostTo
    <3>1. locks' \in [Names -> [owner : Owners, expires : Nat] \cup {Null}]
      BY <2>1, <2>3, <1>k, GrantMeans
    <3>2. LocksTypeOK'
      BY <2>1, <3>1, <1>k DEF LocksTypeOK
    <3>3. [at |-> now, flushes |-> flushes] \in [at : 0..MaxTime, flushes : 0..MaxFlushes]
      BY <1>k DEF LocksTypeOK
    <3> HIDE DEF name
    <3>4. claimed' \in [Runs -> [at : 0..MaxTime, flushes : 0..MaxFlushes] \cup {Null}]
      BY <2>3, <3>3 DEF ScheduleTypeOK
    <3> QED BY <2>1, <2>2, <2>3, <3>2, <3>4 DEF ScheduleTypeOK
  <2>4. CASE UNCHANGED <<locks, claimed, lostTo>>
    BY <2>1, <2>2, <2>4, <1>n DEF ScheduleTypeOK
  <2>5. CASE /\ ~Free(name) /\ UNCHANGED <<locks, claimed>>
             /\ lostTo' = [lostTo EXCEPT ![r] = locks[name].owner]
    <3>1. locks[name].owner \in Owners
      BY <2>1, <2>5, <1>k, LockType
    <3> QED BY <2>1, <2>2, <2>5, <3>1, <1>n DEF ScheduleTypeOK
  <2> QED BY <2>1, <2>3, <2>4, <2>5
<1>5. ASSUME NEW r \in Runs, Lock(r) PROVE (ScheduleTypeOK /\ Started)'
  <2> DEFINE name == OverlapName(r[2])
  <2>1. /\ pc[r] = "lock" /\ name \in Names
        /\ UNCHANGED <<now, clients, flushes, minute, claimed, executed, abandoned>>
        /\ \/ /\ r[2] \in Overlap /\ Enter(name, r, OverlapTTL)
              /\ Move(r, "running") /\ UNCHANGED lostTo
           \/ /\ r[2] \notin Overlap /\ Move(r, "running")
              /\ UNCHANGED <<locks, held, lease, lostTo>>
           \/ /\ ~Free(name) /\ Move(r, "over") /\ UNCHANGED <<locks, held, lease>>
              /\ lostTo' = [lostTo EXCEPT ![r] = locks[name].owner]
    BY <1>5, LockMeans
  <2> HIDE DEF name
  <2>2. pc' \in [Runs -> Places] /\ Started'
    BY <2>1, <1>m
  <2>3. CASE Enter(name, r, OverlapTTL) /\ UNCHANGED lostTo
    <3>1. locks' \in [Names -> [owner : Owners, expires : Nat] \cup {Null}]
      BY <2>1, <2>3, <1>k, GrantMeans DEF Enter
    <3>2. now + OverlapTTL \in Nat
      BY <1>k
    <3>3. LocksTypeOK'
      BY <2>1, <2>3, <3>1, <3>2, <1>k DEF LocksTypeOK, Enter
    <3> QED BY <2>1, <2>2, <2>3, <3>3 DEF ScheduleTypeOK
  <2>4. CASE UNCHANGED <<locks, held, lease, lostTo>>
    BY <2>1, <2>2, <2>4, <1>n DEF ScheduleTypeOK
  <2>5. CASE /\ ~Free(name) /\ UNCHANGED <<locks, held, lease>>
             /\ lostTo' = [lostTo EXCEPT ![r] = locks[name].owner]
    <3>1. locks[name].owner \in Owners
      BY <2>1, <2>5, <1>k, LockType
    <3> QED BY <2>1, <2>2, <2>5, <3>1, <1>n DEF ScheduleTypeOK
  <2> QED BY <2>1, <2>3, <2>4, <2>5
<1>6. ASSUME NEW r \in Runs, BeforeRaises(r) PROVE (ScheduleTypeOK /\ Started)'
  BY <1>6, <1>m, <1>n DEF BeforeRaises, LocksKept, ScheduleTypeOK
<1>7. ASSUME NEW r \in Runs, NEW raises \in BOOLEAN, Callback(r, raises) PROVE (ScheduleTypeOK /\ Started)'
  BY <1>7, <1>m, <1>n DEF Callback, LocksKept, ScheduleTypeOK
<1>8. ASSUME NEW r \in Runs, AfterRaises(r) PROVE (ScheduleTypeOK /\ Started)'
  <2>1. LocksTypeOK'
    BY <1>8, <1>k DEF AfterRaises, LocksTypeOK
  <2> QED BY <1>8, <2>1, <1>m DEF AfterRaises, ScheduleTypeOK
<1>9. ASSUME NEW r \in Runs, Finish(r) PROVE (ScheduleTypeOK /\ Started)'
  <2>1. /\ pc[r] = "after" /\ Move(r, "over") /\ r[2] \in Tasks
        /\ UNCHANGED <<now, clients, flushes, minute, claimed, executed, lostTo, abandoned>>
        /\ \/ r[2] \in Overlap /\ Leave(OverlapName(r[2]), r)
           \/ r[2] \notin Overlap /\ UNCHANGED <<locks, held, lease>>
    BY <1>9, FinishMeans
  <2>2. LocksTypeOK'
    <3>1. CASE Leave(OverlapName(r[2]), r)
      <4>1. locks' \in [Names -> [owner : Owners, expires : Nat] \cup {Null}]
            /\ held' = [held EXCEPT ![r] = Null] /\ lease' = [lease EXCEPT ![r] = 0]
        BY <2>1, <3>1, <1>k, LockNames, LeaveMeans
      <4> QED BY <2>1, <4>1, <1>k DEF LocksTypeOK
    <3>2. CASE UNCHANGED <<locks, held, lease>>
      BY <2>1, <3>2, <1>n
    <3> QED BY <2>1, <3>1, <3>2
  <2> QED BY <2>1, <2>2, <1>m DEF ScheduleTypeOK
<1> QED BY <1>1, <1>2, <1>3, <1>4, <1>5, <1>6, <1>7, <1>8, <1>9 DEF RunStep

TypeInv ==
    StoreOK /\ FlexTypeOK /\ TagTypeOK /\ CountTypeOK /\ ScheduleTypeOK /\ Started

LEMMA TypeInit == Init => TypeInv
<1> SUFFICES ASSUME Init PROVE TypeInv
  OBVIOUS
<1>k. MaxTime \in Nat /\ 0 \in 0..MaxTime
  BY ClockAssumption
<1>1. StoreOK
  BY <1>k DEF Init, StoreInit, StoreOK, Present
<1>2. FlexTypeOK
  BY <1>k DEF Init, FlexInit, FlexTypeOK, Idle
<1>3. TagTypeOK /\ CountTypeOK
  BY DEF Init, TagInit, TagTypeOK, CountInit, CountTypeOK
<1>4. ScheduleTypeOK /\ Started
  <2>1. flushes \in 0..MaxFlushes
    BY LocksAssumption DEF Init, ScheduleInit, LocksInit
  <2> QED BY <2>1 DEF Init, ScheduleInit, ScheduleTypeOK, LocksInit, LocksTypeOK, Started
<1> QED BY <1>1, <1>2, <1>3, <1>4 DEF TypeInv

LEMMA TypeNext == TypeInv /\ [Next]_vars => TypeInv'
<1> SUFFICES ASSUME TypeInv, [Next]_vars PROVE TypeInv'
  OBVIOUS
<1>t. StoreOK /\ FlexTypeOK /\ TagTypeOK /\ CountTypeOK /\ ScheduleTypeOK /\ Started
  BY DEF TypeInv
<1>f. UNCHANGED flexVars => FlexTypeOK'
  BY <1>t DEF FlexTypeOK
<1>g. UNCHANGED tagVars => TagTypeOK'
  BY <1>t DEF TagTypeOK
<1>c. UNCHANGED countVars => CountTypeOK'
  BY <1>t DEF CountTypeOK
<1>l. UNCHANGED <<lockVars, runVars>> => (ScheduleTypeOK /\ Started)'
  BY <1>t DEF ScheduleTypeOK, Started, LocksTypeOK
<1>1. CASE FlexStep /\ UNCHANGED <<tagVars, countVars, lockVars, runVars>>
  BY <1>1, <1>t, <1>g, <1>c, <1>l, FlexStore, FlexTypes DEF TypeInv
<1>2. CASE TagStep /\ UNCHANGED <<flexVars, countVars, lockVars, runVars>>
  BY <1>2, <1>t, <1>f, <1>c, <1>l, TagStore, TagTypes DEF TypeInv
<1>3. CASE CountStep /\ UNCHANGED <<flexVars, tagVars, lockVars, runVars>>
  BY <1>3, <1>t, <1>f, <1>g, <1>l, CountStore, CountTypes DEF TypeInv
<1>4. CASE ScheduleStep /\ UNCHANGED <<entries, flexVars, tagVars, countVars>>
  <2>1. now \in 0..MaxTime /\ now \in Nat
    BY <1>t, ClockAssumption DEF StoreOK
  <2>2. CASE RunStep
    BY <1>4, <2>1, <2>2, <1>t, <1>f, <1>g, <1>c, OthersStore, RunTypes DEF TypeInv
  <2>3. CASE LockStep /\ UNCHANGED runVars
    <3>1. LocksTypeOK'
      BY <2>1, <2>3, <1>t, LockStepTypes DEF ScheduleTypeOK
    <3>2. (ScheduleTypeOK /\ Started)'
      BY <2>3, <3>1, <1>t DEF ScheduleTypeOK, Started
    <3> QED BY <1>4, <3>2, <1>t, <1>f, <1>g, <1>c, OthersStore DEF TypeInv
  <2> QED BY <1>4, <2>2, <2>3 DEF ScheduleStep
<1>5. CASE Flush
  <2>1. FlexTypeOK'
    BY <1>5, <1>t DEF Flush, FlexTypeOK
  <2>2. TagTypeOK'
    <3>1. \A u \in Users : In(u, "put") => op[u].keys \subseteq Tagged
      BY <1>t, OpType DEF In
    <3> QED BY <1>5, <1>t, <3>1 DEF Flush, TagTypeOK
  <2>3. UNCHANGED countVars
    BY <1>5 DEF Flush
  <2> QED BY <1>5, <2>1, <2>2, <2>3, <1>t, <1>c, FlushStore, FlushTypes DEF TypeInv
<1>6. CASE Tick
  <2>1. FlexTypeOK'
    BY <1>6, <1>t DEF Tick, FlexTick, FlexTypeOK
  <2>2. locks' \in [Names -> [owner : Owners, expires : Nat] \cup {Null}]
    BY <1>6, <1>t DEF Tick, ScheduleTick, LocksExpire, ScheduleTypeOK, LocksTypeOK
  <2>3. (ScheduleTypeOK /\ Started)'
    BY <1>6, <2>2, <1>t DEF Tick, ScheduleTick, LocksExpire, ScheduleTypeOK, LocksTypeOK, Started
  <2>4. UNCHANGED <<tagVars, countVars>>
    BY <1>6 DEF Tick
  <2> QED BY <1>6, <2>1, <2>3, <2>4, <1>t, <1>g, <1>c, TickStore DEF TypeInv
<1>7. CASE UNCHANGED vars
  <2>1. UNCHANGED <<flexVars, tagVars, countVars, lockVars, runVars>>
    BY <1>7 DEF vars
  <2> QED BY <1>7, <2>1, <1>t, <1>f, <1>g, <1>c, <1>l, OthersStore DEF TypeInv
<1> QED BY <1>1, <1>2, <1>3, <1>4, <1>5, <1>6, <1>7 DEF Next

\* One store with flexible entries, tags, counters, locks and schedules in it keeps the
\* shape of all of them, whatever its users do.
THEOREM TypeCorrect == Spec => []TypeOK
<1>1. TypeInv => TypeOK
  BY DEF TypeInv, TypeOK, StoreOK
<1> QED BY <1>1, TypeInit, TypeNext, PTL DEF Spec

-----------------------------------------------------------------------------
(* Leases.  A handle within its time has the lock, and the lock outlasts it. *)

LeaseInv ==
    /\ \A o \in Owners :
          held[o] # Null /\ now < lease[o]
             => Owns(held[o], o) /\ locks[held[o]].expires >= lease[o]
    /\ \A c \in Clients : client[c] = "inside" => held[c] = Mutex

\* Taking a free lock, and leaving one, disturb nobody else.
LEMMA EnterKeeps ==
  ASSUME LocksTypeOK, now \in Nat, LeaseInv, NEW n \in Names, NEW o \in Owners, NEW ttl \in Nat,
         Enter(n, o, ttl), UNCHANGED <<now, flushes>>
  PROVE  \A p \in Owners :
            held'[p] # Null /\ now < lease'[p]
               => Owns(held[p], p)' /\ locks'[held'[p]].expires >= lease'[p]
<1> SUFFICES ASSUME NEW p \in Owners, held'[p] # Null, now < lease'[p]
             PROVE  Owns(held[p], p)' /\ locks'[held'[p]].expires >= lease'[p]
  OBVIOUS
<1>1. /\ Free(n) /\ held' = [held EXCEPT ![o] = n] /\ lease' = [lease EXCEPT ![o] = now + ttl]
      /\ locks'[n] = [owner |-> o, expires |-> now + ttl] /\ locks'[n] # Null
      /\ \A m \in Names \ {n} : locks'[m] = locks[m]
  BY GrantMeans DEF Enter
<1>2. CASE p = o
  <2>1. held'[p] = n /\ lease'[p] = now + ttl
    BY <1>1, <1>2 DEF LocksTypeOK
  <2> QED BY <1>1, <1>2, <2>1 DEF Owns, Free
<1>3. CASE p # o
  <2>1. held'[p] = held[p] /\ lease'[p] = lease[p] /\ held[p] \in Names
    BY <1>1, <1>3 DEF LocksTypeOK
  <2>2. Owns(held[p], p) /\ locks[held[p]].expires >= lease[p]
    BY <2>1 DEF LeaseInv
  <2>3. held[p] # n
    BY <1>1, <2>2 DEF Owns
  <2> QED BY <1>1, <2>1, <2>2, <2>3 DEF Owns, Free
<1> QED BY <1>2, <1>3

LEMMA LeaveKeeps ==
  ASSUME LocksTypeOK, LeaseInv, NEW n \in Names, NEW o \in Owners,
         Leave(n, o), UNCHANGED <<now, flushes>>
  PROVE  \A p \in Owners :
            held'[p] # Null /\ now < lease'[p]
               => Owns(held[p], p)' /\ locks'[held'[p]].expires >= lease'[p]
<1> SUFFICES ASSUME NEW p \in Owners, held'[p] # Null, now < lease'[p]
             PROVE  Owns(held[p], p)' /\ locks'[held'[p]].expires >= lease'[p]
  OBVIOUS
<1>1. /\ held' = [held EXCEPT ![o] = Null] /\ lease' = [lease EXCEPT ![o] = 0]
      /\ \A m \in Names : m # n \/ ~Owns(n, o) => locks'[m] = locks[m]
  BY LeaveMeans
<1>2. p # o /\ held'[p] = held[p] /\ lease'[p] = lease[p] /\ held[p] \in Names
  BY <1>1 DEF LocksTypeOK
<1>3. Owns(held[p], p) /\ locks[held[p]].expires >= lease[p]
  BY <1>2 DEF LeaseInv
<1>4. held[p] # n \/ ~Owns(n, o)
  BY <1>2, <1>3 DEF Owns
<1> QED BY <1>1, <1>2, <1>3, <1>4 DEF Owns, Free

LEMMA LeaseLockStep == LocksTypeOK /\ now \in Nat /\ LeaseInv /\ LockStep => LeaseInv'
<1> SUFFICES ASSUME LocksTypeOK, now \in Nat, LeaseInv, LockStep PROVE LeaseInv'
  OBVIOUS
<1>k. LockTTL \in Nat /\ Mutex \in Names /\ Clients \subseteq Owners
  BY LocksAssumption
<1>1. ASSUME NEW c \in Clients, Acquire(c) PROVE LeaseInv'
  <2>1. Enter(Mutex, c, LockTTL) /\ UNCHANGED <<now, flushes>> /\ c \in Owners
    BY <1>1, <1>k DEF Acquire
  <2>2. \A p \in Owners :
            held'[p] # Null /\ now < lease'[p]
               => Owns(held[p], p)' /\ locks'[held'[p]].expires >= lease'[p]
    BY <2>1, <1>k, EnterKeeps
  <2>3. \A d \in Clients : client'[d] = "inside" => held'[d] = Mutex
    BY <1>1, <1>k DEF Acquire, Enter, LeaseInv, LocksTypeOK
  <2> QED BY <2>1, <2>2, <2>3 DEF LeaseInv
<1>2. ASSUME NEW c \in Clients, Refused(c) PROVE LeaseInv'
  BY <1>2 DEF Refused, LeaseInv, LocksTypeOK, Owns, Free
<1>3. ASSUME NEW c \in Clients, LockTimeout(c) PROVE LeaseInv'
  BY <1>3 DEF LockTimeout, LeaseInv, LocksTypeOK, Owns, Free
<1>4. ASSUME NEW c \in Clients, Die(c) PROVE LeaseInv'
  BY <1>4, <1>k DEF Die, LeaseInv, LocksTypeOK, Owns, Free
<1>5. ASSUME NEW c \in Clients, Refresh(c) PROVE LeaseInv'
  <2>1. /\ locks'[Mutex] = [owner |-> c, expires |-> now + LockTTL] /\ locks'[Mutex] # Null
        /\ \A m \in Names \ {Mutex} : locks'[m] = locks[m]
    BY <1>5, <1>k, GrantMeans DEF Refresh
  <2>2. /\ client[c] = "inside" /\ held[c] = Mutex /\ Owns(Mutex, c)
        /\ lease' = [lease EXCEPT ![c] = now + LockTTL]
        /\ UNCHANGED <<now, clients, held, flushes>>
    BY <1>5 DEF Refresh, LeaseInv
  <2>3. ASSUME NEW p \in Owners, held[p] # Null, now < lease'[p]
        PROVE  Owns(held[p], p)' /\ locks'[held[p]].expires >= lease'[p]
    <3>1. CASE p = c
      BY <2>1, <2>2, <3>1, <1>k DEF Owns, Free, LocksTypeOK
    <3>2. CASE p # c
      <4>1. lease'[p] = lease[p] /\ held[p] \in Names
        BY <2>2, <2>3, <3>2 DEF LocksTypeOK
      <4>2. Owns(held[p], p) /\ locks[held[p]].expires >= lease[p]
        BY <2>3, <4>1 DEF LeaseInv
      <4>3. held[p] # Mutex
        BY <2>2, <3>2, <4>2 DEF Owns
      <4> QED BY <2>1, <2>2, <4>1, <4>2, <4>3 DEF Owns, Free
    <3> QED BY <3>1, <3>2
  <2>4. \A d \in Clients : client'[d] = "inside" => held'[d] = Mutex
    BY <2>2 DEF LeaseInv
  <2> QED BY <2>2, <2>3, <2>4 DEF LeaseInv
<1>6. ASSUME NEW c \in Clients, Release(c) PROVE LeaseInv'
  <2>1. Leave(Mutex, c) /\ UNCHANGED <<now, flushes>> /\ c \in Owners
    BY <1>6, <1>k DEF Release
  <2>2. \A p \in Owners :
            held'[p] # Null /\ now < lease'[p]
               => Owns(held[p], p)' /\ locks'[held'[p]].expires >= lease'[p]
    BY <2>1, <1>k, LeaveKeeps
  <2>3. \A d \in Clients : client'[d] = "inside" => held'[d] = Mutex
    BY <1>6, <1>k DEF Release, Leave, LeaseInv, LocksTypeOK
  <2> QED BY <2>1, <2>2, <2>3 DEF LeaseInv
<1>7. CASE ForceRelease
  <2>1. /\ lease' = [lease EXCEPT ![locks[Mutex].owner] = 0] /\ UNCHANGED <<now, clients, held>>
        /\ \A m \in Names \ {Mutex} : locks'[m] = locks[m]
    BY <1>7 DEF ForceRelease, LocksTypeOK
  <2>2. ASSUME NEW p \in Owners, held[p] # Null, now < lease'[p]
        PROVE  Owns(held[p], p)' /\ locks'[held[p]].expires >= lease'[p]
    <3>1. p # locks[Mutex].owner /\ lease'[p] = lease[p] /\ held[p] \in Names
      BY <2>1, <2>2 DEF LocksTypeOK
    <3>2. Owns(held[p], p) /\ locks[held[p]].expires >= lease[p]
      BY <2>2, <3>1 DEF LeaseInv
    <3>3. held[p] # Mutex
      BY <3>1, <3>2 DEF Owns
    <3> QED BY <2>1, <3>1, <3>2, <3>3 DEF Owns, Free
  <2> QED BY <2>1, <2>2 DEF LeaseInv
<1> QED BY <1>1, <1>2, <1>3, <1>4, <1>5, <1>6, <1>7 DEF LockStep

LEMMA LeaseRunStep ==
  ScheduleTypeOK /\ Started /\ now \in Nat /\ LeaseInv /\ RunStep => LeaseInv'
<1> SUFFICES ASSUME ScheduleTypeOK, Started, now \in Nat, LeaseInv, RunStep PROVE LeaseInv'
  OBVIOUS
<1>k. /\ ClaimTTL \in Nat /\ OverlapTTL \in Nat /\ LocksTypeOK
      /\ Runs \subseteq Owners /\ Clients \subseteq Owners /\ Runs \cap Clients = {}
  BY SchedulerAssumption, LocksAssumption DEF ScheduleTypeOK
<1>n. UNCHANGED <<now, locks, clients, held, lease, flushes>> => LeaseInv'
  BY DEF LeaseInv, Owns, Free
<1>c. ASSUME NEW r \in Runs, UNCHANGED clients, \A o \in Owners \ {r} : held'[o] = held[o]
      PROVE  \A c \in Clients : client'[c] = "inside" => held'[c] = Mutex
  BY <1>c, <1>k DEF LeaseInv
<1>1. ASSUME NEW k \in Ticks, RunDue(k) PROVE LeaseInv'
  BY <1>1, <1>n DEF RunDue, LocksKept
<1>2. ASSUME NEW k \in Ticks, Kill(k) PROVE LeaseInv'
  <2> DEFINE mine == {r \in Runs : r[1] = k /\ pc[r] \notin {"off", "over"}}
  <2>1. /\ held' = [o \in Owners |-> IF o \in mine THEN Null ELSE held[o]]
        /\ lease' = [o \in Owners |-> IF o \in mine THEN 0 ELSE lease[o]]
        /\ UNCHANGED <<now, locks, clients, flushes>>
    BY <1>2 DEF Kill
  <2>2. mine \subseteq Runs
    OBVIOUS
  <2> HIDE DEF mine
  <2>3. \A o \in Owners : held'[o] # Null => held'[o] = held[o] /\ lease'[o] = lease[o]
    BY <2>1
  <2>4. \A c \in Clients : held'[c] = held[c]
    BY <2>1, <2>2, <1>k
  <2> QED BY <2>1, <2>3, <2>4 DEF LeaseInv, Owns, Free
<1>3. ASSUME NEW r \in Runs, Down(r) \/ BeforeRaises(r) \/ \E raises \in BOOLEAN : Callback(r, raises)
      PROVE LeaseInv'
  BY <1>3, <1>n DEF Down, BeforeRaises, Callback, LocksKept
<1>4. ASSUME NEW r \in Runs, Claim(r) PROVE LeaseInv'
  <2> DEFINE name == ClaimName(r[2], minute[r[1]])
  <2>1. /\ name \in Names /\ UNCHANGED <<now, clients, held, lease, flushes>>
        /\ UNCHANGED locks \/ (Free(name) /\ Grant(name, r, ClaimTTL))
    BY <1>4, ClaimMeans
  <2> HIDE DEF name
  <2>2. CASE UNCHANGED locks
    BY <2>1, <2>2, <1>n
  <2>3. CASE Free(name) /\ Grant(name, r, ClaimTTL)
    <3>1. \A m \in Names \ {name} : locks'[m] = locks[m]
      BY <2>1, <2>3, <1>k, GrantMeans
    <3>2. \A o \in Owners : held[o] = Null \/ held[o] \in Names
      BY <1>k DEF LocksTypeOK
    <3> QED BY <2>1, <2>3, <3>1, <3>2 DEF LeaseInv, Owns, Free
  <2> QED BY <2>1, <2>2, <2>3
<1>5. ASSUME NEW r \in Runs, Lock(r) PROVE LeaseInv'
  <2> DEFINE name == OverlapName(r[2])
  <2>1. /\ name \in Names /\ UNCHANGED <<now, clients, flushes>>
        /\ UNCHANGED <<locks, held, lease>> \/ Enter(name, r, OverlapTTL)
    BY <1>5, LockMeans
  <2> HIDE DEF name
  <2>2. CASE UNCHANGED <<locks, held, lease>>
    BY <2>1, <2>2, <1>n
  <2>3. CASE Enter(name, r, OverlapTTL)
    <3>1. \A o \in Owners \ {r} : held'[o] = held[o]
      BY <2>3, <1>k DEF Enter, LocksTypeOK
    <3>2. \A c \in Clients : client'[c] = "inside" => held'[c] = Mutex
      BY <2>1, <3>1, <1>c
    <3>3. \A p \in Owners :
            held'[p] # Null /\ now < lease'[p]
               => Owns(held[p], p)' /\ locks'[held'[p]].expires >= lease'[p]
      BY <2>1, <2>3, <1>k, EnterKeeps
    <3> QED BY <2>1, <3>2, <3>3 DEF LeaseInv
  <2> QED BY <2>1, <2>2, <2>3
<1>6. ASSUME NEW r \in Runs, AfterRaises(r) PROVE LeaseInv'
  <2>1. /\ held' = [held EXCEPT ![r] = Null] /\ lease' = [lease EXCEPT ![r] = 0]
        /\ UNCHANGED <<now, locks, clients, flushes>>
    BY <1>6 DEF AfterRaises
  <2>2. \A o \in Owners \ {r} : held'[o] = held[o] /\ lease'[o] = lease[o]
    BY <2>1, <1>k DEF LocksTypeOK
  <2>3. held'[r] = Null
    BY <2>1, <1>k DEF LocksTypeOK
  <2> QED BY <2>1, <2>2, <2>3, <1>c DEF LeaseInv, Owns, Free
<1>7. ASSUME NEW r \in Runs, Finish(r) PROVE LeaseInv'
  <2>1. /\ r[2] \in Tasks /\ UNCHANGED <<now, clients, flushes>>
        /\ Leave(OverlapName(r[2]), r) \/ UNCHANGED <<locks, held, lease>>
    BY <1>7, FinishMeans
  <2>2. CASE UNCHANGED <<locks, held, lease>>
    BY <2>1, <2>2, <1>n
  <2>3. CASE Leave(OverlapName(r[2]), r)
    <3>1. \A o \in Owners \ {r} : held'[o] = held[o]
      BY <2>3, <1>k DEF Leave, LocksTypeOK
    <3>2. \A c \in Clients : client'[c] = "inside" => held'[c] = Mutex
      BY <2>1, <3>1, <1>c
    <3>3. \A p \in Owners :
            held'[p] # Null /\ now < lease'[p]
               => Owns(held[p], p)' /\ locks'[held'[p]].expires >= lease'[p]
      BY <2>1, <2>3, <1>k, LockNames, LeaveKeeps
    <3> QED BY <2>1, <3>2, <3>3 DEF LeaseInv
  <2> QED BY <2>1, <2>2, <2>3
<1> QED BY <1>1, <1>2, <1>3, <1>4, <1>5, <1>6, <1>7 DEF RunStep

\* The clock: a lock goes no earlier than its time.
LEMMA TickLocks ==
  ASSUME Tick, NEW n \in Names
  PROVE  /\ now' = now + 1 /\ UNCHANGED <<clients, held, lease, flushes, runVars>>
         /\ IF ~Free(n) /\ locks[n].expires <= now + 1 THEN Free(n)' ELSE locks'[n] = locks[n]
<1>1. /\ now' = now + 1 /\ UNCHANGED <<clients, held, lease, flushes, runVars>>
      /\ locks' = [m \in Names |->
                    IF ~Free(m) /\ locks[m].expires <= now + 1 THEN Null ELSE locks[m]]
  BY DEF Tick, ScheduleTick, LocksExpire
<1> QED BY <1>1 DEF Free

LEMMA LeaseTick == ScheduleTypeOK /\ now \in Nat /\ LeaseInv /\ Tick => LeaseInv'
<1> SUFFICES ASSUME ScheduleTypeOK, now \in Nat, LeaseInv, Tick PROVE LeaseInv'
  OBVIOUS
<1>1. now' = now + 1 /\ UNCHANGED <<clients, held, lease, flushes>>
  BY DEF Tick, ScheduleTick, LocksExpire
<1>2. ASSUME NEW o \in Owners, held[o] # Null, now + 1 < lease[o]
      PROVE  Owns(held[o], o)' /\ locks'[held[o]].expires >= lease[o]
  <2>1. held[o] \in Names /\ lease[o] \in Nat
    BY <1>2 DEF ScheduleTypeOK, LocksTypeOK
  <2>2. Owns(held[o], o) /\ locks[held[o]].expires >= lease[o]
    BY <1>2, <2>1 DEF LeaseInv
  <2>3. locks[held[o]].expires \in Nat
    BY <2>1, <2>2, LockType DEF ScheduleTypeOK, Owns
  <2>4. locks'[held[o]] = locks[held[o]]
    BY <1>2, <2>1, <2>2, <2>3, TickLocks
  <2> QED BY <1>1, <2>2, <2>4 DEF Owns, Free
<1> QED BY <1>1, <1>2 DEF LeaseInv

LEMMA LeaseNext == TypeInv /\ LeaseInv /\ [Next]_vars => LeaseInv'
<1> SUFFICES ASSUME TypeInv, LeaseInv, [Next]_vars PROVE LeaseInv'
  OBVIOUS
<1>t. ScheduleTypeOK /\ Started /\ LocksTypeOK /\ now \in Nat
  BY ClockAssumption DEF TypeInv, StoreOK, ScheduleTypeOK
<1>n. UNCHANGED <<now, lockVars>> => LeaseInv'
  BY DEF LeaseInv, Owns, Free
<1>1. CASE (FlexStep \/ TagStep \/ CountStep) /\ UNCHANGED lockVars
  <2>1. UNCHANGED now
    BY <1>1, FlexStore, TagStore, CountStore DEF TypeInv, Only
  <2> QED BY <1>1, <2>1, <1>n
<1>2. CASE ScheduleStep
  BY <1>2, <1>t, LeaseRunStep, LeaseLockStep DEF ScheduleStep
<1>3. CASE Flush
  <2>1. CASE UNCHANGED lockVars
    BY <1>3, <2>1, <1>n, FlushMeans
  <2>2. CASE lease' = [o \in Owners |-> 0]
    <3>1. \A o \in Owners : ~(now < lease'[o])
      BY <2>2, <1>t
    <3> QED BY <1>3, <3>1, FlushMeans DEF LeaseInv
  <2> QED BY <1>3, <2>1, <2>2, FlushMeans
<1>4. CASE Tick
  BY <1>4, <1>t, LeaseTick
<1>5. CASE UNCHANGED vars
  BY <1>5, <1>n DEF vars
<1> QED BY <1>1, <1>2, <1>3, <1>4, <1>5 DEF Next

\* Within its time a holder has the lock to itself, however late the release of an
\* earlier holder comes, and whoever died in between. A release by force and a flush that
\* drops the lock end the time it was granted for, and whoever takes it next has it in turn.
THEOREM LeaseKept == Spec => []LeaseHonoured
<1>1. Init => LeaseInv
  BY DEF Init, ScheduleInit, LocksInit, LeaseInv
<1>2. LeaseInv => LeaseHonoured
  BY DEF LeaseInv, LeaseHonoured
<1> QED BY <1>1, <1>2, TypeInit, TypeNext, LeaseNext, PTL DEF Spec

-----------------------------------------------------------------------------
(* The schedule.  A claim outlives its run, and no lock of a task is held by *)
(* another task's run or by a lock client.                                   *)

RunName(r) == ClaimName(r[2], minute[r[1]])

\* A run on one server has claimed before it goes on, and claims once.
ClaimedInv ==
    \A r \in Runs :
        /\ r[2] \in OneServer /\ (pc[r] \in {"lock", "running", "after"} \/ r \in executed)
              => claimed[r] # Null
        /\ claimed[r] # Null =>
              pc[r] \notin {"off", "gate"} /\ claimed[r].at <= now /\ claimed[r].flushes <= flushes

\* Its name is taken until the claim is ClaimTTL old or flushed.
ClaimKept ==
    \A r \in Runs :
        claimed[r] # Null /\ claimed[r].flushes = flushes /\ now < claimed[r].at + ClaimTTL =>
            ~Free(RunName(r)) /\ locks[RunName(r)].expires >= claimed[r].at + ClaimTTL

\* Two claims of a minute with no flush between them are ClaimTTL apart.
ClaimsApart ==
    \A q, r \in Runs :
        /\ q # r /\ q[2] = r[2] /\ minute[q[1]] = minute[r[1]]
        /\ claimed[q] # Null /\ claimed[r] # Null /\ claimed[q].flushes = claimed[r].flushes
        => Apart(claimed[q].at, claimed[r].at) >= ClaimTTL

ClaimsInv == ClaimedInv /\ ClaimKept /\ ClaimsApart

\* Who holds the overlap lock of a task.
OverlapHeld ==
    \A t \in Tasks : ~Free(OverlapName(t)) =>
        LET r == locks[OverlapName(t)].owner IN
        /\ r \in Runs /\ r[2] \in Overlap /\ OverlapName(r[2]) = OverlapName(t)
        /\ r \in abandoned \/ pc[r] \in {"running", "after"}

\* The clients have a lock of their own.
LEMMA LockStepElsewhere ==
  ASSUME LocksTypeOK, now \in Nat, LockStep, NEW n \in Names, n # Mutex
  PROVE  UNCHANGED now /\ locks'[n] = locks[n]
<1>k. Mutex \in Names /\ Clients \subseteq Owners /\ LockTTL \in Nat
  BY LocksAssumption
<1>1. ASSUME NEW c \in Clients, Acquire(c) \/ Refresh(c) PROVE UNCHANGED now /\ locks'[n] = locks[n]
  BY <1>1, <1>k, GrantMeans DEF Acquire, Enter, Refresh
<1>2. ASSUME NEW c \in Clients, Refused(c) \/ LockTimeout(c) \/ Die(c)
      PROVE UNCHANGED now /\ locks'[n] = locks[n]
  BY <1>2 DEF Refused, LockTimeout, Die
<1>3. ASSUME NEW c \in Clients, Release(c) PROVE UNCHANGED now /\ locks'[n] = locks[n]
  BY <1>3, <1>k, LeaveMeans DEF Release
<1>4. CASE ForceRelease
  BY <1>4 DEF ForceRelease, LocksTypeOK
<1> QED BY <1>1, <1>2, <1>3, <1>4 DEF LockStep

\* The names a run has to do with.
LEMMA RunNames ==
  ASSUME ScheduleTypeOK, NEW r \in Runs, minute[r[1]] # Null
  PROVE  /\ RunName(r) \in Names /\ RunName(r) # Mutex
         /\ \A t \in Tasks : RunName(r) # OverlapName(t)
         /\ r[1] \in Ticks /\ r[2] \in Tasks
<1>1. r[1] \in Ticks /\ r[2] \in Tasks
  BY DEF Runs
<1>2. minute[r[1]] \in {Wall[i] : i \in DOMAIN Wall}
  BY <1>1 DEF ScheduleTypeOK
<1> QED BY <1>1, <1>2, LockNames DEF RunName

\* Every step of a run but its claim leaves the claims, their locks and the clock alone.
LEMMA ClaimsUntouched ==
  ASSUME ScheduleTypeOK, Started, ClaimsInv, UNCHANGED <<now, flushes, claimed>>,
         \A r \in Runs : pc[r] # "off" => minute'[r[1]] = minute[r[1]],
         \A r \in Runs : claimed[r] # Null => locks'[RunName(r)] = locks[RunName(r)],
         \A r \in Runs : pc'[r] = pc[r] \/ (pc[r] = "off" /\ pc'[r] \in {"gate", "over"})
                         \/ (pc[r] = "gate" /\ pc'[r] = "over")
                         \/ (pc[r] = "gate" /\ r[2] \notin OneServer)
                         \/ (pc[r] \in {"lock", "running", "after"} /\ pc'[r] \notin {"off", "gate"}),
         \A r \in executed' : r \in executed \/ pc[r] = "running",
         \A r \in Runs : pc[r] # "off" => pc'[r] # "off"
  PROVE  ClaimsInv'
<1>1. \A r \in Runs : claimed[r] # Null => pc[r] # "off" /\ minute'[r[1]] = minute[r[1]] /\ RunName(r)' = RunName(r)
  BY DEF ClaimsInv, ClaimedInv, RunName, ClaimName
<1>2. ClaimedInv'
  BY DEF ClaimsInv, ClaimedInv
<1>3. ClaimKept'
  BY <1>1 DEF ClaimsInv, ClaimKept, Free
<1>4. ClaimsApart'
  BY <1>1 DEF ClaimsInv, ClaimsApart
<1> QED BY <1>2, <1>3, <1>4 DEF ClaimsInv

LEMMA NewClaim ==
  ASSUME ScheduleTypeOK, Started, now \in 0..MaxTime, ClaimsInv, NEW r \in Runs, Claim(r),
         r[2] \in OneServer, Free(RunName(r)), Grant(RunName(r), r, ClaimTTL),
         claimed' = [claimed EXCEPT ![r] = [at |-> now, flushes |-> flushes]], Move(r, "lock"),
         UNCHANGED <<now, flushes, minute, executed>>
  PROVE  ClaimsInv'
<1>k. /\ ClaimTTL \in Nat \ {0} /\ now \in Nat /\ LocksTypeOK /\ Runs \subseteq Owners
      /\ flushes \in Nat /\ [at |-> now, flushes |-> flushes] # Null
      /\ \A q \in Runs : claimed[q] # Null => claimed[q].at \in Nat /\ claimed[q].flushes \in Nat
  BY SchedulerAssumption, ClockAssumption DEF ScheduleTypeOK, LocksTypeOK
<1>g. pc[r] = "gate" /\ minute[r[1]] # Null
  BY ClaimMeans DEF Started
<1>1. RunName(r) \in Names
  BY <1>g, RunNames
<1>2. /\ locks'[RunName(r)] = [owner |-> r, expires |-> now + ClaimTTL] /\ locks'[RunName(r)] # Null
      /\ \A m \in Names \ {RunName(r)} : locks'[m] = locks[m]
  BY <1>1, <1>k, GrantMeans
<1>3. claimed'[r] = [at |-> now, flushes |-> flushes] /\ pc'[r] = "lock"
      /\ \A q \in Runs \ {r} : claimed'[q] = claimed[q] /\ pc'[q] = pc[q]
  BY DEF Move, ScheduleTypeOK
<1>4. \A q \in Runs : RunName(q)' = RunName(q)
  BY DEF RunName, ClaimName
<1>5. \A q \in Runs : claimed[q] # Null => minute[q[1]] # Null
  BY DEF ClaimsInv, ClaimedInv, Started
<1>6. ClaimedInv'
  <2> SUFFICES ASSUME NEW q \in Runs
               PROVE  /\ q[2] \in OneServer /\ (pc'[q] \in {"lock", "running", "after"} \/ q \in executed')
                            => claimed'[q] # Null
                      /\ claimed'[q] # Null =>
                            /\ pc'[q] \notin {"off", "gate"}
                            /\ claimed'[q].at <= now' /\ claimed'[q].flushes <= flushes'
    BY DEF ClaimedInv
  <2>1. CASE q = r
    BY <2>1, <1>3, <1>k
  <2>2. CASE q # r
    BY <2>2, <1>3 DEF ClaimsInv, ClaimedInv
  <2> QED BY <2>1, <2>2
<1>7. ClaimKept'
  <2> SUFFICES ASSUME NEW q \in Runs, claimed'[q] # Null, claimed'[q].flushes = flushes,
                      now < claimed'[q].at + ClaimTTL
               PROVE  locks'[RunName(q)] # Null /\ locks'[RunName(q)].expires >= claimed'[q].at + ClaimTTL
    BY <1>4 DEF ClaimKept, Free
  <2>1. CASE q = r
    BY <2>1, <1>2, <1>3, <1>k
  <2>2. CASE q # r
    <3>1. /\ claimed[q] # Null /\ claimed'[q] = claimed[q]
          /\ claimed[q].flushes = flushes /\ now < claimed[q].at + ClaimTTL
      BY <2>2, <1>3
    <3>2. ~Free(RunName(q)) /\ locks[RunName(q)].expires >= claimed[q].at + ClaimTTL
      BY <3>1 DEF ClaimsInv, ClaimKept
    <3>3. RunName(q) # RunName(r) /\ RunName(q) \in Names
      BY <3>1, <3>2, <1>5, RunNames
    <3> QED BY <3>1, <3>2, <3>3, <1>2 DEF Free
  <2> QED BY <2>1, <2>2
<1>8. ASSUME NEW q \in Runs, q # r, q[2] = r[2], minute[q[1]] = minute[r[1]],
             claimed[q] # Null, claimed[q].flushes = flushes
      PROVE Apart(claimed[q].at, now) >= ClaimTTL /\ Apart(now, claimed[q].at) >= ClaimTTL
  <2>1. RunName(q) = RunName(r)
    BY <1>8 DEF RunName
  <2>2. ~(now < claimed[q].at + ClaimTTL)
    BY <1>8, <2>1 DEF ClaimsInv, ClaimKept
  <2>3. claimed[q].at \in Nat /\ claimed[q].at <= now
    BY <1>8, <1>k DEF ClaimsInv, ClaimedInv
  <2> QED BY <2>2, <2>3, <1>k DEF Apart
<1>9. ClaimsApart'
  <2> SUFFICES ASSUME NEW q \in Runs, NEW p \in Runs, q # p, q[2] = p[2], minute[q[1]] = minute[p[1]],
                      claimed'[q] # Null, claimed'[p] # Null, claimed'[q].flushes = claimed'[p].flushes
               PROVE  Apart(claimed'[q].at, claimed'[p].at) >= ClaimTTL
    BY DEF ClaimsApart
  <2>1. CASE q = r
    BY <2>1, <1>3, <1>8
  <2>2. CASE p = r
    BY <2>2, <1>3, <1>8
  <2>3. CASE q # r /\ p # r
    BY <2>3, <1>3 DEF ClaimsInv, ClaimsApart
  <2> QED BY <2>1, <2>2, <2>3
<1> QED BY <1>6, <1>7, <1>9 DEF ClaimsInv

LEMMA ClaimsRunStep ==
  ScheduleTypeOK /\ Started /\ now \in 0..MaxTime /\ ClaimsInv /\ RunStep => ClaimsInv'
<1> SUFFICES ASSUME ScheduleTypeOK, Started, now \in 0..MaxTime, ClaimsInv, RunStep PROVE ClaimsInv'
  OBVIOUS
<1>k. /\ LocksTypeOK /\ now \in Nat /\ Runs \subseteq Owners /\ OverlapTTL \in Nat
      /\ pc \in [Runs -> {"off", "gate", "lock", "running", "after", "over"}]
      /\ executed \subseteq Runs
  BY SchedulerAssumption, ClockAssumption DEF ScheduleTypeOK
<1>n. \A r \in Runs : claimed[r] # Null =>
         RunName(r) \in Names /\ \A t \in Tasks : RunName(r) # OverlapName(t)
  BY RunNames DEF ClaimsInv, ClaimedInv, Started
<1>1. ASSUME NEW k \in Ticks, RunDue(k) PROVE ClaimsInv'
  <2>1. PICK i \in now..(now + Skew) : minute' = [minute EXCEPT ![k] = Wall[i]]
    BY <1>1 DEF RunDue
  <2>2. PICK due \in SUBSET Tasks :
          pc' = [r \in Runs |-> IF r[1] # k THEN pc[r] ELSE IF r[2] \in due THEN "gate" ELSE "over"]
    BY <1>1 DEF RunDue
  <2>3. \A r \in Runs : r[1] = k => pc[r] = "off"
    BY <1>1 DEF RunDue, Started
  <2>4. \A r \in Runs : pc[r] # "off" => minute'[r[1]] = minute[r[1]]
    <3>1. \A r \in Runs : r[1] \in Ticks
      BY DEF Runs
    <3> QED BY <2>1, <2>3, <3>1 DEF ScheduleTypeOK
  <2>5. UNCHANGED <<now, flushes, locks, claimed, executed>>
    BY <1>1 DEF RunDue, LocksKept
  <2> QED BY <2>2, <2>3, <2>4, <2>5, ClaimsUntouched
<1>2. ASSUME NEW k \in Ticks, Kill(k) PROVE ClaimsInv'
  <2>1. /\ \A r \in Runs : pc'[r] = pc[r] \/ (pc[r] \notin {"off", "over"} /\ pc'[r] = "over")
        /\ UNCHANGED <<now, flushes, locks, minute, claimed, executed>>
    BY <1>2 DEF Kill
  <2>2. \A r \in Runs : pc'[r] = pc[r] \/ (pc[r] \in {"gate", "lock", "running", "after"} /\ pc'[r] = "over")
    BY <2>1, <1>k
  <2> QED BY <2>1, <2>2, ClaimsUntouched
<1>3. ASSUME NEW r \in Runs,
             Down(r) \/ BeforeRaises(r) \/ AfterRaises(r) \/ (\E raises \in BOOLEAN : Callback(r, raises))
      PROVE ClaimsInv'
  <2>1. /\ UNCHANGED <<now, flushes, locks, minute, claimed>>
        /\ (pc[r] = "gate" /\ Move(r, "over")) \/ (pc[r] = "running" /\ Move(r, "after"))
           \/ (pc[r] = "after" /\ Move(r, "over"))
        /\ UNCHANGED executed \/ (pc[r] = "running" /\ executed' = executed \cup {r})
    BY <1>3 DEF Down, BeforeRaises, AfterRaises, Callback, LocksKept
  <2>2. \A q \in Runs : pc'[q] = IF q = r THEN pc'[r] ELSE pc[q]
    BY <2>1, <1>k DEF Move
  <2>3. (pc[r] = "gate" /\ pc'[r] = "over") \/ (pc[r] = "running" /\ pc'[r] = "after")
           \/ (pc[r] = "after" /\ pc'[r] = "over")
    BY <2>1, <1>k DEF Move
  <2> QED BY <2>1, <2>2, <2>3, ClaimsUntouched
<1>4. ASSUME NEW r \in Runs, Claim(r) PROVE ClaimsInv'
  <2>1. /\ pc[r] = "gate" /\ UNCHANGED <<now, flushes, minute, executed>>
        /\ \/ /\ r[2] \in OneServer /\ Free(RunName(r)) /\ Grant(RunName(r), r, ClaimTTL)
              /\ claimed' = [claimed EXCEPT ![r] = [at |-> now, flushes |-> flushes]] /\ Move(r, "lock")
           \/ r[2] \notin OneServer /\ Move(r, "lock") /\ UNCHANGED <<locks, claimed>>
           \/ Move(r, "over") /\ UNCHANGED <<locks, claimed>>
    BY <1>4, ClaimMeans DEF RunName
  <2>2. CASE Move(r, "lock") /\ r[2] \notin OneServer /\ UNCHANGED <<locks, claimed>>
    <3>1. pc'[r] = "lock" /\ \A q \in Runs \ {r} : pc'[q] = pc[q]
      BY <2>2, <1>k DEF Move
    <3> QED BY <2>1, <2>2, <3>1, ClaimsUntouched
  <2>3. CASE Move(r, "over") /\ UNCHANGED <<locks, claimed>>
    <3>1. pc'[r] = "over" /\ \A q \in Runs \ {r} : pc'[q] = pc[q]
      BY <2>3, <1>k DEF Move
    <3> QED BY <2>1, <2>3, <3>1, ClaimsUntouched
  <2>4. CASE /\ r[2] \in OneServer /\ Free(RunName(r)) /\ Grant(RunName(r), r, ClaimTTL)
             /\ claimed' = [claimed EXCEPT ![r] = [at |-> now, flushes |-> flushes]] /\ Move(r, "lock")
    BY <1>4, <2>1, <2>4, NewClaim
  <2> QED BY <2>1, <2>2, <2>3, <2>4
<1>5. ASSUME NEW r \in Runs, Lock(r) PROVE ClaimsInv'
  <2> DEFINE name == OverlapName(r[2])
  <2>1. /\ pc[r] = "lock" /\ r[2] \in Tasks /\ name \in Names /\ UNCHANGED <<now, flushes, minute, claimed, executed>>
        /\ Move(r, "running") \/ Move(r, "over")
        /\ Enter(name, r, OverlapTTL) \/ UNCHANGED locks
    BY <1>5, LockMeans
  <2>2. \A n \in Names \ {name} : locks'[n] = locks[n]
    <3>1. CASE Enter(name, r, OverlapTTL)
      <4> HIDE DEF name
      <4> QED BY <2>1, <3>1, <1>k, GrantMeans DEF Enter
    <3> QED BY <2>1, <3>1
  <2>3. \A q \in Runs : claimed[q] # Null => locks'[RunName(q)] = locks[RunName(q)]
    BY <2>1, <2>2, <1>n
  <2>4. pc'[r] \in {"running", "over"} /\ \A q \in Runs \ {r} : pc'[q] = pc[q]
    BY <2>1, <1>k DEF Move
  <2> HIDE DEF name
  <2> QED BY <2>1, <2>3, <2>4, ClaimsUntouched
<1>6. ASSUME NEW r \in Runs, Finish(r) PROVE ClaimsInv'
  <2> DEFINE name == OverlapName(r[2])
  <2>1. /\ pc[r] = "after" /\ r[2] \in Tasks /\ UNCHANGED <<now, flushes, minute, claimed, executed>>
        /\ Move(r, "over") /\ (Leave(name, r) \/ UNCHANGED locks)
        /\ name \in Names
    BY <1>6, FinishMeans, LockNames
  <2>2. \A n \in Names \ {name} : locks'[n] = locks[n]
    <3>1. CASE Leave(name, r)
      <4> HIDE DEF name
      <4> QED BY <2>1, <3>1, <1>k, LeaveMeans
    <3> QED BY <2>1, <3>1
  <2>3. \A q \in Runs : claimed[q] # Null => locks'[RunName(q)] = locks[RunName(q)]
    BY <2>1, <2>2, <1>n
  <2>4. pc'[r] = "over" /\ \A q \in Runs \ {r} : pc'[q] = pc[q]
    BY <1>6, <1>k, FinishMeans DEF Move
  <2> HIDE DEF name
  <2> QED BY <2>1, <2>3, <2>4, ClaimsUntouched
<1> QED BY <1>1, <1>2, <1>3, <1>4, <1>5, <1>6 DEF RunStep

LEMMA ClaimsTick == ScheduleTypeOK /\ Started /\ now \in Nat /\ ClaimsInv /\ Tick => ClaimsInv'
<1> SUFFICES ASSUME ScheduleTypeOK, Started, now \in Nat, ClaimsInv, Tick PROVE ClaimsInv'
  OBVIOUS
<1>1. now' = now + 1 /\ UNCHANGED <<runVars, flushes>>
  BY DEF Tick, ScheduleTick, LocksExpire
<1>2. \A r \in Runs : RunName(r)' = RunName(r)
  BY <1>1 DEF RunName, ClaimName
<1>k. ClaimTTL \in Nat /\ \A r \in Runs : claimed[r] # Null => claimed[r].at \in Nat
  BY SchedulerAssumption, ClockAssumption DEF ScheduleTypeOK
<1>3. ClaimedInv'
  BY <1>1, <1>k DEF ClaimsInv, ClaimedInv
<1>4. ClaimKept'
  <2> SUFFICES ASSUME NEW r \in Runs, claimed[r] # Null, claimed[r].flushes = flushes,
                      now + 1 < claimed[r].at + ClaimTTL
               PROVE  Free(RunName(r))' = FALSE /\ locks'[RunName(r)].expires >= claimed[r].at + ClaimTTL
    BY <1>1, <1>2 DEF ClaimKept, Free
  <2>1. ~Free(RunName(r)) /\ locks[RunName(r)].expires >= claimed[r].at + ClaimTTL
    BY <1>k DEF ClaimsInv, ClaimKept
  <2>2. RunName(r) \in Names
    BY RunNames DEF ClaimsInv, ClaimedInv, Started
  <2>3. locks[RunName(r)].expires \in Nat
    BY <2>1, <2>2, LockType DEF ScheduleTypeOK
  <2>4. locks'[RunName(r)] = locks[RunName(r)]
    BY <2>1, <2>2, <2>3, <1>k, TickLocks
  <2> QED BY <2>1, <2>4, <1>2 DEF Free
<1>5. ClaimsApart'
  BY <1>1 DEF ClaimsInv, ClaimsApart
<1> QED BY <1>3, <1>4, <1>5 DEF ClaimsInv

\* A flush drops the claims it finds, and then none is of the store as it is now.
LEMMA ClaimsFlush == ScheduleTypeOK /\ Started /\ ClaimsInv /\ Flush => ClaimsInv'
<1> SUFFICES ASSUME ScheduleTypeOK, Started, ClaimsInv, Flush PROVE ClaimsInv'
  OBVIOUS
<1>1. UNCHANGED <<now, runVars>> /\ \A r \in Runs : RunName(r)' = RunName(r)
  BY FlushMeans DEF RunName, ClaimName
<1>2. CASE UNCHANGED lockVars
  BY <1>1, <1>2 DEF ClaimsInv, ClaimedInv, ClaimKept, ClaimsApart, Free
<1>3. CASE flushes' = (IF \E n \in Names : ~Free(n) THEN flushes + 1 ELSE flushes)
  <2>1. /\ flushes \in Nat
        /\ \A r \in Runs : claimed[r] # Null => claimed[r].flushes \in Nat /\ RunName(r) \in Names
    <3>1. flushes \in Nat /\ \A r \in Runs : claimed[r] # Null => claimed[r].flushes \in Nat
      BY DEF ScheduleTypeOK, LocksTypeOK
    <3>2. \A r \in Runs : claimed[r] # Null => RunName(r) \in Names
      BY RunNames DEF ClaimsInv, ClaimedInv, Started
    <3> QED BY <3>1, <3>2
  <2>2. ASSUME NEW r \in Runs, claimed[r] # Null
        PROVE  /\ claimed[r].flushes <= flushes'
               /\ claimed[r].flushes = flushes' => ~(now < claimed[r].at + ClaimTTL)
    <3>1. claimed[r].flushes <= flushes
      BY <2>2 DEF ClaimsInv, ClaimedInv
    <3>2. CASE \E n \in Names : ~Free(n)
      BY <1>3, <2>1, <2>2, <3>1, <3>2
    <3>3. CASE ~\E n \in Names : ~Free(n)
      <4>1. flushes' = flushes /\ Free(RunName(r))
        BY <1>3, <2>1, <2>2, <3>3
      <4> QED BY <2>2, <3>1, <4>1 DEF ClaimsInv, ClaimKept
    <3> QED BY <3>2, <3>3
  <2>3. ClaimedInv'
    BY <1>1, <2>2 DEF ClaimsInv, ClaimedInv
  <2>4. ClaimKept'
    BY <1>1, <2>2 DEF ClaimKept
  <2>5. ClaimsApart'
    BY <1>1 DEF ClaimsInv, ClaimsApart
  <2> QED BY <2>3, <2>4, <2>5 DEF ClaimsInv
<1> QED BY <1>2, <1>3, FlushMeans

LEMMA ClaimsNext == TypeInv /\ ClaimsInv /\ [Next]_vars => ClaimsInv'
<1> SUFFICES ASSUME TypeInv, ClaimsInv, [Next]_vars PROVE ClaimsInv'
  OBVIOUS
<1>t. ScheduleTypeOK /\ Started /\ LocksTypeOK /\ now \in Nat /\ now \in 0..MaxTime
  BY ClockAssumption DEF TypeInv, StoreOK, ScheduleTypeOK
<1>n. UNCHANGED <<now, lockVars, runVars>> => ClaimsInv'
  BY DEF ClaimsInv, ClaimedInv, ClaimKept, ClaimsApart, RunName, ClaimName, Free
<1>1. CASE (FlexStep \/ TagStep \/ CountStep) /\ UNCHANGED <<lockVars, runVars>>
  <2>1. UNCHANGED now
    BY <1>1, FlexStore, TagStore, CountStore DEF TypeInv, Only
  <2> QED BY <1>1, <2>1, <1>n
<1>2. CASE RunStep
  BY <1>2, <1>t, ClaimsRunStep
<1>3. CASE LockStep /\ UNCHANGED runVars
  <2>1. UNCHANGED <<now, flushes>> /\ \A n \in Names : n # Mutex => locks'[n] = locks[n]
    <3>1. UNCHANGED <<now, flushes>>
      BY <1>3 DEF LockStep, Acquire, Refused, LockTimeout, Refresh, Release, Die, ForceRelease
    <3> QED BY <1>3, <3>1, <1>t, LockStepElsewhere
  <2>2. \A r \in Runs : claimed[r] # Null => RunName(r) \in Names /\ RunName(r) # Mutex
    BY <1>t, RunNames DEF ClaimsInv, ClaimedInv, Started
  <2> QED BY <1>3, <2>1, <2>2, <1>t, ClaimsUntouched
<1>4. CASE Flush
  BY <1>4, <1>t, ClaimsFlush
<1>5. CASE Tick
  BY <1>5, <1>t, ClaimsTick
<1>6. CASE UNCHANGED vars
  BY <1>6, <1>n DEF vars
<1> QED BY <1>1, <1>2, <1>3, <1>4, <1>5, <1>6 DEF Next, ScheduleStep

\* A task on one server is executed once for a minute of its clock, on however many
\* servers and however skewed: two executions for the same minute are ClaimTTL apart, or
\* the store was flushed between their claims.
THEOREM OnceAMinute == Spec => []OncePerMinute
<1>1. Init => ClaimsInv
  BY DEF Init, ScheduleInit, ClaimsInv, ClaimedInv, ClaimKept, ClaimsApart
<1>2. TypeInv /\ ClaimsInv => OncePerMinute
  <2> SUFFICES ASSUME TypeInv, ClaimsInv, NEW q \in executed, NEW r \in executed,
                      Repeats(q, r), claimed[q].flushes = claimed[r].flushes
               PROVE  FALSE
    BY DEF OncePerMinute
  <2>1. q \in Runs /\ r \in Runs
    BY DEF TypeInv, ScheduleTypeOK
  <2>2. claimed[q] # Null /\ claimed[r] # Null
    BY <2>1 DEF ClaimsInv, ClaimedInv, Repeats
  <2>3. claimed[q].at \in Nat /\ claimed[r].at \in Nat /\ ClaimTTL \in Nat
    BY <2>1, <2>2, SchedulerAssumption DEF TypeInv, ScheduleTypeOK
  <2>4. Apart(claimed[q].at, claimed[r].at) >= ClaimTTL
    BY <2>1, <2>2 DEF ClaimsInv, ClaimsApart, Repeats
  <2> QED BY <2>3, <2>4 DEF Repeats, Apart
<1> QED BY <1>1, <1>2, TypeInit, TypeNext, ClaimsNext, PTL DEF Spec

-----------------------------------------------------------------------------
(* Overlap locks *)

\* A step that leaves a task's lock to its holder, and its holder in flight or abandoned.
LEMMA OverlapUntouched ==
  ASSUME OverlapHeld, abandoned \subseteq abandoned',
         \A t \in Tasks : Free(OverlapName(t))' \/ locks'[OverlapName(t)] = locks[OverlapName(t)],
         \A r \in Runs : pc[r] \in {"running", "after"} =>
            \/ pc'[r] \in {"running", "after"} \/ r \in abandoned'
            \/ \A t \in Tasks : ~Free(OverlapName(t))' => locks'[OverlapName(t)].owner # r
  PROVE  OverlapHeld'
<1> SUFFICES ASSUME NEW t \in Tasks, ~Free(OverlapName(t))'
             PROVE  LET r == locks'[OverlapName(t)].owner IN
                    /\ r \in Runs /\ r[2] \in Overlap /\ OverlapName(r[2]) = OverlapName(t)
                    /\ r \in abandoned' \/ pc'[r] \in {"running", "after"}
  BY DEF OverlapHeld, OverlapName
<1>1. locks'[OverlapName(t)] = locks[OverlapName(t)]
  OBVIOUS
<1>2. ~Free(OverlapName(t))
  BY <1>1 DEF Free, OverlapName
<1> DEFINE r == locks[OverlapName(t)].owner
<1>3. /\ r \in Runs /\ r[2] \in Overlap /\ OverlapName(r[2]) = OverlapName(t)
      /\ r \in abandoned \/ pc[r] \in {"running", "after"}
  BY <1>2 DEF OverlapHeld
<1>4. r = locks'[OverlapName(t)].owner
  BY <1>1
<1> HIDE DEF r
<1>5. r \in abandoned' \/ pc'[r] \in {"running", "after"}
  BY <1>3, <1>4
<1> QED BY <1>3, <1>4, <1>5

LEMMA OverlapRunStep ==
  ScheduleTypeOK /\ Started /\ now \in 0..MaxTime /\ OverlapHeld /\ RunStep => OverlapHeld'
<1> SUFFICES ASSUME ScheduleTypeOK, Started, now \in 0..MaxTime, OverlapHeld, RunStep PROVE OverlapHeld'
  OBVIOUS
<1>k. /\ LocksTypeOK /\ now \in Nat /\ Runs \subseteq Owners /\ OverlapTTL \in Nat /\ ClaimTTL \in Nat
      /\ pc \in [Runs -> {"off", "gate", "lock", "running", "after", "over"}]
  BY SchedulerAssumption, ClockAssumption DEF ScheduleTypeOK
<1>n. ASSUME UNCHANGED locks PROVE \A t \in Tasks : locks'[OverlapName(t)] = locks[OverlapName(t)]
  BY <1>n
<1>1. ASSUME NEW k \in Ticks, RunDue(k) PROVE OverlapHeld'
  <2>1. PICK due \in SUBSET Tasks :
          pc' = [r \in Runs |-> IF r[1] # k THEN pc[r] ELSE IF r[2] \in due THEN "gate" ELSE "over"]
    BY <1>1 DEF RunDue
  <2>2. \A r \in Runs : r[1] = k => pc[r] = "off"
    BY <1>1 DEF RunDue, Started
  <2>3. UNCHANGED <<locks, abandoned>>
    BY <1>1 DEF RunDue, LocksKept
  <2> QED BY <2>1, <2>2, <2>3, <1>n, OverlapUntouched
<1>2. ASSUME NEW k \in Ticks, Kill(k) PROVE OverlapHeld'
  <2> DEFINE mine == {r \in Runs : r[1] = k /\ pc[r] \notin {"off", "over"}}
  <2>1. /\ pc' = [r \in Runs |-> IF r \in mine THEN "over" ELSE pc[r]]
        /\ abandoned' = abandoned \cup mine /\ UNCHANGED locks
    BY <1>2 DEF Kill
  <2> HIDE DEF mine
  <2>2. \A r \in Runs : pc'[r] = pc[r] \/ r \in abandoned'
    BY <2>1
  <2> QED BY <2>1, <2>2, <1>n, OverlapUntouched
<1>3. ASSUME NEW r \in Runs,
             Down(r) \/ BeforeRaises(r) \/ AfterRaises(r) \/ (\E raises \in BOOLEAN : Callback(r, raises))
      PROVE OverlapHeld'
  <2>1. /\ UNCHANGED locks /\ abandoned \subseteq abandoned'
        /\ (pc[r] = "gate" /\ Move(r, "over")) \/ Move(r, "after") \/ (Move(r, "over") /\ r \in abandoned')
    BY <1>3 DEF Down, BeforeRaises, AfterRaises, Callback, LocksKept
  <2>2. \A q \in Runs : pc[q] \in {"running", "after"} => pc'[q] \in {"running", "after"} \/ q \in abandoned'
    BY <2>1, <1>k DEF Move
  <2> QED BY <2>1, <2>2, <1>n, OverlapUntouched
<1>4. ASSUME NEW r \in Runs, Claim(r) PROVE OverlapHeld'
  <2> DEFINE name == ClaimName(r[2], minute[r[1]])
  <2>1. /\ pc[r] = "gate" /\ name \in Names /\ r[2] \in Tasks /\ UNCHANGED abandoned
        /\ Move(r, "lock") \/ Move(r, "over")
        /\ UNCHANGED locks \/ Grant(name, r, ClaimTTL)
    BY <1>4, ClaimMeans
  <2>2. \A t \in Tasks : OverlapName(t) \in Names /\ OverlapName(t) # name
    BY <2>1, LockNames
  <2> HIDE DEF name
  <2>3. \A t \in Tasks : locks'[OverlapName(t)] = locks[OverlapName(t)]
    <3>1. CASE Grant(name, r, ClaimTTL)
      <4>1. \A m \in Names \ {name} : locks'[m] = locks[m]
        BY <2>1, <3>1, <1>k, GrantMeans
      <4> QED BY <2>2, <4>1
    <3> QED BY <2>1, <3>1
  <2>4. \A q \in Runs : pc[q] \in {"running", "after"} => pc'[q] = pc[q]
    BY <2>1, <1>k DEF Move
  <2> QED BY <2>1, <2>3, <2>4, OverlapUntouched
<1>5. ASSUME NEW r \in Runs, Lock(r) PROVE OverlapHeld'
  <2>1. /\ pc[r] = "lock" /\ OverlapName(r[2]) \in Names /\ r[2] \in Tasks /\ UNCHANGED <<now, abandoned>>
        /\ \/ r[2] \in Overlap /\ Enter(OverlapName(r[2]), r, OverlapTTL) /\ Move(r, "running")
           \/ UNCHANGED locks /\ (Move(r, "running") \/ Move(r, "over"))
    BY <1>5, LockMeans
  <2>2. CASE UNCHANGED locks /\ (Move(r, "running") \/ Move(r, "over"))
    <3>1. \A q \in Runs : pc[q] \in {"running", "after"} => pc'[q] = pc[q]
      BY <2>1, <2>2, <1>k DEF Move
    <3> QED BY <2>1, <2>2, <3>1, <1>n, OverlapUntouched
  <2>3. CASE r[2] \in Overlap /\ Enter(OverlapName(r[2]), r, OverlapTTL) /\ Move(r, "running")
    <3> DEFINE name == OverlapName(r[2])
    <3>1. /\ locks'[name].owner = r /\ \A m \in Names \ {name} : locks'[m] = locks[m]
      <4>1. Grant(name, r, OverlapTTL) /\ name \in Names
        BY <2>1, <2>3 DEF Enter
      <4>2. r \in Owners
        BY <1>k
      <4> HIDE DEF name
      <4>3. locks'[name] = [owner |-> r, expires |-> now + OverlapTTL]
            /\ \A m \in Names \ {name} : locks'[m] = locks[m]
        BY <4>1, <4>2, <1>k, GrantMeans
      <4> QED BY <4>3
    <3>2. pc'[r] = "running" /\ \A q \in Runs \ {r} : pc'[q] = pc[q]
      BY <2>3, <1>k DEF Move
    <3> SUFFICES ASSUME NEW t \in Tasks, ~Free(OverlapName(t))'
                 PROVE  LET q == locks'[OverlapName(t)].owner IN
                        /\ q \in Runs /\ q[2] \in Overlap /\ OverlapName(q[2]) = OverlapName(t)
                        /\ q \in abandoned' \/ pc'[q] \in {"running", "after"}
      BY DEF OverlapHeld, OverlapName
    <3>3. CASE OverlapName(t) = name
      BY <2>3, <3>1, <3>2, <3>3
    <3>4. CASE OverlapName(t) # name
      <4>1. locks'[OverlapName(t)] = locks[OverlapName(t)]
        BY <3>1, <3>4, LockNames
      <4>2. ~Free(OverlapName(t))
        BY <4>1 DEF Free, OverlapName
      <4> DEFINE q == locks[OverlapName(t)].owner
      <4>3. /\ q \in Runs /\ q[2] \in Overlap /\ OverlapName(q[2]) = OverlapName(t)
            /\ q \in abandoned \/ pc[q] \in {"running", "after"}
        BY <4>2 DEF OverlapHeld
      <4> HIDE DEF q
      <4>4. q \in abandoned' \/ pc'[q] \in {"running", "after"}
        BY <4>3, <2>1, <3>2
      <4> QED BY <4>1, <4>3, <4>4 DEF q
    <3> QED BY <3>3, <3>4
  <2> QED BY <2>1, <2>2, <2>3
<1>6. ASSUME NEW r \in Runs, Finish(r) PROVE OverlapHeld'
  <2>1. /\ r[2] \in Tasks /\ Move(r, "over") /\ UNCHANGED abandoned
        /\ \/ r[2] \in Overlap /\ Leave(OverlapName(r[2]), r)
           \/ r[2] \notin Overlap /\ UNCHANGED locks
    BY <1>6, FinishMeans
  <2>2. \A q \in Runs \ {r} : pc'[q] = pc[q]
    BY <2>1, <1>k DEF Move
  <2>3. CASE r[2] \notin Overlap /\ UNCHANGED locks
    <3>1. \A t \in Tasks : ~Free(OverlapName(t))' => locks'[OverlapName(t)].owner # r
      BY <2>3 DEF OverlapHeld, Free, OverlapName
    <3> QED BY <2>1, <2>2, <2>3, <3>1, <1>n, OverlapUntouched
  <2>4. CASE r[2] \in Overlap /\ Leave(OverlapName(r[2]), r)
    <3> DEFINE name == OverlapName(r[2])
    <3>1. /\ \A m \in Names : m # name \/ ~Owns(name, r) => locks'[m] = locks[m]
          /\ Owns(name, r) => locks'[name] = Null
      <4>1. name \in Names /\ Leave(name, r)
        BY <2>1, <2>4, LockNames
      <4> HIDE DEF name
      <4> QED BY <4>1, <1>k, LeaveMeans
    <3>2. \A t \in Tasks : Free(OverlapName(t))' \/ locks'[OverlapName(t)] = locks[OverlapName(t)]
      BY <3>1, LockNames DEF Free, OverlapName
    <3>3. ASSUME NEW t \in Tasks, ~Free(OverlapName(t))', locks'[OverlapName(t)].owner = r PROVE FALSE
      <4>1. locks'[OverlapName(t)] = locks[OverlapName(t)]
        BY <3>2, <3>3
      <4>2. ~Free(OverlapName(t)) /\ locks[OverlapName(t)].owner = r
        BY <3>3, <4>1 DEF Free, OverlapName
      <4>3. OverlapName(t) = name
        BY <4>2 DEF OverlapHeld
      <4>4. Owns(name, r)
        BY <4>2, <4>3 DEF Owns
      <4>5. locks'[OverlapName(t)] = Null
        BY <3>1, <4>3, <4>4
      <4> QED BY <3>3, <4>5 DEF Free, OverlapName
    <3> QED BY <2>1, <2>2, <3>2, <3>3, OverlapUntouched
  <2> QED BY <2>1, <2>3, <2>4
<1> QED BY <1>1, <1>2, <1>3, <1>4, <1>5, <1>6 DEF RunStep

LEMMA OverlapNext == TypeInv /\ OverlapHeld /\ [Next]_vars => OverlapHeld'
<1> SUFFICES ASSUME TypeInv, OverlapHeld, [Next]_vars PROVE OverlapHeld'
  OBVIOUS
<1>t. ScheduleTypeOK /\ Started /\ LocksTypeOK /\ now \in Nat /\ now \in 0..MaxTime
  BY ClockAssumption DEF TypeInv, StoreOK, ScheduleTypeOK
<1>n. UNCHANGED <<lockVars, runVars>> => OverlapHeld'
  BY DEF OverlapHeld, OverlapName, Free
<1>1. CASE (FlexStep \/ TagStep \/ CountStep) /\ UNCHANGED <<lockVars, runVars>>
  BY <1>1, <1>n
<1>2. CASE RunStep
  BY <1>2, <1>t, OverlapRunStep
<1>3. CASE LockStep /\ UNCHANGED runVars
  <2>1. \A t \in Tasks : locks'[OverlapName(t)] = locks[OverlapName(t)]
    BY <1>3, <1>t, LockNames, LockStepElsewhere
  <2> QED BY <1>3, <2>1, OverlapUntouched
<1>4. CASE Flush
  <2>1. CASE UNCHANGED lockVars
    BY <1>4, <2>1, <1>n, FlushMeans
  <2>2. CASE locks' = [n \in Names |-> Null]
    BY <2>2, LockNames DEF OverlapHeld, Free, OverlapName
  <2> QED BY <1>4, <2>1, <2>2, FlushMeans
<1>5. CASE Tick
  <2>1. UNCHANGED runVars
    BY <1>5 DEF Tick, ScheduleTick
  <2>2. \A t \in Tasks : OverlapName(t) \in Names
    BY LockNames
  <2>3. \A t \in Tasks : Free(OverlapName(t))' \/ locks'[OverlapName(t)] = locks[OverlapName(t)]
    <3>1. \A n \in Names : Free(n)' \/ locks'[n] = locks[n]
      BY <1>5, TickLocks
    <3> QED BY <2>2, <3>1 DEF Free, OverlapName
  <2> QED BY <2>1, <2>3, OverlapUntouched
<1>6. CASE UNCHANGED vars
  BY <1>6, <1>n DEF vars
<1> QED BY <1>1, <1>2, <1>3, <1>4, <1>5, <1>6 DEF Next, ScheduleStep

\* A task is kept out by its overlap lock only while a run of it is in flight, or after
\* one was killed or left by an exception of its after hooks.
THEOREM OverlapMeansInFlight == Spec => []LockedMeansInFlight
<1>1. Init => OverlapHeld
  BY LockNames DEF Init, ScheduleInit, LocksInit, OverlapHeld, Free
<1>2. OverlapHeld => LockedMeansInFlight
  BY DEF OverlapHeld, LockedMeansInFlight
<1> QED BY <1>1, <1>2, TypeInit, TypeNext, OverlapNext, PTL DEF Spec

-----------------------------------------------------------------------------
(* Stale-while-revalidate *)

Alive(r) == refresh[r] # Null

\* Undisturbed there is one background refresh at most, and its guard outlives it.
GuardInv ==
    ~disturbed =>
        /\ \A r, s \in Refreshes : Alive(r) /\ Alive(s) => r = s
        /\ \A r \in Refreshes : Alive(r) =>
              /\ Present(Guard) /\ entries[Guard].expires = refresh[r].since + GuardTTL
              /\ now = refresh[r].since \/ now < refresh[r].since + Stale

\* A value is read before it is stamped, and at most a callback's time before.
EntryInv ==
    Present(Page) =>
        LET v == entries[Page].value IN
        v.read <= v.stamp /\ v.stamp <= now /\ v.stamp - v.read <= Slow

CallersInv ==
    \A c \in Callers : caller[c].since <= now
        /\ (caller[c].at = "compute" => now - caller[c].since <= Slow)

RefreshInv ==
    \A r \in Refreshes : Alive(r) => refresh[r].since <= now
        /\ (refresh[r].at = "compute" => now - refresh[r].since <= Slow)

FlexInv == GuardInv /\ EntryInv /\ CallersInv /\ RefreshInv

LEMMA FlexFacts ==
  ASSUME TypeInv
  PROVE  /\ now \in Nat /\ Page \in Keys /\ Guard \in Keys /\ Page # Guard
         /\ Stale \in Nat /\ Slow \in Nat /\ GuardTTL \in Nat /\ GuardTTL >= Stale /\ GuardTTL >= 1
         /\ Present(Page) => entries[Page].value.read \in Nat /\ entries[Page].value.stamp \in Nat
         /\ caller \in [Callers -> [at : {"idle", "guard", "compute"}, since : 0..MaxTime]]
         /\ \A c \in Callers : caller[c].since \in Nat
         /\ refresh \in [Refreshes -> [at : {"compute", "end"}, since : 0..MaxTime] \cup {Null}]
         /\ \A r \in Refreshes : Alive(r) => refresh[r].since \in Nat
         /\ StoreOK /\ FlexTypeOK
<1>1. StoreOK /\ FlexTypeOK /\ MaxTime \in Nat
  BY ClockAssumption DEF TypeInv
<1>2. Stale \in Nat /\ Slow \in Nat
  BY FlexibleAssumption
<1>3. GuardTTL \in Nat /\ GuardTTL >= Stale /\ GuardTTL >= 1
  BY <1>2 DEF GuardTTL
<1>4. Page \in Keys /\ Guard \in Keys /\ Page # Guard
      /\ Values(Page) = [read : 0..MaxTime, stamp : 0..MaxTime]
  BY KeysApart
<1>5. Present(Page) => entries[Page].value.read \in Nat /\ entries[Page].value.stamp \in Nat
  <2>1. Present(Page) => entries[Page].value \in [read : 0..MaxTime, stamp : 0..MaxTime]
    BY <1>1, <1>4 DEF StoreOK, Entry
  <2> QED BY <1>1, <2>1
<1>6. now \in Nat
  BY <1>1 DEF StoreOK
<1>7. /\ \A c \in Callers : caller[c].since \in Nat
      /\ \A r \in Refreshes : Alive(r) => refresh[r].since \in Nat
  BY <1>1 DEF FlexTypeOK, Alive
<1> QED BY <1>1, <1>2, <1>3, <1>4, <1>5, <1>6, <1>7 DEF FlexTypeOK

LEMMA GuardUntouched ==
  GuardInv /\ UNCHANGED <<now, refresh, disturbed>> /\ entries'[Guard] = entries[Guard] => GuardInv'
  BY DEF GuardInv, Alive, Present, GuardTTL

LEMMA EntryUntouched == EntryInv /\ UNCHANGED now /\ entries'[Page] = entries[Page] => EntryInv'
  BY DEF EntryInv, Present

LEMMA RefreshUntouched == RefreshInv /\ UNCHANGED <<now, refresh>> => RefreshInv'
  BY DEF RefreshInv, Alive

LEMMA CallersUntouched == CallersInv /\ UNCHANGED <<now, caller>> => CallersInv'
  BY DEF CallersInv

LEMMA CallerMoves ==
  ASSUME TypeInv, CallersInv, NEW c \in Callers, UNCHANGED now,
         \/ caller' = [caller EXCEPT ![c] = Idle]
         \/ \E at \in {"guard", "compute"} : Become(c, at)
  PROVE  CallersInv'
<1>k. /\ now \in Nat /\ Slow \in Nat
      /\ caller \in [Callers -> [at : {"idle", "guard", "compute"}, since : 0..MaxTime]]
  BY FlexFacts
<1>1. \A d \in Callers \ {c} : caller'[d] = caller[d]
  BY <1>k DEF Become
<1>2. caller'[c].since <= now /\ (caller'[c].at = "compute" => now - caller'[c].since <= Slow)
  <2>1. CASE caller' = [caller EXCEPT ![c] = Idle]
    BY <2>1, <1>k DEF Idle
  <2>2. ASSUME NEW at \in {"guard", "compute"}, Become(c, at)
        PROVE  caller'[c].since <= now /\ (caller'[c].at = "compute" => now - caller'[c].since <= Slow)
    <3>1. caller'[c] = [at |-> at, since |-> now]
      BY <2>2, <1>k DEF Become
    <3> QED BY <3>1, <1>k
  <2> QED BY <2>1, <2>2
<1> QED BY <1>1, <1>2 DEF CallersInv

LEMMA FlexCaller ==
  ASSUME TypeInv, FlexInv, NEW c \in Callers,
         ServeStale(c) \/ Miss(c) \/ Store(c) \/ CallbackRaises(c) \/ RevalidateOnce(c)
  PROVE  FlexInv'
<1>i. GuardInv /\ EntryInv /\ CallersInv /\ RefreshInv
  BY DEF FlexInv
<1>k. /\ now \in Nat /\ Page \in Keys /\ Guard \in Keys /\ Page # Guard
      /\ Stale \in Nat /\ Slow \in Nat /\ GuardTTL \in Nat /\ GuardTTL >= 1
      /\ \A d \in Callers : caller[d].since \in Nat
      /\ refresh \in [Refreshes -> [at : {"compute", "end"}, since : 0..MaxTime] \cup {Null}]
      /\ caller \in [Callers -> [at : {"idle", "guard", "compute"}, since : 0..MaxTime]]
      /\ StoreOK
  BY FlexFacts
<1>v. Values(Page) = [read : 0..MaxTime, stamp : 0..MaxTime] /\ "1" \in Values(Guard)
      /\ MaxTime \in Nat
  BY KeysApart, ClockAssumption
<1>1. UNCHANGED now
      /\ (caller' = [caller EXCEPT ![c] = Idle] \/ \E at \in {"guard", "compute"} : Become(c, at))
  BY DEF ServeStale, Miss, Store, CallbackRaises, RevalidateOnce
<1>2. CallersInv'
  BY <1>1, <1>i, CallerMoves
<1>3. CASE ServeStale(c) \/ Miss(c) \/ CallbackRaises(c)
  <2>1. UNCHANGED <<now, entries, refresh, disturbed>>
    BY <1>3 DEF ServeStale, Miss, CallbackRaises
  <2> QED BY <2>1, <1>i, <1>2, GuardUntouched, EntryUntouched, RefreshUntouched DEF FlexInv
<1>4. CASE Store(c)
  <2> DEFINE v == [read |-> caller[c].since, stamp |-> caller[c].since]
  <2>1. caller[c].at = "compute" /\ Put(Page, v, Stale) /\ UNCHANGED <<now, refresh, disturbed>>
    BY <1>4 DEF Store
  <2>2. v \in Values(Page)
    BY <1>k, <1>v
  <2> HIDE DEF v
  <2>3. entries'[Page] = [value |-> v, expires |-> Until(Stale)] /\ entries'[Guard] = entries[Guard]
    BY <2>1, <2>2, <1>k, PutKeeps
  <2>4. EntryInv'
    <3>1. entries'[Page].value.read = caller[c].since /\ entries'[Page].value.stamp = caller[c].since
      BY <2>3 DEF v
    <3>2. caller[c].since <= now /\ caller[c].since \in Nat
      BY <1>i, <1>k DEF CallersInv
    <3> QED BY <2>1, <3>1, <3>2, <1>k DEF EntryInv
  <2> QED BY <2>1, <2>3, <2>4, <1>i, <1>2, GuardUntouched, RefreshUntouched DEF FlexInv
<1>5. CASE RevalidateOnce(c)
  <2>1. CASE Present(Guard)
    <3>1. UNCHANGED <<now, entries, refresh, disturbed>>
      BY <1>5, <2>1, Zenon DEF RevalidateOnce
    <3> QED BY <3>1, <1>i, <1>2, GuardUntouched, EntryUntouched, RefreshUntouched DEF FlexInv
  <2>2. CASE ~Present(Guard)
    <3>1. Put(Guard, "1", GuardTTL) /\ UNCHANGED <<now, disturbed>>
      BY <1>5, <2>2, Zenon DEF RevalidateOnce
    <3>2. PICK r \in Refreshes : refresh' = [refresh EXCEPT ![r] = [at |-> "compute", since |-> now]]
      BY <1>5, <2>2, Zenon DEF RevalidateOnce
    <3>3. /\ entries'[Guard] = [value |-> "1", expires |-> Until(GuardTTL)] /\ Present(Guard)'
          /\ entries'[Page] = entries[Page]
      BY <3>1, <1>k, <1>v, PutKeeps
    <3>4. entries'[Guard].expires = now + GuardTTL
      <4>1. GuardTTL # Null
        BY <1>k, ClockAssumption
      <4> QED BY <3>3, <4>1 DEF Until
    <3>5. refresh'[r] = [at |-> "compute", since |-> now] /\ \A s \in Refreshes \ {r} : refresh'[s] = refresh[s]
      BY <3>2, <1>k
    <3>6. ~disturbed => \A s \in Refreshes : ~Alive(s)
      BY <2>2, <1>i DEF GuardInv
    <3>7. GuardInv'
      <4> SUFFICES ASSUME ~disturbed' PROVE
            /\ \A s, q \in Refreshes : Alive(s)' /\ Alive(q)' => s = q
            /\ \A s \in Refreshes : Alive(s)' =>
                  /\ Present(Guard)' /\ entries'[Guard].expires = refresh'[s].since + GuardTTL
                  /\ now' = refresh'[s].since \/ now' < refresh'[s].since + Stale
        BY DEF GuardInv, GuardTTL
      <4>1. \A s \in Refreshes : Alive(s)' => s = r
        BY <3>1, <3>5, <3>6 DEF Alive
      <4>2. refresh'[r].since = now
        BY <3>5
      <4> QED BY <3>1, <3>3, <3>4, <4>1, <4>2
    <3>8. RefreshInv'
      <4>1. refresh'[r].since = now
        BY <3>5
      <4> QED BY <3>1, <3>5, <4>1, <1>i, <1>k DEF RefreshInv, Alive
    <3> QED BY <3>1, <3>3, <3>7, <3>8, <1>i, <1>2, EntryUntouched DEF FlexInv
  <2> QED BY <2>1, <2>2
<1> QED BY <1>3, <1>4, <1>5

LEMMA FlexRefresh ==
  ASSUME TypeInv, FlexInv, NEW r \in Refreshes,
         RefreshStores(r) \/ RefreshRaises(r) \/ RefreshEnds(r) \/ RefreshDies(r)
  PROVE  FlexInv'
<1>i. GuardInv /\ EntryInv /\ CallersInv /\ RefreshInv
  BY DEF FlexInv
<1>k. /\ now \in Nat /\ Page \in Keys /\ Guard \in Keys /\ Page # Guard
      /\ Stale \in Nat /\ Slow \in Nat /\ now \in 0..MaxTime
      /\ refresh \in [Refreshes -> [at : {"compute", "end"}, since : 0..MaxTime] \cup {Null}]
      /\ \A s \in Refreshes : Alive(s) => refresh[s].since \in Nat
      /\ StoreOK
  BY FlexFacts DEF StoreOK
<1>v. Values(Page) = [read : 0..MaxTime, stamp : 0..MaxTime]
  BY KeysApart
<1>1. UNCHANGED <<now, caller, disturbed>> /\ Alive(r)
  BY DEF RefreshStores, RefreshRaises, RefreshEnds, RefreshDies, Computes, Alive
<1>2. CallersInv'
  BY <1>1, <1>i, CallersUntouched
<1>e. ASSUME refresh' = [refresh EXCEPT ![r].at = "end"]
      PROVE  /\ \A s \in Refreshes : (Alive(s)' <=> Alive(s)) /\ (Alive(s) => refresh'[s].since = refresh[s].since)
             /\ RefreshInv'
             /\ (entries'[Guard] = entries[Guard] => GuardInv')
  <2>1. refresh[r] \in [at : {"compute", "end"}, since : 0..MaxTime]
    BY <1>1, <1>k DEF Alive
  <2>2. /\ refresh'[r].since = refresh[r].since /\ refresh'[r].at = "end"
        /\ refresh'[r] \in [at : {"compute", "end"}, since : 0..MaxTime]
        /\ \A s \in Refreshes \ {r} : refresh'[s] = refresh[s]
    BY <1>e, <2>1, <1>k
  <2>3. refresh'[r] # Null
    BY <2>2, FlexibleAssumption
  <2>4. \A s \in Refreshes : (Alive(s)' <=> Alive(s)) /\ (Alive(s) => refresh'[s].since = refresh[s].since)
    BY <2>2, <2>3, <1>1 DEF Alive
  <2>5. RefreshInv'
    BY <2>2, <2>4, <1>1, <1>i DEF RefreshInv
  <2>6. ASSUME entries'[Guard] = entries[Guard] PROVE GuardInv'
    BY <2>4, <2>6, <1>1, <1>i DEF GuardInv, Present, GuardTTL
  <2> QED BY <2>4, <2>5, <2>6
<1>3. CASE RefreshStores(r)
  <2> DEFINE v == [read |-> refresh[r].since, stamp |-> now]
  <2>1. Put(Page, v, Stale) /\ refresh' = [refresh EXCEPT ![r].at = "end"] /\ refresh[r].at = "compute"
    BY <1>3 DEF RefreshStores, Computes
  <2>2. v \in Values(Page)
    BY <1>1, <1>k, <1>v DEF Alive
  <2> HIDE DEF v
  <2>3. entries'[Page] = [value |-> v, expires |-> Until(Stale)] /\ entries'[Guard] = entries[Guard]
    BY <2>1, <2>2, <1>1, <1>k, PutKeeps
  <2>4. EntryInv'
    <3>1. entries'[Page].value.read = refresh[r].since /\ entries'[Page].value.stamp = now
      BY <2>3 DEF v
    <3>2. refresh[r].since <= now /\ refresh[r].since \in Nat /\ now - refresh[r].since <= Slow
      BY <1>1, <1>i, <1>k, <2>1 DEF RefreshInv
    <3> QED BY <1>1, <3>1, <3>2, <1>k DEF EntryInv
  <2> QED BY <2>1, <2>3, <2>4, <1>2, <1>e DEF FlexInv
<1>4. CASE RefreshRaises(r)
  <2>1. refresh' = [refresh EXCEPT ![r].at = "end"] /\ UNCHANGED entries
    BY <1>4 DEF RefreshRaises
  <2> QED BY <2>1, <1>1, <1>2, <1>e, <1>i, EntryUntouched DEF FlexInv
<1>5. CASE RefreshEnds(r) \/ RefreshDies(r)
  <2>1. refresh' = [refresh EXCEPT ![r] = Null] /\ (Forget(Guard) \/ UNCHANGED entries)
    BY <1>5 DEF RefreshEnds, RefreshDies
  <2>2. /\ \A s \in Refreshes \ {r} : refresh'[s] = refresh[s]
        /\ ~Alive(r)'
    BY <2>1, <1>k DEF Alive
  <2>3. entries'[Page] = entries[Page]
    BY <2>1, <1>1, <1>k, ForgetKeeps
  <2>4. RefreshInv'
    BY <2>2, <1>1, <1>i DEF RefreshInv, Alive
  <2>5. GuardInv'
    <3>1. ~disturbed => \A s \in Refreshes : ~Alive(s)'
      BY <2>2, <1>1, <1>i DEF GuardInv, Alive
    <3> QED BY <3>1, <1>1 DEF GuardInv
  <2> QED BY <2>3, <2>4, <2>5, <1>1, <1>2, <1>i, EntryUntouched DEF FlexInv
<1> QED BY <1>3, <1>4, <1>5

LEMMA FlexTicks == TypeInv /\ FlexInv /\ Tick => FlexInv'
<1> SUFFICES ASSUME TypeInv, FlexInv, Tick PROVE FlexInv'
  OBVIOUS
<1>i. GuardInv /\ EntryInv /\ CallersInv /\ RefreshInv
  BY DEF FlexInv
<1>k. /\ now \in Nat /\ Page \in Keys /\ Guard \in Keys
      /\ Stale \in Nat /\ Slow \in Nat /\ GuardTTL \in Nat /\ GuardTTL >= Stale
      /\ Present(Page) => entries[Page].value.read \in Nat /\ entries[Page].value.stamp \in Nat
      /\ \A c \in Callers : caller[c].since \in Nat
      /\ \A r \in Refreshes : Alive(r) => refresh[r].since \in Nat
      /\ StoreOK
  BY FlexFacts
<1>1. /\ \A c \in Callers : caller[c].at = "compute" => now - caller[c].since < Slow
      /\ \A r \in Refreshes : Computes(r) => now - refresh[r].since < Slow
      /\ UNCHANGED <<caller, refresh>>
      /\ ~disturbed' => ~disturbed /\ \A r \in Refreshes : Alive(r) => ~(now + 1 >= refresh[r].since + Stale)
  BY DEF Tick, FlexTick, Alive
<1>2. now' = now + 1
  BY DEF Tick
<1>3. \A k \in Keys : IF Present(k) /\ entries[k].expires = now + 1
                      THEN ~Present(k)' ELSE entries'[k] = entries[k]
  BY <1>k, TickStore
<1>4. CallersInv'
  BY <1>1, <1>2, <1>i, <1>k DEF CallersInv
<1>5. RefreshInv'
  BY <1>1, <1>2, <1>i, <1>k DEF RefreshInv, Alive, Computes
<1>6. EntryInv'
  <2>1. Present(Page)' => entries'[Page] = entries[Page] /\ Present(Page)
    BY <1>3, <1>k DEF Present
  <2> QED BY <2>1, <1>2, <1>i, <1>k DEF EntryInv
<1>7. GuardInv'
  <2> SUFFICES ASSUME ~disturbed' PROVE
        /\ \A s, q \in Refreshes : Alive(s)' /\ Alive(q)' => s = q
        /\ \A s \in Refreshes : Alive(s)' =>
              /\ Present(Guard)' /\ entries'[Guard].expires = refresh'[s].since + GuardTTL
              /\ now' = refresh'[s].since \/ now' < refresh'[s].since + Stale
    BY DEF GuardInv, GuardTTL
  <2>1. \A s \in Refreshes : (Alive(s)' <=> Alive(s)) /\ refresh'[s] = refresh[s]
    BY <1>1 DEF Alive
  <2>2. \A s, q \in Refreshes : Alive(s) /\ Alive(q) => s = q
    BY <1>1, <1>i DEF GuardInv
  <2>3. ASSUME NEW s \in Refreshes, Alive(s)
        PROVE  /\ Present(Guard)' /\ entries'[Guard].expires = refresh'[s].since + GuardTTL
               /\ now' = refresh'[s].since \/ now' < refresh'[s].since + Stale
    <3>1. now + 1 < refresh[s].since + Stale
      BY <2>3, <1>1, <1>k
    <3>2. Present(Guard) /\ entries[Guard].expires = refresh[s].since + GuardTTL
      BY <2>3, <1>1, <1>i DEF GuardInv
    <3>3. entries[Guard].expires # now + 1
      BY <2>3, <3>1, <3>2, <1>k
    <3>4. entries'[Guard] = entries[Guard]
      BY <3>3, <1>3, <1>k
    <3> QED BY <3>1, <3>2, <3>4, <2>1, <1>2, <1>k DEF Present
  <2> QED BY <2>1, <2>2, <2>3
<1> QED BY <1>4, <1>5, <1>6, <1>7 DEF FlexInv

LEMMA FlexNext == TypeInv /\ FlexInv /\ [Next]_vars => FlexInv'
<1> SUFFICES ASSUME TypeInv, FlexInv, [Next]_vars PROVE FlexInv'
  OBVIOUS
<1>i. GuardInv /\ EntryInv /\ CallersInv /\ RefreshInv
  BY DEF FlexInv
<1>n. UNCHANGED <<now, flexVars>> /\ entries'[Page] = entries[Page] /\ entries'[Guard] = entries[Guard]
         => FlexInv'
  BY <1>i, GuardUntouched, EntryUntouched, RefreshUntouched, CallersUntouched DEF FlexInv
<1>1. CASE FlexStep
  BY <1>1, FlexCaller, FlexRefresh DEF FlexStep
<1>2. CASE (TagStep \/ CountStep) /\ UNCHANGED flexVars
  <2>1. UNCHANGED now /\ (Only(Tagged) \/ Only({Limited, Throttle}))
    BY <1>2, TagStore, CountStore DEF TypeInv, Only
  <2>2. entries'[Page] = entries[Page] /\ entries'[Guard] = entries[Guard]
    BY <2>1, KeysApart DEF Only
  <2> QED BY <1>2, <2>1, <2>2, <1>n
<1>3. CASE (ScheduleStep /\ UNCHANGED <<entries, flexVars>>) \/ UNCHANGED vars
  <2>1. UNCHANGED <<now, entries>>
    BY <1>3, OthersStore DEF TypeInv
  <2>2. UNCHANGED flexVars
    BY <1>3 DEF vars
  <2> QED BY <2>1, <2>2, <1>n
<1>4. CASE Flush
  <2>1. disturbed' /\ UNCHANGED <<now, caller, refresh>>
    BY <1>4 DEF Flush
  <2>2. ~Present(Page)'
    BY <1>4, FlushStore, FlexFacts
  <2> QED BY <2>1, <2>2, <1>i, RefreshUntouched, CallersUntouched DEF FlexInv, GuardInv, EntryInv
<1>5. CASE Tick
  BY <1>5, FlexTicks
<1> QED BY <1>1, <1>2, <1>3, <1>4, <1>5 DEF Next

\* One recompute at a time unless one outlives its guard or the store is flushed, and
\* nothing served that was computed longer ago than the stale window and one callback.
THEOREM FlexibleRight == Spec => []RefreshRight
<1>1. Init => FlexInv
  <2> SUFFICES ASSUME Init PROVE FlexInv
    OBVIOUS
  <2>1. Page \in Keys /\ Slow \in Nat
    BY KeysApart, FlexibleAssumption
  <2> QED BY <2>1 DEF Init, StoreInit, FlexInit, Idle, FlexInv, GuardInv, EntryInv, CallersInv, RefreshInv,
                     Alive, Present
<1>2. TypeInv /\ FlexInv => SingleFlight
  <2> SUFFICES ASSUME TypeInv, FlexInv, ~disturbed
               PROVE  ~(Cardinality({r \in Refreshes : Computes(r)}) > 1)
    BY DEF SingleFlight, TypeInv, FlexTypeOK
  <2> DEFINE computing == {r \in Refreshes : Computes(r)}
  <2>1. \A r, s \in computing : r = s
    BY DEF FlexInv, GuardInv, Alive, Computes
  <2>2. CASE computing = {}
    BY <2>2, FS_EmptySet
  <2>3. ASSUME NEW r \in computing PROVE ~(Cardinality(computing) > 1)
    <3>1. computing = {r}
      BY <2>1, <2>3
    <3> HIDE DEF computing
    <3>2. Cardinality({r}) = 1
      BY FS_Singleton
    <3> QED BY <3>1, <3>2
  <2> QED BY <2>2, <2>3
<1>3. TypeInv /\ FlexInv => BoundedStaleness
  <2> SUFFICES ASSUME TypeInv, FlexInv, Present(Page), Age <= Stale
               PROVE  now - entries[Page].value.read <= Stale + Slow
    BY DEF BoundedStaleness
  <2>1. /\ now \in Nat /\ Stale \in Nat /\ Slow \in Nat
        /\ entries[Page].value.read \in Nat /\ entries[Page].value.stamp \in Nat
    BY FlexFacts
  <2>2. /\ entries[Page].value.stamp - entries[Page].value.read <= Slow
        /\ now - entries[Page].value.stamp <= Stale
    BY DEF FlexInv, EntryInv, Age
  <2> QED BY <2>1, <2>2
<1>4. TypeInv /\ FlexInv => RefreshRight
  BY <1>2, <1>3 DEF RefreshRight
<1> QED BY <1>1, <1>4, TypeInit, TypeNext, FlexNext, PTL DEF Spec

-----------------------------------------------------------------------------
(* Counters.  The history of Limited never passes its counter; what is being *)
(* worked on and what is counted share the room of Throttle.                 *)

Doing == {j \in Jobs : job[j] \in {"work", "count"}}

LimitedInv ==
    /\ Present(Limited) => entries[Limited].expires # Null /\ admitted <= entries[Limited].value
    /\ admitted <= MaxAttempts
ThrottleInv ==
    Present(Throttle) => /\ entries[Throttle].value >= 1
                         /\ entries[Throttle].expires = Null => died \/ \E j \in Jobs : job[j] = "arm"
RoomInv == Count(Throttle) + Cardinality(Doing) <= MaxAttempts - 1 + Cardinality(Jobs)
CountInv == LimitedInv /\ ThrottleInv /\ RoomInv

LEMMA CountFacts ==
  ASSUME TypeInv
  PROVE  /\ Limited \in Keys /\ Throttle \in Keys /\ Limited # Throttle
         /\ MaxAttempts \in Nat /\ MaxAttempts >= 1 /\ Decay \in Nat
         /\ job \in [Jobs -> {"idle", "work", "count", "arm"}] /\ admitted \in Nat /\ died \in BOOLEAN
         /\ Count(Limited) \in Nat /\ Count(Throttle) \in Nat
         /\ Present(Limited) => entries[Limited].value \in Nat
         /\ Present(Throttle) => entries[Throttle].value \in Nat
         /\ StoreOK
<1>1. StoreOK /\ CountTypeOK
  BY DEF TypeInv
<1>2. \A k \in {Limited, Throttle} :
         Count(k) \in Nat /\ (Present(k) => entries[k] \in [value : Nat, expires : Nat \cup {Null}])
  BY <1>1, CountType
<1> QED BY <1>1, <1>2, KeysApart, CountersAssumption DEF CountTypeOK

LEMMA DoingFinite ==
  /\ IsFiniteSet(Jobs) /\ Cardinality(Jobs) \in Nat /\ IsFiniteSet(Doing) /\ Cardinality(Doing) \in Nat
  /\ Cardinality(Doing) <= Cardinality(Jobs)
<1>1. IsFiniteSet(Jobs) /\ Doing \subseteq Jobs
  BY CountersAssumption DEF Doing
<1> QED BY <1>1, FS_Subset, FS_CardinalityType

\* The same of the next state.
LEMMA DoingFiniteNext ==
  IsFiniteSet(Doing') /\ Cardinality(Doing') \in Nat /\ Cardinality(Doing') <= Cardinality(Jobs)
<1>1. IsFiniteSet(Jobs) /\ Doing' \subseteq Jobs
  BY CountersAssumption DEF Doing
<1> QED BY <1>1, FS_Subset, FS_CardinalityType

\* A counter that stays as it is or goes leaves all of it true.
LEMMA CountersDrop ==
  ASSUME TypeInv, CountInv, UNCHANGED countVars,
         \A k \in {Limited, Throttle} : entries'[k] = entries[k] \/ ~Present(k)'
  PROVE  CountInv'
<1>1. /\ Present(Limited)' => Present(Limited) /\ entries'[Limited] = entries[Limited]
      /\ Present(Throttle)' => Present(Throttle) /\ entries'[Throttle] = entries[Throttle]
  BY DEF Present
<1>2. Count(Throttle)' = Count(Throttle) \/ Count(Throttle)' = 0
  BY <1>1 DEF Count
<1>3. Doing' = Doing
  BY DEF Doing
<1>4. RoomInv'
  BY <1>2, <1>3, CountFacts, DoingFinite DEF CountInv, RoomInv
<1> QED BY <1>1, <1>4 DEF CountInv, LimitedInv, ThrottleInv

\* A step of one task, and what is under way after it.
LEMMA JobMoves ==
  ASSUME TypeInv, NEW j \in Jobs, NEW label \in {"idle", "work", "count", "arm"}, Goto(j, label)
  PROVE  /\ job'[j] = label /\ \A i \in Jobs \ {j} : job'[i] = job[i]
         /\ label \in {"idle", "arm"} => Doing' = Doing \ {j}
         /\ label \in {"work", "count"} => Doing' = Doing \cup {j}
         /\ label \in {"idle", "arm"} => Cardinality(Doing') <= Cardinality(Doing)
         /\ label \in {"idle", "arm"} /\ j \in Doing => Cardinality(Doing') = Cardinality(Doing) - 1
<1>1. job'[j] = label /\ \A i \in Jobs \ {j} : job'[i] = job[i]
  BY CountFacts DEF Goto
<1>2. label \in {"idle", "arm"} => Doing' = Doing \ {j}
  BY <1>1 DEF Doing
<1>3. label \in {"work", "count"} => Doing' = Doing \cup {j}
  BY <1>1 DEF Doing
<1>4. IsFiniteSet(Doing) /\ Cardinality(Doing) \in Nat
  BY DoingFinite
<1>5. Cardinality(Doing \ {j}) = IF j \in Doing THEN Cardinality(Doing) - 1 ELSE Cardinality(Doing)
  BY <1>4, FS_RemoveElement
<1>6. label \in {"idle", "arm"} => Cardinality(Doing') = Cardinality(Doing \ {j})
  BY <1>2
<1>7. /\ label \in {"idle", "arm"} => Cardinality(Doing') <= Cardinality(Doing)
      /\ label \in {"idle", "arm"} /\ j \in Doing => Cardinality(Doing') = Cardinality(Doing) - 1
  BY <1>4, <1>5, <1>6
<1> QED BY <1>1, <1>2, <1>3, <1>7

LEMMA CountSteps == TypeInv /\ CountInv /\ CountStep => CountInv'
<1> SUFFICES ASSUME TypeInv, CountInv, CountStep PROVE CountInv'
  OBVIOUS
<1>i. LimitedInv /\ ThrottleInv /\ RoomInv
  BY DEF CountInv
<1>k. /\ Limited \in Keys /\ Throttle \in Keys /\ Limited # Throttle
      /\ MaxAttempts \in Nat /\ MaxAttempts >= 1 /\ Decay \in Nat
      /\ admitted \in Nat /\ died \in BOOLEAN
      /\ Count(Throttle) \in Nat
      /\ Present(Limited) => entries[Limited].value \in Nat
      /\ Present(Throttle) => entries[Throttle].value \in Nat
      /\ StoreOK
  BY CountFacts
<1>c. /\ Cardinality(Doing) \in Nat /\ Cardinality(Doing') \in Nat /\ Cardinality(Jobs) \in Nat
      /\ Cardinality(Doing') <= Cardinality(Jobs)
  BY DoingFinite, DoingFiniteNext
\* Nothing of the store moves, and no more is under way.
<1>n. ASSUME UNCHANGED <<entries, admitted>>, Cardinality(Doing') <= Cardinality(Doing),
             died' \/ (died' = died /\ \A j \in Jobs : job[j] = "arm" => job'[j] = "arm")
      PROVE  CountInv'
  <2>1. LimitedInv' /\ ThrottleInv'
    BY <1>n, <1>i DEF LimitedInv, ThrottleInv, Present
  <2>2. Count(Throttle)' = Count(Throttle)
    BY <1>n DEF Count, Present
  <2>3. RoomInv'
    BY <1>n, <2>2, <1>i, <1>k, <1>c DEF RoomInv
  <2> QED BY <2>1, <2>3 DEF CountInv
<1>1. ASSUME NEW j \in Jobs, HitWithTtl(j) PROVE CountInv'
  <2>1. UNCHANGED <<now, job, died>>
    BY <1>1 DEF HitWithTtl
  <2>2. entries'[Throttle] = entries[Throttle] /\ LimitedInv'
    <3>1. CASE Present(Limited)
      <4>1. Increment(Limited)
        BY <1>1, <3>1 DEF HitWithTtl
      <4>2. /\ entries'[Throttle] = entries[Throttle]
            /\ entries'[Limited].value = entries[Limited].value + 1
            /\ entries'[Limited].expires = entries[Limited].expires
        BY <2>1, <3>1, <4>1, <1>k, IncrementKeeps DEF Count
      <4>3. admitted' = admitted + (IF entries[Limited].value + 1 <= MaxAttempts THEN 1 ELSE 0)
        BY <1>1, <3>1 DEF HitWithTtl, UnderLimit, Count
      <4> QED BY <3>1, <4>2, <4>3, <1>i, <1>k DEF LimitedInv
    <3>2. CASE ~Present(Limited)
      <4>1. Put(Limited, 1, Decay) /\ 1 \in Values(Limited)
        BY <1>1, <3>2, KeysApart DEF HitWithTtl
      <4>2. /\ entries'[Throttle] = entries[Throttle]
            /\ entries'[Limited] = [value |-> 1, expires |-> Until(Decay)]
        BY <2>1, <4>1, <1>k, PutKeeps
      <4>3. Until(Decay) # Null
        BY <1>k, ClockAssumption DEF Until, StoreOK
      <4>4. admitted' = 1
        BY <1>1, <3>2, <1>k DEF HitWithTtl, UnderLimit, Count
      <4> QED BY <4>2, <4>3, <4>4, <1>k DEF LimitedInv
    <3> QED BY <3>1, <3>2
  <2>3. ThrottleInv' /\ RoomInv'
    BY <2>1, <2>2, <1>i DEF ThrottleInv, RoomInv, Present, Count, Doing
  <2> QED BY <2>2, <2>3 DEF CountInv
<1>2. ASSUME NEW j \in Jobs, Check(j) PROVE CountInv'
  <2>1. Goto(j, "work") /\ job[j] = "idle" /\ Count(Throttle) < MaxAttempts
        /\ UNCHANGED <<now, entries, admitted, died>>
    BY <1>2 DEF Check
  <2>2. \A i \in Jobs : job[i] = "arm" => job'[i] = "arm"
    BY <2>1, JobMoves
  <2>3. LimitedInv' /\ ThrottleInv'
    BY <2>1, <2>2, <1>i DEF LimitedInv, ThrottleInv, Present
  <2>4. Count(Throttle)' = Count(Throttle)
    BY <2>1 DEF Count, Present
  <2>5. RoomInv'
    BY <2>1, <2>4, <1>k, <1>c DEF RoomInv
  <2> QED BY <2>3, <2>5 DEF CountInv
<1>3. ASSUME NEW j \in Jobs, NEW counts \in BOOLEAN, Work(j, counts) PROVE CountInv'
  <2>1. Goto(j, IF counts THEN "count" ELSE "idle") /\ job[j] = "work"
        /\ UNCHANGED <<now, entries, admitted, died>>
    BY <1>3 DEF Work
  <2>2. j \in Doing
    BY <2>1 DEF Doing
  <2>3. CASE counts
    <3>1. Goto(j, "count")
      BY <2>1, <2>3
    <3>2. Doing' = Doing \cup {j} /\ \A i \in Jobs \ {j} : job'[i] = job[i]
      BY <3>1, JobMoves
    <3>3. Doing' = Doing
      BY <2>2, <3>2
    <3> QED BY <2>1, <3>2, <3>3, <1>c, <1>n
  <2>4. CASE ~counts
    <3>1. Goto(j, "idle")
      BY <2>1, <2>4
    <3>2. Cardinality(Doing') <= Cardinality(Doing) /\ \A i \in Jobs \ {j} : job'[i] = job[i]
      BY <3>1, JobMoves
    <3> QED BY <2>1, <3>2, <1>n
  <2> QED BY <2>3, <2>4
<1>4. ASSUME NEW j \in Jobs, Hit(j) PROVE CountInv'
  <2>1. /\ job[j] = "count" /\ Increment(Throttle) /\ UNCHANGED <<now, admitted, died>>
        /\ Goto(j, IF Created THEN "arm" ELSE "idle")
    BY <1>4 DEF Hit
  <2>2. /\ entries'[Limited] = entries[Limited] /\ Present(Throttle)'
        /\ entries'[Throttle].value = Count(Throttle) + 1
        /\ entries'[Throttle].expires = IF Present(Throttle) THEN entries[Throttle].expires ELSE Null
    BY <2>1, <1>k, IncrementKeeps
  <2>3. j \in Doing
    BY <2>1 DEF Doing
  <2>4. Cardinality(Doing') = Cardinality(Doing) - 1
    BY <2>1, <2>3, JobMoves
  <2>5. Count(Throttle)' = Count(Throttle) + 1
    BY <2>2 DEF Count
  <2>6. RoomInv'
    BY <2>4, <2>5, <1>i, <1>k, <1>c DEF RoomInv
  <2>7. LimitedInv'
    BY <2>1, <2>2, <1>i DEF LimitedInv, Present
  <2>8. ThrottleInv'
    <3>1. CASE Present(Throttle)
      <4>1. \A i \in Jobs : job[i] = "arm" => job'[i] = "arm"
        BY <2>1, JobMoves
      <4> QED BY <2>1, <2>2, <3>1, <4>1, <1>i, <1>k DEF ThrottleInv
    <3>2. CASE ~Present(Throttle)
      <4>1. Created
        BY <3>2 DEF Created, Count
      <4>2. Goto(j, "arm")
        BY <2>1, <4>1
      <4>3. job'[j] = "arm"
        BY <4>2, JobMoves
      <4> QED BY <2>2, <4>3, <1>k DEF ThrottleInv
    <3> QED BY <3>1, <3>2
  <2> QED BY <2>6, <2>7, <2>8 DEF CountInv
<1>5. ASSUME NEW j \in Jobs, Arm(j) PROVE CountInv'
  <2>1. job[j] = "arm" /\ Expire(Throttle, Decay) /\ Goto(j, "idle") /\ UNCHANGED <<now, admitted, died>>
    BY <1>5 DEF Arm
  <2>2. /\ entries'[Limited] = entries[Limited]
        /\ Present(Throttle) => Present(Throttle)' /\ entries'[Throttle].value = entries[Throttle].value
                                /\ entries'[Throttle].expires # Null
        /\ ~Present(Throttle) => UNCHANGED entries
    BY <2>1, <1>k, ExpireKeeps
  <2>3. Cardinality(Doing') <= Cardinality(Doing)
    BY <2>1, JobMoves
  <2>4. Count(Throttle)' = Count(Throttle)
    BY <2>2 DEF Count, Present
  <2>5. RoomInv'
    BY <2>3, <2>4, <1>i, <1>k, <1>c DEF RoomInv
  <2>6. LimitedInv'
    BY <2>1, <2>2, <1>i DEF LimitedInv, Present
  <2>7. ThrottleInv'
    BY <2>2, <1>i DEF ThrottleInv, Present
  <2> QED BY <2>5, <2>6, <2>7 DEF CountInv
<1>6. ASSUME NEW j \in Jobs, JobDies(j) PROVE CountInv'
  <2>1. Goto(j, "idle") /\ died' = (died \/ job[j] = "arm") /\ UNCHANGED <<now, entries, admitted>>
    BY <1>6 DEF JobDies
  <2>2. Cardinality(Doing') <= Cardinality(Doing) /\ \A i \in Jobs \ {j} : job'[i] = job[i]
    BY <2>1, JobMoves
  <2> QED BY <2>1, <2>2, <1>k, <1>n
<1>7. CASE Clear
  <2>1. PICK k \in {Limited, Throttle} : Forget(k)
    BY <1>7 DEF Clear
  <2>2. UNCHANGED <<now, countVars>>
    BY <1>7 DEF Clear
  <2>3. \A l \in {Limited, Throttle} : entries'[l] = entries[l] \/ ~Present(l)'
    BY <2>1, <2>2, <1>k, ForgetKeeps
  <2> QED BY <2>2, <2>3, CountersDrop
<1> QED BY <1>1, <1>2, <1>3, <1>4, <1>5, <1>6, <1>7 DEF CountStep

LEMMA CountNext == TypeInv /\ CountInv /\ [Next]_vars => CountInv'
<1> SUFFICES ASSUME TypeInv, CountInv, [Next]_vars PROVE CountInv'
  OBVIOUS
<1>1. CASE CountStep
  BY <1>1, CountSteps
<1>2. CASE (FlexStep \/ TagStep) /\ UNCHANGED countVars
  <2>1. Only({Page, Guard}) \/ Only(Tagged)
    BY <1>2, FlexStore, TagStore DEF TypeInv
  <2>2. \A k \in {Limited, Throttle} : entries'[k] = entries[k]
    BY <2>1, KeysApart DEF Only
  <2> QED BY <1>2, <2>2, CountersDrop
<1>3. CASE (ScheduleStep /\ UNCHANGED <<entries, countVars>>) \/ UNCHANGED vars
  BY <1>3, CountersDrop DEF vars
<1>4. CASE Flush
  <2>1. \A k \in {Limited, Throttle} : ~Present(k)'
    BY <1>4, FlushStore, CountFacts
  <2> QED BY <1>4, <2>1, CountersDrop DEF Flush
<1>5. CASE Tick
  <2>1. \A k \in {Limited, Throttle} : entries'[k] = entries[k] \/ ~Present(k)'
    BY <1>5, TickStore, CountFacts
  <2> QED BY <1>5, <2>1, CountersDrop DEF Tick
<1> QED BY <1>1, <1>2, <1>3, <1>4, <1>5 DEF Next

\* A counter expires unless a task died before it could say so; hit_with_ttl admits what
\* the limit says in one window, and the check before the work what was under way besides.
THEOREM CountersKeepTheLimit == Spec => []CountersRight
<1>1. Init => CountInv
  <2> SUFFICES ASSUME Init PROVE CountInv
    OBVIOUS
  <2>1. Doing = {} /\ Cardinality(Doing) = 0
    BY FS_EmptySet DEF Init, CountInit, Doing
  <2>2. ~Present(Limited) /\ ~Present(Throttle) /\ admitted = 0
    BY KeysApart DEF Init, StoreInit, CountInit, Present
  <2>3. MaxAttempts \in Nat /\ MaxAttempts >= 1 /\ Cardinality(Jobs) \in Nat
    BY CountersAssumption, DoingFinite
  <2> QED BY <2>1, <2>2, <2>3 DEF CountInv, LimitedInv, ThrottleInv, RoomInv, Count
<1>2. TypeInv /\ CountInv => CountersRight
  BY DEF CountInv, LimitedInv, ThrottleInv, RoomInv, CountersRight, CountersExpire, WithinLimit, Doing
<1> QED BY <1>1, <1>2, TypeInit, TypeNext, CountNext, PTL DEF Spec

-----------------------------------------------------------------------------
(* Tags.  While operations are under way an entry is a member of its tags or *)
(* in the hands of an operation that will make it one, or delete it.         *)

OpOK(o) ==
    /\ o.kind \in {"put", "add", "forget"} => \E k \in Tagged : o.keys = {k} /\ o.tags \subseteq TagsOf[k]
    /\ o.kind = "prune" => \E t \in Tags : /\ o.tags = {t}
                                           /\ \A k \in o.keys \cup o.kept : t \in TagsOf[k]

\* What an operation still owes an entry's tag: to register it, to delete the entry, or to
\* put it back.
Owes(o, k, t) ==
    \/ o.kind = "add" /\ k \in o.keys /\ t \in o.tags
    \/ o.kind \in {"forget", "flush"} /\ k \in o.keys
    \/ o.kind = "prune" /\ k \in o.keys \cup o.kept /\ t \in o.tags

OpsInv == \A u \in Users : op[u] # Null => OpOK(op[u])
RacesInv ==
    \A u, v \in Users : op[u] # Null /\ op[v] # Null /\ Races(op[u], op[v])
        => Reach(op[u]) \cap Reach(op[v]) \subseteq raced
MembersInv == \A t \in Tags : \A k \in members[t] : t \in TagsOf[k]
PutInv ==
    \A u \in Users : op[u] # Null /\ op[u].kind = "put"
        => \A k \in op[u].keys \ raced : \A t \in TagsOf[k] \ op[u].tags : k \in members[t]
KnownInv ==
    \A k \in Tagged \ raced : Present(k)
        => \A t \in TagsOf[k] : k \in members[t] \/ \E u \in Users : op[u] # Null /\ Owes(op[u], k, t)
TagInv == OpsInv /\ RacesInv /\ MembersInv /\ PutInv /\ KnownInv

LEMMA TagFacts ==
  ASSUME TypeInv
  PROVE  /\ Tagged \subseteq Keys /\ TagsOf \in [Tagged -> SUBSET Tags]
         /\ members \in [Tags -> SUBSET Tagged] /\ raced \subseteq Tagged
         /\ \A u \in Users : op[u] # Null =>
               /\ op[u] \in Operation /\ op[u].kind \in Kinds /\ op[u].keys \subseteq Tagged
               /\ op[u].tags \subseteq Tags /\ op[u].kept \subseteq Tagged
         /\ StoreOK /\ TagTypeOK
<1>1. StoreOK /\ TagTypeOK
  BY DEF TypeInv
<1>2. \A u \in Users : op[u] # Null =>
               /\ op[u] \in Operation /\ op[u].kind \in Kinds /\ op[u].keys \subseteq Tagged
               /\ op[u].tags \subseteq Tags /\ op[u].kept \subseteq Tagged
  BY <1>1, OpType
<1> QED BY <1>1, <1>2, TaggedAssumption DEF TagTypeOK

\* Who takes a key out of a tag's set may reach it.
Takes(o) == IF o.kind \in {"flush", "prune", "forget"} THEN Reach(o) ELSE {}

\* The invariant holds after a step of one task that answers for what it does: to its own
\* operation, to the sets and to the entries.
LEMMA TaskMoves ==
  ASSUME TypeInv, TagInv, NEW u \in Users,
         \A v \in Users \ {u} : op'[v] = op[v],
         raced \subseteq raced',
         op'[u] # Null => OpOK(op'[u]),
         \/ op'[u] = Null
         \/ op[u] # Null /\ op'[u].kind = op[u].kind /\ Reach(op'[u]) \subseteq Reach(op[u])
         \/ \A v \in Users \ {u} : op[v] # Null /\ Races(op'[u], op[v])
                                      => Reach(op'[u]) \cap Reach(op[v]) \subseteq raced',
         MembersInv',
         \A t \in Tags : \A k \in members[t] \ members'[t] : op[u] # Null /\ k \in Takes(op[u]),
         op'[u] # Null /\ op'[u].kind = "put"
            => \A k \in op'[u].keys \ raced' : \A t \in TagsOf[k] \ op'[u].tags : k \in members'[t],
         \A k \in Tagged \ raced' : Present(k)' => \A t \in TagsOf[k] :
            (~Present(k) \/ k \in members[t] \ members'[t] \/ (op[u] # Null /\ Owes(op[u], k, t)))
               => k \in members'[t] \/ (op'[u] # Null /\ Owes(op'[u], k, t))
  PROVE  TagInv'
<1>i. OpsInv /\ RacesInv /\ MembersInv /\ PutInv /\ KnownInv
  BY DEF TagInv
<1>f. \A v \in Users : op[v] # Null => op[v].keys \subseteq Tagged
  BY TagFacts
<1>g. TagsOf \in [Tagged -> SUBSET Tags]
  BY TagFacts
<1>1. OpsInv'
  BY <1>i DEF OpsInv
<1>2. RacesInv'
  <2> SUFFICES ASSUME NEW v \in Users, NEW w \in Users, op'[v] # Null, op'[w] # Null, Races(op'[v], op'[w])
               PROVE  Reach(op'[v]) \cap Reach(op'[w]) \subseteq raced'
    BY Zenon DEF RacesInv
  <2>1. v # w /\ Races(op'[w], op'[v])
    BY DEF Races, Removals
  <2>2. ASSUME NEW x \in Users \ {u}, op'[x] # Null, op'[u] # Null, Races(op'[u], op'[x])
        PROVE  Reach(op'[u]) \cap Reach(op'[x]) \subseteq raced'
    <3>1. op'[x] = op[x]
      OBVIOUS
    <3>2. CASE op[u] # Null /\ op'[u].kind = op[u].kind /\ Reach(op'[u]) \subseteq Reach(op[u])
      <4>1. Races(op[u], op[x])
        BY <2>2, <3>1, <3>2 DEF Races, Removals
      <4>2. Reach(op[u]) \cap Reach(op[x]) \subseteq raced
        BY <2>2, <3>1, <3>2, <4>1, <1>i DEF RacesInv
      <4> QED BY <3>1, <3>2, <4>2
    <3>3. CASE \A z \in Users \ {u} : op[z] # Null /\ Races(op'[u], op[z])
                                      => Reach(op'[u]) \cap Reach(op[z]) \subseteq raced'
      BY <2>2, <3>1, <3>3
    <3> QED BY <2>2, <3>2, <3>3
  <2>3. CASE v = u
    BY <2>1, <2>2, <2>3
  <2>4. CASE w = u
    <3>1. Reach(op'[w]) \cap Reach(op'[v]) \subseteq raced'
      BY <2>1, <2>2, <2>4
    <3> QED BY <3>1
  <2>5. CASE v # u /\ w # u
    <3>1. op'[v] = op[v] /\ op'[w] = op[w]
      BY <2>5
    <3>2. Reach(op[v]) \cap Reach(op[w]) \subseteq raced
      BY <3>1, <1>i DEF RacesInv
    <3> QED BY <3>1, <3>2
  <2> QED BY <2>3, <2>4, <2>5
<1>3. PutInv'
  <2> SUFFICES ASSUME NEW v \in Users \ {u}, op'[v] # Null, op'[v].kind = "put",
                      NEW k \in op'[v].keys \ raced', NEW t \in TagsOf[k] \ op'[v].tags
               PROVE  k \in members'[t]
    BY DEF PutInv
  <2>1. op'[v] = op[v] /\ k \in Tagged /\ t \in Tags /\ k \notin raced
    BY <1>f, <1>g
  <2>2. k \in members[t]
    BY <2>1, <1>i DEF PutInv
  <2>3. SUFFICES ASSUME op[u] # Null, k \in Takes(op[u]) PROVE FALSE
    BY <2>1, <2>2
  <2>4. op[u].kind \in {"flush", "prune", "forget"} /\ k \in Reach(op[u])
    BY <2>3 DEF Takes
  <2>5. Races(op[u], op[v]) /\ k \in Reach(op[v])
    BY <2>1, <2>4 DEF Races, Removals, Reach
  <2> QED BY <2>1, <2>3, <2>4, <2>5, <1>i DEF RacesInv
<1>4. KnownInv'
  <2> SUFFICES ASSUME NEW k \in Tagged \ raced', Present(k)', NEW t \in TagsOf[k]
               PROVE  k \in members'[t] \/ \E v \in Users : op'[v] # Null /\ Owes(op'[v], k, t)
    BY Zenon DEF KnownInv, Owes
  <2>1. k \notin raced
    OBVIOUS
  <2>2. \/ k \in members'[t] \/ (op'[u] # Null /\ Owes(op'[u], k, t))
        \/ /\ Present(k) /\ k \notin members[t] \ members'[t]
           /\ ~(op[u] # Null /\ Owes(op[u], k, t))
    BY Zenon
  <2>3. CASE /\ Present(k) /\ k \notin members[t] \ members'[t]
             /\ ~(op[u] # Null /\ Owes(op[u], k, t))
    <3>1. k \in members[t] \/ \E v \in Users : op[v] # Null /\ Owes(op[v], k, t)
      BY <2>1, <2>3, <1>i DEF KnownInv
    <3>2. ASSUME NEW v \in Users, op[v] # Null, Owes(op[v], k, t)
          PROVE  op'[v] # Null /\ Owes(op'[v], k, t)
      <4>1. v # u
        BY <2>3, <3>2
      <4>2. op'[v] = op[v]
        BY <4>1
      <4> QED BY <3>2, <4>2
    <3> QED BY <2>3, <3>1, <3>2
  <2> QED BY <2>2, <2>3
<1> QED BY <1>1, <1>2, <1>3, <1>4 DEF TagInv

\* Storing or deleting one tagged entry leaves the others.
LEMMA OneEntry ==
  ASSUME TypeInv, NEW k \in Tagged, UNCHANGED now,
         Forget(k) \/ \E ttl \in {TagTTL, Null} : Put(k, "value", ttl)
  PROVE  /\ \A j \in Tagged \ {k} : Present(j)' <=> Present(j)
         /\ Forget(k) => ~Present(k)'
<1>k. Tagged \subseteq Keys /\ TagTTL \in Nat /\ "value" \in Values(k) /\ StoreOK
  BY KeysApart, TaggedAssumption, TagFacts
<1>1. \A j \in Keys \ {k} : entries'[j] = entries[j]
  BY <1>k, ForgetKeeps, PutKeeps
<1> QED BY <1>1, <1>k, ForgetKeeps DEF Present

LEMMA TagStores ==
  ASSUME TypeInv, TagInv, NEW u \in Users, StorePut(u) \/ ForgetEntry(u) PROVE TagInv'
<1>i. OpsInv /\ MembersInv /\ PutInv
  BY DEF TagInv
<1>1. /\ op[u] # Null /\ op[u].kind \in {"put", "forget"} /\ op[u].tags = {} /\ Done(u)
      /\ UNCHANGED <<now, members, raced>>
  BY DEF StorePut, ForgetEntry, In
<1>2. PICK k \in op[u].keys :
         /\ Forget(k) \/ \E ttl \in {TagTTL, Null} : Put(k, "value", ttl)
         /\ op[u].kind = "forget" => Forget(k)
  BY DEF StorePut, ForgetEntry, In
<1>3. op'[u] = Null /\ \A v \in Users \ {u} : op'[v] = op[v]
  BY <1>1, TagFacts, DoneMeans
<1>4. k \in Tagged /\ op[u].keys = {k} /\ TagsOf[k] \subseteq Tags
  BY <1>1, <1>2, <1>i, TagFacts DEF OpsInv, OpOK
<1>5. (\A j \in Tagged \ {k} : Present(j)' <=> Present(j)) /\ (Forget(k) => ~Present(k)')
  BY <1>1, <1>2, <1>4, OneEntry
<1>6. ASSUME NEW j \in Tagged \ raced', Present(j)', NEW t \in TagsOf[j],
             ~Present(j) \/ j \in members[t] \ members'[t] \/ (op[u] # Null /\ Owes(op[u], j, t))
      PROVE  j \in members'[t] \/ (op'[u] # Null /\ Owes(op'[u], j, t))
  <2>1. t \in Tags
    BY TagFacts
  <2>2. CASE op[u].kind = "forget"
    BY <1>1, <1>2, <1>4, <1>5, <1>6, <2>1, <2>2 DEF Owes
  <2>3. CASE op[u].kind = "put"
    <3>1. CASE j = k
      <4>1. k \in members[t]
        BY <1>1, <1>2, <1>6, <3>1, <2>3, <1>i DEF PutInv
      <4>2. members' = members
        BY <1>1
      <4>3. j \in members'[t]
        BY <4>1, <4>2, <3>1
      <4> QED BY <4>3
    <3>2. CASE j # k
      BY <1>1, <1>4, <1>5, <1>6, <2>1, <2>3, <3>2 DEF Owes
    <3> QED BY <3>1, <3>2
  <2> QED BY <1>1, <2>2, <2>3
<1>7. MembersInv'
  BY <1>1, <1>i DEF MembersInv
<1> QED BY <1>1, <1>3, <1>6, <1>7, TaskMoves

LEMMA TagDies == ASSUME TypeInv, TagInv, NEW u \in Users, TaskDies(u) PROVE TagInv'
<1>i. OpsInv /\ MembersInv
  BY DEF TagInv
<1>1. /\ op[u] # Null /\ raced' = (IF op[u].kind = "put" THEN raced ELSE raced \cup Reach(op[u]))
      /\ Done(u) /\ UNCHANGED <<now, entries, members>>
  BY DEF TaskDies, In
<1>2. op'[u] = Null /\ \A v \in Users \ {u} : op'[v] = op[v]
  BY <1>1, TagFacts, DoneMeans
<1>3. ASSUME NEW j \in Tagged \ raced', Present(j)', NEW t \in TagsOf[j],
             ~Present(j) \/ j \in members[t] \ members'[t] \/ (op[u] # Null /\ Owes(op[u], j, t))
      PROVE  j \in members'[t] \/ (op'[u] # Null /\ Owes(op'[u], j, t))
  <2>1. Owes(op[u], j, t)
    BY <1>1, <1>3 DEF Present
  <2>2. j \in Reach(op[u]) /\ op[u].kind # "put"
    BY <2>1 DEF Owes, Reach
  <2> QED BY <1>1, <1>3, <2>2
<1>4. MembersInv'
  BY <1>1, <1>i DEF MembersInv
<1> QED BY <1>1, <1>2, <1>3, <1>4, TaskMoves

LEMMA TagBegins ==
  ASSUME TypeInv, TagInv, NEW u \in Users, NEW kind \in Kinds, NEW keys \in SUBSET Tagged,
         NEW tags \in SUBSET Tags, Begin(u, kind, keys, tags), UNCHANGED members,
         OpOK([kind |-> kind, keys |-> keys, tags |-> tags, kept |-> {}]),
         kind = "put" => \A k \in keys : TagsOf[k] \subseteq tags,
         \A j \in Tagged : Present(j)' /\ ~Present(j) => kind = "add" /\ keys = {j} /\ tags = TagsOf[j]
  PROVE  TagInv'
<1>i. OpsInv /\ MembersInv
  BY DEF TagInv
<1>1. /\ op[u] = Null /\ op'[u] # Null
      /\ op'[u] = [kind |-> kind, keys |-> keys, tags |-> tags, kept |-> {}]
      /\ \A v \in Users \ {u} : op'[v] = op[v]
      /\ raced \subseteq raced'
      /\ \A v \in Users \ {u} : op[v] # Null /\ Races(op'[u], op[v])
                 => Reach(op'[u]) \cap Reach(op[v]) \subseteq raced'
  BY TagFacts, BeginMeans
<1>2. OpOK(op'[u])
  BY <1>1
<1>3. op'[u].kind = "put"
         => \A k \in op'[u].keys \ raced' : \A t \in TagsOf[k] \ op'[u].tags : k \in members'[t]
  BY <1>1
<1>4. ASSUME NEW j \in Tagged \ raced', Present(j)', NEW t \in TagsOf[j],
             ~Present(j) \/ j \in members[t] \ members'[t] \/ (op[u] # Null /\ Owes(op[u], j, t))
      PROVE  j \in members'[t] \/ (op'[u] # Null /\ Owes(op'[u], j, t))
  <2>1. kind = "add" /\ keys = {j} /\ tags = TagsOf[j]
    BY <1>1, <1>4
  <2> QED BY <1>1, <2>1 DEF Owes
<1>5. MembersInv'
  BY <1>i DEF MembersInv
<1>6. \A t \in Tags : \A k \in members[t] \ members'[t] : op[u] # Null /\ k \in Takes(op[u])
  OBVIOUS
<1> QED BY <1>1, <1>2, <1>3, <1>4, <1>5, <1>6, TaskMoves

LEMMA TagCalls ==
  ASSUME TypeInv, TagInv, NEW u \in Users, Call(u) \/ \E k \in Tagged : Add(u, k) PROVE TagInv'
<1>k. /\ TagsOf \in [Tagged -> SUBSET Tags] /\ Kinds = {"put", "add", "forget", "flush", "prune"}
  BY TagFacts DEF Kinds
<1>1. ASSUME NEW k \in Tagged, NEW kind \in {"put", "forget", "add"}
      PROVE  /\ OpOK([kind |-> kind, keys |-> {k}, tags |-> TagsOf[k], kept |-> {}])
             /\ \A j \in {k} : TagsOf[j] \subseteq TagsOf[k]
             /\ {k} \in SUBSET Tagged /\ TagsOf[k] \in SUBSET Tags /\ kind \in Kinds
  BY <1>1, <1>k DEF OpOK
<1>2. CASE Call(u)
  <2>1. UNCHANGED <<now, entries, members>>
    BY <1>2 DEF Call
  <2>2. \A j \in Tagged : ~(Present(j)' /\ ~Present(j))
    BY <2>1 DEF Present
  <2>3. ASSUME NEW k \in Tagged, NEW kind \in {"put", "forget"}, Begin(u, kind, {k}, TagsOf[k])
        PROVE  TagInv'
    <3>1. kind \in {"put", "forget", "add"}
      OBVIOUS
    <3> QED BY <2>1, <2>2, <2>3, <3>1, <1>1, TagBegins
  <2>4. ASSUME NEW tags \in SUBSET Tags, Begin(u, "flush", {}, tags) PROVE TagInv'
    <3>1. OpOK([kind |-> "flush", keys |-> {}, tags |-> tags, kept |-> {}])
      BY DEF OpOK
    <3> QED BY <2>1, <2>2, <2>4, <3>1, <1>k, TagBegins
  <2>5. ASSUME NEW t \in Tags, Begin(u, "prune", {}, {t}) PROVE TagInv'
    <3>1. OpOK([kind |-> "prune", keys |-> {}, tags |-> {t}, kept |-> {}])
      BY DEF OpOK
    <3> QED BY <2>1, <2>2, <2>5, <3>1, <1>k, TagBegins
  <2> QED BY <1>2, <2>3, <2>4, <2>5 DEF Call
<1>3. ASSUME NEW k \in Tagged, Add(u, k) PROVE TagInv'
  <2>1. Put(k, "value", TagTTL) /\ Begin(u, "add", {k}, TagsOf[k]) /\ UNCHANGED <<now, members>>
    BY <1>3 DEF Add
  <2>2. \A j \in Tagged \ {k} : Present(j)' <=> Present(j)
    BY <2>1, OneEntry
  <2>3. \A j \in Tagged : Present(j)' /\ ~Present(j) => "add" = "add" /\ {k} = {j} /\ TagsOf[k] = TagsOf[j]
    BY <2>2
  <2> QED BY <2>1, <2>3, <1>1, TagBegins
<1> QED BY <1>2, <1>3

\* An operation that goes on: what it is to be done is known of it, and its reach shrinks.
LEMMA TagGoesOn ==
  ASSUME TypeInv, NEW u \in Users, op[u] # Null, NEW keys \in SUBSET Tagged,
         NEW tags \in SUBSET Tags, NEW kept \in SUBSET Tagged, Rest(u, keys, tags, kept)
  PROVE  /\ op'[u] # Null
         /\ op'[u] = [kind |-> op[u].kind, keys |-> keys, tags |-> tags, kept |-> kept]
         /\ \A v \in Users \ {u} : op'[v] = op[v]
         /\ tags \subseteq op[u].tags
               /\ (IF op[u].kind \in {"flush", "prune"} THEN keys \cup kept \subseteq Reach(op[u])
                   ELSE keys \subseteq op[u].keys)
            => Reach(op'[u]) \subseteq Reach(op[u])
<1>1. /\ op'[u] # Null
      /\ op'[u] = [kind |-> op[u].kind, keys |-> keys, tags |-> tags, kept |-> kept]
      /\ \A v \in Users \ {u} : op'[v] = op[v]
  BY TagFacts, RestMeans
<1>2. ASSUME tags \subseteq op[u].tags,
             IF op[u].kind \in {"flush", "prune"} THEN keys \cup kept \subseteq Reach(op[u])
             ELSE keys \subseteq op[u].keys
      PROVE  Reach(op'[u]) \subseteq Reach(op[u])
  <2>1. CASE op[u].kind \in {"flush", "prune"}
    <3>1. Reach(op'[u]) = {k \in Tagged : TagsOf[k] \cap tags # {}} \cup keys \cup kept
      BY <1>1, <2>1 DEF Reach
    <3>2. {k \in Tagged : TagsOf[k] \cap tags # {}} \subseteq Reach(op[u])
      BY <1>2, <2>1 DEF Reach
    <3> QED BY <1>2, <2>1, <3>1, <3>2
  <2>2. CASE op[u].kind \notin {"flush", "prune"}
    BY <1>1, <1>2, <2>2 DEF Reach
  <2> QED BY <2>1, <2>2
<1> QED BY <1>1, <1>2

\* A step that leaves the entries and takes nothing out of a set has only its own debts
\* to answer for.
LEMMA TagRegisters ==
  ASSUME TypeInv, TagInv, NEW u \in Users, NEW t \in Tags, Register(u, t) PROVE TagInv'
<1>i. OpsInv /\ MembersInv /\ PutInv
  BY DEF TagInv
<1>1. /\ op[u] # Null /\ op[u].kind \in {"put", "add"} /\ t \in op[u].tags
      /\ members' = [members EXCEPT ![t] = @ \cup op[u].keys]
      /\ UNCHANGED <<now, entries, raced>>
      /\ \/ op[u].kind = "add" /\ op[u].tags = {t} /\ Done(u)
         \/ Rest(u, op[u].keys, op[u].tags \ {t}, {})
  BY DEF Register, In
<1>2. PICK k \in Tagged : op[u].keys = {k} /\ op[u].tags \subseteq TagsOf[k]
  BY <1>1, <1>i DEF OpsInv, OpOK
<1>3. /\ members' \in [Tags -> SUBSET Tagged] /\ members'[t] = members[t] \cup {k}
      /\ \A s \in Tags \ {t} : members'[s] = members[s]
      /\ TagsOf[k] \subseteq Tags /\ op[u].tags \subseteq Tags /\ {k} \in SUBSET Tagged
  BY <1>1, <1>2, TagFacts
<1>4. MembersInv'
  BY <1>1, <1>2, <1>3, <1>i DEF MembersInv
<1>5. \A s \in Tags : \A j \in members[s] \ members'[s] : op[u] # Null /\ j \in Takes(op[u])
  BY <1>3
<1>6. CASE op[u].kind = "add" /\ op[u].tags = {t} /\ Done(u)
  <2>1. op'[u] = Null /\ \A v \in Users \ {u} : op'[v] = op[v]
    BY <1>6, TagFacts, DoneMeans
  <2>2. ASSUME NEW j \in Tagged \ raced', Present(j)', NEW s \in TagsOf[j],
               ~Present(j) \/ j \in members[s] \ members'[s] \/ (op[u] # Null /\ Owes(op[u], j, s))
        PROVE  j \in members'[s] \/ (op'[u] # Null /\ Owes(op'[u], j, s))
    <3>1. s \in Tags
      BY TagFacts
    <3>2. Owes(op[u], j, s)
      BY <1>1, <1>3, <2>2, <3>1 DEF Present
    <3>3. j = k /\ s = t
      BY <1>2, <1>6, <3>2 DEF Owes
    <3> QED BY <1>3, <3>3
  <2> QED BY <1>1, <1>4, <1>5, <2>1, <2>2, TaskMoves
<1>7. CASE Rest(u, op[u].keys, op[u].tags \ {t}, {})
  <2>1. /\ op'[u] # Null
        /\ op'[u] = [kind |-> op[u].kind, keys |-> {k}, tags |-> op[u].tags \ {t}, kept |-> {}]
        /\ \A v \in Users \ {u} : op'[v] = op[v]
        /\ Reach(op'[u]) \subseteq Reach(op[u])
    <3> DEFINE keys == {k}
               tags == op[u].tags \ {t}
    <3>1. /\ Rest(u, keys, tags, {}) /\ keys \in SUBSET Tagged /\ tags \in SUBSET Tags
          /\ {} \in SUBSET Tagged
      BY <1>2, <1>3, <1>7
    <3>2. tags \subseteq op[u].tags /\ op[u].kind \notin {"flush", "prune"} /\ keys \subseteq op[u].keys
      BY <1>1, <1>2
    <3> HIDE DEF keys, tags
    <3>3. /\ op[u] # Null /\ tags \subseteq op[u].tags
          /\ IF op[u].kind \in {"flush", "prune"} THEN keys \cup {} \subseteq Reach(op[u])
             ELSE keys \subseteq op[u].keys
      BY <1>1, <3>2
    <3>4. /\ op'[u] # Null
          /\ op'[u] = [kind |-> op[u].kind, keys |-> keys, tags |-> tags, kept |-> {}]
          /\ \A v \in Users \ {u} : op'[v] = op[v]
          /\ Reach(op'[u]) \subseteq Reach(op[u])
      <4>1. /\ op'[u] # Null
            /\ op'[u] = [kind |-> op[u].kind, keys |-> keys, tags |-> tags, kept |-> {}]
            /\ \A v \in Users \ {u} : op'[v] = op[v]
        BY <3>1, <3>3, TagGoesOn
      <4>2. Reach(op'[u]) \subseteq Reach(op[u])
        BY <3>1, <3>3, TagGoesOn
      <4> QED BY <4>1, <4>2
    <3> USE DEF keys, tags
    <3> QED BY <3>4
  <2>2. OpOK(op'[u]) /\ op'[u].kind = op[u].kind
    BY <1>1, <1>2, <2>1 DEF OpOK
  <2>3. op'[u].kind = "put"
           => \A j \in op'[u].keys \ raced' : \A s \in TagsOf[j] \ op'[u].tags : j \in members'[s]
    <3> SUFFICES ASSUME op[u].kind = "put", k \notin raced, NEW s \in TagsOf[k], s \notin op[u].tags \ {t}
                 PROVE  k \in members'[s]
      BY <1>1, <2>1
    <3>1. s = t \/ k \in members[s]
      BY <1>1, <1>2, <1>i DEF PutInv
    <3> QED BY <1>3, <3>1
  <2>4. ASSUME NEW j \in Tagged \ raced', Present(j)', NEW s \in TagsOf[j],
               ~Present(j) \/ j \in members[s] \ members'[s] \/ (op[u] # Null /\ Owes(op[u], j, s))
        PROVE  j \in members'[s] \/ (op'[u] # Null /\ Owes(op'[u], j, s))
    <3>1. s \in Tags
      BY TagFacts
    <3>2. Owes(op[u], j, s)
      BY <1>1, <1>3, <2>4, <3>1 DEF Present
    <3>3. op[u].kind = "add" /\ j = k /\ s \in op[u].tags
      BY <1>1, <1>2, <3>2 DEF Owes
    <3>4. s = t \/ Owes(op'[u], j, s)
      BY <2>1, <3>3 DEF Owes
    <3> QED BY <1>3, <2>1, <3>3, <3>4
  <2> QED BY <1>1, <1>4, <1>5, <2>1, <2>2, <2>3, <2>4, TaskMoves
<1> QED BY <1>1, <1>6, <1>7

LEMMA TagUnregisters ==
  ASSUME TypeInv, TagInv, NEW u \in Users, NEW t \in Tags, Unregister(u, t) PROVE TagInv'
<1>i. OpsInv /\ MembersInv
  BY DEF TagInv
<1>1. /\ op[u] # Null /\ op[u].kind = "forget" /\ t \in op[u].tags
      /\ members' = [members EXCEPT ![t] = @ \ op[u].keys]
      /\ UNCHANGED <<now, entries, raced>>
      /\ Rest(u, op[u].keys, op[u].tags \ {t}, {})
  BY DEF Unregister, In
<1>2. PICK k \in Tagged : op[u].keys = {k} /\ op[u].tags \subseteq TagsOf[k]
  BY <1>1, <1>i DEF OpsInv, OpOK
<1>3. /\ members' \in [Tags -> SUBSET Tagged] /\ members'[t] = members[t] \ {k}
      /\ \A s \in Tags \ {t} : members'[s] = members[s]
      /\ op[u].tags \subseteq Tags /\ {k} \in SUBSET Tagged
  BY <1>1, <1>2, TagFacts
<1>4. MembersInv'
  BY <1>3, <1>i DEF MembersInv
<1>5. \A s \in Tags : \A j \in members[s] \ members'[s] : op[u] # Null /\ j \in Takes(op[u])
  BY <1>1, <1>2, <1>3 DEF Takes, Reach
<1>6. /\ op'[u] # Null
      /\ op'[u] = [kind |-> op[u].kind, keys |-> {k}, tags |-> op[u].tags \ {t}, kept |-> {}]
      /\ \A v \in Users \ {u} : op'[v] = op[v]
      /\ Reach(op'[u]) \subseteq Reach(op[u])
  <2> DEFINE keys == {k}
             tags == op[u].tags \ {t}
  <2>1. /\ Rest(u, keys, tags, {}) /\ keys \in SUBSET Tagged /\ tags \in SUBSET Tags
        /\ {} \in SUBSET Tagged
    BY <1>1, <1>2, <1>3
  <2>2. tags \subseteq op[u].tags /\ op[u].kind \notin {"flush", "prune"} /\ keys \subseteq op[u].keys
    BY <1>1, <1>2
  <2> HIDE DEF keys, tags
  <2>3. /\ op[u] # Null /\ tags \subseteq op[u].tags
        /\ IF op[u].kind \in {"flush", "prune"} THEN keys \cup {} \subseteq Reach(op[u])
           ELSE keys \subseteq op[u].keys
    BY <1>1, <2>2
  <2>4. /\ op'[u] # Null
        /\ op'[u] = [kind |-> op[u].kind, keys |-> keys, tags |-> tags, kept |-> {}]
        /\ \A v \in Users \ {u} : op'[v] = op[v]
        /\ Reach(op'[u]) \subseteq Reach(op[u])
    <3>1. /\ op'[u] # Null
          /\ op'[u] = [kind |-> op[u].kind, keys |-> keys, tags |-> tags, kept |-> {}]
          /\ \A v \in Users \ {u} : op'[v] = op[v]
      BY <2>1, <2>3, TagGoesOn
    <3>2. Reach(op'[u]) \subseteq Reach(op[u])
      BY <2>1, <2>3, TagGoesOn
    <3> QED BY <3>1, <3>2
  <2> USE DEF keys, tags
  <2> QED BY <2>4
<1>7. OpOK(op'[u]) /\ op'[u].kind = op[u].kind /\ op'[u].kind # "put"
  BY <1>1, <1>2, <1>6 DEF OpOK
<1>8. ASSUME NEW j \in Tagged \ raced', Present(j)', NEW s \in TagsOf[j],
             ~Present(j) \/ j \in members[s] \ members'[s] \/ (op[u] # Null /\ Owes(op[u], j, s))
      PROVE  j \in members'[s] \/ (op'[u] # Null /\ Owes(op'[u], j, s))
  <2>1. s \in Tags
    BY TagFacts
  <2>2. j = k
    BY <1>1, <1>2, <1>3, <1>8, <2>1 DEF Present, Owes
  <2>3. Owes(op'[u], j, s)
    BY <1>1, <1>6, <2>2 DEF Owes
  <2> QED BY <1>6, <2>3
<1> QED BY <1>1, <1>4, <1>5, <1>6, <1>7, <1>8, TaskMoves

LEMMA TagPops ==
  ASSUME TypeInv, TagInv, NEW u \in Users, NEW t \in Tags, Pop(u, t) PROVE TagInv'
<1>i. OpsInv /\ MembersInv
  BY DEF TagInv
<1>1. /\ op[u] # Null /\ op[u].kind \in {"flush", "prune"} /\ t \in op[u].tags /\ op[u].keys = {}
      /\ members' = [members EXCEPT ![t] = {}]
      /\ UNCHANGED <<now, entries, raced>>
      /\ Rest(u, members[t], op[u].tags, op[u].kept)
  BY DEF Pop, In
<1>2. /\ members' \in [Tags -> SUBSET Tagged] /\ members'[t] = {}
      /\ \A s \in Tags \ {t} : members'[s] = members[s]
      /\ members[t] \in SUBSET Tagged /\ op[u].tags \in SUBSET Tags /\ op[u].kept \in SUBSET Tagged
  BY <1>1, TagFacts
<1>3. members[t] \subseteq Reach(op[u]) /\ op[u].kept \subseteq Reach(op[u])
  <2>1. \A k \in members[t] : k \in Tagged /\ TagsOf[k] \cap op[u].tags # {}
    BY <1>1, <1>2, <1>i DEF MembersInv
  <2> QED BY <1>1, <2>1 DEF Reach
<1>4. MembersInv'
  BY <1>2, <1>i DEF MembersInv
<1>5. \A s \in Tags : \A j \in members[s] \ members'[s] : op[u] # Null /\ j \in Takes(op[u])
  BY <1>1, <1>2, <1>3 DEF Takes
<1>6. /\ op'[u] # Null
      /\ op'[u] = [kind |-> op[u].kind, keys |-> members[t], tags |-> op[u].tags, kept |-> op[u].kept]
      /\ \A v \in Users \ {u} : op'[v] = op[v]
      /\ Reach(op'[u]) \subseteq Reach(op[u])
  <2>1. op[u].tags \subseteq op[u].tags /\ members[t] \cup op[u].kept \subseteq Reach(op[u])
    BY <1>3
  <2> QED BY <1>1, <1>2, <2>1, TagGoesOn
<1>7. OpOK(op'[u]) /\ op'[u].kind = op[u].kind /\ op'[u].kind # "put"
  <2>1. op[u].kind = "prune" => op[u].tags = {t} /\ \A k \in members[t] \cup op[u].kept : t \in TagsOf[k]
    BY <1>1, <1>i DEF OpsInv, OpOK, MembersInv
  <2> QED BY <1>1, <1>6, <2>1 DEF OpOK
<1>8. ASSUME NEW j \in Tagged \ raced', Present(j)', NEW s \in TagsOf[j],
             ~Present(j) \/ j \in members[s] \ members'[s] \/ (op[u] # Null /\ Owes(op[u], j, s))
      PROVE  j \in members'[s] \/ (op'[u] # Null /\ Owes(op'[u], j, s))
  <2>1. s \in Tags
    BY TagFacts
  <2>2. j \in members[s] \ members'[s] \/ Owes(op[u], j, s)
    BY <1>1, <1>8 DEF Present
  <2>3. CASE j \in members[s] \ members'[s]
    <3>1. s = t
      BY <1>2, <2>1, <2>3
    <3> QED BY <1>1, <1>6, <2>3, <3>1 DEF Owes
  <2>4. CASE Owes(op[u], j, s)
    <3>1. op[u].kind = "prune" /\ j \in op[u].kept /\ s \in op[u].tags
      BY <1>1, <2>4 DEF Owes
    <3> QED BY <1>6, <3>1 DEF Owes
  <2> QED BY <2>2, <2>3, <2>4
<1> QED BY <1>1, <1>4, <1>5, <1>6, <1>7, <1>8, TaskMoves

LEMMA TagFlushes ==
  ASSUME TypeInv, TagInv, NEW u \in Users, NEW k \in Tagged, FlushDelete(u, k) PROVE TagInv'
<1>i. OpsInv /\ MembersInv
  BY DEF TagInv
<1>1. /\ op[u] # Null /\ op[u].kind = "flush" /\ k \in op[u].keys /\ Forget(k)
      /\ UNCHANGED <<now, members, raced>>
      /\ Rest(u, op[u].keys \ {k}, op[u].tags, {})
  BY DEF FlushDelete, In
<1>2. op[u].keys \subseteq Tagged /\ op[u].tags \in SUBSET Tags
  BY <1>1, TagFacts
<1>3. /\ op'[u] # Null
      /\ op'[u] = [kind |-> op[u].kind, keys |-> op[u].keys \ {k}, tags |-> op[u].tags, kept |-> {}]
      /\ \A v \in Users \ {u} : op'[v] = op[v]
      /\ Reach(op'[u]) \subseteq Reach(op[u])
  <2> DEFINE keys == op[u].keys \ {k}
  <2>1. keys \in SUBSET Tagged /\ {} \in SUBSET Tagged /\ Rest(u, keys, op[u].tags, {})
    BY <1>1, <1>2
  <2>2. op[u].tags \subseteq op[u].tags /\ keys \cup {} \subseteq Reach(op[u])
    BY <1>1 DEF Reach
  <2> HIDE DEF keys
  <2>3. /\ op[u] # Null /\ op[u].tags \subseteq op[u].tags
        /\ IF op[u].kind \in {"flush", "prune"} THEN keys \cup {} \subseteq Reach(op[u])
           ELSE keys \subseteq op[u].keys
    BY <1>1, <2>1, <2>2
  <2>4. /\ op'[u] # Null
        /\ op'[u] = [kind |-> op[u].kind, keys |-> keys, tags |-> op[u].tags, kept |-> {}]
        /\ \A v \in Users \ {u} : op'[v] = op[v]
        /\ Reach(op'[u]) \subseteq Reach(op[u])
    BY <1>2, <2>1, <2>3, TagGoesOn
  <2> USE DEF keys
  <2> QED BY <2>4
<1>4. OpOK(op'[u]) /\ op'[u].kind = op[u].kind /\ op'[u].kind # "put"
  BY <1>1, <1>3 DEF OpOK
<1>5. (\A j \in Tagged \ {k} : Present(j)' <=> Present(j)) /\ ~Present(k)'
  BY <1>1, OneEntry
<1>6. ASSUME NEW j \in Tagged \ raced', Present(j)', NEW s \in TagsOf[j],
             ~Present(j) \/ j \in members[s] \ members'[s] \/ (op[u] # Null /\ Owes(op[u], j, s))
      PROVE  j \in members'[s] \/ (op'[u] # Null /\ Owes(op'[u], j, s))
  <2>1. j # k /\ Owes(op[u], j, s)
    BY <1>1, <1>5, <1>6
  <2> QED BY <1>1, <1>3, <2>1 DEF Owes
<1>7. MembersInv'
  BY <1>1, <1>i DEF MembersInv
<1>8. \A s \in Tags : \A j \in members[s] \ members'[s] : op[u] # Null /\ j \in Takes(op[u])
  BY <1>1
<1> QED BY <1>1, <1>3, <1>4, <1>6, <1>7, <1>8, TaskMoves

LEMMA TagFlushed ==
  ASSUME TypeInv, TagInv, NEW u \in Users, NEW t \in Tags, FlushTagDone(u, t) PROVE TagInv'
<1>i. OpsInv /\ MembersInv
  BY DEF TagInv
<1>1. /\ op[u] # Null /\ op[u].kind = "flush" /\ op[u].keys = {} /\ t \in op[u].tags
      /\ UNCHANGED <<now, entries, members, raced>>
      /\ Done(u) \/ Rest(u, {}, op[u].tags \ {t}, {})
  BY DEF FlushTagDone, In
<1>2. op[u].tags \ {t} \in SUBSET Tags /\ {} \in SUBSET Tagged
  BY <1>1, TagFacts
<1>3. /\ \A v \in Users \ {u} : op'[v] = op[v]
      /\ \/ op'[u] = Null
         \/ /\ op[u] # Null /\ op'[u].kind = op[u].kind /\ Reach(op'[u]) \subseteq Reach(op[u])
            /\ OpOK(op'[u])
  <2>1. CASE Done(u)
    BY <2>1, TagFacts, DoneMeans
  <2>2. CASE Rest(u, {}, op[u].tags \ {t}, {})
    <3> DEFINE tags == op[u].tags \ {t}
    <3>1. /\ tags \in SUBSET Tags /\ Rest(u, {}, tags, {}) /\ tags \subseteq op[u].tags
          /\ {} \cup {} \subseteq Reach(op[u])
      BY <1>2, <2>2
    <3> HIDE DEF tags
    <3>2. /\ op[u] # Null /\ tags \subseteq op[u].tags
          /\ IF op[u].kind \in {"flush", "prune"} THEN {} \cup {} \subseteq Reach(op[u])
             ELSE {} \subseteq op[u].keys
      BY <1>1, <3>1
    <3>3. /\ op'[u] = [kind |-> op[u].kind, keys |-> {}, tags |-> tags, kept |-> {}]
          /\ \A v \in Users \ {u} : op'[v] = op[v]
          /\ Reach(op'[u]) \subseteq Reach(op[u])
      BY <3>1, <3>2, TagGoesOn
    <3>4. OpOK(op'[u])
      BY <1>1, <3>3 DEF OpOK
    <3> QED BY <1>1, <3>3, <3>4
  <2> QED BY <1>1, <2>1, <2>2
<1>4. ASSUME NEW j \in Tagged \ raced', Present(j)', NEW s \in TagsOf[j],
             ~Present(j) \/ j \in members[s] \ members'[s] \/ (op[u] # Null /\ Owes(op[u], j, s))
      PROVE  j \in members'[s] \/ (op'[u] # Null /\ Owes(op'[u], j, s))
  <2>1. Owes(op[u], j, s)
    BY <1>1, <1>4 DEF Present
  <2> QED BY <1>1, <2>1 DEF Owes
<1>5. MembersInv'
  BY <1>1, <1>i DEF MembersInv
<1>6. \A s \in Tags : \A j \in members[s] \ members'[s] : op[u] # Null /\ j \in Takes(op[u])
  BY <1>1
<1> QED BY <1>1, <1>3, <1>4, <1>5, <1>6, TaskMoves

LEMMA TagPrunes ==
  ASSUME TypeInv, TagInv, NEW u \in Users, NEW k \in Tagged, PruneCheck(u, k) PROVE TagInv'
<1>i. OpsInv /\ MembersInv
  BY DEF TagInv
<1> DEFINE keys == op[u].keys \ {k}
           kept == op[u].kept \cup (IF Present(k) THEN {k} ELSE {})
<1>1. /\ op[u] # Null /\ op[u].kind = "prune" /\ k \in op[u].keys
      /\ UNCHANGED <<now, entries, members, raced>>
      /\ Rest(u, keys, op[u].tags, kept)
  BY DEF PruneCheck, In
<1>2. /\ keys \in SUBSET Tagged /\ kept \in SUBSET Tagged /\ op[u].tags \in SUBSET Tags
      /\ keys \cup kept \subseteq op[u].keys \cup op[u].kept
      /\ op[u].keys \cup op[u].kept \subseteq keys \cup kept \cup (IF Present(k) THEN {} ELSE {k})
  BY <1>1, TagFacts
<1> HIDE DEF keys, kept
<1>3. /\ op'[u] # Null
      /\ op'[u] = [kind |-> op[u].kind, keys |-> keys, tags |-> op[u].tags, kept |-> kept]
      /\ \A v \in Users \ {u} : op'[v] = op[v]
      /\ Reach(op'[u]) \subseteq Reach(op[u])
  <2>1. op[u].tags \subseteq op[u].tags /\ keys \cup kept \subseteq Reach(op[u])
    BY <1>1, <1>2 DEF Reach
  <2> QED BY <1>1, <1>2, <2>1, TagGoesOn
<1>4. OpOK(op'[u]) /\ op'[u].kind = op[u].kind /\ op'[u].kind # "put"
  BY <1>1, <1>2, <1>3, <1>i DEF OpsInv, OpOK
<1>5. ASSUME NEW j \in Tagged \ raced', Present(j)', NEW s \in TagsOf[j],
             ~Present(j) \/ j \in members[s] \ members'[s] \/ (op[u] # Null /\ Owes(op[u], j, s))
      PROVE  j \in members'[s] \/ (op'[u] # Null /\ Owes(op'[u], j, s))
  <2>1. Owes(op[u], j, s) /\ Present(j)
    BY <1>1, <1>5 DEF Present
  <2>2. j \in op[u].keys \cup op[u].kept /\ s \in op[u].tags
    BY <1>1, <2>1 DEF Owes
  <2>3. j \in keys \cup kept
    BY <1>2, <2>1, <2>2
  <2> QED BY <1>1, <1>3, <2>2, <2>3 DEF Owes
<1>6. MembersInv'
  BY <1>1, <1>i DEF MembersInv
<1>7. \A s \in Tags : \A j \in members[s] \ members'[s] : op[u] # Null /\ j \in Takes(op[u])
  BY <1>1
<1> QED BY <1>1, <1>3, <1>4, <1>5, <1>6, <1>7, TaskMoves

LEMMA TagPruned ==
  ASSUME TypeInv, TagInv, NEW u \in Users, NEW t \in Tags, PruneTagDone(u, t) PROVE TagInv'
<1>i. OpsInv /\ MembersInv
  BY DEF TagInv
<1>1. /\ op[u] # Null /\ op[u].kind = "prune" /\ op[u].keys = {} /\ t \in op[u].tags
      /\ members[t] = {} /\ members' = [members EXCEPT ![t] = op[u].kept]
      /\ UNCHANGED <<now, entries, raced>> /\ Done(u)
  BY DEF PruneTagDone, In
<1>2. op'[u] = Null /\ \A v \in Users \ {u} : op'[v] = op[v]
  BY <1>1, TagFacts, DoneMeans
<1>3. members'[t] = op[u].kept /\ \A s \in Tags \ {t} : members'[s] = members[s]
  BY <1>1, TagFacts
<1>4. op[u].tags = {t} /\ \A k \in op[u].kept : t \in TagsOf[k]
  BY <1>1, <1>i DEF OpsInv, OpOK
<1>5. MembersInv'
  BY <1>3, <1>4, <1>i DEF MembersInv
<1>6. \A s \in Tags : \A j \in members[s] \ members'[s] : op[u] # Null /\ j \in Takes(op[u])
  BY <1>1, <1>3
<1>7. ASSUME NEW j \in Tagged \ raced', Present(j)', NEW s \in TagsOf[j],
             ~Present(j) \/ j \in members[s] \ members'[s] \/ (op[u] # Null /\ Owes(op[u], j, s))
      PROVE  j \in members'[s] \/ (op'[u] # Null /\ Owes(op'[u], j, s))
  <2>1. s \in Tags
    BY TagFacts
  <2>2. Owes(op[u], j, s)
    BY <1>1, <1>3, <1>7, <2>1 DEF Present
  <2>3. j \in op[u].kept /\ s = t
    BY <1>1, <1>4, <2>2 DEF Owes
  <2> QED BY <1>3, <2>3
<1> QED BY <1>1, <1>2, <1>5, <1>6, <1>7, TaskMoves

\* What the others do to the store adds no tagged entry.
LEMMA TagsUntouched ==
  ASSUME TypeInv, TagInv, UNCHANGED tagVars, \A k \in Tagged : Present(k)' => Present(k)
  PROVE  TagInv'
  BY DEF TagInv, OpsInv, RacesInv, MembersInv, PutInv, KnownInv

LEMMA TagNext == TypeInv /\ TagInv /\ [Next]_vars => TagInv'
<1> SUFFICES ASSUME TypeInv, TagInv, [Next]_vars PROVE TagInv'
  OBVIOUS
<1>1. CASE TagStep
  <2>1. PICK u \in Users :
        \/ Call(u) \/ StorePut(u) \/ ForgetEntry(u) \/ TaskDies(u)
        \/ \E k \in Tagged : Add(u, k) \/ FlushDelete(u, k) \/ PruneCheck(u, k)
        \/ \E t \in Tags : \/ Register(u, t) \/ Unregister(u, t) \/ Pop(u, t)
                           \/ FlushTagDone(u, t) \/ PruneTagDone(u, t)
    BY <1>1 DEF TagStep
  <2>2. CASE Call(u) \/ StorePut(u) \/ ForgetEntry(u) \/ TaskDies(u)
    BY <2>2, TagCalls, TagStores, TagDies
  <2>3. CASE \E k \in Tagged : Add(u, k) \/ FlushDelete(u, k) \/ PruneCheck(u, k)
    BY <2>3, TagCalls, TagFlushes, TagPrunes
  <2>4. CASE \E t \in Tags : \/ Register(u, t) \/ Unregister(u, t) \/ Pop(u, t)
                             \/ FlushTagDone(u, t) \/ PruneTagDone(u, t)
    BY <2>4, TagRegisters, TagUnregisters, TagPops, TagFlushed, TagPruned
  <2> QED BY <2>1, <2>2, <2>3, <2>4
<1>2. CASE (FlexStep \/ CountStep) /\ UNCHANGED tagVars
  <2>1. Only({Page, Guard}) \/ Only({Limited, Throttle})
    BY <1>2, FlexStore, CountStore DEF TypeInv
  <2>2. \A k \in Tagged : entries'[k] = entries[k]
    BY <2>1, KeysApart DEF Only
  <2> QED BY <1>2, <2>2, TagsUntouched DEF Present
<1>3. CASE (ScheduleStep /\ UNCHANGED <<entries, tagVars>>) \/ UNCHANGED vars
  BY <1>3, TagsUntouched DEF vars, Present
<1>4. CASE Flush
  <2>1. /\ members' = [t \in Tags |-> {}] /\ UNCHANGED op
        /\ raced' = raced \cup UNION {op[u].keys : u \in {v \in Users : In(v, "put")}}
    BY <1>4 DEF Flush
  <2>2. \A k \in Tagged : ~Present(k)'
    BY <1>4, FlushStore, TagFacts
  <2>3. OpsInv' /\ MembersInv' /\ KnownInv'
    BY <2>1, <2>2 DEF TagInv, OpsInv, MembersInv, KnownInv
  <2>4. RacesInv'
    BY <2>1 DEF TagInv, RacesInv
  <2>5. PutInv'
    BY <2>1 DEF PutInv, In
  <2> QED BY <2>3, <2>4, <2>5 DEF TagInv
<1>5. CASE Tick
  <2>1. \A k \in Tagged : Present(k)' => Present(k)
    BY <1>5, TickStore, TagFacts DEF Present
  <2> QED BY <1>5, <2>1, TagsUntouched DEF Tick
<1> QED BY <1>1, <1>2, <1>3, <1>4, <1>5 DEF Next

\* With nothing under way an entry is a member of every tag it was written under, so that
\* flushing one of them removes it, but for races with put and for deaths halfway.
THEOREM TagsKnow == Spec => []TagsKnowTheirEntries
<1>1. Init => TagInv
  BY TaggedAssumption DEF Init, StoreInit, TagInit, Present, TagInv, OpsInv, RacesInv, MembersInv, PutInv, KnownInv
<1>2. TagInv => TagsKnowTheirEntries
  BY DEF TagInv, KnownInv, TagsKnowTheirEntries
<1> QED BY <1>1, <1>2, TypeInit, TypeNext, TagNext, PTL DEF Spec

-----------------------------------------------------------------------------
(* Who a run gives way to: the locks it can lose to are made of its own identity. *)

ClaimsAlike ==
    \A t \in Tasks, i \in DOMAIN Wall : ~Free(ClaimName(t, Wall[i])) =>
        LET r == locks[ClaimName(t, Wall[i])].owner IN r \in Runs /\ Identity[r[2]] = Identity[t]
LostAlike ==
    \A r \in Runs : lostTo[r] # Null => lostTo[r] \in Runs /\ Identity[lostTo[r][2]] = Identity[r[2]]
AlikeInv == ClaimsAlike /\ LostAlike

LEMMA SameName ==
  /\ \A t, u \in Tasks : \A m, n : ClaimName(t, m) = ClaimName(u, n) => Identity[t] = Identity[u]
  /\ \A t, u \in Tasks : OverlapName(t) = OverlapName(u) => Identity[t] = Identity[u]
<1>1. \A t \in Tasks : \A m : ClaimName(t, m)[2] = Identity[t] /\ OverlapName(t)[2] = Identity[t]
  BY DEF ClaimName, OverlapName
<1> HIDE DEF ClaimName, OverlapName
<1> QED BY <1>1

LEMMA AlikeKept ==
  ASSUME AlikeInv, UNCHANGED lostTo,
         \A t \in Tasks, i \in DOMAIN Wall :
            \/ Free(ClaimName(t, Wall[i]))'
            \/ locks'[ClaimName(t, Wall[i])] = locks[ClaimName(t, Wall[i])]
  PROVE  AlikeInv'
<1>1. LostAlike'
  BY DEF AlikeInv, LostAlike
<1>2. ClaimsAlike'
  <2> SUFFICES ASSUME NEW t \in Tasks, NEW i \in DOMAIN Wall, ~Free(ClaimName(t, Wall[i]))'
               PROVE  LET r == locks'[ClaimName(t, Wall[i])].owner IN r \in Runs /\ Identity[r[2]] = Identity[t]
    BY DEF ClaimsAlike, ClaimName
  <2>1. locks'[ClaimName(t, Wall[i])] = locks[ClaimName(t, Wall[i])]
    OBVIOUS
  <2>2. ~Free(ClaimName(t, Wall[i]))
    BY <2>1 DEF Free, ClaimName
  <2> QED BY <2>1, <2>2 DEF AlikeInv, ClaimsAlike
<1> QED BY <1>1, <1>2 DEF AlikeInv

LEMMA AlikeRunStep ==
  ScheduleTypeOK /\ Started /\ now \in 0..MaxTime /\ OverlapHeld /\ AlikeInv /\ RunStep => AlikeInv'
<1> SUFFICES ASSUME ScheduleTypeOK, Started, now \in 0..MaxTime, OverlapHeld, AlikeInv, RunStep PROVE AlikeInv'
  OBVIOUS
<1>k. /\ LocksTypeOK /\ now \in Nat /\ Runs \subseteq Owners /\ OverlapTTL \in Nat /\ ClaimTTL \in Nat
      /\ lostTo \in [Runs -> Owners \cup {Null}] /\ \A r \in Runs : r[2] \in Tasks /\ r[1] \in Ticks
  BY SchedulerAssumption, ClockAssumption DEF ScheduleTypeOK, Runs
<1>n. \A t \in Tasks, i \in DOMAIN Wall :
         ClaimName(t, Wall[i]) \in Names /\ \A u \in Tasks : ClaimName(t, Wall[i]) # OverlapName(u)
  BY LockNames
<1>1. ASSUME UNCHANGED <<locks, lostTo>> PROVE AlikeInv'
  BY <1>1, AlikeKept
<1>2. ASSUME NEW k \in Ticks, RunDue(k) \/ Kill(k) PROVE AlikeInv'
  BY <1>2, <1>1 DEF RunDue, Kill, LocksKept
<1>3. ASSUME NEW r \in Runs,
             Down(r) \/ BeforeRaises(r) \/ AfterRaises(r) \/ (\E raises \in BOOLEAN : Callback(r, raises))
      PROVE AlikeInv'
  BY <1>3, <1>1 DEF Down, BeforeRaises, AfterRaises, Callback, LocksKept
<1>4. ASSUME NEW r \in Runs, Claim(r) PROVE AlikeInv'
  <2> DEFINE name == ClaimName(r[2], minute[r[1]])
  <2>1. /\ name \in Names /\ pc[r] = "gate"
        /\ \/ Grant(name, r, ClaimTTL) /\ UNCHANGED lostTo
           \/ UNCHANGED <<locks, lostTo>>
           \/ /\ ~Free(name) /\ UNCHANGED locks
              /\ lostTo' = [lostTo EXCEPT ![r] = locks[name].owner]
    BY <1>4, ClaimMeans
  <2>2. PICK i \in DOMAIN Wall : minute[r[1]] = Wall[i]
    BY <2>1, <1>k DEF ScheduleTypeOK, Started
  <2>3. name = ClaimName(r[2], Wall[i])
    BY <2>2
  <2> HIDE DEF name
  <2>4. CASE Grant(name, r, ClaimTTL) /\ UNCHANGED lostTo
    <3>1. /\ locks'[name] = [owner |-> r, expires |-> now + ClaimTTL]
          /\ \A m \in Names \ {name} : locks'[m] = locks[m]
      BY <2>1, <2>4, <1>k, GrantMeans
    <3>2. ClaimsAlike'
      <4> SUFFICES ASSUME NEW t \in Tasks, NEW j \in DOMAIN Wall, ~Free(ClaimName(t, Wall[j]))'
                   PROVE  LET q == locks'[ClaimName(t, Wall[j])].owner
                          IN  q \in Runs /\ Identity[q[2]] = Identity[t]
        BY DEF ClaimsAlike, ClaimName
      <4>1. CASE ClaimName(t, Wall[j]) = name
        <5>1. Identity[t] = Identity[r[2]]
          BY <4>1, <2>3, <1>k, SameName
        <5>2. locks'[ClaimName(t, Wall[j])].owner = r
          BY <4>1, <3>1
        <5> QED BY <5>1, <5>2
      <4>2. CASE ClaimName(t, Wall[j]) # name
        <5>1. locks'[ClaimName(t, Wall[j])] = locks[ClaimName(t, Wall[j])]
          BY <4>2, <3>1, <1>n
        <5>2. ~Free(ClaimName(t, Wall[j]))
          BY <5>1 DEF Free, ClaimName
        <5> QED BY <5>1, <5>2 DEF AlikeInv, ClaimsAlike
      <4> QED BY <4>1, <4>2
    <3> QED BY <2>4, <3>2 DEF AlikeInv, LostAlike
  <2>5. CASE /\ ~Free(name) /\ UNCHANGED locks
             /\ lostTo' = [lostTo EXCEPT ![r] = locks[name].owner]
    <3>1. locks[name].owner \in Runs /\ Identity[locks[name].owner[2]] = Identity[r[2]]
      BY <2>3, <2>5, <1>k DEF AlikeInv, ClaimsAlike
    <3>2. LostAlike'
      BY <2>5, <3>1, <1>k DEF AlikeInv, LostAlike
    <3>3. ClaimsAlike'
      BY <2>5 DEF AlikeInv, ClaimsAlike, Free, ClaimName
    <3> QED BY <3>2, <3>3 DEF AlikeInv
  <2> QED BY <2>1, <2>4, <2>5, <1>1
<1>5. ASSUME NEW r \in Runs, Lock(r) PROVE AlikeInv'
  <2> DEFINE name == OverlapName(r[2])
  <2>1. /\ name \in Names
        /\ \/ Enter(name, r, OverlapTTL) /\ UNCHANGED <<now, lostTo>>
           \/ UNCHANGED <<locks, lostTo>>
           \/ /\ ~Free(name) /\ UNCHANGED locks
              /\ lostTo' = [lostTo EXCEPT ![r] = locks[name].owner]
    BY <1>5, LockMeans
  <2>2. CASE Enter(name, r, OverlapTTL) /\ UNCHANGED <<now, lostTo>>
    <3>1. \A m \in Names \ {name} : locks'[m] = locks[m]
      <4> HIDE DEF name
      <4> QED BY <2>1, <2>2, <1>k, GrantMeans DEF Enter
    <3>2. \A t \in Tasks, i \in DOMAIN Wall : locks'[ClaimName(t, Wall[i])] = locks[ClaimName(t, Wall[i])]
      BY <3>1, <1>n, <1>k
    <3> QED BY <2>2, <3>2, AlikeKept
  <2>3. CASE /\ ~Free(name) /\ UNCHANGED locks
             /\ lostTo' = [lostTo EXCEPT ![r] = locks[name].owner]
    <3> DEFINE holder == locks[name].owner
    <3>1. holder \in Runs /\ OverlapName(holder[2]) = OverlapName(r[2])
      BY <2>3, <1>k DEF OverlapHeld
    <3>2. Identity[holder[2]] = Identity[r[2]]
      BY <3>1, <1>k, SameName
    <3>3. lostTo' = [lostTo EXCEPT ![r] = holder]
      BY <2>3
    <3> HIDE DEF holder
    <3>4. LostAlike'
      BY <3>1, <3>2, <3>3, <1>k DEF AlikeInv, LostAlike
    <3>5. ClaimsAlike'
      BY <2>3 DEF AlikeInv, ClaimsAlike, Free, ClaimName
    <3> QED BY <3>4, <3>5 DEF AlikeInv
  <2> QED BY <2>1, <2>2, <2>3, <1>1
<1>6. ASSUME NEW r \in Runs, Finish(r) PROVE AlikeInv'
  <2> DEFINE name == OverlapName(r[2])
  <2>1. UNCHANGED lostTo /\ (Leave(name, r) \/ UNCHANGED locks) /\ name \in Names
    BY <1>6, <1>k, FinishMeans, LockNames
  <2>2. \A m \in Names \ {name} : locks'[m] = locks[m]
    <3>1. CASE Leave(name, r)
      <4> HIDE DEF name
      <4> QED BY <2>1, <3>1, <1>k, LeaveMeans
    <3> QED BY <2>1, <3>1
  <2>3. \A t \in Tasks, i \in DOMAIN Wall : locks'[ClaimName(t, Wall[i])] = locks[ClaimName(t, Wall[i])]
    BY <2>2, <1>n, <1>k
  <2> QED BY <2>1, <2>3, AlikeKept
<1> QED BY <1>2, <1>3, <1>4, <1>5, <1>6 DEF RunStep

LEMMA AlikeNext == TypeInv /\ OverlapHeld /\ AlikeInv /\ [Next]_vars => AlikeInv'
<1> SUFFICES ASSUME TypeInv, OverlapHeld, AlikeInv, [Next]_vars PROVE AlikeInv'
  OBVIOUS
<1>t. ScheduleTypeOK /\ Started /\ LocksTypeOK /\ now \in Nat /\ now \in 0..MaxTime
  BY ClockAssumption DEF TypeInv, StoreOK, ScheduleTypeOK
<1>n. \A t \in Tasks, i \in DOMAIN Wall :
         ClaimName(t, Wall[i]) \in Names /\ ClaimName(t, Wall[i]) # Mutex
  BY LockNames
<1>1. CASE UNCHANGED <<lockVars, runVars>>
  BY <1>1, AlikeKept
<1>2. CASE RunStep
  BY <1>2, <1>t, AlikeRunStep
<1>3. CASE LockStep /\ UNCHANGED runVars
  <2>1. \A t \in Tasks, i \in DOMAIN Wall : locks'[ClaimName(t, Wall[i])] = locks[ClaimName(t, Wall[i])]
    BY <1>3, <1>t, <1>n, LockStepElsewhere
  <2> QED BY <1>3, <2>1, AlikeKept
<1>4. CASE Tick
  <2>1. UNCHANGED lostTo
    BY <1>4 DEF Tick, ScheduleTick
  <2>2. \A t \in Tasks, i \in DOMAIN Wall :
           Free(ClaimName(t, Wall[i]))' \/ locks'[ClaimName(t, Wall[i])] = locks[ClaimName(t, Wall[i])]
    <3> SUFFICES ASSUME NEW t \in Tasks, NEW i \in DOMAIN Wall
                 PROVE  Free(ClaimName(t, Wall[i]))' \/ locks'[ClaimName(t, Wall[i])] = locks[ClaimName(t, Wall[i])]
      OBVIOUS
    <3>1. ClaimName(t, Wall[i]) \in Names
      BY <1>n
    <3> QED BY <1>4, <3>1, TickLocks
  <2> QED BY <2>1, <2>2, AlikeKept
<1>5. CASE Flush
  <2>1. CASE locks' = [n \in Names |-> Null]
    <3>1. \A t \in Tasks, i \in DOMAIN Wall : Free(ClaimName(t, Wall[i]))'
      BY <2>1, <1>n DEF Free, ClaimName
    <3>2. UNCHANGED lostTo
      BY <1>5, FlushMeans
    <3> QED BY <3>1, <3>2, AlikeKept
  <2>2. UNCHANGED runVars
    BY <1>5, FlushMeans
  <2> QED BY <1>1, <1>5, <2>1, <2>2, FlushMeans
<1> QED BY <1>1, <1>2, <1>3, <1>4, <1>5 DEF Next, ScheduleStep, vars

\* A tick is given up only for another run of the same task, wherever the tasks' locks have
\* names of their own; Schedule.command gives two commands one name, and there it is not.
THEOREM LosesToItself ==
    (\A t, u \in Tasks : Identity[t] = Identity[u] => t = u) => (Spec => []LosesOnlyToItself)
<1> SUFFICES ASSUME \A t, u \in Tasks : Identity[t] = Identity[u] => t = u
             PROVE  Spec => []LosesOnlyToItself
  OBVIOUS
<1>1. Init => OverlapHeld /\ AlikeInv
  <2>1. Init => OverlapHeld
    BY LockNames DEF Init, ScheduleInit, LocksInit, OverlapHeld, Free
  <2>2. Init => AlikeInv
    BY LockNames DEF Init, ScheduleInit, LocksInit, AlikeInv, ClaimsAlike, LostAlike, Free
  <2> QED BY <2>1, <2>2
<1>2. AlikeInv => LosesOnlyToItself
  BY DEF AlikeInv, LostAlike, LosesOnlyToItself, Runs
<1> QED BY <1>1, <1>2, TypeInit, TypeNext, OverlapNext, AlikeNext, PTL DEF Spec
=============================================================================
