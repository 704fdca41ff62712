----------------------------- MODULE CacheLocks -----------------------------
(* The lock table of arvel.cache (the array driver's dict, or SET NX PX and   *)
(* two owner-checked scripts on redis) and those who hold a CacheLock around  *)
(* a piece of work: lock.get, lock.block, async with, and the job middleware  *)
(* WithoutOverlapping.                                                        *)
EXTENDS CacheStore
CONSTANTS
    Names,      \* lock names
    Owners,     \* owner tokens, one per handle
    Clients,    \* the owners that guard a piece of work with the lock Mutex
    Mutex,
    LockTTL,    \* its seconds
    MaxWait,    \* the longest wait_seconds given to block
    Driver,     \* of the store: "array" or "redis"
    MaxFlushes  \* bound: flushes that find locks to drop

ASSUME LocksAssumption ==
    /\ LockTTL \in Nat \ {0} /\ MaxWait \in Nat
    /\ Driver \in {"array", "redis"} /\ MaxFlushes \in Nat
    /\ Clients \subseteq Owners /\ Mutex \in Names
    /\ Null \notin Owners /\ Null \notin Names
    /\ Null \notin [owner : Owners, expires : Nat]

VARIABLES
    locks,      \* [Names -> Null or who holds it, and until when]
    client,     \* where each client is
    deadline,   \* when its block gives up, or Null
    held,       \* history: the lock whose section an owner is in, or Null
    lease,      \* history: until when it was granted or refreshed, 0 once somebody
                \* released it by force or flushed it
    flushes     \* history and bound: how often a flush dropped locks

clients == <<client, deadline>>
lockVars == <<locks, clients, held, lease, flushes>>

LocksTypeOK ==
    /\ locks \in [Names -> [owner : Owners, expires : Nat] \cup {Null}]
    /\ client \in [Clients -> {"idle", "waiting", "inside"}]
    /\ deadline \in [Clients -> Nat \cup {Null}]
    /\ held \in [Owners -> Names \cup {Null}] /\ lease \in [Owners -> Nat]
    /\ flushes \in 0..MaxFlushes

LocksInit ==
    /\ locks = [n \in Names |-> Null]
    /\ client = [c \in Clients |-> "idle"]
    /\ deadline = [c \in Clients |-> Null]
    /\ held = [o \in Owners |-> Null]
    /\ lease = [o \in Owners |-> 0]
    /\ flushes = 0

----------------------------------------------------------------------------
(* The table. An expired entry counts as none, so it is dropped as it expires. *)

Free(n) == locks[n] = Null

Grant(n, o, ttl) == locks' = [locks EXCEPT ![n] = [owner |-> o, expires |-> now + ttl]]

\* Entering the section that lock n guards.
Enter(n, o, ttl) ==
    /\ Free(n)
    /\ Grant(n, o, ttl)
    /\ held' = [held EXCEPT ![o] = n]
    /\ lease' = [lease EXCEPT ![o] = now + ttl]

\* Mutant: release deletes the key, whoever holds it.
OwnsAny(n, o) == ~Free(n)

Owns(n, o) == ~Free(n) /\ locks[n].owner = o

\* Leaving it: the lock is deleted only if the handle's token still holds it.
Leave(n, o) ==
    /\ locks' = IF Owns(n, o) THEN [locks EXCEPT ![n] = Null] ELSE locks
    /\ held' = [held EXCEPT ![o] = Null]
    /\ lease' = [lease EXCEPT ![o] = 0]

LocksExpire ==
    /\ locks' = [n \in Names |->
                    IF ~Free(n) /\ locks[n].expires <= now + 1 THEN Null ELSE locks[n]]
    /\ UNCHANGED <<clients, held, lease, flushes>>

\* flush clears the redis database, where a lock is a key like any other; the array
\* driver keeps its locks in a table of their own.
LocksFlushed ==
    /\ locks' = [n \in Names |-> Null]
    /\ lease' = [o \in Owners |-> 0]
    /\ flushes' = (IF \E n \in Names : ~Free(n) THEN flushes + 1 ELSE flushes)
    /\ flushes' <= MaxFlushes
    /\ UNCHANGED <<clients, held>>

FlushLocks == IF Driver = "redis" THEN LocksFlushed ELSE UNCHANGED lockVars

----------------------------------------------------------------------------
(* The clients *)

\* One try, or a turn of block's loop.
Acquire(c) ==
    /\ client[c] # "inside"
    /\ Enter(Mutex, c, LockTTL)
    /\ client' = [client EXCEPT ![c] = "inside"]
    /\ deadline' = [deadline EXCEPT ![c] = Null]
    /\ UNCHANGED <<now, flushes>>

\* get and async with raise, WithoutOverlapping puts the job back, block waits.
Refused(c) ==
    /\ client[c] = "idle"
    /\ ~Free(Mutex)
    /\ \E wait \in 0..MaxWait : deadline' = [deadline EXCEPT ![c] = now + wait]
    /\ client' = [client EXCEPT ![c] = "waiting"]
    /\ UNCHANGED <<now, locks, held, lease, flushes>>

LockTimeout(c) ==
    /\ client[c] = "waiting"
    /\ ~Free(Mutex)
    /\ now >= deadline[c]
    /\ client' = [client EXCEPT ![c] = "idle"]
    /\ deadline' = [deadline EXCEPT ![c] = Null]
    /\ UNCHANGED <<now, locks, held, lease, flushes>>

Refresh(c) ==
    /\ client[c] = "inside"
    /\ Owns(Mutex, c)
    /\ Grant(Mutex, c, LockTTL)
    /\ lease' = [lease EXCEPT ![c] = now + LockTTL]
    /\ UNCHANGED <<now, clients, held, flushes>>

\* The guarded work returned or raised, both release.
Release(c) ==
    /\ client[c] = "inside"
    /\ Leave(Mutex, c)
    /\ client' = [client EXCEPT ![c] = "idle"]
    /\ UNCHANGED <<now, deadline, flushes>>

\* The holder dies: nobody releases.
Die(c) ==
    /\ client[c] = "inside"
    /\ client' = [client EXCEPT ![c] = "idle"]
    /\ held' = [held EXCEPT ![c] = Null]
    /\ lease' = [lease EXCEPT ![c] = 0]
    /\ UNCHANGED <<now, locks, deadline, flushes>>

ForceRelease ==
    /\ ~Free(Mutex)
    /\ locks' = [locks EXCEPT ![Mutex] = Null]
    /\ lease' = [lease EXCEPT ![locks[Mutex].owner] = 0]
    /\ UNCHANGED <<now, clients, held, flushes>>

LockStep ==
    \/ \E c \in Clients : \/ Acquire(c) \/ Refused(c) \/ LockTimeout(c)
                          \/ Refresh(c) \/ Release(c) \/ Die(c)
    \/ ForceRelease

----------------------------------------------------------------------------
(* Properties *)

\* Who is in the section of a lock and within the time granted still has the lock,
\* whatever slower holders, dead ones and their late releases do: nobody else is in. A
\* grant ends with its time, when it is released by force and, on redis, when the store
\* is flushed; whoever gets the lock after that has it in turn.
LeaseHonoured ==
    \A o \in Owners : held[o] # Null /\ now < lease[o] => Owns(held[o], o)
=============================================================================
