---------------------------- MODULE TaggedCache ----------------------------
(* TaggedCache: entries written under tags, and each tag's set of members by  *)
(* which they are flushed; every call on the client is a step of its own.     *)
EXTENDS CacheStore, FiniteSets
CONSTANTS
    Tagged,     \* the scoped keys
    Tags,
    TagsOf,     \* [Tagged -> the tags a key is scoped to]
    Users,      \* tasks that use the cache
    TagTTL

Kinds == {"put", "add", "forget", "flush", "prune"}
Operation == [kind : Kinds, keys : SUBSET Tagged, tags : SUBSET Tags, kept : SUBSET Tagged]

ASSUME TaggedAssumption ==
    /\ Tagged \subseteq Keys /\ TagsOf \in [Tagged -> SUBSET Tags] /\ TagTTL \in Nat \ {0}
    /\ Null \notin Operation

VARIABLES
    members,    \* [Tags -> the keys registered under it]
    op,         \* [Users -> the operation it is in, or Null]
    raced       \* history: keys a put wrote alongside a flush, prune or forget of them,
                \* or that an operation was dealing with when its task died

tagVars == <<members, op, raced>>

TagTypeOK ==
    /\ members \in [Tags -> SUBSET Tagged]
    /\ op \in [Users -> Operation \cup {Null}]
    /\ raced \subseteq Tagged

TagInit ==
    /\ members = [t \in Tags |-> {}]
    /\ op = [u \in Users |-> Null]
    /\ raced = {}

In(u, kind) == op[u] # Null /\ op[u].kind = kind
Done(u) == op' = [op EXCEPT ![u] = Null]
Rest(u, keys, tags, kept) ==
    op' = [op EXCEPT ![u] = [@ EXCEPT !.keys = keys, !.tags = tags, !.kept = kept]]

\* The keys an operation may take out of a set, or put into the store.
Reach(o) == IF o.kind \in {"flush", "prune"}
            THEN {k \in Tagged : TagsOf[k] \cap o.tags # {}} \cup o.keys \cup o.kept
            ELSE o.keys

Removals == {"flush", "prune", "forget"}
Races(o, p) == \/ o.kind = "put" /\ p.kind \in Removals
               \/ p.kind = "put" /\ o.kind \in Removals

Begin(u, kind, keys, tags) ==
    LET mine == [kind |-> kind, keys |-> keys, tags |-> tags, kept |-> {}] IN
    /\ op[u] = Null
    /\ op' = [op EXCEPT ![u] = mine]
    /\ raced' = raced \cup UNION {Reach(mine) \cap Reach(op[v]) :
                                     v \in {w \in Users : op[w] # Null /\ Races(mine, op[w])}}

\* put and forget of a key, flush of any tags, prune of one
\* after the other: nothing has happened yet.
Call(u) ==
    /\ \/ \E k \in Tagged, kind \in {"put", "forget"} : Begin(u, kind, {k}, TagsOf[k])
       \/ \E tags \in SUBSET Tags \ {{}} : Begin(u, "flush", {}, tags)
       \/ \E t \in Tags : Begin(u, "prune", {}, {t})
    /\ UNCHANGED <<now, entries, members>>

\* add stores first, if there is nothing, and registers what it stored.
Add(u, k) ==
    /\ ~Present(k)
    /\ Put(k, "value", TagTTL)
    /\ Begin(u, "add", {k}, TagsOf[k])
    /\ UNCHANGED <<now, members>>

\* The next set_add of a put or an add; put then stores, for a while, forever or,
\* with no time to live, not at all.
Register(u, t) ==
    /\ In(u, "put") \/ In(u, "add")
    /\ t \in op[u].tags
    /\ members' = [members EXCEPT ![t] = @ \cup op[u].keys]
    /\ IF In(u, "add") /\ op[u].tags = {t} THEN Done(u)
       ELSE Rest(u, op[u].keys, op[u].tags \ {t}, {})
    /\ UNCHANGED <<now, entries, raced>>

StorePut(u) ==
    /\ In(u, "put") /\ op[u].tags = {}
    /\ \E k \in op[u].keys : Forget(k) \/ \E ttl \in {TagTTL, Null} : Put(k, "value", ttl)
    /\ Done(u)
    /\ UNCHANGED <<now, members, raced>>

Unregister(u, t) ==
    /\ In(u, "forget") /\ t \in op[u].tags
    /\ members' = [members EXCEPT ![t] = @ \ op[u].keys]
    /\ Rest(u, op[u].keys, op[u].tags \ {t}, {})
    /\ UNCHANGED <<now, entries, raced>>

ForgetEntry(u) ==
    /\ In(u, "forget") /\ op[u].tags = {}
    /\ \E k \in op[u].keys : Forget(k)
    /\ Done(u)
    /\ UNCHANGED <<now, members, raced>>

\* set_pop takes the members out of the set before they are dealt with; the tag is left
\* when the set is found empty.
Pop(u, t) ==
    /\ In(u, "flush") \/ In(u, "prune")
    /\ op[u].keys = {} /\ t \in op[u].tags
    /\ members[t] # {}
    /\ Rest(u, members[t], op[u].tags, op[u].kept)
    /\ members' = [members EXCEPT ![t] = {}]
    /\ UNCHANGED <<now, entries, raced>>

FlushDelete(u, k) ==
    /\ In(u, "flush") /\ k \in op[u].keys
    /\ Forget(k)
    /\ Rest(u, op[u].keys \ {k}, op[u].tags, {})
    /\ UNCHANGED <<now, members, raced>>

FlushTagDone(u, t) ==
    /\ In(u, "flush") /\ op[u].keys = {} /\ t \in op[u].tags
    /\ members[t] = {}
    /\ IF op[u].tags = {t} THEN Done(u) ELSE Rest(u, {}, op[u].tags \ {t}, {})
    /\ UNCHANGED <<now, entries, members, raced>>

PruneCheck(u, k) ==
    /\ In(u, "prune") /\ k \in op[u].keys
    /\ Rest(u, op[u].keys \ {k}, op[u].tags, op[u].kept \cup (IF Present(k) THEN {k} ELSE {}))
    /\ UNCHANGED <<now, entries, members, raced>>

\* Mutant: the survivors are not put back.
PruneLoses(u, t) ==
    /\ In(u, "prune") /\ op[u].keys = {} /\ t \in op[u].tags
    /\ members[t] = {}
    /\ Done(u)
    /\ UNCHANGED <<now, entries, members, raced>>

PruneTagDone(u, t) ==
    /\ In(u, "prune") /\ op[u].keys = {} /\ t \in op[u].tags
    /\ members[t] = {}
    /\ members' = [members EXCEPT ![t] = op[u].kept]
    /\ Done(u)
    /\ UNCHANGED <<now, entries, raced>>

TaskDies(u) ==
    /\ op[u] # Null
    /\ raced' = IF In(u, "put") THEN raced ELSE raced \cup Reach(op[u])
    /\ Done(u)
    /\ UNCHANGED <<now, entries, members>>

TagStep ==
    \E u \in Users :
        \/ Call(u) \/ StorePut(u) \/ ForgetEntry(u) \/ TaskDies(u)
        \/ \E k \in Tagged : Add(u, k) \/ FlushDelete(u, k) \/ PruneCheck(u, k)
        \/ \E t \in Tags : \/ Register(u, t) \/ Unregister(u, t) \/ Pop(u, t)
                           \/ FlushTagDone(u, t) \/ PruneTagDone(u, t)

----------------------------------------------------------------------------
(* Properties *)

\* docs/cache.md: "flushing a single tag removes every entry ever written with it". With
\* no operation under way an entry is a member of all its tags, whatever ran at once,
\* unless a put raced with a flush, prune or forget of it or a task died halfway.
TagsKnowTheirEntries ==
    (\A u \in Users : op[u] = Null) =>
        \A k \in Tagged \ raced : Present(k) => \A t \in TagsOf[k] : k \in members[t]
=============================================================================
