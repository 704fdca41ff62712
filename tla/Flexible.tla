------------------------------ MODULE Flexible ------------------------------
(* CacheRepository.flexible: an entry is served while fresh, served and       *)
(* refreshed in the background while stale, and computed anew beyond.         *)
EXTENDS CacheStore, FiniteSets
CONSTANTS
    Callers,
    Refreshes,      \* bound: background tasks alive at once
    Page, Guard,    \* the key, and the key that guards its refresh
    Fresh, Stale,
    Slow            \* bound: the longest a callback takes

ASSUME FlexibleAssumption ==
    /\ {Page, Guard} \subseteq Keys /\ Page # Guard
    /\ Fresh \in Nat /\ Stale \in Nat /\ Slow \in Nat
    /\ Null \notin [at : {"compute", "end"}, since : 0..MaxTime]

VARIABLES
    caller,     \* [Callers -> where it is, and since when it computes]
    refresh,    \* [Refreshes -> a background task, or Null]
    disturbed   \* history: a refresh outlived its guard, or the store was flushed

flexVars == <<caller, refresh, disturbed>>

Idle == [at |-> "idle", since |-> 0]

FlexTypeOK ==
    /\ caller \in [Callers -> [at : {"idle", "guard", "compute"}, since : 0..MaxTime]]
    /\ refresh \in [Refreshes -> [at : {"compute", "end"}, since : 0..MaxTime] \cup {Null}]
    /\ disturbed \in BOOLEAN

FlexInit ==
    /\ caller = [c \in Callers |-> Idle]
    /\ refresh = [r \in Refreshes |-> Null]
    /\ disturbed = FALSE

Age == now - entries[Page].value.stamp
Become(c, label) == caller' = [caller EXCEPT ![c] = [at |-> label, since |-> now]]

\* The stale value is returned once the guard has been tried; a fresh one changes nothing.
ServeStale(c) ==
    /\ caller[c].at = "idle"
    /\ Present(Page) /\ Age > Fresh /\ Age <= Stale
    /\ Become(c, "guard")
    /\ UNCHANGED <<now, entries, refresh, disturbed>>

\* now is read before the callback runs, and stamps what it computes.
Miss(c) ==
    /\ caller[c].at = "idle"
    /\ Present(Page) => Age > Stale
    /\ Become(c, "compute")
    /\ UNCHANGED <<now, entries, refresh, disturbed>>

Store(c) ==
    /\ caller[c].at = "compute"
    /\ Put(Page, [read |-> caller[c].since, stamp |-> caller[c].since], Stale)
    /\ caller' = [caller EXCEPT ![c] = Idle]
    /\ UNCHANGED <<now, refresh, disturbed>>

CallbackRaises(c) ==
    /\ caller[c].at = "compute"
    /\ caller' = [caller EXCEPT ![c] = Idle]
    /\ UNCHANGED <<now, entries, refresh, disturbed>>

GuardTTL == IF Stale > 1 THEN Stale ELSE 1

\* add is atomic: of the callers that found the entry stale one starts a refresh.
RevalidateOnce(c) ==
    /\ caller[c].at = "guard"
    /\ caller' = [caller EXCEPT ![c] = Idle]
    /\ IF Present(Guard)
       THEN UNCHANGED <<entries, refresh>>
       ELSE /\ Put(Guard, "1", GuardTTL)
            /\ \E r \in Refreshes :
                  /\ refresh[r] = Null
                  /\ refresh' = [refresh EXCEPT ![r] = [at |-> "compute", since |-> now]]
    /\ UNCHANGED <<now, disturbed>>

Computes(r) == refresh[r] # Null /\ refresh[r].at = "compute"

\* A refresh stamps what it computed with the time it is stored.
RefreshStores(r) ==
    /\ Computes(r)
    /\ Put(Page, [read |-> refresh[r].since, stamp |-> now], Stale)
    /\ refresh' = [refresh EXCEPT ![r].at = "end"]
    /\ UNCHANGED <<now, caller, disturbed>>

\* Mutant: a failed refresh keeps the stale entry going.
RefreshKeeps(r) ==
    /\ Computes(r)
    /\ IF Present(Page) THEN Put(Page, [entries[Page].value EXCEPT !.stamp = now], Stale)
                        ELSE UNCHANGED entries
    /\ refresh' = [refresh EXCEPT ![r].at = "end"]
    /\ UNCHANGED <<now, caller, disturbed>>

RefreshRaises(r) ==
    /\ Computes(r)
    /\ refresh' = [refresh EXCEPT ![r].at = "end"]
    /\ UNCHANGED <<now, entries, caller, disturbed>>

\* The guard is deleted whoever set it: a late refresh deletes a newer one's.
RefreshEnds(r) ==
    /\ refresh[r] # Null /\ refresh[r].at = "end"
    /\ Forget(Guard)
    /\ refresh' = [refresh EXCEPT ![r] = Null]
    /\ UNCHANGED <<now, caller, disturbed>>

\* The process ends while its background task runs.
RefreshDies(r) ==
    /\ refresh[r] # Null
    /\ refresh' = [refresh EXCEPT ![r] = Null]
    /\ UNCHANGED <<now, entries, caller, disturbed>>

FlexTick ==
    /\ \A c \in Callers : caller[c].at = "compute" => now - caller[c].since < Slow
    /\ \A r \in Refreshes : Computes(r) => now - refresh[r].since < Slow
    /\ disturbed' = (disturbed \/ \E r \in Refreshes :
                        refresh[r] # Null /\ now + 1 >= refresh[r].since + Stale)
    /\ UNCHANGED <<caller, refresh>>

FlexStep ==
    \/ \E c \in Callers : \/ ServeStale(c) \/ Miss(c) \/ Store(c)
                          \/ CallbackRaises(c) \/ RevalidateOnce(c)
    \/ \E r \in Refreshes : \/ RefreshStores(r) \/ RefreshRaises(r) \/ RefreshEnds(r) \/ RefreshDies(r)

----------------------------------------------------------------------------
(* Properties *)

\* docs/cache.md: a stale hit "fires a single background recompute": two run at once
\* only after one has outlived its guard or the whole store was flushed.
SingleFlight == Cardinality({r \in Refreshes : Computes(r)}) > 1 => disturbed

\* What a caller can be served was computed at most the stale window and one callback
\* ago, also when refreshes fail, die, overlap, or finish after a newer value was stored.
BoundedStaleness == Present(Page) /\ Age <= Stale => now - entries[Page].value.read <= Stale + Slow

\* Stale-while-revalidate as flexible promises it: one recompute at a time, and nothing
\* served that is older than it may be.
RefreshRight == SingleFlight /\ BoundedStaleness
=============================================================================
