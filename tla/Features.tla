------------------------------ MODULE Features ------------------------------
(* One feature flag (features/__init__.py) for one scope: the value stored    *)
(* for the scope, the value stored for everyone, the resolver that decides    *)
(* when there is neither, and tasks that each remember what they were told.   *)
CONSTANTS
    Checkers,   \* tasks: requests, jobs
    Values,     \* what a flag can be
    Missing     \* _MISSING

ASSUME FeaturesAssumption == Missing \notin Values

VARIABLES
    flag,       \* the value stored for the scope
    everyone,   \* the value stored for everyone
    check,      \* [Checkers -> where its _resolve is, its memo, what its resolver said]
    forced,     \* history: the override of the scope that stands
    outrun      \* history: it was set while somebody was resolving the flag

featureVars == <<flag, everyone, check, forced, outrun>>

Maybe == Values \cup {Missing}

FeaturesTypeOK ==
    /\ flag \in Maybe /\ everyone \in Maybe /\ forced \in Maybe /\ outrun \in BOOLEAN
    /\ check \in [Checkers -> [at : {"idle", "everyone", "resolve", "put"},
                               memo : Maybe, value : Maybe]]

Forgotten == [at |-> "idle", memo |-> Missing, value |-> Missing]

FeaturesInit ==
    /\ flag = Missing /\ everyone = Missing
    /\ check = [t \in Checkers |-> Forgotten]
    /\ forced = Missing /\ outrun = FALSE

Remember(t, v) == check' = [check EXCEPT ![t] = [Forgotten EXCEPT !.memo = v]]
Stays == UNCHANGED <<flag, everyone, forced, outrun>>

----------------------------------------------------------------------------
\* value, active, when: from the memo, or else from the store, where the scope's own
\* value comes first; a falsy value counts.
ReadOwn(t) ==
    /\ check[t].at = "idle" /\ check[t].memo = Missing
    /\ IF flag # Missing THEN Remember(t, flag) ELSE check' = [check EXCEPT ![t].at = "everyone"]
    /\ Stays

ReadEveryone(t) ==
    /\ check[t].at = "everyone"
    /\ IF everyone # Missing THEN Remember(t, everyone)
                             ELSE check' = [check EXCEPT ![t].at = "resolve"]
    /\ Stays

\* A resolver may say something else than before; or it raises.
Resolves(t) ==
    /\ check[t].at = "resolve"
    /\ \/ \E v \in Values : check' = [check EXCEPT ![t] = [check[t] EXCEPT !.at = "put", !.value = v]]
       \/ check' = [check EXCEPT ![t] = Forgotten]
    /\ Stays

PutResolved(t) ==
    /\ check[t].at = "put"
    /\ flag' = check[t].value
    /\ Remember(t, check[t].value)
    /\ UNCHANGED <<everyone, forced, outrun>>

Resolving == \E t \in Checkers : check[t].at # "idle"

\* activate and deactivate, by a task that is not resolving.
Activate(t, v) ==
    /\ check[t].at = "idle"
    /\ flag' = v
    /\ Remember(t, v)
    /\ forced' = v /\ outrun' = Resolving
    /\ UNCHANGED everyone

ActivateForEveryone(v) ==
    /\ everyone' = v
    /\ UNCHANGED <<flag, check, forced, outrun>>

\* forget leaves the everyone row alone; purge drops it too.
ForgetOrPurge(t, purge) ==
    /\ check[t].at = "idle"
    /\ flag' = Missing
    /\ everyone' = IF purge THEN Missing ELSE everyone
    /\ check' = [check EXCEPT ![t] = Forgotten]
    /\ forced' = Missing
    /\ UNCHANGED outrun

\* flush_cache, or the next request.
FlushMemo(t) ==
    /\ check[t].at = "idle"
    /\ check' = [check EXCEPT ![t] = Forgotten]
    /\ Stays

FeatureStep ==
    \/ \E t \in Checkers :
          \/ ReadOwn(t) \/ ReadEveryone(t) \/ Resolves(t) \/ PutResolved(t) \/ FlushMemo(t)
          \/ \E v \in Values : Activate(t, v)
          \/ \E purge \in BOOLEAN : ForgetOrPurge(t, purge)
    \/ \E v \in Values : ActivateForEveryone(v)

----------------------------------------------------------------------------
(* Properties *)

\* docs/features.md: "a forced value sticks until you forget/purge it, even if the resolver
\* would now say otherwise": whoever resolves, activates for everyone or forgets its memo,
\* the override is kept, unless a resolution was under way when it was set.
OverridesStick == forced # Missing /\ ~outrun => flag = forced
=============================================================================
