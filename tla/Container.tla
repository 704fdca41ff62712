----------------------------- MODULE Container -----------------------------
(* The service container (kernel/container.py) for one abstract: how it is    *)
(* bound, its shared instance, its copy in each scope, and what extends it.   *)
(* Resolution never awaits, so a call is one step; the scopes are those of    *)
(* tasks that run at once.                                                    *)
EXTENDS Naturals, SequencesExt
CONSTANTS
    Tasks,          \* each in a scope of its own
    NoScope,        \* the caller that is in no scope
    Extensions,     \* the closures of extend
    NoObject,
    MaxBuilt,       \* bound: objects built or given
    MaxBinds        \* bound: calls of bind

Callers == Tasks \cup {NoScope}
Service ==      \* of: the binding it was built by, or 0 when it was given
    [id : 1..MaxBuilt, of : 0..MaxBinds, worn : Seq(Extensions)]

ASSUME ContainerAssumption ==
    /\ NoScope \notin Tasks /\ NoObject \notin Service
    /\ MaxBuilt \in Nat /\ MaxBinds \in Nat

VARIABLES
    binding,       \* the binding: "none", "transient", "shared" or "scoped"
    binds,      \* how often it was bound
    instance,   \* _instances: the shared object
    scopes,     \* [Tasks -> the object in its scope]
    extenders,  \* the closures a build goes through
    built,      \* how many objects there are
    lent,       \* history: [Callers -> what make returned it last, since the last change]
    extended,   \* history: the closures, in the order they were registered
    spent,    \* history: those that were applied to an instance which was dropped
    passed,     \* history: the tasks whose copy a change in another scope left
    unmet       \* history: objects whose resolving callbacks raised

pasts == <<extended, spent, passed, unmet>>
containerVars == <<binding, binds, instance, scopes, extenders, built, lent, pasts>>

ObjectOrNone(o) == o = NoObject \/ o \in Service

ContainerTypeOK ==
    /\ binding \in {"none", "transient", "shared", "scoped"} /\ binds \in 0..MaxBinds
    /\ ObjectOrNone(instance) /\ \A t \in Tasks : ObjectOrNone(scopes[t])
    /\ \A c \in Callers : ObjectOrNone(lent[c])
    /\ extenders \in Seq(Extensions) /\ extended \in Seq(Extensions)
    /\ built \in 0..MaxBuilt /\ spent \subseteq Extensions
    /\ passed \subseteq Tasks /\ unmet \subseteq 1..MaxBuilt

NobodyHas == [c \in Callers |-> NoObject]

ContainerInit ==
    /\ binding = "none" /\ binds = 0 /\ instance = NoObject /\ built = 0
    /\ scopes = [t \in Tasks |-> NoObject] /\ extenders = <<>>
    /\ lent = NobodyHas
    /\ extended = <<>> /\ spent = {} /\ passed = {} /\ unmet = {}

----------------------------------------------------------------------------
\* Mutant: the instance stays where it is.
DropCopy(c) ==
    /\ scopes' = IF c = NoScope THEN scopes ELSE [scopes EXCEPT ![c] = NoObject]
    /\ UNCHANGED instance

\* The shared instance is dropped, and the copy in the caller's scope.
DropBoth(c) ==
    /\ scopes' = IF c = NoScope THEN scopes ELSE [scopes EXCEPT ![c] = NoObject]
    /\ instance' = NoObject

LeavesInstance == IF instance = NoObject THEN {} ELSE Range(instance.worn) \ Range(extenders)
Change(c) ==
    /\ lent' = NobodyHas
    /\ spent' = spent \cup LeavesInstance
    /\ passed' = (passed \ {c}) \cup {t \in Tasks \ {c} : scopes[t] # NoObject}

\* bind, singleton and scoped, called again to rebind; forget keeps the binding.
Bind(c, as) ==
    /\ binds < MaxBinds
    /\ binds' = binds + 1 /\ binding' = as
    /\ DropBoth(c)
    /\ Change(c)
    /\ UNCHANGED <<extenders, built, extended, unmet>>

Forget(c) ==
    /\ DropBoth(c)
    /\ Change(c)
    /\ UNCHANGED <<binding, binds, extenders, built, extended, unmet>>

Given == [id |-> built + 1, of |-> 0, worn |-> <<>>]

\* instance: what it is given wins over any binding.
Instance(c) ==
    /\ built < MaxBuilt
    /\ built' = built + 1
    /\ instance' = Given
    /\ lent' = NobodyHas /\ spent' = spent \cup LeavesInstance
    /\ UNCHANGED <<binding, binds, scopes, extenders, extended, passed, unmet>>

\* extend: an instance that is there is wrapped now, and nothing else will be.
Extend(x) ==
    /\ x \notin Range(extended)
    /\ extended' = Append(extended, x)
    /\ IF instance # NoObject
       THEN instance' = [instance EXCEPT !.worn = Append(@, x)] /\ UNCHANGED extenders
       ELSE extenders' = Append(extenders, x) /\ UNCHANGED instance
    /\ lent' = NobodyHas
    /\ UNCHANGED <<binding, binds, scopes, built, spent, passed, unmet>>

EnterScope(t) ==
    /\ scopes' = [scopes EXCEPT ![t] = NoObject]
    /\ lent' = [lent EXCEPT ![t] = NoObject] /\ passed' = passed \ {t}
    /\ UNCHANGED <<binding, binds, instance, extenders, built, extended, spent, unmet>>

----------------------------------------------------------------------------
Build == [id |-> built + 1, of |-> binds, worn |-> extenders]

Cached(c) ==
    IF instance # NoObject THEN instance
    ELSE IF binding = "scoped" /\ c # NoScope THEN scopes[c] ELSE NoObject

\* make of what is there.
MakeCached(c) ==
    /\ Cached(c) # NoObject
    /\ lent' = [lent EXCEPT ![c] = Cached(c)]
    /\ UNCHANGED <<binding, binds, instance, scopes, extenders, built, pasts>>

\* make builds it, extends it, keeps it and runs the callbacks; a shared one is kept first,
\* so a callback that raises leaves it.
MakeBuilds(c, raises) ==
    /\ Cached(c) = NoObject /\ built < MaxBuilt
    /\ built' = built + 1
    /\ instance' = IF binding = "shared" THEN Build ELSE NoObject
    /\ scopes' = IF binding = "scoped" /\ c # NoScope /\ ~raises THEN [scopes EXCEPT ![c] = Build]
                 ELSE scopes
    /\ lent' = IF raises THEN lent ELSE [lent EXCEPT ![c] = Build]
    /\ passed' = passed \ {c}
    /\ unmet' = IF raises THEN unmet \cup {Build.id} ELSE unmet
    /\ UNCHANGED <<binding, binds, extenders, extended, spent>>

\* make with parameters, or by contextual binding: a fresh one that nobody keeps. A
\* constructor or a closure that raises keeps nothing either.
MakeFresh ==
    /\ built < MaxBuilt
    /\ built' = built + 1
    /\ UNCHANGED <<binding, binds, instance, scopes, extenders, lent, pasts>>

ContainerStep ==
    \/ MakeFresh
    \/ \E x \in Extensions : Extend(x)
    \/ \E t \in Tasks : EnterScope(t)
    \/ \E c \in Callers :
          \/ Forget(c) \/ Instance(c) \/ MakeCached(c)
          \/ \E as \in {"transient", "shared", "scoped"} : Bind(c, as)
          \/ \E raises \in BOOLEAN : MakeBuilds(c, raises)

----------------------------------------------------------------------------
(* Properties *)

Has(c) == lent[c] # NoObject
InCopy(c) == instance = NoObject /\ binding = "scoped" /\ c # NoScope

\* Closures, each once, in the order in which they were registered.
InOrder(worn) ==
    \A i, j \in DOMAIN worn : i < j =>
        \E k, l \in DOMAIN extended : k < l /\ extended[k] = worn[i] /\ extended[l] = worn[j]

\* docs/container.md and kernel/container.py: a singleton is "the same instance on every
\* subsequent make", a scoped one "once per scope, reset between scopes"; "a rebind must not
\* keep serving the old object"; extend applies "on the next resolve", or to what is
\* resolved "immediately". What make returned is of the present binding, unless the caller's
\* scope had a copy when the change was made in another; it wears every closure, in order,
\* that was not spent on an instance since dropped, unless its scope's copy is older; and its
\* callbacks ran unless they raised when it was first made.
MakesRight ==
    /\ instance # NoObject => \A c \in Callers : Has(c) => lent[c] = instance
    /\ \A c, d \in Callers :
          InCopy(c) /\ Has(c) /\ c # d => lent[c] = scopes[c] /\ lent[c] # lent[d]
    /\ \A c \in Callers : Has(c) /\ lent[c].of # 0 =>
          /\ lent[c].of # binds => InCopy(c) /\ c \in passed
          /\ ~InCopy(c) => Range(lent[c].worn) = Range(extended) \ spent
          /\ Range(lent[c].worn) \subseteq Range(extended) /\ InOrder(lent[c].worn)
    /\ \A c \in Callers : Has(c) /\ lent[c].id \in unmet => lent[c] = instance
=============================================================================
