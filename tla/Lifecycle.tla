----------------------------- MODULE Lifecycle -----------------------------
(* An application from boot to exit (kernel/application.py and bootstrap.py,  *)
(* console/kernel.py) and the ResourceManager that connects and releases what *)
(* its providers registered (kernel/resources.py).                            *)
EXTENDS Naturals, FiniteSets, Sequences, SequencesExt
CONSTANTS
    Resources,
    NameOf,     \* [Resources -> names]: a second one of a name replaces the first
    Critical,   \* resources without which the application must not start
    Managed,    \* resources with connect and disconnect
    Retries,    \* boot_retries
    MaxCallbacks \* bound: terminating callbacks of the application's own

ASSUME LifecycleAssumption ==
    /\ Retries \in Nat /\ MaxCallbacks \in Nat
    /\ Critical \subseteq Resources /\ Managed \subseteq Resources

VARIABLES
    app,        \* what the task that boots and terminates is doing
    registry,   \* _resources: what is registered
    connected,  \* _connected
    closed,     \* _closed
    callbacks,  \* _terminating: "shutdown" is the manager's
    bring,      \* [Resources -> where _bring_up is]
    tries,      \* failed attempts of the operation it is at
    leaving,    \* the resources being disconnected, and by whom
    open,       \* environment: the connections that are open
    stuck,      \* history: resources whose disconnect failed
    excused     \* history: something kept the shutdown from being run to its end

lifeVars == <<app, registry, connected, closed, callbacks, bring, tries, leaving,
              open, stuck, excused>>

Phases == {"booting", "starting", "rollback", "serving", "hooks", "callbacks", "releasing", "over"}
Nobody == "nobody"

LifeTypeOK ==
    /\ app \in Phases
    /\ registry \subseteq Resources
    /\ connected \subseteq Managed /\ open \subseteq Managed /\ stuck \subseteq Managed
    /\ closed \in BOOLEAN /\ excused \in BOOLEAN
    /\ callbacks \in Seq({"shutdown", "own"})
    /\ bring \in [Resources -> {"off", "connect", "check", "ok", "failed"}]
    /\ tries \in [Resources -> 0..Retries]
    /\ leaving \in [Managed -> {Nobody, "main", "signal"}]

LifeInit ==
    /\ app = "booting" /\ registry = {} /\ connected = {} /\ closed = FALSE
    /\ callbacks = <<>>
    /\ bring = [r \in Resources |-> "off"] /\ tries = [r \in Resources |-> 0]
    /\ leaving = [r \in Managed |-> Nobody]
    /\ open = {} /\ stuck = {} /\ excused = FALSE

RegistryKept == UNCHANGED <<registry, callbacks>>
ConnectionsKept == UNCHANGED <<connected, leaving, open, stuck>>

----------------------------------------------------------------------------
(* Boot *)

\* register, in a provider's boot().
Register(r) ==
    /\ app = "booting"
    /\ r \notin registry
    /\ registry' = {q \in registry : NameOf[q] # NameOf[r]} \cup {r}
    /\ UNCHANGED <<app, closed, callbacks, bring, tries, excused, connected, leaving, open, stuck>>

\* terminating(callback), by a provider or while serving.
Terminating ==
    /\ app \in {"booting", "serving"}
    /\ Cardinality({i \in DOMAIN callbacks : callbacks[i] = "own"}) < MaxCallbacks
    /\ callbacks' = Append(callbacks, "own")
    /\ UNCHANGED <<app, registry, closed, bring, tries, excused, connected, leaving, open, stuck>>

\* A hook or a provider raises, also a booted hook after all resources are up.
BootRaises ==
    /\ app \in {"booting", "serving"}
    /\ app' = "hooks"
    /\ UNCHANGED <<closed, bring, tries, excused>> /\ RegistryKept /\ ConnectionsKept

StartResources ==
    /\ app = "booting"
    /\ IF registry = {}
       THEN app' = "serving" /\ UNCHANGED <<closed, callbacks, bring>>
       ELSE /\ app' = "starting"
            /\ closed' = FALSE
            /\ callbacks' = Append(callbacks, "shutdown")
            /\ bring' = [r \in Resources |->
                           IF r \notin registry THEN "off"
                           ELSE IF r \in Managed THEN "connect" ELSE "check"]
    /\ UNCHANGED <<registry, tries, excused, connected, leaving, open, stuck>>

\* An attempt of connect or check raises or times out.
AttemptFails(r) ==
    /\ app = "starting"
    /\ bring[r] \in {"connect", "check"}
    /\ IF tries[r] < Retries
       THEN tries' = [tries EXCEPT ![r] = @ + 1] /\ UNCHANGED bring
       ELSE tries' = [tries EXCEPT ![r] = 0] /\ bring' = [bring EXCEPT ![r] = "failed"]
    /\ UNCHANGED <<app, closed, excused>> /\ RegistryKept /\ ConnectionsKept

Connect(r) ==
    /\ app = "starting"
    /\ bring[r] = "connect"
    /\ connected' = connected \cup {r}
    /\ open' = open \cup {r}
    /\ bring' = [bring EXCEPT ![r] = "check"]
    /\ tries' = [tries EXCEPT ![r] = 0]
    /\ UNCHANGED <<app, closed, excused, leaving, stuck>> /\ RegistryKept

\* check answers; what it reports as failed is not retried.
Check(r, verdict) ==
    /\ app = "starting"
    /\ bring[r] = "check"
    /\ bring' = [bring EXCEPT ![r] = verdict]
    /\ tries' = [tries EXCEPT ![r] = 0]
    /\ UNCHANGED <<app, closed, excused>> /\ RegistryKept /\ ConnectionsKept

----------------------------------------------------------------------------
(* Shutdown *)

\* Mutant: only resources whose check went well are disconnected.
HealthyTargets == {r \in registry \cap connected : bring[r] = "ok"}

Targets == registry \cap connected

\* ResourceManager.shutdown, up to its gather; the second caller returns at once.
BeginShutdown(who) ==
    /\ closed' = TRUE
    /\ leaving' = IF closed THEN leaving
                  ELSE [r \in Managed |-> IF r \in Targets THEN who ELSE leaving[r]]

Pending(who) == \E r \in Managed : leaving[r] = who

\* The gather is over: serve, or roll back and raise StartupAborted.
Report ==
    /\ app = "starting"
    /\ \A r \in registry : bring[r] \in {"ok", "failed"}
    /\ IF \E r \in Critical \cap registry : bring[r] = "failed"
       THEN app' = "rollback" /\ BeginShutdown("main")
       ELSE app' = "serving" /\ UNCHANGED <<closed, leaving>>
    /\ UNCHANGED <<bring, tries, excused, connected, open, stuck>> /\ RegistryKept

\* A Ctrl-C during the gather cancels what is under way; boot() raises.
CancelStartup ==
    /\ app = "starting"
    /\ app' = "hooks"
    /\ bring' = [r \in Resources |-> IF bring[r] \in {"connect", "check"} THEN "off" ELSE bring[r]]
    /\ UNCHANGED <<closed, tries, excused>> /\ RegistryKept /\ ConnectionsKept

Disconnected(r) ==
    /\ leaving[r] # Nobody
    /\ connected' = connected \ {r}
    /\ open' = open \ {r}
    /\ leaving' = [leaving EXCEPT ![r] = Nobody]
    /\ UNCHANGED <<app, closed, bring, tries, stuck, excused>> /\ RegistryKept

\* disconnect raises or times out: logged, and it stays in _connected.
DisconnectFails(r) ==
    /\ leaving[r] # Nobody
    /\ leaving' = [leaving EXCEPT ![r] = Nobody]
    /\ stuck' = stuck \cup {r}
    /\ UNCHANGED <<app, closed, bring, tries, excused, connected, open>> /\ RegistryKept

\* A cancelled shutdown does not come back: the manager counts as closed.
CancelShutdown ==
    /\ app \in {"rollback", "releasing"}
    /\ app' = IF app = "rollback" THEN "hooks" ELSE "over"
    /\ leaving' = [r \in Managed |-> IF leaving[r] = "main" THEN Nobody ELSE leaving[r]]
    /\ excused' = TRUE
    /\ UNCHANGED <<closed, bring, tries, connected, open, stuck>> /\ RegistryKept

\* A signal handler of the application calls shutdown too.
SignalShutdown ==
    /\ app \in {"serving", "hooks", "callbacks", "releasing"}
    /\ registry # {}
    /\ BeginShutdown("signal")
    /\ UNCHANGED <<app, bring, tries, excused, connected, open, stuck>> /\ RegistryKept

\* The startup's own shutdown has ended: safe_terminate follows.
RolledBack ==
    /\ app = "rollback"
    /\ ~Pending("main")
    /\ app' = "hooks"
    /\ UNCHANGED <<closed, bring, tries, excused>> /\ RegistryKept /\ ConnectionsKept

----------------------------------------------------------------------------
(* terminate() *)

Terminate ==
    /\ app = "serving"
    /\ app' = "hooks"
    /\ UNCHANGED <<closed, bring, tries, excused>> /\ RegistryKept /\ ConnectionsKept

HooksDone ==
    /\ app = "hooks"
    /\ app' = "callbacks"
    /\ UNCHANGED <<closed, bring, tries, excused>> /\ RegistryKept /\ ConnectionsKept

\* A terminating hook or callback raises: what is left of terminate() is skipped.
TerminateRaises ==
    /\ app = "hooks" \/ (app = "callbacks" /\ callbacks # <<>> /\ Last(callbacks) = "own")
    /\ app' = "over"
    /\ excused' = (excused \/ Contains(callbacks, "shutdown"))
    /\ UNCHANGED <<closed, bring, tries>> /\ RegistryKept /\ ConnectionsKept

\* The callbacks run last in, first out (taking them off the list stands for the iterator).
NextCallback ==
    /\ app = "callbacks"
    /\ IF callbacks = <<>>
       THEN app' = "over" /\ UNCHANGED <<callbacks, closed, leaving>>
       ELSE /\ callbacks' = Front(callbacks)
            /\ IF Last(callbacks) = "own" THEN UNCHANGED <<app, closed, leaving>>
               ELSE app' = "releasing" /\ BeginShutdown("main")
    /\ UNCHANGED <<registry, bring, tries, excused, connected, open, stuck>>

Released ==
    /\ app = "releasing"
    /\ ~Pending("main")
    /\ app' = "callbacks"
    /\ UNCHANGED <<closed, bring, tries, excused>> /\ RegistryKept /\ ConnectionsKept

LifeStep ==
    \/ Terminating \/ BootRaises \/ StartResources \/ Report \/ CancelStartup
    \/ CancelShutdown \/ SignalShutdown \/ RolledBack \/ Terminate \/ HooksDone
    \/ TerminateRaises \/ NextCallback \/ Released
    \/ \E r \in Resources :
          \/ Register(r) \/ AttemptFails(r) \/ Connect(r)
          \/ \E verdict \in {"ok", "failed"} : Check(r, verdict)
    \/ \E r \in Managed : Disconnected(r) \/ DisconnectFails(r)

----------------------------------------------------------------------------
(* Properties *)

\* An application serves only with every critical resource connected and healthy, until
\* somebody shuts the manager down.
ServesWithItsResources ==
    app = "serving" /\ ~closed =>
        \A r \in Critical \cap registry :
            bring[r] = "ok" /\ (r \in Managed => r \in open)

\* However the application ends - a failed critical resource, a cancelled or failed boot,
\* a regular end, a shutdown called twice - every connection that was opened is closed
\* again, unless its disconnect failed, a hook or callback raised first, or the shutdown
\* itself was cancelled. What a signal handler is still closing is left to it.
EverythingReleased ==
    app = "over" /\ ~excused =>
        \A r \in open : r \in stuck \/ leaving[r] = "signal"

ResourcesRight == ServesWithItsResources /\ EverythingReleased
=============================================================================
