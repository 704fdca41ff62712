-------------------------- MODULE DelayedDelivery --------------------------
(***************************************************************************)
(* What the durable rail promises a dispatcher, with no table, no workers  *)
(* and no reservations: a job is accepted, becomes ripe when its delay is  *)
(* over, is delivered at least once and only when ripe, and the rail stops *)
(* owing it only once it has been delivered.                               *)
(***************************************************************************)
CONSTANTS
    Jobs,
    Deliverable     \* the jobs whose payload can be decoded

VARIABLES
    accepted,       \* jobs dispatched with a delay
    ripe,           \* accepted jobs whose delay is over
    owed,           \* accepted jobs the rail still stores
    delivered       \* jobs handed to the broker at least once

vars == <<accepted, ripe, owed, delivered>>

Init ==
    /\ accepted \subseteq Jobs
    /\ ripe = accepted
    /\ owed = accepted
    /\ delivered = {}

\* A job dispatched with no delay is ripe at once.
Accept(j) ==
    /\ j \notin accepted
    /\ accepted' = accepted \cup {j}
    /\ owed' = owed \cup {j}
    /\ ripe' \in {ripe, ripe \cup {j}}
    /\ UNCHANGED delivered

\* Several delays may end on one tick of the clock.
Ripen ==
    /\ ripe' \in SUBSET accepted
    /\ ripe \subseteq ripe'
    /\ UNCHANGED <<accepted, owed, delivered>>

Deliver(j) ==
    /\ j \in ripe \cap Deliverable
    /\ delivered' = delivered \cup {j}
    /\ UNCHANGED <<accepted, ripe, owed>>

Settle(j) ==
    /\ j \in delivered
    /\ owed' = owed \ {j}
    /\ UNCHANGED <<accepted, ripe, delivered>>

Next ==
    \/ Ripen
    \/ \E j \in Jobs : Accept(j) \/ Deliver(j) \/ Settle(j)

Spec == Init /\ [][Next]_vars

\* Every deliverable job that ripens is delivered.
Fairness == \A j \in Deliverable : WF_vars(Deliver(j))

FairSpec == Spec /\ Fairness

=============================================================================
