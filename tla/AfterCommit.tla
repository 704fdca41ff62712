---------------------------- MODULE AfterCommit ----------------------------
(* What code that defers work to a commit may rely on, whatever transactions  *)
(* are made of: work deferred in a round is delivered only after the round    *)
(* committed, in the order it was deferred, each piece once; a round that     *)
(* rolls back delivers nothing; only the end of the caller itself (killed or  *)
(* cancelled) can leave work of a committed round undelivered.                *)
EXTENDS Sequences
CONSTANT Work
VARIABLES
    phase,      \* "idle" | "open" | "flushing" | "stopped"
    pending,    \* deferred and not delivered yet, in order
    delivered   \* everything delivered so far, in order

vars == <<phase, pending, delivered>>

Init == phase = "idle" /\ pending = <<>> /\ delivered = <<>>

Open ==
    /\ phase = "idle"
    /\ phase' = "open"
    /\ UNCHANGED <<pending, delivered>>

Defer(w) ==
    /\ phase \in {"open", "flushing"}
    /\ pending' = Append(pending, w)
    /\ UNCHANGED <<phase, delivered>>

Drop ==
    /\ phase = "open"
    /\ phase' = "idle"
    /\ pending' = <<>>
    /\ UNCHANGED delivered

Commit ==
    /\ phase = "open"
    /\ phase' = "flushing"
    /\ UNCHANGED <<pending, delivered>>

Deliver ==
    /\ phase = "flushing"
    /\ pending # <<>>
    /\ delivered' = Append(delivered, Head(pending))
    /\ pending' = Tail(pending)
    /\ UNCHANGED phase

Close ==
    /\ phase = "flushing"
    /\ pending = <<>>
    /\ phase' = "idle"
    /\ UNCHANGED <<pending, delivered>>

\* The caller is killed, or cancelled while a piece of work runs.
Stop ==
    /\ phase' = "stopped"
    /\ pending' = <<>>
    /\ \/ UNCHANGED delivered
       \/ /\ phase = "flushing"
          /\ pending # <<>>
          /\ delivered' = Append(delivered, Head(pending))

Next == (\E w \in Work : Defer(w)) \/ Open \/ Drop \/ Commit \/ Deliver \/ Close \/ Stop

Spec == Init /\ [][Next]_vars
=============================================================================
