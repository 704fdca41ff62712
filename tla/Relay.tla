------------------------------- MODULE Relay -------------------------------
(* broadcast_websocket (routing/broadcast_relay.py): one browser's socket, a  *)
(* task for each channel it subscribed to, that listens to redis, and one     *)
(* writer for the frames of all of them.                                      *)
EXTENDS Naturals, SequencesExt
CONSTANTS
    Topics,         \* broadcast channels
    Private,        \* those that are private- or presence-
    MaxPublished    \* bound: events published

ASSUME RelayAssumption == Private \subseteq Topics /\ MaxPublished \in Nat

VARIABLES
    socket,     \* "open", "gone": the browser left, "closing": the teardown, "closed"
    listener,   \* [Topics -> where its relay_channel task is]
    inbox,      \* [Topics -> what redis sent its subscription and it has not looked at]
    outbox,     \* the frames the writer has not sent
    writer,
    received,   \* the frames the browser got
    published,  \* the events published: how many
    owed         \* history: [Topics -> those published while it listened, for this browser]

relayVars == <<socket, listener, inbox, outbox, writer, received, published, owed>>

Events == 1..MaxPublished
Envelope == [event : Events, except : BOOLEAN]  \* except: to_others() names this socket
Dropped == 0                                    \* subscribe_error
Frame == Topics \X (Events \cup {Dropped})

RelayTypeOK ==
    /\ socket \in {"open", "gone", "closing", "closed"}
    /\ listener \in [Topics -> {"none", "starting", "listening", "failed",
                              "cancelling", "cancelled"}]
    /\ \A c \in Topics : inbox[c] \in Seq(Envelope) /\ owed[c] \in Seq(Events)
    /\ outbox \in Seq(Frame) /\ received \in Seq(Frame)
    /\ writer \in {"running", "failed", "cancelling", "cancelled"}
    /\ published \in 0..MaxPublished

RelayInit ==
    /\ socket = "open" /\ writer = "running"
    /\ listener = [c \in Topics |-> "none"]
    /\ inbox = [c \in Topics |-> <<>>] /\ owed = [c \in Topics |-> <<>>]
    /\ outbox = <<>> /\ received = <<>> /\ published = 0

----------------------------------------------------------------------------
\* A subscribe frame, refused when its token is not one arvel minted; of a channel that has
\* a task it is ignored, also when the task failed.
SubscribeTo(c, authorized) ==
    /\ socket = "open" /\ listener[c] = "none"
    /\ IF authorized
       THEN listener' = [listener EXCEPT ![c] = "starting"] /\ UNCHANGED outbox
       ELSE /\ c \in Private
            /\ outbox' = Append(outbox, <<c, Dropped>>) /\ UNCHANGED listener
    /\ authorized \/ <<c, Dropped>> \notin Range(outbox \o received)   \* bound: refused once
    /\ UNCHANGED <<socket, inbox, writer, received, published, owed>>

\* relay_channel: redis confirms the subscription.
Listens(c) ==
    /\ listener[c] = "starting"
    /\ listener' = [listener EXCEPT ![c] = "listening"]
    /\ UNCHANGED <<socket, inbox, outbox, writer, received, published, owed>>

\* Redis goes away: the client is told.
RelayFails(c) ==
    /\ listener[c] \in {"starting", "listening"}
    /\ listener' = [listener EXCEPT ![c] = "failed"]
    /\ inbox' = [inbox EXCEPT ![c] = <<>>]
    /\ outbox' = Append(outbox, <<c, Dropped>>)
    /\ UNCHANGED <<socket, writer, received, published, owed>>

\* RedisBroadcaster publishes to each channel of the event; redis keeps nothing.
Publish(channels, except) ==
    /\ published < MaxPublished
    /\ published' = published + 1
    /\ LET hears(c) == c \in channels /\ listener[c] = "listening"
       IN  /\ inbox' = [c \in Topics |->
                           IF hears(c)
                           THEN Append(inbox[c], [event |-> published', except |-> except])
                           ELSE inbox[c]]
           /\ owed' = [c \in Topics |-> IF hears(c) /\ ~except
                                       THEN Append(owed[c], published') ELSE owed[c]]
    /\ UNCHANGED <<socket, listener, outbox, writer, received>>

\* Mutant: the socket that triggered the event hears its echo.
AcceptsAll(envelope) == TRUE

Accepts(envelope) == ~envelope.except

RelayNext(c) ==
    /\ listener[c] = "listening" /\ inbox[c] # <<>>
    /\ inbox' = [inbox EXCEPT ![c] = Tail(@)]
    /\ outbox' = IF Accepts(Head(inbox[c])) THEN Append(outbox, <<c, Head(inbox[c]).event>>)
                 ELSE outbox
    /\ UNCHANGED <<socket, listener, writer, received, published, owed>>

\* drain: one frame after the other; the first that cannot be sent ends the writer.
Drain ==
    /\ writer = "running" /\ outbox # <<>>
    /\ outbox' = Tail(outbox)
    /\ IF socket = "open" THEN received' = Append(received, Head(outbox)) /\ UNCHANGED writer
       ELSE writer' = "failed" /\ UNCHANGED received
    /\ UNCHANGED <<socket, listener, inbox, published, owed>>

----------------------------------------------------------------------------
BrowserLeaves ==
    /\ socket = "open"
    /\ socket' = "gone"
    /\ UNCHANGED <<listener, inbox, outbox, writer, received, published, owed>>

\* The read loop ends: the tasks are cancelled and waited for.
CancelTasks ==
    /\ socket = "gone"
    /\ socket' = "closing"
    /\ writer' = IF writer = "running" THEN "cancelling" ELSE writer
    /\ listener' = [c \in Topics |-> IF listener[c] \in {"starting", "listening"}
                                     THEN "cancelling" ELSE listener[c]]
    /\ UNCHANGED <<inbox, outbox, received, published, owed>>

\* The task unsubscribes.
TaskEnds(c) ==
    /\ listener[c] = "cancelling"
    /\ listener' = [listener EXCEPT ![c] = "cancelled"] /\ inbox' = [inbox EXCEPT ![c] = <<>>]
    /\ UNCHANGED <<socket, outbox, writer, received, published, owed>>

WriterEnds ==
    /\ writer = "cancelling"
    /\ writer' = "cancelled"
    /\ UNCHANGED <<socket, listener, inbox, outbox, received, published, owed>>

Gathered ==
    /\ socket = "closing"
    /\ writer # "cancelling" /\ \A c \in Topics : listener[c] # "cancelling"
    /\ socket' = "closed" /\ outbox' = <<>>
    /\ UNCHANGED <<listener, inbox, writer, received, published, owed>>

RelayStep ==
    \/ Drain \/ BrowserLeaves \/ CancelTasks \/ WriterEnds \/ Gathered
    \/ \E channels \in SUBSET Topics, except \in BOOLEAN : Publish(channels, except)
    \/ \E c \in Topics :
          \/ Listens(c) \/ RelayFails(c) \/ RelayNext(c) \/ TaskEnds(c)
          \/ \E authorized \in BOOLEAN : SubscribeTo(c, authorized)

----------------------------------------------------------------------------
(* Properties *)

\* Those items of a sequence that are in a set, in their order.
Those(items, set) ==
    LET those[i \in 0..Len(items)] ==
            IF i = 0 THEN <<>>
            ELSE IF items[i] \in set THEN Append(those[i - 1], items[i]) ELSE those[i - 1]
    IN  those[Len(items)]

Told(frames, c) == Those(frames, {c} \X Events)
EventsOf(frames) == [i \in DOMAIN frames |-> frames[i][2]]
Waiting(c) == Those(inbox[c], {e \in Envelope : ~e.except})

\* routing/broadcast_relay.py: "each broadcast on a subscribed channel arrives", "honoring
\* the event's to_others()", and "a relay task must not die silently". Of what was published
\* while a task listened the browser got the first ones in order, none twice and none of its
\* own; the others are on their way as long as the task and the writer work. A task that
\* failed was told of, or will be. No task outlives the socket.
FramesRight ==
    /\ \A c \in Topics :
          LET got == EventsOf(Told(received, c))
              coming == EventsOf(Told(outbox, c))
              waits == [i \in DOMAIN Waiting(c) |-> Waiting(c)[i].event]
          IN  /\ IsPrefix(got, owed[c])
              /\ socket = "open" /\ listener[c] = "listening" => got \o coming \o waits = owed[c]
              /\ listener[c] = "failed" /\ socket = "open" =>
                     <<c, Dropped>> \in Range(received \o outbox)
    /\ socket = "closed" => /\ writer # "running"
                            /\ \A c \in Topics : listener[c] \notin {"starting", "listening"}
=============================================================================
