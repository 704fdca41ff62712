------------------------------ MODULE Events ------------------------------
(* The event dispatcher (events/dispatcher.py): who hears of an event that    *)
(* tasks dispatch in and out of their transactions, push for later and flush, *)
(* while others register listeners. Queued listeners and broadcasts are       *)
(* handed to the queue; savepoints and helpers are those of Transactions.     *)
EXTENDS Naturals, FiniteSets, SequencesExt
CONSTANTS
    Dispatchers,        \* tasks
    Listeners,
    Wildcards,      \* the listeners that are registered for a pattern
    MaxEvents,      \* bound: events dispatched or pushed
    MaxBlocks       \* bound: transactions

ASSUME EventsAssumption ==
    Wildcards \subseteq Listeners /\ MaxEvents \in Nat /\ MaxBlocks \in Nat

VARIABLES
    listeners,  \* in the order of their registration
    pushed,     \* _pushed
    caller,     \* [Dispatchers -> where it is, its buffer, what it has to fire, what it fires]
    event,      \* history: the events made, their kind and their caller's transaction
    txBlock,    \* history: the transactions, how each ended
    gathered,   \* history: [events -> the listeners it was for]
    heard,      \* history: [events -> those that heard of it, or whose job was pushed]
    sent,       \* history: [events -> times its broadcast was sent, pushed or refused]
    fate        \* history: [events -> where it is]

eventPast == <<event, gathered, heard, sent, fate>>
eventVars == <<listeners, pushed, caller, txBlock, eventPast>>

\* deferred: it has after_commit; halting: it is fired by until; cast: ShouldBroadcast, Now.
EventKinds == [deferred : BOOLEAN, halting : BOOLEAN, cast : {"no", "queued", "now"}]
PlainEvent == [deferred |-> FALSE, halting |-> FALSE, cast |-> "no"]
EventIds == DOMAIN event
Deferrals == EventIds \X {"event", "broadcast"}
NothingToFire == [at |-> "outside", block |-> 0, buffer |-> <<>>, todo |-> <<>>, fires |-> 0,
                  rest |-> <<>>]

EventsTypeOK ==
    /\ IsInjective(listeners) /\ listeners \in Seq(Listeners) /\ pushed \in Seq(EventIds)
    /\ \A c \in Dispatchers :
          /\ caller[c].at \in {"outside", "body", "replay", "cancelled"}
          /\ caller[c].block \in 0..Len(txBlock) /\ caller[c].fires \in EventIds \cup {0}
          /\ caller[c].buffer \in Seq(Deferrals) /\ caller[c].todo \in Seq(Deferrals)
          /\ caller[c].rest \in Seq(Listeners)
    /\ \A i \in EventIds : event[i].kind \in EventKinds /\ event[i].block \in 0..Len(txBlock)
    /\ txBlock \in Seq({"open", "committed", "replayed", "rolled back", "cut"})
    /\ gathered \in [EventIds -> Seq(Listeners)] /\ heard \in [EventIds -> Seq(Listeners)]
    /\ sent \in [EventIds -> Nat]
    /\ fate \in [EventIds -> {"waiting", "firing", "over", "stopped", "raised", "dropped"}]

EventsInit ==
    /\ listeners = <<>> /\ pushed = <<>> /\ caller = [c \in Dispatchers |-> NothingToFire]
    /\ event = <<>> /\ txBlock = <<>> /\ gathered = <<>> /\ heard = <<>> /\ sent = <<>>
    /\ fate = <<>>

----------------------------------------------------------------------------
\* Those of some listeners that are registered, in their order.
Registered(set) ==
    LET those[i \in 0..Len(listeners)] ==
            IF i = 0 THEN <<>>
            ELSE IF listeners[i] \in set THEN Append(those[i - 1], listeners[i]) ELSE those[i - 1]
    IN  those[Len(listeners)]

\* listen; forget takes the event's own listeners or a pattern's.
Listen(l) ==
    /\ l \notin Range(listeners)
    /\ listeners' = Append(listeners, l)
    /\ UNCHANGED <<pushed, caller, txBlock, eventPast>>

ForgetListeners(own) ==
    /\ listeners' = Registered(IF own THEN Wildcards ELSE Listeners \ Wildcards)
    /\ listeners' # listeners
    /\ UNCHANGED <<pushed, caller, txBlock, eventPast>>

\* The caller's own code runs.
OwnCode(c) == caller[c].at \in {"outside", "body"} /\ caller[c].fires = 0 /\ caller[c].todo = <<>>

Newest == Len(event) + 1
Make(c, kind, f) ==
    /\ Len(event) < MaxEvents
    /\ event' = Append(event, [kind |-> kind, block |-> caller[c].block])
    /\ gathered' = Append(gathered, <<>>) /\ heard' = Append(heard, <<>>)
    /\ sent' = Append(sent, 0) /\ fate' = Append(fate, f)

\* dispatch and until: in a transaction an event that defers goes to the buffer; until
\* fires it all the same.
Deferrable(kind) == kind.deferred /\ ~kind.halting

Dispatch(c, kind) ==
    /\ OwnCode(c)
    /\ IF Deferrable(kind) /\ caller[c].at = "body"
       THEN /\ caller' = [caller EXCEPT ![c].buffer = Append(@, <<Newest, "event">>)]
            /\ Make(c, kind, "waiting")
       ELSE /\ caller' = [caller EXCEPT ![c].fires = Newest]
            /\ Make(c, kind, "firing")
    /\ UNCHANGED <<listeners, pushed, txBlock>>

\* push of a name and its payload; a name neither defers nor is broadcast.
PushEvent(c) ==
    /\ OwnCode(c)
    /\ Make(c, PlainEvent, "waiting")
    /\ pushed' = Append(pushed, Newest)
    /\ UNCHANGED <<listeners, caller, txBlock>>

\* Mutant: what was pushed stays until the flush is over.
ReadPushed == UNCHANGED pushed

TakePushed == pushed' = <<>>

Flush(c) ==
    /\ OwnCode(c) /\ pushed # <<>>
    /\ caller' = [caller EXCEPT ![c].todo = [i \in DOMAIN pushed |-> <<pushed[i], "event">>]]
    /\ TakePushed
    /\ UNCHANGED <<listeners, txBlock, eventPast>>

EventIdsOf(items) == {items[i][1] : i \in {j \in DOMAIN items : items[j][2] = "event"}}
WithDropped(ids) == [i \in EventIds |-> IF i \in ids THEN "dropped" ELSE fate[i]]

ForgetPushed ==
    /\ pushed # <<>>
    /\ pushed' = <<>> /\ fate' = WithDropped(Range(pushed))
    /\ UNCHANGED <<listeners, caller, txBlock, event, gathered, heard, sent>>

----------------------------------------------------------------------------
\* _gather: the event's own listeners, then those of the patterns.
Gather == Registered(Listeners \ Wildcards) \o Registered(Wildcards)

\* Mutant: the broadcast of an event in a transaction is pushed at once.
CastNow(c, kind) == FALSE

\* The push of a broadcast is deferred like an event.
CastWaitsForCommit(c, kind) == kind.cast = "queued" /\ caller[c].at = "body"

\* _fire: _broadcast, then the listeners are gathered, those there are now.
Fire(c) ==
    LET id == caller[c].fires
        waits == CastWaitsForCommit(c, event[id].kind)
    IN  /\ id # 0 /\ caller[c].rest = <<>>
        /\ sent' = [sent EXCEPT ![id] =
                       @ + IF waits \/ event[id].kind.cast = "no" THEN 0 ELSE 1]
        /\ caller' = [caller EXCEPT ![c] = [caller[c] EXCEPT
                         !.rest = Gather,
                         !.fires = IF Gather = <<>> THEN 0 ELSE id,
                         !.buffer = IF waits THEN Append(caller[c].buffer, <<id, "broadcast">>)
                                             ELSE caller[c].buffer]]
        /\ gathered' = [gathered EXCEPT ![id] = Gather]
        /\ fate' = IF Gather = <<>> THEN [fate EXCEPT ![id] = "over"] ELSE fate
        /\ UNCHANGED <<listeners, pushed, txBlock, event, heard>>

\* The next listener runs, or its job is pushed. One that answers False stops the event, and
\* with until one that answers at all.
Hear(c, stops) ==
    LET id == caller[c].fires
        ends == stops \/ Len(caller[c].rest) = 1
    IN  /\ id # 0 /\ caller[c].rest # <<>>
        /\ heard' = [heard EXCEPT ![id] = Append(@, Head(caller[c].rest))]
        /\ caller' = [caller EXCEPT ![c] = [caller[c] EXCEPT
                         !.rest = IF ends THEN <<>> ELSE Tail(caller[c].rest),
                         !.fires = IF ends THEN 0 ELSE id]]
        /\ fate' = [fate EXCEPT ![id] = IF stops THEN "stopped" ELSE IF ends THEN "over" ELSE @]
        /\ UNCHANGED <<listeners, pushed, txBlock, event, gathered, sent>>

\* A listener, a broadcast or a push raises: a replay goes on, a flush drops what it has
\* left; the caller's block may catch it.
Raises(c) ==
    LET lost == IF caller[c].at = "replay" THEN {} ELSE EventIdsOf(caller[c].todo)
    IN  /\ caller[c].fires # 0
        /\ caller' = [caller EXCEPT ![c] = [caller[c] EXCEPT !.fires = 0, !.rest = <<>>,
                         !.todo = IF caller[c].at = "replay" THEN caller[c].todo ELSE <<>>]]
        /\ fate' = [WithDropped(lost) EXCEPT ![caller[c].fires] = "raised"]
        /\ UNCHANGED <<listeners, pushed, txBlock, event, gathered, heard, sent>>

\* A flush or a replay goes on to its next item; a broadcast is pushed, or its push raises.
NextItem(c) ==
    LET id == Head(caller[c].todo)[1]
    IN  /\ caller[c].fires = 0 /\ caller[c].todo # <<>>
        /\ IF Head(caller[c].todo)[2] = "event"
           THEN /\ caller' = [caller EXCEPT ![c] = [caller[c] EXCEPT !.todo = Tail(caller[c].todo),
                                                             !.fires = id]]
                /\ fate' = [fate EXCEPT ![id] = "firing"]
                /\ UNCHANGED sent
           ELSE /\ caller' = [caller EXCEPT ![c].todo = Tail(@)]
                /\ sent' = [sent EXCEPT ![id] = @ + 1]
                /\ UNCHANGED fate
        /\ UNCHANGED <<listeners, pushed, txBlock, event, gathered, heard>>

----------------------------------------------------------------------------
BeginBlock(c) ==
    /\ OwnCode(c) /\ caller[c].at = "outside" /\ Len(txBlock) < MaxBlocks
    /\ txBlock' = Append(txBlock, "open")
    /\ caller' = [caller EXCEPT ![c] = [caller[c] EXCEPT !.at = "body", !.block = Len(txBlock')]]
    /\ UNCHANGED <<listeners, pushed, eventPast>>

\* transaction: the COMMIT, then the replay, in the order of the buffer.
CommitBlock(c) ==
    /\ OwnCode(c) /\ caller[c].at = "body"
    /\ caller' = [caller EXCEPT ![c] = [caller[c] EXCEPT !.at = "replay", !.todo = caller[c].buffer,
                                                         !.buffer = <<>>]]
    /\ txBlock' = [txBlock EXCEPT ![caller[c].block] = "committed"]
    /\ UNCHANGED <<listeners, pushed, eventPast>>

Replayed(c) ==
    /\ caller[c].at = "replay" /\ caller[c].fires = 0 /\ caller[c].todo = <<>>
    /\ caller' = [caller EXCEPT ![c] = NothingToFire]
    /\ txBlock' = [txBlock EXCEPT ![caller[c].block] = "replayed"]
    /\ UNCHANGED <<listeners, pushed, eventPast>>

RollBackBlock(c) ==
    /\ OwnCode(c) /\ caller[c].at = "body"
    /\ caller' = [caller EXCEPT ![c] = NothingToFire]
    /\ txBlock' = [txBlock EXCEPT ![caller[c].block] = "rolled back"]
    /\ fate' = WithDropped(EventIdsOf(caller[c].buffer))
    /\ UNCHANGED <<listeners, pushed, event, gathered, heard, sent>>

\* A cancellation is no Exception: a replay stops at once.
CancelCaller(c) ==
    /\ caller[c].at # "cancelled"
    /\ caller' = [caller EXCEPT ![c] = [NothingToFire EXCEPT !.at = "cancelled"]]
    /\ txBlock' = IF caller[c].block = 0 THEN txBlock
                ELSE [txBlock EXCEPT ![caller[c].block] =
                         IF caller[c].at = "body" THEN "rolled back" ELSE "cut"]
    /\ fate' = [i \in EventIds |-> IF i = caller[c].fires THEN "raised"
                              ELSE WithDropped(EventIdsOf(caller[c].buffer \o caller[c].todo))[i]]
    /\ UNCHANGED <<listeners, pushed, event, gathered, heard, sent>>

EventStep ==
    \/ ForgetPushed
    \/ \E l \in Listeners : Listen(l)
    \/ \E own \in BOOLEAN : ForgetListeners(own)
    \/ \E c \in Dispatchers :
          \/ PushEvent(c) \/ Flush(c) \/ Fire(c) \/ Raises(c) \/ NextItem(c)
          \/ BeginBlock(c) \/ CommitBlock(c) \/ Replayed(c) \/ RollBackBlock(c)
          \/ CancelCaller(c)
          \/ \E kind \in EventKinds : Dispatch(c, kind)
          \/ \E stops \in BOOLEAN : Hear(c, stops)

----------------------------------------------------------------------------
(* Properties *)

\* Where an event or a broadcast is kept until its time comes.
KeptAt(item) ==
    {c \in Dispatchers : item \in Range(caller[c].buffer \o caller[c].todo)}
    \cup (IF item[2] = "event" /\ item[1] \in Range(pushed) THEN {"pushed"} ELSE {})

\* docs/events.md: an event that defers is "buffered until the transaction commits, and
\* dropped if it rolls back", "only the outermost commit flushes", flush "dispatches
\* everything pushed under this name (then drains)"; events/dispatcher.py: "one failing
\* enqueue must not silently drop its siblings". An event that waits is kept in one place,
\* whoever flushes; what it says when it is fired, it says once and in order; of a
\* transaction that did not commit no deferred event or broadcast got out, and of one whose
\* replay ended all did, unless they raised.
EventsHeard ==
    /\ \A i \in EventIds :
          /\ fate[i] = "waiting" <=> Cardinality(KeptAt(<<i, "event">>)) = 1
          /\ Cardinality(KeptAt(<<i, "event">>)) <= 1
          /\ fate[i] = "firing" <=> Cardinality({c \in Dispatchers : caller[c].fires = i}) = 1
          /\ IsPrefix(heard[i], gathered[i]) /\ (fate[i] = "over" => heard[i] = gathered[i])
          /\ sent[i] + Cardinality(KeptAt(<<i, "broadcast">>)) <= 1
    /\ \A i \in EventIds : event[i].block # 0 =>
          LET state == txBlock[event[i].block]
              kind == event[i].kind
          IN  /\ state \in {"open", "rolled back"} =>
                     /\ Deferrable(kind) => gathered[i] = <<>> /\ sent[i] = 0
                     /\ kind.cast = "queued" => sent[i] = 0
              /\ state = "replayed" /\ Deferrable(kind) =>
                     fate[i] \in {"over", "stopped", "raised"}
              /\ state = "replayed" /\ kind.cast = "queued" /\ fate[i] = "over" => sent[i] = 1
=============================================================================
