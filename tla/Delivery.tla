----------------------------- MODULE Delivery -----------------------------
(* A notification goes out by its channels (notifications/__init__.py), by a  *)
(* job for each of them or inline, and a mail through the mailers of the      *)
(* failover transport (mail/__init__.py). Workers retry the jobs.             *)
EXTENDS Naturals, SequencesExt
CONSTANTS
    Via,            \* the channels via() answers, in order
    MailersOf,      \* [channels -> the transports its driver tries, in order]
    MaxTries        \* tries of a job

Channels == Range(Via)
Inline == "inline"
Runs == Channels \cup {Inline}      \* a job carries one channel

ASSUME DeliveryAssumption ==
    /\ MaxTries \in Nat \ {0} /\ Inline \notin Channels
    /\ Via \in Seq(Channels) /\ IsInjective(Via) /\ \A c \in Channels : MailersOf[c] # <<>>

VARIABLES
    sending,    \* what the caller of notify is at: it loops over via(), then its block ends
    toQueue,    \* the channels whose job it has not pushed yet
    deferred,   \* the channels whose push waits for the COMMIT
    run,        \* [Runs -> where a send_now is, its slice of channels, its tries]
    mailers,    \* [Runs -> the transports the failover walk has left]
    response,   \* [Runs -> what the channel's driver answers, or raises]
    delivered,  \* history: [Channels -> times the message went out]
    sentLate,    \* history: those that went out again: after an error that came too late
    refused,    \* history: channels should_send or a listener vetoed
    broughtOut        \* history: [Runs -> the channels its running attempt delivered]

notices == <<delivered, sentLate, refused, broughtOut>>
deliveryVars == <<sending, toQueue, deferred, run, mailers, response, notices>>

AtRest == [at |-> "none", todo |-> <<>>, tries |-> 0]

DeliveryTypeOK ==
    /\ sending \in {"inside", "outside", "inline", "replay", "done", "rolled back", "raised"}
    /\ \E i \in 0..Len(Via) : toQueue = SubSeq(Via, i + 1, Len(Via))
    /\ deferred \in Seq(Channels)
    /\ \A r \in Runs :
          /\ run[r].at \in {"none", "ready", "ask", "send", "answer", "done", "failed"}
          /\ run[r].tries \in 0..MaxTries
          /\ \E i \in 0..Len(Via) : Len(run[r].todo) = i
          /\ response[r] \in {"none", "sent", "error"}
    /\ delivered \in [Channels -> Nat] /\ sentLate \in [Channels -> Nat]
    /\ refused \subseteq Channels /\ broughtOut \in [Runs -> SUBSET Channels]

\* notify inside a transaction, outside of one, or of a notification that is not queued.
DeliveryInit ==
    /\ sending \in {"inside", "outside", "inline"}
    /\ toQueue = IF sending = "inline" THEN <<>> ELSE Via
    /\ deferred = <<>>
    /\ run = [r \in Runs |-> IF r = Inline /\ sending = "inline"
                             THEN [at |-> "ask", todo |-> Via, tries |-> 0] ELSE AtRest]
    /\ mailers = [r \in Runs |-> <<>>] /\ response = [r \in Runs |-> "none"]
    /\ delivered = [c \in Channels |-> 0] /\ sentLate = [c \in Channels |-> 0]
    /\ refused = {} /\ broughtOut = [r \in Runs |-> {}]

----------------------------------------------------------------------------
\* push_instance of the job of a channel.
Pushed(c) == [run EXCEPT ![c].at = "ready"]

\* send: the loop over via(), a job each. Outside of a transaction it is pushed at once, and
\* a broker that fails ends the loop.
QueueChannel ==
    /\ toQueue # <<>>
    /\ toQueue' = Tail(toQueue)
    /\ IF sending = "inside"
       THEN deferred' = Append(deferred, Head(toQueue)) /\ UNCHANGED run
       ELSE run' = Pushed(Head(toQueue)) /\ UNCHANGED deferred
    /\ sending' = IF sending = "outside" /\ Len(toQueue) = 1 THEN "done" ELSE sending
    /\ UNCHANGED <<mailers, response, notices>>

PushFails ==
    /\ sending = "outside" /\ toQueue # <<>>
    /\ sending' = "raised" /\ toQueue' = <<>>
    /\ UNCHANGED <<deferred, run, mailers, response, notices>>

\* The caller's transaction ends, by an exception also in the middle of the loop.
EndBlock(ends) ==
    /\ sending = "inside" /\ (ends => toQueue = <<>>)
    /\ sending' = IF ends THEN "replay" ELSE "rolled back"
    /\ toQueue' = <<>>
    /\ deferred' = IF ends THEN deferred ELSE <<>>
    /\ UNCHANGED <<run, mailers, response, notices>>

\* The replay: a push that fails does not drop its siblings.
ReplayPush(fails) ==
    /\ sending = "replay" /\ deferred # <<>>
    /\ deferred' = Tail(deferred)
    /\ run' = IF fails THEN run ELSE Pushed(Head(deferred))
    /\ sending' = IF Len(deferred) = 1 THEN "done" ELSE sending
    /\ UNCHANGED <<toQueue, mailers, response, notices>>

----------------------------------------------------------------------------
\* Mutant: every job goes through all of via().
SliceOfAll(c) == Via

\* The channels of the job.
Slice(c) == <<c>>

\* A worker takes the job.
TakeNotification(c) ==
    /\ run[c].at = "ready"
    /\ run' = [run EXCEPT ![c] = [at |-> "ask", todo |-> Slice(c), tries |-> @.tries + 1]]
    /\ broughtOut' = [broughtOut EXCEPT ![c] = {}]
    /\ UNCHANGED <<sending, toQueue, deferred, mailers, response, delivered, sentLate, refused>>

\* An exception leaves send_now, or its worker dies: a job has its tries, a caller none.
Fails(r) ==
    /\ run' = [run EXCEPT ![r] = [at |-> IF r # Inline /\ @.tries < MaxTries THEN "ready" ELSE "failed",
                                  todo |-> <<>>, tries |-> @.tries]]
    /\ sentLate' = [c \in Channels |-> sentLate[c] + IF r = c /\ c \in broughtOut[r] THEN 1 ELSE 0]
    /\ UNCHANGED <<sending, toQueue, deferred, mailers, response, delivered, refused, broughtOut>>

\* should_send, then the listeners of NotificationSending; the driver is called.
Ask(r, veto) ==
    LET c == Head(run[r].todo)
    IN  /\ run[r].at = "ask" /\ run[r].todo # <<>>
        /\ IF veto
           THEN /\ run' = [run EXCEPT ![r].todo = Tail(@)]
                /\ refused' = refused \cup {c}
                /\ UNCHANGED mailers
           ELSE /\ run' = [run EXCEPT ![r].at = "send"]
                /\ mailers' = [mailers EXCEPT ![r] = MailersOf[c]]
                /\ UNCHANGED refused
        /\ UNCHANGED <<sending, toQueue, deferred, response, delivered, sentLate, broughtOut>>

\* A transport is tried: the message goes out or not, and it answers or raises.
Try(r, goesOut, raises) ==
    LET c == Head(run[r].todo)
    IN  /\ run[r].at = "send" /\ mailers[r] # <<>>
        /\ goesOut \/ raises
        /\ delivered' = [delivered EXCEPT ![c] = @ + IF goesOut THEN 1 ELSE 0]
        /\ sentLate' = [sentLate EXCEPT ![c] = @ + IF goesOut /\ raises THEN 1 ELSE 0]
        /\ broughtOut' = IF goesOut /\ ~raises THEN [broughtOut EXCEPT ![r] = @ \cup {c}]
                         ELSE broughtOut
        /\ response' = [response EXCEPT ![r] = IF raises THEN "error" ELSE "sent"]
        /\ UNCHANGED <<sending, toQueue, deferred, refused>>

\* Mutant: the walk goes on after a transport that answered.
OnAnyway(r) == mailers' = [mailers EXCEPT ![r] = Tail(@)]

\* FailoverTransport: only an exception makes the next transport's turn.
WalkOn(r) ==
    mailers' = [mailers EXCEPT ![r] = IF response'[r] = "error" THEN Tail(@) ELSE <<>>]

Transport(r, goesOut, raises) ==
    /\ Try(r, goesOut, raises)
    /\ WalkOn(r)
    /\ run' = [run EXCEPT ![r].at = IF mailers'[r] = <<>> THEN "answer" ELSE "send"]

\* The answer: the error of the last transport leaves send_now; NotificationSent, then the
\* next channel.
DriverAnswers(r) ==
    /\ run[r].at = "answer" /\ response[r] = "sent"
    /\ run' = [run EXCEPT ![r] = [at |-> "ask", todo |-> Tail(@.todo), tries |-> @.tries]]
    /\ UNCHANGED <<sending, toQueue, deferred, mailers, response, notices>>

SendRaises(r) ==
    /\ run[r].at \in {"ask", "answer"}
    /\ Fails(r)

\* send_now returns: the job is acknowledged.
Returns(r) ==
    /\ run[r].at = "ask" /\ run[r].todo = <<>>
    /\ run' = [run EXCEPT ![r].at = "done"]
    /\ sending' = IF r = Inline THEN "done" ELSE sending
    /\ UNCHANGED <<toQueue, deferred, mailers, response, notices>>

\* The worker dies while the transport works.
WorkerDies(c) ==
    /\ run[c].at = "send"
    /\ Fails(c)

DeliveryStep ==
    \/ QueueChannel \/ PushFails
    \/ \E b \in BOOLEAN : EndBlock(b) \/ ReplayPush(b)
    \/ \E c \in Channels : TakeNotification(c) \/ WorkerDies(c)
    \/ \E r \in Runs :
          \/ DriverAnswers(r) \/ SendRaises(r) \/ Returns(r)
          \/ \E b \in BOOLEAN : Ask(r, b) \/ \E o \in BOOLEAN : Transport(r, b, o)

----------------------------------------------------------------------------
(* Properties *)

\* notifications/__init__.py: "one job per channel, so retrying a failed mail job can't
\* double-store an already-delivered database channel". A channel's message goes out again
\* only after an error that came when it was out, and only for its own job's sake; none of a
\* transaction that is open or was rolled back; and a run that ended brought it out, unless
\* it was vetoed.
DeliveredOnce ==
    /\ \A c \in Channels : delivered[c] <= 1 + sentLate[c]
    /\ sending \in {"inside", "rolled back"} => \A c \in Channels : delivered[c] = 0
    /\ \A c \in Channels :
          run[c].at = "done" \/ run[Inline].at = "done" => delivered[c] > 0 \/ c \in refused
=============================================================================
