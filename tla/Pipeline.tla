------------------------------ MODULE Pipeline ------------------------------
(* A request on its way through the kernel (http/kernel.py _dispatch and       *)
(* _handle): route binding (http/binding.py), the middleware in their order,  *)
(* the destination, the unwinding, the terminate hooks, and how an exception  *)
(* is rendered and reported (http/exceptions.py, kernel/exceptions.py). Rows  *)
(* and the maintenance flag change meanwhile. One execution context serves    *)
(* the requests of one stream one after the other.                            *)
EXTENDS Naturals, Sequences, SequencesExt
CONSTANTS
    Streams,     \* execution contexts
    Stacks,      \* the middleware of each kind of route, as its tiers list them
    Priority,    \* middleware_priority
    Visitors,    \* who asks, see Visitor
    Limit,       \* how many reports of one window pass (throttle)
    MaxServed    \* bound: requests in all

\* The maintenance gate, LocaleMiddleware, AuthenticateMiddleware (populates the user),
\* Authenticate (rejects a guest), and one of the application, with a terminate hook.
Middleware == {"gate", "locale", "populate", "auth", "own"}
Visitor == [user : BOOLEAN, prefers : BOOLEAN, listed : BOOLEAN,
            asks : {"explicit", "header", "nothing"}]

ASSUME PipelineAssumption ==
    /\ \A s \in Stacks : s \in Seq(Middleware) /\ IsInjective(s)
    /\ Priority \in Seq(Middleware) /\ IsInjective(Priority)
    /\ Visitors \subseteq Visitor /\ Limit \in Nat /\ MaxServed \in Nat

VARIABLES
    maintenance, \* the flag in the cache: absent, set, or set with an allow list
    bound,     \* whether the row a route binds is there
    context,   \* [Streams -> what the context variables hold]
    visit,     \* [Streams -> the request it serves, see Visit]
    window,    \* reports that passed the throttle in this window
    served     \* requests begun

pipelineVars == <<maintenance, bound, context, visit, window, served>>

Locales == {"default", "explicit", "preferred", "header"}
Context == [user : BOOLEAN, locale : Locales]
Untouched == [user |-> FALSE, locale |-> "default"]
Unheard == [user |-> FALSE, locale |-> "none"]

\* What is raised: "bug" is any exception without a handler of its own.
ServerErrors == {"unavailable", "bug"}
Raisable == {"absent", "unauthenticated", "denied", "invalid"} \cup ServerErrors
Answers == Raisable \cup {"ok", "gone", "own", "maintenance", "rendered"}
NoneYet == "none"

Visit == [at : {"idle", "bind", "enter", "payload", "unwind", "respond", "terminate", "render",
                "over"},
          who : Visitor, stack : Seq(Middleware), fits : BOOLEAN, found : BOOLEAN,
          saved : Context, inside : Seq(Middleware \X Context),
          raised : Raisable \cup {NoneYet}, answer : Answers \cup {NoneYet},
          reported : BOOLEAN,                        \* ExceptionHandler._reported has it
          logged : Nat,                              \* history: lines written for it
          seen : {"up", "down", "listing"},          \* history: the flag at first
          moved : BOOLEAN,                           \* history: it changed then
          heard : Context \cup {Unheard}]            \* history: what the destination saw

NoVisit == [at |-> "idle", who |-> CHOOSE v \in Visitor : TRUE, stack |-> <<>>, fits |-> TRUE,
         found |-> FALSE, saved |-> Untouched, inside |-> <<>>, raised |-> NoneYet,
         answer |-> NoneYet, reported |-> FALSE, logged |-> 0, seen |-> "up", moved |-> FALSE,
          heard |-> Unheard]

PipelineTypeOK ==
    /\ maintenance \in {"up", "down", "listing"} /\ bound \in BOOLEAN
    /\ context \in [Streams -> Context] /\ visit \in [Streams -> Visit]
    /\ window \in 0..Limit /\ served \in 0..MaxServed

PipelineInit ==
    /\ maintenance = "up" /\ bound = TRUE
    /\ context = [s \in Streams |-> Untouched] /\ visit = [s \in Streams |-> NoVisit]
    /\ window = 0 /\ served = 0

----------------------------------------------------------------------------
Precedes(seq, m, n) == \E i \in DOMAIN seq : seq[i] = m /\ \A j \in 1..i : seq[j] # n

\* A stable sort by rank: what middleware_priority names comes first, in its order.
Ordered(stack, m, n) ==
    \/ Precedes(Priority, m, n)
    \/ {m, n} \cap Range(Priority) = {} /\ Precedes(stack, m, n)

SetVisit(s, v) == visit' = [visit EXCEPT ![s] = v]
RaiseError(s, e) == SetVisit(s, [visit[s] EXCEPT !.at = "unwind", !.raised = e])
Reply(s, a) == SetVisit(s, [visit[s] EXCEPT !.at = "unwind", !.answer = a])

ReceiveVisit(s, who, stack, fits) ==
    /\ visit[s].at = "idle" /\ served < MaxServed
    /\ served' = served + 1
    /\ SetVisit(s, [NoVisit EXCEPT !.at = IF fits THEN "bind" ELSE "unwind", !.who = who,
                           !.stack = stack, !.fits = fits, !.saved = context[s],
                           !.raised = IF fits THEN NoneYet ELSE "absent"])
    /\ context' = [context EXCEPT ![s].user = FALSE]
    /\ UNCHANGED <<maintenance, bound, window>>

\* Mutant: a row that is missing is answered before the middleware.
BindRowAnswers(s) ==
    /\ visit[s].at = "bind"
    /\ \/ bound /\ SetVisit(s, [visit[s] EXCEPT !.at = "enter", !.found = bound])
       \/ ~bound /\ RaiseError(s, "absent")
       \/ RaiseError(s, "bug")
    /\ UNCHANGED <<maintenance, bound, context, window, served>>

\* A missing row is not answered here: only the destination does, after every middleware.
BindRow(s) ==
    /\ visit[s].at = "bind"
    /\ \/ SetVisit(s, [visit[s] EXCEPT !.at = "enter", !.found = bound])
       \/ RaiseError(s, "bug")
    /\ UNCHANGED <<maintenance, bound, context, window, served>>

----------------------------------------------------------------------------
(* The middleware, from the outside in                                        *)

Entered(s) == {visit[s].inside[i][1] : i \in DOMAIN visit[s].inside}
ToEnter(s) == Range(visit[s].stack) \ Entered(s)
At(s, m) ==
    /\ visit[s].at = "enter" /\ m \in ToEnter(s)
    /\ \A n \in ToEnter(s) \ {m} : Ordered(visit[s].stack, m, n)

CallNext(s, m, c) ==
    /\ SetVisit(s, [visit[s] EXCEPT !.at = "enter", !.inside = Append(@, <<m, context[s]>>)])
    /\ context' = [context EXCEPT ![s] = c]

GateReads(s) ==
    /\ At(s, "gate")
    /\ IF maintenance = "up"
       THEN CallNext(s, "gate", context[s])
       ELSE /\ SetVisit(s, [visit[s] EXCEPT !.at = "payload", !.seen = maintenance])
            /\ UNCHANGED context
    /\ UNCHANGED <<maintenance, bound, window, served>>

\* The flag is read again, for its allow list: an absent one reads as one without a list.
GateDecides(s) ==
    /\ visit[s].at = "payload"
    /\ IF maintenance = "listing" /\ visit[s].who.listed
       THEN CallNext(s, "gate", context[s])
       ELSE Reply(s, "maintenance") /\ UNCHANGED context
    /\ UNCHANGED <<maintenance, bound, window, served>>

Preferred(s, user) == user /\ visit[s].who.prefers

ChooseLocale(s) ==
    /\ At(s, "locale")
    /\ LET asks == visit[s].who.asks IN
       CallNext(s, "locale", [context[s] EXCEPT !.locale =
           CASE asks = "explicit" -> asks
             [] asks # "explicit" /\ Preferred(s, context[s].user) -> "preferred"
             [] asks = "header" /\ ~Preferred(s, context[s].user) -> asks
             [] OTHER -> @])
    /\ UNCHANGED <<maintenance, bound, window, served>>

Populate(s) ==
    /\ At(s, "populate")
    /\ LET user == visit[s].who.user IN
       \/ CallNext(s, "populate",
                   [user |-> user,
                    locale |-> IF visit[s].who.asks # "explicit" /\ Preferred(s, user)
                               THEN "preferred" ELSE context[s].locale])
       \/ RaiseError(s, "bug") /\ UNCHANGED context
    /\ UNCHANGED <<maintenance, bound, window, served>>

Authenticate(s) ==
    /\ At(s, "auth")
    /\ IF context[s].user
       THEN CallNext(s, "auth", context[s])
       ELSE RaiseError(s, "unauthenticated") /\ UNCHANGED context
    /\ UNCHANGED <<maintenance, bound, window, served>>

Own(s) ==
    /\ At(s, "own")
    /\ \/ CallNext(s, "own", context[s])
       \/ (Reply(s, "own") \/ RaiseError(s, "bug")) /\ UNCHANGED context
    /\ UNCHANGED <<maintenance, bound, window, served>>

\* The body is decoded here, then authorized, then checked; then the handler runs.
Destination(s) ==
    /\ visit[s].at = "enter" /\ ToEnter(s) = {}
    /\ \E outcome \in IF visit[s].found
                      THEN {"invalid", "denied", "ok", "unavailable", "bug"}
                      ELSE {"gone", "absent"} :
           SetVisit(s, [visit[s] EXCEPT !.at = "unwind", !.heard = context[s],
                                   !.answer = IF outcome \in Raisable THEN @ ELSE outcome,
                                   !.raised = IF outcome \in Raisable THEN outcome ELSE @])
    /\ UNCHANGED <<maintenance, bound, context, window, served>>

----------------------------------------------------------------------------
(* And out again                                                              *)

\* Each middleware puts back what it set, also when an exception passes; the application's
\* may raise after its call_next. The last to put back is _dispatch itself, unless a
\* response has still to be made.
Unwind(s) ==
    /\ visit[s].at = "unwind" /\ visit[s].inside # <<>>
    /\ LET left == [visit[s] EXCEPT !.inside = Front(@)] IN
       /\ context' = [context EXCEPT ![s] = Last(visit[s].inside)[2]]
       /\ \/ SetVisit(s, left)
          \/ /\ Last(visit[s].inside)[1] = "own" /\ visit[s].raised = NoneYet
             /\ SetVisit(s, [left EXCEPT !.raised = "bug"])
    /\ UNCHANGED <<maintenance, bound, window, served>>

LeaveWith(s, at, e) ==
    /\ SetVisit(s, [visit[s] EXCEPT !.at = at, !.raised = e])
    /\ context' = [context EXCEPT ![s] = visit[s].saved]

Unwound(s) ==
    /\ visit[s].at = "unwind" /\ visit[s].inside = <<>>
    /\ IF visit[s].raised = NoneYet
       THEN SetVisit(s, [visit[s] EXCEPT !.at = "respond"]) /\ UNCHANGED context
       ELSE LeaveWith(s, "render", visit[s].raised)
    /\ UNCHANGED <<maintenance, bound, window, served>>

MakeResponse(s) ==
    /\ visit[s].at = "respond"
    /\ \/ SetVisit(s, [visit[s] EXCEPT !.at = "terminate"]) /\ UNCHANGED context
       \/ LeaveWith(s, "render", "bug")
    /\ UNCHANGED <<maintenance, bound, window, served>>

\* The hooks of all of the stack, entered or not; one that raises takes the response with it.
RunTerminate(s) ==
    /\ visit[s].at = "terminate"
    /\ \/ LeaveWith(s, "over", NoneYet)
       \/ "own" \in Range(visit[s].stack) /\ LeaveWith(s, "render", "bug")
    /\ UNCHANGED <<maintenance, bound, window, served>>

\* ExceptionHandler.report: one exception object is reported once, and counts as reported
\* when the throttle drops it.
ReportError(v) ==
    IF v.reported THEN v
    ELSE [v EXCEPT !.reported = TRUE, !.logged = @ + (IF window < Limit THEN 1 ELSE 0)]

RenderException(v) ==
    [(IF v.raised \in ServerErrors THEN ReportError(v) ELSE v) EXCEPT !.answer = v.raised]

HandleUncaught(v) ==
    {[ReportError(v) EXCEPT !.answer = "rendered"], RenderException(ReportError(v))}

Render(s) ==
    /\ visit[s].at = "render"
    /\ \E v \in IF visit[s].raised = "bug" THEN HandleUncaught(visit[s])
                                           ELSE {RenderException(visit[s])} :
           /\ SetVisit(s, [v EXCEPT !.at = "over"])
           /\ window' = window + v.logged - visit[s].logged
    /\ UNCHANGED <<maintenance, bound, context, served>>

Done(s) ==
    /\ visit[s].at = "over" /\ SetVisit(s, NoVisit)
    /\ UNCHANGED <<maintenance, bound, context, window, served>>

Serve(s) ==
    \/ \E who \in Visitors, stack \in Stacks, fits \in BOOLEAN :
           ReceiveVisit(s, who, stack, fits)
    \/ BindRow(s) \/ GateReads(s) \/ GateDecides(s) \/ ChooseLocale(s) \/ Populate(s)
    \/ Authenticate(s) \/ Own(s) \/ Destination(s) \/ Unwind(s) \/ Unwound(s)
    \/ MakeResponse(s) \/ RunTerminate(s) \/ Render(s) \/ Done(s)

----------------------------------------------------------------------------
(* Meanwhile                                                                  *)

\* down() with and without an allow list, and up().
SwitchMaintenance(f) ==
    /\ maintenance # f /\ maintenance' = f
    /\ visit' = [s \in Streams |-> [visit[s] EXCEPT !.moved = @ \/ visit[s].at = "payload"]]
    /\ UNCHANGED <<bound, context, window, served>>

RowComesOrGoes ==
    /\ bound' = ~bound
    /\ UNCHANGED <<maintenance, context, visit, window, served>>

WindowPasses ==
    /\ window > 0 /\ window' = 0
    /\ UNCHANGED <<maintenance, bound, context, visit, served>>

PipelineStep ==
    \/ \E s \in Streams : Serve(s)
    \/ \E f \in {"up", "down", "listing"} : SwitchMaintenance(f)
    \/ RowComesOrGoes \/ WindowPasses

----------------------------------------------------------------------------
(* Properties *)

Protected(v) == "auth" \in Range(v.stack)

\* An answer about the row or about the body comes only after every middleware let the
\* request through: to a guest, a protected route that matches says the same whether its row
\* is there or not and whatever the body is (binding deferred, body decoded last).
AnswersInOrder ==
    \A s \in Streams : LET v == visit[s] IN
        v.at = "over" /\ v.fits =>
            /\ v.answer \in {"gone", "absent", "denied", "invalid", "unavailable", "ok"} =>
                   v.heard # Unheard
            /\ Protected(v) /\ v.heard # Unheard => v.who.user

\* Who is logged in is heard, in whatever order the tiers list populating and rejecting, where
\* middleware_priority names populating first, and in the language asked for, else preferred,
\* else sent along by the browser: the destination sees the user and locale of its request.
HeardAsOneself ==
    \A s \in Streams : LET v == visit[s] IN
        /\ v.at = "over" /\ v.who.user /\ "populate" \in Range(v.stack)
                         /\ Precedes(Priority, "populate", "auth") =>
               v.answer # "unauthenticated"
        /\ v.heard # Unheard /\ {"locale", "populate"} \subseteq Range(v.stack) =>
               v.heard = [user |-> v.who.user,
                          locale |-> IF v.who.asks = "explicit" THEN "explicit"
                                     ELSE IF Preferred(s, v.who.user) THEN "preferred"
                                     ELSE IF v.who.asks = "header" THEN "header" ELSE "default"]

\* However a request ends, the context variables are as it found them.
ContextRestored ==
    \A s \in Streams : visit[s].at \in {"idle", "render", "over"} => context[s] = Untouched

\* The gate turns a request away only if the app was down, one of its allow list only if the
\* maintenance changed between the two reads; it lets others in only while the app is up.
GateKept ==
    \A s \in Streams : LET v == visit[s] IN
        /\ v.answer = "maintenance" =>
               v.seen # "up" /\ (v.seen = "listing" /\ v.who.listed => v.moved)
        /\ v.heard # Unheard /\ v.seen # "up" => v.who.listed /\ (v.seen = "down" => v.moved)

\* An exception answered with a server error is reported once, whichever ways it is rendered,
\* and no other is; the log takes no more of one kind than the limit in a window.
ReportedOnce ==
    /\ \A s \in Streams : LET v == visit[s] IN
           v.at = "over" => /\ (v.reported <=> v.raised \in ServerErrors)
                            /\ v.logged <= 1
    /\ window <= Limit

AnsweredRight == AnswersInOrder /\ HeardAsOneself /\ ContextRestored /\ GateKept /\ ReportedOnce
=============================================================================
