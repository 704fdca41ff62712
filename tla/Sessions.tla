------------------------------ MODULE Sessions ------------------------------
(* The session of one browser over several requests (StartSession in          *)
(* http/middleware.py, http/session.py, http/flash.py, http/kernel.py), kept  *)
(* in a cache store: each request works on a copy, saves it when the          *)
(* middleware unwinds and again after the response is sent. The browser waits *)
(* for a response before it sends the next request.                           *)
EXTENDS Naturals
CONSTANTS
    MaxRequests,   \* bound: they are numbered in the order the browser sends them
    MaxSids,       \* bound: ids are drawn at random, and numbered as they are drawn
    Items,         \* things kept in the session
    Messages       \* things flashed: status messages, errors, old input

ASSUME SessionsAssumption == MaxRequests \in Nat /\ MaxSids \in Nat

VARIABLES
    sessions,   \* the store: [Sids -> what it was saved as]; one that is not there loads as Empty
    cookie,     \* the id the browser sends, or NoSid
    drawn,      \* how many ids were drawn so far
    request,    \* [Requests -> its record, see Record]
    due,        \* history: what the session must hold for the next request
    unsettled   \* history: a request began before the late save of the one before,
                \* or a late save failed

sessionVars == <<sessions, cookie, drawn, request, due, unsettled>>

Requests == 1..MaxRequests
Sids == 1..MaxSids
NoSid == 0

Session == [items : SUBSET Items, flash : SUBSET Messages, fresh : SUBSET Messages]
Content == [items : SUBSET Items, flash : SUBSET Messages]
Empty == [items |-> {}, flash |-> {}, fresh |-> {}]
Nothing == [items |-> {}, flash |-> {}]

Answered == {"reforget", "resave", "over"}
Stages == Answered \cup {"idle", "handler", "forget", "save", "render"}
Record == [at : Stages,
           sid : Sids \cup {NoSid}, session : Session, drop : Sids \cup {NoSid},
           setCookie : BOOLEAN, raised : BOOLEAN,
           right : BOOLEAN]   \* history: it found what it should have found
NoRequest == [at |-> "idle", sid |-> NoSid, session |-> Empty, drop |-> NoSid,
              setCookie |-> FALSE, raised |-> FALSE, right |-> TRUE]
Answer(r) == [NoRequest EXCEPT !.at = "over", !.right = request[r].right]

SessionsTypeOK ==
    /\ sessions \in [Sids -> Session]
    /\ drawn \in NoSid..MaxSids /\ cookie \in NoSid..drawn
    /\ request \in [Requests -> Record]
    /\ due \in Content /\ unsettled \in BOOLEAN

SessionsInit ==
    /\ sessions = [s \in Sids |-> Empty]
    /\ cookie = NoSid /\ drawn = 0
    /\ request = [r \in Requests |-> NoRequest]
    /\ due = Nothing /\ unsettled = FALSE

----------------------------------------------------------------------------
\* FlashBag.age: what is not fresh was shown already; the rest is shown now.
Aged(s) == [s EXCEPT !.flash = @ \cap s.fresh, !.fresh = {}]

Open(r, sid) ==
    LET session == Aged(sessions[sid]) IN
    request' = [request EXCEPT ![r] =
        [NoRequest EXCEPT !.at = "handler", !.sid = sid, !.session = session,
                          !.setCookie = (cookie = NoSid),
                          !.right = (session.items = due.items /\ session.flash = due.flash)]]

Receive(r) ==
    /\ request[r].at = "idle"
    /\ \A q \in 1..(r - 1) : request[q].at \in Answered
    /\ \/ cookie # NoSid /\ Open(r, cookie) /\ UNCHANGED drawn
       \/ cookie = NoSid /\ drawn < MaxSids /\ Open(r, drawn + 1) /\ drawn' = drawn + 1
    /\ due' = [due EXCEPT !.flash = {}]
    /\ unsettled' = (unsettled \/ \E q \in Requests : request[q].at \in {"reforget", "resave"})
    /\ UNCHANGED <<sessions, cookie>>

PutItem(r, i) ==
    /\ request[r].at = "handler"
    /\ request' = [request EXCEPT ![r].session.items = @ \cup {i}]
    /\ due' = [due EXCEPT !.items = @ \cup {i}]
    /\ UNCHANGED <<sessions, cookie, drawn, unsettled>>

\* By the handler, or while its redirect or its exception is rendered.
Flash(r, m) ==
    /\ request[r].at \in {"handler", "render"}
    /\ LET s == request[r].session IN
       request' = [request EXCEPT ![r].session = [s EXCEPT !.flash = @ \cup {m}, !.fresh = @ \cup {m}]]
    /\ due' = [due EXCEPT !.flash = @ \cup {m}]
    /\ UNCHANGED <<sessions, cookie, drawn, unsettled>>

Reflash(r) ==
    /\ request[r].at = "handler"
    /\ request' = [request EXCEPT ![r].session.fresh = @ \cup request[r].session.flash]
    /\ due' = [due EXCEPT !.flash = @ \cup request[r].session.flash]
    /\ UNCHANGED <<sessions, cookie, drawn, unsettled>>

\* regenerate_session (at login) keeps the data, invalidate_session (at logout) does
\* not. Bound: once per request.
Rotate(r, keeps) ==
    /\ request[r].at = "handler" /\ request[r].drop = NoSid /\ drawn < MaxSids
    /\ drawn' = drawn + 1
    /\ request' = [request EXCEPT ![r] =
           [@ EXCEPT !.sid = drawn + 1, !.drop = request[r].sid, !.setCookie = TRUE,
                     !.session = IF keeps THEN request[r].session ELSE Empty]]
    /\ due' = IF keeps THEN due ELSE Nothing
    /\ UNCHANGED <<sessions, cookie, unsettled>>

HandlerEnds(r, raises) ==
    /\ request[r].at = "handler"
    /\ request' = [request EXCEPT ![r] = [@ EXCEPT !.at = "forget", !.raised = raises]]
    /\ UNCHANGED <<sessions, cookie, drawn, due, unsettled>>

\* persist, when the middleware unwinds and again after the response.
ForgetDropped(r) ==
    /\ request[r].at \in {"forget", "reforget"}
    /\ sessions' = [s \in Sids |-> IF s = request[r].drop THEN Empty ELSE sessions[s]]
    /\ request' = [request EXCEPT ![r] =
           [@ EXCEPT !.drop = NoSid, !.at = IF request[r].at = "forget" THEN "save" ELSE "resave"]]
    /\ UNCHANGED <<cookie, drawn, due, unsettled>>

SaveSession(r) ==
    /\ request[r].at = "save"
    /\ sessions' = [sessions EXCEPT ![request[r].sid] = request[r].session]
    /\ request' = [request EXCEPT ![r].at = "render"]
    /\ UNCHANGED <<cookie, drawn, due, unsettled>>

\* Mutant: the session is saved when the middleware unwinds, and no more.
SavesOnce(r) ==
    /\ request[r].at = "resave"
    /\ request' = [request EXCEPT ![r] = Answer(r)]
    /\ UNCHANGED <<sessions, cookie, drawn, due, unsettled>>

SaveLate(r) ==
    /\ request[r].at = "resave"
    /\ sessions' = [sessions EXCEPT ![request[r].sid] = request[r].session]
    /\ request' = [request EXCEPT ![r] = Answer(r)]
    /\ UNCHANGED <<cookie, drawn, due, unsettled>>

\* The store fails: an error is rendered in place of the response.
SaveFails(r) ==
    /\ request[r].at \in {"forget", "save"}
    /\ request' = [request EXCEPT ![r] = [@ EXCEPT !.raised = TRUE, !.at = "render"]]
    /\ UNCHANGED <<sessions, cookie, drawn, due, unsettled>>

\* The store fails, which is logged; or the server calls no after_response.
LateSaveFails(r) ==
    /\ request[r].at \in {"reforget", "resave"}
    /\ request' = [request EXCEPT ![r] = Answer(r)]
    /\ unsettled' = TRUE
    /\ UNCHANGED <<sessions, cookie, drawn, due>>

\* The cookie is set in terminate, which an exception's response does not reach.
Respond(r) ==
    /\ request[r].at = "render"
    /\ request' = [request EXCEPT ![r].at = "reforget"]
    /\ cookie' = IF request[r].setCookie /\ ~request[r].raised THEN request[r].sid ELSE cookie
    /\ due' = IF request[r].setCookie /\ request[r].raised THEN Nothing ELSE due
    /\ UNCHANGED <<sessions, drawn, unsettled>>

SessionStep ==
    \E r \in Requests :
        \/ Receive(r) \/ Reflash(r) \/ ForgetDropped(r) \/ SaveSession(r) \/ SaveLate(r)
        \/ SaveFails(r) \/ LateSaveFails(r) \/ Respond(r)
        \/ \E i \in Items : PutItem(r, i)
        \/ \E m \in Messages : Flash(r, m)
        \/ \E keeps \in BOOLEAN : Rotate(r, keeps)
        \/ \E raises \in BOOLEAN : HandlerEnds(r, raises)

----------------------------------------------------------------------------
(* Properties *)

\* docs/session.md: flash data "lives in the session for exactly one subsequent request".
\* A request finds what was put in the session before, and the messages flashed or kept by
\* the request just before it: none that is older, none lost to a rotated id, a raising
\* handler or a failed save. It must come after the late save of that request: one sent
\* as soon as the response is there may load the session as it was before, and the late
\* save may then undo what it did.
SessionCarried == ~unsettled => \A r \in Requests : request[r].right
=============================================================================
