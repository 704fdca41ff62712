--------------------------- MODULE MCApplication ---------------------------
EXTENDS Application
CONSTANTS order, receipt, helper, m1, m2, draft, final, e1, e2, admin, editor, since,
          p1, p2, c1, c2, g1, n1, n2, n3,
          primary, replica, mailer, cart, notice, t1, t2, on, off, x1, x2, w1, w2, hello, world,
          d1, d2, k1, k2, wrap, tag, u1, u2, del1, del2, thumb, mail, inApp, news,
          chat, get1, get2, j1, j2, j3, h1, h2, f1, f2, own, wild, s1, b1, b2, ana, ben

\* The second migration changes the first one's table.
MCNeeds == [m \in Migrations |-> IF m = 2 THEN {1} ELSE {}]

\* The replica was registered under the name of the primary.
MCNameOf == [r \in Resources |-> IF r = mailer THEN "mail" ELSE "db"]

\* Mail has a second transport.
MCVia == <<mail, inApp>>
MCMailersOf == [c \in Channels |-> IF c = mail THEN <<1, 2>> ELSE <<1>>]

\* What a pool's requests retry: as by default, a 4xx, and a 2xx or no connection.
MCPolicies == {{"broken", "unreachable", "timeout"}, {"denied"}, {"ok", "unreachable"}}

\* A public route and a protected one, whose tiers list rejecting before populating; visitors
\* who are on the allow list, and guests who bring a header.
MCStacks == {<<"gate", "locale", "own">>, <<"gate", "locale", "auth", "own", "populate">>}
MCPriority == <<"populate", "auth">>
MCVisitors == {v \in Visitor : v.listed /\ (v.prefers => v.user) /\ (v.asks # "header" => v.user)}

\* Rules in both orders around those that are deferred, with each modifier and two together.
Ruled(modifiers, rules) == [flags |-> modifiers, rules |-> rules]
Full == Ruled({"bail"}, <<"required", "custom", "format", "unique", "exclude">>)
Optional == Ruled({"nullable"}, <<"exclude", "custom", "required", "unique">>)
Patch == Ruled({"nullable", "sometimes"}, <<"format", "custom">>)
PatchOne == Ruled({"sometimes", "bail"}, <<"exclude", "custom", "unique">>)
MCRulesets == {Full, Optional, Patch, PatchOne}
MCEach == {Ruled({"bail"}, <<"format", "custom">>), Ruled({}, <<"distinct", "required", "format">>)}
MCLists == {<<>>, <<"good", "odd">>, <<"null", "good", "good">>}

\* The parts share nothing: each is explored alone, from its first step to its end.
VARIABLE part

\* Of a row, the counter and the soft delete are explored apart.
Untrashed == ~row.trashed /\ \A i \in Instances : ~attrs[i].trashed /\ ~orig[i].trashed
Uncounted == ~broken /\ row.hits = 0 /\ \A i \in Instances : attrs[i].hits = 0

\* Of the relations, pivot rows are explored apart from foreign keys, and the tree apart
\* from both.
Unlinked == \A l \in DOMAIN pivots : pivots[l] = 0
Unowned ==
    /\ \A c \in Children : ~IsRow(c) \/ (child[c].owner = p1 /\ child[c].type = Here)
    /\ \A g \in Grands : via[g] = Null
Treeless == DOMAIN above = {}
OnlyTrees == saved = {} /\ \A c \in Children : ~IsRow(c)

\* Of the pivot rows at the start, one of each id without a note, or two of one id of which
\* the later has a note.
OldLinks ==
    \/ noted = {} /\ \A i \in Ids : Single(links, i)
    \/ noted = {admin} /\ \E k, l \in links : k.id = l.id /\ k.number < l.number /\ k.note = NoNote

\* Refresh tokens are explored apart from the remember cookie.
Tokenless == tokens = <<>>
Cookieless == made = 0

\* Of a searchable record, one that is unwanted is explored apart from one in the trash, and
\* transactions with soft-deleted documents; files come while no command runs.
Wanted ==
    /\ article = NoArticle \/ article.wanted
    /\ \A w \in Writers : copy[w] = NoArticle \/ copy[w].wanted
NoTrash ==
    /\ article = NoArticle \/ ~article.trashed
    /\ \A w \in Writers : copy[w] = NoArticle \/ ~copy[w].trashed
CalmCheckout == files' = files \/ \A d \in Deploys : deploy[d].at = "idle"

\* Of the scopes, the second is entered where there is one closure.
OneClosure == Len(extended) <= 1
OneTask == scopes[k2] = NoObject /\ lent[k2] = NoObject

\* Of the uploads, one fails or is cancelled while the other is idle or done; two deletions
\* run where there is one upload. Nothing is published for a browser that left.
InTurn == Cardinality({u \in Uploads : upload[u] \notin {"idle", "done"}}) <= 1
NotAllAtOnce == deletion[del2].at = "idle" \/ \E u \in Uploads : upload[u] = "idle"
StillThere == socket = "open" \/ published' = published

\* Of the events, two callers are explored with plain ones outside of transactions; the kinds
\* with one caller, where the pattern was registered first and the second event is plain or
\* waits for a COMMIT. Listeners come and go before the first event and while it is heard.
OnlyPlain == txBlock = <<>> /\ \A i \in EventIds : event[i].kind = PlainEvent
OneCaller ==
    /\ \A c \in Dispatchers \ {f1} : caller[c] = NothingToFire
    /\ Len(event) > 1 => /\ event[2].kind \in {PlainEvent, [PlainEvent EXCEPT !.deferred = TRUE]}
                         /\ listeners = <<wild, own>>
Registering ==
    \/ listeners' = listeners \/ event = <<>>
    \/ Len(event) = 1 /\ \E c \in Dispatchers : caller[c].rest # <<>>

\* Of the requests the kernel answers, rows come and go before one, the flag changes before
\* one and between the gate's two reads.
Meanwhile ==
    /\ bound' = bound \/ \E s \in Streams : visit[s].at = "idle"
    /\ maintenance' = maintenance \/ \E s \in Streams : visit[s].at \in {"idle", "payload"}

\* Of the forms, one that stays is before one that may be absent; a list, or a hook and an
\* exclusion. The row changes where a rule asks for it; the second pass follows a
\* synchronous one.
MCForms ==
    {f \in Form : /\ f.rules[1] \in {Full, Optional} /\ f.rules[2] \in {Patch, PatchOne}
                  /\ \/ f.list = <<>>
                     \/ ~f.hook /\ ~f.excludes /\ f.input = <<"odd", "odd">>}
Concerned ==
    taken' = taken \/ \E f \in Fields : /\ form.input[f] = "good"
                                       /\ "unique" \in Range(form.rules[f].rules)
AfterPlain == pass.count = 0 \/ pass'.count = pass.count \/ ~pass.async

\* Of the browsers, two are explored with one person, one with the other one, who has a
\* second factor and impersonates; one change of person in a request.
OnlyBen ==
    \A b \in Browsers : \A s \in {kept[b], SessionOf(b)} : {s.user, s.pending} \subseteq {ben, NoPerson}
OneBrowser == kept[b2] = Stranger /\ asking[b2] = NotAsking
OneChange ==
    \A b \in Browsers :
        proof'[b] # proof[b] /\ proof[b].who # NoPerson =>
            SessionOf(b) = kept[b] \/ asking[b].at = "stamp"

\* Of the worker, jobs come before it but for one, and a limit excludes the stop when empty; it
\* works again where two of its jobs were dispatched and one of them still runs.
WorksAgain ==
    works' \in {works, 1} \/ (Running # {} /\ \A j \in Jobs : job[j] = "none" <=> j \in Unserved)
LimitAlone == options = NoOptions \/ options.limit = 0 \/ ~options.whenEmpty
JobsFirst ==
    \A j \in Jobs : job[j] = "none" /\ job'[j] # "none" => works = 0 \/ (works = 1 /\ j = j2)

OnTheDatabase ==
    \/ part = "tx" /\ Transacts
    \/ part = "records" /\ Stores /\ (Untrashed' \/ Uncounted')
    \/ part = "pivot" /\ Relates
    \/ part = "relations" /\ Reads /\ (Unlinked' \/ Unowned') /\ (Treeless' \/ OnlyTrees')
    \/ part = "query" /\ Asks
    \/ part = "walk" /\ Walks
    \/ part = "pages" /\ Turns
    \/ part = "search" /\ Indexes /\ (Wanted' \/ NoTrash') /\ (softDelete \/ holder' = {})
    \/ part = "schema" /\ Migrates /\ CalmCheckout

OnePart ==
    /\ \/ OnTheDatabase /\ UNCHANGED <<sessionVars, loginVars, featureVars, lifeVars, containerVars,
                                       mediaVars, eventVars, deliveryVars, relayVars,
                                       clientVars, pipelineVars, formVars, identityVars,
                                       workingVars>>
       \/ part = "sessions" /\ Serves /\ ~unsettled   \* nothing is asked of them after that
       \/ part = "logins" /\ LogsIn /\ (Tokenless' \/ Cookieless')
       \/ part = "features" /\ Flags
       \/ part = "life" /\ Lives
       \/ part = "container" /\ Injects /\ (OneClosure' \/ OneTask')
       \/ part = "media" /\ Attaches /\ InTurn' /\ NotAllAtOnce'
       \/ part = "events" /\ Dispatches /\ (OnlyPlain' \/ OneCaller') /\ Registering
       \/ part = "delivery" /\ Notifies
       \/ part = "relay" /\ Relays /\ StillThere
       \/ part = "client" /\ Consumes
       \/ part = "pipeline" /\ Handles /\ Meanwhile
       \/ part = "forms" /\ Validates /\ Concerned /\ AfterPlain
       \/ part = "identities" /\ Admits /\ (OnlyBen' \/ OneBrowser') /\ OneChange
       \/ part = "worker" /\ Works /\ WorksAgain /\ JobsFirst /\ LimitAlone'
    /\ UNCHANGED part

\* One part at a time, and its choices alone: the others' stay at one value.
OneInit(parts) ==
    /\ part \in parts
    /\ form \in IF part = "forms" THEN MCForms ELSE {CHOOSE f \in MCForms : TRUE}
    /\ (part = "records" \/ titled = draft) /\ (part = "pivot" \/ links = {})
    /\ (part = "query" \/ (through = "key" /\ trash = "exclude"))
    /\ (part = "search" \/ softDelete = FALSE) /\ (part = "delivery" \/ sending = "inside")
    /\ inMemory \in IF part = "worker" THEN BOOLEAN ELSE {FALSE}
    /\ \/ part = "client"
       \/ cap = 1 /\ times = 0 /\ throw = TRUE /\ policy = {"denied"}
    /\ Init
    /\ part = "pivot" => OldLinks

PartSpec ==
    /\ [][OnePart]_<<vars, part>>
    /\ OneInit({"records", "pivot", "relations", "query", "walk", "pages", "search", "schema",
                "sessions", "logins", "features", "media", "events", "delivery", "relay",
                "client", "identities"})

\* Two are forced to run on. The caller of a transaction: its block ends, what is awaited
\* answers; its process may still be killed, its task cancelled. And a worker: it takes the
\* messages there are, its jobs end, its loop wakes, what is awaited answers.
FairSpec ==
    /\ OneInit({"tx", "worker", "life", "container", "pipeline", "forms"})
    /\ [][OnePart]_<<vars, part>>
    /\ WF_txVars(part = "tx" /\ TxRun) /\ WF_workingVars(part = "worker" /\ WorkingRuns)
=============================================================================
