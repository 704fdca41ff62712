------------------------------- MODULE Query -------------------------------
(* A Builder (database/builder.py) that two tasks hold: one query of a model, *)
(* or through a relation of a parent. Conditions are chained to it in place,  *)
(* a terminal reads or writes the rows they select; through a pivot table,    *)
(* the ids of the parent's rows are fetched before the first that reads. And  *)
(* what reads a table in pieces while others insert, change and delete rows:  *)
(* chunk_by_id and chunk (each() walks by chunk) hand a page at a time to a   *)
(* callback; a reader of cursor_paginate goes forward and back by cursors     *)
(* that say where its pages begin and end.                                    *)
EXTENDS Naturals, FiniteSets, SequencesExt
CONSTANTS
    Holders,    \* tasks
    MaxChained, \* bound: conditions the user chains
    NoRows

ASSUME QueryAssumption == MaxChained \in Nat /\ NoRows \notin Nat

\* What the clauses tell apart of the rows of the table.
TableRow == [own : BOOLEAN, trashed : BOOLEAN, a : BOOLEAN, b : BOOLEAN]

VARIABLES
    through,    \* what the query goes through: nothing, a foreign key, a pivot table
    trash,      \* which rows the model shows: with the soft delete, one of three; else all
    wheres,     \* _wheres: its clauses, with their connectors
    prepared,   \* _prepared
    awaiting,   \* tasks that await the ids of the pivot rows
    lost,       \* history: fetching them has raised
    answer      \* history: [Holders -> the rows of its last statement, its clauses and kind]

queryVars == <<through, trash, wheres, prepared, awaiting, lost, answer>>

Conditions == {"a", "a or b"}       \* the second is a group, or where_any
Clause == [is : Conditions \cup {"live", "trashed", "owner"}, or : BOOLEAN]

Where(c) == [is |-> c, or |-> FALSE]
OrWhere(c) == [is |-> c, or |-> TRUE]

QueryTypeOK ==
    /\ through \in {"nothing", "key", "pivot"} /\ trash \in {"exclude", "only", "include"}
    /\ wheres \in Seq(Clause) /\ {prepared, lost} \subseteq BOOLEAN
    /\ awaiting \subseteq Holders
    /\ \A t \in Holders :
          answer[t] # NoRows => answer[t].rows \subseteq TableRow /\ answer[t].wheres \in Seq(Clause)

\* _base_query, and query() of a relation with a foreign key.
BaseQuery ==
    (CASE trash = "exclude" -> <<Where("live")>>
       [] trash = "only" -> <<Where("trashed")>>
       [] OTHER -> <<>>)
    \o IF through = "key" THEN <<Where("owner")>> ELSE <<>>

QueryInit ==
    /\ through \in {"nothing", "key", "pivot"} /\ trash \in {"exclude", "only", "include"}
    /\ trash = "only" => through = "nothing"
    /\ wheres = BaseQuery
    /\ prepared = FALSE /\ lost = FALSE
    /\ awaiting = {} /\ answer = [t \in Holders |-> NoRows]

----------------------------------------------------------------------------
Fits(clause, row) ==
    CASE clause.is = "live" -> ~row.trashed
      [] clause.is = "trashed" -> row.trashed
      [] clause.is = "owner" -> row.own
      [] clause.is = "a" -> row.a
      [] clause.is = "a or b" -> row.a \/ row.b

\* Mutant: AND binds more strongly than OR, as it does in SQL text without parentheses.
ByPrecedence(clauses, row) ==
    \E i \in {0} \cup {j \in DOMAIN clauses : clauses[j].or} :
        \A j \in DOMAIN clauses :
            (j >= i /\ \A k \in i + 1..j : ~clauses[k].or) => Fits(clauses[j], row)

\* _where_expression: the clauses from left to right, each joined to all before it.
Selects(clauses, row) ==
    LET joined[i \in 0..Len(clauses)] ==
            IF i <= 1 THEN i = 0 \/ Fits(clauses[1], row)
            ELSE IF clauses[i].or THEN joined[i - 1] \/ Fits(clauses[i], row)
                                  ELSE joined[i - 1] /\ Fits(clauses[i], row)
    IN  joined[Len(clauses)]

RowsBy(clauses) == {row \in TableRow : Selects(clauses, row)}

\* to_select, to_update and to_delete compile the clauses of the moment.
Execute(t, clauses, kind) ==
    answer' = [answer EXCEPT ![t] =
                  [rows |-> RowsBy(clauses), wheres |-> clauses, kind |-> kind,
                   early |-> awaiting \ {t} # {}]]

\* where, or_where, where_any and the groups of conditions.
Chain ==
    /\ Cardinality({i \in DOMAIN wheres : wheres[i].is \in Conditions}) < MaxChained
    /\ \E c \in Conditions, or \in BOOLEAN : wheres' = Append(wheres, [is |-> c, or |-> or])
    /\ UNCHANGED <<through, trash, prepared, awaiting, lost, answer>>

\* get, first, count, exists and the aggregates call _ensure_prepared, which asks for the ids
\* at most once; update, delete and force_delete do not.
Terminal(t, kind) ==
    /\ t \notin awaiting
    /\ IF kind = "read" /\ through = "pivot" /\ ~prepared
       THEN /\ prepared' = TRUE
            /\ awaiting' = awaiting \cup {t}
            /\ UNCHANGED answer
       ELSE Execute(t, wheres, kind) /\ UNCHANGED <<prepared, awaiting>>
    /\ UNCHANGED <<through, trash, wheres, lost>>

\* Mutant: the ids go before what was chained.
FirstOfAll(clauses) == <<Where("owner")>> \o clauses

\* where_in, or 1 = 0 when there is none, joins them to the clauses by AND.
WithIds(clauses) == Append(clauses, Where("owner"))

\* _apply_pivot_scope has the ids; the statement of the terminal follows at once. Or it raises.
Prepare(t) ==
    /\ t \in awaiting
    /\ awaiting' = awaiting \ {t}
    /\ \/ wheres' = WithIds(wheres) /\ Execute(t, WithIds(wheres), "first") /\ UNCHANGED lost
       \/ lost' = TRUE /\ UNCHANGED <<wheres, answer>>
    /\ UNCHANGED <<through, trash, prepared>>

QueryStep ==
    \/ Chain
    \/ \E t \in Holders : Prepare(t) \/ \E kind \in {"read", "write"} : Terminal(t, kind)

----------------------------------------------------------------------------
(* Reading a table in pieces *)

CONSTANTS
    MaxKey,     \* bound: keys are 1..MaxKey, ordered by the column walked by
    Size        \* rows per page

ASSUME WalkAssumption == MaxKey \in Nat /\ Size \in Nat \ {0}

Keys == 1..MaxKey

CONSTANTS
    MaxId,      \* bound: the ids are 1..MaxId
    Scores,     \* values of the column it orders by; the id decides between equal ones
    PerPage,
    NoCursor

ASSUME PagesAssumption ==
    /\ MaxId \in Nat /\ PerPage \in Nat \ {0} /\ Scores \subseteq Nat
    /\ NoCursor \notin Scores \X Nat

----------------------------------------------------------------------------
(* Walks by chunk_by_id and chunk *)

VARIABLES
    table,      \* the keys of the rows that match
    walk,       \* "off" | "fetch" | "callback" | "complete" | "stopped"
    byId,       \* chunk_by_id or chunk
    page,       \* the keys of the page the callback has
    position,   \* the last key seen, or the offset
    visited,    \* history: [Keys -> how often it was handed to the callback]
    steady,     \* history: keys present ever since the walk began
    disturbed   \* history: rows came or went during the walk

walkVars == <<table, walk, byId, page, position, visited, steady, disturbed>>

WalkTypeOK ==
    /\ table \subseteq Keys /\ page \subseteq Keys /\ steady \subseteq Keys
    /\ walk \in {"off", "fetch", "callback", "complete", "stopped"}
    /\ position \in Nat /\ visited \in [Keys -> Nat]
    /\ byId \in BOOLEAN /\ disturbed \in BOOLEAN

WalkInit ==
    /\ table = {} /\ walk = "off" /\ byId = TRUE /\ page = {} /\ position = 0
    /\ visited = [k \in Keys |-> 0] /\ steady = {} /\ disturbed = FALSE

Rank(k, set) == Cardinality({j \in set : j <= k})

StartWalk ==
    /\ walk = "off"
    /\ walk' = "fetch"
    /\ byId' \in BOOLEAN
    /\ table' \in SUBSET Keys
    /\ steady' = table'
    /\ UNCHANGED <<page, position, visited, disturbed>>

\* WHERE key > last ORDER BY key LIMIT size, or ORDER BY key LIMIT size OFFSET page * size.
Remaining ==
    IF byId THEN {k \in table : k > position} ELSE {k \in table : Rank(k, table) > position}

FetchPage ==
    /\ walk = "fetch"
    /\ page' = {k \in Remaining : Rank(k, Remaining) <= Size}
    /\ walk' = IF page' = {} THEN "complete" ELSE "callback"
    /\ visited' = [k \in Keys |-> IF k \in page' THEN visited[k] + 1 ELSE visited[k]]
    /\ UNCHANGED <<table, byId, position, steady, disturbed>>

\* Mutant: chunk_by_id goes on by offset.
Onward(seen) == position + Size

\* Where the next page begins, after a page with these keys.
NextPosition(seen) == IF byId THEN Max(seen) ELSE position + Size

\* The callback returned; False ends the walk, a short page does too.
TurnPage(stop) ==
    /\ walk = "callback"
    /\ walk' = IF stop THEN "stopped" ELSE IF Cardinality(page) < Size THEN "complete" ELSE "fetch"
    /\ position' = NextPosition(page)
    /\ page' = {}
    /\ UNCHANGED <<table, byId, visited, steady, disturbed>>

\* Another writer, or the callback itself.
InsertOrDelete(k) ==
    /\ walk \in {"fetch", "callback"}
    /\ table' = IF k \in table THEN table \ {k} ELSE table \cup {k}
    /\ steady' = steady \ {k}
    /\ disturbed' = TRUE
    /\ UNCHANGED <<walk, byId, page, position, visited>>

WalkStep == \/ StartWalk \/ FetchPage
            \/ \E stop \in BOOLEAN : TurnPage(stop)
            \/ \E k \in Keys : InsertOrDelete(k)

----------------------------------------------------------------------------
(* Turning pages with cursor_paginate *)

VARIABLES
    scores,     \* the table: [ids -> its score, or 0 when there is no such row]
    shown,      \* the positions of the rows on the page, in order
    nextCursor, prevCursor,
    backward,   \* it came to this page by a previous cursor
    settled,    \* history: positions of the rows that nobody touched since the first page
    unseen,     \* history: those of them that were on no page
    furthest    \* history: how far the pages have come, or NoCursor

cursors == <<nextCursor, prevCursor, backward>>
pageVars == <<scores, shown, cursors, settled, unseen, furthest>>

TheIds == 1..MaxId
Position == Scores \X TheIds
Absent == 0

PagesTypeOK ==
    /\ scores \in [TheIds -> Scores \cup {Absent}]
    /\ shown \in Seq(Position) /\ Len(shown) <= PerPage
    /\ {nextCursor, prevCursor, furthest} \subseteq Position \cup {NoCursor}
    /\ backward \in BOOLEAN
    /\ settled \subseteq Position /\ unseen \subseteq settled

PagesInit ==
    /\ scores = [i \in TheIds |-> Absent]
    /\ shown = <<>> /\ nextCursor = NoCursor /\ prevCursor = NoCursor /\ backward = FALSE
    /\ settled = {} /\ unseen = {} /\ furthest = NoCursor

Before(a, b) == a[1] < b[1] \/ (a[1] = b[1] /\ a[2] < b[2])
TableRows == {<<scores[i], i>> : i \in {j \in TheIds : scores[j] # Absent}}

\* Mutant: the score alone decides what comes after the cursor.
AfterScore(p, cursor, back) == IF back THEN p[1] < cursor[1] ELSE p[1] > cursor[1]

\* _seek_predicate: (score > s) OR (score = s AND id > i), each reversed to go back.
Sought(p, cursor, back) == IF back THEN Before(p, cursor) ELSE Before(cursor, p)

\* The first rows in the order of the scan, one more than fit.
Scan(cursor, back) ==
    LET found == {p \in TableRows : cursor = NoCursor \/ Sought(p, cursor, back)}
        ahead(p) == {q \in found : IF back THEN Before(p, q) ELSE Before(q, p)}
        taken == IF Cardinality(found) > PerPage THEN PerPage + 1 ELSE Cardinality(found)
    IN  [i \in 1..taken |-> CHOOSE p \in found : Cardinality(ahead(p)) = i - 1]

CursorPaginate(cursor, back) ==
    LET rows == Scan(cursor, back)
        extra == Len(rows) > PerPage
        kept == IF extra THEN Front(rows) ELSE rows
        items == IF back THEN Reverse(kept) ELSE kept
    IN  /\ shown' = items
        /\ backward' = back
        /\ IF items = <<>> THEN nextCursor' = NoCursor /\ prevCursor' = NoCursor
           ELSE /\ nextCursor' = IF back \/ extra THEN Last(items) ELSE NoCursor
                /\ prevCursor' = IF (IF back THEN extra ELSE cursor # NoCursor)
                                 THEN Head(items) ELSE NoCursor

Seen == unseen' = unseen \ ToSet(shown')

FirstPage ==
    /\ furthest = NoCursor
    /\ CursorPaginate(NoCursor, FALSE)
    /\ settled' = TableRows
    /\ unseen' = TableRows \ ToSet(shown')
    /\ furthest' = IF shown' = <<>> THEN NoCursor ELSE Last(shown')
    /\ UNCHANGED scores

NextPage ==
    /\ nextCursor # NoCursor
    /\ CursorPaginate(nextCursor, FALSE)
    /\ Seen
    /\ furthest' = IF shown' # <<>> /\ Before(furthest, Last(shown')) THEN Last(shown') ELSE furthest
    /\ UNCHANGED <<scores, settled>>

PreviousPage ==
    /\ prevCursor # NoCursor
    /\ CursorPaginate(prevCursor, TRUE)
    /\ Seen
    /\ UNCHANGED <<scores, settled, furthest>>

\* Another writer: the row is no longer one the pages promise anything about.
WriteRowAt(i, score) ==
    /\ scores[i] # score
    /\ scores' = [scores EXCEPT ![i] = score]
    /\ settled' = {p \in settled : p[2] # i}
    /\ unseen' = {p \in unseen : p[2] # i}
    /\ UNCHANGED <<shown, cursors, furthest>>

PageStep ==
    \/ FirstPage \/ NextPage \/ PreviousPage
    \/ \E i \in TheIds, score \in Scores \cup {Absent} : WriteRowAt(i, score)

----------------------------------------------------------------------------
(* Properties *)

OrFrom(clauses, i) == \E j \in i..Len(clauses) : j > 1 /\ clauses[j].or

\* What a statement reads or writes. Without a bare or_where: the rows that each clause
\* admits and no others. With one: still no row of another parent, through a foreign key if
\* the or_where is in a group and through a pivot table if it was chained before the first
\* terminal (_apply_pivot_scope); a bare one after the clause opens it to other parents' rows
\* and to trashed ones. Through a pivot table this is promised of what reads, and unless
\* another task is fetching the ids or an attempt to fetch them has raised (_ensure_prepared).
QueryScoped ==
    \A t \in Holders :
        LET n == answer[t]
            owner == {i \in 1..Len(n.wheres) : n.wheres[i].is = "owner"}
        IN  n # NoRows =>
            /\ OrFrom(n.wheres, 2) \/ n.rows = {row \in TableRow : \A i \in DOMAIN n.wheres :
                                                                Fits(n.wheres[i], row)}
            /\ \A i \in owner : OrFrom(n.wheres, i + 1) \/ \A row \in n.rows : row.own
            /\ n.kind = "first" => \A row \in n.rows : row.own
            /\ through = "key" \/ (through = "pivot" /\ n.kind # "write") =>
                  owner # {} \/ lost \/ n.early

\* chunk_by_id, "keyset pagination - stable under inserts": no row is seen twice, and a
\* walk that ends by itself has seen every row that was there all along, whatever came
\* and went meanwhile. chunk says the same only of a table at rest.
WalkedOnce ==
    (byId \/ ~disturbed) =>
        /\ \A k \in Keys : visited[k] <= 1
        /\ walk = "complete" => \A k \in steady : visited[k] = 1

Between(p, a, b) == Before(a, p) /\ Before(p, b)

\* docs/database/queries.md: "pages stay correct even when rows are inserted before the
\* cursor mid-scan". Of the rows nobody touches none is left out: going forward
\* every one up to where the pages have come was on a page, and all of them when there is
\* no next page; a page has no hole; going back ends at the first of them.
PagesRight ==
    /\ \A p \in unseen : furthest # NoCursor => Before(furthest, p)
    /\ shown # <<>> /\ ~backward /\ nextCursor = NoCursor => unseen = {}
    /\ shown # <<>> =>
          \A p \in settled : Between(p, Head(shown), Last(shown)) => p \in ToSet(shown)
    /\ shown # <<>> /\ backward /\ prevCursor = NoCursor =>
          \A p \in settled : ~Before(p, Head(shown))
=============================================================================
