----------------------------- MODULE Relations -----------------------------
(* Reading related rows (database/relations.py): every relation can be        *)
(* resolved lazily for one parent, loaded eagerly for many in batched         *)
(* queries, tested and counted in a subquery, and written through. The tables *)
(* change under them: rows are moved, trashed and deleted, pivot rows repeat  *)
(* or point at nothing.                                                       *)
EXTENDS Integers, FiniteSets
CONSTANTS
    Parents,    \* ids of the parents' table; another table (Elsewhere) uses the same ids
    Children,   \* rows with a foreign key and a morph type; they soft-delete
    Grands,     \* rows that point at children
    Nodes,      \* rows that point at their own table
    Here,       \* the morph type of Parents
    Elsewhere,
    MaxPivots,  \* bound: rows of the pivot table
    Null

ASSUME RelationsAssumption ==
    /\ Here # Elsewhere /\ Null \notin Parents \cup Children \cup Nodes
    /\ IsFiniteSet(Parents) /\ IsFiniteSet(Children) /\ IsFiniteSet(Nodes)
    /\ MaxPivots \in Nat

VARIABLES
    saved,      \* the parents that exist
    child,      \* [Children -> its row, or Null]
    pivots,     \* [Parents \X Children \X Types -> how many such pivot rows]
    via,        \* [Grands -> the child it points at, or Null]
    above,      \* the tree's rows: [some Nodes -> its parent, or Null]
    strayed     \* history: a write through a relation reached a row that is not in it

relationVars == <<saved, child, pivots, via, above, strayed>>

Types == {Here, Elsewhere}
ChildRow == [owner : Parents \cup {Null}, type : Types, trashed : BOOLEAN]

RelationsTypeOK ==
    /\ saved \subseteq Parents
    /\ child \in [Children -> ChildRow \cup {Null}]
    /\ pivots \in [Parents \X Children \X Types -> 0..MaxPivots]
    /\ via \in [Grands -> Children \cup {Null}]
    /\ above \in [DOMAIN above -> Nodes \cup {Null}] /\ DOMAIN above \subseteq Nodes
    /\ strayed \in BOOLEAN

RelationsInit ==
    /\ saved = {}
    /\ child = [c \in Children |-> Null]
    /\ pivots = [l \in Parents \X Children \X Types |-> 0]
    /\ via = [g \in Grands |-> Null]
    /\ above = [n \in {} |-> Null]
    /\ strayed = FALSE

IsRow(c) == child[c] # Null
\* What a query of the model sees: its soft-delete scope hides the trashed.
Live(c) == IsRow(c) /\ ~child[c].trashed

----------------------------------------------------------------------------
(* has_many, has_one, morph_many, morph_one *)

HasManyGet(p) == {c \in Children : Live(c) /\ child[c].owner = p}
MorphManyGet(p) == {c \in Children : Live(c) /\ child[c].type = Here /\ child[c].owner = p}

\* One query for all the parents, whose rows are grouped by the foreign key.
Grouped(rows, p) == {c \in rows : child[c].owner = p}
HasManyEager(ps) == {c \in Children : Live(c) /\ child[c].owner \in ps}

\* Mutant: the batched query forgets the type.
AnyMorph(ps) == {c \in Children : Live(c) /\ child[c].owner \in ps}

MorphManyEager(ps) == {c \in Children : Live(c) /\ child[c].type = Here /\ child[c].owner \in ps}

\* has, where_has and with_count correlate the tables: no scope applies.
Correlated(p) == {c \in Children : IsRow(c) /\ child[c].owner = p}
MorphCorrelated(p) == {c \in Correlated(p) : child[c].type = Here}

(* belongs_to, morph_to *)

BelongsToGet(c) == IF child[c].owner \in saved THEN child[c].owner ELSE Null
BelongsToEager(cs, c) ==
    LET found == saved \cap {child[d].owner : d \in cs} IN
    IF child[c].owner \in found THEN child[c].owner ELSE Null

\* Rows of the other table are never deleted here.
TableOf(type) == IF type = Here THEN saved ELSE Parents
MorphToGet(c) ==
    IF child[c].owner \in TableOf(child[c].type) THEN <<child[c].type, child[c].owner>> ELSE Null
\* One query per type found among the children; what it returns is kept by type and key.
MorphToEager(cs, c) ==
    LET Wanted(type) == {child[d].owner : d \in {e \in cs : child[e].type = type}}
        found == UNION {{type} \X (TableOf(type) \cap Wanted(type)) : type \in Types}
    IN  IF <<child[c].type, child[c].owner>> \in found THEN <<child[c].type, child[c].owner>> ELSE Null

(* belongs_to_many, morph_to_many, morphed_by_many *)

PivotRows(p) == [c \in Children |-> pivots[p, c, Here] + pivots[p, c, Elsewhere]]
MorphPivotRows(p) == [c \in Children |-> pivots[p, c, Here]]
InversePivotRows(c) == [p \in Parents |-> pivots[p, c, Here]]

\* The pivot rows one by one.
RowCopies(rows) == UNION {{r} \X (1..rows[r]) : r \in DOMAIN rows}

\* Two queries: the ids of the pivot rows, then the related rows among them.
PivotGet(rows, table) == {r \in DOMAIN rows : rows[r] > 0} \cap table
\* The second query asks for the ids of all the parents at once; each parent then gets a
\* copy per pivot row of its own, so a pivot row that is there twice gives two.
PivotEager(rows, all, table) ==
    LET found == {r \in DOMAIN rows : \E other \in all : other[r] > 0} \cap table IN
    [r \in DOMAIN rows |-> IF r \in found THEN rows[r] ELSE 0]

\* has asks for a pivot row, whatever it points at; with_count joins the related table.
PivotExists(rows) == \E r \in DOMAIN rows : rows[r] > 0
PivotCount(rows, present) == Cardinality({copy \in RowCopies(rows) : copy[1] \in present})

(* has_many_through, has_one_through *)

ThroughGet(p) == {g \in Grands : via[g] \in HasManyGet(p)}
ThroughEager(ps, p) ==
    LET link == [c \in HasManyEager(ps) |-> child[c].owner] IN
    {g \in Grands : via[g] \in DOMAIN link /\ link[via[g]] = p}
ThroughCorrelated(p) == {g \in Grands : via[g] \in Correlated(p)}

(* recursive relations: a WITH RECURSIVE query over the table *)

Step(ns, up) ==
    {m \in DOMAIN above : IF up THEN \E n \in ns : above[n] = m ELSE above[m] \in ns}
\* The rows at each depth below or above n.
Level(n, up) ==
    LET level[d \in 0..Cardinality(Nodes)] == IF d = 0 THEN {n} ELSE Step(level[d - 1], up)
    IN  level
Reached(n, up) == UNION {Level(n, up)[d] : d \in 1..Cardinality(Nodes)}
\* tree(): the rows no other of them holds.
NestRoots(ns, up) ==
    IF up THEN {m \in ns : \A n \in ns : above[n] # m}
          ELSE {m \in ns : above[m] \notin ns}
\* One query for all the roots, each row labelled with the root it was reached from.
RecursiveEager(roots, up) ==
    LET walk[d \in 0..Cardinality(Nodes)] ==
            IF d = 0 THEN {<<n, n>> : n \in roots}
            ELSE {m \in roots \X DOMAIN above :
                     \E l \in walk[d - 1] : l[1] = m[1] /\ m[2] \in Step({l[2]}, up)}
    IN  UNION {walk[d] : d \in 1..Cardinality(Nodes)}

----------------------------------------------------------------------------
(* Writes *)

OnlyChildren == UNCHANGED <<saved, pivots, via, above, strayed>>
OnlyPivots == UNCHANGED <<saved, child, via, above, strayed>>

\* create through the relation: the foreign key is the parent's.
CreateChild(p, c, type) ==
    /\ p \in saved /\ ~IsRow(c)
    /\ child' = [child EXCEPT ![c] = [owner |-> p, type |-> type, trashed |-> FALSE]]
    /\ OnlyChildren

\* save through the relation, associate and dissociate: a row already there moves.
MoveChild(c, owner) ==
    /\ Live(c) /\ owner \in saved \cup {Null} /\ child[c].owner # owner
    /\ child' = [child EXCEPT ![c].owner = owner]
    /\ OnlyChildren

TrashOrRestore(c) ==
    /\ IsRow(c)
    /\ child' = [child EXCEPT ![c].trashed = ~@]
    /\ OnlyChildren

\* Nothing cascades: what pointed at the row points at nothing.
DeleteChild(c) ==
    /\ IsRow(c)
    /\ child' = [child EXCEPT ![c] = Null]
    /\ OnlyChildren

CreateOrDeleteParent(p) ==
    /\ saved' = IF p \in saved THEN saved \ {p} ELSE saved \cup {p}
    /\ UNCHANGED <<child, pivots, via, above, strayed>>

Link(p, c, type) ==
    /\ p \in saved /\ IsRow(c)
    /\ Cardinality(RowCopies(pivots)) < MaxPivots
    /\ pivots' = [pivots EXCEPT ![<<p, c, type>>] = @ + 1]
    /\ OnlyPivots

\* detach of one id, or of all; the polymorphic one keeps to its type.
Unlink(p, cs, types) ==
    /\ p \in saved
    /\ pivots' = [l \in DOMAIN pivots |->
                     IF l[1] = p /\ l[2] \in cs /\ l[3] \in types THEN 0 ELSE pivots[l]]
    /\ OnlyPivots

PointAt(g, c) ==
    /\ via' = [via EXCEPT ![g] = c]
    /\ UNCHANGED <<saved, child, pivots, above, strayed>>

\* A row is added to the tree, or moved. Bound: no cycles, on which the recursive query
\* never ends.
HangUnder(n, m) ==
    /\ m \in {Null} \cup (DOMAIN above \ ({n} \cup Reached(n, FALSE)))
    /\ above' = [k \in DOMAIN above \cup {n} |-> IF k = n THEN m ELSE above[k]]
    /\ UNCHANGED <<saved, child, pivots, via, strayed>>

Uproot(n) ==
    /\ n \in DOMAIN above
    /\ above' = [m \in DOMAIN above \ {n} |-> above[m]]
    /\ UNCHANGED <<saved, child, pivots, via, strayed>>

\* delete() on a relation goes to its query: it trashes the rows the query's WHERE matches.
TrashAll(cs, related) ==
    /\ child' = [c \in Children |-> IF c \in cs THEN [child[c] EXCEPT !.trashed = TRUE] ELSE child[c]]
    /\ strayed' = (strayed \/ ~(cs \subseteq related))
    /\ UNCHANGED <<saved, pivots, via, above>>
DeleteThroughHasMany(p) == p \in saved /\ TrashAll(HasManyGet(p), HasManyGet(p))
\* Of a pivot relation the ids are put into the WHERE when the query is read, not when it
\* writes: the write has no WHERE but the soft-delete scope.
DeleteThroughPivot(p) ==
    p \in saved /\ TrashAll({c \in Children : Live(c)}, PivotGet(PivotRows(p), Children))

RelationStep ==
    \/ \E p \in Parents :
          \/ CreateOrDeleteParent(p) \/ DeleteThroughHasMany(p) \/ DeleteThroughPivot(p)
          \/ \E c \in Children, type \in Types : CreateChild(p, c, type) \/ Link(p, c, type)
          \/ \E cs \in {Children} \cup {{c} : c \in Children}, types \in {Types, {Here}} :
                Unlink(p, cs, types)
    \/ \E c \in Children :
          \/ TrashOrRestore(c) \/ DeleteChild(c)
          \/ \E owner \in Parents \cup {Null} : MoveChild(c, owner)
    \/ \E g \in Grands, c \in Children : PointAt(g, c)
    \/ \E n \in Nodes : Uproot(n) \/ \E m \in Nodes \cup {Null} : HangUnder(n, m)

\* Relations written through and read, with no other table in use.
RelationsSpec == RelationsInit /\ [][RelationStep]_relationVars

----------------------------------------------------------------------------
(* Properties *)

LiveRows == {c \in Children : Live(c)}
Kept == {c \in Children : IsRow(c)}

\* A batch loads for each of its parents what that parent would have found alone: no row of
\* another parent, of another type with the same id, or of one that is not in the batch.
BatchesAgree ==
    \A ps \in SUBSET saved : \A p \in ps :
        /\ Grouped(HasManyEager(ps), p) = HasManyGet(p)
        /\ Grouped(MorphManyEager(ps), p) = MorphManyGet(p)
        /\ ThroughEager(ps, p) = ThroughGet(p)
        /\ \A RowsOf \in {[q \in Parents |-> PivotRows(q)], [q \in Parents |-> MorphPivotRows(q)]} :
              LET copies == PivotEager(RowsOf[p], {RowsOf[q] : q \in ps}, LiveRows) IN
              /\ {c \in Children : copies[c] > 0} = PivotGet(RowsOf[p], LiveRows)
              /\ \A c \in Children : copies[c] > 1 => RowsOf[p][c] > 1

InversesAgree ==
    \A cs \in SUBSET LiveRows : \A c \in cs :
        LET copies == PivotEager(InversePivotRows(c), {InversePivotRows(d) : d \in cs}, saved) IN
        /\ BelongsToEager(cs, c) = BelongsToGet(c)
        /\ MorphToEager(cs, c) = MorphToGet(c)
        /\ {p \in Parents : copies[p] > 0} = PivotGet(InversePivotRows(c), saved)

\* What is found is counted, and a parent that has nothing finds nothing. The counts
\* exceed what is found only by trashed rows, repeated pivot rows and, of has, dangling ones.
CountsAgree ==
    \A p \in saved :
        /\ HasManyGet(p) = Correlated(p) \cap LiveRows
        /\ MorphManyGet(p) = MorphCorrelated(p) \cap LiveRows
        /\ ThroughGet(p) \subseteq ThroughCorrelated(p)
        /\ Kept = LiveRows => ThroughGet(p) = ThroughCorrelated(p)
        /\ \A rows \in {PivotRows(p), MorphPivotRows(p)} :
              LET got == PivotGet(rows, LiveRows) IN
              /\ got # {} => PivotExists(rows)
              /\ PivotCount(rows, Kept) >= Cardinality(got)
              /\ Kept = LiveRows /\ (\A c \in Children : rows[c] <= 1)
                     => PivotCount(rows, Kept) = Cardinality(got)

\* A batched walk finds each root's own rows, and tree() hangs all of them under the
\* direct children (below) or the nearest parent (above).
TreesAgree ==
    \A up \in BOOLEAN, roots \in SUBSET DOMAIN above : \A n \in roots :
        /\ {l[2] : l \in {k \in RecursiveEager(roots, up) : k[1] = n}} = Reached(n, up)
        /\ NestRoots(Reached(n, up), up) = Level(n, up)[1]

\* However a relation is resolved, it relates the same rows.
RelationsAgree == BatchesAgree /\ InversesAgree /\ CountsAgree /\ TreesAgree

\* relations.py: a relation "exposes the full Builder, scoped to the parent".
WritesStayInside == ~strayed
=============================================================================
