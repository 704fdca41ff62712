------------------------------ MODULE Records ------------------------------
(* One row and the model instances loaded from it (database/model.py): each   *)
(* has the attributes its user sees and the originals that dirty tracking     *)
(* compares them with. Every UPDATE is one atomic statement; an instance is   *)
(* used by one task. The timestamps columns are left out.                     *)
EXTENDS Naturals
CONSTANTS
    Instances,
    Titles,     \* values of a column that users assign
    MaxHits     \* bound of the counter column

Columns == {"title", "hits", "trashed"}
Rows == [title : Titles, hits : Nat, trashed : BOOLEAN]
Gone == [title |-> "none", hits |-> 0, trashed |-> FALSE]

ASSUME RecordsAssumption == MaxHits \in Nat /\ Titles # {} /\ "none" \notin Titles

VARIABLES
    row,        \* the row, or Gone once it is hard-deleted
    exists,     \* _exists
    attrs,      \* _attributes
    orig,       \* _original
    assigned,   \* history: instances with a title assigned and not saved since
    titled,     \* history: the title last saved by an instance that had assigned one
    counted,    \* history: increments since the row was inserted, until broken
    broken      \* history: an increment's statement failed (bound: once)

recordVars == <<row, exists, attrs, orig, assigned, titled, counted, broken>>

RecordsTypeOK ==
    /\ row \in Rows \cup {Gone}
    /\ exists \subseteq Instances /\ assigned \subseteq Instances
    /\ attrs \in [Instances -> Rows \cup {Gone}] /\ orig \in [Instances -> Rows \cup {Gone}]
    /\ titled \in Titles /\ counted \in Nat /\ broken \in BOOLEAN

RecordsInit ==
    /\ titled \in Titles
    /\ row = [title |-> titled, hits |-> 0, trashed |-> FALSE]
    /\ exists = Instances /\ assigned = {}
    /\ attrs = [i \in Instances |-> row] /\ orig = attrs
    /\ counted = 0 /\ broken = FALSE

RowExists == row # Gone

\* The WHERE of the statement finds no row once it is gone.
Update(r) == row' = IF RowExists THEN r ELSE row

Dirty(i) == {c \in Columns : attrs[i][c] # orig[i][c]}

----------------------------------------------------------------------------
\* find, refresh: the row as it is; refresh keeps a stale instance if there is none.
Load(i) ==
    /\ RowExists
    /\ exists' = exists \cup {i}
    /\ attrs' = [attrs EXCEPT ![i] = row] /\ orig' = [orig EXCEPT ![i] = row]
    /\ assigned' = assigned \ {i}
    /\ UNCHANGED <<row, titled, counted, broken>>

Assign(i, v) ==
    /\ attrs' = [attrs EXCEPT ![i].title = v]
    /\ assigned' = IF v # orig[i].title THEN assigned \cup {i} ELSE assigned \ {i}
    /\ UNCHANGED <<row, exists, orig, titled, counted, broken>>

\* Mutant: save writes all the attributes.
SaveAll(i) ==
    /\ i \in exists
    /\ Dirty(i) # {}
    /\ Update(attrs[i])
    /\ orig' = [orig EXCEPT ![i] = attrs[i]]
    /\ titled' = IF i \in assigned /\ RowExists THEN attrs[i].title ELSE titled
    /\ assigned' = assigned \ {i}
    /\ UNCHANGED <<exists, attrs, counted, broken>>

\* save of an existing record: the dirty columns only. A saving or updating
\* observer that vetoes it, and a statement that fails, change nothing.
Save(i) ==
    /\ i \in exists
    /\ Dirty(i) # {}
    /\ Update([c \in Columns |-> IF c \in Dirty(i) THEN attrs[i][c] ELSE row[c]])
    /\ orig' = [orig EXCEPT ![i] = attrs[i]]
    /\ titled' = IF i \in assigned /\ "title" \in Dirty(i) /\ RowExists
                 THEN attrs[i].title ELSE titled
    /\ assigned' = assigned \ {i}
    /\ UNCHANGED <<exists, attrs, counted, broken>>

\* save after force_delete inserts again, under the same key.
Insert(i) ==
    /\ i \notin exists
    /\ ~RowExists
    /\ row' = attrs[i]
    /\ exists' = exists \cup {i}
    /\ orig' = [orig EXCEPT ![i] = attrs[i]]
    /\ titled' = attrs[i].title /\ counted' = attrs[i].hits
    /\ assigned' = assigned \ {i}
    /\ UNCHANGED <<attrs, broken>>

\* SET hits = hits + 1, then every attribute becomes an original.
Increment(i) ==
    /\ i \in exists
    /\ row.hits < MaxHits /\ attrs[i].hits < MaxHits
    /\ attrs' = [attrs EXCEPT ![i].hits = @ + 1]
    /\ Update([row EXCEPT !.hits = @ + 1])
    /\ orig' = [orig EXCEPT ![i] = attrs'[i]]
    /\ counted' = IF RowExists /\ ~broken THEN counted + 1 ELSE counted
    /\ UNCHANGED <<exists, assigned, titled, broken>>

\* The statement fails: the attribute was raised before, and is dirty now.
IncrementFails(i) ==
    /\ i \in exists
    /\ ~broken
    /\ attrs[i].hits < MaxHits
    /\ attrs' = [attrs EXCEPT ![i].hits = @ + 1]
    /\ broken' = TRUE
    /\ UNCHANGED <<row, exists, orig, assigned, titled, counted>>

\* delete with SoftDeletes, and restore: a statement for deleted_at alone, which
\* leaves the originals behind. If it fails, the attribute stays dirty.
SetTrashed(i, flag, fails) ==
    /\ i \in exists
    /\ attrs' = [attrs EXCEPT ![i].trashed = flag]
    /\ IF fails THEN UNCHANGED row ELSE Update([row EXCEPT !.trashed = flag])
    /\ UNCHANGED <<exists, orig, assigned, titled, counted, broken>>

ForceDelete(i) ==
    /\ i \in exists
    /\ row' = Gone
    /\ exists' = exists \ {i}
    /\ UNCHANGED <<attrs, orig, assigned, titled, counted, broken>>

RecordStep ==
    \E i \in Instances :
        \/ Load(i) \/ Save(i) \/ Insert(i) \/ ForceDelete(i)
        \/ Increment(i) \/ IncrementFails(i)
        \/ \E v \in Titles : Assign(i, v)
        \/ \E flag, fails \in BOOLEAN : SetTrashed(i, flag, fails)

----------------------------------------------------------------------------
(* Properties *)

\* "concurrent writers can't clobber each other's untouched fields", "concurrent
\* increments compose": whatever stale instances do, the title is the one last
\* saved by somebody who assigned it, and the counter counts every increment
\* until one fails (its instance then saves the counter as a value).
NothingClobbered ==
    RowExists => row.title = titled /\ (~broken => row.hits = counted)
=============================================================================
