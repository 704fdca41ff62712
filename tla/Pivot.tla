------------------------------- MODULE Pivot -------------------------------
(* The pivot rows of one parent and the tasks that change them through a      *)
(* many-to-many relation (database/relations.py): sync, toggle and their kin  *)
(* read once and then issue one statement per id, with no transaction around. *)
EXTENDS Naturals, FiniteSets
CONSTANTS
    Editors,    \* calls that change the relation, one task each
    Ids,        \* related ids
    Notes,      \* values of an extra pivot column
    NoNote,     \* no value
    MaxOld,     \* bound: pivot rows at the start
    MaxLinks    \* bound: pivot rows ever inserted

ASSUME PivotAssumption == MaxLinks \in Nat /\ MaxOld \in 0..MaxLinks /\ NoNote \notin Notes

VARIABLES
    links,      \* the pivot rows
    inserted,   \* how many were inserted, which tells rows apart
    edit,       \* where each call is
    retained,   \* history: the rows that no call so far was to detach
    noted       \* history: ids that some call gave a note

pivotVars == <<links, inserted, edit, retained, noted>>

Links == [id : Ids, note : Notes \cup {NoNote}, number : 1..MaxLinks]
Outside == {[kind |-> "idle"], [kind |-> "over"]}

\* What a call asks for: a note, or none, for each of its ids.
Wishes == UNION {[ids -> Notes \cup {NoNote}] : ids \in SUBSET Ids}
Edits == [kind : {"sync", "merge", "toggle"}, wanted : Wishes, existing : SUBSET Links,
          todo : SUBSET Ids, alone : BOOLEAN]

Busy(e) == edit[e] \notin Outside
Attached(set) == {l.id : l \in set}
Single(set, i) == \A k, l \in set : k.id = i /\ l.id = i => k = l
Without(set, ids) == {l \in set : l.id \notin ids}

PivotTypeOK ==
    /\ links \subseteq Links /\ inserted \in 0..MaxLinks
    /\ edit \in [Editors -> Edits \cup Outside]
    /\ retained \subseteq 1..MaxLinks /\ noted \subseteq Ids

\* Some ids are attached, maybe more than once: two calls that race insert a row each.
PivotInit ==
    /\ \E n \in 0..MaxOld : \E old \in [1..n -> Ids \X (Notes \cup {NoNote})] :
          /\ links = {[id |-> old[k][1], note |-> old[k][2], number |-> k] : k \in 1..n}
          /\ noted = {i \in Ids : \E k \in 1..n : old[k][1] = i /\ old[k][2] # NoNote}
          /\ inserted = n
    /\ edit = [e \in Editors |-> [kind |-> "idle"]]
    /\ retained = {l.number : l \in links}

----------------------------------------------------------------------------
\* The ids a call is to detach if they are attached.
Unwanted(kind, ids) ==
    CASE kind = "sync" -> Ids \ ids [] kind = "toggle" -> ids [] OTHER -> {}

\* sync, sync_without_detaching ("merge") and toggle begin with one SELECT.
StartEdit(e, kind, wanted) ==
    LET ids == DOMAIN wanted IN
    /\ edit[e].kind = "idle"
    /\ kind = "toggle" => \A i \in ids : wanted[i] = NoNote
    /\ edit' = [edit EXCEPT ![e] =
                  [kind |-> kind, wanted |-> wanted, existing |-> links,
                   todo |-> IF kind = "sync" THEN ids \cup Attached(links) ELSE ids,
                   alone |-> \A d \in Editors : ~Busy(d)]]
    /\ noted' = noted \cup {i \in ids : wanted[i] # NoNote}
    /\ retained' = retained \ {l.number : l \in links \ Without(links, Unwanted(kind, ids))}
    /\ UNCHANGED <<links, inserted>>

Attach(i, note) ==
    /\ inserted < MaxLinks
    /\ links' = links \cup {[id |-> i, note |-> note, number |-> inserted + 1]}
    /\ inserted' = inserted + 1

Detach(i) ==
    /\ links' = Without(links, {i})
    /\ UNCHANGED inserted

\* Mutant: a retained id is detached and attached again.
Reattach(i, note, known) ==
    /\ inserted < MaxLinks
    /\ links' = Without(links, {i}) \cup {[id |-> i, note |-> note, number |-> inserted + 1]}
    /\ inserted' = inserted + 1

\* A retained id is updated if a note is given and the row read differs.
UpdateExisting(i, note, known) ==
    /\ \E l \in known :
          /\ l.id = i
          /\ links' = IF note \in {NoNote, l.note} THEN links
                      ELSE {IF k.id = i THEN [k EXCEPT !.note = note] ELSE k : k \in links}
    /\ UNCHANGED inserted

\* The statement for one id: first the wanted ones, then the ones to detach.
EditNext(e, i) ==
    LET call == edit[e]
        wants == DOMAIN call.wanted
        has == Attached(call.existing)
    IN  /\ Busy(e)
        /\ i \in call.todo
        /\ i \in wants \/ call.todo \cap wants = {}
        /\ \/ i \in wants \ has /\ Attach(i, call.wanted[i])
           \/ i \in has /\ i \in Unwanted(call.kind, wants) /\ Detach(i)
           \/ i \in has \ Unwanted(call.kind, wants)
              /\ UpdateExisting(i, call.wanted[i], call.existing)
        /\ edit' = [d \in Editors |->
                      IF d = e THEN [call EXCEPT !.todo = @ \ {i}]
                      ELSE IF Busy(d) THEN [edit[d] EXCEPT !.alone = FALSE] ELSE edit[d]]
        /\ UNCHANGED <<retained, noted>>

\* The call returns, or a statement raises and leaves the rest undone.
EditEnds(e) ==
    /\ Busy(e)
    /\ edit' = [edit EXCEPT ![e] = [kind |-> "over"]]
    /\ UNCHANGED <<links, inserted, retained, noted>>

PivotStep ==
    \E e \in Editors :
        \/ EditEnds(e)
        \/ \E i \in Ids : EditNext(e, i)
        \/ \E kind \in {"sync", "merge", "toggle"}, wanted \in Wishes : StartEdit(e, kind, wanted)

----------------------------------------------------------------------------
(* Properties *)

\* "Retained pivot rows are never dropped/recreated, so their data survives untouched
\* unless explicitly given new values", however many calls interleave or fail midway.
RetainedSurvive ==
    \A n \in retained :
        \E l \in links : l.number = n /\ (l.note # NoNote => l.id \in noted)

\* A call that nothing interleaved with leaves exactly the links it was asked for, with the
\* notes it was asked for where it found no second row of an id.
ExactAlone ==
    \A e \in Editors :
        Busy(e) /\ edit[e].todo = {} /\ edit[e].alone =>
            LET wants == DOMAIN edit[e].wanted
                has == Attached(edit[e].existing)
            IN  /\ Attached(links) = (has \cup wants) \ (has \cap Unwanted(edit[e].kind, wants))
                /\ \A l \in links : l.id \in wants /\ Single(edit[e].existing, l.id) =>
                       edit[e].wanted[l.id] \in {NoNote, l.note}

LinksKept == RetainedSurvive /\ ExactAlone
=============================================================================
