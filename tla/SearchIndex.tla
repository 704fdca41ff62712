---------------------------- MODULE SearchIndex ----------------------------
(* A searchable model (search/__init__.py): one row, its document in the      *)
(* engine, and the tasks that hold an instance of it. The hooks write the     *)
(* document inside the save, after the statement and before the commit, from  *)
(* the instance. search.queue moves the write into a listener that runs       *)
(* inside the same dispatch, so it is the same step here.                     *)
CONSTANTS
    Writers,
    Texts,      \* values of the column that is searched
    NoArticle, NoDoc

Articles == [text : Texts, wanted : BOOLEAN, trashed : BOOLEAN]
Documents == [text : Texts, flag : {"none", "live", "trashed"}]

ASSUME IndexAssumption == NoArticle \notin Articles /\ NoDoc \notin Documents

VARIABLES
    softDelete, \* search.soft_delete
    article,    \* the row: text, whether should_be_searchable wants it, deleted_at
    copy,       \* [Writers -> the attributes of its instance]
    left,       \* [Writers -> deleted_at among its originals]
    hook,       \* [Writers -> the index write that is still to be done]
    holder,     \* the writer whose save is in an open transaction
    before,     \* the row before that transaction
    doc,        \* the document
    mirrored    \* history: the last write of the document was one that must mirror the row

indexVars == <<softDelete, article, copy, left, hook, holder, before, doc, mirrored>>

IndexTypeOK ==
    /\ {softDelete, mirrored} \subseteq BOOLEAN
    /\ article \in Articles \cup {NoArticle}
    /\ copy \in [Writers -> Articles \cup {NoArticle}] /\ left \in [Writers -> BOOLEAN]
    /\ hook \in [Writers -> {"none", "put", "mark", "remove"}]
    /\ holder \in SUBSET Writers /\ before \in Articles \cup {NoArticle}
    /\ doc \in Documents \cup {NoDoc}

IndexInit ==
    /\ softDelete \in BOOLEAN
    /\ article = NoArticle /\ before = NoArticle /\ holder = {} /\ doc = NoDoc /\ mirrored = TRUE
    /\ copy = [w \in Writers |-> NoArticle] /\ left = [w \in Writers |-> FALSE]
    /\ hook = [w \in Writers |-> "none"]

----------------------------------------------------------------------------
Hooked == \E w \in Writers : hook[w] # "none"
Idle(w) == hook[w] = "none" /\ holder = {}   \* a statement waits for the row's lock
Visible == IF holder # {} THEN before ELSE article
UpdateTo(r) == article' = IF article = NoArticle THEN NoArticle ELSE r

\* No other write of the index is under way.
Alone == ~Hooked /\ holder = {}

LoadCopy(w) ==
    /\ hook[w] = "none"
    /\ Visible # NoArticle
    /\ copy' = [copy EXCEPT ![w] = Visible] /\ left' = [left EXCEPT ![w] = Visible.trashed]
    /\ UNCHANGED <<softDelete, article, hook, holder, before, doc, mirrored>>

\* Mutant: a record that is no longer wanted is left in the index.
PutOrKeep(r) == IF r.wanted THEN "put" ELSE "none"

\* The hook "saved".
Sync(r) == IF r.wanted THEN "put" ELSE "remove"

\* create, or save with new values: the dirty columns, among them a deleted_at that delete
\* or restore set. The save may be inside a transaction.
SaveCopy(w, text, wanted, inTransaction) ==
    LET mine == copy[w]
        new == mine = NoArticle
        now == [text |-> text, wanted |-> wanted, trashed |-> ~new /\ mine.trashed]
    IN  /\ Idle(w)
        /\ new => article = NoArticle
        /\ IF new THEN article' = now
           ELSE UpdateTo([text |-> IF text # mine.text THEN text ELSE article.text,
                          wanted |-> IF wanted # mine.wanted THEN wanted ELSE article.wanted,
                          trashed |-> IF mine.trashed # left[w] THEN mine.trashed
                                      ELSE article.trashed])
        /\ copy' = [copy EXCEPT ![w] = now] /\ left' = [left EXCEPT ![w] = now.trashed]
        /\ hook' = [hook EXCEPT ![w] = Sync(now)]
        /\ holder' = (IF inTransaction THEN {w} ELSE {})
        /\ before' = (IF inTransaction THEN article ELSE before)
        /\ mirrored' = (Alone /\ mine = article /\ ~now.trashed)
        /\ UNCHANGED <<softDelete, doc>>

\* delete: the hook "trashed"; restore: "restored", which does not ask should_be_searchable.
TrashCopy(w) ==
    /\ Idle(w) /\ copy[w] # NoArticle
    /\ copy' = [copy EXCEPT ![w].trashed = TRUE]
    /\ UpdateTo([article EXCEPT !.trashed = TRUE])
    /\ hook' = [hook EXCEPT ![w] = IF softDelete THEN "mark" ELSE "remove"]
    /\ mirrored' = (Alone /\ copy[w] = article /\ (softDelete => article.wanted))
    /\ UNCHANGED <<softDelete, left, holder, before, doc>>

RestoreCopy(w) ==
    /\ Idle(w) /\ copy[w] # NoArticle
    /\ copy' = [copy EXCEPT ![w].trashed = FALSE]
    /\ UpdateTo([article EXCEPT !.trashed = FALSE])
    /\ hook' = [hook EXCEPT ![w] = "put"]
    /\ mirrored' = (Alone /\ copy[w] = article /\ article.wanted)
    /\ UNCHANGED <<softDelete, left, holder, before, doc>>

RemoveCopy(w) ==
    /\ Idle(w) /\ copy[w] # NoArticle
    /\ article' = NoArticle
    /\ copy' = [copy EXCEPT ![w] = NoArticle] /\ left' = [left EXCEPT ![w] = FALSE]
    /\ hook' = [hook EXCEPT ![w] = "remove"]
    /\ mirrored' = Alone
    /\ UNCHANGED <<softDelete, holder, before, doc>>

\* make_all_searchable and scout:import: each live row that was read is indexed, wanted or not.
Reindex(w) ==
    /\ hook[w] = "none" /\ w \notin holder
    /\ Visible # NoArticle /\ ~Visible.trashed
    /\ copy' = [copy EXCEPT ![w] = Visible] /\ left' = [left EXCEPT ![w] = FALSE]
    /\ hook' = [hook EXCEPT ![w] = "put"]
    /\ mirrored' = (Alone /\ Visible.wanted)
    /\ UNCHANGED <<softDelete, article, holder, before, doc>>

----------------------------------------------------------------------------
\* _sync_to_index: the document is made from the instance.
WriteDoc(w) ==
    /\ hook[w] # "none"
    /\ doc' = CASE hook[w] = "put" -> [text |-> copy[w].text,
                                       flag |-> IF softDelete THEN "live" ELSE "none"]
              [] hook[w] = "mark" -> [text |-> copy[w].text, flag |-> "trashed"]
              [] hook[w] = "remove" -> NoDoc
    /\ hook' = [hook EXCEPT ![w] = "none"]
    /\ UNCHANGED <<softDelete, article, copy, left, holder, before, mirrored>>

\* In without_syncing, or the engine raises, and the save with it though the row is written.
SkipDoc(w) ==
    /\ hook[w] # "none"
    /\ hook' = [hook EXCEPT ![w] = "none"]
    /\ mirrored' = FALSE
    /\ UNCHANGED <<softDelete, article, copy, left, holder, before, doc>>

\* remove_all_from_search
FlushIndex ==
    /\ doc' = NoDoc /\ mirrored' = FALSE
    /\ UNCHANGED <<softDelete, article, copy, left, hook, holder, before>>

\* The document of a save that is rolled back stays.
EndTransaction(w, commits) ==
    /\ w \in holder /\ hook[w] = "none"
    /\ holder' = {}
    /\ before' = NoArticle
    /\ article' = IF commits THEN article ELSE before
    /\ mirrored' = (mirrored /\ commits)
    /\ UNCHANGED <<softDelete, copy, left, hook, doc>>

IndexStep ==
    \/ FlushIndex
    \/ \E w \in Writers :
          \/ LoadCopy(w) \/ TrashCopy(w) \/ RestoreCopy(w) \/ RemoveCopy(w) \/ Reindex(w)
          \/ WriteDoc(w) \/ SkipDoc(w) \/ \E commits \in BOOLEAN : EndTransaction(w, commits)
          \/ \E t \in Texts, wanted, inTransaction \in BOOLEAN :
                 SaveCopy(w, t, wanted, inTransaction)

----------------------------------------------------------------------------
(* Properties *)

Scopes == {"live", "with"} \cup (IF softDelete THEN {"only"} ELSE {})

\* _effective_filters, and the matches the engine counts for a page's total.
Filtered(scope, flag) ==
    softDelete => /\ scope = "only" => flag = "trashed"
                  /\ scope = "live" => flag # "trashed"
Hits(scope, t) == doc # NoDoc /\ doc.text = t /\ Filtered(scope, doc.flag)

\* _hydrate: the rows of the hits, in the scope of the query.
InScope(scope) == (scope = "only" => article.trashed) /\ (scope = "live" => ~article.trashed)
Hydrated(scope, t) == Hits(scope, t) /\ article # NoArticle /\ InScope(scope)

\* docs/search.md: "the index always reflects your data". Once nothing is under way, a search
\* counts and returns the record exactly if its row is in the scope, has the text and should
\* be searchable, provided the last write of the index was by an instance that was the row,
\* of a record that is wanted, not a save while trashed, alone, committed and not skipped.
SearchFinds ==
    Alone /\ mirrored =>
        \A scope \in Scopes, t \in Texts :
            LET found == /\ article # NoArticle /\ article.wanted /\ article.text = t
                         /\ InScope(scope) /\ (article.trashed => softDelete)
            IN  (Hits(scope, t) <=> found) /\ (Hydrated(scope, t) <=> found)
=============================================================================
