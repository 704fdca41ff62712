----------------------------- MODULE Validation -----------------------------
(* Validator (validation/__init__.py): the synchronous pass over all rules    *)
(* and the asynchronous one, which runs it with the custom rules deferred and *)
(* then awaits those and the database rules one by one, while rows come and   *)
(* go; what is rejected, and what validated() gives afterwards.               *)
EXTENDS Naturals, Sequences, SequencesExt
CONSTANTS
    Rulesets,    \* what a plain field may be ruled by, see Ruleset
    EachRules,   \* what the elements of a list may be ruled by
    Inputs,      \* what a plain field may hold
    Lists,       \* what the list may hold
    MaxPasses    \* bound: passes of one validator

\* A rule of presence (implicit: it also runs on a null), one of format, a custom Rule, a
\* database rule, and one that excludes the field when another one says so.
Rules == {"required", "format", "custom", "unique", "exclude", "distinct"}
Modifiers == {"bail", "nullable", "sometimes"}
Ruleset == [flags : SUBSET Modifiers, rules : Seq(Rules)]
Value == {"absent", "null", "bad", "odd", "good"}

Elements == 1..3     \* bound: how long a list may be

ASSUME ValidationAssumption ==
    /\ \A r \in Rulesets \cup EachRules : r \in Ruleset /\ IsInjective(r.rules)
    /\ Inputs \subseteq Value /\ \A l \in Lists : l \in Seq(Value) /\ DOMAIN l \subseteq Elements
    /\ MaxPasses \in Nat

VARIABLES
    form,      \* what is validated, by which rules and options, see Form
    taken,    \* whether a row holds the value the database rule asks for
    pass,      \* where the validator is, see Pass
    errors,    \* [ErrorKeys -> the rules that failed]
    excluded,  \* the fields validated() drops
    held       \* history: [Fields -> outcomes the database rule could have had in this pass]

formVars == <<form, taken, pass, errors, excluded, held>>

\* Two plain fields, in their order, then the list.
Fields == 1..2
Form == [rules : [Fields -> Rulesets], input : [Fields -> Inputs],
         each : EachRules, list : Lists,
         excludes : BOOLEAN,   \* the field exclude_if looks at says so
         hook : BOOLEAN,       \* an after() hook finds fault
         stop : BOOLEAN]       \* stop_on_first_failure
ElementKey(i) == 10 + i
HookKey == 0
ErrorKeys == Fields \cup {ElementKey(i) : i \in Elements} \cup {HookKey}
NoErrors == [k \in ErrorKeys |-> {}]

Pass == [at : {"idle", "awaiting", "ran"}, async : BOOLEAN,
         field : 1..3, met : SUBSET Rules, count : 0..MaxPasses]

FormsTypeOK ==
    /\ form \in Form /\ taken \in BOOLEAN /\ pass \in Pass
    /\ errors \in [ErrorKeys -> SUBSET (Rules \cup {"hook"})]
    /\ excluded \subseteq Fields /\ held \in [Fields -> SUBSET BOOLEAN]

FormsInit ==
    /\ form \in Form /\ taken = FALSE
    /\ pass = [at |-> "idle", async |-> FALSE, field |-> 1, met |-> {}, count |-> 0]
    /\ errors = NoErrors /\ excluded = {} /\ held = [f \in Fields |-> {}]

----------------------------------------------------------------------------
\* _check, and Rule.passes. In the synchronous pass a database rule holds.
Holds(rule, value) ==
    CASE rule = "required" -> value \notin {"absent", "null"}
      [] rule = "format" -> value \in {"odd", "good"}
      [] rule = "custom" -> value \in {"bad", "good"}
      [] OTHER -> TRUE

Flagged(f, flag) == flag \in form.rules[f].flags
IsNull(f) == form.input[f] \in {"absent", "null"}
Skipped(f) == Flagged(f, "sometimes") /\ form.input[f] = "absent"

\* On a null, nullable leaves only the implicit rules.
Applicable(f) ==
    {r \in Range(form.rules[f].rules) : Flagged(f, "nullable") /\ IsNull(f) => r = "required"}

Sooner(ruleset, r, q) ==
    \E i, j \in DOMAIN ruleset.rules : i < j /\ ruleset.rules[i] = r /\ ruleset.rules[j] = q

\* bail stops at the first of the rules that fail.
Reported(ruleset, failing) ==
    {r \in failing : "bail" \in ruleset.flags => \A q \in failing \ {r} : Sooner(ruleset, r, q)}

FieldErrors(f, deferred) ==
    IF Skipped(f) THEN {}
    ELSE Reported(form.rules[f], {r \in Applicable(f) \ deferred : ~Holds(r, form.input[f])})

\* exclude_if is met like any rule: where bail stopped before it, it is not.
Excludes(f, deferred) ==
    /\ form.excludes /\ ~Skipped(f) /\ "exclude" \in Applicable(f)
    /\ Flagged(f, "bail") =>
           \A r \in FieldErrors(f, deferred) : Sooner(form.rules[f], "exclude", r)

\* _validate_wildcard: distinct first, over all of them; a null element is checked like any
\* other.
ElementErrors(i) ==
    IF i \notin DOMAIN form.list THEN {}
    ELSE {r \in {"distinct"} \cap Range(form.each.rules) :
              \E j \in 1..(i - 1) : form.list[j] = form.list[i]}
         \cup Reported(form.each,
                       {r \in Range(form.each.rules) : ~Holds(r, form.list[i])})

Failed(e) == \E k \in ErrorKeys : e[k] # {}

\* The fields in their order, no further than the first that fails when stop_on_first_failure
\* says so; then the hooks.
Swept(deferred) ==
    LET reached(f) == ~form.stop \/ \A g \in 1..(f - 1) : FieldErrors(g, deferred) = {}
        reachedList == ~form.stop \/ \A g \in Fields : FieldErrors(g, deferred) = {}
    IN  [errors |-> [k \in ErrorKeys |->
            CASE k \in Fields -> IF reached(k) THEN FieldErrors(k, deferred) ELSE {}
              [] k = HookKey -> IF form.hook THEN {"hook"} ELSE {}
              [] OTHER -> IF reachedList THEN ElementErrors(k - 10) ELSE {}],
         excluded |-> {f \in Fields : reached(f) /\ Excludes(f, deferred)}]

Sweep(deferred) ==
    /\ errors' = Swept(deferred).errors /\ excluded' = Swept(deferred).excluded
    /\ UNCHANGED <<form, taken>>

\* passes(): every pass starts afresh.
Passes ==
    /\ pass.at \in {"idle", "ran"} /\ pass.count < MaxPasses
    /\ Sweep({})
    /\ pass' = [pass EXCEPT !.at = "ran", !.async = FALSE, !.count = @ + 1]
    /\ held' = [f \in Fields |-> {}]

PassesAsync ==
    /\ pass.at \in {"idle", "ran"} /\ pass.count < MaxPasses
    /\ Sweep({"custom"})
    /\ pass' = [at |-> "awaiting", async |-> TRUE, field |-> 1, met |-> {},
                count |-> pass.count + 1]
    /\ held' = [f \in Fields |-> {~taken}]

\* Mutant: the awaited rules of a field that was already failed run all the same.
LeftOutNull(f) == Skipped(f) \/ (IsNull(f) /\ Flagged(f, "nullable"))

\* The second loop does not look at stop_on_first_failure. One awaits, the others go by.
LeftOut(f) ==
    \/ Skipped(f)
    \/ IsNull(f) /\ Flagged(f, "nullable")
    \/ Flagged(f, "bail") /\ errors[f] # {}
ToAwait(f) == ({"custom", "unique"} \cap Range(form.rules[f].rules)) \ pass.met

AwaitRule(r) ==
    /\ pass.at = "awaiting" /\ pass.field \in Fields
    /\ LET f == pass.field IN
       /\ ~LeftOut(f) /\ r \in ToAwait(f)
       /\ \A q \in ToAwait(f) \ {r} : Sooner(form.rules[f], r, q)
       /\ errors' = IF \/ r = "unique" /\ ~(taken /\ form.input[f] = "good")
                       \/ r = "custom" /\ Holds(r, form.input[f])
                    THEN errors ELSE [errors EXCEPT ![f] = @ \cup {r}]
       /\ pass' = [pass EXCEPT !.met = @ \cup {r}]
    /\ UNCHANGED <<form, taken, excluded, held>>

NextField ==
    /\ pass.at = "awaiting" /\ pass.field \in Fields
    /\ LeftOut(pass.field) \/ ToAwait(pass.field) = {}
    /\ pass' = [pass EXCEPT !.field = @ + 1, !.met = {}]
    /\ UNCHANGED <<form, taken, errors, excluded, held>>

PassEnds ==
    /\ pass.at = "awaiting" /\ pass.field \notin Fields
    /\ pass' = [pass EXCEPT !.at = "ran", !.field = 1]
    /\ UNCHANGED <<form, taken, errors, excluded, held>>

\* Another request inserts or deletes the row.
RowChanges ==
    /\ pass.at = "awaiting" /\ taken' = ~taken
    /\ held' = [f \in Fields |-> held[f] \cup {taken}]
    /\ UNCHANGED <<form, pass, errors, excluded>>

FormStep ==
    \/ Passes \/ PassesAsync \/ NextField \/ PassEnds \/ RowChanges
    \/ \E r \in Rules : AwaitRule(r)

\* validated(): what is present and not excluded.
Validated == {f \in Fields : f \notin excluded /\ form.input[f] # "absent"}

----------------------------------------------------------------------------
(* Properties *)

\* What each rule says of the input by itself; the database rule may have said either while
\* the row changed.
MayHold(f, r) ==
    IF r = "unique" /\ pass.async /\ form.input[f] = "good" THEN TRUE \in held[f]
    ELSE Holds(r, form.input[f])
MustHold(f, r) ==
    IF r = "unique" /\ pass.async /\ form.input[f] = "good" THEN FALSE \notin held[f]
    ELSE Holds(r, form.input[f])
Judged(f) == IF Skipped(f) THEN {} ELSE Applicable(f)
ListHolds ==
    /\ \A i \in DOMAIN form.list : \A r \in Range(form.each.rules) : Holds(r, form.list[i])
    /\ Contains(form.each.rules, "distinct") => IsInjective(form.list)

\* Either pass accepts if every rule that applies holds, and only if it does: what is deferred
\* is neither lost nor run on a field that was left out, and no error of an earlier pass stays.
Verdict ==
    pass.at = "ran" =>
        /\ ~Failed(errors) =>
               /\ \A f \in Fields : \A r \in Judged(f) : MayHold(f, r)
               /\ ListHolds /\ ~form.hook
        /\ Failed(errors) =>
               \/ \E f \in Fields : \E r \in Judged(f) : ~MustHold(f, r)
               \/ ~ListHolds \/ form.hook

\* A field that bails reports one failure, whichever way its rules were run; a synchronous
\* pass that stops reports one field.
OneFailure ==
    pass.at = "ran" =>
        /\ \A f \in Fields : Flagged(f, "bail") => \A r, q \in errors[f] : r = q
        /\ form.stop /\ ~pass.async =>
               \A f, g \in Fields : errors[f] # {} /\ errors[g] # {} => f = g

\* What validated() gives after an accepting pass is present, was not to be excluded, and
\* every rule that applied to it held; and nothing else of that kind is left out.
ValidatedHolds ==
    pass.at = "ran" /\ ~Failed(errors) =>
        \A f \in Fields :
            f \in Validated <=>
                /\ form.input[f] # "absent"
                /\ ~(form.excludes /\ "exclude" \in Judged(f))

FormsRight == Verdict /\ OneFailure /\ ValidatedHolds
=============================================================================
