---------------------------- MODULE HttpClient ----------------------------
(* Http.pool (client/__init__.py): requests that run at once, no more than    *)
(* max_concurrency of them, each by the retry loop of a pending request.      *)
EXTENDS Naturals, FiniteSets, Sequences
CONSTANTS
    Fetches,       \* the slots of the pool
    MaxTimes,       \* bound of retry(times)
    Caps,           \* max_concurrency of a pool
    Policies        \* what retry(when) calls worth another attempt: sets of outcomes

\* A 2xx, a 4xx and a 5xx response, no connection, a timeout after the server had the
\* request, and an exception of another kind.
Responses == {"ok", "denied", "broken"}
Exceptions == {"unreachable", "timeout", "other"}
Outcomes == Responses \cup Exceptions
AtServer == Responses \cup {"timeout"}

ASSUME HttpClientAssumption ==
    /\ IsFiniteSet(Fetches) /\ MaxTimes \in Nat \ {0}
    /\ Caps \subseteq Nat \ {0} /\ Policies \subseteq SUBSET Outcomes

VARIABLES
    cap,                    \* max_concurrency
    policy, times, throw,   \* retry(times, when=, throw=) of the requests; times = 0: none
    fetch,    \* [Requests -> where it is]
    attempts,      \* [Requests -> attempts begun]
    lastError, lastResponse,    \* [Requests -> what the loop keeps, or "none"]
    slot,       \* [Requests -> its result]
    answers,    \* history: [Requests -> the outcomes of its attempts]
    hooked      \* history: [Requests -> calls of on_error]

callVars == <<fetch, attempts, lastError, lastResponse, slot, answers, hooked>>
how == <<cap, policy, times, throw>>
clientVars == <<how, callVars>>

Results == Responses \cup Exceptions \cup {"RequestFailed", "hook", "none"}

ClientTypeOK ==
    /\ cap \in Caps /\ policy \in Policies /\ times \in 0..MaxTimes /\ throw \in BOOLEAN
    /\ fetch \in [Fetches -> {"queued", "sending", "decide", "sleeping", "done", "cancelled"}]
    /\ attempts \in [Fetches -> 0..MaxTimes]
    /\ lastError \in [Fetches -> Exceptions \cup {"none"}]
    /\ lastResponse \in [Fetches -> Responses \cup {"none"}]
    /\ slot \in [Fetches -> Results]
    /\ answers \in [Fetches -> Seq(Outcomes)] /\ hooked \in [Fetches -> Nat]

ClientInit ==
    /\ cap \in Caps /\ policy \in Policies /\ times \in 0..MaxTimes /\ throw \in BOOLEAN
    /\ fetch = [r \in Fetches |-> "queued"] /\ attempts = [r \in Fetches |-> 0]
    /\ lastError = [r \in Fetches |-> "none"] /\ lastResponse = [r \in Fetches |-> "none"]
    /\ slot = [r \in Fetches |-> "none"]
    /\ answers = [r \in Fetches |-> <<>>] /\ hooked = [r \in Fetches |-> 0]

----------------------------------------------------------------------------
AtOnce == {r \in Fetches : fetch[r] \in {"sending", "decide", "sleeping"}}
\* Mutant: times counts the retries after the first attempt.
TimesOver == times + 1

Allowed == IF times = 0 THEN 1 ELSE times
Worthy(r) ==
    (IF lastError[r] # "none" THEN lastError[r] ELSE lastResponse[r]) \in policy

\* The semaphore: held until the request is done, also while it sleeps.
EnterPool(r) ==
    /\ fetch[r] = "queued" /\ Cardinality(AtOnce) < cap
    /\ fetch' = [fetch EXCEPT ![r] = "sending"] /\ attempts' = [attempts EXCEPT ![r] = 1]
    /\ UNCHANGED <<how, lastError, lastResponse, slot, answers, hooked>>

\* Mutant: a response leaves the error of an earlier attempt.
KeepError(r, o) ==
    /\ lastError' = IF o \in Exceptions THEN [lastError EXCEPT ![r] = o] ELSE lastError
    /\ lastResponse' = [lastResponse EXCEPT ![r] = IF o \in Responses THEN o ELSE "none"]

KeepOutcome(r, o) ==
    /\ lastError' = [lastError EXCEPT ![r] = IF o \in Exceptions THEN o ELSE "none"]
    /\ lastResponse' = [lastResponse EXCEPT ![r] = IF o \in Responses THEN o ELSE "none"]

\* _send_once
SendOnce(r, o) ==
    /\ fetch[r] = "sending"
    /\ KeepOutcome(r, o)
    /\ fetch' = [fetch EXCEPT ![r] = "decide"]
    /\ answers' = [answers EXCEPT ![r] = Append(@, o)]
    /\ UNCHANGED <<how, attempts, slot, hooked>>

\* What leaves the loop: an error, RequestFailed, or the response.
Leaves(r) ==
    IF lastError[r] # "none" THEN lastError[r]
    ELSE IF times > 0 /\ throw /\ Worthy(r) THEN "RequestFailed" ELSE lastResponse[r]

\* The hook on_error, then another attempt or the end.
Decide(r) ==
    /\ fetch[r] = "decide"
    /\ hooked' = IF Worthy(r) THEN [hooked EXCEPT ![r] = @ + 1] ELSE hooked
    /\ IF attempts[r] = Allowed \/ ~Worthy(r)
       THEN slot' = [slot EXCEPT ![r] = Leaves(r)] /\ fetch' = [fetch EXCEPT ![r] = "done"]
       ELSE fetch' = [fetch EXCEPT ![r] = "sleeping"] /\ UNCHANGED slot
    /\ UNCHANGED <<how, attempts, lastError, lastResponse, answers>>

\* The hook raises: its exception leaves the loop.
HookRaises(r) ==
    /\ fetch[r] = "decide" /\ Worthy(r)
    /\ hooked' = [hooked EXCEPT ![r] = @ + 1]
    /\ slot' = [slot EXCEPT ![r] = "hook"] /\ fetch' = [fetch EXCEPT ![r] = "done"]
    /\ UNCHANGED <<how, attempts, lastError, lastResponse, answers>>

\* The backoff is over.
Again(r) ==
    /\ fetch[r] = "sleeping"
    /\ fetch' = [fetch EXCEPT ![r] = "sending"] /\ attempts' = [attempts EXCEPT ![r] = @ + 1]
    /\ UNCHANGED <<how, lastError, lastResponse, slot, answers, hooked>>

\* The caller of the pool is cancelled, and with it every request that is not done.
CancelPool ==
    /\ \E r \in Fetches : fetch[r] \notin {"done", "cancelled"}
    /\ fetch' = [r \in Fetches |-> IF fetch[r] = "done" THEN "done" ELSE "cancelled"]
    /\ UNCHANGED <<how, attempts, lastError, lastResponse, slot, answers, hooked>>

ClientStep ==
    \/ CancelPool
    \/ \E r \in Fetches :
          \/ EnterPool(r) \/ Decide(r) \/ HookRaises(r) \/ Again(r)
          \/ \E o \in Outcomes : SendOnce(r, o)

----------------------------------------------------------------------------
(* Properties *)

\* docs/http-client.md: "if every attempt is still retry-worthy once attempts are exhausted,
\* retry() raises", "a bad status that isn't retry-worthy is returned as-is", and pool gives
\* "ordered results". A slot holds what the last attempt of its own request came to, however
\* the others interleave; an attempt after the first follows one the policy called worth it,
\* and the hook heard of each of those; so the server has a request a second time only if the
\* policy retries what may have reached it.
EndedRight(r) ==
    LET n == Len(answers[r])
        last == answers[r][n]
    IN  /\ n \in 1..Allowed
        /\ \A i \in 1..(n - 1) : answers[r][i] \in policy
        /\ slot[r] = "hook" => last \in policy
        /\ slot[r] # "hook" =>
              /\ n < Allowed => last \notin policy
              /\ last \in Exceptions => slot[r] = last
              /\ last \in Responses =>
                     slot[r] = IF last \in policy /\ times > 0 /\ throw THEN "RequestFailed"
                               ELSE last

PoolRight ==
    /\ \A r \in Fetches :
          /\ fetch[r] = "done" => EndedRight(r)
          /\ fetch[r] \in {"queued", "sending", "sleeping", "done"} =>
                hooked[r] = Cardinality({i \in DOMAIN answers[r] : answers[r][i] \in policy})
          /\ Cardinality({i \in DOMAIN answers[r] : answers[r][i] \in AtServer}) > 1 =>
                policy \cap AtServer # {}
    /\ Cardinality(AtOnce) <= cap
=============================================================================
