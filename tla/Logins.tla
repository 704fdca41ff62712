------------------------------- MODULE Logins -------------------------------
(* What keeps a user logged in beyond a session: refresh tokens that are      *)
(* exchanged for the next one (auth/refresh.py), and the remember cookie of a *)
(* browser, whose validator is rotated as it is used (auth/remember.py).      *)
(* Requests of one user overlap.                                              *)
EXTENDS Naturals, Sequences
CONSTANTS
    Calls,          \* requests of one user
    MaxTokens,      \* bound: refresh tokens issued
    MaxValidators   \* bound: validators made for the remember row

ASSUME LoginsAssumption == MaxTokens \in Nat /\ MaxValidators \in Nat

VARIABLES
    tokens,     \* the refresh_tokens rows: revoked, and the token each was exchanged for
    exchange,   \* [Calls -> where rotate_refresh_token is, with which token, and if it won]
    validator,  \* the remember row's validator, or 0 when there is no row
    remembered, \* the validator the browser holds, or 0
    recall,     \* [Calls -> where recall_remember_token is, what it read, what it answers]
    made,       \* history: validators made so far
    rotatedBy,  \* history: the requests that each validator was good for
    crossed     \* history: recalls overlapped, an answer was lost, or the row was removed

loginVars == <<tokens, exchange, validator, remembered, recall, made, rotatedBy, crossed>>
refreshVars == <<tokens, exchange>>
rememberVars == <<validator, remembered, recall, made, rotatedBy, crossed>>

NotExchanging == [at |-> "idle", token |-> 0, won |-> FALSE]
NotRecalling == [at |-> "idle", read |-> 0, answer |-> 0]
Versions == 0..MaxValidators

LoginsTypeOK ==
    /\ tokens \in Seq([revoked : BOOLEAN, from : 0..MaxTokens]) /\ Len(tokens) <= MaxTokens
    /\ exchange \in [Calls -> [at : {"idle", "found", "issue", "revoke"},
                                  token : 0..MaxTokens, won : BOOLEAN]]
    /\ {validator, remembered, made} \subseteq Versions
    /\ recall \in [Calls -> [at : {"idle", "delete", "rotate", "answer"},
                                read : Versions, answer : Versions]]
    /\ rotatedBy \in [1..MaxValidators -> SUBSET Calls] /\ crossed \in BOOLEAN

LoginsInit ==
    /\ tokens = <<>> /\ exchange = [x \in Calls |-> NotExchanging]
    /\ validator = 0 /\ remembered = 0 /\ made = 0
    /\ recall = [x \in Calls |-> NotRecalling]
    /\ rotatedBy = [v \in 1..MaxValidators |-> {}] /\ crossed = FALSE

----------------------------------------------------------------------------
(* Refresh tokens. Rows are never deleted. *)

IssueRefreshToken(from) ==
    /\ Len(tokens) < MaxTokens
    /\ tokens' = Append(tokens, [revoked |-> FALSE, from |-> from])

SignIn == IssueRefreshToken(0) /\ UNCHANGED exchange

\* Mutant: the update does not ask for a token that is not revoked.
ClaimsAny(t) == TRUE

\* UPDATE ... SET revoked WHERE token = ? AND NOT revoked: whether a row was hit.
ClaimsToken(t) == ~tokens[t].revoked

ClaimToken(x, t) ==
    /\ exchange[x].at = "idle"
    /\ exchange' = [exchange EXCEPT ![x] = [at |-> "found", token |-> t, won |-> ClaimsToken(t)]]
    /\ tokens' = [tokens EXCEPT ![t].revoked = TRUE]

\* The row is read; a token that was revoked before means the whole family goes.
ReadToken(x) ==
    /\ exchange[x].at = "found"
    /\ exchange' = [exchange EXCEPT ![x].at = IF exchange[x].won THEN "issue" ELSE "revoke"]
    /\ UNCHANGED tokens

RevokeAll == tokens' = [t \in DOMAIN tokens |-> [tokens[t] EXCEPT !.revoked = TRUE]]

RevokeFamily(x) ==
    /\ exchange[x].at = "revoke"
    /\ RevokeAll
    /\ exchange' = [exchange EXCEPT ![x] = NotExchanging]

IssueSuccessor(x) ==
    /\ exchange[x].at = "issue"
    /\ IssueRefreshToken(exchange[x].token)
    /\ exchange' = [exchange EXCEPT ![x] = NotExchanging]

ExchangeDies(x) ==
    /\ exchange[x].at # "idle"
    /\ exchange' = [exchange EXCEPT ![x] = NotExchanging]
    /\ UNCHANGED tokens

LogoutEverywhere == tokens # <<>> /\ RevokeAll /\ UNCHANGED exchange

----------------------------------------------------------------------------
(* The remember cookie *)

MakeValidator ==
    /\ made < MaxValidators
    /\ made' = made + 1
    /\ validator' = made + 1

\* remember(): a row of its own per login, so the requests of an earlier one are over.
RememberLogin ==
    /\ validator = 0 /\ \A x \in Calls : recall[x].at = "idle"
    /\ MakeValidator
    /\ remembered' = made + 1
    /\ crossed' = FALSE
    /\ UNCHANGED <<recall, rotatedBy>>

Recalling == \E x \in Calls : recall[x].at # "idle"

\* RememberMe reads the row of the cookie's selector: there is none, it has expired or
\* another validator, or it matches.
ReadRow(x, expired) ==
    /\ recall[x].at = "idle" /\ remembered # 0
    /\ expired => validator # 0
    /\ recall' = [recall EXCEPT ![x] =
                     [at |-> IF validator = 0 THEN "answer"
                             ELSE IF expired \/ validator # remembered THEN "delete" ELSE "rotate",
                      read |-> validator, answer |-> 0]]
    /\ crossed' = (crossed \/ expired \/ Recalling)
    /\ UNCHANGED <<validator, remembered, made, rotatedBy>>

\* The row is deleted by its key, whatever its validator is by now.
DeleteRow(x) ==
    /\ recall[x].at = "delete"
    /\ validator' = 0
    /\ recall' = [recall EXCEPT ![x].at = "answer"]
    /\ UNCHANGED <<remembered, made, rotatedBy, crossed>>

\* Mutant: the update asks for the selector only.
StillCurrent(x) == validator # 0

\* UPDATE ... WHERE selector = ? AND validator = the one read: whether a row was hit.
HitsRow(x) == validator = recall[x].read

RotateRow(x) ==
    /\ recall[x].at = "rotate"
    /\ IF HitsRow(x)
       THEN /\ MakeValidator
            /\ recall' = [recall EXCEPT ![x] = [@ EXCEPT !.at = "answer", !.answer = made + 1]]
            /\ rotatedBy' = [rotatedBy EXCEPT ![recall[x].read] = @ \cup {x}]
       ELSE /\ recall' = [recall EXCEPT ![x].at = "answer"]
            /\ UNCHANGED <<validator, made, rotatedBy>>
    /\ UNCHANGED <<remembered, crossed>>

\* The response sets the rotated cookie or clears it; answers arrive in any order, or not.
AnswerRecall(x, lost) ==
    /\ recall[x].at = "answer"
    /\ recall' = [recall EXCEPT ![x] = NotRecalling]
    /\ remembered' = IF lost THEN remembered ELSE recall[x].answer
    /\ crossed' = (crossed \/ lost)
    /\ UNCHANGED <<validator, made, rotatedBy>>

\* forget_remember, or clear_all_remember_tokens of another device.
ForgetRow(here) ==
    /\ validator # 0
    /\ validator' = 0
    /\ remembered' = IF here THEN 0 ELSE remembered
    /\ crossed' = TRUE
    /\ UNCHANGED <<recall, made, rotatedBy>>

LoginStep ==
    \/ /\ \/ SignIn \/ LogoutEverywhere
          \/ \E x \in Calls : \/ ReadToken(x) \/ RevokeFamily(x) \/ IssueSuccessor(x) \/ ExchangeDies(x)
                                 \/ \E t \in DOMAIN tokens : ClaimToken(x, t)
       /\ UNCHANGED rememberVars
    \/ /\ \/ RememberLogin \/ \E here \in BOOLEAN : ForgetRow(here)
          \/ \E x \in Calls : \/ DeleteRow(x) \/ RotateRow(x)
                                 \/ \E expired \in BOOLEAN : ReadRow(x, expired)
                                 \/ \E lost \in BOOLEAN : AnswerRecall(x, lost)
       /\ UNCHANGED refreshVars

----------------------------------------------------------------------------
(* Properties *)

Issuing(t) == {x \in Calls : exchange[x].token = t /\ exchange[x].won}
Successors(t) == {s \in DOMAIN tokens : tokens[s].from = t}

\* In any set of tokens that takes each together with the one it was issued for.
SameLogin(s, t) ==
    \A login \in SUBSET DOMAIN tokens :
        /\ s \in login
        /\ \A u \in DOMAIN tokens : tokens[u].from # 0 => (u \in login <=> tokens[u].from \in login)
        => t \in login

\* auth/refresh.py: "Two valid successors are never minted from one token". A token that is
\* exchanged or has been is revoked, is exchanged by one request, and has one successor, so
\* a login never has two live ones.
OneSuccessor ==
    /\ \A t \in DOMAIN tokens :
          \/ Issuing(t) = {} /\ Successors(t) = {}
          \/ tokens[t].revoked /\ (\E x \in Calls : Issuing(t) = {x}) /\ Successors(t) = {}
          \/ tokens[t].revoked /\ Issuing(t) = {} /\ \E s \in DOMAIN tokens : Successors(t) = {s}
    /\ \A s, t \in DOMAIN tokens :
          SameLogin(s, t) /\ ~tokens[s].revoked /\ ~tokens[t].revoked => s = t

\* auth/remember.py: "a single valid successor is minted" from a validator. And a browser
\* whose requests come one by one stays remembered: it holds the validator of the row.
RememberedOnce ==
    /\ \A v \in DOMAIN rotatedBy, x, y \in Calls : {x, y} \subseteq rotatedBy[v] => x = y
    /\ ~crossed /\ ~Recalling => remembered = validator

\* What keeps a user logged in is good for one exchange and leaves one successor.
LoginsRight == OneSuccessor /\ RememberedOnce
=============================================================================
