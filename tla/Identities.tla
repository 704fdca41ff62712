----------------------------- MODULE Identities -----------------------------
(* Who acts in a browser's session (auth/guards.py SessionGuard,              *)
(* auth/sessions.py, auth/impersonation.py and the challenge of               *)
(* auth/two_factor.py): log in with one factor or two, sign out other         *)
(* browsers, act as somebody else and come back. Browsers make one request at *)
(* a time each; the requests of several interleave at every await. That the   *)
(* session itself is kept from one request to the next is Sessions' subject.  *)
EXTENDS Naturals, FiniteSets
CONSTANTS
    Browsers, Persons,
    TwoFactored,   \* those who confirmed a second factor
    Supporters,    \* those whose "impersonate" ability allows the others
    NoPerson,
    MaxBumps,      \* bound: generations
    MaxVisits      \* bound: requests in all

ASSUME IdentitiesAssumption ==
    /\ TwoFactored \subseteq Persons /\ Supporters \subseteq Persons
    /\ NoPerson \notin Persons /\ MaxBumps \in Nat /\ MaxVisits \in Nat

VARIABLES
    generation,   \* [Persons -> the counter in the cache]
    kept,         \* [Browsers -> the session as it is stored]
    asking,       \* [Browsers -> its request, see Asking]
    visits,       \* requests begun
    proof,        \* history: [Browsers -> who logged in there last, and how, see Proof]
    evicted       \* history: browsers whose stamped session another one has signed out

identityVars == <<generation, kept, asking, visits, proof, evicted>>

Anyone == Persons \cup {NoPerson}
Unstamped == MaxBumps + 1
Identity == [user : Anyone, by : Anyone, stamp : 0..Unstamped, pending : Anyone]
Stranger == [user |-> NoPerson, by |-> NoPerson, stamp |-> Unstamped, pending |-> NoPerson]

Asking == [at : {"idle", "current", "act", "stamp", "restamp"},
           session : Identity,       \* the copy it works on
           acts : Anyone,            \* current_user
           raised : 0..MaxBumps,     \* what increment answered
           out : BOOLEAN]            \* history: the check asked the cache once signed out
NotAsking ==
    [at |-> "idle", session |-> Stranger, acts |-> NoPerson, raised |-> 0, out |-> FALSE]

\* Whom the last login was for, whom a password was shown for; that the login was stamped with
\* what the cache told, and that nobody was impersonated since.
Proof == [who : Anyone, passwords : SUBSET Persons, code : BOOLEAN, sure : BOOLEAN]
NoProof == [who |-> NoPerson, passwords |-> {}, code |-> FALSE, sure |-> FALSE]

IdentitiesTypeOK ==
    /\ generation \in [Persons -> 0..MaxBumps] /\ kept \in [Browsers -> Identity]
    /\ asking \in [Browsers -> Asking] /\ visits \in 0..MaxVisits
    /\ proof \in [Browsers -> Proof] /\ evicted \subseteq Browsers

IdentitiesInit ==
    /\ generation = [p \in Persons |-> 0] /\ kept = [b \in Browsers |-> Stranger]
    /\ asking = [b \in Browsers |-> NotAsking] /\ visits = 0
    /\ proof = [b \in Browsers |-> NoProof] /\ evicted = {}

----------------------------------------------------------------------------
SessionOf(b) == asking[b].session
Impersonates(s) == s.by # NoPerson
Tracked(s) == s.user # NoPerson /\ s.stamp # Unstamped

\* StartSession loads the session. Without a user or a stamp nothing is asked.
LoadSession(b) ==
    /\ asking[b].at = "idle" /\ visits < MaxVisits /\ visits' = visits + 1
    /\ asking' = [asking EXCEPT ![b] =
           [at |-> IF Tracked(kept[b]) THEN "current" ELSE "act", session |-> kept[b],
            acts |-> kept[b].user, raised |-> 0, out |-> FALSE]]
    /\ UNCHANGED <<generation, kept, proof, evicted>>

\* EnsureSessionCurrent: off the counter, the session loses its user; a cache that fails keeps
\* it.
EnsureCurrent(b) ==
    /\ asking[b].at = "current"
    /\ \E told \in BOOLEAN :
           LET stays == ~told \/ SessionOf(b).stamp = generation[SessionOf(b).user]
               left == [Stranger EXCEPT !.pending = SessionOf(b).pending] IN
           asking' = [asking EXCEPT ![b] =
               [@ EXCEPT !.at = "act", !.out = told /\ b \in evicted,
                         !.acts = IF stays THEN asking[b].acts ELSE NoPerson,
                         !.session = IF stays THEN SessionOf(b) ELSE left]]
    /\ UNCHANGED <<generation, kept, visits, proof, evicted>>

Act(b, at, acts, session) ==
    /\ asking[b].at = "act"
    /\ asking' = [asking EXCEPT ![b] =
           [@ EXCEPT !.at = at, !.acts = acts, !.session = session, !.out = FALSE]]

----------------------------------------------------------------------------
(* In and out                                                                 *)

\* SessionGuard.login; stamp_session follows, with an await of its own.
Establish(b, p, code) ==
    /\ Act(b, "stamp", p,
           [SessionOf(b) EXCEPT !.user = p, !.by = NoPerson,
                              !.pending = IF code THEN NoPerson ELSE @])
    /\ proof' = [proof EXCEPT ![b] = [who |-> p, code |-> code, sure |-> FALSE,
           passwords |-> @.passwords \cup (IF code THEN {} ELSE {p})]]
    /\ evicted' = evicted \ {b}
    /\ UNCHANGED <<generation, kept, visits>>

LogIn(b, p) == p \notin TwoFactored /\ Establish(b, p, FALSE)

BeginChallenge(b, p) ==
    /\ p \in TwoFactored
    /\ Act(b, "act", asking[b].acts, [SessionOf(b) EXCEPT !.pending = p])
    /\ proof' = [proof EXCEPT ![b].passwords = @ \cup {p}]
    /\ UNCHANGED <<generation, kept, visits, evicted>>

\* A code completes the login of whom the session awaits.
CompleteChallenge(b, p) ==
    SessionOf(b).pending = p /\ p \in TwoFactored /\ Establish(b, p, TRUE)

\* current_generation answers 0 for a cache that fails.
Stamp(b) ==
    /\ asking[b].at = "stamp"
    /\ \E told \in BOOLEAN :
           /\ asking' = [asking EXCEPT ![b] = [@ EXCEPT !.at = "act",
                  !.session.stamp = IF told THEN generation[SessionOf(b).user] ELSE 0]]
           /\ proof' = [proof EXCEPT ![b].sure = told]
    /\ UNCHANGED <<generation, kept, visits, evicted>>

LogOut(b) ==
    /\ SessionOf(b).user # NoPerson /\ Act(b, "act", NoPerson, Stranger)
    /\ proof' = [proof EXCEPT ![b] = NoProof] /\ evicted' = evicted \ {b}
    /\ UNCHANGED <<generation, kept, visits>>

\* Whom a bump signs out: whoever's session is stamped for that person, from the next request
\* on. NoPerson signs out others while impersonating: the stamp would be of the wrong one.
SignedOut(p) ==
    {c \in Browsers :
        LET s == IF asking[c].at \in {"act", "restamp"} THEN SessionOf(c) ELSE kept[c] IN
        (IF Impersonates(s) THEN s.by ELSE s.user) = p /\ Tracked(s) /\ asking[c].at # "stamp"}

RaiseGeneration(p) ==
    /\ generation[p] < MaxBumps
    /\ generation' = [generation EXCEPT ![p] = @ + 1]

\* logout_other_sessions: the counter is raised; then this session is stamped with what that
\* answered. A cache that fails leaves both.
SignOutOthers(b) ==
    LET p == asking[b].acts IN
    /\ asking[b].at = "act" /\ p # NoPerson /\ ~Impersonates(SessionOf(b)) /\ RaiseGeneration(p)
    /\ asking' = [asking EXCEPT ![b] = [@ EXCEPT !.at = "restamp", !.raised = generation[p] + 1,
                                                 !.out = FALSE]]
    /\ evicted' = (evicted \cup SignedOut(p)) \ {b}
    /\ UNCHANGED <<kept, visits, proof>>

\* Mutant: the counter is read again for the stamp.
RestampNow(b) ==
    /\ asking[b].at = "restamp"
    /\ asking' = [asking EXCEPT ![b] = [@ EXCEPT !.at = "act", !.raised = 0,
                                                 !.session.stamp = generation[asking[b].acts]]]
    /\ UNCHANGED <<generation, kept, visits, proof, evicted>>

Restamp(b) ==
    /\ asking[b].at = "restamp"
    /\ asking' = [asking EXCEPT ![b] = [@ EXCEPT !.at = "act", !.raised = 0,
                                                 !.session.stamp = asking[b].raised]]
    /\ UNCHANGED <<generation, kept, visits, proof, evicted>>

\* invalidate_all_sessions: this one too, from its next request.
SignOutEverywhere(b) ==
    LET p == asking[b].acts IN
    /\ asking[b].at = "act" /\ p # NoPerson /\ ~Impersonates(SessionOf(b)) /\ RaiseGeneration(p)
    /\ evicted' = evicted \cup SignedOut(p)
    /\ UNCHANGED <<kept, asking, visits, proof>>

----------------------------------------------------------------------------
(* In another's place                                                         *)

\* The stamp stays the supporter's.
Impersonate(b, p) ==
    /\ asking[b].acts \in Supporters \ {p} /\ ~Impersonates(SessionOf(b))
    /\ Act(b, "act", p, [SessionOf(b) EXCEPT !.by = asking[b].acts, !.user = p])
    /\ proof' = [proof EXCEPT ![b].sure = FALSE]
    /\ UNCHANGED <<generation, kept, visits, evicted>>

\* The next request resolves the supporter.
StopImpersonating(b) ==
    /\ Impersonates(SessionOf(b))
    /\ Act(b, "act", NoPerson, [SessionOf(b) EXCEPT !.user = SessionOf(b).by, !.by = NoPerson])
    /\ UNCHANGED <<generation, kept, visits, proof, evicted>>

\* The session is saved.
KeepSession(b) ==
    /\ asking[b].at = "act"
    /\ kept' = [kept EXCEPT ![b] = SessionOf(b)]
    /\ asking' = [asking EXCEPT ![b] = NotAsking]
    /\ UNCHANGED <<generation, visits, proof, evicted>>

IdentityStep ==
    \E b \in Browsers :
        \/ LoadSession(b) \/ EnsureCurrent(b) \/ Stamp(b) \/ LogOut(b)
        \/ SignOutOthers(b) \/ Restamp(b) \/ SignOutEverywhere(b) \/ StopImpersonating(b) \/ KeepSession(b)
        \/ \E p \in Persons :
               \/ LogIn(b, p) \/ BeginChallenge(b, p) \/ CompleteChallenge(b, p)
               \/ Impersonate(b, p)

----------------------------------------------------------------------------
(* Properties *)

Copies(b) == {kept[b]} \cup (IF asking[b].at = "idle" THEN {} ELSE {SessionOf(b)})

\* A browser signed out by another one is a guest from the next request that the cache
\* answers; one that was not, and whose login was stamped, stays logged in. Sessions of
\* impersonators apart: impersonate() leaves the stamp of the supporter beside the user.
SignedOutAlone ==
    \A b \in Browsers :
        /\ asking[b].at = "act" /\ asking[b].out /\ ~Impersonates(SessionOf(b)) =>
               asking[b].acts = NoPerson
        /\ proof[b].sure /\ b \notin evicted /\ asking[b].at \in {"act", "restamp"} =>
               SessionOf(b).user = proof[b].who

\* Whoever acts in a session is who logged in there last, or acts for them: a supporter who
\* stops, or another login, brings back nobody else.
ActsForOneself ==
    \A b \in Browsers : \A s \in Copies(b) :
        s.user # NoPerson /\ (s = kept[b] => asking[b].at = "idle") =>
            proof[b].who = (IF Impersonates(s) THEN s.by ELSE s.user)

\* Who has a second factor is logged in by both.
BothFactors ==
    \A b \in Browsers :
        proof[b].who \in TwoFactored => proof[b].who \in proof[b].passwords /\ proof[b].code

IdentitiesRight == SignedOutAlone /\ ActsForOneself /\ BothFactors
=============================================================================
