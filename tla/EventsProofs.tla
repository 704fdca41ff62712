---------------------------- MODULE EventsProofs ----------------------------
(* Proofs about what is heard: the frames of a socket (Relay.tla) and the     *)
(* events of an application (Events.tla), by themselves.                      *)
EXTENDS Events, Relay, SequenceTheorems, FiniteSetTheorems, WellFoundedInduction, TLAPS

-----------------------------------------------------------------------------
(* Numbers and steps                                                        *)

\* Of some numbers there is a least one.
LEMMA LeastOfAll ==
  ASSUME NEW S, S \subseteq Nat, S # {}
  PROVE  \E x \in S : \A y \in S : x <= y
<1>1. PICK x \in S : \A y \in S : ~(<<y, x>> \in OpToRel(<, Nat))
  BY NatLessThanWellFounded, WFMin
<1>2. ASSUME NEW y \in S PROVE x <= y
  <2>1. x \in Nat /\ y \in Nat /\ ~(y < x)
    BY <1>1 DEF OpToRel
  <2> QED BY <2>1
<1> QED BY <1>2

\* What holds of 0 and passes from each number to the next holds of all up to n.
LEMMA UpToAll ==
  \A n \in Nat : \A P : 0 \in P /\ (\A i \in 1..n : i - 1 \in P => i \in P)
                             => \A i \in 0..n : i \in P
<1> SUFFICES ASSUME NEW n \in Nat, NEW P, 0 \in P, \A i \in 1..n : i - 1 \in P => i \in P
             PROVE  \A i \in 0..n : i \in P
  OBVIOUS
<1> DEFINE D == {i \in 0..n : i \notin P}
<1> SUFFICES ASSUME D # {} PROVE FALSE
  OBVIOUS
<1>1. PICK x \in D : \A y \in D : x <= y
  <2>1. D \subseteq Nat
    OBVIOUS
  <2> HIDE DEF D
  <2> QED BY <2>1, LeastOfAll
<1>2. x \in 1..n /\ x - 1 \in 0..n
  BY <1>1
<1>3. x - 1 \in P
  BY <1>1, <1>2
<1> QED BY <1>1, <1>2, <1>3

\* Step after step from a first value: such a sequence of values there is.
Unfolds(f, n, s, G) == f[0] = s /\ \A i \in 1..n : f[i] = G[i][f[i - 1]]

LEMMA StepByStep ==
  \A n \in Nat : \A S : \A s \in S, G \in [1..n -> [S -> S]] :
     \E f \in [0..n -> S] : Unfolds(f, n, s, G)
<1> SUFFICES ASSUME NEW n \in Nat, NEW S, NEW s \in S, NEW G \in [1..n -> [S -> S]]
             PROVE  \E f \in [0..n -> S] : Unfolds(f, n, s, G)
  OBVIOUS
<1> DEFINE Upto(k) == \E f \in [0..k -> S] : Unfolds(f, k, s, G)
           P == {k \in 0..n : Upto(k)}
<1>1. 0 \in P
  <2> DEFINE f == [i \in 0..0 |-> s]
  <2>1. f \in [0..0 -> S] /\ f[0] = s /\ 0 \in 0..n
    OBVIOUS
  <2>2. \A i \in 1..0 : f[i] = G[i][f[i - 1]]
    OBVIOUS
  <2>3. Upto(0)
    <3> HIDE DEF f
    <3> QED BY <2>1, <2>2 DEF Unfolds
  <2> QED BY <2>1, <2>3
<1>2. ASSUME NEW k \in 1..n, k - 1 \in P PROVE k \in P
  <2>1. k - 1 \in Nat /\ k \in 0..n
    OBVIOUS
  <2>2. PICK f \in [0..(k - 1) -> S] : Unfolds(f, k - 1, s, G)
    BY <1>2
  <2> DEFINE g == [i \in 0..k |-> IF i = k THEN G[k][f[k - 1]] ELSE f[i]]
  <2>3. g \in [0..k -> S]
    <3>1. k - 1 \in 0..(k - 1) /\ f[k - 1] \in S /\ G[k] \in [S -> S]
      BY <2>1, <2>2
    <3>2. G[k][f[k - 1]] \in S
      BY <3>1
    <3>3. \A i \in 0..k : i # k => i \in 0..(k - 1)
      BY <2>1
    <3> QED BY <2>2, <3>2, <3>3
  <2>4. g[0] = s
    BY <2>1, <2>2 DEF Unfolds
  <2>5. ASSUME NEW i \in 1..k PROVE g[i] = G[i][g[i - 1]]
    <3>1. i - 1 \in 0..k /\ i - 1 # k /\ i \in 0..k
      BY <2>1
    <3>2. g[i - 1] = f[i - 1]
      BY <3>1
    <3>3. CASE i = k
      BY <3>1, <3>2, <3>3
    <3>4. CASE i # k
      <4>1. i \in 1..(k - 1)
        BY <2>1, <3>4
      <4> QED BY <2>2, <3>1, <3>2, <3>4, <4>1 DEF Unfolds
    <3> QED BY <3>3, <3>4
  <2>6. Upto(k)
    <3> HIDE DEF g
    <3> QED BY <2>3, <2>4, <2>5 DEF Unfolds
  <2> QED BY <2>1, <2>6
<1>3. \A i \in 0..n : i \in P
  <2> HIDE DEF P
  <2> QED BY <1>1, <1>2, UpToAll
<1> QED BY <1>3

-----------------------------------------------------------------------------
(* The frames of a socket (Relay.tla)                                       *)

\* What Those picks, one item after the other.
Picks(f, items, set) ==
    /\ f[0] = <<>> /\ Those(items, set) = f[Len(items)]
    /\ \A i \in 1..Len(items) :
          /\ items[i] \in set => f[i] = Append(f[i - 1], items[i])
          /\ items[i] \notin set => f[i] = f[i - 1]

LEMMA ThoseBy ==
  \A T, set : \A items \in Seq(T) :
     \E f : (\A i \in 0..Len(items) : f[i] \in Seq(T \cap set)) /\ Picks(f, items, set)
<1> SUFFICES ASSUME NEW T, NEW set, NEW items \in Seq(T)
             PROVE  \E f : /\ \A i \in 0..Len(items) : f[i] \in Seq(T \cap set)
                           /\ Picks(f, items, set)
  OBVIOUS
<1> DEFINE n == Len(items)
           Q == Seq(T \cap set)
           next(i, q) == IF i = 0 THEN <<>> ELSE IF items[i] \in set THEN Append(q, items[i]) ELSE q
           G == [i \in 1..n |-> [q \in Q |-> next(i, q)]]
           Body(f) == [i \in 0..n |-> next(i, f[i - 1])]
           h == CHOOSE f : f = Body(f)
<1>1. n \in Nat /\ <<>> \in Q
  OBVIOUS
<1>2. /\ 0 \in 0..n /\ n \in 0..n /\ \A i \in 0..n : i = 0 \/ i \in 1..n
      /\ \A i \in 1..n : i - 1 \in 0..n /\ i \in 0..n /\ i # 0
  BY <1>1
<1>3. \A i \in 1..n, q \in Q : next(i, q) \in Q
  <2> SUFFICES ASSUME NEW i \in 1..n, NEW q \in Q PROVE next(i, q) \in Q
    OBVIOUS
  <2>1. items[i] \in T
    OBVIOUS
  <2> QED BY <1>1, <2>1
<1>4. G \in [1..n -> [Q -> Q]]
  <2> HIDE DEF next, n, Q
  <2> QED BY <1>3
<1> DEFINE none == <<>>
<1>5. none \in Q
  BY <1>1
<1> HIDE DEF none
<1>6. PICK f : f \in [0..n -> Q] /\ Unfolds(f, n, none, G)
  <2> HIDE DEF n, Q, G
  <2> QED BY <1>1, <1>4, <1>5, StepByStep
<1>7. \A i \in 0..n : f[i] \in Q
  <2> HIDE DEF n, Q, G
  <2> QED BY ONLY <1>6, Zenon
<1>8. f[0] = none /\ \A i \in 1..n : f[i] = G[i][f[i - 1]]
  <2> HIDE DEF n, Q, G
  <2> QED BY ONLY <1>6, Zenon DEF Unfolds
<1>9. \A i \in 1..n : f[i] = next(i, f[i - 1])
  <2> SUFFICES ASSUME NEW i \in 1..n PROVE f[i] = next(i, f[i - 1])
    OBVIOUS
  <2>1. f[i - 1] \in Q
    BY <1>2, <1>7
  <2>2. f[i] = G[i][f[i - 1]]
    BY <1>8
  <2> HIDE DEF next, n, Q
  <2> QED BY <2>1, <2>2
<1>10. \A i \in 0..n : f[i] = next(i, f[i - 1])
  <2>1. \A q : next(0, q) = none
    BY DEF none
  <2> HIDE DEF next, n
  <2> QED BY <1>2, <1>8, <1>9, <2>1
<1>11. f = Body(f)
  <2> HIDE DEF next, n, Q, G
  <2>1. f = [i \in 0..n |-> f[i]]
    BY ONLY <1>6, Zenon
  <2> QED BY ONLY <2>1, <1>10, Zenon
<1>12. h = Body(h)
  <2> HIDE DEF Body
  <2> QED BY ONLY <1>11, Zenon
<1>13. Those(items, set) = h[n]
  BY ONLY Zenon DEF Those
<1>14. \A i \in 0..n : h[i] = next(i, h[i - 1])
  <2> HIDE DEF h, next, n
  <2> QED BY ONLY <1>12, Zenon
<1> HIDE DEF h
<1>15. \A i \in 0..n : h[i] = f[i]
  <2> DEFINE P == {i \in 0..n : h[i] = f[i]}
  <2>1. 0 \in P
    BY <1>2, <1>8, <1>14 DEF none
  <2>2. ASSUME NEW i \in 1..n, i - 1 \in P PROVE i \in P
    BY <1>2, <1>9, <1>14, <2>2
  <2>3. \A i \in 0..n : i \in P
    <3> HIDE DEF P
    <3> QED BY <1>1, <2>1, <2>2, UpToAll
  <2> QED BY <2>3
<1>16. Picks(f, items, set)
  BY <1>2, <1>8, <1>9, <1>13, <1>15 DEF Picks, none
<1> QED BY <1>7, <1>16

LEMMA ThosePicked == \A T, set : \A s \in Seq(T) : Those(s, set) \in Seq(T \cap set)
<1> SUFFICES ASSUME NEW T, NEW set, NEW s \in Seq(T) PROVE Those(s, set) \in Seq(T \cap set)
  OBVIOUS
<1>1. PICK f : (\A i \in 0..Len(s) : f[i] \in Seq(T \cap set)) /\ Picks(f, s, set)
  BY ThoseBy
<1>2. Len(s) \in 0..Len(s)
  OBVIOUS
<1> QED BY <1>1, <1>2 DEF Picks

\* Items can be added one by one.
LEMMA AppendedLast ==
  \A T : \A s, t \in Seq(T) : \A e \in T :
     /\ s \o t \in Seq(T) /\ s \o Append(t, e) = Append(s \o t, e)
     /\ Append(s, e) = s \o <<e>> /\ s \o <<>> = s /\ <<>> \o s = s
<1> SUFFICES ASSUME NEW T, NEW s \in Seq(T), NEW t \in Seq(T), NEW e \in T
             PROVE  /\ s \o t \in Seq(T) /\ s \o Append(t, e) = Append(s \o t, e)
                    /\ Append(s, e) = s \o <<e>> /\ s \o <<>> = s /\ <<>> \o s = s
  OBVIOUS
<1>1. <<e>> \in Seq(T) /\ s \o t \in Seq(T)
  OBVIOUS
<1>2. Append(t, e) = t \o <<e>> /\ Append(s \o t, e) = (s \o t) \o <<e>> /\ Append(s, e) = s \o <<e>>
  BY <1>1, AppendIsConcat
<1>3. (s \o t) \o <<e>> = s \o (t \o <<e>>)
  BY <1>1, ConcatAssociative
<1>4. s \o <<>> = s /\ <<>> \o s = s
  BY ConcatEmptySeq
<1> QED BY <1>1, <1>2, <1>3, <1>4

\* And of two sequences, one after the other.
LEMMA ThoseConcat ==
  \A T, set : \A s, t \in Seq(T) : Those(s \o t, set) = Those(s, set) \o Those(t, set)
<1> SUFFICES ASSUME NEW T, NEW set, NEW s \in Seq(T), NEW t \in Seq(T)
             PROVE  Those(s \o t, set) = Those(s, set) \o Those(t, set)
  OBVIOUS
<1> DEFINE Q == Seq(T \cap set)
           u == s \o t
           m == Len(s)
           n == Len(t)
<1>1. PICK f : (\A i \in 0..Len(s) : f[i] \in Q) /\ Picks(f, s, set)
  BY ThoseBy
<1>2. PICK g : (\A i \in 0..Len(t) : g[i] \in Q) /\ Picks(g, t, set)
  BY ThoseBy
<1>3. u \in Seq(T) /\ Len(u) = m + n /\ m \in Nat /\ n \in Nat
      /\ (\A i \in 1..m : u[i] = s[i]) /\ (\A i \in 1..n : u[m + i] = t[i])
  OBVIOUS
<1> HIDE DEF u
<1>4. PICK h : (\A i \in 0..Len(u) : h[i] \in Q) /\ Picks(h, u, set)
  BY <1>3, ThoseBy
<1>5. \A i \in 0..m : h[i] = f[i]
  <2> DEFINE P == {i \in 0..m : h[i] = f[i]}
  <2>1. 0 \in P
    BY <1>1, <1>3, <1>4 DEF Picks
  <2>2. ASSUME NEW i \in 1..m, i - 1 \in P PROVE i \in P
    <3>1. i \in 1..Len(u) /\ u[i] = s[i] /\ i \in 0..m
      BY <1>3
    <3> QED BY <1>1, <1>4, <2>2, <3>1 DEF Picks
  <2>3. \A i \in 0..m : i \in P
    <3> HIDE DEF P
    <3> QED BY <1>3, <2>1, <2>2, UpToAll
  <2> QED BY <2>3
<1>6. f[m] \in Q /\ m \in 0..m /\ n \in 0..n
  <2>1. m \in 0..m /\ n \in 0..n
    BY <1>3
  <2> QED BY <1>1, <2>1
<1>7. \A i \in 0..n : h[m + i] = f[m] \o g[i]
  <2> DEFINE P == {i \in 0..n : h[m + i] = f[m] \o g[i]}
  <2>1. 0 \in P
    <3>1. h[m] = f[m] /\ f[m] \o <<>> = f[m] /\ g[0] = <<>> /\ m + 0 = m /\ 0 \in 0..n
      BY <1>2, <1>3, <1>5, <1>6, AppendedLast, ConcatEmptySeq DEF Picks
    <3> QED BY <3>1
  <2>2. ASSUME NEW i \in 1..n, i - 1 \in P PROVE i \in P
    <3>1. m + i \in 1..Len(u) /\ u[m + i] = t[i] /\ (m + i) - 1 = m + (i - 1)
          /\ i - 1 \in 0..n /\ i \in 0..n
      BY <1>3
    <3>2. h[m + (i - 1)] = f[m] \o g[i - 1] /\ g[i - 1] \in Q
      BY <1>2, <2>2, <3>1
    <3>5. CASE t[i] \notin set
      <4>1. h[m + i] = h[m + (i - 1)] /\ g[i] = g[i - 1]
        BY <1>2, <1>4, <3>1, <3>5 DEF Picks
      <4> QED BY <3>1, <3>2, <4>1
    <3>6. CASE t[i] \in set
      <4>1. t[i] \in T \cap set
        BY <3>6
      <4>2. Append(f[m] \o g[i - 1], t[i]) = f[m] \o Append(g[i - 1], t[i])
        <5> DEFINE x == f[m]
                   y == g[i - 1]
                   z == t[i]
                   B == T \cap set
        <5>1. x \in Seq(B) /\ y \in Seq(B) /\ z \in B
          BY <1>6, <3>2, <4>1
        <5>2. x \o Append(y, z) = Append(x \o y, z)
          <6> HIDE DEF x, y, z, B
          <6> QED BY <5>1, AppendedLast
        <5> QED BY <5>2
      <4>3. h[m + i] = Append(h[m + (i - 1)], t[i]) /\ g[i] = Append(g[i - 1], t[i])
        BY <1>2, <1>4, <3>1, <3>6 DEF Picks
      <4> QED BY <3>1, <3>2, <4>2, <4>3
    <3> QED BY <3>5, <3>6
  <2>3. \A i \in 0..n : i \in P
    <3> HIDE DEF P
    <3> QED BY <1>3, <2>1, <2>2, UpToAll
  <2> QED BY <2>3
<1>8. Those(s, set) = f[m] /\ Those(t, set) = g[n] /\ Those(u, set) = h[m + n]
  BY <1>1, <1>2, <1>3, <1>4 DEF Picks
<1> QED BY <1>6, <1>7, <1>8 DEF u

\* Of none, none are picked.
LEMMA ThoseOfNone == \A set : Those(<<>>, set) = <<>>
<1> SUFFICES ASSUME NEW set PROVE Those(<<>>, set) = <<>>
  OBVIOUS
<1>1. <<>> \in Seq({}) /\ Len(<<>>) = 0
  OBVIOUS
<1>2. PICK f : Picks(f, <<>>, set)
  BY <1>1, ThoseBy
<1> QED BY <1>1, <1>2 DEF Picks

\* One more item at the end, or one less at the beginning.
LEMMA ThoseOfOne ==
  \A T, set : \A items \in Seq(T), e \in T :
     /\ Those(<<>>, set) = <<>>
     /\ e \in set => Those(<<e>>, set) = <<e>>
     /\ e \notin set => Those(<<e>>, set) = <<>>
     /\ Those(Append(items, e), set) = Those(items, set) \o Those(<<e>>, set)
     /\ items # <<>> =>
           Those(items, set) = Those(<<Head(items)>>, set) \o Those(Tail(items), set)
<1> SUFFICES ASSUME NEW T, NEW set, NEW items \in Seq(T), NEW e \in T
             PROVE  /\ Those(<<>>, set) = <<>>
                    /\ e \in set => Those(<<e>>, set) = <<e>>
                    /\ e \notin set => Those(<<e>>, set) = <<>>
                    /\ Those(Append(items, e), set) = Those(items, set) \o Those(<<e>>, set)
                    /\ items # <<>> =>
                          Those(items, set) =
                             Those(<<Head(items)>>, set) \o Those(Tail(items), set)
  OBVIOUS
<1>1. Those(<<>>, set) = <<>>
  BY ThoseOfNone
<1>2. /\ e \in set => Those(<<e>>, set) = <<e>>
      /\ e \notin set => Those(<<e>>, set) = <<>>
  <2>1. <<e>> \in Seq(T) /\ Len(<<e>>) = 1 /\ <<e>>[1] = e
    OBVIOUS
  <2>2. PICK f : Picks(f, <<e>>, set)
    BY <2>1, ThoseBy
  <2>3. /\ f[0] = <<>> /\ Those(<<e>>, set) = f[1]
        /\ e \in set => f[1] = Append(f[0], e)
        /\ e \notin set => f[1] = f[0]
    BY <2>1, <2>2 DEF Picks
  <2>4. Append(<<>>, e) = <<e>>
    OBVIOUS
  <2> QED BY <2>3, <2>4
<1>3. Append(items, e) = items \o <<e>> /\ <<e>> \in Seq(T)
  BY AppendIsConcat
<1>4. items # <<>> => items = <<Head(items)>> \o Tail(items) /\ Tail(items) \in Seq(T)
                      /\ <<Head(items)>> \in Seq(T)
  OBVIOUS
<1>5. \A s, t \in Seq(T) : Those(s \o t, set) = Those(s, set) \o Those(t, set)
  BY ThoseConcat
<1> QED BY <1>1, <1>2, <1>3, <1>4, <1>5

\* Sequences put together and grouped otherwise, and the items they have.
LEMMA Regrouped ==
  \A T : \A s, t, u \in Seq(T) :
     s \o t \in Seq(T) /\ (s \o t) \o u = s \o (t \o u)
<1> SUFFICES ASSUME NEW T, NEW s \in Seq(T), NEW t \in Seq(T), NEW u \in Seq(T)
             PROVE  s \o t \in Seq(T) /\ (s \o t) \o u = s \o (t \o u)
  OBVIOUS
<1> QED BY ConcatAssociative

\* What a mapping makes of a sequence, it makes of its parts.
Mapped(s, F) == [i \in DOMAIN s |-> F[s[i]]]

LEMMA MapsTypes ==
  \A T, U : \A F \in [T -> U] : \A s \in Seq(T) : Mapped(s, F) \in Seq(U)
<1> SUFFICES ASSUME NEW T, NEW U, NEW F \in [T -> U], NEW s \in Seq(T)
             PROVE  Mapped(s, F) \in Seq(U)
  OBVIOUS
<1>1. DOMAIN s = 1..Len(s) /\ Len(s) \in Nat /\ \A i \in 1..Len(s) : s[i] \in T
  OBVIOUS
<1>2. \A i \in 1..Len(s) : F[s[i]] \in U
  BY <1>1
<1> QED BY <1>1, <1>2 DEF Mapped

LEMMA MapsParts ==
  \A T, U : \A F \in [T -> U] : \A s, t \in Seq(T) :
     Mapped(s \o t, F) = Mapped(s, F) \o Mapped(t, F)
<1> SUFFICES ASSUME NEW T, NEW U, NEW F \in [T -> U], NEW s \in Seq(T), NEW t \in Seq(T)
             PROVE  Mapped(s \o t, F) = Mapped(s, F) \o Mapped(t, F)
  OBVIOUS
<1>1. ASSUME NEW q \in Seq(T)
      PROVE  /\ Mapped(q, F) \in Seq(U) /\ Len(Mapped(q, F)) = Len(q)
             /\ \A i \in 1..Len(q) : Mapped(q, F)[i] = F[q[i]]
  <2>1. DOMAIN q = 1..Len(q) /\ Len(q) \in Nat /\ \A i \in 1..Len(q) : q[i] \in T
    OBVIOUS
  <2>2. \A i \in 1..Len(q) : F[q[i]] \in U
    BY <2>1
  <2> QED BY <2>1, <2>2 DEF Mapped
<1> DEFINE u == s \o t
           a == Mapped(s, F)
           b == Mapped(t, F)
           l == Mapped(u, F)
<1>2. /\ u \in Seq(T) /\ Len(u) = Len(s) + Len(t) /\ Len(s) \in Nat /\ Len(t) \in Nat
      /\ \A i \in 1..(Len(s) + Len(t)) : u[i] = IF i <= Len(s) THEN s[i] ELSE t[i - Len(s)]
  OBVIOUS
<1>3. /\ a \in Seq(U) /\ b \in Seq(U) /\ l \in Seq(U) /\ Len(a) = Len(s) /\ Len(b) = Len(t)
      /\ Len(l) = Len(u)
  <2> HIDE DEF u
  <2> QED BY <1>1, <1>2
<1>4. /\ \A i \in 1..Len(s) : a[i] = F[s[i]]
      /\ \A i \in 1..Len(t) : b[i] = F[t[i]]
      /\ \A i \in 1..Len(u) : l[i] = F[u[i]]
  <2> HIDE DEF u
  <2> QED BY <1>1, <1>2
<1>5. l = a \o b
  <2> HIDE DEF u, a, b, l
  <2>1. /\ a \o b \in Seq(U) /\ Len(a \o b) = Len(a) + Len(b)
        /\ \A i \in 1..(Len(a) + Len(b)) : (a \o b)[i] = IF i <= Len(a) THEN a[i] ELSE b[i - Len(a)]
    BY <1>3, ConcatProperties
  <2>2. ASSUME NEW i \in 1..(Len(s) + Len(t)) PROVE l[i] = (a \o b)[i]
    <3>1. CASE i <= Len(s)
      <4>1. i \in 1..Len(s)
        BY <1>2, <3>1
      <4> QED BY <1>2, <1>3, <1>4, <2>1, <3>1, <4>1
    <3>2. CASE ~(i <= Len(s))
      <4>1. i - Len(s) \in 1..Len(t) /\ i \in 1..(Len(a) + Len(b)) /\ i \in 1..Len(u)
        BY <1>2, <1>3, <3>2
      <4>2. (a \o b)[i] = b[i - Len(s)] /\ u[i] = t[i - Len(s)]
        BY <1>2, <1>3, <2>1, <3>2, <4>1
      <4> QED BY <1>4, <4>1, <4>2
    <3> QED BY <3>1, <3>2
  <2>3. Len(l) = Len(a \o b) /\ Len(l) = Len(s) + Len(t)
    BY <1>2, <1>3, <2>1
  <2>4. \A i \in 1..Len(l) : l[i] = (a \o b)[i]
    BY <2>2, <2>3
  <2> QED BY <1>3, <2>1, <2>3, <2>4, SeqEqual
<1> QED BY <1>3, <1>5 DEF u, a, b, l

-----------------------------------------------------------------------------
LEMMA MapsOne == \A F, e : Mapped(<<>>, F) = <<>> /\ Mapped(<<e>>, F) = <<F[e]>>
  BY DEF Mapped

\* The events that some frames tell a channel of, and that wait in an inbox.
Got(those, c) == EventsOf(Told(those, c))
Waits(es) ==
    LET w == Those(es, {e \in Envelope : ~e.except}) IN [i \in DOMAIN w |-> w[i].event]

\* They come with their frames and envelopes.
LEMMA GotParts ==
  \A c \in Topics : \A s, t \in Seq(Frame) : \A f \in Frame :
     /\ Got(s, c) \in Seq(Events) /\ Got(s \o t, c) = Got(s, c) \o Got(t, c) /\ Got(<<>>, c) = <<>>
     /\ f[1] = c /\ f[2] # Dropped => Got(<<f>>, c) = <<f[2]>>
     /\ ~(f[1] = c /\ f[2] # Dropped) => Got(<<f>>, c) = <<>>
<1> SUFFICES ASSUME NEW c \in Topics, NEW s \in Seq(Frame), NEW t \in Seq(Frame), NEW f \in Frame
             PROVE  /\ Got(s, c) \in Seq(Events) /\ Got(s \o t, c) = Got(s, c) \o Got(t, c)
                    /\ Got(<<>>, c) = <<>>
                    /\ f[1] = c /\ f[2] # Dropped => Got(<<f>>, c) = <<f[2]>>
                    /\ ~(f[1] = c /\ f[2] # Dropped) => Got(<<f>>, c) = <<>>
  OBVIOUS
<1> DEFINE A == {c} \X Events
           B == Frame \cap A
           F == [g \in B |-> g[2]]
<1>1. F \in [B -> Events]
  <2>1. \A g \in B : g[2] \in Events
    OBVIOUS
  <2> QED BY <2>1
<1>2. ASSUME NEW q \in Seq(Frame)
      PROVE  Those(q, A) \in Seq(B) /\ Got(q, c) = Mapped(Those(q, A), F)
  <2>1. Those(q, A) \in Seq(B)
    BY ThosePicked, <1>2
  <2>2. \A i \in DOMAIN Those(q, A) : Those(q, A)[i] \in B
    BY <2>1
  <2> QED BY <2>1, <2>2 DEF Got, EventsOf, Told, Mapped
<1>3. /\ s \in Seq(Frame) /\ t \in Seq(Frame) /\ f \in Frame
      /\ s \o t \in Seq(Frame) /\ <<>> \in Seq(Frame) /\ <<f>> \in Seq(Frame)
  OBVIOUS
<1>4. /\ Those(s \o t, A) = Those(s, A) \o Those(t, A) /\ Those(<<>>, A) = <<>>
      /\ f \in A => Those(<<f>>, A) = <<f>>
      /\ f \notin A => Those(<<f>>, A) = <<>>
  <2> HIDE DEF A
  <2>1. Those(s \o t, A) = Those(s, A) \o Those(t, A)
    BY ONLY <1>3, ThoseConcat
  <2> QED BY ONLY <1>3, <2>1, ThoseOfOne
<1>5. f \in A <=> f[1] = c /\ f[2] # Dropped
  BY DEF Frame, Events, Dropped
<1>6. f \in A => f \in B /\ F[f] = f[2]
  OBVIOUS
<1>10. \A p, q \in Seq(B) : Mapped(p \o q, F) = Mapped(p, F) \o Mapped(q, F)
  <2> HIDE DEF B, F
  <2> QED BY ONLY <1>1, MapsParts
<1>7. \A p \in Seq(B) : Mapped(p, F) \in Seq(Events)
  <2> HIDE DEF B, F
  <2> QED BY ONLY <1>1, MapsTypes
<1>8. Mapped(<<>>, F) = <<>> /\ Mapped(<<f>>, F) = <<F[f]>>
  <2> HIDE DEF F
  <2> QED BY MapsOne
<1> HIDE DEF A, B, F
<1>9. Got(s, c) \in Seq(Events) /\ Got(s \o t, c) = Got(s, c) \o Got(t, c) /\ Got(<<>>, c) = <<>>
  BY <1>2, <1>3, <1>4, <1>10, <1>7, <1>8
<1> QED BY <1>2, <1>3, <1>4, <1>5, <1>6, <1>8, <1>9

LEMMA WaitsParts ==
  \A s, t \in Seq(Envelope) :
     Waits(s) \in Seq(Events) /\ Waits(s \o t) = Waits(s) \o Waits(t)
<1> SUFFICES ASSUME NEW s \in Seq(Envelope), NEW t \in Seq(Envelope)
             PROVE  Waits(s) \in Seq(Events) /\ Waits(s \o t) = Waits(s) \o Waits(t)
  OBVIOUS
<1> DEFINE A == {x \in Envelope : ~x.except}
           B == Envelope \cap A
           F == [g \in B |-> g.event]
<1>1. F \in [B -> Events]
  <2>1. \A g \in B : g.event \in Events
    BY DEF Envelope
  <2> QED BY <2>1
<1>2. ASSUME NEW q \in Seq(Envelope)
      PROVE  Those(q, A) \in Seq(B) /\ Waits(q) = Mapped(Those(q, A), F)
  <2>1. Those(q, A) \in Seq(B)
    <3> HIDE DEF A
    <3> QED BY ThosePicked, <1>2
  <2>2. \A i \in DOMAIN Those(q, A) : Those(q, A)[i] \in B
    BY <2>1
  <2> QED BY <2>1, <2>2 DEF Waits, Mapped
<1>3. s \in Seq(Envelope) /\ t \in Seq(Envelope) /\ s \o t \in Seq(Envelope)
  OBVIOUS
<1>4. Those(s \o t, A) = Those(s, A) \o Those(t, A)
  <2> HIDE DEF A
  <2> QED BY ONLY <1>3, ThoseConcat
<1>5. \A p, q \in Seq(B) : Mapped(p \o q, F) = Mapped(p, F) \o Mapped(q, F)
  <2> HIDE DEF B, F
  <2> QED BY ONLY <1>1, MapsParts
<1>6. \A p \in Seq(B) : Mapped(p, F) \in Seq(Events)
  <2> HIDE DEF B, F
  <2> QED BY ONLY <1>1, MapsTypes
<1> HIDE DEF A, B, F
<1> QED BY <1>2, <1>3, <1>4, <1>5, <1>6

LEMMA WaitsTypes == \A s \in Seq(Envelope) : Waits(s) \in Seq(Events)
  BY WaitsParts

LEMMA WaitsConcat == \A s, t \in Seq(Envelope) : Waits(s \o t) = Waits(s) \o Waits(t)
  BY WaitsParts

LEMMA WaitsOne ==
  /\ Waits(<<>>) = <<>>
  /\ \A e \in Envelope : /\ ~e.except => Waits(<<e>>) = <<e.event>>
                         /\ e.except => Waits(<<e>>) = <<>>
<1> DEFINE A == {x \in Envelope : ~x.except}
           M(w) == [i \in DOMAIN w |-> w[i].event]
<1>1. M(<<>>) = <<>> /\ \A e : M(<<e>>) = <<e.event>>
  OBVIOUS
<1>2. Waits(<<>>) = M(Those(<<>>, A)) /\ \A e : Waits(<<e>>) = M(Those(<<e>>, A))
  BY DEF Waits
<1>3. Those(<<>>, A) = <<>>
  <2> HIDE DEF A
  <2> QED BY ThoseOfNone
<1>4. ASSUME NEW e \in Envelope
      PROVE  /\ ~e.except => Those(<<e>>, A) = <<e>>
             /\ e.except => Those(<<e>>, A) = <<>>
  <2>1. e \in A <=> ~e.except
    OBVIOUS
  <2>2. (e \in A => Those(<<e>>, A) = <<e>>) /\ (e \notin A => Those(<<e>>, A) = <<>>)
    <3> HIDE DEF A
    <3>1. <<>> \in Seq(Envelope)
      OBVIOUS
    <3> QED BY <3>1, ThoseOfOne
  <2> QED BY <2>1, <2>2
<1> HIDE DEF A, M
<1> QED BY <1>1, <1>2, <1>3, <1>4

LEMMA GotTypes == \A c \in Topics : \A s \in Seq(Frame) : Got(s, c) \in Seq(Events)
<1> SUFFICES ASSUME NEW c \in Topics, NEW s \in Seq(Frame) PROVE Got(s, c) \in Seq(Events)
  OBVIOUS
<1>1. <<c, Dropped>> \in Frame
  BY DEF Frame
<1> QED BY <1>1, GotParts

LEMMA GotConcat ==
  \A c \in Topics : \A s, t \in Seq(Frame) : Got(s \o t, c) = Got(s, c) \o Got(t, c)
<1> SUFFICES ASSUME NEW c \in Topics, NEW s \in Seq(Frame), NEW t \in Seq(Frame)
             PROVE  Got(s \o t, c) = Got(s, c) \o Got(t, c)
  OBVIOUS
<1>1. <<c, Dropped>> \in Frame
  BY DEF Frame
<1> QED BY <1>1, GotParts

LEMMA GotOne ==
  \A c \in Topics : \A f \in Frame :
     /\ f[1] = c /\ f[2] # Dropped => Got(<<f>>, c) = <<f[2]>>
     /\ ~(f[1] = c /\ f[2] # Dropped) => Got(<<f>>, c) = <<>>
<1> SUFFICES ASSUME NEW c \in Topics, NEW f \in Frame
             PROVE  /\ f[1] = c /\ f[2] # Dropped => Got(<<f>>, c) = <<f[2]>>
                    /\ ~(f[1] = c /\ f[2] # Dropped) => Got(<<f>>, c) = <<>>
  OBVIOUS
<1>1. <<>> \in Seq(Frame)
  OBVIOUS
<1> QED BY <1>1, GotParts

-----------------------------------------------------------------------------
\* Where the tasks of an open socket are, and what the browser of a failed one is told.
TasksOpen ==
    /\ socket = "open" => \A c \in Topics :
          /\ listener[c] \in {"none", "starting", "listening", "failed"}
          /\ listener[c] \in {"none", "starting"} => inbox[c] = <<>>
          /\ listener[c] = "failed" => <<c, Dropped>> \in Range(received \o outbox)
    /\ socket \in {"closing", "closed"} =>
          /\ writer # "running"
          /\ \A c \in Topics : listener[c] \notin {"starting", "listening"}

\* What is owed to the browser: what it got, and what follows. While its socket is open that is
\* what comes in frames, and then what waits for the task, if it did not fail.
Follows(c, rest) == Got(received, c) \o rest = owed[c]
ComesAfter(c, rest) ==
    /\ (Got(received, c) \o Got(outbox, c)) \o rest = owed[c]
    /\ listener[c] # "failed" => rest = Waits(inbox[c])
ComesInOrder ==
    \A c \in Topics :
        /\ \E rest \in Seq(Events) : Follows(c, rest)
        /\ socket = "open" => \E rest \in Seq(Events) : ComesAfter(c, rest)

RelayTypes ==
    RelayTypeOK /\ inbox \in [Topics -> Seq(Envelope)] /\ owed \in [Topics -> Seq(Events)]

RelayInv == RelayTypes /\ TasksOpen /\ ComesInOrder

LEMMA RelayBegins == RelayInit => RelayInv
<1> SUFFICES ASSUME RelayInit PROVE RelayInv
  OBVIOUS
<1>1. RelayTypes
  BY RelayAssumption DEF RelayInit, RelayTypes, RelayTypeOK
<1>2. TasksOpen
  BY DEF RelayInit, TasksOpen
<1>3. ASSUME NEW c \in Topics
      PROVE  /\ \E rest \in Seq(Events) : Follows(c, rest)
             /\ \E rest \in Seq(Events) : ComesAfter(c, rest)
  <2>1. Got(<<>>, c) = <<>> /\ Waits(<<>>) = <<>>
    <3>1. Those(<<>>, {c} \X Events) = <<>> /\ Those(<<>>, {e \in Envelope : ~e.except}) = <<>>
      BY ThoseOfNone
    <3>2. EventsOf(<<>>) = <<>>
      BY DEF EventsOf
    <3>3. Waits(<<>>) = [i \in DOMAIN <<>> |-> <<>>[i].event]
      BY <3>1 DEF Waits
    <3> QED BY <3>1, <3>2, <3>3 DEF Got, Told
  <2>2. <<>> \in Seq(Events) /\ <<>> \o <<>> = <<>>
    OBVIOUS
  <2>3. Follows(c, <<>>) /\ ComesAfter(c, <<>>)
    BY <1>3, <2>1, <2>2 DEF RelayInit, Follows, ComesAfter
  <2> QED BY <2>2, <2>3
<1>4. ComesInOrder
  BY <1>3 DEF ComesInOrder
<1> QED BY <1>1, <1>2, <1>4 DEF RelayInv

\* A frame is put last, the first is taken.
LEMMA LastAndFirst ==
  \A T : \A s \in Seq(T) :
     /\ \A e \in T : Append(s, e) \in Seq(T) /\ Append(s, e) = s \o <<e>> /\ <<e>> \in Seq(T)
     /\ s # <<>> => /\ Head(s) \in T /\ Tail(s) \in Seq(T)
                    /\ s = <<Head(s)>> \o Tail(s)
<1> SUFFICES ASSUME NEW T, NEW s \in Seq(T)
             PROVE  /\ \A e \in T : Append(s, e) \in Seq(T) /\ Append(s, e) = s \o <<e>> /\ <<e>> \in Seq(T)
                    /\ s # <<>> => /\ Head(s) \in T /\ Tail(s) \in Seq(T)
                                   /\ s = <<Head(s)>> \o Tail(s)
  OBVIOUS
<1>1. ASSUME NEW e \in T PROVE Append(s, e) \in Seq(T) /\ Append(s, e) = s \o <<e>> /\ <<e>> \in Seq(T)
  BY AppendIsConcat
<1>2. ASSUME s # <<>> PROVE Head(s) \in T /\ Tail(s) \in Seq(T) /\ s = <<Head(s)>> \o Tail(s)
  BY <1>2
<1> QED BY <1>1, <1>2

LEMMA RelayTyped == RelayTypes /\ RelayStep => RelayTypes'
<1> SUFFICES ASSUME RelayTypes, RelayStep PROVE RelayTypes'
  OBVIOUS
<1> USE RelayAssumption DEF RelayTypes, RelayTypeOK
<1>1. CASE Drain
  <2>1. Head(outbox) \in Frame /\ Tail(outbox) \in Seq(Frame)
    BY <1>1 DEF Drain
  <2>2. Append(received, Head(outbox)) \in Seq(Frame)
    BY <2>1
  <2> QED BY <1>1, <2>1, <2>2 DEF Drain
<1>2. CASE BrowserLeaves
  BY <1>2 DEF BrowserLeaves
<1>3. CASE CancelTasks
  BY <1>3 DEF CancelTasks
<1>4. CASE WriterEnds
  BY <1>4 DEF WriterEnds
<1>5. CASE Gathered
  BY <1>5 DEF Gathered
<1>6. ASSUME NEW channels \in SUBSET Topics, NEW except \in BOOLEAN, Publish(channels, except)
      PROVE  RelayTypes'
  <2>1. published + 1 \in Events /\ published' = published + 1 /\ published' \in 0..MaxPublished
    BY <1>6 DEF Publish, Events
  <2> DEFINE e == [event |-> published + 1, except |-> except]
             hears(c) == c \in channels /\ listener[c] = "listening"
  <2>2. e \in Envelope
    BY <2>1 DEF Envelope
  <2>3. /\ inbox' = [c \in Topics |-> IF hears(c) THEN Append(inbox[c], e) ELSE inbox[c]]
        /\ owed' = [c \in Topics |-> IF hears(c) /\ ~except
                                     THEN Append(owed[c], published + 1) ELSE owed[c]]
    BY <1>6, <2>1 DEF Publish
  <2>4. ASSUME NEW c \in Topics PROVE inbox'[c] \in Seq(Envelope) /\ owed'[c] \in Seq(Events)
    <3> HIDE DEF e, hears
    <3>1. Append(inbox[c], e) \in Seq(Envelope) /\ Append(owed[c], published + 1) \in Seq(Events)
      BY <2>1, <2>2
    <3> QED BY <2>3, <3>1
  <2> QED BY <1>6, <2>1, <2>4 DEF Publish
<1>7. ASSUME NEW c \in Topics, Listens(c) PROVE RelayTypes'
  BY <1>7 DEF Listens
<1>8. ASSUME NEW c \in Topics, RelayFails(c) PROVE RelayTypes'
  <2>1. <<c, Dropped>> \in Frame
    BY DEF Frame
  <2>2. Append(outbox, <<c, Dropped>>) \in Seq(Frame) /\ <<>> \in Seq(Envelope)
    BY <2>1
  <2> QED BY <1>8, <2>2 DEF RelayFails
<1>9. ASSUME NEW c \in Topics, RelayNext(c) PROVE RelayTypes'
  <2>1. inbox[c] \in Seq(Envelope) /\ inbox[c] # <<>>
    BY <1>9 DEF RelayNext
  <2>2. Head(inbox[c]) \in Envelope /\ Tail(inbox[c]) \in Seq(Envelope)
    BY <2>1
  <2>3. <<c, Head(inbox[c]).event>> \in Frame
    BY <2>2 DEF Frame, Envelope
  <2>4. Append(outbox, <<c, Head(inbox[c]).event>>) \in Seq(Frame)
    BY <2>3
  <2>5. outbox' \in Seq(Frame)
    BY <1>9, <2>4 DEF RelayNext
  <2>6. \A d \in Topics : inbox'[d] \in Seq(Envelope)
    BY <1>9, <2>2 DEF RelayNext
  <2> QED BY <1>9, <2>5, <2>6 DEF RelayNext
<1>10. ASSUME NEW c \in Topics, TaskEnds(c) PROVE RelayTypes'
  BY <1>10 DEF TaskEnds
<1>11. ASSUME NEW c \in Topics, NEW authorized \in BOOLEAN, SubscribeTo(c, authorized)
       PROVE  RelayTypes'
  <2>1. <<c, Dropped>> \in Frame
    BY DEF Frame
  <2>2. Append(outbox, <<c, Dropped>>) \in Seq(Frame)
    BY <2>1
  <2> QED BY <1>11, <2>2 DEF SubscribeTo
<1> QED BY <1>1, <1>2, <1>3, <1>4, <1>5, <1>6, <1>7, <1>8, <1>9, <1>10, <1>11 DEF RelayStep

\* What is in two sequences is in the one they make.
LEMMA RangeOfOne == \A e : Range(<<e>>) = {e}
<1> SUFFICES ASSUME NEW e PROVE Range(<<e>>) = {e}
  OBVIOUS
<1>1. DOMAIN <<e>> = {1} /\ <<e>>[1] = e
  OBVIOUS
<1> QED BY <1>1 DEF Range

LEMMA RangeOfBoth ==
  \A T : \A s, t \in Seq(T) : Range(s \o t) = Range(s) \cup Range(t)
<1> SUFFICES ASSUME NEW T, NEW s \in Seq(T), NEW t \in Seq(T)
             PROVE  Range(s \o t) = Range(s) \cup Range(t)
  OBVIOUS
<1> DEFINE u == s \o t
<1>1. /\ u \in Seq(T) /\ Len(u) = Len(s) + Len(t) /\ Len(s) \in Nat /\ Len(t) \in Nat
      /\ DOMAIN u = 1..Len(u) /\ DOMAIN s = 1..Len(s) /\ DOMAIN t = 1..Len(t)
      /\ (\A i \in 1..Len(s) : u[i] = s[i]) /\ (\A i \in 1..Len(t) : u[Len(s) + i] = t[i])
  OBVIOUS
<1> HIDE DEF u
<1>2. ASSUME NEW x \in Range(u) PROVE x \in Range(s) \cup Range(t)
  <2>1. PICK i \in 1..Len(u) : u[i] = x
    BY <1>1 DEF Range
  <2>2. CASE i \in 1..Len(s)
    BY <1>1, <2>1, <2>2 DEF Range
  <2>3. CASE i \notin 1..Len(s)
    <3>1. i - Len(s) \in 1..Len(t) /\ Len(s) + (i - Len(s)) = i
      BY <1>1, <2>3
    <3>2. t[i - Len(s)] = x
      BY <1>1, <2>1, <3>1
    <3> QED BY <1>1, <3>1, <3>2 DEF Range
  <2> QED BY <2>2, <2>3
<1>3. Range(s) \subseteq Range(u)
  <2>1. \A i \in 1..Len(s) : i \in 1..Len(u)
    BY <1>1
  <2> QED BY <1>1, <2>1 DEF Range
<1>4. Range(t) \subseteq Range(u)
  <2>1. \A i \in 1..Len(t) : Len(s) + i \in 1..Len(u)
    BY <1>1
  <2> QED BY <1>1, <2>1 DEF Range
<1> QED BY <1>2, <1>3, <1>4 DEF u

\* What a step of the relay does to the frames: one more is to be sent, or the first is sent
\* or gone, or all are gone with the socket.
LEMMA FramesMove ==
  RelayInv /\ [RelayStep]_relayVars =>
     \/ UNCHANGED <<received, outbox>>
     \/ socket' # "open" /\ UNCHANGED received
     \/ \E f \in Frame : outbox' = outbox \o <<f>> /\ UNCHANGED <<received, socket>>
     \/ \E f \in Frame : /\ outbox = <<f>> \o outbox' /\ received' = received \o <<f>>
                         /\ socket = "open" /\ UNCHANGED <<socket, listener, inbox, owed>>
<1> SUFFICES ASSUME RelayInv, [RelayStep]_relayVars
             PROVE  \/ UNCHANGED <<received, outbox>>
                    \/ socket' # "open" /\ UNCHANGED received
                    \/ \E f \in Frame : outbox' = outbox \o <<f>> /\ UNCHANGED <<received, socket>>
                    \/ \E f \in Frame : /\ outbox = <<f>> \o outbox' /\ received' = received \o <<f>>
                                        /\ socket = "open"
                                        /\ UNCHANGED <<socket, listener, inbox, owed>>
  OBVIOUS
<1>1. /\ outbox \in Seq(Frame) /\ received \in Seq(Frame)
      /\ \A c \in Topics : inbox[c] \in Seq(Envelope)
  BY DEF RelayInv, RelayTypes, RelayTypeOK
<1>2. /\ \A f \in Frame : Append(outbox, f) = outbox \o <<f>> /\ Append(received, f) = received \o <<f>>
      /\ outbox # <<>> => outbox = <<Head(outbox)>> \o Tail(outbox) /\ Head(outbox) \in Frame
  BY <1>1, LastAndFirst
<1>3. \A c \in Topics : <<c, Dropped>> \in Frame
  BY DEF Frame
<1>4. ASSUME Drain
      PROVE  \/ socket' # "open" /\ UNCHANGED received
             \/ \E f \in Frame : /\ outbox = <<f>> \o outbox' /\ received' = received \o <<f>>
                                 /\ socket = "open"
                                 /\ UNCHANGED <<socket, listener, inbox, owed>>
  BY <1>2, <1>4 DEF Drain
<1>5. CASE BrowserLeaves \/ CancelTasks \/ WriterEnds \/ Gathered
  BY <1>5 DEF BrowserLeaves, CancelTasks, WriterEnds, Gathered
<1>6. ASSUME NEW channels \in SUBSET Topics, NEW except \in BOOLEAN, Publish(channels, except)
      PROVE  UNCHANGED <<received, outbox>>
  BY <1>6 DEF Publish
<1>7. ASSUME NEW c \in Topics, Listens(c) \/ TaskEnds(c) PROVE UNCHANGED <<received, outbox>>
  BY <1>7 DEF Listens, TaskEnds
<1>8. ASSUME NEW c \in Topics, RelayFails(c)
      PROVE  \E f \in Frame : outbox' = outbox \o <<f>> /\ UNCHANGED <<received, socket>>
  BY <1>2, <1>3, <1>8 DEF RelayFails
<1>9. ASSUME NEW c \in Topics, RelayNext(c)
      PROVE  \/ UNCHANGED <<received, outbox>>
             \/ \E f \in Frame : outbox' = outbox \o <<f>> /\ UNCHANGED <<received, socket>>
  <2>1. Head(inbox[c]) \in Envelope
    BY <1>1, <1>9 DEF RelayNext
  <2>2. <<c, Head(inbox[c]).event>> \in Frame
    BY <2>1 DEF Frame, Envelope
  <2> QED BY <1>2, <1>9, <2>2 DEF RelayNext
<1>10. ASSUME NEW c \in Topics, NEW authorized \in BOOLEAN, SubscribeTo(c, authorized)
       PROVE  \/ UNCHANGED <<received, outbox>>
              \/ \E f \in Frame : outbox' = outbox \o <<f>> /\ UNCHANGED <<received, socket>>
  BY <1>2, <1>3, <1>10 DEF SubscribeTo
<1>11. CASE UNCHANGED relayVars
  BY <1>11 DEF relayVars
<1>12. CASE RelayStep
  BY <1>12, <1>4, <1>5, <1>6, <1>7, <1>8, <1>9, <1>10 DEF RelayStep
<1> QED BY <1>11, <1>12

\* So what the browser has been told, or will be, stays so.
LEMMA ToldStays ==
  RelayInv /\ [RelayStep]_relayVars /\ socket' = "open" =>
     Range(received \o outbox) \subseteq Range(received' \o outbox')
<1> SUFFICES ASSUME RelayInv, [RelayStep]_relayVars, socket' = "open"
             PROVE  Range(received \o outbox) \subseteq Range(received' \o outbox')
  OBVIOUS
<1>1. RelayTypes /\ RelayTypes'
  BY RelayTyped DEF RelayInv, relayVars, RelayTypes, RelayTypeOK
<1>2. /\ outbox \in Seq(Frame) /\ received \in Seq(Frame)
      /\ outbox' \in Seq(Frame) /\ received' \in Seq(Frame)
  BY <1>1 DEF RelayTypes, RelayTypeOK
<1>3. \A f \in Frame : <<f>> \in Seq(Frame)
  OBVIOUS
<1>4. ASSUME NEW f \in Frame, outbox' = outbox \o <<f>>, received' = received
      PROVE  Range(received \o outbox) \subseteq Range(received' \o outbox')
  <2>1. received \o (outbox \o <<f>>) = (received \o outbox) \o <<f>> /\ received \o outbox \in Seq(Frame)
    BY <1>2, <1>3, Regrouped
  <2>2. Range((received \o outbox) \o <<f>>) = Range(received \o outbox) \cup Range(<<f>>)
    <3> DEFINE a == received \o outbox
               b == <<f>>
    <3>1. a \in Seq(Frame) /\ b \in Seq(Frame)
      BY <1>3, <2>1
    <3>2. Range(a \o b) = Range(a) \cup Range(b)
      <4> HIDE DEF a, b
      <4> QED BY ONLY <3>1, RangeOfBoth
    <3> QED BY <3>2
  <2> QED BY <1>4, <2>1, <2>2
<1>5. ASSUME NEW f \in Frame, outbox = <<f>> \o outbox', received' = received \o <<f>>
      PROVE  received \o outbox = received' \o outbox'
  <2>1. (received \o <<f>>) \o outbox' = received \o (<<f>> \o outbox')
    BY <1>2, <1>3, Regrouped
  <2> QED BY <1>5, <2>1
<1> QED BY <1>4, <1>5, FramesMove

\* Where the tasks are.
LEMMA RelayTasks == RelayInv /\ [RelayStep]_relayVars => TasksOpen'
<1> SUFFICES ASSUME RelayInv, [RelayStep]_relayVars PROVE TasksOpen'
  OBVIOUS
<1>1. RelayTypes /\ TasksOpen
  BY DEF RelayInv
<1>2. socket' = "open" => Range(received \o outbox) \subseteq Range(received' \o outbox')
  BY ToldStays
<1> USE DEF TasksOpen, RelayTypes, RelayTypeOK
<1>4. CASE Drain
  BY <1>1, <1>2, <1>4 DEF Drain
<1>5. CASE BrowserLeaves \/ CancelTasks \/ WriterEnds \/ Gathered
  BY <1>1, <1>5 DEF BrowserLeaves, CancelTasks, WriterEnds, Gathered
<1>6. ASSUME NEW channels \in SUBSET Topics, NEW except \in BOOLEAN, Publish(channels, except)
      PROVE  TasksOpen'
  <2>1. \A c \in Topics : listener[c] \in {"none", "starting"} => inbox'[c] = inbox[c]
    BY <1>1, <1>6 DEF Publish
  <2>2. UNCHANGED <<socket, listener, outbox, writer, received>>
    BY <1>6 DEF Publish
  <2> QED BY <1>1, <2>1, <2>2
<1>7. ASSUME NEW c \in Topics, Listens(c) \/ TaskEnds(c) PROVE TasksOpen'
  BY <1>1, <1>7 DEF Listens, TaskEnds
<1>8. ASSUME NEW c \in Topics, RelayFails(c) PROVE TasksOpen'
  <2>1. <<c, Dropped>> \in Frame /\ outbox' = Append(outbox, <<c, Dropped>>)
    BY <1>8 DEF Frame, RelayFails
  <2> DEFINE f == <<c, Dropped>>
  <2>2. /\ received' = received /\ outbox' = outbox \o <<f>> /\ <<f>> \in Seq(Frame)
        /\ received \in Seq(Frame) /\ outbox \in Seq(Frame) /\ outbox \o <<f>> \in Seq(Frame)
    <3> HIDE DEF f
    <3>1. f \in Frame /\ outbox \in Seq(Frame) /\ received' = received /\ outbox' = Append(outbox, f)
      BY <1>1, <1>8, <2>1 DEF RelayFails, f
    <3>2. Append(outbox, f) = outbox \o <<f>> /\ Append(outbox, f) \in Seq(Frame) /\ <<f>> \in Seq(Frame)
      BY ONLY <3>1, LastAndFirst
    <3> QED BY <1>1, <3>1, <3>2
  <2> HIDE DEF f
  <2> DEFINE b == <<f>>
             o == outbox \o b
  <2>3. f \in Range(b)
    BY RangeOfOne
  <2>4. b \in Seq(Frame) /\ o \in Seq(Frame) /\ outbox \in Seq(Frame) /\ received \in Seq(Frame)
    BY <2>2
  <2>5. Range(o) = Range(outbox) \cup Range(b) /\ Range(received \o o) = Range(received) \cup Range(o)
    <3>1. Range(outbox \o b) = Range(outbox) \cup Range(b)
      <4> HIDE DEF b
      <4> QED BY ONLY <2>4, RangeOfBoth
    <3>2. Range(received \o o) = Range(received) \cup Range(o)
      <4> HIDE DEF o
      <4> QED BY ONLY <2>4, RangeOfBoth
    <3> QED BY <3>1, <3>2
  <2>6. f \in Range(received' \o outbox')
    BY <2>2, <2>3, <2>5
  <2> QED BY <1>1, <1>2, <1>8, <2>6 DEF RelayFails, f
<1>9. ASSUME NEW c \in Topics, RelayNext(c) PROVE TasksOpen'
  BY <1>1, <1>2, <1>9 DEF RelayNext
<1>10. ASSUME NEW c \in Topics, NEW authorized \in BOOLEAN, SubscribeTo(c, authorized)
       PROVE  TasksOpen'
  BY <1>1, <1>2, <1>10 DEF SubscribeTo
<1>11. CASE UNCHANGED relayVars
  BY <1>1, <1>11 DEF relayVars
<1>12. CASE RelayStep
  BY <1>12, <1>4, <1>5, <1>6, <1>7, <1>8, <1>9, <1>10 DEF RelayStep
<1> QED BY <1>11, <1>12

\* Items that go from what follows to the end of what came.
Joined(s, t) == s \o t

LEMMA JoinedOnce ==
  \A T : \A s, t, u \in Seq(T) :
     Joined(s, t) \in Seq(T) /\ Joined(Joined(s, t), u) = Joined(s, Joined(t, u))
  BY Regrouped DEF Joined

ShiftOf(u, o, y, q, x, s) ==
    q \o x = y \o s => (u \o (o \o y)) \o s = ((u \o o) \o q) \o x
MoveOf(u, f, o, r) ==
    (u \o (f \o o)) \o r = (u \o f) \o (o \o r) /\ (u \o (f \o o)) \o r = ((u \o f) \o o) \o r

LEMMA Shifted == \A T : \A u, o, y, q, x, s \in Seq(T) : ShiftOf(u, o, y, q, x, s)
<1>1. \A T : \A u, o, y, q, x, s \in Seq(T) :
         Joined(q, x) = Joined(y, s) =>
            Joined(Joined(u, Joined(o, y)), s) = Joined(Joined(Joined(u, o), q), x)
  <2> SUFFICES ASSUME NEW T, NEW u \in Seq(T), NEW o \in Seq(T), NEW y \in Seq(T),
                      NEW q \in Seq(T), NEW x \in Seq(T), NEW s \in Seq(T),
                      Joined(q, x) = Joined(y, s)
               PROVE  Joined(Joined(u, Joined(o, y)), s) = Joined(Joined(Joined(u, o), q), x)
    OBVIOUS
  <2>1. Joined(u, o) \in Seq(T) /\ Joined(u, Joined(o, y)) = Joined(Joined(u, o), y)
    BY JoinedOnce
  <2>2. /\ Joined(Joined(Joined(u, o), y), s) = Joined(Joined(u, o), Joined(y, s))
        /\ Joined(Joined(Joined(u, o), q), x) = Joined(Joined(u, o), Joined(q, x))
    BY <2>1, JoinedOnce
  <2> QED BY <2>1, <2>2
<1> QED BY <1>1 DEF Joined, ShiftOf

\* What is owed and what waits after a step, for one channel: an event that is published is
\* last in both, and the first that waits goes to the frames.
Shifts(c, q, y, x, s) ==
    /\ Got(outbox', c) = Got(outbox, c) \o y
    /\ owed'[c] = owed[c] \o x
    /\ q \o x = y \o s
    /\ listener'[c] # "failed" => s = Waits(inbox'[c])

LEMMA ShiftsNext ==
  ASSUME RelayInv, [RelayStep]_relayVars, RelayTypes', NEW c \in Topics,
         socket' = "open", received' = received,
         NEW q \in Seq(Events), listener[c] # "failed" => q = Waits(inbox[c])
  PROVE  \E y, x, s \in Seq(Events) : Shifts(c, q, y, x, s)
<1> DEFINE E == Seq(Events)
           O == Got(outbox, c)
           W == Waits(inbox[c])
           Y(a) == Got(<<a>>, c)
<1>1. /\ outbox \in Seq(Frame) /\ inbox[c] \in Seq(Envelope)
      /\ outbox' \in Seq(Frame) /\ inbox'[c] \in Seq(Envelope)
      /\ owed[c] \in E /\ owed'[c] \in E /\ listener \in [Topics -> {"none", "starting", "listening",
             "failed", "cancelling", "cancelled"}]
      /\ inbox \in [Topics -> Seq(Envelope)] /\ owed \in [Topics -> Seq(Events)]
  BY DEF RelayInv, RelayTypes, RelayTypeOK
<1>2. O \in E /\ W \in E
  <2>1. O \in E
    BY ONLY <1>1, GotTypes, c \in Topics
  <2>2. W \in E
    BY ONLY <1>1, WaitsTypes
  <2> QED BY <2>1, <2>2
<1>3. /\ <<>> \in E /\ O \o <<>> = O /\ owed[c] \o <<>> = owed[c] /\ q \o <<>> = q
      /\ \A s \in E : <<>> \o s = s /\ s \o <<>> = s
  <2>1. <<>> \in E
    OBVIOUS
  <2>2. \A s \in E : <<>> \o s = s /\ s \o <<>> = s
    BY ConcatEmptySeq
  <2> QED BY <1>1, <1>2, <2>1, <2>2
<1>4. ASSUME NEW f \in Frame, outbox' = Append(outbox, f)
      PROVE  Got(outbox', c) = O \o Y(f) /\ Y(f) \in E
  <2>1. Append(outbox, f) = outbox \o <<f>> /\ <<f>> \in Seq(Frame)
    BY <1>1, LastAndFirst
  <2>2. Got(outbox \o <<f>>, c) = Got(outbox, c) \o Got(<<f>>, c)
    BY <1>1, <2>1, GotConcat
  <2>3. Got(<<f>>, c) \in E
    BY <2>1, GotTypes
  <2> QED BY <1>4, <2>1, <2>2, <2>3
<1>5. ASSUME UNCHANGED <<outbox, owed>>, inbox'[c] = inbox[c], listener'[c] # "failed" => listener[c] # "failed"
      PROVE  Shifts(c, q, <<>>, <<>>, q)
  BY <1>3, <1>5 DEF Shifts
<1>6. ASSUME NEW f \in Frame, outbox' = Append(outbox, f), f[1] # c \/ f[2] = Dropped,
             owed' = owed, listener'[c] # "failed" => listener[c] # "failed" /\ inbox'[c] = inbox[c]
      PROVE  Shifts(c, q, <<>>, <<>>, q)
  <2>1. Y(f) = <<>>
    BY <1>6, GotOne
  <2> QED BY <1>3, <1>4, <1>6, <2>1 DEF Shifts
<1>7. ASSUME NEW channels \in SUBSET Topics, NEW except \in BOOLEAN, Publish(channels, except)
      PROVE  \E y, x, s \in E : Shifts(c, q, y, x, s)
  <2> DEFINE e == [event |-> published + 1, except |-> except]
             hears == c \in channels /\ listener[c] = "listening"
  <2>1. published + 1 \in Events /\ e \in Envelope
    <3>1. published \in Nat /\ published < MaxPublished
      BY <1>7, RelayAssumption DEF Publish, RelayInv, RelayTypes, RelayTypeOK
    <3> QED BY <3>1, RelayAssumption DEF Events, Envelope
  <2>2. /\ inbox'[c] = (IF hears THEN Append(inbox[c], e) ELSE inbox[c])
        /\ owed'[c] = (IF hears /\ ~except THEN Append(owed[c], published + 1) ELSE owed[c])
        /\ UNCHANGED <<outbox, listener>>
    BY <1>7 DEF Publish
  <2>3. CASE ~hears
    <3>1. Shifts(c, q, <<>>, <<>>, q)
      BY <1>3, <2>2, <2>3 DEF Shifts
    <3> QED BY <1>3, <3>1
  <2>4. CASE hears
    <3> HIDE DEF e
    <3>1. inbox'[c] = inbox[c] \o <<e>> /\ <<e>> \in Seq(Envelope)
      BY <1>1, <2>1, <2>2, <2>4, LastAndFirst
    <3>2. Waits(inbox'[c]) = W \o Waits(<<e>>)
      BY <1>1, <3>1, WaitsConcat
    <3>3. Waits(<<e>>) \in E
      BY <3>1, WaitsTypes
    <3>4. q = W
      BY <2>4
    <3>5. owed'[c] = owed[c] \o Waits(<<e>>)
      <4>1. CASE except
        <5>1. Waits(<<e>>) = <<>>
          BY <2>1, <4>1, WaitsOne DEF e
        <5> QED BY <1>3, <2>2, <4>1, <5>1
      <4>2. CASE ~except
        <5>1. Waits(<<e>>) = <<published + 1>>
          BY <2>1, <4>2, WaitsOne DEF e
        <5>2. owed'[c] = Append(owed[c], published + 1)
          BY <2>2, <2>4, <4>2
        <5> DEFINE p == published + 1
                   d == owed[c]
        <5>3. p \in Events /\ d \in Seq(Events)
          BY <1>1, <2>1
        <5>4. Append(d, p) = d \o <<p>>
          <6> HIDE DEF p, d
          <6> QED BY ONLY <5>3, LastAndFirst
        <5> QED BY <5>1, <5>2, <5>4
      <4> QED BY <4>1, <4>2
    <3>6. W \o Waits(<<e>>) \in E
      BY <1>2, <3>3, Regrouped
    <3>7. Shifts(c, q, <<>>, Waits(<<e>>), W \o Waits(<<e>>))
      BY <1>3, <2>2, <3>2, <3>4, <3>5, <3>6 DEF Shifts
    <3> QED BY <1>3, <3>3, <3>6, <3>7
  <2> QED BY <2>3, <2>4
<1>8. ASSUME NEW d \in Topics, RelayFails(d)
      PROVE  Shifts(c, q, <<>>, <<>>, q)
  <2>1. <<d, Dropped>> \in Frame
    BY DEF Frame
  <2>2. d # c => listener'[c] = listener[c] /\ inbox'[c] = inbox[c]
    BY <1>1, <1>8 DEF RelayFails
  <2>3. d = c => listener'[c] = "failed"
    BY <1>1, <1>8 DEF RelayFails
  <2> QED BY <1>6, <1>8, <2>1, <2>2, <2>3 DEF RelayFails
<1>9. ASSUME NEW d \in Topics, RelayNext(d)
      PROVE  \E y, x, s \in E : Shifts(c, q, y, x, s)
  <2> DEFINE e == Head(inbox[d])
             f == <<d, e.event>>
  <2>1. inbox[d] \in Seq(Envelope) /\ inbox[d] # <<>> /\ UNCHANGED <<owed, listener>>
        /\ inbox' = [inbox EXCEPT ![d] = Tail(inbox[d])] /\ listener[d] = "listening"
    BY <1>1, <1>9 DEF RelayNext
  <2>2. /\ e \in Envelope /\ Tail(inbox[d]) \in Seq(Envelope)
        /\ inbox[d] = <<e>> \o Tail(inbox[d])
    BY <2>1, LastAndFirst
  <2>3. f \in Frame /\ f[1] = d /\ f[2] = e.event /\ f[2] # Dropped
    <3>1. e.event \in Events
      BY <2>2 DEF Envelope
    <3> QED BY <3>1 DEF Frame, Events, Dropped
  <2>4. outbox' = (IF ~e.except THEN Append(outbox, f) ELSE outbox)
    BY <1>9 DEF RelayNext, Accepts
  <2>5. CASE d # c
    <3>1. inbox'[c] = inbox[c]
      BY <1>1, <2>1, <2>5
    <3>2. Shifts(c, q, <<>>, <<>>, q)
      <4>1. CASE e.except
        BY <1>5, <2>1, <2>4, <3>1, <4>1
      <4>2. CASE ~e.except
        BY <1>6, <2>1, <2>3, <2>4, <2>5, <3>1, <4>2
      <4> QED BY <4>1, <4>2
    <3> QED BY <1>3, <3>2
  <2>6. CASE d = c
    <3>1. inbox'[c] = Tail(inbox[c]) /\ q = W
      BY <1>1, <2>1, <2>6
    <3>2. <<e>> \in Seq(Envelope)
      <4> HIDE DEF e
      <4> QED BY <2>2
    <3>3. W = Waits(<<e>>) \o Waits(Tail(inbox[c]))
      <4> HIDE DEF e
      <4> QED BY <2>2, <2>6, <3>2, WaitsConcat
    <3>4. Waits(<<e>>) \in E /\ Waits(Tail(inbox[c])) \in E
      <4>1. Tail(inbox[c]) \in Seq(Envelope)
        BY <2>2, <2>6
      <4> HIDE DEF e
      <4> QED BY <4>1, <3>2, WaitsTypes
    <3>5. Got(outbox', c) = O \o Waits(<<e>>)
      <4>1. CASE e.except
        <5>1. Waits(<<e>>) = <<>>
          BY <2>2, <4>1, WaitsOne
        <5> QED BY <1>3, <2>4, <4>1, <5>1
      <4>2. CASE ~e.except
        <5>1. Waits(<<e>>) = <<e.event>>
          BY <2>2, <4>2, WaitsOne
        <5>2. Y(f) = <<e.event>>
          BY <2>3, <2>6, GotOne
        <5> QED BY <1>4, <2>3, <2>4, <4>2, <5>1, <5>2
      <4> QED BY <4>1, <4>2
    <3>6. Shifts(c, q, Waits(<<e>>), <<>>, Waits(Tail(inbox[c])))
      BY <1>3, <2>1, <3>1, <3>3, <3>4, <3>5 DEF Shifts
    <3> QED BY <1>3, <3>4, <3>6
  <2> QED BY <2>5, <2>6
<1>10. ASSUME NEW d \in Topics, NEW authorized \in BOOLEAN, SubscribeTo(d, authorized)
       PROVE  Shifts(c, q, <<>>, <<>>, q)
  <2>1. <<d, Dropped>> \in Frame
    BY DEF Frame
  <2>2. CASE authorized
    <3>1. UNCHANGED <<outbox, owed, inbox>> /\ listener[d] = "none" /\ listener' = [listener EXCEPT ![d] = "starting"]
      BY <1>10, <2>2 DEF SubscribeTo
    <3> QED BY <1>1, <1>5, <3>1
  <2>3. CASE ~authorized
    <3>1. UNCHANGED <<owed, inbox, listener>> /\ outbox' = Append(outbox, <<d, Dropped>>)
      BY <1>10, <2>3 DEF SubscribeTo
    <3> QED BY <1>6, <2>1, <3>1
  <2> QED BY <2>2, <2>3
<1>11. ASSUME NEW d \in Topics, Listens(d) PROVE Shifts(c, q, <<>>, <<>>, q)
  <2>1. UNCHANGED <<outbox, owed, inbox>> /\ listener[d] = "starting" /\ listener' = [listener EXCEPT ![d] = "listening"]
    BY <1>11 DEF Listens
  <2> QED BY <1>1, <1>5, <2>1
<1>12. ASSUME NEW d \in Topics, TaskEnds(d) PROVE FALSE
  BY <1>12 DEF TaskEnds, RelayInv, TasksOpen
<1>13. ASSUME BrowserLeaves \/ CancelTasks \/ Gathered PROVE FALSE
  BY <1>13 DEF BrowserLeaves, CancelTasks, Gathered
<1>14. ASSUME Drain PROVE FALSE
  <2>1. socket = "open" /\ received' = Append(received, Head(outbox)) /\ outbox # <<>>
    BY <1>14 DEF Drain
  <2>2. received \in Seq(Frame) /\ Head(outbox) \in Frame
    BY <1>1, <2>1 DEF RelayInv, RelayTypes, RelayTypeOK
  <2>3. Len(Append(received, Head(outbox))) = Len(received) + 1 /\ Len(received) \in Nat
    BY <2>2
  <2> QED BY <2>1, <2>3
<1>15. CASE WriterEnds
  BY <1>3, <1>5, <1>15 DEF WriterEnds
<1>16. CASE UNCHANGED relayVars
  BY <1>3, <1>5, <1>16 DEF relayVars
<1>17. CASE RelayStep
  BY <1>17, <1>3, <1>7, <1>8, <1>9, <1>10, <1>11, <1>12, <1>13, <1>14, <1>15 DEF RelayStep
<1> QED BY <1>16, <1>17

\* And a frame that goes from those to be sent to those that were.
LEMMA Moved == \A T : \A u, f, o, r \in Seq(T) : MoveOf(u, f, o, r)
<1>1. \A T : \A u, f, o, r \in Seq(T) :
         /\ Joined(Joined(u, Joined(f, o)), r) = Joined(Joined(u, f), Joined(o, r))
         /\ Joined(Joined(u, Joined(f, o)), r) = Joined(Joined(Joined(u, f), o), r)
  <2> SUFFICES ASSUME NEW T, NEW u \in Seq(T), NEW f \in Seq(T), NEW o \in Seq(T), NEW r \in Seq(T)
               PROVE  /\ Joined(Joined(u, Joined(f, o)), r) = Joined(Joined(u, f), Joined(o, r))
                      /\ Joined(Joined(u, Joined(f, o)), r) = Joined(Joined(Joined(u, f), o), r)
    OBVIOUS
  <2>1. Joined(u, f) \in Seq(T) /\ Joined(u, Joined(f, o)) = Joined(Joined(u, f), o)
    BY JoinedOnce
  <2>2. Joined(Joined(Joined(u, f), o), r) = Joined(Joined(u, f), Joined(o, r))
    BY <2>1, JoinedOnce
  <2> QED BY <2>1, <2>2
<1> QED BY <1>1 DEF Joined, MoveOf

\* What is owed grows at its end.
LEMMA OwedGrows ==
  ASSUME RelayInv, [RelayStep]_relayVars, NEW c \in Topics
  PROVE  \E x \in Seq(Events) : owed'[c] = owed[c] \o x
<1>1. owed \in [Topics -> Seq(Events)] /\ owed[c] \in Seq(Events) /\ <<>> \in Seq(Events)
  BY DEF RelayInv, RelayTypes
<1>2. owed[c] \o <<>> = owed[c]
  BY <1>1, ConcatEmptySeq
<1>3. ASSUME owed' = owed PROVE \E x \in Seq(Events) : owed'[c] = owed[c] \o x
  BY <1>1, <1>2, <1>3
<1>4. ASSUME NEW channels \in SUBSET Topics, NEW except \in BOOLEAN, Publish(channels, except)
      PROVE  \E x \in Seq(Events) : owed'[c] = owed[c] \o x
  <2> DEFINE p == published + 1
             d == owed[c]
  <2>1. p \in Events /\ d \in Seq(Events)
    <3>1. published \in Nat /\ published < MaxPublished
      BY <1>4, RelayAssumption DEF Publish, RelayInv, RelayTypes, RelayTypeOK
    <3> QED BY <1>1, <3>1, RelayAssumption DEF Events
  <2>2. Append(d, p) = d \o <<p>> /\ <<p>> \in Seq(Events)
    <3> HIDE DEF p, d
    <3> QED BY ONLY <2>1, LastAndFirst
  <2>3. owed'[c] = d \/ owed'[c] = Append(d, p)
    BY <1>4 DEF Publish
  <2> QED BY <1>1, <1>2, <2>2, <2>3
<1>5. CASE Drain \/ BrowserLeaves \/ CancelTasks \/ WriterEnds \/ Gathered
  BY <1>3, <1>5 DEF Drain, BrowserLeaves, CancelTasks, WriterEnds, Gathered
<1>6. ASSUME NEW d \in Topics,
             Listens(d) \/ RelayFails(d) \/ RelayNext(d) \/ TaskEnds(d)
                \/ \E authorized \in BOOLEAN : SubscribeTo(d, authorized)
      PROVE  \E x \in Seq(Events) : owed'[c] = owed[c] \o x
  <2>1. owed' = owed
    BY <1>6 DEF Listens, RelayFails, RelayNext, TaskEnds, SubscribeTo
  <2> QED BY <2>1, <1>3
<1>7. CASE UNCHANGED relayVars
  BY <1>3, <1>7 DEF relayVars
<1>8. CASE RelayStep
  BY <1>4, <1>5, <1>6, <1>8 DEF RelayStep
<1> QED BY <1>7, <1>8

LEMMA OrderNext == RelayInv /\ [RelayStep]_relayVars /\ RelayTypes' => ComesInOrder'
<1> SUFFICES ASSUME RelayInv, [RelayStep]_relayVars, RelayTypes', NEW c \in Topics
             PROVE  /\ \E rest \in Seq(Events) : Follows(c, rest)'
                    /\ socket' = "open" => \E rest \in Seq(Events) : ComesAfter(c, rest)'
  BY DEF ComesInOrder
<1> DEFINE E == Seq(Events)
           u == Got(received, c)
           o == Got(outbox, c)
<1>1. /\ outbox \in Seq(Frame) /\ received \in Seq(Frame)
      /\ outbox' \in Seq(Frame) /\ received' \in Seq(Frame) /\ owed[c] \in E
  BY DEF RelayInv, RelayTypes, RelayTypeOK
<1>2. u \in E /\ o \in E /\ Got(outbox', c) \in E
  <2>1. u \in E
    BY ONLY <1>1, GotTypes, c \in Topics
  <2>2. o \in E
    BY ONLY <1>1, GotTypes, c \in Topics
  <2>3. Got(outbox', c) \in E
    BY ONLY <1>1, GotTypes, c \in Topics
  <2> QED BY <2>1, <2>2, <2>3
<1>3. PICK rest \in E : u \o rest = owed[c]
  BY DEF RelayInv, ComesInOrder, Follows
<1>4. socket = "open" => \E r \in E : ComesAfter(c, r)
  BY DEF RelayInv, ComesInOrder
<1>5. PICK x \in E : owed'[c] = owed[c] \o x
  BY OwedGrows
<1>6. ASSUME received' = received
      PROVE  /\ \E r \in E : Follows(c, r)'
             /\ socket' = "open" => \E r \in E : ComesAfter(c, r)'
  <2>1. \E r \in E : Follows(c, r)'
    <3>1. u \o (rest \o x) = (u \o rest) \o x /\ rest \o x \in E
      <4>1. u \in Seq(Events) /\ rest \in Seq(Events) /\ x \in Seq(Events)
        BY <1>2
      <4> HIDE DEF u
      <4> QED BY ONLY <4>1, Regrouped
    <3>2. Follows(c, rest \o x)'
      BY <1>3, <1>5, <1>6, <3>1 DEF Follows
    <3> QED BY <3>1, <3>2
  <2>2. ASSUME socket' = "open" PROVE \E r \in E : ComesAfter(c, r)'
    <3>1. socket = "open"
      BY <2>2 DEF RelayStep, relayVars, Drain, BrowserLeaves, CancelTasks, WriterEnds, Gathered,
                  Publish, Listens, RelayFails, RelayNext, TaskEnds, SubscribeTo
    <3>2. PICK q \in E : ComesAfter(c, q)
      BY <1>4, <3>1
    <3>3. \E y, z, s \in E : Shifts(c, q, y, z, s)
      <4>1. listener[c] # "failed" => q = Waits(inbox[c])
        BY <3>2 DEF ComesAfter
      <4> QED BY <1>6, <2>2, <4>1, ShiftsNext
    <3>4. PICK y \in E, z \in E, s \in E : Shifts(c, q, y, z, s)
      BY <3>3
    <3>5. (u \o (o \o y)) \o s = ((u \o o) \o q) \o z
      <4>1. q \o z = y \o s
        BY <3>4 DEF Shifts
      <4> HIDE DEF u, o
      <4>2. u \in E /\ o \in E /\ y \in E /\ q \in E /\ z \in E /\ s \in E
        BY <1>2
      <4>3. ShiftOf(u, o, y, q, z, s)
        BY ONLY <4>2, Shifted
      <4> QED BY <4>1, <4>3 DEF ShiftOf
    <3>6. (u \o o) \o q = owed[c]
      BY <3>2 DEF ComesAfter
    <3>7. owed'[c] = owed[c] \o z /\ Got(outbox', c) = o \o y
      BY <3>4 DEF Shifts
    <3>8. ComesAfter(c, s)'
      BY <1>6, <3>4, <3>5, <3>6, <3>7 DEF Shifts, ComesAfter
    <3> QED BY <3>8
  <2> QED BY <2>1, <2>2
<1>7. ASSUME NEW f \in Frame, outbox = <<f>> \o outbox', received' = received \o <<f>>,
             socket = "open", UNCHANGED <<socket, listener, inbox, owed>>
      PROVE  /\ \E r \in E : Follows(c, r)'
             /\ \E r \in E : ComesAfter(c, r)'
  <2>1. PICK r \in E : ComesAfter(c, r)
    BY <1>4, <1>7
  <2> DEFINE g == Got(<<f>>, c)
             p == Got(outbox', c)
  <2>2. <<f>> \in Seq(Frame)
    BY <1>7
  <2>3. g \in E
    BY ONLY <2>2, GotTypes, c \in Topics
  <2>4. o = g \o p
    BY <1>1, <1>7, <2>2, GotConcat
  <2>5. Got(received', c) = u \o g
    BY <1>1, <1>7, <2>2, GotConcat
  <2>6. (u \o (g \o p)) \o r = (u \o g) \o (p \o r) /\ (u \o (g \o p)) \o r = ((u \o g) \o p) \o r
    <3>1. u \in E /\ g \in E /\ p \in E /\ r \in E
      BY <1>2, <2>3
    <3> HIDE DEF u, g, p
    <3>2. MoveOf(u, g, p, r)
      BY ONLY <3>1, Moved
    <3> QED BY <3>2 DEF MoveOf
  <2>7. p \o r \in E
    <3>1. p \in E /\ r \in E
      BY <1>2
    <3> HIDE DEF p
    <3> QED BY ONLY <3>1, Regrouped
  <2>8. (u \o o) \o r = owed[c] /\ (listener[c] # "failed" => r = Waits(inbox[c]))
    BY <2>1 DEF ComesAfter
  <2>9. PICK k \in E : k = p \o r
    BY <2>7
  <2>10. Got(received', c) \o k = owed'[c]
    BY <1>7, <2>4, <2>5, <2>6, <2>8, <2>9
  <2>11. (Got(received', c) \o Got(outbox', c)) \o r = owed'[c]
    BY <1>7, <2>4, <2>5, <2>6, <2>8
  <2>12. listener'[c] # "failed" => r = Waits(inbox'[c])
    BY <1>7, <2>8
  <2>13. Follows(c, k)'
    BY <2>10 DEF Follows
  <2>14. ComesAfter(c, r)'
    BY <2>11, <2>12 DEF ComesAfter
  <2> QED BY <2>13, <2>14
<1> QED BY <1>6, <1>7, FramesMove

LEMMA RelayNextInv == RelayInv /\ [RelayStep]_relayVars => RelayInv'
<1> SUFFICES ASSUME RelayInv, [RelayStep]_relayVars PROVE RelayInv'
  OBVIOUS
<1>1. RelayTypes'
  BY RelayTyped DEF RelayInv, relayVars, RelayTypes, RelayTypeOK
<1>2. TasksOpen'
  BY RelayTasks
<1>3. ComesInOrder'
  BY <1>1, OrderNext
<1> QED BY <1>1, <1>2, <1>3 DEF RelayInv

\* Then the frames are right.
LEMMA RelayKeeps == RelayInv => FramesRight
<1> SUFFICES ASSUME RelayInv PROVE FramesRight
  OBVIOUS
<1>1. ASSUME NEW c \in Topics
      PROVE  /\ IsPrefix(Got(received, c), owed[c])
             /\ socket = "open" /\ listener[c] = "listening" =>
                   Got(received, c) \o Got(outbox, c) \o Waits(inbox[c]) = owed[c]
             /\ listener[c] = "failed" /\ socket = "open" =>
                   <<c, Dropped>> \in Range(received \o outbox)
  <2>1. PICK rest \in Seq(Events) : Got(received, c) \o rest = owed[c]
    BY DEF RelayInv, ComesInOrder, Follows
  <2>2. Got(received, c) \in Seq(Events)
    <3>1. received \in Seq(Frame)
      BY DEF RelayInv, RelayTypes, RelayTypeOK
    <3> QED BY ONLY <3>1, GotTypes, c \in Topics
  <2>3. IsPrefix(Got(received, c), owed[c])
    <3> DEFINE g == Got(received, c)
    <3> HIDE DEF g
    <3>1. g \in Seq(Events) /\ g \o rest = owed[c]
      BY <2>1, <2>2 DEF g
    <3>2. Len(g) <= Len(g \o rest) /\ \A i \in 1..Len(g) : g[i] = (g \o rest)[i]
      BY <3>1
    <3>3. SubSeq(g \o rest, 1, Len(g)) = g
      BY <3>1
    <3> QED BY <3>1, <3>2, <3>3 DEF IsPrefix, g
  <2>4. ASSUME socket = "open", listener[c] = "listening"
        PROVE  Got(received, c) \o Got(outbox, c) \o Waits(inbox[c]) = owed[c]
    BY <2>4 DEF RelayInv, ComesInOrder, ComesAfter
  <2> QED BY <2>3, <2>4 DEF RelayInv, TasksOpen
<1>2. \A c \in Topics : [i \in DOMAIN Waiting(c) |-> Waiting(c)[i].event] = Waits(inbox[c])
  BY DEF Waiting, Waits
<1>3. socket = "closed" => /\ writer # "running"
                           /\ \A c \in Topics : listener[c] \notin {"starting", "listening"}
  BY DEF RelayInv, TasksOpen
<1> QED BY <1>1, <1>2, <1>3 DEF FramesRight, Got

-----------------------------------------------------------------------------
(* Who hears of an event (Events.tla)                                       *)

\* What a sequence has, each once; one more at its end, or the first one less.
Distinct(s) == \A i, j \in 1..Len(s) : i # j => s[i] # s[j]

LEMMA NoneHas == Range(<<>>) = {} /\ Distinct(<<>>)
  BY DEF Range, Distinct

LEMMA HasOneMore ==
  \A T : \A s \in Seq(T) : \A x \in T : 
     /\ Append(s, x) \in Seq(T) /\ Range(Append(s, x)) = Range(s) \cup {x}
     /\ Distinct(s) /\ x \notin Range(s) => Distinct(Append(s, x))
<1> SUFFICES ASSUME NEW T, NEW s \in Seq(T), NEW x \in T
             PROVE  /\ Append(s, x) \in Seq(T) /\ Range(Append(s, x)) = Range(s) \cup {x}
                    /\ Distinct(s) /\ x \notin Range(s) => Distinct(Append(s, x))
  OBVIOUS
<1> DEFINE u == Append(s, x)
           n == Len(s)
<1>1. /\ u \in Seq(T) /\ Len(u) = n + 1 /\ n \in Nat /\ u[n + 1] = x
      /\ \A i \in 1..n : u[i] = s[i]
      /\ DOMAIN u = 1..(n + 1) /\ DOMAIN s = 1..n
  OBVIOUS
<1>2. 1..(n + 1) = (1..n) \cup {n + 1}
  BY <1>1
<1> HIDE DEF u, n
<1>3. Range(u) = Range(s) \cup {x}
  <2>1. \A y : y \in Range(u) <=> y \in Range(s) \/ y = x
    BY <1>1, <1>2 DEF Range
  <2> QED BY <2>1
<1>4. ASSUME Distinct(s), x \notin Range(s), NEW i \in 1..(n + 1), NEW j \in 1..(n + 1), i # j
      PROVE  u[i] # u[j]
  <2>1. \A k \in 1..n : s[k] # x
    BY <1>1, <1>4 DEF Range
  <2> QED BY <1>1, <1>2, <1>4, <2>1 DEF Distinct, n
<1> QED BY <1>1, <1>3, <1>4 DEF Distinct, u

LEMMA HasOneLess ==
  \A T : \A s \in Seq(T) : s # <<>> =>
     /\ Head(s) \in T /\ Tail(s) \in Seq(T) /\ Head(s) \in Range(s)
     /\ Distinct(s) => Distinct(Tail(s)) /\ Range(Tail(s)) = Range(s) \ {Head(s)}
<1> SUFFICES ASSUME NEW T, NEW s \in Seq(T), s # <<>>
             PROVE  /\ Head(s) \in T /\ Tail(s) \in Seq(T) /\ Head(s) \in Range(s)
                    /\ Distinct(s) => Distinct(Tail(s)) /\ Range(Tail(s)) = Range(s) \ {Head(s)}
  OBVIOUS
<1> DEFINE u == Tail(s)
           n == Len(u)
<1>1. /\ u \in Seq(T) /\ n \in Nat /\ Len(s) = n + 1 /\ Head(s) = s[1]
      /\ \A i \in 1..n : u[i] = s[i + 1]
      /\ DOMAIN u = 1..n /\ DOMAIN s = 1..(n + 1)
  OBVIOUS
<1>2. 1 \in 1..(n + 1) /\ \A i \in 1..n : i + 1 \in 1..(n + 1)
  BY <1>1
<1> HIDE DEF u, n
<1>3. Head(s) \in Range(s)
  BY <1>1, <1>2 DEF Range
<1>4. ASSUME Distinct(s) PROVE Distinct(u) /\ Range(u) = Range(s) \ {Head(s)}
  <2>1. Distinct(u)
    <3> SUFFICES ASSUME NEW i \in 1..n, NEW j \in 1..n, i # j PROVE u[i] # u[j]
      BY DEF Distinct, n
    <3>1. i + 1 # j + 1 /\ i + 1 \in 1..(n + 1) /\ j + 1 \in 1..(n + 1)
      BY <1>1
    <3> QED BY <1>1, <1>4, <3>1 DEF Distinct
  <2>2. \A i \in 1..n : u[i] \in Range(s) /\ u[i] # Head(s)
    <3> SUFFICES ASSUME NEW i \in 1..n PROVE u[i] \in Range(s) /\ u[i] # Head(s)
      OBVIOUS
    <3>1. i + 1 \in 1..(n + 1) /\ i + 1 # 1
      BY <1>1
    <3> QED BY <1>1, <1>2, <1>4, <3>1 DEF Distinct, Range
  <2>3. \A i \in 1..(n + 1) : s[i] # Head(s) => s[i] \in Range(u)
    <3> SUFFICES ASSUME NEW i \in 1..(n + 1), s[i] # Head(s) PROVE s[i] \in Range(u)
      OBVIOUS
    <3>1. i # 1 
      BY <1>1
    <3>2. i - 1 \in 1..n /\ (i - 1) + 1 = i
      BY <1>1, <3>1
    <3>3. u[i - 1] = s[i]
      BY <1>1, <3>2
    <3> QED BY <1>1, <3>2, <3>3 DEF Range
  <2>4. \A y : y \in Range(u) <=> \E i \in 1..n : u[i] = y
    BY <1>1 DEF Range
  <2>5. \A y : y \in Range(s) <=> \E i \in 1..(n + 1) : s[i] = y
    BY <1>1 DEF Range
  <2>6. \A y : y \in Range(u) <=> y \in Range(s) /\ y # Head(s)
    BY <2>2, <2>3, <2>4, <2>5
  <2> QED BY <2>1, <2>6
<1> QED BY <1>1, <1>3, <1>4 DEF u

\* One more event.
Table(n, S) == [1..n -> S]
RowMade(g, f, n, x, S) == g \in Table(n + 1, S) /\ g[n + 1] = x /\ \A i \in 1..n : g[i] = f[i]
LEMMA RowAdded ==
  \A S : \A n \in Nat : \A f \in Table(n, S), x \in S : RowMade(Append(f, x), f, n, x, S)
<1> SUFFICES ASSUME NEW S, NEW n \in Nat, NEW f \in Table(n, S), NEW x \in S
             PROVE  /\ Append(f, x) \in Table(n + 1, S) /\ Append(f, x)[n + 1] = x
                    /\ \A i \in 1..n : Append(f, x)[i] = f[i]
  BY DEF RowMade
<1>1. f \in Seq(S) /\ Len(f) = n
  BY DEF Table
<1>2. Append(f, x) \in Seq(S) /\ Len(Append(f, x)) = n + 1 /\ Append(f, x)[n + 1] = x
      /\ \A i \in 1..n : Append(f, x)[i] = f[i]
  BY <1>1
<1>3. Append(f, x) \in [1..(n + 1) -> S]
  <2> DEFINE g == Append(f, x)
  <2>1. g \in Seq(S) /\ Len(g) = n + 1
    BY <1>2
  <2> HIDE DEF g
  <2>2. g \in [1..(n + 1) -> S]
    BY <2>1
  <2> QED BY <2>2 DEF g
<1> QED BY <1>2, <1>3 DEF Table

-----------------------------------------------------------------------------
Pieces == Nat \X {"event", "broadcast"}
Fates == {"waiting", "firing", "over", "stopped", "raised", "dropped"}
States == {"open", "committed", "replayed", "rolled back", "cut"}
CallerStates == [at : {"outside", "body", "replay", "cancelled"}, block : Nat, buffer : Seq(Pieces),
            todo : Seq(Pieces), fires : Nat, rest : Seq(Listeners)]
HasIt(c, item) == item \in Range(caller[c].buffer) \cup Range(caller[c].todo)

EvTypes ==
    /\ listeners \in Seq(Listeners) /\ caller \in [Dispatchers -> CallerStates]
    /\ event \in Seq([kind : EventKinds, block : Nat]) /\ txBlock \in Seq(States)
    /\ pushed \in Seq(Nat)
    /\ gathered \in [EventIds -> Seq(Listeners)] /\ heard \in [EventIds -> Seq(Listeners)]
    /\ sent \in [EventIds -> Nat] /\ fate \in [EventIds -> Fates]

\* An event that waits, or a broadcast, is in one place, and there once.
PlacedOnce ==
    \A c \in Dispatchers :
        /\ Distinct(caller[c].buffer) /\ Distinct(caller[c].todo)
        /\ \A item \in Range(caller[c].todo) : item \notin Range(caller[c].buffer)
PlacedHere ==
    \A c \in Dispatchers, item \in Pieces : HasIt(c, item) =>
        item[1] \in EventIds /\ \A d \in Dispatchers : d # c => ~HasIt(d, item)
FiredHere ==
    \A c \in Dispatchers : caller[c].fires # 0 =>
        /\ caller[c].fires \in EventIds
        /\ \A d \in Dispatchers : d # c => caller[d].fires # caller[c].fires
PushedOnce ==
    /\ Distinct(pushed)
    /\ \A i \in Range(pushed) : i \in EventIds /\ \A c \in Dispatchers : ~HasIt(c, <<i, "event">>)
WaitsThere ==
    \A i \in EventIds :
        fate[i] = "waiting" <=> i \in Range(pushed) \/ \E c \in Dispatchers : HasIt(c, <<i, "event">>)
FiresThere == \A i \in EventIds : fate[i] = "firing" <=> \E c \in Dispatchers : caller[c].fires = i
EvPlaces == PlacedOnce /\ PlacedHere /\ FiredHere /\ PushedOnce /\ WaitsThere /\ FiresThere

\* Who holds and fires what, in which block.
Queued(i) == event[i].kind.cast = "queued"
Defers(i) == Deferrable(event[i].kind)
Plain(i) == event[i].kind = PlainEvent
IsLate(item) ==
    /\ item[2] = "event" => Defers(item[1])
    /\ item[2] = "broadcast" => Queued(item[1])
BlocksThere ==
    /\ \A i \in EventIds : event[i].block \in 0..Len(txBlock)
    /\ \A c \in Dispatchers :
          /\ caller[c].block \in 0..Len(txBlock)
          /\ caller[c].at \in {"body", "replay"} <=> caller[c].block # 0
          /\ caller[c].at = "body" => txBlock[caller[c].block] = "open"
          /\ caller[c].at = "replay" => txBlock[caller[c].block] = "committed"
          /\ caller[c].block # 0 => \A d \in Dispatchers : d # c => caller[d].block # caller[c].block
PushedPlain == \A i \in Range(pushed) : Plain(i)
BuffersLate ==
    \A c \in Dispatchers : \A item \in Range(caller[c].buffer) :
        caller[c].at = "body" /\ event[item[1]].block = caller[c].block /\ IsLate(item)
TodosRight ==
    \A c \in Dispatchers : \A item \in Range(caller[c].todo) :
        /\ caller[c].at = "replay" => event[item[1]].block = caller[c].block /\ IsLate(item)
        /\ caller[c].at # "replay" => item[2] = "event" /\ Plain(item[1])
FiresRight ==
    \A c \in Dispatchers : caller[c].fires # 0 =>
        /\ Plain(caller[c].fires) \/ event[caller[c].fires].block = caller[c].block
        /\ caller[c].at = "body" => ~Defers(caller[c].fires)
EvLinks == BlocksThere /\ PushedPlain /\ BuffersLate /\ TodosRight /\ FiresRight

\* What was said of an event: nothing before it is fired, its broadcast once.
Silent(i) ==
    /\ sent[i] = 0 /\ gathered[i] = <<>> /\ heard[i] = <<>>
    /\ \A c \in Dispatchers : ~HasIt(c, <<i, "broadcast">>)
HeardOf(i, rest) == heard[i] \o rest = gathered[i]
SentOnce ==
    \A i \in EventIds : sent[i] <= 1 /\ \A c \in Dispatchers : HasIt(c, <<i, "broadcast">>) => sent[i] = 0
SilentYet ==
    /\ \A i \in EventIds : fate[i] \in {"waiting", "dropped"} => Silent(i)
    /\ \A c \in Dispatchers : caller[c].fires # 0 /\ caller[c].rest = <<>> => Silent(caller[c].fires)
HeardSome ==
    \A i \in EventIds :
        /\ \E rest \in Seq(Listeners) : HeardOf(i, rest)
        /\ fate[i] = "over" => heard[i] = gathered[i]
HearsRest ==
    \A c \in Dispatchers : caller[c].rest # <<>> =>
        caller[c].fires # 0 /\ HeardOf(caller[c].fires, caller[c].rest)
EvSaid == SentOnce /\ SilentYet /\ HeardSome /\ HearsRest

\* What becomes of a deferred event or broadcast, by its block.
WasFired(i) ==
    fate[i] \in {"over", "stopped"} \/ \E c \in Dispatchers : caller[c].fires = i /\ caller[c].rest # <<>>
BlockOf(i) == txBlock[event[i].block]
DeferredRight ==
    \A i \in EventIds : event[i].block # 0 /\ Defers(i) =>
        /\ BlockOf(i) = "open" => fate[i] = "waiting"
        /\ BlockOf(i) = "committed" => fate[i] # "dropped"
        /\ BlockOf(i) = "rolled back" => fate[i] = "dropped"
        /\ BlockOf(i) = "replayed" => fate[i] \in {"over", "stopped", "raised"}
CastLater(i) ==
    \E c \in Dispatchers : caller[c].block = event[i].block /\ HasIt(c, <<i, "broadcast">>)
CastsRight ==
    \A i \in EventIds : event[i].block # 0 /\ Queued(i) =>
        /\ BlockOf(i) \in {"open", "rolled back"} => sent[i] = 0
        /\ BlockOf(i) \in {"open", "committed"} /\ WasFired(i) => sent[i] = 1 \/ CastLater(i)
        /\ BlockOf(i) = "replayed" /\ fate[i] = "over" => sent[i] = 1
EvBlocks == DeferredRight /\ CastsRight

EventsInv == EvTypes /\ EvPlaces /\ EvLinks /\ EvSaid /\ EvBlocks

LEMMA EventsBegin == EventsInit => EventsInv
<1> SUFFICES ASSUME EventsInit PROVE EventsInv
  OBVIOUS
<1>1. /\ listeners = <<>> /\ pushed = <<>> /\ caller = [c \in Dispatchers |-> NothingToFire]
      /\ event = <<>> /\ txBlock = <<>> /\ gathered = <<>> /\ heard = <<>> /\ sent = <<>> /\ fate = <<>>
  BY DEF EventsInit
<1>2. EventIds = {} /\ Len(txBlock) = 0 /\ Range(pushed) = {} /\ Distinct(pushed)
  BY <1>1, NoneHas DEF EventIds
<1>3. \A c \in Dispatchers :
         /\ caller[c].at = "outside" /\ caller[c].block = 0 /\ caller[c].buffer = <<>>
         /\ caller[c].todo = <<>> /\ caller[c].fires = 0 /\ caller[c].rest = <<>>
  BY <1>1 DEF NothingToFire
<1>4. \A c \in Dispatchers : Range(caller[c].buffer) = {} /\ Range(caller[c].todo) = {}
                             /\ Distinct(caller[c].buffer) /\ Distinct(caller[c].todo)
  BY <1>3, NoneHas
<1>5. EvTypes
  <2>1. NothingToFire \in CallerStates
    BY DEF NothingToFire, CallerStates
  <2>2. \A S : <<>> \in Seq(S) /\ <<>> \in [{} -> S]
    OBVIOUS
  <2>3. caller \in [Dispatchers -> CallerStates]
    BY <1>1, <2>1
  <2> QED BY <1>1, <1>2, <2>2, <2>3 DEF EvTypes
<1>6. EvPlaces
  BY <1>2, <1>3, <1>4
  DEF EvPlaces, HasIt, PlacedOnce, PlacedHere, FiredHere, PushedOnce, WaitsThere, FiresThere
<1>7. EvLinks
  <2>1. 0 \in 0..Len(txBlock)
    BY <1>2
  <2> QED
    BY <1>2, <1>3, <1>4, <2>1
    DEF EvLinks, BlocksThere, PushedPlain, BuffersLate, TodosRight, FiresRight
<1>8. EvSaid
  BY <1>2, <1>3 DEF EvSaid, SentOnce, SilentYet, HeardSome, HearsRest
<1>9. EvBlocks
  BY <1>2 DEF EvBlocks, DeferredRight, CastsRight
<1> QED BY <1>5, <1>6, <1>7, <1>8, <1>9 DEF EventsInv

LEMMA RegisteredTypes ==
  listeners \in Seq(Listeners) => \A set : Registered(set) \in Seq(Listeners)
<1> SUFFICES ASSUME listeners \in Seq(Listeners), NEW set PROVE Registered(set) \in Seq(Listeners)
  OBVIOUS
<1>1. Registered(set) = Those(listeners, set)
  BY DEF Registered, Those
<1>2. Those(listeners, set) \in Seq(Listeners \cap set)
  BY ThosePicked
<1> QED BY <1>1, <1>2

LEMMA GatherTypes == listeners \in Seq(Listeners) => Gather \in Seq(Listeners)
<1> SUFFICES ASSUME listeners \in Seq(Listeners) PROVE Gather \in Seq(Listeners)
  OBVIOUS
<1>2. /\ Registered(Listeners \ Wildcards) \in Seq(Listeners)
      /\ Registered(Wildcards) \in Seq(Listeners)
  BY RegisteredTypes
<1> HIDE DEF Registered
<1> QED BY <1>2, Regrouped DEF Gather

-----------------------------------------------------------------------------
\* The listeners change, and nothing else.
LEMMA ListensKeep ==
  ASSUME EventsInv, (\E l \in Listeners : Listen(l)) \/ (\E own \in BOOLEAN : ForgetListeners(own))
  PROVE  EventsInv'
<1>1. UNCHANGED <<pushed, caller, txBlock, event, gathered, heard, sent, fate>>
  BY DEF Listen, ForgetListeners, eventPast
<1>2. listeners' \in Seq(Listeners)
  <2>1. listeners \in Seq(Listeners)
    BY DEF EventsInv, EvTypes
  <2>2. CASE \E l \in Listeners : Listen(l)
    BY <2>1, <2>2 DEF Listen
  <2>3. CASE \E own \in BOOLEAN : ForgetListeners(own)
    <3>1. PICK set : listeners' = Registered(set)
      BY <2>3 DEF ForgetListeners
    <3> QED BY <2>1, <3>1, RegisteredTypes
  <2> QED BY <2>2, <2>3
<1>3. EvTypes'
  BY <1>1, <1>2 DEF EventsInv, EvTypes, EventIds
<1>4. EvPlaces' /\ EvLinks'
  BY <1>1
  DEF EventsInv, EvPlaces, EvLinks, EventIds, HasIt, Queued, Defers, Plain, IsLate, PlacedOnce,
      PlacedHere, FiredHere, PushedOnce, WaitsThere, FiresThere, BlocksThere, PushedPlain,
      BuffersLate, TodosRight, FiresRight
<1>5. EvSaid'
  BY <1>1 DEF EventsInv, EvSaid, EventIds, HasIt, Silent, HeardOf, SentOnce, SilentYet, HeardSome, HearsRest
<1>6. EvBlocks'
  <2>1. \A i : /\ BlockOf(i)' = BlockOf(i) /\ (Queued(i)' <=> Queued(i)) /\ (Defers(i)' <=> Defers(i))
               /\ (WasFired(i)' <=> WasFired(i))
               /\ \A c \in Dispatchers : HasIt(c, <<i, "broadcast">>)' <=> HasIt(c, <<i, "broadcast">>)
    BY <1>1 DEF HasIt, WasFired, BlockOf, Queued, Defers
  <2> QED BY <1>1, <2>1 DEF EventsInv, EvBlocks, EventIds, DeferredRight, CastsRight, CastLater
<1> QED BY <1>3, <1>4, <1>5, <1>6 DEF EventsInv

\* The ids are numbers, and none is 0.
LEMMA EventIdsAre == event \in Seq([kind : EventKinds, block : Nat]) =>
  /\ Len(event) \in Nat /\ EventIds = 1..Len(event) /\ \A i \in EventIds : i \in Nat \ {0}
<1> SUFFICES ASSUME event \in Seq([kind : EventKinds, block : Nat])
             PROVE  /\ Len(event) \in Nat /\ EventIds = 1..Len(event) /\ \A i \in EventIds : i \in Nat \ {0}
  OBVIOUS
<1>1. Len(event) \in Nat /\ DOMAIN event = 1..Len(event)
  OBVIOUS
<1> QED BY <1>1 DEF EventIds

\* The next listener hears of what is fired.
LEMMA HearKeeps ==
  ASSUME EventsInv, NEW c \in Dispatchers, NEW stops \in BOOLEAN, Hear(c, stops)
  PROVE  EventsInv'
<1>1. PICK id : id = caller[c].fires
  OBVIOUS
<1>2. PICK rest : rest = caller[c].rest
  OBVIOUS
<1> DEFINE ends == stops \/ Len(rest) = 1
<1>3. /\ EvTypes /\ EvPlaces /\ EvLinks /\ EvSaid /\ EvBlocks
      /\ id # 0 /\ rest # <<>> /\ id \in EventIds /\ fate[id] = "firing"
      /\ rest \in Seq(Listeners) /\ caller[c] \in CallerStates
      /\ heard[id] \in Seq(Listeners) /\ HeardOf(id, rest)
  BY <1>1, <1>2 DEF Hear, EventsInv, EvTypes, EvPlaces, FiredHere, FiresThere, EvSaid, HearsRest, CallerStates
<1>3a. \A i \in EventIds : i \in Nat \ {0}
  BY <1>3, EventIdsAre DEF EvTypes
<1>4. /\ UNCHANGED <<listeners, pushed, txBlock, event, gathered, sent>>
      /\ heard' = [heard EXCEPT ![id] = Append(heard[id], Head(rest))]
      /\ caller' = [caller EXCEPT ![c] = [caller[c] EXCEPT !.rest = IF ends THEN <<>> ELSE Tail(rest),
                                                             !.fires = IF ends THEN 0 ELSE id]]
      /\ fate' = [fate EXCEPT ![id] = IF stops THEN "stopped" ELSE IF ends THEN "over" ELSE fate[id]]
  BY <1>1, <1>2 DEF Hear
<1>5. /\ \A d \in Dispatchers \ {c} : caller'[d] = caller[d]
      /\ caller'[c].at = caller[c].at /\ caller'[c].block = caller[c].block
      /\ caller'[c].buffer = caller[c].buffer /\ caller'[c].todo = caller[c].todo
      /\ ends => caller'[c].fires = 0 /\ caller'[c].rest = <<>>
      /\ ~ends => caller'[c].fires = id /\ caller'[c].rest = Tail(rest)
  BY <1>3, <1>4 DEF CallerStates, EvTypes
<1>6. /\ Head(rest) \in Listeners /\ Tail(rest) \in Seq(Listeners)
      /\ Append(heard[id], Head(rest)) \in Seq(Listeners)
      /\ Append(heard[id], Head(rest)) \o Tail(rest) = gathered[id]
      /\ Len(rest) = 1 => Append(heard[id], Head(rest)) = gathered[id] /\ Tail(rest) = <<>>
      /\ ~ends => Tail(rest) # <<>>
  <2>1. PICK h : h = heard[id]
    OBVIOUS
  <2>2. h \in Seq(Listeners) /\ rest \in Seq(Listeners) /\ rest # <<>> /\ h \o rest = gathered[id]
    BY <1>3, <2>1 DEF HeardOf
  <2>3. Head(rest) \in Listeners /\ Tail(rest) \in Seq(Listeners) /\ Append(h, Head(rest)) \in Seq(Listeners)
        /\ Append(h, Head(rest)) = h \o <<Head(rest)>> /\ <<Head(rest)>> \in Seq(Listeners)
        /\ rest = <<Head(rest)>> \o Tail(rest)
    BY <2>2, LastAndFirst
  <2>4. Append(h, Head(rest)) \o Tail(rest) = gathered[id]
    BY <2>2, <2>3, Regrouped
  <2>5. Len(rest) = 1 <=> Tail(rest) = <<>>
    <3>1. Len(rest) \in Nat \ {0} /\ Len(Tail(rest)) = Len(rest) - 1 /\ Tail(rest) \in Seq(Listeners)
      BY <2>2, <2>3
    <3>2. Tail(rest) = <<>> <=> Len(Tail(rest)) = 0
      BY <3>1, EmptySeq
    <3>3. \A k \in Nat \ {0} : k = 1 <=> k - 1 = 0
      OBVIOUS
    <3> QED BY <3>1, <3>2, <3>3
  <2>6. Append(h, Head(rest)) \o <<>> = Append(h, Head(rest))
    BY <2>3
  <2> QED BY <2>1, <2>3, <2>4, <2>5, <2>6
<1>7. /\ EventIds' = EventIds
      /\ \A d \in Dispatchers : /\ caller'[d].at = caller[d].at /\ caller'[d].block = caller[d].block
                                /\ caller'[d].buffer = caller[d].buffer /\ caller'[d].todo = caller[d].todo
      /\ \A d \in Dispatchers : \A item : HasIt(d, item)' <=> HasIt(d, item)
  BY <1>4, <1>5 DEF EventIds, HasIt
<1>8. /\ \A i \in EventIds \ {id} : heard'[i] = heard[i] /\ fate'[i] = fate[i]
      /\ heard'[id] = Append(heard[id], Head(rest))
      /\ stops => fate'[id] = "stopped"
      /\ ~stops /\ ends => fate'[id] = "over" /\ Len(rest) = 1
      /\ ~ends => fate'[id] = "firing"
      /\ heard' \in [EventIds -> Seq(Listeners)] /\ fate' \in [EventIds -> Fates]
  BY <1>3, <1>4, <1>6 DEF EvTypes, Fates
<1> HIDE DEF ends
<1>9. \A d \in Dispatchers : d # c => caller[d].fires # id
  BY <1>1, <1>3 DEF EvPlaces, FiredHere
<1>10. EvTypes'
  <2>1. PICK r \in CallerStates : r = caller'[c] /\ caller' = [caller EXCEPT ![c] = r]
    <3>1. caller \in [Dispatchers -> CallerStates]
      BY <1>3 DEF EvTypes
    <3>2. [caller[c] EXCEPT !.rest = IF ends THEN <<>> ELSE Tail(rest),
                            !.fires = IF ends THEN 0 ELSE id] \in CallerStates
      <4>1. id \in Nat
        BY <1>1, <1>3 DEF CallerStates
      <4>2. (IF ends THEN <<>> ELSE Tail(rest)) \in Seq(Listeners)
        BY <1>6
      <4>3. (IF ends THEN 0 ELSE id) \in Nat
        BY <4>1
      <4> QED BY <1>3, <4>2, <4>3 DEF CallerStates
    <3> QED BY <1>4, <3>1, <3>2
  <2> QED BY <1>3, <1>4, <1>7, <1>8, <2>1 DEF EvTypes
<1>11. EvPlaces'
  <2>1. PlacedOnce' /\ PlacedHere' /\ PushedOnce'
    BY <1>3, <1>4, <1>7 DEF EvPlaces, PlacedOnce, PlacedHere, PushedOnce
  <2>2. FiredHere'
    BY <1>1, <1>3, <1>5, <1>7, <1>9 DEF EvPlaces, FiredHere
  <2>3. WaitsThere'
    BY <1>3, <1>4, <1>7, <1>8 DEF EvPlaces, WaitsThere
  <2>4. FiresThere'
    <3>1. \A i \in EventIds : i # id =>
             ((\E d \in Dispatchers : caller'[d].fires = i) <=> \E d \in Dispatchers : caller[d].fires = i)
      BY <1>1, <1>3, <1>5, <1>3a
    <3>2. (\E d \in Dispatchers : caller'[d].fires = id) <=> ~ends
      BY <1>3, <1>5, <1>9
    <3> QED BY <1>3, <1>7, <1>8, <3>1, <3>2 DEF EvPlaces, FiresThere
  <2> QED BY <2>1, <2>2, <2>3, <2>4 DEF EvPlaces
<1>12. EvLinks'
  <2>1. /\ BlocksThere' /\ PushedPlain' /\ BuffersLate' /\ TodosRight'
    BY <1>3, <1>4, <1>7
    DEF EvLinks, BlocksThere, PushedPlain, BuffersLate, TodosRight, Plain, IsLate, Defers, Queued
  <2>2. FiresRight'
    BY <1>1, <1>3, <1>4, <1>5, <1>7 DEF EvLinks, FiresRight, Plain, Defers
  <2> QED BY <2>1, <2>2 DEF EvLinks
<1>13. EvSaid'
  <2>1. \A i \in EventIds : i # id /\ Silent(i) => Silent(i)'
    BY <1>4, <1>7, <1>8 DEF Silent
  <2>2. SentOnce'
    BY <1>3, <1>4, <1>7 DEF EvSaid, SentOnce
  <2>3. SilentYet'
    <3>1. \A i \in EventIds : fate'[i] \in {"waiting", "dropped"} => Silent(i)'
      <4>1. fate'[id] \notin {"waiting", "dropped"}
        BY <1>8
      <4>2. \A i \in EventIds : i # id /\ fate[i] \in {"waiting", "dropped"} => Silent(i)'
        BY <1>3, <2>1 DEF EvSaid, SilentYet
      <4> QED BY <1>8, <4>1, <4>2
    <3>2. ASSUME NEW d \in Dispatchers, caller'[d].fires # 0, caller'[d].rest = <<>>
          PROVE  Silent(caller[d].fires)'
      <4>1. d # c
        BY <1>5, <1>6, <3>2
      <4>2. PICK i : i = caller[d].fires /\ caller'[d] = caller[d]
        BY <1>5, <4>1
      <4>3. i # 0 /\ i # id /\ i \in EventIds
        BY <1>3, <1>9, <3>2, <4>1, <4>2 DEF EvPlaces, FiredHere
      <4>4. Silent(i)
        BY <1>3, <3>2, <4>2, <4>3 DEF EvSaid, SilentYet
      <4>5. Silent(i)'
        BY <2>1, <4>3, <4>4
      <4> QED BY <4>2, <4>5 DEF Silent
    <3> QED BY <1>7, <3>1, <3>2 DEF SilentYet
  <2>4. HeardSome'
    <3>1. \A i \in EventIds : i # id => \E q \in Seq(Listeners) : HeardOf(i, q)'
      BY <1>3, <1>4, <1>8 DEF EvSaid, HeardSome, HeardOf
    <3>2. HeardOf(id, Tail(rest))'
      BY <1>4, <1>6, <1>8 DEF HeardOf
    <3>3. \A i \in EventIds : fate'[i] = "over" => heard'[i] = gathered'[i]
      BY <1>3, <1>4, <1>6, <1>8 DEF EvSaid, HeardSome
    <3> QED BY <1>6, <1>7, <3>1, <3>2, <3>3 DEF HeardSome
  <2>5. HearsRest'
    <3>1. ~ends => HeardOf(caller[c].fires, caller[c].rest)'
      <4>1. heard'[id] \o Tail(rest) = gathered'[id]
        BY <1>4, <1>6, <1>8
      <4> QED BY <1>5, <4>1 DEF HeardOf
    <3>2. \A d \in Dispatchers : d # c /\ caller[d].rest # <<>> =>
             caller[d].fires # 0 /\ caller[d].fires # id /\ HeardOf(caller[d].fires, caller[d].rest)
             /\ caller[d].fires \in EventIds
      BY <1>3, <1>9 DEF EvSaid, HearsRest, EvPlaces, FiredHere
    <3>3. \A d \in Dispatchers : d # c /\ caller'[d].rest # <<>> =>
             caller'[d].fires # 0 /\ HeardOf(caller[d].fires, caller[d].rest)'
      <4> SUFFICES ASSUME NEW d \in Dispatchers, d # c, caller'[d].rest # <<>>
                   PROVE  caller'[d].fires # 0 /\ HeardOf(caller[d].fires, caller[d].rest)'
        OBVIOUS
      <4>1. caller'[d] = caller[d]
        BY <1>5
      <4>2. caller[d].fires # 0 /\ caller[d].fires # id /\ caller[d].fires \in EventIds
            /\ heard[caller[d].fires] \o caller[d].rest = gathered[caller[d].fires]
        BY <3>2, <4>1 DEF HeardOf
      <4>3. heard'[caller[d].fires] = heard[caller[d].fires]
        BY <1>8, <4>2
      <4> QED BY <1>4, <4>1, <4>2, <4>3 DEF HeardOf
    <3> QED BY <1>3, <1>5, <3>1, <3>3 DEF HearsRest
  <2> QED BY <2>2, <2>3, <2>4, <2>5 DEF EvSaid
<1>14. EvBlocks'
  <2>1. \A i : (BlockOf(i)' = BlockOf(i)) /\ (Queued(i)' <=> Queued(i)) /\ (Defers(i)' <=> Defers(i))
    BY <1>4 DEF BlockOf, Queued, Defers
  <2>2. \A i : CastLater(i)' <=> CastLater(i)
    BY <1>4, <1>7 DEF CastLater
  <2>3. DeferredRight'
    BY <1>3, <1>4, <1>7, <1>8, <2>1 DEF EvBlocks, DeferredRight
  <2>4. \A i \in EventIds : WasFired(i)' => WasFired(i)
    <3>1. WasFired(id)
      BY <1>1, <1>2, <1>3 DEF WasFired
    <3>2. \A i \in EventIds : i # id /\ WasFired(i)' => WasFired(i)
      BY <1>3, <1>5, <1>8 DEF WasFired
    <3> QED BY <3>1, <3>2
  <2>5. \A i \in EventIds : event[i].block # 0 /\ Queued(i) /\ BlockOf(i) = "replayed" /\ fate'[i] = "over"
           => sent[i] = 1
    <3>1. BlockOf(id) = "replayed" /\ event[id].block # 0 => Plain(id)
      BY <1>1, <1>3 DEF EvLinks, FiresRight, BlocksThere, BlockOf
    <3>2. Plain(id) => ~Queued(id)
      BY DEF Plain, Queued, PlainEvent
    <3> QED BY <1>3, <1>8, <3>1, <3>2 DEF EvBlocks, CastsRight
  <2>6. CastsRight'
    BY <1>3, <1>4, <1>7, <2>1, <2>2, <2>4, <2>5 DEF EvBlocks, CastsRight
  <2> QED BY <2>3, <2>6 DEF EvBlocks
<1> QED BY <1>10, <1>11, <1>12, <1>13, <1>14 DEF EventsInv

\* The events of some items.
LEMMA EventIdsFound ==
  \A s \in Seq(Pieces) : \A i : i \in EventIdsOf(s) <=> <<i, "event">> \in Range(s)
<1> SUFFICES ASSUME NEW s \in Seq(Pieces), NEW i PROVE i \in EventIdsOf(s) <=> <<i, "event">> \in Range(s)
  OBVIOUS
<1>1. \A j \in DOMAIN s : s[j] \in Pieces
  OBVIOUS
<1>2. \A item \in Pieces : item[2] = "event" /\ item[1] = i <=> item = <<i, "event">>
  BY DEF Pieces
<1> QED BY <1>1, <1>2 DEF EventIdsOf, Range

\* A caller stops firing, and drops some of what it holds.
LetsGo(c) ==
    /\ UNCHANGED <<pushed, event, gathered, heard, sent>>
    /\ \A d \in Dispatchers \ {c} : caller'[d] = caller[d]
    /\ caller'[c].fires = 0 /\ caller'[c].rest = <<>>
    /\ caller'[c].buffer = caller[c].buffer \/ caller'[c].buffer = <<>>
    /\ caller'[c].todo = caller[c].todo \/ caller'[c].todo = <<>>
    /\ \A i \in EventIds :
          /\ i = caller[c].fires => fate'[i] = "raised"
          /\ i # caller[c].fires /\ HasIt(c, <<i, "event">>) /\ ~HasIt(c, <<i, "event">>)' => fate'[i] = "dropped"
          /\ i # caller[c].fires /\ (HasIt(c, <<i, "event">>) => HasIt(c, <<i, "event">>)') => fate'[i] = fate[i]

LetGo(c) ==
    /\ EvPlaces' /\ EvSaid' /\ EventIds' = EventIds
    /\ \A d \in Dispatchers : \A item : HasIt(d, item)' => HasIt(d, item)
    /\ \A i \in EventIds : WasFired(i)' => WasFired(i)

LEMMA LetsGoKeeps == \A c \in Dispatchers : EventsInv /\ LetsGo(c) => LetGo(c)
<1> SUFFICES ASSUME EventsInv, NEW c \in Dispatchers, LetsGo(c) PROVE LetGo(c)
  OBVIOUS
<1>1. PICK id : id = caller[c].fires
  OBVIOUS
<1>2. /\ UNCHANGED <<pushed, event, gathered, heard, sent>>
      /\ \A d \in Dispatchers \ {c} : caller'[d] = caller[d]
      /\ caller'[c].fires = 0 /\ caller'[c].rest = <<>>
      /\ \A i \in EventIds :
          /\ i = id => fate'[i] = "raised"
          /\ i # id /\ HasIt(c, <<i, "event">>) /\ ~HasIt(c, <<i, "event">>)' => fate'[i] = "dropped"
          /\ i # id /\ (HasIt(c, <<i, "event">>) => HasIt(c, <<i, "event">>)') => fate'[i] = fate[i]
  BY <1>1 DEF LetsGo
<1>3. EventIds' = EventIds /\ \A i \in EventIds : i \in Nat \ {0}
  BY <1>2, EventIdsAre DEF EventIds, EventsInv, EvTypes
<1>4. /\ Distinct(caller[c].buffer)' /\ Distinct(caller[c].todo)'
      /\ \A item : item \in Range(caller'[c].buffer) => item \in Range(caller[c].buffer)
      /\ \A item : item \in Range(caller'[c].todo) => item \in Range(caller[c].todo)
  <2>1. Distinct(caller[c].buffer) /\ Distinct(caller[c].todo)
    BY DEF EventsInv, EvPlaces, PlacedOnce
  <2>2. /\ caller'[c].buffer = caller[c].buffer \/ caller'[c].buffer = <<>>
        /\ caller'[c].todo = caller[c].todo \/ caller'[c].todo = <<>>
    BY DEF LetsGo
  <2> QED BY <2>1, <2>2, NoneHas
<1>5. /\ \A d \in Dispatchers : \A item : HasIt(d, item)' => HasIt(d, item)
      /\ \A d \in Dispatchers : \A item : d # c => (HasIt(d, item)' <=> HasIt(d, item))
  BY <1>2, <1>4 DEF HasIt
<1>6. EvTypes /\ EvPlaces /\ EvSaid
  BY DEF EventsInv
<1>7. \A i \in EventIds : <<i, "event">> \in Pieces /\ <<i, "broadcast">> \in Pieces
  BY <1>3 DEF Pieces
<1>8. EvPlaces'
  <2>1. PlacedOnce'
    BY <1>2, <1>4, <1>6 DEF EvPlaces, PlacedOnce
  <2>2. PlacedHere'
    BY <1>3, <1>5, <1>6 DEF EvPlaces, PlacedHere
  <2>3. FiredHere'
    <3> SUFFICES ASSUME NEW d \in Dispatchers, caller'[d].fires # 0
                 PROVE  /\ caller'[d].fires \in EventIds
                        /\ \A e \in Dispatchers : e # d => caller'[e].fires # caller'[d].fires
      BY <1>3 DEF FiredHere
    <3>1. d # c /\ caller'[d] = caller[d]
      BY <1>2
    <3>2. /\ caller[d].fires \in EventIds
          /\ \A e \in Dispatchers : e # d => caller[e].fires # caller[d].fires
      BY <1>6, <3>1 DEF EvPlaces, FiredHere
    <3> QED BY <1>2, <3>1, <3>2
  <2>4. PushedOnce'
    BY <1>2, <1>3, <1>5, <1>6 DEF EvPlaces, PushedOnce
  <2>5. WaitsThere'
    <3> SUFFICES ASSUME NEW i \in EventIds
                 PROVE  fate'[i] = "waiting" <=>
                           i \in Range(pushed) \/ \E d \in Dispatchers : HasIt(d, <<i, "event">>)'
      BY <1>2, <1>3 DEF WaitsThere
    <3>1. fate[i] = "waiting" <=> i \in Range(pushed) \/ \E d \in Dispatchers : HasIt(d, <<i, "event">>)
      BY <1>6 DEF EvPlaces, WaitsThere
    <3>2. CASE i = id
      <4>1. fate[i] = "firing"
        BY <1>1, <1>6, <3>2 DEF EvPlaces, FiresThere
      <4> QED BY <1>2, <1>5, <3>1, <3>2, <4>1
    <3>3. CASE i # id /\ HasIt(c, <<i, "event">>) /\ ~HasIt(c, <<i, "event">>)'
      <4>1. i \notin Range(pushed) /\ \A d \in Dispatchers : d # c => ~HasIt(d, <<i, "event">>)
        BY <1>6, <1>7, <3>3 DEF EvPlaces, PushedOnce, PlacedHere
      <4> QED BY <1>2, <1>5, <3>3, <4>1
    <3>4. CASE i # id /\ (HasIt(c, <<i, "event">>) => HasIt(c, <<i, "event">>)')
      BY <1>2, <1>5, <3>1, <3>4
    <3> QED BY <3>2, <3>3, <3>4
  <2>6. FiresThere'
    <3> SUFFICES ASSUME NEW i \in EventIds
                 PROVE  fate'[i] = "firing" <=> \E d \in Dispatchers : caller'[d].fires = i
      BY <1>3 DEF FiresThere
    <3>1. fate[i] = "firing" <=> \E d \in Dispatchers : caller[d].fires = i
      BY <1>6 DEF EvPlaces, FiresThere
    <3>2. CASE i = id
      <4>1. \A d \in Dispatchers : d # c => caller[d].fires # i
        BY <1>1, <1>3, <1>6, <3>2 DEF EvPlaces, FiredHere
      <4>2. \A d \in Dispatchers : caller'[d].fires # i
        BY <1>2, <1>3, <4>1
      <4> QED BY <1>2, <3>2, <4>2
    <3>3. CASE i # id
      <4>1. (\E d \in Dispatchers : caller'[d].fires = i) <=> \E d \in Dispatchers : caller[d].fires = i
        BY <1>1, <1>2, <1>3, <3>3
      <4>2. HasIt(c, <<i, "event">>) => fate[i] = "waiting"
        BY <1>6 DEF EvPlaces, WaitsThere
      <4> QED BY <1>2, <3>1, <3>3, <4>1, <4>2
    <3> QED BY <3>2, <3>3
  <2> QED BY <2>1, <2>2, <2>3, <2>4, <2>5, <2>6 DEF EvPlaces
<1>9. EvSaid'
  <2>1. \A i \in EventIds : Silent(i) => Silent(i)'
    BY <1>2, <1>5 DEF Silent
  <2>2. SentOnce'
    BY <1>2, <1>3, <1>5, <1>6 DEF EvSaid, SentOnce
  <2>3. SilentYet'
    <3>1. ASSUME NEW i \in EventIds, fate'[i] \in {"waiting", "dropped"} PROVE Silent(i)'
      <4>1. fate[i] \in {"waiting", "dropped"}
        BY <1>2, <1>6, <3>1 DEF EvPlaces, WaitsThere
      <4> QED BY <1>6, <2>1, <4>1 DEF EvSaid, SilentYet
    <3>2. ASSUME NEW d \in Dispatchers, caller'[d].fires # 0, caller'[d].rest = <<>>
          PROVE  Silent(caller[d].fires)'
      <4>1. caller'[d] = caller[d]
        BY <1>2, <3>2
      <4>2. caller[d].fires \in EventIds /\ Silent(caller[d].fires)
        BY <1>6, <3>2, <4>1 DEF EvSaid, SilentYet, EvPlaces, FiredHere
      <4> QED BY <1>2, <1>5, <4>1, <4>2 DEF Silent
    <3> QED BY <1>3, <3>1, <3>2 DEF SilentYet
  <2>4. HeardSome'
    <3>1. \A i \in EventIds : fate'[i] = "over" => fate[i] = "over"
      BY <1>2
    <3> QED BY <1>2, <1>3, <1>6, <3>1 DEF EvSaid, HeardSome, HeardOf
  <2>5. HearsRest'
    BY <1>2, <1>6 DEF EvSaid, HearsRest, HeardOf
  <2> QED BY <2>2, <2>3, <2>4, <2>5 DEF EvSaid
<1>10. ASSUME NEW i \in EventIds, WasFired(i)' PROVE WasFired(i)
  BY <1>2, <1>10 DEF WasFired
<1> QED BY <1>3, <1>5, <1>8, <1>9, <1>10 DEF LetGo

\* What a caller's item is, and where an event that defers waits.
LEMMA ItemsTyped ==
  EventsInv =>
    /\ \A c \in Dispatchers : /\ caller[c].buffer \in Seq(Pieces) /\ caller[c].todo \in Seq(Pieces)
                              /\ caller[c].rest \in Seq(Listeners) /\ caller[c].block \in Nat
                              /\ caller[c].fires \in Nat /\ caller[c] \in CallerStates
    /\ \A c \in Dispatchers : \A item : HasIt(c, item) => item \in Pieces
    /\ \A c \in Dispatchers : \A i :
          HasIt(c, <<i, "event">>) <=> i \in EventIdsOf(caller[c].buffer) \/ i \in EventIdsOf(caller[c].todo)
<1> SUFFICES ASSUME EventsInv
             PROVE  /\ \A c \in Dispatchers :
                          /\ caller[c].buffer \in Seq(Pieces) /\ caller[c].todo \in Seq(Pieces)
                          /\ caller[c].rest \in Seq(Listeners) /\ caller[c].block \in Nat
                          /\ caller[c].fires \in Nat /\ caller[c] \in CallerStates
                    /\ \A c \in Dispatchers : \A item : HasIt(c, item) => item \in Pieces
                    /\ \A c \in Dispatchers : \A i :
                          HasIt(c, <<i, "event">>) <=>
                             i \in EventIdsOf(caller[c].buffer) \/ i \in EventIdsOf(caller[c].todo)
  OBVIOUS
<1>1. \A c \in Dispatchers :
         /\ caller[c].buffer \in Seq(Pieces) /\ caller[c].todo \in Seq(Pieces)
         /\ caller[c].rest \in Seq(Listeners) /\ caller[c].block \in Nat
         /\ caller[c].fires \in Nat /\ caller[c] \in CallerStates
  BY DEF EventsInv, EvTypes, CallerStates
<1>2. \A s \in Seq(Pieces) : \A item \in Range(s) : item \in Pieces
  BY DEF Range
<1>3. \A c \in Dispatchers : \A item : HasIt(c, item) => item \in Pieces
  BY <1>1, <1>2 DEF HasIt
<1>4. \A c \in Dispatchers : \A i :
         HasIt(c, <<i, "event">>) <=> i \in EventIdsOf(caller[c].buffer) \/ i \in EventIdsOf(caller[c].todo)
  BY <1>1, EventIdsFound DEF HasIt
<1> QED BY <1>1, <1>3, <1>4

LEMMA DeferredWaits ==
  ASSUME EventsInv, NEW i \in EventIds, event[i].block # 0, NEW c \in Dispatchers,
         caller[c].block = event[i].block
  PROVE  /\ ~Plain(i) \/ (~Defers(i) /\ ~Queued(i))
         /\ Defers(i) /\ fate[i] = "waiting" => HasIt(c, <<i, "event">>)
         /\ Defers(i) /\ fate[i] = "firing" => caller[c].fires = i
         /\ CastLater(i) => HasIt(c, <<i, "broadcast">>)
<1>1. Plain(i) => ~Defers(i) /\ ~Queued(i)
  BY DEF Plain, Defers, Queued, PlainEvent, Deferrable
<1>2. \A d \in Dispatchers : d # c => caller[d].block # event[i].block
  BY DEF EventsInv, EvLinks, BlocksThere
<1>3. ASSUME Defers(i), fate[i] = "waiting" PROVE HasIt(c, <<i, "event">>)
  <2>1. i \notin Range(pushed)
    BY <1>1, <1>3 DEF EventsInv, EvLinks, PushedPlain
  <2>2. PICK d \in Dispatchers : HasIt(d, <<i, "event">>)
    BY <1>3, <2>1 DEF EventsInv, EvPlaces, WaitsThere
  <2>3. <<i, "event">>[1] = i
    OBVIOUS
  <2>4. CASE <<i, "event">> \in Range(caller[d].buffer)
    <3>1. event[i].block = caller[d].block
      BY <2>3, <2>4 DEF EventsInv, EvLinks, BuffersLate
    <3> QED BY <1>2, <2>2, <3>1
  <2>5. CASE <<i, "event">> \in Range(caller[d].todo)
    <3>1. caller[d].at # "replay" => Plain(i)
      BY <2>3, <2>5 DEF EventsInv, EvLinks, TodosRight
    <3>2. caller[d].at = "replay" => event[i].block = caller[d].block
      BY <2>3, <2>5 DEF EventsInv, EvLinks, TodosRight
    <3> QED BY <1>1, <1>2, <1>3, <2>2, <3>1, <3>2
  <2> QED BY <2>2, <2>4, <2>5 DEF HasIt
<1>4. ASSUME Defers(i), fate[i] = "firing" PROVE caller[c].fires = i
  <2>1. PICK d \in Dispatchers : caller[d].fires = i
    BY <1>4 DEF EventsInv, EvPlaces, FiresThere
  <2>2. i # 0
    BY EventIdsAre DEF EventsInv, EvTypes
  <2>3. Plain(i) \/ event[i].block = caller[d].block
    BY <2>1, <2>2 DEF EventsInv, EvLinks, FiresRight
  <2> QED BY <1>1, <1>2, <1>4, <2>1, <2>3
<1>5. CastLater(i) => HasIt(c, <<i, "broadcast">>)
  BY <1>2 DEF CastLater
<1> QED BY <1>1, <1>3, <1>4, <1>5

\* A listener, a broadcast or a push raises.
LEMMA RaisesKeep == ASSUME EventsInv, NEW c \in Dispatchers, Raises(c) PROVE EventsInv'
<1>1. PICK id : id = caller[c].fires
  OBVIOUS
<1>2. PICK gone : gone = IF caller[c].at = "replay" THEN {} ELSE EventIdsOf(caller[c].todo)
  OBVIOUS
<1>3. /\ UNCHANGED <<listeners, pushed, txBlock, event, gathered, heard, sent>> /\ id # 0
      /\ caller' = [caller EXCEPT ![c] = [caller[c] EXCEPT !.fires = 0, !.rest = <<>>,
                       !.todo = IF caller[c].at = "replay" THEN caller[c].todo ELSE <<>>]]
      /\ fate' = [WithDropped(gone) EXCEPT ![id] = "raised"]
  BY <1>1, <1>2 DEF Raises
<1>4. caller \in [Dispatchers -> CallerStates] /\ caller[c] \in CallerStates /\ fate \in [EventIds -> Fates]
  BY DEF EventsInv, EvTypes
<1>5. /\ \A d \in Dispatchers \ {c} : caller'[d] = caller[d]
      /\ caller'[c].at = caller[c].at /\ caller'[c].block = caller[c].block
      /\ caller'[c].fires = 0 /\ caller'[c].rest = <<>> /\ caller'[c].buffer = caller[c].buffer
      /\ caller[c].at = "replay" => caller'[c].todo = caller[c].todo
      /\ caller[c].at # "replay" => caller'[c].todo = <<>>
  BY <1>3, <1>4 DEF CallerStates
<1>6. /\ \A i \in EventIds : fate'[i] = IF i = id THEN "raised" ELSE IF i \in gone THEN "dropped" ELSE fate[i]
      /\ fate' \in [EventIds -> Fates]
  BY <1>3, <1>4 DEF WithDropped, Fates
<1>7. \A i : i \in gone <=> HasIt(c, <<i, "event">>) /\ ~HasIt(c, <<i, "event">>)'
  <2>1. \A i : HasIt(c, <<i, "event">>) <=>
                  <<i, "event">> \in Range(caller[c].buffer) \/ i \in EventIdsOf(caller[c].todo)
    BY ItemsTyped, EventIdsFound DEF HasIt
  <2>2. \A i : i \in EventIdsOf(caller[c].todo) => <<i, "event">> \notin Range(caller[c].buffer)
    BY ItemsTyped, EventIdsFound DEF EventsInv, EvPlaces, PlacedOnce
  <2> QED BY <1>2, <1>5, <2>1, <2>2, NoneHas DEF HasIt
<1>8. LetsGo(c)
  BY <1>1, <1>3, <1>5, <1>6, <1>7 DEF LetsGo
<1>9. /\ EvPlaces' /\ EvSaid' /\ EventIds' = EventIds
      /\ \A d \in Dispatchers : \A item : HasIt(d, item)' => HasIt(d, item)
      /\ \A i \in EventIds : WasFired(i)' => WasFired(i)
  BY <1>8, LetsGoKeeps DEF LetGo
<1>10. EvTypes'
  <2>1. [caller[c] EXCEPT !.fires = 0, !.rest = <<>>,
                       !.todo = IF caller[c].at = "replay" THEN caller[c].todo ELSE <<>>] \in CallerStates
    <3>1. (IF caller[c].at = "replay" THEN caller[c].todo ELSE <<>>) \in Seq(Pieces) /\ <<>> \in Seq(Listeners)
      BY ItemsTyped
    <3> QED BY <1>4, <3>1 DEF CallerStates
  <2>2. caller' \in [Dispatchers -> CallerStates]
    BY <1>3, <1>4, <2>1
  <2> QED BY <1>3, <1>6, <1>9, <2>2 DEF EventsInv, EvTypes
<1>11. /\ \A i : /\ (Plain(i)' <=> Plain(i)) /\ (Defers(i)' <=> Defers(i)) /\ (Queued(i)' <=> Queued(i))
                 /\ BlockOf(i)' = BlockOf(i)
       /\ \A item : IsLate(item)' <=> IsLate(item)
  BY <1>3 DEF Plain, Defers, Queued, BlockOf, IsLate
<1>12. EvLinks'
  <2>1. BlocksThere' /\ PushedPlain' /\ FiresRight' /\ BuffersLate'
    BY <1>3, <1>5, <1>9, <1>11
    DEF EventsInv, EvLinks, BlocksThere, PushedPlain, FiresRight, BuffersLate
  <2>2. TodosRight'
    BY <1>3, <1>5, <1>9, <1>11, NoneHas DEF EventsInv, EvLinks, TodosRight
  <2> QED BY <2>1, <2>2 DEF EvLinks
<1>13. id \in EventIds /\ fate[id] = "firing"
  BY <1>1, <1>3 DEF EventsInv, EvPlaces, FiredHere, FiresThere
<1>14. \A i : i \in gone => Plain(i)
  <2>1. \A item \in Range(caller[c].todo) : caller[c].at # "replay" => Plain(item[1])
    BY DEF EventsInv, EvLinks, TodosRight
  <2>2. \A i : <<i, "event">>[1] = i
    OBVIOUS
  <2>3. \A i : i \in gone => caller[c].at # "replay" /\ <<i, "event">> \in Range(caller[c].todo)
    BY <1>2, ItemsTyped, EventIdsFound
  <2> QED BY <2>1, <2>2, <2>3
<1>15. DeferredRight'
  <2>1. \A i \in EventIds : Defers(i) => (fate'[i] = fate[i] \/ i = id)
    <3>1. \A i : Plain(i) => ~Defers(i)
      BY DEF Plain, Defers, PlainEvent, Deferrable
    <3> QED BY <1>6, <1>14, <3>1
  <2> QED BY <1>3, <1>6, <1>9, <1>11, <1>13, <2>1 DEF EventsInv, EvBlocks, DeferredRight
<1>16. CastsRight'
  <2>1. ASSUME NEW i \in EventIds, CastLater(i) PROVE CastLater(i)'
    <3>1. PICK d \in Dispatchers : caller[d].block = event[i].block /\ HasIt(d, <<i, "broadcast">>)
      BY <2>1 DEF CastLater
    <3>2. caller'[d].block = event'[i].block
      BY <1>3, <1>5, <3>1
    <3>3. HasIt(d, <<i, "broadcast">>)'
      <4>1. CASE d = c /\ caller[c].at # "replay"
        <5>1. <<i, "broadcast">> \notin Range(caller[c].todo)
          BY <4>1 DEF EventsInv, EvLinks, TodosRight
        <5> QED BY <1>5, <3>1, <4>1, <5>1 DEF HasIt
      <4>2. CASE d # c \/ caller[c].at = "replay"
        BY <1>5, <3>1, <4>2 DEF HasIt
      <4> QED BY <4>1, <4>2
    <3> QED BY <3>2, <3>3 DEF CastLater
  <2>2. \A i \in EventIds : fate'[i] = "over" => fate[i] = "over"
    BY <1>6
  <2> QED BY <1>3, <1>9, <1>11, <2>1, <2>2 DEF EventsInv, EvBlocks, CastsRight
<1> QED BY <1>9, <1>10, <1>12, <1>15, <1>16 DEF EventsInv, EvBlocks

LEMMA OneReplaced ==
  \A T : \A s \in Seq(T) : \A k \in 1..Len(s), x \in T :
     /\ [s EXCEPT ![k] = x] \in Seq(T) /\ Len([s EXCEPT ![k] = x]) = Len(s)
     /\ [s EXCEPT ![k] = x][k] = x /\ \A j \in 1..Len(s) : j # k => [s EXCEPT ![k] = x][j] = s[j]
  OBVIOUS

\* A caller leaves its block, or is cancelled, with nothing in its hands.
Ends(c, state) ==
    /\ state \in States
    /\ caller[c].block = 0 => txBlock' = txBlock
    /\ caller[c].block # 0 => txBlock' = [txBlock EXCEPT ![caller[c].block] = state]
    /\ caller[c].at = "body" => state = "rolled back"
    /\ caller[c].at = "replay" =>
          state = "cut" \/ (state = "replayed" /\ caller[c].fires = 0 /\ caller[c].todo = <<>>)
GoesAway(c, r) ==
    /\ UNCHANGED <<listeners, pushed, event, gathered, heard, sent>>
    /\ caller' = [caller EXCEPT ![c] = r]
    /\ r \in CallerStates /\ r.at \notin {"body", "replay"} /\ r.block = 0 /\ r.fires = 0
    /\ r.buffer = <<>> /\ r.todo = <<>> /\ r.rest = <<>>
    /\ \A i \in EventIds :
          /\ i = caller[c].fires => fate'[i] = "raised"
          /\ i # caller[c].fires /\ HasIt(c, <<i, "event">>) => fate'[i] = "dropped"
          /\ i # caller[c].fires /\ ~HasIt(c, <<i, "event">>) => fate'[i] = fate[i]
    /\ fate' \in [EventIds -> Fates]
    /\ \E state \in States : Ends(c, state)

LEMMA LeavesKeeps == \A c \in Dispatchers : \A r : EventsInv /\ GoesAway(c, r) => EventsInv'
<1> SUFFICES ASSUME EventsInv, NEW c \in Dispatchers, NEW r, GoesAway(c, r) PROVE EventsInv'
  OBVIOUS
<1>1. PICK id \in Nat : id = caller[c].fires
  BY ItemsTyped
<1>2. PICK b \in Nat : b = caller[c].block
  BY ItemsTyped
<1>3. PICK state \in States :
         /\ b = 0 => txBlock' = txBlock
         /\ b # 0 => txBlock' = [txBlock EXCEPT ![b] = state]
         /\ caller[c].at = "body" => state = "rolled back"
         /\ caller[c].at = "replay" => state = "cut" \/ (state = "replayed" /\ id = 0 /\ caller[c].todo = <<>>)
  BY <1>1, <1>2 DEF GoesAway, Ends
<1>4. caller \in [Dispatchers -> CallerStates] /\ caller' = [caller EXCEPT ![c] = r] /\ r \in CallerStates
  BY DEF EventsInv, EvTypes, GoesAway
<1>5. /\ \A d \in Dispatchers \ {c} : caller'[d] = caller[d]
      /\ caller'[c].at \notin {"body", "replay"} /\ caller'[c].block = 0
      /\ caller'[c].fires = 0 /\ caller'[c].rest = <<>>
      /\ caller'[c].buffer = <<>> /\ caller'[c].todo = <<>>
  BY <1>4 DEF GoesAway
<1>6. /\ UNCHANGED <<listeners, pushed, event, gathered, heard, sent>> /\ fate' \in [EventIds -> Fates]
      /\ \A i \in EventIds :
          /\ i = id => fate'[i] = "raised"
          /\ i # id /\ HasIt(c, <<i, "event">>) => fate'[i] = "dropped"
          /\ i # id /\ ~HasIt(c, <<i, "event">>) => fate'[i] = fate[i]
  BY <1>1 DEF GoesAway
<1>7. \A item : ~HasIt(c, item)'
  BY <1>5, NoneHas DEF HasIt
<1>8. LetsGo(c)
  BY <1>1, <1>5, <1>6, <1>7 DEF LetsGo
<1>9. /\ EvPlaces' /\ EvSaid' /\ EventIds' = EventIds
      /\ \A d \in Dispatchers : \A item : HasIt(d, item)' => HasIt(d, item)
      /\ \A i \in EventIds : WasFired(i)' => WasFired(i)
  BY <1>8, LetsGoKeeps DEF LetGo
<1>10. /\ txBlock \in Seq(States) /\ txBlock' \in Seq(States) /\ Len(txBlock') = Len(txBlock)
       /\ Len(txBlock) \in Nat
       /\ \A k \in 1..Len(txBlock) : k # b => txBlock'[k] = txBlock[k]
       /\ b # 0 => b \in 1..Len(txBlock) /\ txBlock'[b] = state
  <2>1. txBlock \in Seq(States)
    BY DEF EventsInv, EvTypes
  <2>2. b \in 0..Len(txBlock) /\ Len(txBlock) \in Nat
    BY <1>2, <2>1 DEF EventsInv, EvLinks, BlocksThere
  <2>3. b # 0 => b \in 1..Len(txBlock)
    BY <2>2
  <2>4. CASE b = 0
    BY <1>3, <2>1, <2>2, <2>4
  <2>5. CASE b # 0
    <3>1. PICK t : t = [txBlock EXCEPT ![b] = state]
      OBVIOUS
    <3>2. /\ t \in Seq(States) /\ Len(t) = Len(txBlock) /\ t[b] = state
          /\ \A k \in 1..Len(txBlock) : k # b => t[k] = txBlock[k]
      BY ONLY <2>1, <2>3, <2>5, <3>1, state \in States, OneReplaced
    <3> QED BY <1>3, <2>1, <2>2, <2>3, <2>5, <3>1, <3>2
  <2> QED BY <2>4, <2>5
<1>11. EvTypes'
  <2>1. caller' \in [Dispatchers -> CallerStates]
    BY <1>4
  <2> QED BY <1>6, <1>9, <1>10, <2>1 DEF EventsInv, EvTypes
<1>12. /\ \A i : /\ (Plain(i)' <=> Plain(i)) /\ (Defers(i)' <=> Defers(i)) /\ (Queued(i)' <=> Queued(i))
       /\ \A item : IsLate(item)' <=> IsLate(item)
  BY <1>6 DEF Plain, Defers, Queued, IsLate
<1>13. EvLinks'
  <2>1. BlocksThere'
    <3>1. \A i \in EventIds' : event'[i].block \in 0..Len(txBlock')
      BY <1>6, <1>9, <1>10 DEF EventsInv, EvLinks, BlocksThere
    <3>2. ASSUME NEW d \in Dispatchers
          PROVE  /\ caller'[d].block \in 0..Len(txBlock')
                 /\ caller'[d].at \in {"body", "replay"} <=> caller'[d].block # 0
                 /\ caller'[d].at = "body" => txBlock'[caller'[d].block] = "open"
                 /\ caller'[d].at = "replay" => txBlock'[caller'[d].block] = "committed"
                 /\ caller'[d].block # 0 => \A e \in Dispatchers : e # d => caller'[e].block # caller'[d].block
      <4>1. CASE d = c
        BY <1>5, <1>10, <4>1
      <4>2. CASE d # c
        <5>1. /\ caller'[d] = caller[d]
              /\ caller[d].block \in 0..Len(txBlock)
              /\ caller[d].at \in {"body", "replay"} <=> caller[d].block # 0
              /\ caller[d].at = "body" => txBlock[caller[d].block] = "open"
              /\ caller[d].at = "replay" => txBlock[caller[d].block] = "committed"
              /\ caller[d].block # 0 => \A e \in Dispatchers : e # d => caller[e].block # caller[d].block
          BY <1>5, <4>2 DEF EventsInv, EvLinks, BlocksThere
        <5>2. caller[d].block # 0 => caller[d].block # b /\ caller[d].block \in 1..Len(txBlock)
          BY <1>2, <1>10, <4>2, <5>1
        <5>3. caller[d].block # 0 => txBlock'[caller[d].block] = txBlock[caller[d].block]
          BY <1>10, <5>2
        <5>4. caller[d].block # 0 => \A e \in Dispatchers : e # d => caller'[e].block # caller[d].block
          BY <1>5, <5>1
        <5> QED BY <1>10, <5>1, <5>3, <5>4
      <4> QED BY <4>1, <4>2
    <3> QED BY <3>1, <3>2 DEF BlocksThere
  <2>2. PushedPlain'
    BY <1>6, <1>12 DEF EventsInv, EvLinks, PushedPlain
  <2>3. BuffersLate'
    BY <1>5, <1>6, <1>12, NoneHas DEF EventsInv, EvLinks, BuffersLate
  <2>4. TodosRight'
    BY <1>5, <1>6, <1>12, NoneHas DEF EventsInv, EvLinks, TodosRight
  <2>5. FiresRight'
    BY <1>5, <1>6, <1>12 DEF EventsInv, EvLinks, FiresRight
  <2> QED BY <2>1, <2>2, <2>3, <2>4, <2>5 DEF EvLinks
<1>14. ASSUME NEW i \in EventIds, event[i].block # 0, event[i].block = b
       PROVE  /\ BlockOf(i)' = state
              /\ caller[c].at = "body" => BlockOf(i) = "open"
              /\ caller[c].at = "replay" => BlockOf(i) = "committed"
              /\ caller[c].at \in {"body", "replay"}
  <2>1. BlockOf(i)' = txBlock'[b] /\ BlockOf(i) = txBlock[b]
    BY <1>6, <1>14 DEF BlockOf
  <2>2. /\ caller[c].at \in {"body", "replay"}
        /\ caller[c].at = "body" => txBlock[b] = "open"
        /\ caller[c].at = "replay" => txBlock[b] = "committed"
    BY <1>2, <1>14 DEF EventsInv, EvLinks, BlocksThere
  <2> QED BY <1>10, <1>14, <2>1, <2>2
<1>15. ASSUME NEW i \in EventIds, event[i].block # 0, event[i].block # b
       PROVE  /\ BlockOf(i)' = BlockOf(i)
              /\ Defers(i) => fate'[i] = fate[i]
              /\ CastLater(i) => CastLater(i)'
  <2>1. event[i].block \in 1..Len(txBlock)
    BY <1>10, <1>15 DEF EventsInv, EvLinks, BlocksThere
  <2>2. Plain(i) => ~Defers(i)
    BY DEF Plain, Defers, PlainEvent, Deferrable
  <2>3. i = id => Plain(i)
    <3>1. i # 0
      BY EventIdsAre DEF EventsInv, EvTypes
    <3> QED BY <1>1, <1>2, <1>15, <3>1 DEF EventsInv, EvLinks, FiresRight
  <2>4. HasIt(c, <<i, "event">>) => Plain(i)
    <3>1. <<i, "event">>[1] = i
      OBVIOUS
    <3>2. <<i, "event">> \in Range(caller[c].buffer) => event[i].block = b
      BY <1>2, <3>1 DEF EventsInv, EvLinks, BuffersLate
    <3>3. <<i, "event">> \in Range(caller[c].todo) => event[i].block = b \/ Plain(i)
      BY <1>2, <3>1 DEF EventsInv, EvLinks, TodosRight
    <3> QED BY <1>15, <3>2, <3>3 DEF HasIt
  <2>5. ASSUME CastLater(i) PROVE CastLater(i)'
    <3>1. PICK d \in Dispatchers : caller[d].block = event[i].block /\ HasIt(d, <<i, "broadcast">>)
      BY <2>5 DEF CastLater
    <3>2. d # c
      BY <1>2, <1>15, <3>1
    <3>3. HasIt(d, <<i, "broadcast">>)' /\ caller'[d].block = event'[i].block
      BY <1>5, <1>6, <3>1, <3>2 DEF HasIt
    <3> QED BY <3>3 DEF CastLater
  <2>6. BlockOf(i)' = BlockOf(i)
    BY <1>6, <1>10, <1>15, <2>1 DEF BlockOf
  <2> QED BY <1>6, <2>2, <2>3, <2>4, <2>5, <2>6
<1>16. ASSUME NEW i \in EventIds, event[i].block # 0, event[i].block = b
       PROVE  /\ Defers(i) /\ fate[i] = "waiting" => HasIt(c, <<i, "event">>)
              /\ Defers(i) /\ fate[i] = "firing" => id = i
              /\ CastLater(i) => HasIt(c, <<i, "broadcast">>)
              /\ fate[i] = "waiting" => i # id
  <2>1. fate[i] = "waiting" => i # id
    BY <1>1 DEF EventsInv, EvPlaces, FiresThere
  <2> QED BY <1>1, <1>2, <1>16, <2>1, DeferredWaits
<1>17. state = "replayed" /\ caller[c].at = "replay" => id = 0 /\ \A item : ~HasIt(c, item)
  <2>1. caller[c].at = "replay" => Range(caller[c].buffer) = {}
    BY DEF EventsInv, EvLinks, BuffersLate
  <2> QED BY <1>3, <2>1, NoneHas DEF HasIt
<1>18. \A i \in EventIds : i # 0 /\ fate[i] \in Fates
  BY EventIdsAre DEF EventsInv, EvTypes
<1>19. DeferredRight'
  <2> SUFFICES ASSUME NEW i \in EventIds, event[i].block # 0, Defers(i)
               PROVE  /\ BlockOf(i)' = "open" => fate'[i] = "waiting"
                      /\ BlockOf(i)' = "committed" => fate'[i] # "dropped"
                      /\ BlockOf(i)' = "rolled back" => fate'[i] = "dropped"
                      /\ BlockOf(i)' = "replayed" => fate'[i] \in {"over", "stopped", "raised"}
    BY <1>6, <1>9, <1>12 DEF DeferredRight
  <2>1. /\ BlockOf(i) = "open" => fate[i] = "waiting"
        /\ BlockOf(i) = "committed" => fate[i] # "dropped"
        /\ BlockOf(i) = "rolled back" => fate[i] = "dropped"
        /\ BlockOf(i) = "replayed" => fate[i] \in {"over", "stopped", "raised"}
    BY DEF EventsInv, EvBlocks, DeferredRight
  <2>2. CASE event[i].block # b
    BY <1>15, <2>1, <2>2
  <2>3. CASE event[i].block = b
    <3>1. CASE caller[c].at = "body"
      <4>1. BlockOf(i)' = "rolled back" /\ fate[i] = "waiting"
        BY <1>3, <1>14, <2>1, <2>3, <3>1
      <4>2. fate'[i] = "dropped"
        BY <1>6, <1>16, <2>3, <4>1
      <4> QED BY <4>1, <4>2
    <3>2. CASE caller[c].at = "replay" /\ state = "replayed"
      <4>1. BlockOf(i)' = "replayed" /\ fate[i] # "dropped"
        BY <1>14, <2>1, <2>3, <3>2
      <4>2. id = 0 /\ \A item : ~HasIt(c, item)
        BY <1>17, <3>2
      <4>3. fate[i] \notin {"waiting", "firing"} /\ i # id
        BY <1>16, <1>18, <2>3, <4>2
      <4>4. fate'[i] = fate[i]
        BY <1>6, <4>2, <4>3
      <4>5. fate[i] \in {"over", "stopped", "raised"}
        BY <1>18, <4>1, <4>3 DEF Fates
      <4> QED BY <4>1, <4>4, <4>5
    <3>3. CASE caller[c].at = "replay" /\ state = "cut"
      BY <1>14, <2>3, <3>3
    <3> QED BY <1>3, <1>14, <2>3, <3>1, <3>2, <3>3
  <2> QED BY <2>2, <2>3
<1>20. CastsRight'
  <2> SUFFICES ASSUME NEW i \in EventIds, event[i].block # 0, Queued(i)
               PROVE  /\ BlockOf(i)' \in {"open", "rolled back"} => sent[i] = 0
                      /\ BlockOf(i)' \in {"open", "committed"} /\ WasFired(i)' => sent[i] = 1 \/ CastLater(i)'
                      /\ BlockOf(i)' = "replayed" /\ fate'[i] = "over" => sent[i] = 1
    BY <1>6, <1>9, <1>12 DEF CastsRight
  <2>1. /\ BlockOf(i) \in {"open", "rolled back"} => sent[i] = 0
        /\ BlockOf(i) \in {"open", "committed"} /\ WasFired(i) => sent[i] = 1 \/ CastLater(i)
        /\ BlockOf(i) = "replayed" /\ fate[i] = "over" => sent[i] = 1
    BY DEF EventsInv, EvBlocks, CastsRight
  <2>2. fate'[i] = "over" => fate[i] = "over"
    BY <1>6
  <2>3. CASE event[i].block # b
    BY <1>9, <1>15, <2>1, <2>2, <2>3
  <2>4. CASE event[i].block = b
    <3>1. CASE caller[c].at = "body"
      BY <1>3, <1>14, <2>1, <2>4, <3>1
    <3>2. CASE caller[c].at = "replay" /\ state = "replayed"
      <4>1. BlockOf(i)' = "replayed" /\ BlockOf(i) = "committed"
        BY <1>14, <2>4, <3>2
      <4>2. ~CastLater(i)
        BY <1>16, <1>17, <2>4, <3>2
      <4>3. fate[i] = "over" => WasFired(i)
        BY DEF WasFired
      <4> QED BY <2>1, <2>2, <4>1, <4>2, <4>3
    <3>3. CASE caller[c].at = "replay" /\ state = "cut"
      BY <1>14, <2>4, <3>3
    <3> QED BY <1>3, <1>14, <2>4, <3>1, <3>2, <3>3
  <2> QED BY <2>3, <2>4
<1> QED BY <1>9, <1>11, <1>13, <1>19, <1>20 DEF EventsInv, EvBlocks

LEMMA GoingKeeps ==
  ASSUME EventsInv, NEW c \in Dispatchers, Replayed(c) \/ RollBackBlock(c) \/ CancelCaller(c)
  PROVE  EventsInv'
<1>1. /\ \A i : i \in EventIdsOf(caller[c].buffer) \/ i \in EventIdsOf(caller[c].todo) <=> HasIt(c, <<i, "event">>)
      /\ caller[c].buffer \in Seq(Pieces) /\ caller[c].todo \in Seq(Pieces)
  BY ItemsTyped
<1>2. fate \in [EventIds -> Fates] /\ \A i \in EventIds : i # 0
  BY EventIdsAre DEF EventsInv, EvTypes
<1>3. NothingToFire \in CallerStates /\ [NothingToFire EXCEPT !.at = "cancelled"] \in CallerStates
  <2>1. NothingToFire \in CallerStates
    BY DEF NothingToFire, CallerStates
  <2>2. \A r \in CallerStates : [r EXCEPT !.at = "cancelled"] \in CallerStates
    BY DEF CallerStates
  <2> QED BY <2>1, <2>2
<1>4. caller[c].at \in {"body", "replay"} <=> caller[c].block # 0
  BY DEF EventsInv, EvLinks, BlocksThere
<1>5. EventIdsOf(<<>>) = {}
  BY DEF EventIdsOf
<1>6. CASE Replayed(c)
  <2>1. \A i : ~HasIt(c, <<i, "event">>)
    <3>1. Range(caller[c].buffer) = {}
      BY <1>6 DEF Replayed, EventsInv, EvLinks, BuffersLate
    <3> QED BY <1>6, <3>1, NoneHas DEF HasIt, Replayed
  <2>2. Ends(c, "replayed") /\ "replayed" \in States
    BY <1>4, <1>6 DEF Replayed, Ends, States
  <2>3. GoesAway(c, NothingToFire)
    BY <1>2, <1>3, <1>6, <2>1, <2>2 DEF Replayed, GoesAway, NothingToFire, eventPast
  <2> QED BY <2>3, LeavesKeeps
<1>7. CASE RollBackBlock(c)
  <2>1. Ends(c, "rolled back") /\ "rolled back" \in States
    BY <1>4, <1>7 DEF RollBackBlock, Ends, States
  <2>2. /\ fate' = WithDropped(EventIdsOf(caller[c].buffer)) /\ caller[c].fires = 0
        /\ \A i : i \in EventIdsOf(caller[c].buffer) <=> HasIt(c, <<i, "event">>)
    BY <1>1, <1>5, <1>7 DEF RollBackBlock, OwnCode
  <2>3. /\ fate' \in [EventIds -> Fates]
        /\ \A i \in EventIds : fate'[i] = IF HasIt(c, <<i, "event">>) THEN "dropped" ELSE fate[i]
    BY <1>2, <2>2 DEF WithDropped, Fates
  <2>4. GoesAway(c, NothingToFire)
    BY <1>2, <1>3, <1>7, <2>1, <2>2, <2>3 DEF RollBackBlock, GoesAway, NothingToFire
  <2> QED BY <2>4, LeavesKeeps
<1>8. CASE CancelCaller(c)
  <2>1. \E state \in States : Ends(c, state)
    <3>1. Ends(c, "rolled back") \/ Ends(c, "cut")
      BY <1>4, <1>8 DEF CancelCaller, Ends, States
    <3> QED BY <3>1 DEF States
  <2>2. \A i : i \in EventIdsOf(caller[c].buffer \o caller[c].todo) <=> HasIt(c, <<i, "event">>)
    <3>1. caller[c].buffer \o caller[c].todo \in Seq(Pieces)
      BY <1>1, Regrouped
    <3>2. Range(caller[c].buffer \o caller[c].todo) = Range(caller[c].buffer) \cup Range(caller[c].todo)
      BY <1>1, RangeOfBoth
    <3>3. \A i : i \in EventIdsOf(caller[c].buffer \o caller[c].todo) <=>
                   <<i, "event">> \in Range(caller[c].buffer \o caller[c].todo)
      BY <3>1, EventIdsFound
    <3> QED BY <3>2, <3>3 DEF HasIt
  <2>3. /\ fate' \in [EventIds -> Fates]
        /\ \A i \in EventIds : fate'[i] = IF i = caller[c].fires THEN "raised"
                                          ELSE IF HasIt(c, <<i, "event">>) THEN "dropped" ELSE fate[i]
    BY <1>2, <1>8, <2>2 DEF CancelCaller, WithDropped, Fates
  <2>4. GoesAway(c, [NothingToFire EXCEPT !.at = "cancelled"])
    BY <1>3, <1>8, <2>1, <2>3 DEF CancelCaller, GoesAway, NothingToFire
  <2> QED BY <2>4, LeavesKeeps
<1> QED BY <1>6, <1>7, <1>8

\* What was pushed is forgotten.
LEMMA ForgetPushedKeeps == EventsInv /\ ForgetPushed => EventsInv'
<1> SUFFICES ASSUME EventsInv, ForgetPushed PROVE EventsInv'
  OBVIOUS
<1>1. /\ UNCHANGED <<listeners, caller, txBlock, event, gathered, heard, sent>>
      /\ pushed' = <<>> /\ EventIds' = EventIds
      /\ fate' = [i \in EventIds |-> IF i \in Range(pushed) THEN "dropped" ELSE fate[i]]
  BY DEF ForgetPushed, WithDropped, EventIds
<1>2. /\ fate' \in [EventIds -> Fates] /\ Range(pushed') = {} /\ Distinct(pushed')
      /\ \A i \in EventIds : i \in Range(pushed) => fate'[i] = "dropped" /\ fate[i] = "waiting"
      /\ \A i \in EventIds : i \notin Range(pushed) => fate'[i] = fate[i]
      /\ \A i \in Range(pushed) : i \in EventIds /\ Plain(i) /\ \A c \in Dispatchers : ~HasIt(c, <<i, "event">>)
  BY <1>1, NoneHas DEF EventsInv, EvTypes, Fates, EvPlaces, PushedOnce, WaitsThere, EvLinks, PushedPlain
<1>3. /\ \A c \in Dispatchers : \A item : HasIt(c, item)' <=> HasIt(c, item)
      /\ \A i : /\ (Plain(i)' <=> Plain(i)) /\ (Defers(i)' <=> Defers(i)) /\ (Queued(i)' <=> Queued(i))
                /\ BlockOf(i)' = BlockOf(i) /\ (CastLater(i)' <=> CastLater(i)) /\ (Silent(i)' <=> Silent(i))
      /\ \A item : IsLate(item)' <=> IsLate(item)
  BY <1>1 DEF HasIt, Plain, Defers, Queued, BlockOf, CastLater, IsLate, Silent
<1>4. EvTypes'
  BY <1>1, <1>2 DEF EventsInv, EvTypes
<1>5. EvPlaces'
  <2>1. PlacedOnce' /\ PlacedHere' /\ FiredHere' /\ PushedOnce' /\ FiresThere'
    BY <1>1, <1>2, <1>3
    DEF EventsInv, EvPlaces, PlacedOnce, PlacedHere, FiredHere, PushedOnce, FiresThere
  <2>2. WaitsThere'
    BY <1>1, <1>2, <1>3 DEF EventsInv, EvPlaces, WaitsThere
  <2> QED BY <2>1, <2>2 DEF EvPlaces
<1>6. EvLinks'
  BY <1>1, <1>2, <1>3
  DEF EventsInv, EvLinks, BlocksThere, PushedPlain, BuffersLate, TodosRight, FiresRight
<1>7. EvSaid'
  <2>1. SentOnce' /\ HeardSome' /\ HearsRest'
    BY <1>1, <1>2, <1>3 DEF EventsInv, EvSaid, SentOnce, HeardSome, HearsRest, HeardOf
  <2>2. \A i \in EventIds : fate'[i] \in {"waiting", "dropped"} => Silent(i)
    BY <1>2 DEF EventsInv, EvSaid, SilentYet
  <2>3. \A c \in Dispatchers : caller[c].fires # 0 /\ caller[c].rest = <<>> => Silent(caller[c].fires)
    BY DEF EventsInv, EvSaid, SilentYet
  <2>4. \A c \in Dispatchers : caller'[c].fires # 0 /\ caller'[c].rest = <<>> => Silent(caller[c].fires)'
    BY <1>1, <2>3 DEF Silent, HasIt
  <2>5. SilentYet'
    BY <1>1, <1>3, <2>2, <2>4 DEF SilentYet
  <2> QED BY <2>1, <2>5 DEF EvSaid
<1>8. EvBlocks'
  <2>1. \A i : Plain(i) => ~Defers(i)
    BY DEF Plain, Defers, PlainEvent, Deferrable
  <2>2. \A i \in EventIds : Defers(i) => fate'[i] = fate[i]
    BY <1>2, <2>1
  <2>3. DeferredRight'
    BY <1>1, <1>3, <2>2 DEF EventsInv, EvBlocks, DeferredRight
  <2>4. \A i \in EventIds : (WasFired(i)' => WasFired(i)) /\ (fate'[i] = "over" => fate[i] = "over")
    BY <1>1, <1>2 DEF WasFired
  <2>5. CastsRight'
    BY <1>1, <1>3, <2>4 DEF EventsInv, EvBlocks, CastsRight
  <2> QED BY <2>3, <2>5 DEF EvBlocks
<1> QED BY <1>4, <1>5, <1>6, <1>7, <1>8 DEF EventsInv

\* What was pushed is to be fired.
LEMMA Queueing ==
  \A p \in Seq(Nat) : Distinct(p) =>
     LET t == [i \in DOMAIN p |-> <<p[i], "event">>] IN
     /\ t \in Seq(Pieces) /\ Distinct(t)
     /\ \A item : item \in Range(t) <=> \E i \in Range(p) : item = <<i, "event">>
<1> SUFFICES ASSUME NEW p \in Seq(Nat), Distinct(p)
             PROVE  LET t == [i \in DOMAIN p |-> <<p[i], "event">>] IN
                    /\ t \in Seq(Pieces) /\ Distinct(t)
                    /\ \A item : item \in Range(t) <=> \E i \in Range(p) : item = <<i, "event">>
  OBVIOUS
<1> DEFINE t == [i \in DOMAIN p |-> <<p[i], "event">>]
<1>1. DOMAIN p = 1..Len(p) /\ Len(p) \in Nat /\ \A i \in 1..Len(p) : p[i] \in Nat
  OBVIOUS
<1>2. t \in Seq(Pieces) /\ Len(t) = Len(p) /\ DOMAIN t = 1..Len(p)
  BY <1>1 DEF Pieces
<1>3. \A i \in 1..Len(p) : t[i] = <<p[i], "event">>
  BY <1>1
<1> HIDE DEF t
<1>4. Distinct(t)
  BY <1>2, <1>3 DEF Distinct
<1>5. \A item : item \in Range(t) <=> \E i \in Range(p) : item = <<i, "event">>
  BY <1>1, <1>2, <1>3 DEF Range
<1> QED BY <1>2, <1>4, <1>5 DEF t

LEMMA FlushKeeps == ASSUME EventsInv, NEW c \in Dispatchers, Flush(c) PROVE EventsInv'
<1>1. PICK t : t = [i \in DOMAIN pushed |-> <<pushed[i], "event">>]
  OBVIOUS
<1>2. /\ UNCHANGED <<listeners, txBlock, event, gathered, heard, sent, fate>> /\ EventIds' = EventIds
      /\ pushed' = <<>> /\ caller' = [caller EXCEPT ![c] = [caller[c] EXCEPT !.todo = t]]
      /\ caller[c].at \in {"outside", "body"} /\ caller[c].fires = 0 /\ caller[c].todo = <<>>
  BY <1>1 DEF Flush, OwnCode, TakePushed, eventPast, EventIds
<1>3. /\ t \in Seq(Pieces) /\ Distinct(t)
      /\ \A item : item \in Range(t) <=> \E i \in Range(pushed) : item = <<i, "event">>
  BY <1>1, Queueing DEF EventsInv, EvTypes, EvPlaces, PushedOnce
<1>4. caller \in [Dispatchers -> CallerStates] /\ caller[c] \in CallerStates
  BY DEF EventsInv, EvTypes
<1>5. /\ \A d \in Dispatchers : /\ caller'[d].at = caller[d].at /\ caller'[d].block = caller[d].block
                                /\ caller'[d].fires = caller[d].fires /\ caller'[d].rest = caller[d].rest
                                /\ caller'[d].buffer = caller[d].buffer
                                /\ d # c => caller'[d].todo = caller[d].todo
      /\ caller'[c].todo = t /\ caller' \in [Dispatchers -> CallerStates]
  BY <1>2, <1>3, <1>4 DEF CallerStates
<1>6. /\ Range(pushed') = {} /\ Distinct(pushed') /\ Range(caller[c].todo) = {}
      /\ \A i \in Range(pushed) : i \in EventIds /\ i \in Nat /\ Plain(i) /\ \A d \in Dispatchers : ~HasIt(d, <<i, "event">>)
  BY <1>2, NoneHas, EventIdsAre DEF EventsInv, EvTypes, EvPlaces, PushedOnce, EvLinks, PushedPlain
<1>7. /\ \A d \in Dispatchers : \A item : d # c => (HasIt(d, item)' <=> HasIt(d, item))
      /\ \A item : HasIt(c, item)' <=> HasIt(c, item) \/ \E i \in Range(pushed) : item = <<i, "event">>
      /\ \A i : HasIt(c, <<i, "event">>)' <=> HasIt(c, <<i, "event">>) \/ i \in Range(pushed)
      /\ \A d \in Dispatchers : \A i : HasIt(d, <<i, "broadcast">>)' <=> HasIt(d, <<i, "broadcast">>)
  <2>1. \A item : HasIt(c, item)' <=> HasIt(c, item) \/ \E i \in Range(pushed) : item = <<i, "event">>
    BY <1>3, <1>5, <1>6 DEF HasIt
  <2>2. \A d \in Dispatchers : \A item : d # c => (HasIt(d, item)' <=> HasIt(d, item))
    BY <1>5 DEF HasIt
  <2> QED BY <2>1, <2>2
<1>8. /\ \A i : /\ (Plain(i)' <=> Plain(i)) /\ (Defers(i)' <=> Defers(i)) /\ (Queued(i)' <=> Queued(i))
                /\ BlockOf(i)' = BlockOf(i) /\ (CastLater(i)' <=> CastLater(i)) /\ (Silent(i)' <=> Silent(i))
                /\ (WasFired(i)' <=> WasFired(i))
      /\ \A item : IsLate(item)' <=> IsLate(item)
  <2>1. \A i : CastLater(i)' <=> CastLater(i)
    BY <1>2, <1>5, <1>7 DEF CastLater
  <2>2. \A i : Silent(i)' <=> Silent(i)
    BY <1>2, <1>7 DEF Silent
  <2>3. \A i : WasFired(i)' <=> WasFired(i)
    BY <1>2, <1>5 DEF WasFired
  <2> QED BY <1>2, <2>1, <2>2, <2>3 DEF Plain, Defers, Queued, BlockOf, IsLate
<1>9. EvTypes'
  BY <1>2, <1>5 DEF EventsInv, EvTypes
<1>10. EvPlaces'
  <2>1. PlacedOnce'
    <3>1. \A item \in Range(t) : item \notin Range(caller[c].buffer)
      BY <1>3, <1>6 DEF HasIt
    <3> QED BY <1>3, <1>5, <3>1 DEF EventsInv, EvPlaces, PlacedOnce
  <2>2. PlacedHere'
    <3> SUFFICES ASSUME NEW d \in Dispatchers, NEW item \in Pieces, HasIt(d, item)'
                 PROVE  item[1] \in EventIds /\ \A e \in Dispatchers : e # d => ~HasIt(e, item)'
      BY <1>2 DEF PlacedHere
    <3>1. CASE HasIt(d, item)
      <4>1. item[1] \in EventIds /\ \A e \in Dispatchers : e # d => ~HasIt(e, item)
        BY <3>1 DEF EventsInv, EvPlaces, PlacedHere
      <4>2. ~ \E i \in Range(pushed) : item = <<i, "event">>
        BY <1>6, <3>1
      <4> QED BY <1>7, <4>1, <4>2
    <3>2. CASE ~HasIt(d, item)
      <4>1. d = c
        BY <1>7, <3>2
      <4>2. PICK i \in Range(pushed) : item = <<i, "event">>
        BY <1>7, <3>2, <4>1
      <4>3. item[1] = i
        BY <4>2
      <4> QED BY <1>6, <1>7, <4>1, <4>2, <4>3
    <3> QED BY <3>1, <3>2
  <2>3. FiredHere' /\ PushedOnce' /\ FiresThere'
    BY <1>2, <1>5, <1>6 DEF EventsInv, EvPlaces, FiredHere, PushedOnce, FiresThere
  <2>4. WaitsThere'
    <3> SUFFICES ASSUME NEW i \in EventIds
                 PROVE  fate[i] = "waiting" <=> \E d \in Dispatchers : HasIt(d, <<i, "event">>)'
      BY <1>2, <1>6 DEF WaitsThere
    <3>1. fate[i] = "waiting" <=> i \in Range(pushed) \/ \E d \in Dispatchers : HasIt(d, <<i, "event">>)
      BY DEF EventsInv, EvPlaces, WaitsThere
    <3> QED BY <1>7, <3>1
  <2> QED BY <2>1, <2>2, <2>3, <2>4 DEF EvPlaces
<1>11. EvLinks'
  <2>1. BlocksThere' /\ PushedPlain' /\ BuffersLate' /\ FiresRight'
    BY <1>2, <1>5, <1>6, <1>8 DEF EventsInv, EvLinks, BlocksThere, PushedPlain, BuffersLate, FiresRight
  <2>2. TodosRight'
    <3>1. \A item \in Range(t) : item[2] = "event" /\ Plain(item[1])
      <4> SUFFICES ASSUME NEW item \in Range(t) PROVE item[2] = "event" /\ Plain(item[1])
        OBVIOUS
      <4>1. PICK i \in Range(pushed) : item = <<i, "event">>
        BY <1>3
      <4>2. item[1] = i /\ item[2] = "event"
        BY <4>1
      <4> QED BY <1>6, <4>2
    <3> QED BY <1>2, <1>5, <1>8, <3>1 DEF EventsInv, EvLinks, TodosRight
  <2> QED BY <2>1, <2>2 DEF EvLinks
<1>12. EvSaid'
  <2>1. SentOnce' /\ HeardSome' /\ HearsRest'
    BY <1>2, <1>5, <1>7 DEF EventsInv, EvSaid, SentOnce, HeardSome, HearsRest, HeardOf
  <2>2. \A d \in Dispatchers : caller'[d].fires # 0 /\ caller'[d].rest = <<>> => Silent(caller[d].fires)'
    <3>1. \A d \in Dispatchers : caller[d].fires # 0 /\ caller[d].rest = <<>> => Silent(caller[d].fires)
      BY DEF EventsInv, EvSaid, SilentYet
    <3> QED BY <1>2, <1>5, <1>7, <3>1 DEF Silent
  <2>3. SilentYet'
    BY <1>2, <1>8, <2>2 DEF EventsInv, EvSaid, SilentYet
  <2> QED BY <2>1, <2>3 DEF EvSaid
<1>13. EvBlocks'
  BY <1>2, <1>8 DEF EventsInv, EvBlocks, DeferredRight, CastsRight
<1> QED BY <1>9, <1>10, <1>11, <1>12, <1>13 DEF EventsInv

\* A flush or a replay takes its next item.
Takes(c, rests) ==
    /\ UNCHANGED <<listeners, pushed, txBlock, event, gathered, heard>>
    /\ caller' \in [Dispatchers -> CallerStates]
    /\ \A d \in Dispatchers :
          /\ caller'[d].at = caller[d].at /\ caller'[d].block = caller[d].block
          /\ caller'[d].rest = caller[d].rest /\ caller'[d].buffer = caller[d].buffer
          /\ d # c => caller'[d].fires = caller[d].fires /\ caller'[d].todo = caller[d].todo
    /\ caller'[c].todo = rests /\ caller[c].fires = 0 /\ caller[c].rest = <<>>

LEMMA TakesOne ==
  ASSUME EventsInv, NEW c \in Dispatchers, NextItem(c)
  PROVE  /\ Takes(c, Tail(caller[c].todo))
         /\ Head(caller[c].todo) \in Range(caller[c].todo) /\ Head(caller[c].todo) \in Pieces
         /\ Distinct(Tail(caller[c].todo))
         /\ Range(Tail(caller[c].todo)) = Range(caller[c].todo) \ {Head(caller[c].todo)}
         /\ Head(caller[c].todo)[2] = "event" =>
               /\ caller'[c].fires = Head(caller[c].todo)[1] /\ sent' = sent
               /\ fate' = [fate EXCEPT ![Head(caller[c].todo)[1]] = "firing"]
         /\ Head(caller[c].todo)[2] = "broadcast" =>
               /\ caller'[c].fires = 0 /\ fate' = fate
               /\ sent' = [sent EXCEPT ![Head(caller[c].todo)[1]] = sent[Head(caller[c].todo)[1]] + 1]
<1>1. PICK rests \in Seq(Pieces) : rests = caller[c].todo
  BY ItemsTyped
<1>2. PICK item : item = Head(rests)
  OBVIOUS
<1>3. /\ rests # <<>> /\ caller[c].fires = 0
      /\ UNCHANGED <<listeners, pushed, txBlock, event, gathered, heard>>
      /\ item[2] = "event" =>
            /\ caller' = [caller EXCEPT ![c] = [caller[c] EXCEPT !.todo = Tail(rests), !.fires = item[1]]]
            /\ fate' = [fate EXCEPT ![item[1]] = "firing"] /\ sent' = sent
      /\ item[2] # "event" =>
            /\ caller' = [caller EXCEPT ![c] = [caller[c] EXCEPT !.todo = Tail(rests)]]
            /\ sent' = [sent EXCEPT ![item[1]] = sent[item[1]] + 1] /\ fate' = fate
  BY <1>1, <1>2 DEF NextItem
<1>4. /\ item \in Pieces /\ Tail(rests) \in Seq(Pieces) /\ item \in Range(rests)
      /\ Distinct(Tail(rests)) /\ Range(Tail(rests)) = Range(rests) \ {item}
  BY <1>1, <1>2, <1>3, HasOneLess DEF EventsInv, EvPlaces, PlacedOnce
<1>5. item[1] \in Nat /\ item[2] \in {"event", "broadcast"}
  BY <1>4 DEF Pieces
<1>6. caller \in [Dispatchers -> CallerStates] /\ caller[c] \in CallerStates
  BY DEF EventsInv, EvTypes
<1>7. caller[c].rest = <<>>
  BY <1>3 DEF EventsInv, EvSaid, HearsRest
<1>8. CASE item[2] = "event"
  <2>1. PICK r : r = [caller[c] EXCEPT !.todo = Tail(rests), !.fires = item[1]]
    OBVIOUS
  <2>2. /\ r \in CallerStates /\ r.at = caller[c].at /\ r.block = caller[c].block /\ r.rest = caller[c].rest
        /\ r.buffer = caller[c].buffer /\ r.todo = Tail(rests) /\ r.fires = item[1]
    BY <1>4, <1>5, <1>6, <2>1 DEF CallerStates
  <2>3. caller' = [caller EXCEPT ![c] = r]
    BY <1>3, <1>8, <2>1
  <2>4. Takes(c, Tail(rests)) /\ caller'[c].fires = item[1]
    BY <1>3, <1>6, <1>7, <2>2, <2>3 DEF Takes
  <2> QED BY <1>1, <1>2, <1>3, <1>4, <1>8, <2>4
<1>9. CASE item[2] = "broadcast"
  <2>1. PICK r : r = [caller[c] EXCEPT !.todo = Tail(rests)]
    OBVIOUS
  <2>2. /\ r \in CallerStates /\ r.at = caller[c].at /\ r.block = caller[c].block /\ r.rest = caller[c].rest
        /\ r.buffer = caller[c].buffer /\ r.todo = Tail(rests) /\ r.fires = 0
    BY <1>3, <1>4, <1>6, <2>1 DEF CallerStates
  <2>3. caller' = [caller EXCEPT ![c] = r]
    BY <1>3, <1>9, <2>1
  <2>4. Takes(c, Tail(rests)) /\ caller'[c].fires = 0
    BY <1>3, <1>6, <1>7, <2>2, <2>3 DEF Takes
  <2> QED BY <1>1, <1>2, <1>3, <1>4, <1>9, <2>4
<1> QED BY <1>5, <1>8, <1>9

LEMMA NextItemKeeps == ASSUME EventsInv, NEW c \in Dispatchers, NextItem(c) PROVE EventsInv'
<1>1. PICK item \in Pieces : item = Head(caller[c].todo)
  BY TakesOne
<1>2. PICK i \in Nat : i = item[1]
  BY DEF Pieces
<1>3. PICK rests : rests = Tail(caller[c].todo)
  OBVIOUS
<1>4. /\ Takes(c, rests) /\ item \in Range(caller[c].todo)
      /\ Distinct(rests) /\ Range(rests) = Range(caller[c].todo) \ {item}
      /\ item[2] = "event" =>
            caller'[c].fires = i /\ sent' = sent /\ fate' = [fate EXCEPT ![i] = "firing"]
      /\ item[2] = "broadcast" =>
            caller'[c].fires = 0 /\ fate' = fate /\ sent' = [sent EXCEPT ![i] = sent[i] + 1]
  BY <1>1, <1>2, <1>3, TakesOne
<1>5. /\ UNCHANGED <<listeners, pushed, txBlock, event, gathered, heard>>
      /\ caller' \in [Dispatchers -> CallerStates]
      /\ \A d \in Dispatchers :
          /\ caller'[d].at = caller[d].at /\ caller'[d].block = caller[d].block
          /\ caller'[d].rest = caller[d].rest /\ caller'[d].buffer = caller[d].buffer
          /\ d # c => caller'[d].fires = caller[d].fires /\ caller'[d].todo = caller[d].todo
      /\ caller'[c].todo = rests /\ caller[c].fires = 0 /\ caller[c].rest = <<>>
  BY <1>4 DEF Takes
<1>6. /\ EventIds' = EventIds /\ \A j \in EventIds : j \in Nat \ {0}
      /\ fate \in [EventIds -> Fates] /\ sent \in [EventIds -> Nat]
  BY <1>5, EventIdsAre DEF EventIds, EventsInv, EvTypes
<1>7. /\ HasIt(c, item) /\ item \notin Range(caller[c].buffer) /\ i \in EventIds
      /\ \A d \in Dispatchers : d # c => ~HasIt(d, item)
  BY <1>2, <1>4 DEF HasIt, EventsInv, EvPlaces, PlacedOnce, PlacedHere
<1>8. /\ \A d \in Dispatchers : \A other : other # item => (HasIt(d, other)' <=> HasIt(d, other))
      /\ \A d \in Dispatchers : ~HasIt(d, item)'
  <2>1. \A other : other \in Range(rests) <=> other \in Range(caller[c].todo) /\ other # item
    BY <1>4
  <2>2. ~HasIt(c, item)'
    BY <1>5, <1>7, <2>1 DEF HasIt
  <2>3. \A d \in Dispatchers : \A other : d # c => (HasIt(d, other)' <=> HasIt(d, other))
    BY <1>5 DEF HasIt
  <2>4. \A other : other # item => (HasIt(c, other)' <=> HasIt(c, other))
    BY <1>5, <2>1 DEF HasIt
  <2> QED BY <1>7, <2>2, <2>3, <2>4
<1>9. \A d \in Dispatchers : \A other : HasIt(d, other)' => HasIt(d, other)
  BY <1>7, <1>8
<1>10. /\ \A j : /\ (Plain(j)' <=> Plain(j)) /\ (Defers(j)' <=> Defers(j)) /\ (Queued(j)' <=> Queued(j))
                 /\ BlockOf(j)' = BlockOf(j) /\ (Plain(j) => ~Defers(j) /\ ~Queued(j))
       /\ \A other : IsLate(other)' <=> IsLate(other)
  BY <1>5 DEF Plain, Defers, Queued, BlockOf, IsLate, PlainEvent, Deferrable
<1>11. item = <<i, item[2]>> /\ item[2] \in {"event", "broadcast"}
  BY <1>2 DEF Pieces
<1>12. /\ fate' \in [EventIds -> Fates] /\ sent' \in [EventIds -> Nat]
       /\ \A j \in EventIds : j # i => fate'[j] = fate[j] /\ sent'[j] = sent[j]
       /\ item[2] = "event" => sent' = sent /\ fate'[i] = "firing"
       /\ item[2] = "broadcast" => fate' = fate /\ sent'[i] = sent[i] + 1
  BY <1>4, <1>6, <1>7, <1>11 DEF Fates
<1>13. EvTypes'
  BY <1>5, <1>6, <1>12 DEF EventsInv, EvTypes
<1>14. /\ item[2] = "event" => /\ fate[i] = "waiting" /\ i \notin Range(pushed)
                               /\ \A d \in Dispatchers : caller[d].fires # i
                               /\ Silent(i)
       /\ item[2] = "broadcast" => /\ fate[i] \notin {"waiting", "dropped"} /\ sent[i] = 0
                                   /\ \A d \in Dispatchers : caller[d].fires = i => caller[d].rest # <<>>
  <2>1. CASE item[2] = "event"
    <3>1. fate[i] = "waiting" /\ i \notin Range(pushed)
      BY <1>7, <1>11, <2>1 DEF EventsInv, EvPlaces, WaitsThere, PushedOnce
    <3> QED BY <1>7, <2>1, <3>1 DEF EventsInv, EvPlaces, FiresThere, EvSaid, SilentYet
  <2>2. CASE item[2] = "broadcast"
    <3>1. HasIt(c, <<i, "broadcast">>)
      BY <1>7, <1>11, <2>2
    <3>2. ~Silent(i)
      BY <3>1 DEF Silent
    <3>3. \A d \in Dispatchers : caller[d].fires = i => caller[d].rest # <<>>
      BY <1>6, <1>7, <3>2 DEF EventsInv, EvSaid, SilentYet
    <3> QED BY <1>7, <2>2, <3>1, <3>2, <3>3 DEF EventsInv, EvSaid, SilentYet, SentOnce
  <2> QED BY <1>11, <2>1, <2>2
<1>15. EvPlaces'
  <2>1. PlacedOnce'
    BY <1>4, <1>5 DEF EventsInv, EvPlaces, PlacedOnce
  <2>2. PlacedHere' /\ PushedOnce'
    BY <1>5, <1>6, <1>9 DEF EventsInv, EvPlaces, PlacedHere, PushedOnce
  <2>3. FiredHere'
    <3>1. \A d \in Dispatchers : caller[d].fires # 0 =>
             /\ caller[d].fires \in EventIds
             /\ \A e \in Dispatchers : e # d => caller[e].fires # caller[d].fires
      BY DEF EventsInv, EvPlaces, FiredHere
    <3>2. CASE item[2] = "event"
      BY <1>4, <1>5, <1>6, <1>7, <1>14, <3>1, <3>2 DEF FiredHere
    <3>3. CASE item[2] = "broadcast"
      BY <1>4, <1>5, <1>6, <3>1, <3>3 DEF FiredHere
    <3> QED BY <1>11, <3>2, <3>3
  <2>4. WaitsThere'
    <3> SUFFICES ASSUME NEW j \in EventIds
                 PROVE  fate'[j] = "waiting" <=>
                           j \in Range(pushed) \/ \E d \in Dispatchers : HasIt(d, <<j, "event">>)'
      BY <1>5, <1>6 DEF WaitsThere
    <3>1. fate[j] = "waiting" <=> j \in Range(pushed) \/ \E d \in Dispatchers : HasIt(d, <<j, "event">>)
      BY DEF EventsInv, EvPlaces, WaitsThere
    <3>2. CASE <<j, "event">> = item
      BY <1>8, <1>11, <1>12, <1>14, <3>2
    <3>3. CASE <<j, "event">> # item
      <4>1. fate'[j] = fate[j]
        BY <1>11, <1>12, <3>3
      <4> QED BY <1>8, <3>1, <3>3, <4>1
    <3> QED BY <3>2, <3>3
  <2>5. FiresThere'
    <3> SUFFICES ASSUME NEW j \in EventIds
                 PROVE  fate'[j] = "firing" <=> \E d \in Dispatchers : caller'[d].fires = j
      BY <1>6 DEF FiresThere
    <3>1. fate[j] = "firing" <=> \E d \in Dispatchers : caller[d].fires = j
      BY DEF EventsInv, EvPlaces, FiresThere
    <3>2. CASE item[2] = "event" /\ j = i
      BY <1>4, <1>12, <3>2
    <3>3. CASE item[2] = "broadcast" \/ j # i
      <4>1. fate'[j] = fate[j]
        BY <1>12, <3>3
      <4>2. \A d \in Dispatchers : caller'[d].fires = j <=> caller[d].fires = j
        BY <1>4, <1>5, <1>6, <1>11, <3>3
      <4> QED BY <3>1, <4>1, <4>2
    <3> QED BY <1>11, <3>2, <3>3
  <2> QED BY <2>1, <2>2, <2>3, <2>4, <2>5 DEF EvPlaces
<1>16. /\ caller[c].at = "replay" => event[i].block = caller[c].block /\ IsLate(item)
       /\ caller[c].at # "replay" => item[2] = "event" /\ Plain(i)
  BY <1>2, <1>4 DEF EventsInv, EvLinks, TodosRight
<1>17. EvLinks'
  <2>1. BlocksThere' /\ PushedPlain' /\ BuffersLate'
    <3>1. BlocksThere'
      BY <1>5, <1>6 DEF EventsInv, EvLinks, BlocksThere
    <3>2. PushedPlain'
      BY <1>5, <1>10 DEF EventsInv, EvLinks, PushedPlain
    <3>3. BuffersLate'
      BY <1>5, <1>10 DEF EventsInv, EvLinks, BuffersLate
    <3> QED BY <3>1, <3>2, <3>3
  <2>2. TodosRight'
    BY <1>4, <1>5, <1>10 DEF EventsInv, EvLinks, TodosRight
  <2>3. FiresRight'
    <3>1. caller'[c].fires # 0 => /\ Plain(i) \/ event[i].block = caller[c].block
                                  /\ caller[c].at = "body" => ~Defers(i)
                                  /\ caller'[c].fires = i
      BY <1>4, <1>10, <1>11, <1>16
    <3> QED BY <1>5, <1>10, <3>1 DEF EventsInv, EvLinks, FiresRight
  <2> QED BY <2>1, <2>2, <2>3 DEF EvLinks
<1>18. EvSaid'
  <2>1. SentOnce'
    <3> SUFFICES ASSUME NEW j \in EventIds
                 PROVE  sent'[j] <= 1 /\ \A d \in Dispatchers : HasIt(d, <<j, "broadcast">>)' => sent'[j] = 0
      BY <1>6 DEF SentOnce
    <3>1. sent[j] <= 1 /\ \A d \in Dispatchers : HasIt(d, <<j, "broadcast">>) => sent[j] = 0
      BY DEF EventsInv, EvSaid, SentOnce
    <3>2. CASE <<j, "broadcast">> = item
      <4>1. j = i /\ item[2] = "broadcast"
        BY <1>11, <3>2
      <4>2. sent'[j] = 1
        BY <1>12, <1>14, <4>1
      <4> QED BY <1>8, <3>2, <4>2
    <3>3. CASE <<j, "broadcast">> # item
      <4>1. sent'[j] = sent[j]
        BY <1>11, <1>12, <3>3
      <4> QED BY <1>8, <3>1, <3>3, <4>1
    <3> QED BY <3>2, <3>3
  <2>2. \A j \in EventIds : Silent(j) /\ (item[2] = "broadcast" => j # i) => Silent(j)'
    BY <1>5, <1>9, <1>11, <1>12 DEF Silent
  <2>3. SilentYet'
    <3>1. ASSUME NEW j \in EventIds, fate'[j] \in {"waiting", "dropped"} PROVE Silent(j)'
      <4>1. fate[j] \in {"waiting", "dropped"} /\ (item[2] = "broadcast" => j # i)
        BY <1>11, <1>12, <1>14, <3>1
      <4> QED BY <2>2, <4>1 DEF EventsInv, EvSaid, SilentYet
    <3>2. ASSUME NEW d \in Dispatchers, caller'[d].fires # 0, caller'[d].rest = <<>>
          PROVE  Silent(caller[d].fires)'
      <4>1. PICK j : j = caller'[d].fires
        OBVIOUS
      <4>2. j \in EventIds /\ Silent(j) /\ (item[2] = "broadcast" => j # i)
        <5>1. CASE d = c
          <6>1. item[2] = "event" /\ j = i
            BY <1>4, <1>11, <3>2, <4>1, <5>1
          <6> QED BY <1>7, <1>14, <6>1
        <5>2. CASE d # c
          <6>1. caller[d].fires = j /\ j # 0 /\ caller[d].rest = <<>>
            BY <1>5, <3>2, <4>1, <5>2
          <6>2. j \in EventIds /\ Silent(j)
            BY <6>1 DEF EventsInv, EvSaid, SilentYet, EvPlaces, FiredHere
          <6> QED BY <1>14, <6>1, <6>2
        <5> QED BY <5>1, <5>2
      <4>3. Silent(j)'
        BY <2>2, <4>2
      <4> QED BY <4>1, <4>3 DEF Silent
    <3> QED BY <1>6, <3>1, <3>2 DEF SilentYet
  <2>4. HeardSome'
    <3>1. \A j \in EventIds : fate'[j] = "over" => fate[j] = "over"
      BY <1>11, <1>12
    <3> QED BY <1>5, <1>6, <3>1 DEF EventsInv, EvSaid, HeardSome, HeardOf
  <2>5. HearsRest'
    BY <1>5 DEF EventsInv, EvSaid, HearsRest, HeardOf
  <2> QED BY <2>1, <2>3, <2>4, <2>5 DEF EvSaid
<1>19. event[i].block = caller[c].block /\ caller[c].at = "replay" /\ event[i].block # 0 => BlockOf(i) = "committed"
  BY DEF EventsInv, EvLinks, BlocksThere, BlockOf
<1>20. DeferredRight'
  <2>1. event[i].block # 0 /\ Defers(i) => BlockOf(i) = "committed"
    BY <1>10, <1>16, <1>19
  <2>2. \A j \in EventIds : j # i \/ item[2] = "broadcast" => fate'[j] = fate[j]
    BY <1>12
  <2> SUFFICES ASSUME NEW j \in EventIds, event[j].block # 0, Defers(j)
               PROVE  /\ BlockOf(j) = "open" => fate'[j] = "waiting"
                      /\ BlockOf(j) = "committed" => fate'[j] # "dropped"
                      /\ BlockOf(j) = "rolled back" => fate'[j] = "dropped"
                      /\ BlockOf(j) = "replayed" => fate'[j] \in {"over", "stopped", "raised"}
    BY <1>5, <1>6, <1>10 DEF DeferredRight
  <2>3. /\ BlockOf(j) = "open" => fate[j] = "waiting"
        /\ BlockOf(j) = "committed" => fate[j] # "dropped"
        /\ BlockOf(j) = "rolled back" => fate[j] = "dropped"
        /\ BlockOf(j) = "replayed" => fate[j] \in {"over", "stopped", "raised"}
    BY DEF EventsInv, EvBlocks, DeferredRight
  <2>4. CASE j # i \/ item[2] = "broadcast"
    BY <2>2, <2>3, <2>4
  <2>5. CASE j = i /\ item[2] = "event"
    BY <1>12, <2>1, <2>5
  <2> QED BY <1>11, <2>4, <2>5
<1>21. CastsRight'
  <2> SUFFICES ASSUME NEW j \in EventIds, event[j].block # 0, Queued(j)
               PROVE  /\ BlockOf(j) \in {"open", "rolled back"} => sent'[j] = 0
                      /\ BlockOf(j) \in {"open", "committed"} /\ WasFired(j)' => sent'[j] = 1 \/ CastLater(j)'
                      /\ BlockOf(j) = "replayed" /\ fate'[j] = "over" => sent'[j] = 1
    BY <1>5, <1>6, <1>10 DEF CastsRight
  <2>1. /\ BlockOf(j) \in {"open", "rolled back"} => sent[j] = 0
        /\ BlockOf(j) \in {"open", "committed"} /\ WasFired(j) => sent[j] = 1 \/ CastLater(j)
        /\ BlockOf(j) = "replayed" /\ fate[j] = "over" => sent[j] = 1
    BY DEF EventsInv, EvBlocks, CastsRight
  <2>2. CASE <<j, "broadcast">> = item
    <3>1. j = i /\ item[2] = "broadcast"
      BY <1>11, <2>2
    <3>2. sent'[j] = 1 /\ BlockOf(j) = "committed"
      BY <1>12, <1>14, <1>16, <1>19, <3>1
    <3> QED BY <3>2
  <2>3. CASE <<j, "broadcast">> # item
    <3>1. sent'[j] = sent[j]
      BY <1>11, <1>12, <2>3
    <3>2. CastLater(j) => CastLater(j)'
      BY <1>5, <1>8, <2>3 DEF CastLater
    <3>3. WasFired(j)' => WasFired(j)
      <4>1. \A d \in Dispatchers : caller'[d].fires = j /\ caller'[d].rest # <<>> =>
               caller[d].fires = j /\ caller[d].rest # <<>>
        BY <1>5
      <4>2. fate'[j] \in {"over", "stopped"} => fate[j] = fate'[j]
        BY <1>11, <1>12
      <4> QED BY <4>1, <4>2 DEF WasFired
    <3>4. fate'[j] = "over" => fate[j] = "over"
      BY <1>11, <1>12
    <3> QED BY <2>1, <3>1, <3>2, <3>3, <3>4
  <2> QED BY <2>2, <2>3
<1> QED BY <1>13, <1>15, <1>17, <1>18, <1>20, <1>21 DEF EventsInv, EvBlocks

InItsBlock(q, m) == [q EXCEPT !.at = "body", !.block = m]
InReplay(q, s) == [q EXCEPT !.at = "replay", !.todo = s, !.buffer = <<>>]
LEMMA BlockChanges ==
  /\ \A q \in CallerStates, m \in Nat :
        LET r == InItsBlock(q, m) IN
        /\ r \in CallerStates /\ r.at = "body" /\ r.block = m /\ r.fires = q.fires
        /\ r.rest = q.rest /\ r.buffer = q.buffer /\ r.todo = q.todo
  /\ \A q \in CallerStates, s \in Seq(Pieces) :
        LET r == InReplay(q, s) IN
        /\ r \in CallerStates /\ r.at = "replay" /\ r.block = q.block /\ r.fires = q.fires
        /\ r.rest = q.rest /\ r.buffer = <<>> /\ r.todo = s
<1>1. ASSUME NEW q \in CallerStates, NEW m \in Nat
      PROVE  LET r == InItsBlock(q, m) IN
             /\ r \in CallerStates /\ r.at = "body" /\ r.block = m /\ r.fires = q.fires
             /\ r.rest = q.rest /\ r.buffer = q.buffer /\ r.todo = q.todo
  <2>1. [q EXCEPT !.at = "body", !.block = m] \in CallerStates
    BY DEF CallerStates
  <2> QED BY <2>1 DEF CallerStates, InItsBlock
<1>2. ASSUME NEW q \in CallerStates, NEW s \in Seq(Pieces)
      PROVE  LET r == InReplay(q, s) IN
             /\ r \in CallerStates /\ r.at = "replay" /\ r.block = q.block /\ r.fires = q.fires
             /\ r.rest = q.rest /\ r.buffer = <<>> /\ r.todo = s
  <2>1. <<>> \in Seq(Pieces)
    OBVIOUS
  <2>2. [q EXCEPT !.at = "replay", !.todo = s, !.buffer = <<>>] \in CallerStates
    BY <2>1 DEF CallerStates
  <2> QED BY <2>2 DEF CallerStates, InReplay
<1> QED BY <1>1, <1>2

\* A transaction begins.
LEMMA BeginBlockKeeps == ASSUME EventsInv, NEW c \in Dispatchers, BeginBlock(c) PROVE EventsInv'
<1>1. PICK n \in Nat : n = Len(txBlock)
  BY DEF EventsInv, EvTypes
<1>2. /\ UNCHANGED <<listeners, pushed, event, gathered, heard, sent, fate>> /\ EventIds' = EventIds
      /\ caller[c].at = "outside" /\ caller[c].fires = 0 /\ caller[c].todo = <<>>
      /\ txBlock' = Append(txBlock, "open")
  BY DEF BeginBlock, OwnCode, eventPast, EventIds
<1>3. /\ txBlock' \in Seq(States) /\ Len(txBlock') = n + 1 /\ txBlock'[n + 1] = "open"
      /\ \A k \in 1..n : txBlock'[k] = txBlock[k]
  <2>1. "open" \in States /\ txBlock \in Seq(States)
    BY DEF States, EventsInv, EvTypes
  <2> QED BY <1>1, <1>2, <2>1
<1>4. caller \in [Dispatchers -> CallerStates] /\ caller[c] \in CallerStates
  BY DEF EventsInv, EvTypes
<1>5. caller' = [caller EXCEPT ![c] = [caller[c] EXCEPT !.at = "body", !.block = n + 1]]
  BY <1>3 DEF BeginBlock
<1>6. /\ \A d \in Dispatchers \ {c} : caller'[d] = caller[d]
      /\ \A d \in Dispatchers : /\ caller'[d].fires = caller[d].fires /\ caller'[d].rest = caller[d].rest
                                /\ caller'[d].buffer = caller[d].buffer /\ caller'[d].todo = caller[d].todo
      /\ caller'[c].at = "body" /\ caller'[c].block = n + 1 /\ caller' \in [Dispatchers -> CallerStates]
  <2>1. PICK r : r = InItsBlock(caller[c], n + 1)
    OBVIOUS
  <2>2. /\ r \in CallerStates /\ r.at = "body" /\ r.block = n + 1 /\ r.fires = caller[c].fires
        /\ r.rest = caller[c].rest /\ r.buffer = caller[c].buffer /\ r.todo = caller[c].todo
    <3>1. n + 1 \in Nat
      BY <1>1
    <3> QED BY <1>4, <2>1, <3>1, BlockChanges
  <2>3. caller' = [caller EXCEPT ![c] = r]
    BY <1>5, <2>1 DEF InItsBlock
  <2> QED BY <1>4, <2>2, <2>3
<1>7. Range(caller[c].buffer) = {} /\ Range(caller[c].todo) = {} /\ caller[c].block = 0
  BY <1>2, NoneHas DEF EventsInv, EvLinks, BuffersLate, BlocksThere
<1>8. \A d \in Dispatchers : \A item : HasIt(d, item)' <=> HasIt(d, item)
  BY <1>6 DEF HasIt
<1>9. \A i \in EventIds : event[i].block \in 0..n /\ (event[i].block # 0 => event[i].block \in 1..n)
  BY <1>1 DEF EventsInv, EvLinks, BlocksThere
<1>10. /\ \A i : /\ (Plain(i)' <=> Plain(i)) /\ (Defers(i)' <=> Defers(i)) /\ (Queued(i)' <=> Queued(i))
                 /\ (Silent(i)' <=> Silent(i)) /\ (WasFired(i)' <=> WasFired(i))
       /\ \A item : IsLate(item)' <=> IsLate(item)
  BY <1>2, <1>6, <1>8 DEF Plain, Defers, Queued, IsLate, Silent, WasFired
<1>11. \A i \in EventIds : event[i].block # 0 => BlockOf(i)' = BlockOf(i)
  BY <1>2, <1>3, <1>9 DEF BlockOf
<1>12. \A i \in EventIds : event[i].block # 0 /\ CastLater(i) => CastLater(i)'
  <2> SUFFICES ASSUME NEW i \in EventIds, event[i].block # 0, CastLater(i) PROVE CastLater(i)'
    OBVIOUS
  <2>1. PICK d \in Dispatchers : caller[d].block = event[i].block /\ HasIt(d, <<i, "broadcast">>)
    BY DEF CastLater
  <2>2. d # c
    BY <1>7, <2>1
  <2>3. caller'[d].block = event'[i].block /\ HasIt(d, <<i, "broadcast">>)'
    BY <1>2, <1>6, <1>8, <2>1, <2>2
  <2> QED BY <2>3 DEF CastLater
<1>13. EvTypes'
  BY <1>2, <1>3, <1>6 DEF EventsInv, EvTypes
<1>14. EvPlaces'
  <2>1. PlacedOnce'
    BY <1>6 DEF EventsInv, EvPlaces, PlacedOnce
  <2>2. PlacedHere' /\ PushedOnce' /\ WaitsThere'
    BY <1>2, <1>8 DEF EventsInv, EvPlaces, PlacedHere, PushedOnce, WaitsThere
  <2>3. FiredHere' /\ FiresThere'
    BY <1>2, <1>6 DEF EventsInv, EvPlaces, FiredHere, FiresThere
  <2> QED BY <2>1, <2>2, <2>3 DEF EvPlaces
<1>15. EvLinks'
  <2>1. BlocksThere'
    <3>1. \A i \in EventIds' : event'[i].block \in 0..Len(txBlock')
      BY <1>1, <1>2, <1>3, <1>9
    <3>2. ASSUME NEW d \in Dispatchers
          PROVE  /\ caller'[d].block \in 0..Len(txBlock')
                 /\ caller'[d].at \in {"body", "replay"} <=> caller'[d].block # 0
                 /\ caller'[d].at = "body" => txBlock'[caller'[d].block] = "open"
                 /\ caller'[d].at = "replay" => txBlock'[caller'[d].block] = "committed"
                 /\ caller'[d].block # 0 => \A e \in Dispatchers : e # d => caller'[e].block # caller'[d].block
      <4>1. \A e \in Dispatchers : caller[e].block \in 0..n
        BY <1>1 DEF EventsInv, EvLinks, BlocksThere
      <4>2. CASE d = c
        <5>1. \A e \in Dispatchers : e # c => caller'[e].block \in 0..n
          BY <1>6, <4>1
        <5>2. n + 1 \in 0..(n + 1) /\ n + 1 # 0 /\ n + 1 \notin 0..n
          BY <1>1
        <5> QED BY <1>3, <1>6, <4>2, <5>1, <5>2
      <4>3. CASE d # c
        <5>1. /\ caller'[d] = caller[d]
              /\ caller[d].block \in 0..n
              /\ caller[d].at \in {"body", "replay"} <=> caller[d].block # 0
              /\ caller[d].at = "body" => txBlock[caller[d].block] = "open"
              /\ caller[d].at = "replay" => txBlock[caller[d].block] = "committed"
              /\ caller[d].block # 0 => \A e \in Dispatchers : e # d => caller[e].block # caller[d].block
          BY <1>6, <4>1, <4>3 DEF EventsInv, EvLinks, BlocksThere
        <5>2. caller[d].block # 0 => caller[d].block \in 1..n /\ caller[d].block # n + 1
          BY <1>1, <5>1
        <5>3. caller[d].block # 0 => txBlock'[caller[d].block] = txBlock[caller[d].block]
          BY <1>3, <5>2
        <5>4. caller[d].block # 0 => \A e \in Dispatchers : e # d => caller'[e].block # caller[d].block
          BY <1>6, <5>1, <5>2
        <5>5. caller[d].block \in 0..(n + 1)
          BY <1>1, <5>1
        <5> QED BY <1>3, <5>1, <5>3, <5>4, <5>5
      <4> QED BY <4>2, <4>3
    <3> QED BY <3>1, <3>2 DEF BlocksThere
  <2>2. PushedPlain'
    BY <1>2, <1>10 DEF EventsInv, EvLinks, PushedPlain
  <2>3. BuffersLate'
    BY <1>2, <1>6, <1>7, <1>10 DEF EventsInv, EvLinks, BuffersLate
  <2>4. TodosRight'
    BY <1>2, <1>6, <1>7, <1>10 DEF EventsInv, EvLinks, TodosRight
  <2>5. FiresRight'
    BY <1>2, <1>6, <1>10 DEF EventsInv, EvLinks, FiresRight
  <2> QED BY <2>1, <2>2, <2>3, <2>4, <2>5 DEF EvLinks
<1>16. EvSaid'
  <2>1. SentOnce' /\ HeardSome' /\ HearsRest'
    <3>1. SentOnce'
      BY <1>2, <1>8 DEF EventsInv, EvSaid, SentOnce
    <3>2. HeardSome'
      BY <1>2 DEF EventsInv, EvSaid, HeardSome, HeardOf
    <3>3. HearsRest'
      BY <1>2, <1>6 DEF EventsInv, EvSaid, HearsRest, HeardOf
    <3> QED BY <3>1, <3>2, <3>3
  <2>2. \A d \in Dispatchers : caller'[d].fires # 0 /\ caller'[d].rest = <<>> => Silent(caller[d].fires)'
    <3>1. \A d \in Dispatchers : caller[d].fires # 0 /\ caller[d].rest = <<>> => Silent(caller[d].fires)
      BY DEF EventsInv, EvSaid, SilentYet
    <3>2. \A d \in Dispatchers : caller'[d].fires = caller[d].fires /\ caller'[d].rest = caller[d].rest
      BY <1>6
    <3>3. \A i : Silent(i) => Silent(i)'
      BY <1>10
    <3> SUFFICES ASSUME NEW d \in Dispatchers, caller'[d].fires # 0, caller'[d].rest = <<>>
                 PROVE  Silent(caller[d].fires)'
      OBVIOUS
    <3>4. PICK i : i = caller[d].fires /\ caller'[d].fires = i
      BY <3>2
    <3>5. Silent(i)'
      BY <3>1, <3>2, <3>3, <3>4
    <3> QED BY <3>4, <3>5 DEF Silent
  <2>3. SilentYet'
    BY <1>2, <1>10, <2>2 DEF EventsInv, EvSaid, SilentYet
  <2> QED BY <2>1, <2>3 DEF EvSaid
<1>17. EvBlocks'
  BY <1>2, <1>10, <1>11, <1>12 DEF EventsInv, EvBlocks, DeferredRight, CastsRight
<1> QED BY <1>13, <1>14, <1>15, <1>16, <1>17 DEF EventsInv

\* It commits, and what it deferred is to be replayed.
LEMMA CommitBlockKeeps == ASSUME EventsInv, NEW c \in Dispatchers, CommitBlock(c) PROVE EventsInv'
<1>1. PICK b \in Nat : b = caller[c].block
  BY ItemsTyped
<1>2. /\ UNCHANGED <<listeners, pushed, event, gathered, heard, sent, fate>> /\ EventIds' = EventIds
      /\ caller[c].at = "body" /\ caller[c].fires = 0 /\ caller[c].todo = <<>>
      /\ txBlock' = [txBlock EXCEPT ![b] = "committed"]
      /\ caller' = [caller EXCEPT ![c] = [caller[c] EXCEPT !.at = "replay", !.todo = caller[c].buffer,
                                                           !.buffer = <<>>]]
  BY <1>1 DEF CommitBlock, OwnCode, eventPast, EventIds
<1>3. txBlock \in Seq(States) /\ Len(txBlock) \in Nat /\ b \in 1..Len(txBlock) /\ txBlock[b] = "open"
  BY <1>1, <1>2 DEF EventsInv, EvTypes, EvLinks, BlocksThere
<1>4. /\ txBlock' \in Seq(States) /\ Len(txBlock') = Len(txBlock) /\ txBlock'[b] = "committed"
      /\ \A k \in 1..Len(txBlock) : k # b => txBlock'[k] = txBlock[k]
  <2>1. PICK t : t = [txBlock EXCEPT ![b] = "committed"]
    OBVIOUS
  <2>2. "committed" \in States
    BY DEF States
  <2>3. /\ t \in Seq(States) /\ Len(t) = Len(txBlock) /\ t[b] = "committed"
        /\ \A k \in 1..Len(txBlock) : k # b => t[k] = txBlock[k]
    BY ONLY <1>3, <2>1, <2>2, OneReplaced
  <2> QED BY <1>2, <2>1, <2>3
<1>5. caller \in [Dispatchers -> CallerStates] /\ caller[c] \in CallerStates
  BY DEF EventsInv, EvTypes
<1>6. /\ \A d \in Dispatchers \ {c} : caller'[d] = caller[d]
      /\ \A d \in Dispatchers : /\ caller'[d].fires = caller[d].fires /\ caller'[d].rest = caller[d].rest
                                /\ caller'[d].block = caller[d].block
      /\ caller'[c].at = "replay" /\ caller'[c].buffer = <<>> /\ caller'[c].todo = caller[c].buffer
      /\ caller' \in [Dispatchers -> CallerStates]
  <2>1. PICK keeping \in Seq(Pieces) : keeping = caller[c].buffer
    BY ItemsTyped
  <2>2. PICK r : r = InReplay(caller[c], keeping)
    OBVIOUS
  <2>3. /\ r \in CallerStates /\ r.at = "replay" /\ r.block = caller[c].block /\ r.fires = caller[c].fires
        /\ r.rest = caller[c].rest /\ r.buffer = <<>> /\ r.todo = keeping
    BY <1>5, <2>1, <2>2, BlockChanges
  <2>4. caller' = [caller EXCEPT ![c] = r]
    BY <1>2, <2>1, <2>2 DEF InReplay
  <2> QED BY <1>5, <2>1, <2>3, <2>4
<1>7. Range(caller'[c].buffer) = {} /\ Distinct(caller[c].buffer)' /\ Range(caller[c].todo) = {}
  BY <1>2, <1>6, NoneHas
<1>8. \A d \in Dispatchers : \A item : HasIt(d, item)' <=> HasIt(d, item)
  BY <1>6, <1>7 DEF HasIt
<1>9. \A i \in EventIds : event[i].block \in 0..Len(txBlock) /\ (event[i].block # 0 => event[i].block \in 1..Len(txBlock))
  BY <1>3 DEF EventsInv, EvLinks, BlocksThere
<1>10. /\ \A i : /\ (Plain(i)' <=> Plain(i)) /\ (Defers(i)' <=> Defers(i)) /\ (Queued(i)' <=> Queued(i))
                 /\ (Silent(i)' <=> Silent(i)) /\ (WasFired(i)' <=> WasFired(i)) /\ (CastLater(i)' <=> CastLater(i))
       /\ \A item : IsLate(item)' <=> IsLate(item)
  BY <1>2, <1>6, <1>8 DEF Plain, Defers, Queued, IsLate, Silent, WasFired, CastLater
<1>11. \A i \in EventIds : event[i].block # 0 =>
          /\ event[i].block # b => BlockOf(i)' = BlockOf(i)
          /\ event[i].block = b => BlockOf(i)' = "committed" /\ BlockOf(i) = "open"
  BY <1>2, <1>3, <1>4, <1>9 DEF BlockOf
<1>12. EvTypes'
  BY <1>2, <1>4, <1>6 DEF EventsInv, EvTypes
<1>13. EvPlaces'
  <2>1. PlacedOnce'
    BY <1>6, <1>7 DEF EventsInv, EvPlaces, PlacedOnce
  <2>2. PlacedHere' /\ FiredHere' /\ PushedOnce' /\ WaitsThere' /\ FiresThere'
    BY <1>2, <1>6, <1>8
    DEF EventsInv, EvPlaces, PlacedHere, FiredHere, PushedOnce, WaitsThere, FiresThere
  <2> QED BY <2>1, <2>2 DEF EvPlaces
<1>14. EvLinks'
  <2>1. BlocksThere'
    <3>1. \A i \in EventIds' : event'[i].block \in 0..Len(txBlock')
      BY <1>2, <1>4, <1>9
    <3>2. ASSUME NEW d \in Dispatchers
          PROVE  /\ caller'[d].block \in 0..Len(txBlock')
                 /\ caller'[d].at \in {"body", "replay"} <=> caller'[d].block # 0
                 /\ caller'[d].at = "body" => txBlock'[caller'[d].block] = "open"
                 /\ caller'[d].at = "replay" => txBlock'[caller'[d].block] = "committed"
                 /\ caller'[d].block # 0 => \A e \in Dispatchers : e # d => caller'[e].block # caller'[d].block
      <4>1. /\ caller[d].block \in 0..Len(txBlock)
            /\ caller[d].at \in {"body", "replay"} <=> caller[d].block # 0
            /\ caller[d].at = "body" => txBlock[caller[d].block] = "open"
            /\ caller[d].at = "replay" => txBlock[caller[d].block] = "committed"
            /\ caller[d].block # 0 => \A e \in Dispatchers : e # d => caller[e].block # caller[d].block
        BY DEF EventsInv, EvLinks, BlocksThere
      <4>2. CASE d = c
        BY <1>1, <1>2, <1>4, <1>6, <4>1, <4>2
      <4>3. CASE d # c
        <5>1. caller[d].block # 0 => caller[d].block \in 1..Len(txBlock) /\ caller[d].block # b
          BY <1>1, <1>3, <4>1, <4>3
        <5>2. caller[d].block # 0 => txBlock'[caller[d].block] = txBlock[caller[d].block]
          BY <1>4, <5>1
        <5> QED BY <1>4, <1>6, <4>1, <4>3, <5>2
      <4> QED BY <4>2, <4>3
    <3> QED BY <3>1, <3>2 DEF BlocksThere
  <2>2. PushedPlain'
    BY <1>2, <1>10 DEF EventsInv, EvLinks, PushedPlain
  <2>3. BuffersLate'
    BY <1>2, <1>6, <1>7, <1>10 DEF EventsInv, EvLinks, BuffersLate
  <2>4. TodosRight'
    <3>1. \A item \in Range(caller[c].buffer) : event[item[1]].block = caller[c].block /\ IsLate(item)
      BY DEF EventsInv, EvLinks, BuffersLate
    <3> QED BY <1>2, <1>6, <1>10, <3>1 DEF EventsInv, EvLinks, TodosRight
  <2>5. FiresRight'
    BY <1>2, <1>6, <1>10 DEF EventsInv, EvLinks, FiresRight
  <2> QED BY <2>1, <2>2, <2>3, <2>4, <2>5 DEF EvLinks
<1>15. EvSaid'
  <2>1. SentOnce' /\ HeardSome' /\ HearsRest'
    <3>1. SentOnce'
      BY <1>2, <1>8 DEF EventsInv, EvSaid, SentOnce
    <3>2. HeardSome'
      BY <1>2 DEF EventsInv, EvSaid, HeardSome, HeardOf
    <3>3. HearsRest'
      BY <1>2, <1>6 DEF EventsInv, EvSaid, HearsRest, HeardOf
    <3> QED BY <3>1, <3>2, <3>3
  <2>2. \A d \in Dispatchers : caller'[d].fires # 0 /\ caller'[d].rest = <<>> => Silent(caller[d].fires)'
    <3>1. \A d \in Dispatchers : caller[d].fires # 0 /\ caller[d].rest = <<>> => Silent(caller[d].fires)
      BY DEF EventsInv, EvSaid, SilentYet
    <3>2. \A d \in Dispatchers : caller'[d].fires = caller[d].fires /\ caller'[d].rest = caller[d].rest
      BY <1>6
    <3>3. \A i : Silent(i) => Silent(i)'
      BY <1>10
    <3> SUFFICES ASSUME NEW d \in Dispatchers, caller'[d].fires # 0, caller'[d].rest = <<>>
                 PROVE  Silent(caller[d].fires)'
      OBVIOUS
    <3>4. PICK i : i = caller[d].fires /\ caller'[d].fires = i
      BY <3>2
    <3>5. Silent(i)'
      BY <3>1, <3>2, <3>3, <3>4
    <3> QED BY <3>4, <3>5 DEF Silent
  <2>3. SilentYet'
    BY <1>2, <1>10, <2>2 DEF EventsInv, EvSaid, SilentYet
  <2> QED BY <2>1, <2>3 DEF EvSaid
<1>16. DeferredRight'
  <2> SUFFICES ASSUME NEW i \in EventIds, event[i].block # 0, Defers(i)
               PROVE  /\ BlockOf(i)' = "open" => fate[i] = "waiting"
                      /\ BlockOf(i)' = "committed" => fate[i] # "dropped"
                      /\ BlockOf(i)' = "rolled back" => fate[i] = "dropped"
                      /\ BlockOf(i)' = "replayed" => fate[i] \in {"over", "stopped", "raised"}
    BY <1>2, <1>10 DEF DeferredRight
  <2>1. /\ BlockOf(i) = "open" => fate[i] = "waiting"
        /\ BlockOf(i) = "committed" => fate[i] # "dropped"
        /\ BlockOf(i) = "rolled back" => fate[i] = "dropped"
        /\ BlockOf(i) = "replayed" => fate[i] \in {"over", "stopped", "raised"}
    BY DEF EventsInv, EvBlocks, DeferredRight
  <2>2. CASE event[i].block = b
    <3>1. BlockOf(i)' = "committed" /\ fate[i] = "waiting"
      BY <1>11, <2>1, <2>2
    <3> QED BY <3>1
  <2>3. CASE event[i].block # b
    BY <1>11, <2>1, <2>3
  <2> QED BY <2>2, <2>3
<1>17. CastsRight'
  <2> SUFFICES ASSUME NEW i \in EventIds, event[i].block # 0, Queued(i)
               PROVE  /\ BlockOf(i)' \in {"open", "rolled back"} => sent[i] = 0
                      /\ BlockOf(i)' \in {"open", "committed"} /\ WasFired(i) => sent[i] = 1 \/ CastLater(i)
                      /\ BlockOf(i)' = "replayed" /\ fate[i] = "over" => sent[i] = 1
    BY <1>2, <1>10 DEF CastsRight
  <2>1. /\ BlockOf(i) \in {"open", "rolled back"} => sent[i] = 0
        /\ BlockOf(i) \in {"open", "committed"} /\ WasFired(i) => sent[i] = 1 \/ CastLater(i)
        /\ BlockOf(i) = "replayed" /\ fate[i] = "over" => sent[i] = 1
    BY DEF EventsInv, EvBlocks, CastsRight
  <2>2. CASE event[i].block = b
    BY <1>11, <2>1, <2>2
  <2>3. CASE event[i].block # b
    BY <1>11, <2>1, <2>3
  <2> QED BY <2>2, <2>3
<1> QED BY <1>12, <1>13, <1>14, <1>15, <1>16, <1>17 DEF EventsInv, EvBlocks

\* An event is fired.
Fired(q, rest, fires, holding) == [q EXCEPT !.rest = rest, !.fires = fires, !.buffer = holding]
LEMMA FiredChanges ==
  \A q \in CallerStates, rest \in Seq(Listeners), m \in Nat : \A s \in Seq(Pieces) :
     LET r == Fired(q, rest, m, s) IN
     /\ r \in CallerStates /\ r.at = q.at /\ r.block = q.block /\ r.fires = m
     /\ r.rest = rest /\ r.buffer = s /\ r.todo = q.todo
<1> SUFFICES ASSUME NEW q \in CallerStates, NEW rest \in Seq(Listeners), NEW m \in Nat, NEW s \in Seq(Pieces)
             PROVE  LET r == Fired(q, rest, m, s) IN
                    /\ r \in CallerStates /\ r.at = q.at /\ r.block = q.block /\ r.fires = m
                    /\ r.rest = rest /\ r.buffer = s /\ r.todo = q.todo
  OBVIOUS
<1>1. Fired(q, rest, m, s) \in CallerStates
  BY DEF CallerStates, Fired
<1> QED BY <1>1 DEF CallerStates, Fired

LEMMA FireKeeps == ASSUME EventsInv, NEW c \in Dispatchers, Fire(c) PROVE EventsInv'
<1>1. PICK id \in Nat : id = caller[c].fires
  BY ItemsTyped
<1>2. PICK G \in Seq(Listeners) : G = Gather
  BY GatherTypes DEF EventsInv, EvTypes
<1>3. PICK keeping \in Seq(Pieces) : keeping = caller[c].buffer
  BY ItemsTyped
<1>4. PICK waits \in BOOLEAN : waits <=> CastWaitsForCommit(c, event[id].kind)
  OBVIOUS
<1>5. PICK holding : holding = IF waits THEN Append(keeping, <<id, "broadcast">>) ELSE keeping
  OBVIOUS
<1>6. PICK more : more = IF waits \/ event[id].kind.cast = "no" THEN 0 ELSE 1
  OBVIOUS
<1>7. /\ id # 0 /\ caller[c].rest = <<>> /\ id \in EventIds /\ fate[id] = "firing" /\ Silent(id)
      /\ <<id, "broadcast">> \in Pieces /\ <<id, "event">> \in Pieces
      /\ \A d \in Dispatchers : d # c => caller[d].fires # id
  BY <1>1 DEF Fire, EventsInv, EvPlaces, FiredHere, FiresThere, EvSaid, SilentYet, Pieces
<1>8. /\ UNCHANGED <<listeners, pushed, txBlock, event, heard>> /\ EventIds' = EventIds
      /\ sent' = [sent EXCEPT ![id] = sent[id] + more] /\ gathered' = [gathered EXCEPT ![id] = G]
      /\ fate' = IF G = <<>> THEN [fate EXCEPT ![id] = "over"] ELSE fate
  BY <1>1, <1>2, <1>4, <1>6 DEF Fire, EventIds
<1>9. caller' = [caller EXCEPT ![c] = Fired(caller[c], G, IF G = <<>> THEN 0 ELSE id, holding)]
  BY <1>1, <1>2, <1>3, <1>4, <1>5 DEF Fire, Fired
<1>10. caller \in [Dispatchers -> CallerStates] /\ caller[c] \in CallerStates
  BY DEF EventsInv, EvTypes
<1>11. /\ holding \in Seq(Pieces) /\ Distinct(holding)
       /\ \A item : item \in Range(holding) <=> item \in Range(keeping) \/ (waits /\ item = <<id, "broadcast">>)
  <2>1. Distinct(keeping) /\ <<id, "broadcast">> \notin Range(keeping)
    BY <1>3, <1>7 DEF EventsInv, EvPlaces, PlacedOnce, Silent, HasIt
  <2>2. CASE waits
    <3>1. holding = Append(keeping, <<id, "broadcast">>)
      BY <1>5, <2>2
    <3>2. holding \in Seq(Pieces) /\ Range(holding) = Range(keeping) \cup {<<id, "broadcast">>} /\ Distinct(holding)
      BY ONLY keeping \in Seq(Pieces), <1>7, <2>1, <3>1, HasOneMore
    <3> QED BY <2>2, <3>2
  <2>3. CASE ~waits
    BY <1>3, <1>5, <2>1, <2>3
  <2> QED BY <2>2, <2>3
<1>12. /\ \A d \in Dispatchers \ {c} : caller'[d] = caller[d]
       /\ \A d \in Dispatchers : /\ caller'[d].at = caller[d].at /\ caller'[d].block = caller[d].block
                                 /\ caller'[d].todo = caller[d].todo
       /\ caller'[c].rest = G /\ caller'[c].buffer = holding
       /\ G = <<>> => caller'[c].fires = 0
       /\ G # <<>> => caller'[c].fires = id
       /\ caller' \in [Dispatchers -> CallerStates]
  <2>1. PICK m \in Nat : m = IF G = <<>> THEN 0 ELSE id
    OBVIOUS
  <2>2. PICK r : r = Fired(caller[c], G, m, holding)
    OBVIOUS
  <2>3. /\ r \in CallerStates /\ r.at = caller[c].at /\ r.block = caller[c].block /\ r.fires = m
        /\ r.rest = G /\ r.buffer = holding /\ r.todo = caller[c].todo
    BY <1>10, <1>11, <2>2, FiredChanges
  <2>4. caller' = [caller EXCEPT ![c] = r]
    BY <1>9, <2>1, <2>2
  <2> QED BY <1>10, <2>1, <2>3, <2>4
<1>13. /\ \A d \in Dispatchers : \A item : item # <<id, "broadcast">> => (HasIt(d, item)' <=> HasIt(d, item))
       /\ HasIt(c, <<id, "broadcast">>)' <=> waits
       /\ \A d \in Dispatchers : d # c => ~HasIt(d, <<id, "broadcast">>)'
       /\ \A d \in Dispatchers : ~HasIt(d, <<id, "broadcast">>)
  <2>1. \A d \in Dispatchers : ~HasIt(d, <<id, "broadcast">>)
    BY <1>7 DEF Silent
  <2>2. \A d \in Dispatchers : \A item : d # c => (HasIt(d, item)' <=> HasIt(d, item))
    BY <1>12 DEF HasIt
  <2>3. \A item : HasIt(c, item)' <=> HasIt(c, item) \/ (waits /\ item = <<id, "broadcast">>)
    BY <1>3, <1>11, <1>12 DEF HasIt
  <2> QED BY <2>1, <2>2, <2>3
<1>14. \A d \in Dispatchers : \A i : HasIt(d, <<i, "event">>)' <=> HasIt(d, <<i, "event">>)
  BY <1>13
<1>15. /\ \A i : /\ (Plain(i)' <=> Plain(i)) /\ (Defers(i)' <=> Defers(i)) /\ (Queued(i)' <=> Queued(i))
                 /\ BlockOf(i)' = BlockOf(i) /\ (Plain(i) => ~Defers(i) /\ ~Queued(i))
       /\ \A item : IsLate(item)' <=> IsLate(item)
  BY <1>8 DEF Plain, Defers, Queued, BlockOf, IsLate, PlainEvent, Deferrable
<1>16. /\ waits <=> Queued(id) /\ caller[c].at = "body"
       /\ Plain(id) \/ event[id].block = caller[c].block
       /\ more \in {0, 1} /\ (waits => more = 0)
       /\ Queued(id) /\ ~waits => more = 1
  <2>1. waits <=> Queued(id) /\ caller[c].at = "body"
    BY <1>4 DEF CastWaitsForCommit, Queued
  <2>2. Plain(id) \/ event[id].block = caller[c].block
    BY <1>1, <1>7 DEF EventsInv, EvLinks, FiresRight
  <2> QED BY <1>6, <2>1, <2>2 DEF Queued
<1>17. /\ sent[id] = 0 /\ gathered[id] = <<>> /\ heard[id] = <<>>
       /\ sent'[id] = more /\ gathered'[id] = G
       /\ \A i \in EventIds : i # id => sent'[i] = sent[i] /\ gathered'[i] = gathered[i] /\ fate'[i] = fate[i]
       /\ G = <<>> => fate'[id] = "over"
       /\ G # <<>> => fate'[id] = "firing"
       /\ sent' \in [EventIds -> Nat] /\ gathered' \in [EventIds -> Seq(Listeners)] /\ fate' \in [EventIds -> Fates]
  <2>1. /\ sent \in [EventIds -> Nat] /\ gathered \in [EventIds -> Seq(Listeners)] /\ fate \in [EventIds -> Fates]
    BY DEF EventsInv, EvTypes
  <2>2. sent[id] = 0 /\ gathered[id] = <<>> /\ heard[id] = <<>>
    BY <1>7 DEF Silent
  <2> QED BY <1>7, <1>8, <1>16, <2>1, <2>2 DEF Fates
<1>18. EvTypes'
  BY <1>8, <1>12, <1>17 DEF EventsInv, EvTypes
<1>19. \A i \in EventIds : i # 0
  BY EventIdsAre DEF EventsInv, EvTypes
<1>20. EvPlaces'
  <2>1. PlacedOnce'
    <3>1. \A item \in Range(caller[c].todo) : item \notin Range(holding)
      <4>1. \A item \in Range(caller[c].todo) : item \notin Range(keeping)
        BY <1>3 DEF EventsInv, EvPlaces, PlacedOnce
      <4>2. <<id, "broadcast">> \notin Range(caller[c].todo)
        BY <1>13 DEF HasIt
      <4> QED BY <1>11, <4>1, <4>2
    <3> QED BY <1>11, <1>12, <3>1 DEF EventsInv, EvPlaces, PlacedOnce
  <2>2. PlacedHere'
    <3> SUFFICES ASSUME NEW d \in Dispatchers, NEW item \in Pieces, HasIt(d, item)'
                 PROVE  item[1] \in EventIds /\ \A e \in Dispatchers : e # d => ~HasIt(e, item)'
      BY <1>8 DEF PlacedHere
    <3>1. CASE item = <<id, "broadcast">>
      BY <1>7, <1>13, <3>1
    <3>2. CASE item # <<id, "broadcast">>
      BY <1>13, <3>2 DEF EventsInv, EvPlaces, PlacedHere
    <3> QED BY <3>1, <3>2
  <2>3. FiredHere'
    <3> SUFFICES ASSUME NEW d \in Dispatchers, caller'[d].fires # 0
                 PROVE  /\ caller'[d].fires \in EventIds
                        /\ \A e \in Dispatchers : e # d => caller'[e].fires # caller'[d].fires
      BY <1>8 DEF FiredHere
    <3>1. caller'[d].fires = caller[d].fires
      BY <1>1, <1>12
    <3>2. /\ caller[d].fires \in EventIds
          /\ \A e \in Dispatchers : e # d => caller[e].fires # caller[d].fires
      BY <3>1 DEF EventsInv, EvPlaces, FiredHere
    <3>3. \A e \in Dispatchers : caller'[e].fires \in {0, caller[e].fires}
      BY <1>1, <1>12
    <3> QED BY <1>19, <3>1, <3>2, <3>3
  <2>4. PushedOnce'
    BY <1>8, <1>14 DEF EventsInv, EvPlaces, PushedOnce
  <2>5. WaitsThere'
    <3>1. \A i \in EventIds : fate'[i] = "waiting" <=> fate[i] = "waiting"
      BY <1>7, <1>17
    <3> QED BY <1>8, <1>14, <3>1 DEF EventsInv, EvPlaces, WaitsThere
  <2>6. FiresThere'
    <3> SUFFICES ASSUME NEW i \in EventIds
                 PROVE  fate'[i] = "firing" <=> \E d \in Dispatchers : caller'[d].fires = i
      BY <1>8 DEF FiresThere
    <3>1. fate[i] = "firing" <=> \E d \in Dispatchers : caller[d].fires = i
      BY DEF EventsInv, EvPlaces, FiresThere
    <3>2. CASE i = id
      BY <1>1, <1>7, <1>12, <1>17, <1>19, <3>2
    <3>3. CASE i # id
      <4>1. \A d \in Dispatchers : caller'[d].fires = i <=> caller[d].fires = i
        BY <1>1, <1>12, <1>19, <3>3
      <4> QED BY <1>17, <3>1, <3>3, <4>1
    <3> QED BY <3>2, <3>3
  <2> QED BY <2>1, <2>2, <2>3, <2>4, <2>5, <2>6 DEF EvPlaces
<1>21. EvLinks'
  <2>1. BlocksThere'
    BY <1>8, <1>12 DEF EventsInv, EvLinks, BlocksThere
  <2>2. PushedPlain'
    BY <1>8, <1>15 DEF EventsInv, EvLinks, PushedPlain
  <2>3. BuffersLate'
    <3>1. waits => caller[c].at = "body" /\ event[id].block = caller[c].block /\ IsLate(<<id, "broadcast">>)
      BY <1>15, <1>16 DEF IsLate
    <3>2. \A item \in Range(holding) :
             caller[c].at = "body" /\ event[item[1]].block = caller[c].block /\ IsLate(item)
      <4> SUFFICES ASSUME NEW item \in Range(holding)
                   PROVE  caller[c].at = "body" /\ event[item[1]].block = caller[c].block /\ IsLate(item)
        OBVIOUS
      <4>1. CASE item \in Range(keeping)
        BY <1>3, <4>1 DEF EventsInv, EvLinks, BuffersLate
      <4>2. CASE waits /\ item = <<id, "broadcast">>
        <5>1. item[1] = id
          BY <4>2
        <5> QED BY <3>1, <4>2, <5>1
      <4> QED BY <1>11, <4>1, <4>2
    <3> QED BY <1>8, <1>12, <1>15, <3>2 DEF EventsInv, EvLinks, BuffersLate
  <2>4. TodosRight'
    BY <1>8, <1>12, <1>15 DEF EventsInv, EvLinks, TodosRight
  <2>5. FiresRight'
    <3>1. \A d \in Dispatchers : caller'[d].fires \in {0, caller[d].fires}
      BY <1>1, <1>12
    <3> QED BY <1>8, <1>12, <1>15, <3>1 DEF EventsInv, EvLinks, FiresRight
  <2> QED BY <2>1, <2>2, <2>3, <2>4, <2>5 DEF EvLinks
<1>22. EvSaid'
  <2>1. SentOnce'
    <3> SUFFICES ASSUME NEW i \in EventIds
                 PROVE  sent'[i] <= 1 /\ \A d \in Dispatchers : HasIt(d, <<i, "broadcast">>)' => sent'[i] = 0
      BY <1>8 DEF SentOnce
    <3>1. sent[i] <= 1 /\ \A d \in Dispatchers : HasIt(d, <<i, "broadcast">>) => sent[i] = 0
      BY DEF EventsInv, EvSaid, SentOnce
    <3>2. CASE i = id
      <4>1. sent'[i] = more /\ more <= 1
        BY <1>16, <1>17, <3>2
      <4>2. ASSUME NEW d \in Dispatchers, HasIt(d, <<i, "broadcast">>)' PROVE more = 0
        <5>1. waits
          BY <1>13, <3>2, <4>2
        <5> QED BY <1>16, <5>1
      <4> QED BY <4>1, <4>2
    <3>3. CASE i # id
      <4>1. <<i, "broadcast">> # <<id, "broadcast">>
        BY <3>3
      <4> QED BY <1>13, <1>17, <3>1, <3>3, <4>1
    <3> QED BY <3>2, <3>3
  <2>2. \A i \in EventIds : i # id /\ Silent(i) => Silent(i)'
    <3> SUFFICES ASSUME NEW i \in EventIds, i # id, Silent(i) PROVE Silent(i)'
      OBVIOUS
    <3>1. <<i, "broadcast">> # <<id, "broadcast">>
      OBVIOUS
    <3>2. \A d \in Dispatchers : ~HasIt(d, <<i, "broadcast">>)'
      BY <1>13, <3>1 DEF Silent
    <3> QED BY <1>8, <1>17, <3>2 DEF Silent
  <2>3. SilentYet'
    <3>1. ASSUME NEW i \in EventIds, fate'[i] \in {"waiting", "dropped"} PROVE Silent(i)'
      <4>1. i # id /\ fate[i] \in {"waiting", "dropped"}
        BY <1>17, <3>1
      <4> QED BY <2>2, <4>1 DEF EventsInv, EvSaid, SilentYet
    <3>2. ASSUME NEW d \in Dispatchers, caller'[d].fires # 0, caller'[d].rest = <<>>
          PROVE  Silent(caller[d].fires)'
      <4>1. d # c /\ caller'[d] = caller[d]
        BY <1>12, <3>2
      <4>2. PICK i : i = caller[d].fires
        OBVIOUS
      <4>3. i \in EventIds /\ i # id /\ Silent(i)
        BY <1>7, <3>2, <4>1, <4>2 DEF EventsInv, EvSaid, SilentYet, EvPlaces, FiredHere
      <4>4. Silent(i)'
        BY <2>2, <4>3
      <4> QED BY <4>1, <4>2, <4>4 DEF Silent
    <3> QED BY <1>8, <3>1, <3>2 DEF SilentYet
  <2>4. <<>> \o G = G
    BY <1>2
  <2>5. HeardSome'
    <3>1. \A i \in EventIds : i # id => \E q \in Seq(Listeners) : HeardOf(i, q)'
      BY <1>8, <1>17 DEF EventsInv, EvSaid, HeardSome, HeardOf
    <3>2. HeardOf(id, G)'
      BY <1>8, <1>17, <2>4 DEF HeardOf
    <3>3. \A i \in EventIds : fate'[i] = "over" => heard'[i] = gathered'[i]
      BY <1>8, <1>17 DEF EventsInv, EvSaid, HeardSome
    <3> QED BY <1>2, <1>8, <3>1, <3>2, <3>3 DEF HeardSome
  <2>6. HearsRest'
    <3> SUFFICES ASSUME NEW d \in Dispatchers, caller'[d].rest # <<>>
                 PROVE  caller'[d].fires # 0 /\ HeardOf(caller[d].fires, caller[d].rest)'
      BY DEF HearsRest
    <3>1. CASE d = c
      <4>1. caller'[d].fires = id /\ caller'[d].rest = G
        BY <1>12, <3>1
      <4>2. heard'[id] \o G = gathered'[id]
        BY <1>8, <1>17, <2>4
      <4> QED BY <1>7, <4>1, <4>2 DEF HeardOf
    <3>2. CASE d # c
      <4>1. caller'[d] = caller[d]
        BY <1>12, <3>2
      <4>2. /\ caller[d].fires # 0 /\ caller[d].fires \in EventIds /\ caller[d].fires # id
            /\ heard[caller[d].fires] \o caller[d].rest = gathered[caller[d].fires]
        BY <1>7, <3>2, <4>1 DEF EventsInv, EvSaid, HearsRest, HeardOf, EvPlaces, FiredHere
      <4>3. gathered'[caller[d].fires] = gathered[caller[d].fires]
        BY <1>17, <4>2
      <4> QED BY <1>8, <4>1, <4>2, <4>3 DEF HeardOf
    <3> QED BY <3>1, <3>2
  <2> QED BY <2>1, <2>3, <2>5, <2>6 DEF EvSaid
<1>23. DeferredRight'
  <2> SUFFICES ASSUME NEW i \in EventIds, event[i].block # 0, Defers(i)
               PROVE  /\ BlockOf(i) = "open" => fate'[i] = "waiting"
                      /\ BlockOf(i) = "committed" => fate'[i] # "dropped"
                      /\ BlockOf(i) = "rolled back" => fate'[i] = "dropped"
                      /\ BlockOf(i) = "replayed" => fate'[i] \in {"over", "stopped", "raised"}
    BY <1>8, <1>15 DEF DeferredRight
  <2>1. /\ BlockOf(i) = "open" => fate[i] = "waiting"
        /\ BlockOf(i) = "committed" => fate[i] # "dropped"
        /\ BlockOf(i) = "rolled back" => fate[i] = "dropped"
        /\ BlockOf(i) = "replayed" => fate[i] \in {"over", "stopped", "raised"}
    BY DEF EventsInv, EvBlocks, DeferredRight
  <2>2. CASE i = id
    BY <1>7, <1>17, <2>1, <2>2
  <2>3. CASE i # id
    BY <1>17, <2>1, <2>3
  <2> QED BY <2>2, <2>3
<1>24. CastsRight'
  <2> SUFFICES ASSUME NEW i \in EventIds, event[i].block # 0, Queued(i)
               PROVE  /\ BlockOf(i) \in {"open", "rolled back"} => sent'[i] = 0
                      /\ BlockOf(i) \in {"open", "committed"} /\ WasFired(i)' => sent'[i] = 1 \/ CastLater(i)'
                      /\ BlockOf(i) = "replayed" /\ fate'[i] = "over" => sent'[i] = 1
    BY <1>8, <1>15 DEF CastsRight
  <2>1. /\ BlockOf(i) \in {"open", "rolled back"} => sent[i] = 0
        /\ BlockOf(i) \in {"open", "committed"} /\ WasFired(i) => sent[i] = 1 \/ CastLater(i)
        /\ BlockOf(i) = "replayed" /\ fate[i] = "over" => sent[i] = 1
    BY DEF EventsInv, EvBlocks, CastsRight
  <2>2. CASE i = id
    <3>1. event[id].block = caller[c].block /\ caller[c].block # 0
      BY <1>15, <1>16, <2>2
    <3>2. /\ caller[c].at = "body" => BlockOf(id) = "open"
          /\ caller[c].at = "replay" => BlockOf(id) = "committed"
          /\ caller[c].at \in {"body", "replay"}
      BY <3>1 DEF EventsInv, EvLinks, BlocksThere, BlockOf
    <3>3. CASE caller[c].at = "body"
      <4>1. waits /\ sent'[id] = 0 /\ HasIt(c, <<id, "broadcast">>)'
        BY <1>13, <1>16, <1>17, <2>2, <3>3
      <4>2. caller'[c].block = event'[id].block
        BY <1>8, <1>12, <3>1
      <4>3. CastLater(id)'
        BY <4>1, <4>2 DEF CastLater
      <4> QED BY <2>2, <3>2, <3>3, <4>1, <4>3
    <3>4. CASE caller[c].at = "replay"
      <4>1. sent'[id] = 1
        BY <1>16, <1>17, <2>2, <3>4
      <4> QED BY <2>2, <3>2, <3>4, <4>1
    <3> QED BY <3>2, <3>3, <3>4
  <2>3. CASE i # id
    <3>1. <<i, "broadcast">> # <<id, "broadcast">>
      BY <2>3
    <3>2. sent'[i] = sent[i] /\ fate'[i] = fate[i]
      BY <1>17, <2>3
    <3>3. CastLater(i) => CastLater(i)'
      BY <1>8, <1>12, <1>13, <3>1 DEF CastLater
    <3>4. WasFired(i)' => WasFired(i)
      <4>1. \A d \in Dispatchers : caller'[d].fires = i => caller'[d] = caller[d]
        BY <1>12, <1>19, <2>3
      <4> QED BY <3>2, <4>1 DEF WasFired
    <3> QED BY <2>1, <3>2, <3>3, <3>4
  <2> QED BY <2>2, <2>3
<1> QED BY <1>18, <1>20, <1>21, <1>22, <1>23, <1>24 DEF EventsInv, EvBlocks

\* What is so when an event of that kind was made, wherever it went.
Made(c, kind, f, new) ==
    /\ new \in Nat \ {0} /\ new \notin EventIds /\ EventIds' = EventIds \cup {new}
    /\ \A i \in EventIds : i \in Nat \ {0} /\ i # new
    /\ event' \in Seq([kind : EventKinds, block : Nat])
    /\ event'[new].kind = kind /\ event'[new].block = caller[c].block
    /\ gathered' \in [EventIds' -> Seq(Listeners)] /\ heard' \in [EventIds' -> Seq(Listeners)]
    /\ sent' \in [EventIds' -> Nat] /\ fate' \in [EventIds' -> Fates]
    /\ gathered'[new] = <<>> /\ heard'[new] = <<>> /\ sent'[new] = 0 /\ fate'[new] = f
    /\ \A i \in EventIds : /\ event'[i] = event[i] /\ gathered'[i] = gathered[i] /\ heard'[i] = heard[i]
                           /\ sent'[i] = sent[i] /\ fate'[i] = fate[i]

\* One more event is made.
LEMMA MadeOne ==
  ASSUME EventsInv, NEW c \in Dispatchers, NEW kind \in EventKinds, NEW f \in Fates, Make(c, kind, f),
         NEW n \in Nat, n = Len(event)
  PROVE  Made(c, kind, f, n + 1)
<1> DEFINE K == [kind : EventKinds, block : Nat]
<1>1. event \in Seq(K) /\ n \in Nat /\ EventIds = 1..n /\ caller[c].block \in Nat
  BY EventIdsAre, ItemsTyped DEF EventsInv, EvTypes
<1>2. PICK e \in K : e = [kind |-> kind, block |-> caller[c].block]
  BY <1>1
<1>3. /\ event' = Append(event, e) /\ gathered' = Append(gathered, <<>>) /\ heard' = Append(heard, <<>>)
      /\ sent' = Append(sent, 0) /\ fate' = Append(fate, f)
  BY <1>2 DEF Make
<1>4. e.kind = kind /\ e.block = caller[c].block
  BY <1>2
<1>5. /\ n + 1 \in Nat \ {0} /\ n + 1 \notin 1..n /\ 1..(n + 1) = (1..n) \cup {n + 1}
      /\ \A i \in 1..n : i \in Nat \ {0} /\ i # n + 1
  BY <1>1
<1>6. /\ event' \in Seq(K) /\ Len(event') = n + 1 /\ event'[n + 1] = e
      /\ \A i \in 1..n : event'[i] = event[i]
  <2> HIDE DEF K
  <2> QED BY <1>1, <1>3
<1>7. EventIds' = 1..(n + 1)
  BY <1>6 DEF EventIds
<1>8. /\ gathered \in Table(n, Seq(Listeners)) /\ heard \in Table(n, Seq(Listeners))
      /\ sent \in Table(n, Nat) /\ fate \in Table(n, Fates) /\ <<>> \in Seq(Listeners) /\ 0 \in Nat
      /\ f \in Fates /\ n \in Nat
  BY <1>1 DEF EventsInv, EvTypes, Table
<1>9. /\ gathered' \in Table(n + 1, Seq(Listeners)) /\ gathered'[n + 1] = <<>>
      /\ \A i \in 1..n : gathered'[i] = gathered[i]
  <2>1. RowMade(Append(gathered, <<>>), gathered, n, <<>>, Seq(Listeners))
    BY ONLY <1>8, RowAdded, ZenonT(30)
  <2> QED BY <1>3, <2>1 DEF RowMade
<1>10. /\ heard' \in Table(n + 1, Seq(Listeners)) /\ heard'[n + 1] = <<>>
       /\ \A i \in 1..n : heard'[i] = heard[i]
  <2>1. RowMade(Append(heard, <<>>), heard, n, <<>>, Seq(Listeners))
    BY ONLY <1>8, RowAdded, ZenonT(30)
  <2> QED BY <1>3, <2>1 DEF RowMade
<1>11. /\ sent' \in Table(n + 1, Nat) /\ sent'[n + 1] = 0
       /\ \A i \in 1..n : sent'[i] = sent[i]
  <2>1. RowMade(Append(sent, 0), sent, n, 0, Nat)
    BY ONLY <1>8, RowAdded, ZenonT(30)
  <2> QED BY <1>3, <2>1 DEF RowMade
<1>12. /\ fate' \in Table(n + 1, Fates) /\ fate'[n + 1] = f
       /\ \A i \in 1..n : fate'[i] = fate[i]
  <2>1. RowMade(Append(fate, f), fate, n, f, Fates)
    BY ONLY <1>8, RowAdded, ZenonT(30)
  <2> QED BY <1>3, <2>1 DEF RowMade
<1> QED BY <1>1, <1>4, <1>5, <1>6, <1>7, <1>9, <1>10, <1>11, <1>12 DEF Table, Made

\* Where it went: it is held, pushed or fired, and nothing else changed hands.
Went(c, f, new) ==
    /\ UNCHANGED <<listeners, txBlock>> /\ caller' \in [Dispatchers -> CallerStates] /\ pushed' \in Seq(Nat)
    /\ Distinct(pushed') /\ \A i : i \in Range(pushed) => i \in Range(pushed')
    /\ \A d \in Dispatchers :
          /\ caller'[d].at = caller[d].at /\ caller'[d].block = caller[d].block
          /\ caller'[d].rest = caller[d].rest /\ caller'[d].todo = caller[d].todo
          /\ Distinct(caller'[d].buffer)
          /\ \A item : item \in Range(caller'[d].buffer) <=>
                item \in Range(caller[d].buffer) \/ (d = c /\ HasIt(c, item)' /\ item = <<new, "event">>)
          /\ d # c => caller'[d].fires = caller[d].fires
    /\ caller[c].fires = 0 /\ caller'[c].fires = (IF f = "firing" THEN new ELSE 0)
    /\ f \in {"waiting", "firing"}
    /\ f = "firing" => pushed' = pushed /\ ~HasIt(c, <<new, "event">>)'
    /\ f = "waiting" =>
          \/ Range(pushed') = Range(pushed) \cup {new} /\ ~HasIt(c, <<new, "event">>)'
          \/ pushed' = pushed /\ HasIt(c, <<new, "event">>)'

LEMMA MadeKeeps ==
  \A c \in Dispatchers, kind \in EventKinds, f \in Fates : \A new :
     /\ EventsInv /\ Made(c, kind, f, new) /\ Went(c, f, new) /\ caller[c].rest = <<>>
     /\ new \in Range(pushed') => kind = PlainEvent
     /\ HasIt(c, <<new, "event">>)' => caller[c].at = "body" /\ Deferrable(kind)
     /\ f = "firing" => caller[c].at = "outside" \/ (caller[c].at = "body" /\ ~Deferrable(kind))
     => EventsInv'
<1> SUFFICES ASSUME NEW c \in Dispatchers, NEW kind \in EventKinds, NEW f \in Fates, NEW new,
                    EventsInv, Made(c, kind, f, new), Went(c, f, new), caller[c].rest = <<>>,
                    new \in Range(pushed') => kind = PlainEvent,
                    HasIt(c, <<new, "event">>)' => caller[c].at = "body" /\ Deferrable(kind),
                    f = "firing" => caller[c].at = "outside" \/ (caller[c].at = "body" /\ ~Deferrable(kind))
             PROVE  EventsInv'
  OBVIOUS
<1>1. /\ new \in Nat \ {0} /\ new \notin EventIds /\ EventIds' = EventIds \cup {new}
      /\ \A i \in EventIds : i \in Nat \ {0} /\ i # new
      /\ event' \in Seq([kind : EventKinds, block : Nat])
      /\ event'[new].kind = kind /\ event'[new].block = caller[c].block
      /\ gathered' \in [EventIds' -> Seq(Listeners)] /\ heard' \in [EventIds' -> Seq(Listeners)]
      /\ sent' \in [EventIds' -> Nat] /\ fate' \in [EventIds' -> Fates]
      /\ gathered'[new] = <<>> /\ heard'[new] = <<>> /\ sent'[new] = 0 /\ fate'[new] = f
      /\ \A i \in EventIds : /\ event'[i] = event[i] /\ gathered'[i] = gathered[i] /\ heard'[i] = heard[i]
                             /\ sent'[i] = sent[i] /\ fate'[i] = fate[i]
  BY DEF Made
<1>2. /\ UNCHANGED <<listeners, txBlock>> /\ caller' \in [Dispatchers -> CallerStates] /\ pushed' \in Seq(Nat)
      /\ Distinct(pushed') /\ \A i : i \in Range(pushed) => i \in Range(pushed')
      /\ \A d \in Dispatchers :
            /\ caller'[d].at = caller[d].at /\ caller'[d].block = caller[d].block
            /\ caller'[d].rest = caller[d].rest /\ caller'[d].todo = caller[d].todo
            /\ Distinct(caller'[d].buffer)
            /\ d # c => caller'[d].fires = caller[d].fires
      /\ caller[c].fires = 0
      /\ f = "firing" => caller'[c].fires = new /\ pushed' = pushed /\ ~HasIt(c, <<new, "event">>)'
      /\ f = "waiting" =>
            /\ caller'[c].fires = 0
            /\ \/ Range(pushed') = Range(pushed) \cup {new} /\ ~HasIt(c, <<new, "event">>)'
               \/ pushed' = pushed /\ HasIt(c, <<new, "event">>)'
      /\ f \in {"waiting", "firing"}
  BY DEF Went
<1>3. \A d \in Dispatchers : \A item :
         item \in Range(caller'[d].buffer) <=>
            item \in Range(caller[d].buffer) \/ (d = c /\ HasIt(c, item)' /\ item = <<new, "event">>)
  BY DEF Went
<1>4. \A d \in Dispatchers : \A item : HasIt(d, item) => item \in Pieces /\ item[1] \in EventIds
  BY ItemsTyped DEF EventsInv, EvPlaces, PlacedHere
<1>5. \A d \in Dispatchers : \A x : ~HasIt(d, <<new, x>>)
  <2>1. \A x : <<new, x>>[1] = new
    OBVIOUS
  <2> QED BY <1>1, <1>4, <2>1
<1>6. /\ \A d \in Dispatchers : \A item : item # <<new, "event">> => (HasIt(d, item)' <=> HasIt(d, item))
      /\ \A d \in Dispatchers : d # c => ~HasIt(d, <<new, "event">>)'
      /\ \A d \in Dispatchers : \A i : HasIt(d, <<i, "broadcast">>)' <=> HasIt(d, <<i, "broadcast">>)
      /\ \A d \in Dispatchers, i \in EventIds : HasIt(d, <<i, "event">>)' <=> HasIt(d, <<i, "event">>)
  <2>1. \A d \in Dispatchers : \A item : item # <<new, "event">> => (HasIt(d, item)' <=> HasIt(d, item))
    BY <1>2, <1>3 DEF HasIt
  <2>2. \A d \in Dispatchers : \A item : d # c => (HasIt(d, item)' <=> HasIt(d, item))
    BY <1>2, <1>3 DEF HasIt
  <2> QED BY <1>1, <1>5, <2>1, <2>2
<1>7. \A i \in EventIds : /\ (Plain(i)' <=> Plain(i)) /\ (Defers(i)' <=> Defers(i)) /\ (Queued(i)' <=> Queued(i))
                          /\ BlockOf(i)' = BlockOf(i)
  BY <1>1, <1>2 DEF Plain, Defers, Queued, BlockOf
<1>8. /\ Plain(new)' <=> kind = PlainEvent
      /\ Defers(new)' <=> Deferrable(kind)
      /\ Plain(new)' => ~Defers(new)' /\ ~Queued(new)'
  BY <1>1 DEF Plain, Defers, Queued, PlainEvent, Deferrable
<1>9. \A i \in Range(pushed') : i \in EventIds' /\ (i = new \/ i \in Range(pushed))
  <2>1. \A i \in Range(pushed) : i \in EventIds
    BY DEF EventsInv, EvPlaces, PushedOnce
  <2> QED BY <1>1, <1>2, <2>1
<1>10. \A i \in Range(pushed) : i \in EventIds /\ \A d \in Dispatchers : ~HasIt(d, <<i, "event">>)
  BY DEF EventsInv, EvPlaces, PushedOnce
<1>11. EvTypes'
  BY <1>1, <1>2 DEF EventsInv, EvTypes
<1>12. \A d \in Dispatchers : caller[d].fires # 0 => caller[d].fires \in EventIds
  BY DEF EventsInv, EvPlaces, FiredHere
<1>13. EvPlaces'
  <2>1. PlacedOnce'
    <3>1. \A item \in Range(caller[c].todo) : item # <<new, "event">>
      BY <1>5 DEF HasIt
    <3>2. \A d \in Dispatchers : Distinct(caller[d].todo) /\ \A item \in Range(caller[d].todo) : item \notin Range(caller[d].buffer)
      BY DEF EventsInv, EvPlaces, PlacedOnce
    <3> QED BY <1>2, <1>3, <3>1, <3>2 DEF PlacedOnce
  <2>2. PlacedHere'
    <3> SUFFICES ASSUME NEW d \in Dispatchers, NEW item \in Pieces, HasIt(d, item)'
                 PROVE  item[1] \in EventIds' /\ \A e \in Dispatchers : e # d => ~HasIt(e, item)'
      BY DEF PlacedHere
    <3>1. CASE item = <<new, "event">>
      BY <1>1, <1>6, <3>1
    <3>2. CASE item # <<new, "event">>
      BY <1>1, <1>6, <3>2 DEF EventsInv, EvPlaces, PlacedHere
    <3> QED BY <3>1, <3>2
  <2>3. FiredHere'
    <3> SUFFICES ASSUME NEW d \in Dispatchers, caller'[d].fires # 0
                 PROVE  /\ caller'[d].fires \in EventIds'
                        /\ \A e \in Dispatchers : e # d => caller'[e].fires # caller'[d].fires
      BY DEF FiredHere
    <3>1. \A e \in Dispatchers : e # c => caller'[e].fires = caller[e].fires /\ caller[e].fires # new
      BY <1>1, <1>2, <1>12
    <3>2. CASE d = c
      <4>1. caller'[c].fires = new
        BY <1>2, <3>2
      <4>2. new \in EventIds'
        BY <1>1
      <4> QED BY <3>1, <3>2, <4>1, <4>2
    <3>3. CASE d # c
      <4>1. /\ caller[d].fires \in EventIds
            /\ \A e \in Dispatchers : e # d => caller[e].fires # caller[d].fires
        BY <3>1, <3>3 DEF EventsInv, EvPlaces, FiredHere
      <4> QED BY <1>1, <1>2, <3>1, <3>3, <4>1
    <3> QED BY <3>2, <3>3
  <2>4. PushedOnce'
    <3>1. \A i \in Range(pushed') : \A d \in Dispatchers : ~HasIt(d, <<i, "event">>)'
      <4> SUFFICES ASSUME NEW i \in Range(pushed'), NEW d \in Dispatchers PROVE ~HasIt(d, <<i, "event">>)'
        OBVIOUS
      <4>1. CASE i \in Range(pushed)
        BY <1>6, <1>10, <4>1
      <4>2. CASE i \notin Range(pushed)
        BY <1>2, <1>6, <1>9, <4>2
      <4> QED BY <4>1, <4>2
    <3> QED BY <1>2, <1>9, <3>1 DEF PushedOnce
  <2>5. WaitsThere'
    <3>1. ASSUME NEW i \in EventIds
          PROVE  fate'[i] = "waiting" <=> i \in Range(pushed') \/ \E d \in Dispatchers : HasIt(d, <<i, "event">>)'
      <4>1. fate[i] = "waiting" <=> i \in Range(pushed) \/ \E d \in Dispatchers : HasIt(d, <<i, "event">>)
        BY DEF EventsInv, EvPlaces, WaitsThere
      <4>2. i \in Range(pushed') <=> i \in Range(pushed)
        BY <1>1, <1>2, <1>9
      <4> QED BY <1>1, <1>6, <4>1, <4>2
    <3>2. fate'[new] = "waiting" <=> new \in Range(pushed') \/ \E d \in Dispatchers : HasIt(d, <<new, "event">>)'
      <4>1. new \notin Range(pushed)
        BY <1>1, <1>10
      <4> QED BY <1>1, <1>2, <1>6, <4>1
    <3> QED BY <1>1, <3>1, <3>2 DEF WaitsThere
  <2>6. FiresThere'
    <3>1. ASSUME NEW i \in EventIds
          PROVE  fate'[i] = "firing" <=> \E d \in Dispatchers : caller'[d].fires = i
      <4>1. fate[i] = "firing" <=> \E d \in Dispatchers : caller[d].fires = i
        BY DEF EventsInv, EvPlaces, FiresThere
      <4>2. \A d \in Dispatchers : caller'[d].fires = i <=> caller[d].fires = i
        <5>1. i # 0 /\ i # new
          BY <1>1
        <5>2. caller[c].fires = 0 /\ caller'[c].fires \in {0, new}
          BY <1>2
        <5>3. \A d \in Dispatchers : d # c => caller'[d].fires = caller[d].fires
          BY <1>2
        <5> QED BY ONLY <5>1, <5>2, <5>3
      <4> QED BY <1>1, <4>1, <4>2
    <3>2. fate'[new] = "firing" <=> \E d \in Dispatchers : caller'[d].fires = new
      BY <1>1, <1>2, <1>12
    <3> QED BY <1>1, <3>1, <3>2 DEF FiresThere
  <2> QED BY <2>1, <2>2, <2>3, <2>4, <2>5, <2>6 DEF EvPlaces
<1>14. EvLinks'
  <2>1. BlocksThere'
    <3>1. caller[c].block \in 0..Len(txBlock)
      BY DEF EventsInv, EvLinks, BlocksThere
    <3>2. \A i \in EventIds' : event'[i].block \in 0..Len(txBlock)
      BY <1>1, <3>1 DEF EventsInv, EvLinks, BlocksThere
    <3> QED BY <1>2, <3>2 DEF EventsInv, EvLinks, BlocksThere
  <2>2. PushedPlain'
    <3>1. \A i \in Range(pushed') : Plain(i)'
      BY <1>7, <1>8, <1>9, <1>10 DEF EventsInv, EvLinks, PushedPlain
    <3> QED BY <3>1 DEF PushedPlain
  <2>3. \A d \in Dispatchers : \A item : HasIt(d, item) => event'[item[1]] = event[item[1]] /\ (IsLate(item)' <=> IsLate(item))
                                       /\ (Plain(item[1])' <=> Plain(item[1]))
    BY <1>1, <1>4, <1>7 DEF IsLate
  <2>4. BuffersLate'
    <3> SUFFICES ASSUME NEW d \in Dispatchers, NEW item \in Range(caller'[d].buffer)
                 PROVE  caller[d].at = "body" /\ event'[item[1]].block = caller[d].block /\ IsLate(item)'
      BY <1>2 DEF BuffersLate
    <3>1. CASE item \in Range(caller[d].buffer)
      BY <2>3, <3>1 DEF EventsInv, EvLinks, BuffersLate, HasIt
    <3>2. CASE d = c /\ HasIt(c, item)' /\ item = <<new, "event">>
      <4>1. item[1] = new /\ item[2] = "event"
        BY <3>2
      <4>2. caller[c].at = "body" /\ Deferrable(kind)
        BY <3>2
      <4> QED BY <1>1, <1>8, <3>2, <4>1, <4>2 DEF IsLate
    <3> QED BY <1>3, <3>1, <3>2
  <2>5. TodosRight'
    BY <1>2, <2>3 DEF EventsInv, EvLinks, TodosRight, HasIt
  <2>6. FiresRight'
    <3> SUFFICES ASSUME NEW d \in Dispatchers, caller'[d].fires # 0
                 PROVE  /\ Plain(caller[d].fires)' \/ event'[caller'[d].fires].block = caller[d].block
                        /\ caller[d].at = "body" => ~Defers(caller[d].fires)'
      BY <1>2 DEF FiresRight
    <3>1. CASE d = c
      <4>1. caller'[d].fires = new /\ f = "firing"
        BY <1>2, <3>1
      <4>2. event'[new].block = caller[c].block /\ (caller[c].at = "body" => ~Defers(new)')
        BY <1>1, <1>8, <4>1
      <4> QED BY <3>1, <4>1, <4>2 DEF Defers
    <3>2. CASE d # c
      <4>1. PICK i : i = caller[d].fires
        OBVIOUS
      <4>2. caller'[d].fires = i /\ i \in EventIds /\ i # 0
        BY <1>2, <1>12, <3>2, <4>1
      <4>3. /\ Plain(i) \/ event[i].block = caller[d].block
            /\ caller[d].at = "body" => ~Defers(i)
        BY <4>1, <4>2 DEF EventsInv, EvLinks, FiresRight
      <4>4. /\ Plain(i)' \/ event'[i].block = caller[d].block
            /\ caller[d].at = "body" => ~Defers(i)'
        BY <1>1, <1>7, <4>2, <4>3
      <4> QED BY <4>2, <4>4 DEF Plain, Defers
    <3> QED BY <3>1, <3>2
  <2> QED BY <2>1, <2>2, <2>4, <2>5, <2>6 DEF EvLinks
<1>15. EvSaid'
  <2>1. \A i \in EventIds : Silent(i) => Silent(i)'
    BY <1>1, <1>6 DEF Silent
  <2>2. Silent(new)'
    BY <1>1, <1>5, <1>6 DEF Silent
  <2>3. SentOnce'
    <3>1. \A i \in EventIds : sent'[i] <= 1 /\ \A d \in Dispatchers : HasIt(d, <<i, "broadcast">>)' => sent'[i] = 0
      BY <1>1, <1>6 DEF EventsInv, EvSaid, SentOnce
    <3>2. sent'[new] <= 1 /\ \A d \in Dispatchers : HasIt(d, <<new, "broadcast">>)' => sent'[new] = 0
      BY <1>1
    <3> QED BY <1>1, <3>1, <3>2 DEF SentOnce
  <2>4. SilentYet'
    <3>1. \A i \in EventIds' : fate'[i] \in {"waiting", "dropped"} => Silent(i)'
      BY <1>1, <2>1, <2>2 DEF EventsInv, EvSaid, SilentYet
    <3>2. ASSUME NEW d \in Dispatchers, caller'[d].fires # 0, caller'[d].rest = <<>>
          PROVE  Silent(caller[d].fires)'
      <4>1. PICK i : i = caller'[d].fires
        OBVIOUS
      <4>2. Silent(i)'
        <5>1. CASE d = c
          BY <1>2, <2>2, <3>2, <4>1, <5>1
        <5>2. CASE d # c
          <6>1. i = caller[d].fires /\ i # 0 /\ caller[d].rest = <<>> /\ i \in EventIds
            BY <1>2, <1>12, <3>2, <4>1, <5>2
          <6> QED BY <2>1, <6>1 DEF EventsInv, EvSaid, SilentYet
        <5> QED BY <5>1, <5>2
      <4> QED BY <4>1, <4>2 DEF Silent
    <3> QED BY <3>1, <3>2 DEF SilentYet
  <2>5. HeardSome'
    <3>1. \A i \in EventIds : (\E q \in Seq(Listeners) : HeardOf(i, q)') /\ (fate'[i] = "over" => heard'[i] = gathered'[i])
      BY <1>1 DEF EventsInv, EvSaid, HeardSome, HeardOf
    <3>2. <<>> \in Seq(Listeners) /\ HeardOf(new, <<>>)'
      <4>1. <<>> \o <<>> = <<>> /\ <<>> \in Seq(Listeners)
        OBVIOUS
      <4> QED BY <1>1, <4>1 DEF HeardOf
    <3>3. fate'[new] = "over" => heard'[new] = gathered'[new]
      BY <1>1
    <3> QED BY <1>1, <3>1, <3>2, <3>3 DEF HeardSome
  <2>6. HearsRest'
    <3> SUFFICES ASSUME NEW d \in Dispatchers, caller'[d].rest # <<>>
                 PROVE  caller'[d].fires # 0 /\ HeardOf(caller[d].fires, caller[d].rest)'
      BY DEF HearsRest
    <3>1. d # c /\ caller[d].rest # <<>>
      BY <1>2
    <3>2. caller[d].fires # 0 /\ HeardOf(caller[d].fires, caller[d].rest) /\ caller[d].fires \in EventIds
      BY <1>12, <3>1 DEF EventsInv, EvSaid, HearsRest
    <3>3. PICK i \in EventIds : i = caller[d].fires
      BY <3>2
    <3>4. PICK rest : rest = caller[d].rest
      OBVIOUS
    <3>5. heard'[i] \o rest = gathered'[i] /\ caller'[d].fires = i /\ caller'[d].rest = rest
      BY <1>1, <1>2, <3>1, <3>2, <3>3, <3>4 DEF HeardOf
    <3> QED BY <1>1, <3>3, <3>5 DEF HeardOf
  <2> QED BY <2>3, <2>4, <2>5, <2>6 DEF EvSaid
<1>16. /\ caller[c].at \in {"body", "replay"} <=> caller[c].block # 0
       /\ caller[c].at = "body" => txBlock[caller[c].block] = "open"
  BY DEF EventsInv, EvLinks, BlocksThere
<1>17. BlockOf(new)' = txBlock[caller[c].block]
  BY <1>1, <1>2 DEF BlockOf
<1>18. DeferredRight'
  <2>1. ASSUME NEW i \in EventIds, event'[i].block # 0, Defers(i)'
        PROVE  /\ BlockOf(i)' = "open" => fate'[i] = "waiting"
               /\ BlockOf(i)' = "committed" => fate'[i] # "dropped"
               /\ BlockOf(i)' = "rolled back" => fate'[i] = "dropped"
               /\ BlockOf(i)' = "replayed" => fate'[i] \in {"over", "stopped", "raised"}
    BY <1>1, <1>7, <2>1 DEF EventsInv, EvBlocks, DeferredRight
  <2>2. ASSUME event'[new].block # 0, Defers(new)'
        PROVE  /\ BlockOf(new)' = "open" => fate'[new] = "waiting"
               /\ BlockOf(new)' = "committed" => fate'[new] # "dropped"
               /\ BlockOf(new)' = "rolled back" => fate'[new] = "dropped"
               /\ BlockOf(new)' = "replayed" => fate'[new] \in {"over", "stopped", "raised"}
    <3>1. Deferrable(kind) /\ caller[c].block # 0 /\ kind # PlainEvent
      BY <1>1, <1>8, <2>2
    <3>2. f = "waiting" /\ HasIt(c, <<new, "event">>)'
      <4>1. f # "firing"
        BY <1>16, <3>1
      <4>2. new \notin Range(pushed')
        BY <3>1
      <4> QED BY <1>2, <4>1, <4>2
    <3>3. BlockOf(new)' = "open"
      BY <1>16, <1>17, <3>2
    <3> QED BY <1>1, <3>2, <3>3
  <2> QED BY <1>1, <2>1, <2>2 DEF DeferredRight
<1>19. CastsRight'
  <2>1. ASSUME NEW i \in EventIds, event'[i].block # 0, Queued(i)'
        PROVE  /\ BlockOf(i)' \in {"open", "rolled back"} => sent'[i] = 0
               /\ BlockOf(i)' \in {"open", "committed"} /\ WasFired(i)' => sent'[i] = 1 \/ CastLater(i)'
               /\ BlockOf(i)' = "replayed" /\ fate'[i] = "over" => sent'[i] = 1
    <3>1. CastLater(i) => CastLater(i)'
      BY <1>1, <1>2, <1>6 DEF CastLater
    <3>2. WasFired(i)' => WasFired(i)
      <4>1. fate'[i] = fate[i] /\ i # 0 /\ i # new
        BY <1>1
      <4>2. \A d \in Dispatchers : caller'[d].fires = i => caller[d].fires = i
        <5>1. caller'[c].fires \in {0, new}
          BY <1>2
        <5>2. \A d \in Dispatchers : d # c => caller'[d].fires = caller[d].fires
          BY <1>2
        <5> QED BY <4>1, <5>1, <5>2
      <4>3. \A d \in Dispatchers : caller'[d].rest = caller[d].rest
        BY <1>2
      <4> QED BY <4>1, <4>2, <4>3 DEF WasFired
    <3>3. /\ BlockOf(i) \in {"open", "rolled back"} => sent[i] = 0
          /\ BlockOf(i) \in {"open", "committed"} /\ WasFired(i) => sent[i] = 1 \/ CastLater(i)
          /\ BlockOf(i) = "replayed" /\ fate[i] = "over" => sent[i] = 1
      BY <1>1, <1>7, <2>1 DEF EventsInv, EvBlocks, CastsRight
    <3> QED BY <1>1, <1>7, <3>1, <3>2, <3>3
  <2>2. ~WasFired(new)' /\ fate'[new] # "over" /\ sent'[new] = 0
    BY <1>1, <1>2, <1>12 DEF WasFired
  <2> QED BY <1>1, <2>1, <2>2 DEF CastsRight
<1> QED BY <1>11, <1>13, <1>14, <1>15, <1>18, <1>19 DEF EventsInv, EvBlocks

LEMMA PushEventKeeps == ASSUME EventsInv, NEW c \in Dispatchers, PushEvent(c) PROVE EventsInv'
<1>1. PICK n \in Nat : n = Len(event)
  BY DEF EventsInv, EvTypes
<1>2. /\ Make(c, PlainEvent, "waiting") /\ pushed' = Append(pushed, n + 1) /\ caller[c].fires = 0
      /\ UNCHANGED <<listeners, caller, txBlock>>
  BY <1>1 DEF PushEvent, OwnCode, Newest
<1>3. PlainEvent \in EventKinds /\ "waiting" \in Fates
  BY DEF PlainEvent, EventKinds, Fates
<1>4. Made(c, PlainEvent, "waiting", n + 1)
  BY <1>1, <1>2, <1>3, MadeOne
<1>5. caller[c].rest = <<>>
  BY <1>2 DEF EventsInv, EvSaid, HearsRest
<1>6. \A d \in Dispatchers : \A x : ~HasIt(d, <<n + 1, x>>)
  <2>1. \A x : <<n + 1, x>>[1] = n + 1
    OBVIOUS
  <2>2. n + 1 \notin EventIds
    BY <1>4 DEF Made
  <2> QED BY <2>1, <2>2, ItemsTyped DEF EventsInv, EvPlaces, PlacedHere
<1>7. pushed \in Seq(Nat) /\ Distinct(pushed) /\ n + 1 \in Nat /\ n + 1 \notin Range(pushed)
  BY <1>1, <1>4 DEF Made, EventsInv, EvTypes, EvPlaces, PushedOnce
<1>8. pushed' \in Seq(Nat) /\ Range(pushed') = Range(pushed) \cup {n + 1} /\ Distinct(pushed')
  BY ONLY <1>2, <1>7, HasOneMore
<1>9. ~HasIt(c, <<n + 1, "event">>)'
  BY <1>2, <1>6 DEF HasIt
<1>10. Went(c, "waiting", n + 1)
  <2>1. caller \in [Dispatchers -> CallerStates] /\ \A d \in Dispatchers : Distinct(caller[d].buffer)
    BY DEF EventsInv, EvTypes, EvPlaces, PlacedOnce
  <2> QED BY <1>2, <1>8, <1>9, <2>1 DEF Went
<1> QED BY <1>3, <1>4, <1>5, <1>9, <1>10, MadeKeeps

LEMMA DispatchKeeps ==
  ASSUME EventsInv, NEW c \in Dispatchers, NEW kind \in EventKinds, Dispatch(c, kind) PROVE EventsInv'
<1>1. PICK n \in Nat : n = Len(event)
  BY DEF EventsInv, EvTypes
<1>2. /\ UNCHANGED <<listeners, pushed, txBlock>> /\ caller[c].fires = 0
      /\ caller[c].at \in {"outside", "body"}
      /\ Deferrable(kind) /\ caller[c].at = "body" =>
            /\ caller' = [caller EXCEPT ![c] = [caller[c] EXCEPT !.buffer = Append(caller[c].buffer, <<n + 1, "event">>)]]
            /\ Make(c, kind, "waiting")
      /\ ~(Deferrable(kind) /\ caller[c].at = "body") =>
            /\ caller' = [caller EXCEPT ![c] = [caller[c] EXCEPT !.fires = n + 1]]
            /\ Make(c, kind, "firing")
  BY <1>1 DEF Dispatch, OwnCode, Newest
<1>3. PICK f \in {"waiting", "firing"} :
         f = IF Deferrable(kind) /\ caller[c].at = "body" THEN "waiting" ELSE "firing"
  OBVIOUS
<1>4. f \in Fates
  BY DEF Fates
<1>5. Made(c, kind, f, n + 1)
  <2>1. Make(c, kind, f)
    BY <1>2, <1>3
  <2> QED BY <1>1, <1>4, <2>1, MadeOne
<1>6. caller[c].rest = <<>>
  BY <1>2 DEF EventsInv, EvSaid, HearsRest
<1>7. \A d \in Dispatchers : \A x : ~HasIt(d, <<n + 1, x>>)
  <2>1. \A x : <<n + 1, x>>[1] = n + 1
    OBVIOUS
  <2>2. n + 1 \notin EventIds
    BY <1>5 DEF Made
  <2> QED BY <2>1, <2>2, ItemsTyped DEF EventsInv, EvPlaces, PlacedHere
<1>8. /\ caller \in [Dispatchers -> CallerStates] /\ caller[c] \in CallerStates
      /\ pushed \in Seq(Nat) /\ Distinct(pushed)
      /\ \A d \in Dispatchers : Distinct(caller[d].buffer)
      /\ \A i \in Range(pushed) : i \in EventIds
  BY DEF EventsInv, EvTypes, EvPlaces, PlacedOnce, PushedOnce
<1>9. n + 1 \notin Range(pushed')
  BY <1>2, <1>5, <1>8 DEF Made
<1>10. CASE f = "waiting"
  <2>1. PICK item \in Pieces : item = <<n + 1, "event">>
    <3>1. n + 1 \in Nat
      OBVIOUS
    <3>2. <<n + 1, "event">> \in Pieces
      BY <3>1 DEF Pieces
    <3> QED BY <3>2
  <2>2. PICK keeping \in Seq(Pieces) : keeping = caller[c].buffer
    BY ItemsTyped
  <2>3. PICK holding : holding = Append(keeping, item)
    OBVIOUS
  <2>4. Distinct(keeping) /\ item \notin Range(keeping)
    BY <1>7, <1>8, <2>1, <2>2 DEF HasIt
  <2>5. holding \in Seq(Pieces) /\ Range(holding) = Range(keeping) \cup {item} /\ Distinct(holding)
    BY ONLY item \in Pieces, keeping \in Seq(Pieces), <2>3, <2>4, HasOneMore
  <2>6. PICK r : r = [caller[c] EXCEPT !.buffer = holding]
    OBVIOUS
  <2>7. /\ r \in CallerStates /\ r.at = caller[c].at /\ r.block = caller[c].block /\ r.fires = caller[c].fires
        /\ r.rest = caller[c].rest /\ r.buffer = holding /\ r.todo = caller[c].todo
    BY <1>8, <2>5, <2>6 DEF CallerStates
  <2>8. caller' = [caller EXCEPT ![c] = r]
    BY <1>2, <1>3, <1>10, <2>1, <2>2, <2>3, <2>6
  <2>9. /\ \A d \in Dispatchers \ {c} : caller'[d] = caller[d]
        /\ caller'[c] = r /\ caller' \in [Dispatchers -> CallerStates]
    BY <1>8, <2>7, <2>8
  <2>10. /\ HasIt(c, <<n + 1, "event">>)'
         /\ \A d \in Dispatchers : \A x : x \in Range(caller'[d].buffer) <=>
               x \in Range(caller[d].buffer) \/ (d = c /\ HasIt(c, x)' /\ x = <<n + 1, "event">>)
    BY <2>1, <2>2, <2>5, <2>7, <2>9 DEF HasIt
  <2>11. Went(c, f, n + 1)
    <3>1. \A d \in Dispatchers :
            /\ caller'[d].at = caller[d].at /\ caller'[d].block = caller[d].block
            /\ caller'[d].rest = caller[d].rest /\ caller'[d].todo = caller[d].todo
            /\ Distinct(caller[d].buffer)'
            /\ d # c => caller'[d].fires = caller[d].fires
      BY <1>8, <2>5, <2>7, <2>9
    <3>2. caller'[c].fires = 0
      BY <1>2, <2>7, <2>9
    <3> QED BY <1>2, <1>8, <1>10, <2>9, <2>10, <3>1, <3>2 DEF Went
  <2> QED BY <1>3, <1>4, <1>5, <1>6, <1>9, <1>10, <2>11, MadeKeeps
<1>11. CASE f = "firing"
  <2>1. PICK r : r = [caller[c] EXCEPT !.fires = n + 1]
    OBVIOUS
  <2>2. /\ r \in CallerStates /\ r.at = caller[c].at /\ r.block = caller[c].block /\ r.fires = n + 1
        /\ r.rest = caller[c].rest /\ r.buffer = caller[c].buffer /\ r.todo = caller[c].todo
    <3>1. n + 1 \in Nat
      OBVIOUS
    <3> QED BY <1>8, <2>1, <3>1 DEF CallerStates
  <2>3. caller' = [caller EXCEPT ![c] = r]
    BY <1>2, <1>3, <1>11, <2>1
  <2>4. /\ \A d \in Dispatchers \ {c} : caller'[d] = caller[d]
        /\ caller'[c] = r /\ caller' \in [Dispatchers -> CallerStates]
    BY <1>8, <2>2, <2>3
  <2>5. ~HasIt(c, <<n + 1, "event">>)'
    BY <1>7, <2>2, <2>4 DEF HasIt
  <2>6. Went(c, f, n + 1)
    <3>1. \A d \in Dispatchers :
            /\ caller'[d].at = caller[d].at /\ caller'[d].block = caller[d].block
            /\ caller'[d].rest = caller[d].rest /\ caller'[d].todo = caller[d].todo
            /\ caller'[d].buffer = caller[d].buffer
            /\ d # c => caller'[d].fires = caller[d].fires
      BY <2>2, <2>4
    <3>2. \A d \in Dispatchers : \A x : x \in Range(caller'[d].buffer) <=>
             x \in Range(caller[d].buffer) \/ (d = c /\ HasIt(c, x)' /\ x = <<n + 1, "event">>)
      BY <2>5, <3>1
    <3>3. caller'[c].fires = n + 1
      BY <2>2, <2>4
    <3> QED BY <1>2, <1>8, <1>11, <2>4, <2>5, <3>1, <3>2, <3>3 DEF Went
  <2>7. caller[c].at = "outside" \/ (caller[c].at = "body" /\ ~Deferrable(kind))
    BY <1>2, <1>3, <1>11
  <2> QED BY <1>4, <1>5, <1>6, <1>9, <2>5, <2>6, <2>7, MadeKeeps
<1> QED BY <1>10, <1>11

LEMMA EventsNextInv == EventsInv /\ [EventStep]_eventVars => EventsInv'
<1> SUFFICES ASSUME EventsInv, [EventStep]_eventVars PROVE EventsInv'
  OBVIOUS
<1>1. CASE UNCHANGED eventVars
  <2>1. UNCHANGED <<listeners, pushed, caller, txBlock, event, gathered, heard, sent, fate>>
    BY <1>1 DEF eventVars, eventPast
  <2>2. EvTypes'
    BY <2>1 DEF EventsInv, EvTypes, EventIds
  <2>3. EvPlaces' /\ EvLinks'
    BY <2>1
    DEF EventsInv, EvPlaces, EvLinks, EventIds, HasIt, Queued, Defers, Plain, IsLate, PlacedOnce,
        PlacedHere, FiredHere, PushedOnce, WaitsThere, FiresThere, BlocksThere, PushedPlain,
        BuffersLate, TodosRight, FiresRight
  <2>4. EvSaid'
    BY <2>1 DEF EventsInv, EvSaid, EventIds, HasIt, Silent, HeardOf, SentOnce, SilentYet, HeardSome, HearsRest
  <2>5. EvBlocks'
    <3>1. \A i : /\ BlockOf(i)' = BlockOf(i) /\ (Queued(i)' <=> Queued(i)) /\ (Defers(i)' <=> Defers(i))
                 /\ (WasFired(i)' <=> WasFired(i))
                 /\ \A c \in Dispatchers : HasIt(c, <<i, "broadcast">>)' <=> HasIt(c, <<i, "broadcast">>)
      BY <2>1 DEF HasIt, WasFired, BlockOf, Queued, Defers
    <3> QED BY <2>1, <3>1 DEF EventsInv, EvBlocks, EventIds, DeferredRight, CastsRight, CastLater
  <2> QED BY <2>2, <2>3, <2>4, <2>5 DEF EventsInv
<1>2. CASE EventStep
  <2>1. CASE ForgetPushed
    BY <2>1, ForgetPushedKeeps
  <2>2. CASE (\E l \in Listeners : Listen(l)) \/ \E own \in BOOLEAN : ForgetListeners(own)
    BY <2>2, ListensKeep
  <2>3. ASSUME NEW c \in Dispatchers, PushEvent(c) PROVE EventsInv'
    BY <2>3, PushEventKeeps
  <2>4. ASSUME NEW c \in Dispatchers, Flush(c) PROVE EventsInv'
    BY <2>4, FlushKeeps
  <2>5. ASSUME NEW c \in Dispatchers, Fire(c) PROVE EventsInv'
    BY <2>5, FireKeeps
  <2>6. ASSUME NEW c \in Dispatchers, Raises(c) PROVE EventsInv'
    BY <2>6, RaisesKeep
  <2>7. ASSUME NEW c \in Dispatchers, NextItem(c) PROVE EventsInv'
    BY <2>7, NextItemKeeps
  <2>8. ASSUME NEW c \in Dispatchers, BeginBlock(c) PROVE EventsInv'
    BY <2>8, BeginBlockKeeps
  <2>9. ASSUME NEW c \in Dispatchers, CommitBlock(c) PROVE EventsInv'
    BY <2>9, CommitBlockKeeps
  <2>10. ASSUME NEW c \in Dispatchers, Replayed(c) \/ RollBackBlock(c) \/ CancelCaller(c) PROVE EventsInv'
    BY <2>10, GoingKeeps
  <2>11. ASSUME NEW c \in Dispatchers, NEW kind \in EventKinds, Dispatch(c, kind) PROVE EventsInv'
    BY <2>11, DispatchKeeps
  <2>12. ASSUME NEW c \in Dispatchers, NEW stops \in BOOLEAN, Hear(c, stops) PROVE EventsInv'
    BY <2>12, HearKeeps
  <2> QED BY <1>2, <2>1, <2>2, <2>3, <2>4, <2>5, <2>6, <2>7, <2>8, <2>9, <2>10, <2>11, <2>12 DEF EventStep
<1> QED BY <1>1, <1>2

\* A sequence that goes on begins with what there was.
LEMMA PrefixOfBoth == ASSUME NEW S PROVE \A s, t \in Seq(S) : IsPrefix(s, s \o t)
<1> SUFFICES ASSUME NEW s \in Seq(S), NEW t \in Seq(S) PROVE IsPrefix(s, s \o t)
  OBVIOUS
<1>1. Len(s) <= Len(s \o t) /\ SubSeq(s \o t, 1, Len(s)) = s
  OBVIOUS
<1> QED BY <1>1 DEF IsPrefix

\* What every caller finds is what the events are to be.
LEMMA EventsKeep == EventsInv => EventsHeard
<1> SUFFICES ASSUME EventsInv PROVE EventsHeard
  OBVIOUS
<1>1. \A i \in EventIds : i \in Nat \ {0} /\ <<i, "event">> \in Pieces /\ <<i, "broadcast">> \in Pieces
  BY EventIdsAre DEF EventsInv, EvTypes, Pieces
<1>2. \A S : (\E x : S = {x}) => Cardinality(S) = 1
  BY FS_Singleton
<1>3. Cardinality({}) = 0
  BY FS_EmptySet
<1>4. \A c \in Dispatchers : \A item : item \in Range(caller[c].buffer \o caller[c].todo) <=> HasIt(c, item)
  BY ItemsTyped, RangeOfBoth DEF HasIt
<1>5. ASSUME NEW item, item \in Pieces
      PROVE  /\ (KeptAt(item) = {} \/ \E x : KeptAt(item) = {x})
             /\ KeptAt(item) # {} <=> ((\E c \in Dispatchers : HasIt(c, item))
                                        \/ (item[2] = "event" /\ item[1] \in Range(pushed)))
  <2>1. \A x : x \in KeptAt(item) <=>
                  \/ (x \in Dispatchers /\ HasIt(x, item))
                  \/ (x = "pushed" /\ item[2] = "event" /\ item[1] \in Range(pushed))
    <3>1. KeptAt(item) = {c \in Dispatchers : item \in Range(caller[c].buffer \o caller[c].todo)}
              \cup (IF item[2] = "event" /\ item[1] \in Range(pushed) THEN {"pushed"} ELSE {})
      BY DEF KeptAt
    <3>2. {c \in Dispatchers : item \in Range(caller[c].buffer \o caller[c].todo)}
              = {c \in Dispatchers : HasIt(c, item)}
      BY <1>4
    <3>3. CASE item[2] = "event" /\ item[1] \in Range(pushed)
      BY <3>1, <3>2, <3>3
    <3>4. CASE ~(item[2] = "event" /\ item[1] \in Range(pushed))
      BY <3>1, <3>2, <3>4
    <3> QED BY <3>3, <3>4
  <2>2. \A c, d \in Dispatchers : HasIt(c, item) /\ HasIt(d, item) => c = d
    BY <1>5 DEF EventsInv, EvPlaces, PlacedHere
  <2>3. item[2] = "event" /\ item[1] \in Range(pushed) => \A c \in Dispatchers : ~HasIt(c, item)
    <3>1. item[2] = "event" => item = <<item[1], "event">>
      BY <1>5 DEF Pieces
    <3> QED BY <3>1 DEF EventsInv, EvPlaces, PushedOnce
  <2>4. \A x, y : x \in KeptAt(item) /\ y \in KeptAt(item) => x = y
    BY <2>1, <2>2, <2>3
  <2> HIDE DEF KeptAt
  <2>5. KeptAt(item) = {} \/ \E x : KeptAt(item) = {x}
    BY <2>4
  <2>6. KeptAt(item) # {} <=> ((\E c \in Dispatchers : HasIt(c, item))
                               \/ (item[2] = "event" /\ item[1] \in Range(pushed)))
    BY <2>1
  <2> QED BY <2>5, <2>6
<1>6. ASSUME NEW i \in EventIds
      PROVE  /\ fate[i] = "waiting" <=> Cardinality(KeptAt(<<i, "event">>)) = 1
             /\ Cardinality(KeptAt(<<i, "event">>)) <= 1
  <2>1. fate[i] = "waiting" <=> i \in Range(pushed) \/ \E c \in Dispatchers : HasIt(c, <<i, "event">>)
    BY DEF EventsInv, EvPlaces, WaitsThere
  <2>2. <<i, "event">> \in Pieces /\ <<i, "event">>[1] = i /\ <<i, "event">>[2] = "event"
    BY <1>1
  <2>3. KeptAt(<<i, "event">>) # {} <=> fate[i] = "waiting"
    BY <1>5, <2>1, <2>2
  <2>4. KeptAt(<<i, "event">>) = {} \/ \E x : KeptAt(<<i, "event">>) = {x}
    BY <1>5, <2>2
  <2> HIDE DEF KeptAt
  <2>5. PICK k : k = KeptAt(<<i, "event">>)
    OBVIOUS
  <2>6. (k # {} <=> fate[i] = "waiting") /\ (k = {} \/ \E x : k = {x})
    BY <2>3, <2>4, <2>5
  <2>7. (k = {} => Cardinality(k) = 0) /\ (k # {} => Cardinality(k) = 1)
    BY <1>2, <1>3, <2>6
  <2>8. (fate[i] = "waiting" <=> Cardinality(k) = 1) /\ Cardinality(k) <= 1
    BY <2>6, <2>7
  <2> QED BY <2>5, <2>8
<1>7. ASSUME NEW i \in EventIds
      PROVE  fate[i] = "firing" <=> Cardinality({c \in Dispatchers : caller[c].fires = i}) = 1
  <2> DEFINE F == {c \in Dispatchers : caller[c].fires = i}
  <2>1. fate[i] = "firing" <=> F # {}
    BY DEF EventsInv, EvPlaces, FiresThere
  <2>2. \A c, d : c \in F /\ d \in F => c = d
    BY <1>1 DEF EventsInv, EvPlaces, FiredHere
  <2> HIDE DEF F
  <2>3. F = {} \/ \E x : F = {x}
    BY <2>2
  <2>4. fate[i] = "firing" <=> Cardinality(F) = 1
    BY <1>2, <1>3, <2>1, <2>3
  <2> QED BY <2>4 DEF F
<1>8. ASSUME NEW i \in EventIds
      PROVE  IsPrefix(heard[i], gathered[i]) /\ (fate[i] = "over" => heard[i] = gathered[i])
  <2>1. PICK rest \in Seq(Listeners) : heard[i] \o rest = gathered[i]
    BY DEF EventsInv, EvSaid, HeardSome, HeardOf
  <2>2. heard[i] \in Seq(Listeners) /\ (fate[i] = "over" => heard[i] = gathered[i])
    BY DEF EventsInv, EvTypes, EvSaid, HeardSome
  <2>3. \A s, t \in Seq(Listeners) : IsPrefix(s, s \o t)
    BY PrefixOfBoth
  <2>4. IsPrefix(heard[i], heard[i] \o rest)
    BY <2>2, <2>3
  <2> QED BY <2>1, <2>2, <2>4
<1>9. ASSUME NEW i \in EventIds
      PROVE  sent[i] + Cardinality(KeptAt(<<i, "broadcast">>)) <= 1
  <2>1. <<i, "broadcast">> \in Pieces /\ <<i, "broadcast">>[2] = "broadcast"
    BY <1>1
  <2>2. KeptAt(<<i, "broadcast">>) # {} <=> \E c \in Dispatchers : HasIt(c, <<i, "broadcast">>)
    BY <1>5, <2>1
  <2>3. KeptAt(<<i, "broadcast">>) = {} \/ \E x : KeptAt(<<i, "broadcast">>) = {x}
    BY <1>5, <2>1
  <2>4. /\ sent[i] \in Nat /\ sent[i] <= 1
        /\ (\E c \in Dispatchers : HasIt(c, <<i, "broadcast">>)) => sent[i] = 0
    BY DEF EventsInv, EvTypes, EvSaid, SentOnce
  <2> HIDE DEF KeptAt
  <2>5. PICK k : k = KeptAt(<<i, "broadcast">>)
    OBVIOUS
  <2>6. (k # {} => sent[i] = 0) /\ (k = {} \/ \E x : k = {x})
    BY <2>2, <2>3, <2>4, <2>5
  <2>7. (k = {} => Cardinality(k) = 0) /\ (k # {} => Cardinality(k) = 1)
    BY <1>2, <1>3, <2>6
  <2>8. sent[i] + Cardinality(k) <= 1
    BY <2>4, <2>6, <2>7
  <2> QED BY <2>5, <2>8
<1>10. ASSUME NEW i \in EventIds, event[i].block # 0
       PROVE  /\ BlockOf(i) \in {"open", "rolled back"} =>
                    /\ Defers(i) => gathered[i] = <<>> /\ sent[i] = 0
                    /\ Queued(i) => sent[i] = 0
              /\ BlockOf(i) = "replayed" /\ Defers(i) => fate[i] \in {"over", "stopped", "raised"}
              /\ BlockOf(i) = "replayed" /\ Queued(i) /\ fate[i] = "over" => sent[i] = 1
  <2>1. Defers(i) /\ BlockOf(i) \in {"open", "rolled back"} => Silent(i)
    BY <1>10 DEF EventsInv, EvBlocks, DeferredRight, EvSaid, SilentYet
  <2>2. Silent(i) => gathered[i] = <<>> /\ sent[i] = 0
    BY DEF Silent
  <2>3. Queued(i) =>
           /\ BlockOf(i) \in {"open", "rolled back"} => sent[i] = 0
           /\ BlockOf(i) = "replayed" /\ fate[i] = "over" => sent[i] = 1
    BY <1>10 DEF EventsInv, EvBlocks, CastsRight
  <2>4. Defers(i) /\ BlockOf(i) = "replayed" => fate[i] \in {"over", "stopped", "raised"}
    BY <1>10 DEF EventsInv, EvBlocks, DeferredRight
  <2> QED BY <2>1, <2>2, <2>3, <2>4
<1>11. \A i \in EventIds :
         /\ fate[i] = "waiting" <=> Cardinality(KeptAt(<<i, "event">>)) = 1
         /\ Cardinality(KeptAt(<<i, "event">>)) <= 1
         /\ fate[i] = "firing" <=> Cardinality({c \in Dispatchers : caller[c].fires = i}) = 1
         /\ IsPrefix(heard[i], gathered[i]) /\ (fate[i] = "over" => heard[i] = gathered[i])
         /\ sent[i] + Cardinality(KeptAt(<<i, "broadcast">>)) <= 1
  BY ONLY <1>6, <1>7, <1>8, <1>9
<1>12. \A i \in EventIds : event[i].block # 0 =>
         LET state == txBlock[event[i].block]
             kind == event[i].kind
         IN  /\ state \in {"open", "rolled back"} =>
                    /\ Deferrable(kind) => gathered[i] = <<>> /\ sent[i] = 0
                    /\ kind.cast = "queued" => sent[i] = 0
             /\ state = "replayed" /\ Deferrable(kind) => fate[i] \in {"over", "stopped", "raised"}
             /\ state = "replayed" /\ kind.cast = "queued" /\ fate[i] = "over" => sent[i] = 1
  BY <1>10 DEF BlockOf, Defers, Queued
<1> QED BY ONLY <1>11, <1>12 DEF EventsHeard
=============================================================================
