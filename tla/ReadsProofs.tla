---------------------------- MODULE ReadsProofs ----------------------------
(* Proofs about the parts of the application (Application.tla) that read or   *)
(* listen: what there is is what they find, while others write. Those about   *)
(* events and frames are in EventsProofs. Last come the types of the whole    *)
(* application: what each part keeps of its types besides what its invariant  *)
(* says of them, in the modules that prove those, and all of them together.   *)
EXTENDS ApplicationProofs, WritesProofs, EventsProofs

-----------------------------------------------------------------------------
(* Related rows (Relations.tla)                                             *)

\* Some heights under which every row of the tree is above the row it points at.
Ranks(h) ==
    /\ h \in [Nodes -> Nat]
    /\ \A m \in DOMAIN above : above[m] # Null => h[above[m]] < h[m]

RelTypes ==
    /\ saved \subseteq Parents
    /\ child \in [Children -> ChildRow \cup {Null}]
    /\ pivots \in [Parents \X Children \X Types -> Nat]
    /\ via \in [Grands -> Children \cup {Null}]
    /\ above \in [DOMAIN above -> Nodes \cup {Null}] /\ DOMAIN above \subseteq Nodes

RelationsInv == RelTypes /\ \E h : Ranks(h)

\* What a walk over the tree's rows reaches in as many steps: the next rows of some.
LEMMA StepsStay == \A ns, up : Step(ns, up) \subseteq DOMAIN above
BY DEF Step

LEMMA StepsUp == \A ns, m : m \in Step(ns, TRUE) <=> m \in DOMAIN above /\ \E n \in ns : above[n] = m
BY DEF Step

LEMMA StepsUpOne == \A n, m : m \in Step({n}, TRUE) => m \in DOMAIN above /\ above[n] = m
BY DEF Step

LEMMA StepsOfAll == \A ns, up, m : m \in Step(ns, up) <=> \E n \in ns : m \in Step({n}, up)
<1> SUFFICES ASSUME NEW ns, NEW up, NEW m
             PROVE  m \in Step(ns, up) <=> \E n \in ns : m \in Step({n}, up)
  OBVIOUS
<1>1. CASE up
  BY <1>1 DEF Step
<1>2. CASE ~up
  BY <1>2 DEF Step
<1> QED BY <1>1, <1>2

LEMMA StepsDown == \A ns, m : m \in Step(ns, FALSE) <=> m \in DOMAIN above /\ above[m] \in ns
BY DEF Step

\* The rows at each depth.
LEMMA LevelsAre ==
  ASSUME RelTypes, NEW up \in BOOLEAN, NEW n \in Nodes
  PROVE  LET N == Cardinality(Nodes) IN
         /\ N \in Nat /\ Level(n, up) \in [0..N -> SUBSET Nodes]
         /\ Level(n, up)[0] = {n}
         /\ \A d \in 1..N : Level(n, up)[d] = Step(Level(n, up)[d - 1], up)
<1> DEFINE N == Cardinality(Nodes)
           R(f) == f = [d \in 0..N |-> IF d = 0 THEN {n} ELSE Step(f[d - 1], up)]
<1>1. N \in Nat
  BY RelationsAssumption, FS_CardinalityType
<1>2. PICK G \in [1..N -> [SUBSET Nodes -> SUBSET Nodes]] :
         \A d \in 1..N, s \in SUBSET Nodes : G[d][s] = Step(s, up)
  <2> DEFINE g == [d \in 1..N |-> [s \in SUBSET Nodes |-> Step(s, up)]]
  <2>1. \A s : Step(s, up) \in SUBSET Nodes
    BY StepsStay DEF RelTypes
  <2>2. g \in [1..N -> [SUBSET Nodes -> SUBSET Nodes]]
    BY <2>1
  <2>3. \A d \in 1..N, s \in SUBSET Nodes : g[d][s] = Step(s, up)
    OBVIOUS
  <2> HIDE DEF g
  <2> QED BY <2>2, <2>3
<1>3. PICK f \in [0..N -> SUBSET Nodes] : Unfolds(f, N, {n}, G)
  <2>1. {n} \in SUBSET Nodes
    OBVIOUS
  <2> HIDE DEF N
  <2> QED BY <1>1, <1>2, <2>1, StepByStep
<1>4. R(f)
  <2>1. \A d \in 1..N : d - 1 \in 0..N
    BY <1>1
  <2>2. \A d \in 1..N : f[d] = Step(f[d - 1], up)
    BY <1>2, <1>3, <2>1 DEF Unfolds
  <2>3. \A d \in 0..N : f[d] = IF d = 0 THEN {n} ELSE Step(f[d - 1], up)
    BY <1>1, <1>3, <2>2 DEF Unfolds
  <2> HIDE DEF N
  <2> QED BY <1>3, <2>3
<1>5. Level(n, up) = CHOOSE g : R(g)
  BY DEF Level
<1>6. R(Level(n, up))
  <2> HIDE DEF R
  <2> QED BY <1>4, <1>5
<1>7. \A g : R(g) => g = f
  <2> SUFFICES ASSUME NEW g, R(g) PROVE g = f
    OBVIOUS
  <2> DEFINE P == {d \in 0..N : g[d] = f[d]}
  <2>1. 0 \in P
    <3>1. 0 \in 0..N /\ g[0] = {n} /\ f[0] = {n}
      BY <1>1, <1>4
    <3> QED BY <3>1
  <2>2. \A d \in 1..N : d - 1 \in P => d \in P
    <3> SUFFICES ASSUME NEW d \in 1..N, d - 1 \in P PROVE d \in P
      OBVIOUS
    <3>1. d \in 0..N /\ d # 0
      BY <1>1
    <3>2. g[d] = Step(g[d - 1], up) /\ f[d] = Step(f[d - 1], up)
      BY <1>4, <3>1
    <3> QED BY <3>1, <3>2
  <2>3. \A d \in 0..N : d \in P
    <3> HIDE DEF P, N
    <3> QED BY <1>1, <2>1, <2>2, UpToAll
  <2>4. DOMAIN g = 0..N
    OBVIOUS
  <2>5. \A d \in 0..N : g[d] = f[d]
    BY <2>3
  <2>6. g = [d \in 0..N |-> g[d]] /\ f = [d \in 0..N |-> f[d]]
    BY <1>3
  <2> HIDE DEF N, R
  <2> QED BY <2>5, <2>6
<1>8. Level(n, up) = f
  BY <1>6, <1>7
<1>9. f[0] = {n} /\ \A d \in 1..N : f[d] = Step(f[d - 1], up)
  <2>1. \A d \in 1..N : d - 1 \in 0..N
    BY <1>1
  <2> QED BY <1>2, <1>3, <2>1 DEF Unfolds
<1> QED BY <1>1, <1>3, <1>8, <1>9

\* What is found at some depth below or above n.
LEMMA ReachedIs ==
  ASSUME RelTypes, NEW up \in BOOLEAN, NEW n \in Nodes
  PROVE  /\ \A m : m \in Reached(n, up) <=> \E d \in 1..Cardinality(Nodes) : m \in Level(n, up)[d]
         /\ Reached(n, up) \subseteq DOMAIN above
<1>1. \A m : m \in Reached(n, up) <=> \E d \in 1..Cardinality(Nodes) : m \in Level(n, up)[d]
  BY DEF Reached
<1>2. \A d \in 1..Cardinality(Nodes) : Level(n, up)[d] \subseteq DOMAIN above
  BY LevelsAre, StepsStay
<1> QED BY <1>1, <1>2

\* Where every row is above the one it points at, below n all is higher than n.
LEMMA Higher ==
  ASSUME RelTypes, NEW h, Ranks(h), NEW n \in Nodes
  PROVE  \A m \in Reached(n, FALSE) : m \in Nodes /\ h[n] < h[m]
<1> DEFINE N == Cardinality(Nodes)
           L == Level(n, FALSE)
           P == {d \in 0..N : \A m \in L[d] : m \in Nodes /\ (d # 0 => h[n] < h[m]) /\ h[n] <= h[m]}
<1>1. N \in Nat /\ L[0] = {n} /\ \A d \in 1..N : L[d] = Step(L[d - 1], FALSE)
  BY LevelsAre
<1>2. h \in [Nodes -> Nat] /\ \A m \in DOMAIN above : above[m] # Null => h[above[m]] < h[m]
  BY DEF Ranks
<1> HIDE DEF N, L
<1>3. 0 \in P
  <2>1. 0 \in 0..N /\ h[n] <= h[n]
    BY <1>1, <1>2
  <2> QED BY <1>1, <2>1
<1>4. ASSUME NEW d \in 1..N, d - 1 \in P PROVE d \in P
  <2>1. d \in 0..N /\ d # 0
    BY <1>1
  <2>2. ASSUME NEW m \in L[d] PROVE m \in Nodes /\ h[n] < h[m]
    <3>1. m \in DOMAIN above /\ above[m] \in L[d - 1]
      <4>1. L[d] = Step(L[d - 1], FALSE)
        BY <1>1
      <4> QED BY ONLY <2>2, <4>1, StepsDown
    <3>2. above[m] \in Nodes /\ h[n] <= h[above[m]]
      BY <1>4, <3>1
    <3>3. m \in Nodes /\ above[m] # Null
      BY <3>1, <3>2, RelationsAssumption DEF RelTypes
    <3>4. h[above[m]] < h[m]
      BY <1>2, <3>1, <3>3
    <3>5. h[n] \in Nat /\ h[m] \in Nat /\ h[above[m]] \in Nat
      BY <1>2, <3>2, <3>3
    <3> QED BY <3>2, <3>3, <3>4, <3>5
  <2>3. \A m \in L[d] : h[n] <= h[m]
    BY <1>2, <2>2
  <2> QED BY <2>1, <2>2, <2>3
<1>5. \A d \in 0..N : d \in P
  <2> HIDE DEF P
  <2> QED BY <1>1, <1>3, <1>4, UpToAll
<1>6. ASSUME NEW m \in Reached(n, FALSE) PROVE m \in Nodes /\ h[n] < h[m]
  <2>1. PICK d \in 1..N : m \in L[d]
    BY ReachedIs DEF N, L
  <2>2. d \in 0..N /\ d # 0
    BY <1>1
  <2> QED BY <1>5, <2>1, <2>2
<1> QED BY <1>6

\* And above n nothing is higher than the row n points at.
LEMMA Lower ==
  ASSUME RelTypes, NEW h, Ranks(h), NEW n \in Nodes, n \in DOMAIN above
  PROVE  \A m \in Reached(n, TRUE) : m \in Nodes /\ above[n] \in Nodes /\ h[m] <= h[above[n]]
<1> DEFINE N == Cardinality(Nodes)
           L == Level(n, TRUE)
           P == {d \in 0..N : \A m \in L[d] :
                              /\ d = 0 => m = n
                              /\ d # 0 => m \in Nodes /\ above[n] \in Nodes /\ h[m] <= h[above[n]]}
<1>1. N \in Nat /\ L[0] = {n} /\ \A d \in 1..N : L[d] = Step(L[d - 1], TRUE)
  BY LevelsAre
<1>2. h \in [Nodes -> Nat] /\ \A m \in DOMAIN above : above[m] # Null => h[above[m]] < h[m]
  BY DEF Ranks
<1> HIDE DEF N, L
<1>3. 0 \in P
  <2>1. 0 \in 0..N
    BY <1>1
  <2>2. \A m \in L[0] : m = n
    BY <1>1
  <2> QED BY <2>1, <2>2
<1>4. ASSUME NEW d \in 1..N, d - 1 \in P PROVE d \in P
  <2>1. d \in 0..N /\ d # 0
    BY <1>1
  <2>2. ASSUME NEW m \in L[d] PROVE m \in Nodes /\ above[n] \in Nodes /\ h[m] <= h[above[n]]
    <3>1. m \in DOMAIN above /\ \E k \in L[d - 1] : above[k] = m
      <4>1. L[d] = Step(L[d - 1], TRUE)
        BY <1>1
      <4> QED BY ONLY <2>2, <4>1, StepsUp
    <3>2. PICK k \in L[d - 1] : above[k] = m
      BY <3>1
    <3>3. m \in Nodes /\ h[m] \in Nat
      BY <1>2, <3>1 DEF RelTypes
    <3>4. CASE k = n
      <4>1. h[m] <= h[m]
        BY <3>3
      <4> QED BY <3>2, <3>3, <3>4, <4>1
    <3>5. CASE k # n
      <4>1. k \in Nodes /\ above[n] \in Nodes /\ h[k] <= h[above[n]]
        BY <1>4, <3>5
      <4>2. d - 1 # 0 /\ d - 1 \in 1..N
        <5>1. d - 1 \in 0..N /\ (d - 1 = 0 => k \in {n})
          BY <1>1
        <5> QED BY <1>1, <3>5, <5>1
      <4>3. k \in DOMAIN above
        <5>1. \A e \in 1..N : L[e] \subseteq DOMAIN above
          <6> SUFFICES ASSUME NEW e \in 1..N PROVE L[e] \subseteq DOMAIN above
            OBVIOUS
          <6>1. L[e] = Step(L[e - 1], TRUE)
            BY <1>1
          <6>2. Step(L[e - 1], TRUE) \subseteq DOMAIN above
            BY StepsStay
          <6> QED BY <6>1, <6>2
        <5> QED BY <4>2, <5>1
      <4>4. m # Null
        BY <3>3, RelationsAssumption
      <4>5. h[m] < h[k] /\ h[k] \in Nat /\ h[above[n]] \in Nat
        BY <1>2, <3>2, <4>1, <4>3, <4>4
      <4> QED BY <3>3, <4>1, <4>5
    <3> QED BY <3>4, <3>5
  <2> QED BY <2>1, <2>2
<1>5. \A d \in 0..N : d \in P
  <2> HIDE DEF P
  <2> QED BY <1>1, <1>3, <1>4, UpToAll
<1>6. ASSUME NEW m \in Reached(n, TRUE)
      PROVE  m \in Nodes /\ above[n] \in Nodes /\ h[m] <= h[above[n]]
  <2>1. PICK d \in 1..N : m \in L[d]
    BY ReachedIs DEF N, L
  <2>2. d \in 0..N /\ d # 0
    BY <1>1
  <2> QED BY <1>5, <2>1, <2>2
<1> QED BY <1>6

\* tree() hangs what was reached under the rows next to n.
LEMMA NestsRight ==
  ASSUME RelTypes, NEW h, Ranks(h), NEW n \in DOMAIN above, NEW up \in BOOLEAN
  PROVE  NestRoots(Reached(n, up), up) = Level(n, up)[1]
<1> DEFINE N == Cardinality(Nodes)
           L == Level(n, up)
           R == Reached(n, up)
<1>1. n \in Nodes
  BY DEF RelTypes
<1>2. N \in Nat /\ L[0] = {n} /\ \A d \in 1..N : L[d] = Step(L[d - 1], up)
  BY <1>1, LevelsAre
<1>3. 1 \in 1..N
  <2>1. IsFiniteSet(Nodes) /\ Nodes # {}
    BY <1>1, RelationsAssumption
  <2>2. N # 0
    BY <2>1, FS_EmptySet
  <2> QED BY <1>2, <2>2
<1>4. L[1] = Step({n}, up)
  <2>1. 1 - 1 = 0
    OBVIOUS
  <2> QED BY <1>2, <1>3, <2>1
<1>5. h \in [Nodes -> Nat] /\ \A m \in DOMAIN above : above[m] # Null => h[above[m]] < h[m]
  BY DEF Ranks
<1>6. /\ \A m : m \in R <=> \E d \in 1..N : m \in L[d]
      /\ R \subseteq DOMAIN above /\ DOMAIN above \subseteq Nodes
  BY <1>1, ReachedIs DEF RelTypes
<1>7. \A d \in 1..N : d = 1 \/ d - 1 \in 1..N
  BY <1>2
<1> HIDE DEF N, L
<1>8. CASE up = TRUE
  <2>1. \A m \in R : m \in Nodes /\ above[n] \in Nodes /\ h[m] <= h[above[n]]
    BY <1>1, <1>8, Lower
  <2> HIDE DEF R
  <2>2. ASSUME NEW m \in L[1] PROVE m \in R /\ \A k \in R : above[k] # m
    <3>1. m \in R /\ m = above[n]
      <4>1. m \in Step({n}, TRUE)
        BY <1>4, <1>8, <2>2
      <4>2. above[n] = m
        BY <4>1, StepsUpOne
      <4> QED BY <1>3, <1>6, <2>2, <4>2
    <3>2. ASSUME NEW k \in R, above[k] = m PROVE FALSE
      <4>1. k \in DOMAIN above /\ k \in Nodes /\ m \in Nodes /\ h[k] <= h[m]
        BY <1>6, <2>1, <3>1
      <4>2. m # Null
        BY <4>1, RelationsAssumption
      <4>3. h[m] < h[k] /\ h[m] \in Nat /\ h[k] \in Nat
        BY <1>5, <3>2, <4>1, <4>2
      <4> QED BY <4>1, <4>3
    <3> QED BY <3>1, <3>2
  <2>3. ASSUME NEW m \in R, m \notin L[1] PROVE \E k \in R : above[k] = m
    <3>1. PICK d \in 1..N : m \in L[d]
      BY <1>6
    <3>2. d - 1 \in 1..N
      BY <1>7, <2>3, <3>1
    <3>3. PICK k \in L[d - 1] : above[k] = m
      <4>1. L[d] = Step(L[d - 1], up)
        BY <1>2
      <4> QED BY ONLY <1>8, <3>1, <4>1, StepsUp
    <3> QED BY <1>6, <3>2, <3>3
  <2>4. NestRoots(R, up) = {m \in R : \A k \in R : above[k] # m}
    BY <1>8 DEF NestRoots
  <2>5. NestRoots(R, up) = L[1]
    BY <2>2, <2>3, <2>4
  <2> QED BY <2>5 DEF R, L
<1>9. CASE up = FALSE
  <2>1. \A m \in R : m \in Nodes /\ h[n] < h[m]
    BY <1>1, <1>9, Higher
  <2> HIDE DEF R
  <2>2. ASSUME NEW m \in L[1] PROVE m \in R /\ above[m] \notin R
    <3>1. m \in R /\ above[m] = n
      <4>1. m \in Step({n}, FALSE)
        BY <1>4, <1>9, <2>2
      <4>2. above[m] \in {n}
        BY <4>1, StepsDown
      <4> QED BY <1>3, <1>6, <2>2, <4>2
    <3>2. n \notin R
      <4>1. h[n] \in Nat /\ ~(h[n] < h[n])
        BY <1>1, <1>5
      <4> QED BY <2>1, <4>1
    <3> QED BY <3>1, <3>2
  <2>3. ASSUME NEW m \in R, m \notin L[1] PROVE above[m] \in R
    <3>1. PICK d \in 1..N : m \in L[d]
      BY <1>6
    <3>2. d - 1 \in 1..N
      BY <1>7, <2>3, <3>1
    <3>3. above[m] \in L[d - 1]
      <4>1. L[d] = Step(L[d - 1], up)
        BY <1>2
      <4> QED BY ONLY <1>9, <3>1, <4>1, StepsDown
    <3> QED BY <1>6, <3>2, <3>3
  <2>4. NestRoots(R, up) = {m \in R : above[m] \notin R}
    BY <1>9 DEF NestRoots
  <2>5. NestRoots(R, up) = L[1]
    BY <2>2, <2>3, <2>4
  <2> QED BY <2>5 DEF R, L
<1> QED BY <1>8, <1>9

\* A step of the batched walk, each row with the root it was reached from.
WalkFurther(w, roots, up) ==
    {m \in roots \X DOMAIN above : \E l \in w : l[1] = m[1] /\ m[2] \in Step({l[2]}, up)}

\* The batched walk finds at each depth what the walks of its roots find there.
LEMMA WalksAre ==
  ASSUME RelTypes, NEW up \in BOOLEAN, NEW roots, roots \subseteq DOMAIN above
  PROVE  \A k : k \in RecursiveEager(roots, up) <=>
            k \in roots \X Nodes /\ \E d \in 1..Cardinality(Nodes) : k[2] \in Level(k[1], up)[d]
<1> DEFINE N == Cardinality(Nodes)
           R(f) == f = [d \in 0..N |-> IF d = 0 THEN {<<n, n>> : n \in roots}
                                       ELSE {m \in roots \X DOMAIN above :
                                                \E l \in f[d - 1] : l[1] = m[1] /\ m[2] \in Step({l[2]}, up)}]
           V(d) == {k \in roots \X Nodes : k[2] \in Level(k[1], up)[d]}
           v == [d \in 0..N |-> V(d)]
<1>1. N \in Nat
  BY RelationsAssumption, FS_CardinalityType
<1>2. roots \subseteq Nodes /\ DOMAIN above \subseteq Nodes
  BY DEF RelTypes
<1>3. \A n \in roots : /\ Level(n, up)[0] = {n}
                      /\ \A d \in 1..N : Level(n, up)[d] = Step(Level(n, up)[d - 1], up)
  BY <1>2, LevelsAre
<1>4. V(0) = {<<n, n>> : n \in roots}
  BY <1>2, <1>3
<1>5. ASSUME NEW d \in 1..N PROVE V(d) = WalkFurther(V(d - 1), roots, up)
  <2>1. ASSUME NEW k \in V(d) PROVE k \in WalkFurther(V(d - 1), roots, up)
    <3>1. k[1] \in roots /\ k[2] \in Nodes /\ k = <<k[1], k[2]>> /\ k[2] \in Level(k[1], up)[d]
      OBVIOUS
    <3>2. k[2] \in Step(Level(k[1], up)[d - 1], up)
      BY <1>3, <3>1
    <3>3. PICK n \in Level(k[1], up)[d - 1] : k[2] \in Step({n}, up)
      BY <3>2, StepsOfAll
    <3>4. k[2] \in DOMAIN above
      BY <3>3, StepsStay
    <3>5. n \in Nodes
      <4>1. d - 1 \in 0..N
        BY <1>1
      <4>2. Level(k[1], up) \in [0..N -> SUBSET Nodes]
        BY <1>2, <3>1, LevelsAre
      <4> QED BY <3>3, <4>1, <4>2
    <3>6. <<k[1], n>> \in V(d - 1)
      BY <3>1, <3>3, <3>5
    <3> HIDE DEF V
    <3> QED BY <3>1, <3>3, <3>4, <3>6 DEF WalkFurther
  <2>2. ASSUME NEW k \in WalkFurther(V(d - 1), roots, up) PROVE k \in V(d)
    <3>1. PICK l \in V(d - 1) : l[1] = k[1] /\ k[2] \in Step({l[2]}, up)
      BY DEF WalkFurther
    <3>2. k \in roots \X DOMAIN above
      BY DEF WalkFurther
    <3>3. k[2] \in Step(Level(k[1], up)[d - 1], up)
      BY <3>1, StepsOfAll
    <3>4. k[2] \in Level(k[1], up)[d]
      BY <1>3, <3>2, <3>3
    <3> QED BY <1>2, <3>2, <3>4
  <2> HIDE DEF V
  <2> QED BY <2>1, <2>2
<1>6. R(v)
  <2>1. \A d \in 0..N : d # 0 => d \in 1..N /\ d - 1 \in 0..N
    BY <1>1
  <2>2. \A d \in 1..N : v[d - 1] = V(d - 1)
    <3> HIDE DEF V, N
    <3>1. \A d \in 1..N : d - 1 \in 0..N
      BY <1>1
    <3> QED BY <3>1
  <2>3. \A d \in 0..N : d # 0 => V(d) = WalkFurther(v[d - 1], roots, up)
    <3> HIDE DEF V, N, v
    <3> QED BY <1>5, <2>1, <2>2
  <2>4. \A d \in 0..N : V(d) = IF d = 0 THEN {<<n, n>> : n \in roots} ELSE WalkFurther(v[d - 1], roots, up)
    <3> HIDE DEF V, N, v
    <3> QED BY <1>4, <2>3
  <2>5. v = [d \in 0..N |-> IF d = 0 THEN {<<n, n>> : n \in roots} ELSE WalkFurther(v[d - 1], roots, up)]
    <3> HIDE DEF V, N
    <3> QED BY <2>4
  <2> HIDE DEF v, N
  <2> QED BY <2>5 DEF WalkFurther
<1>7. \A f : R(f) => f = v
  <2> SUFFICES ASSUME NEW f, R(f) PROVE f = v
    OBVIOUS
  <2> DEFINE P == {d \in 0..N : f[d] = v[d]}
  <2>1. \A g : R(g) => /\ DOMAIN g = 0..N /\ g[0] = {<<n, n>> : n \in roots}
                      /\ \A d \in 1..N : g[d] = WalkFurther(g[d - 1], roots, up)
    <3> SUFFICES ASSUME NEW g, R(g)
                 PROVE  /\ DOMAIN g = 0..N /\ g[0] = {<<n, n>> : n \in roots}
                        /\ \A d \in 1..N : g[d] = WalkFurther(g[d - 1], roots, up)
      OBVIOUS
    <3>1. 0 \in 0..N /\ \A d \in 1..N : d \in 0..N /\ d # 0
      BY <1>1
    <3> HIDE DEF N
    <3> QED BY <3>1 DEF WalkFurther
  <2>2. /\ DOMAIN f = 0..N /\ f[0] = {<<n, n>> : n \in roots}
        /\ \A d \in 1..N : f[d] = WalkFurther(f[d - 1], roots, up)
    BY <2>1
  <2>3. /\ DOMAIN v = 0..N /\ v[0] = {<<n, n>> : n \in roots}
        /\ \A d \in 1..N : v[d] = WalkFurther(v[d - 1], roots, up)
    <3> HIDE DEF v, R
    <3> QED BY <1>6, <2>1
  <2> HIDE DEF v, R
  <2>4. 0 \in P
    <3>1. 0 \in 0..N
      BY <1>1
    <3>2. f[0] = v[0]
      BY <2>2, <2>3
    <3> QED BY <3>1, <3>2
  <2>5. \A d \in 1..N : d - 1 \in P => d \in P
    <3> SUFFICES ASSUME NEW d \in 1..N, d - 1 \in P PROVE d \in P
      OBVIOUS
    <3>1. d \in 0..N
      BY <1>1
    <3>2. f[d] = WalkFurther(f[d - 1], roots, up) /\ v[d] = WalkFurther(v[d - 1], roots, up)
      BY <2>2, <2>3
    <3> QED BY <3>1, <3>2
  <2>6. \A d \in 0..N : d \in P
    <3> HIDE DEF P, N
    <3> QED BY <1>1, <2>4, <2>5, UpToAll
  <2>7. f = [d \in 0..N |-> f[d]] /\ v = [d \in 0..N |-> v[d]]
    BY <2>2 DEF R, v
  <2> QED BY <2>6, <2>7
<1>8. RecursiveEager(roots, up) = UNION {(CHOOSE f : R(f))[d] : d \in 1..N}
  BY DEF RecursiveEager
<1>9. (CHOOSE f : R(f)) = v
  <2> HIDE DEF R, v
  <2> QED BY <1>6, <1>7
<1>10. RecursiveEager(roots, up) = UNION {v[d] : d \in 1..N}
  <2> HIDE DEF R, v
  <2> QED BY <1>8, <1>9
<1>11. \A d \in 1..N : v[d] = V(d)
  <2>1. \A d \in 1..N : d \in 0..N
    BY <1>1
  <2> HIDE DEF V
  <2> QED BY <2>1
<1> QED
  <2> HIDE DEF v
  <2>1. \A k : k \in RecursiveEager(roots, up) <=> \E d \in 1..N : k \in V(d)
    <3> HIDE DEF V
    <3> QED BY <1>10, <1>11
  <2> QED BY <2>1

\* Trees are read the same way by a batch and by a walk, and nested under what is next to the root.
LEMMA TreesRight == RelationsInv => TreesAgree
<1> SUFFICES ASSUME RelTypes, NEW h, Ranks(h), NEW up \in BOOLEAN, NEW roots \in SUBSET DOMAIN above,
                    NEW n \in roots
             PROVE  /\ {l[2] : l \in {k \in RecursiveEager(roots, up) : k[1] = n}} = Reached(n, up)
                    /\ NestRoots(Reached(n, up), up) = Level(n, up)[1]
  BY DEF RelationsInv, TreesAgree
<1>1. n \in DOMAIN above /\ n \in Nodes /\ DOMAIN above \subseteq Nodes
  BY DEF RelTypes
<1>2. \A m : m \in Reached(n, up) <=> \E d \in 1..Cardinality(Nodes) : m \in Level(n, up)[d]
  BY <1>1, ReachedIs
<1>3. Reached(n, up) \subseteq Nodes
  BY <1>1, ReachedIs
<1>4. \A k : k \in RecursiveEager(roots, up) <=>
            k \in roots \X Nodes /\ \E d \in 1..Cardinality(Nodes) : k[2] \in Level(k[1], up)[d]
  BY WalksAre
<1>5. ASSUME NEW m \in Reached(n, up) PROVE <<n, m>> \in RecursiveEager(roots, up)
  BY <1>2, <1>3, <1>4
<1>6. ASSUME NEW k \in RecursiveEager(roots, up), k[1] = n PROVE k[2] \in Reached(n, up)
  BY <1>2, <1>4, <1>6
<1>7. {l[2] : l \in {k \in RecursiveEager(roots, up) : k[1] = n}} = Reached(n, up)
  <2> DEFINE K == {k \in RecursiveEager(roots, up) : k[1] = n}
  <2>1. ASSUME NEW m \in Reached(n, up) PROVE m \in {l[2] : l \in K}
    <3>1. <<n, m>> \in K /\ <<n, m>>[2] = m
      BY <1>5
    <3> HIDE DEF K
    <3> QED BY <3>1
  <2>2. ASSUME NEW l \in K PROVE l[2] \in Reached(n, up)
    BY <1>6
  <2> HIDE DEF K
  <2>3. {l[2] : l \in K} = Reached(n, up)
    BY <2>1, <2>2
  <2> QED BY <2>3 DEF K
<1> QED BY <1>1, <1>7, NestsRight

\* Below the deepest row there is nothing: no walk takes as many steps as there are rows.
LEMMA DeepEnough ==
  ASSUME RelTypes, NEW h, Ranks(h), NEW n \in Nodes
  PROVE  Level(n, FALSE)[Cardinality(Nodes)] = {}
<1> DEFINE N == Cardinality(Nodes)
           L == Level(n, FALSE)
           up == [m \in Nodes |-> IF m \in DOMAIN above /\ above[m] \in Nodes THEN above[m] ELSE m]
<1>1. /\ N \in Nat /\ L \in [0..N -> SUBSET Nodes]
      /\ \A d \in 1..N : L[d] = Step(L[d - 1], FALSE)
  BY LevelsAre
<1>2. h \in [Nodes -> Nat] /\ \A m \in DOMAIN above : above[m] # Null => h[above[m]] < h[m]
  BY DEF Ranks
<1>3. Null \notin Nodes /\ IsFiniteSet(Nodes)
  BY RelationsAssumption
<1>4. \A m \in Nodes : up[m] \in Nodes /\ (m \in DOMAIN above /\ above[m] \in Nodes => up[m] = above[m])
  OBVIOUS
<1> HIDE DEF N, L, up
<1>5. ASSUME NEW d \in 1..N, NEW m \in L[d]
      PROVE  m \in Nodes /\ up[m] \in L[d - 1] /\ h[up[m]] < h[m]
  <2>1. m \in Step(L[d - 1], FALSE)
    BY <1>1
  <2>2. m \in DOMAIN above /\ above[m] \in L[d - 1]
    BY <2>1, StepsDown
  <2>3. d - 1 \in 0..N /\ d \in 0..N
    BY <1>1
  <2>4. above[m] \in Nodes /\ m \in Nodes
    BY <1>1, <2>2, <2>3
  <2> QED BY <1>2, <1>3, <1>4, <2>2, <2>4
<1> SUFFICES ASSUME NEW x \in L[N] PROVE FALSE
  BY DEF L, N
<1>6. x \in Nodes
  <2>1. N \in 0..N
    BY <1>1
  <2> QED BY <1>1, <2>1
<1>7. PICK G \in [1..N -> [Nodes -> Nodes]] : \A d \in 1..N, m \in Nodes : G[d][m] = up[m]
  <2> DEFINE g == [d \in 1..N |-> [m \in Nodes |-> up[m]]]
  <2>1. g \in [1..N -> [Nodes -> Nodes]] /\ \A d \in 1..N, m \in Nodes : g[d][m] = up[m]
    BY <1>4
  <2> HIDE DEF g
  <2> QED BY <2>1
<1>8. PICK f \in [0..N -> Nodes] : Unfolds(f, N, x, G)
  BY <1>1, <1>6, <1>7, StepByStep
<1>9. f[0] = x /\ \A i \in 1..N : f[i] = up[f[i - 1]]
  <2>1. \A i \in 1..N : i - 1 \in 0..N
    BY <1>1
  <2> QED BY <1>7, <1>8, <2>1 DEF Unfolds
<1>10. \A i \in 0..N : f[i] \in L[N - i]
  <2> DEFINE P == {i \in 0..N : f[i] \in L[N - i]}
  <2>1. 0 \in P
    <3>1. N - 0 = N /\ 0 \in 0..N
      BY <1>1
    <3> QED BY <1>9, <3>1
  <2>2. ASSUME NEW i \in 1..N, i - 1 \in P PROVE i \in P
    <3>1. N - (i - 1) \in 1..N /\ (N - (i - 1)) - 1 = N - i /\ i \in 0..N
      BY <1>1
    <3>2. up[f[i - 1]] \in L[N - i]
      BY <1>5, <2>2, <3>1
    <3> QED BY <1>9, <3>1, <3>2
  <2> HIDE DEF P
  <2>3. \A i \in 0..N : i \in P
    BY <1>1, <2>1, <2>2, UpToAll
  <2> QED BY <2>3 DEF P
<1>11. ASSUME NEW i \in 1..N PROVE h[f[i]] < h[f[i - 1]]
  <2>1. N - (i - 1) \in 1..N /\ i - 1 \in 0..N
    BY <1>1
  <2> QED BY <1>5, <1>9, <1>10, <2>1
<1>12. \A j \in 0..N, i \in 0..N : i < j => h[f[j]] < h[f[i]]
  <2> DEFINE P == {j \in 0..N : \A i \in 0..N : i < j => h[f[j]] < h[f[i]]}
  <2>1. 0 \in P
    <3>1. 0 \in 0..N /\ \A i \in 0..N : ~(i < 0)
      BY <1>1
    <3> QED BY <3>1
  <2>2. ASSUME NEW j \in 1..N, j - 1 \in P PROVE j \in P
    <3>1. j \in 0..N /\ j - 1 \in 0..N
      BY <1>1
    <3>2. ASSUME NEW i \in 0..N, i < j PROVE h[f[j]] < h[f[i]]
      <4>1. i = j - 1 \/ i < j - 1
        BY <3>1, <3>2
      <4>2. h[f[j]] \in Nat /\ h[f[j - 1]] \in Nat /\ h[f[i]] \in Nat
        BY <1>2, <3>1
      <4>3. h[f[j]] < h[f[j - 1]]
        BY <1>11
      <4>4. i < j - 1 => h[f[j - 1]] < h[f[i]]
        BY <2>2
      <4> QED BY <4>1, <4>2, <4>3, <4>4
    <3> QED BY <3>1, <3>2
  <2> HIDE DEF P
  <2>3. \A i \in 0..N : i \in P
    BY <1>1, <2>1, <2>2, UpToAll
  <2> QED BY <2>3 DEF P
<1>13. \A i, j \in 0..N : f[i] = f[j] => i = j
  <2> SUFFICES ASSUME NEW i \in 0..N, NEW j \in 0..N, f[i] = f[j], i # j PROVE FALSE
    OBVIOUS
  <2>1. i < j \/ j < i
    BY <1>1
  <2>2. h[f[i]] \in Nat /\ h[f[j]] \in Nat
    BY <1>2
  <2> QED BY <1>12, <2>1, <2>2
<1>14. IsFiniteSet(0..N) /\ Cardinality(0..N) = N + 1
  <2>1. 0 \in Int /\ N \in Int /\ 0 <= N
    BY <1>1
  <2>2. IsFiniteSet(0..N) /\ Cardinality(0..N) = IF 0 > N THEN 0 ELSE N - 0 + 1
    BY <2>1, FS_Interval
  <2> QED BY <1>1, <2>2
<1>15. Cardinality(0..N) > Cardinality(Nodes)
  BY <1>1, <1>14 DEF N
<1>16. \E i, j \in 0..N : i # j /\ f[i] = f[j]
  BY <1>3, <1>14, <1>15, FS_PigeonHole
<1> QED BY <1>13, <1>16

\* A row is added to the tree or moved: what hangs below it is raised with it.
LEMMA HangKeeps ==
  ASSUME RelTypes, NEW h, Ranks(h), NEW n \in Nodes, NEW m \in Nodes \cup {Null}, HangUnder(n, m)
  PROVE  RelTypes' /\ \E g : Ranks(g)'
<1> DEFINE D == {n} \cup Reached(n, FALSE)
           N == Cardinality(Nodes)
           L == Level(n, FALSE)
<1>1. /\ N \in Nat /\ L[0] = {n} /\ \A d \in 1..N : L[d] = Step(L[d - 1], FALSE)
  BY LevelsAre
<1>2. L[N] = {}
  BY DeepEnough
<1>3. h \in [Nodes -> Nat] /\ \A x \in DOMAIN above : above[x] # Null => h[above[x]] < h[x]
  BY DEF Ranks
<1>4. above \in [DOMAIN above -> Nodes \cup {Null}] /\ DOMAIN above \subseteq Nodes /\ Null \notin Nodes
  BY RelationsAssumption DEF RelTypes
<1>5. /\ above' = [k \in DOMAIN above \cup {n} |-> IF k = n THEN m ELSE above[k]]
      /\ m \notin D /\ (m # Null => m \in DOMAIN above)
  <2>1. m \in {Null} \cup (DOMAIN above \ D)
    BY DEF HangUnder
  <2>2. D \subseteq Nodes
    BY <1>4, ReachedIs
  <2> QED BY <1>4, <2>1, <2>2 DEF HangUnder
<1>6. ASSUME NEW x \in DOMAIN above, above[x] \in D PROVE x \in D
  <2>1. \A k : k \in Reached(n, FALSE) <=> \E d \in 1..N : k \in L[d]
    BY ReachedIs
  <2> HIDE DEF N, L
  <2>2. ASSUME NEW d \in 0..N, above[x] \in L[d] PROVE x \in D
    <3>1. d # N
      BY <1>2, <2>2
    <3>2. d + 1 \in 1..N /\ (d + 1) - 1 = d
      BY <1>1, <3>1
    <3>3. L[d + 1] = Step(L[d], FALSE)
      BY <1>1, <3>2
    <3>4. x \in Step(L[d], FALSE)
      BY <2>2, StepsDown
    <3>5. x \in L[d + 1]
      BY <3>3, <3>4
    <3> QED BY <2>1, <3>2, <3>5
  <2>3. \E d \in 0..N : above[x] \in L[d]
    <3>1. CASE above[x] = n
      <4>1. 0 \in 0..N
        BY <1>1
      <4> QED BY <1>1, <3>1, <4>1
    <3>2. CASE above[x] \in Reached(n, FALSE)
      <4>1. PICK d \in 1..N : above[x] \in L[d]
        BY <2>1, <3>2
      <4>2. d \in 0..N
        BY <1>1
      <4> QED BY <4>1, <4>2
    <3> QED BY <1>6, <3>1, <3>2
  <2> QED BY <2>2, <2>3
<1> HIDE DEF D, N, L
<1>7. DOMAIN above' = DOMAIN above \cup {n} /\ \A x \in DOMAIN above' : above'[x] = IF x = n THEN m ELSE above[x]
  BY <1>5
<1>8. above' \in [DOMAIN above' -> Nodes \cup {Null}] /\ DOMAIN above' \subseteq Nodes
  BY <1>4, <1>5
<1>9. RelTypes'
  BY <1>8 DEF RelTypes, HangUnder, ChildRow, Types
<1>10. PICK up \in Nat : m # Null => up = h[m] + 1
  <2>1. CASE m = Null
    BY <2>1
  <2>2. CASE m # Null
    <3>1. h[m] \in Nat
      BY <1>3, <2>2
    <3>2. h[m] + 1 \in Nat
      BY <3>1
    <3> QED BY <3>2
  <2> QED BY <2>1, <2>2
<1>11. PICK g : /\ g \in [Nodes -> Nat]
                /\ \A x \in Nodes : (x \in D => g[x] = h[x] + up) /\ (x \notin D => g[x] = h[x])
  <2> DEFINE raised == [x \in Nodes |-> IF x \in D THEN h[x] + up ELSE h[x]]
  <2>1. raised \in [Nodes -> Nat]
    BY <1>3
  <2>2. \A x \in Nodes : (x \in D => raised[x] = h[x] + up) /\ (x \notin D => raised[x] = h[x])
    OBVIOUS
  <2> HIDE DEF raised
  <2> QED BY <2>1, <2>2
<1>12. \A x \in Nodes : (x \in D => g[x] = h[x] + up) /\ (x \notin D => g[x] = h[x])
  BY <1>11
<1>13. n \in D
  BY DEF D
<1>14. ASSUME NEW x \in DOMAIN above', above'[x] # Null PROVE g[above'[x]] < g[x]
  <2>1. CASE x = n
    <3>1. above'[x] = m /\ m \in Nodes /\ m # Null
      BY <1>7, <1>14, <2>1
    <3>2. g[m] = h[m] /\ g[n] = h[n] + (h[m] + 1) /\ h[m] \in Nat /\ h[n] \in Nat
      BY <1>3, <1>5, <1>10, <1>12, <1>13, <3>1
    <3> QED BY <2>1, <3>1, <3>2
  <2>2. CASE x # n
    <3>1. PICK y \in Nodes : y = above[x]
      BY <1>4, <1>7, <1>14, <2>2
    <3>2. x \in DOMAIN above /\ x \in Nodes /\ above'[x] = y /\ above[x] # Null
      BY <1>4, <1>7, <1>14, <2>2, <3>1
    <3>3. h[y] < h[x] /\ h[x] \in Nat /\ h[y] \in Nat
      BY <1>3, <3>1, <3>2
    <3>4. y \in D => x \in D
      BY <1>6, <3>1, <3>2
    <3> QED BY <1>12, <3>2, <3>3, <3>4
  <2> QED BY <2>1, <2>2
<1>15. Ranks(g)'
  BY <1>11, <1>14 DEF Ranks
<1> QED BY <1>9, <1>15

LEMMA RelationsBegin == RelationsInit => RelationsInv
<1> SUFFICES ASSUME RelationsInit PROVE RelationsInv
  OBVIOUS
<1>1. RelTypes
  BY DEF RelationsInit, RelTypes
<1>2. PICK h \in [Nodes -> Nat] : \A n \in Nodes : h[n] = 0
  <2>1. [n \in Nodes |-> 0] \in [Nodes -> Nat]
    OBVIOUS
  <2> QED BY <2>1
<1>3. Ranks(h)
  BY <1>2 DEF Ranks, RelationsInit
<1> QED BY <1>1, <1>3 DEF RelationsInv

LEMMA RelationsNextInv == RelationsInv /\ [RelationStep]_relationVars => RelationsInv'
<1> SUFFICES ASSUME RelTypes, NEW h, Ranks(h), [RelationStep]_relationVars
             PROVE  RelTypes' /\ \E g : Ranks(g)'
  BY DEF RelationsInv
<1>1. Null \notin Parents /\ Null \notin Nodes
  BY RelationsAssumption
<1>2. above' = above => Ranks(h)'
  BY DEF Ranks
<1>3. \A c \in Children : IsRow(c) => child[c] \in ChildRow
  BY DEF IsRow, RelTypes
<1>4. CASE UNCHANGED relationVars
  BY <1>2, <1>4 DEF relationVars, RelTypes, Types, ChildRow
<1>5. ASSUME NEW p \in Parents, NEW c \in Children, NEW type \in Types, CreateChild(p, c, type)
      PROVE  RelTypes' /\ above' = above
  <2>1. [owner |-> p, type |-> type, trashed |-> FALSE] \in ChildRow
    BY DEF ChildRow
  <2> QED BY <1>5, <2>1 DEF CreateChild, OnlyChildren, RelTypes
<1>6. ASSUME NEW c \in Children, NEW owner \in Parents \cup {Null}, MoveChild(c, owner)
      PROVE  RelTypes' /\ above' = above
  <2>1. child[c] \in ChildRow
    BY <1>3, <1>6 DEF MoveChild, Live
  <2>2. [child[c] EXCEPT !.owner = owner] \in ChildRow
    BY <2>1 DEF ChildRow
  <2>3. child' = [child EXCEPT ![c] = [child[c] EXCEPT !.owner = owner]]
    BY <1>6 DEF MoveChild
  <2> QED BY <1>6, <2>2, <2>3 DEF MoveChild, OnlyChildren, RelTypes
<1>7. ASSUME NEW c \in Children, TrashOrRestore(c) PROVE RelTypes' /\ above' = above
  <2>1. child[c] \in ChildRow
    BY <1>3, <1>7 DEF TrashOrRestore
  <2>2. [child[c] EXCEPT !.trashed = ~child[c].trashed] \in ChildRow
    BY <2>1 DEF ChildRow
  <2>3. child' = [child EXCEPT ![c] = [child[c] EXCEPT !.trashed = ~child[c].trashed]]
    BY <1>7 DEF TrashOrRestore
  <2> QED BY <1>7, <2>2, <2>3 DEF TrashOrRestore, OnlyChildren, RelTypes
<1>8. ASSUME NEW c \in Children, DeleteChild(c) PROVE RelTypes' /\ above' = above
  BY <1>8 DEF DeleteChild, OnlyChildren, RelTypes
<1>9. ASSUME NEW p \in Parents, CreateOrDeleteParent(p) PROVE RelTypes' /\ above' = above
  BY <1>9 DEF CreateOrDeleteParent, RelTypes
<1>10. ASSUME NEW p \in Parents, NEW c \in Children, NEW type \in Types, Link(p, c, type)
       PROVE  RelTypes' /\ above' = above
  <2>1. /\ pivots' = [pivots EXCEPT ![<<p, c, type>>] = pivots[<<p, c, type>>] + 1]
        /\ UNCHANGED <<saved, child, via, above>>
    BY <1>10 DEF Link, OnlyPivots
  <2>2. pivots \in [Parents \X Children \X Types -> Nat] /\ <<p, c, type>> \in Parents \X Children \X Types
    BY DEF RelTypes
  <2>3. pivots' \in [Parents \X Children \X Types -> Nat]
    <3> DEFINE l == <<p, c, type>>
               K == Parents \X Children \X Types
    <3>1. pivots \in [K -> Nat] /\ l \in K /\ pivots' = [pivots EXCEPT ![l] = pivots[l] + 1]
      BY <2>1, <2>2
    <3> HIDE DEF l, K
    <3>2. pivots' \in [K -> Nat]
      BY <3>1
    <3> QED BY <3>2 DEF K
  <2> QED BY <2>1, <2>3 DEF RelTypes, Types
<1>11. ASSUME NEW p \in Parents, NEW cs, NEW types, Unlink(p, cs, types) PROVE RelTypes' /\ above' = above
  <2>1. /\ pivots' = [l \in DOMAIN pivots |-> IF l[1] = p /\ l[2] \in cs /\ l[3] \in types THEN 0 ELSE pivots[l]]
        /\ UNCHANGED <<saved, child, via, above>>
    BY <1>11 DEF Unlink, OnlyPivots
  <2>2. pivots \in [Parents \X Children \X Types -> Nat]
    BY DEF RelTypes
  <2>3. pivots' \in [Parents \X Children \X Types -> Nat]
    <3> DEFINE K == Parents \X Children \X Types
    <3>1. pivots \in [K -> Nat]
      BY <2>2
    <3> HIDE DEF K
    <3>2. pivots' \in [K -> Nat]
      BY <2>1, <3>1
    <3> QED BY <3>2 DEF K
  <2> QED BY <2>1, <2>3 DEF RelTypes, Types
<1>12. ASSUME NEW g \in Grands, NEW c \in Children, PointAt(g, c) PROVE RelTypes' /\ above' = above
  BY <1>12 DEF PointAt, RelTypes
<1>13. ASSUME NEW n \in Nodes, Uproot(n) PROVE RelTypes' /\ Ranks(h)'
  <2>1. above' = [m \in DOMAIN above \ {n} |-> above[m]] /\ UNCHANGED <<saved, child, pivots, via>>
    BY <1>13 DEF Uproot
  <2>2. RelTypes'
    BY <2>1 DEF RelTypes, Types, ChildRow
  <2>3. Ranks(h)'
    BY <2>1 DEF Ranks
  <2> QED BY <2>2, <2>3
<1>14. ASSUME NEW n \in Nodes, NEW m \in Nodes \cup {Null}, HangUnder(n, m)
       PROVE  RelTypes' /\ \E g : Ranks(g)'
  BY <1>14, HangKeeps
<1>15. ASSUME NEW cs, NEW related, cs \subseteq LiveRows, TrashAll(cs, related) PROVE RelTypes' /\ above' = above
  <2>1. /\ child' = [c \in Children |-> IF c \in cs THEN [child[c] EXCEPT !.trashed = TRUE] ELSE child[c]]
        /\ UNCHANGED <<saved, pivots, via, above>>
    BY <1>15 DEF TrashAll
  <2>2. \A c \in cs : child[c] \in ChildRow
    BY <1>3, <1>15 DEF LiveRows, Live
  <2>3. \A r \in ChildRow : [r EXCEPT !.trashed = TRUE] \in ChildRow
    BY DEF ChildRow
  <2>4. \A c \in Children : child[c] \in ChildRow \cup {Null}
    BY DEF RelTypes
  <2>5. child' \in [Children -> ChildRow \cup {Null}]
    BY <2>1, <2>2, <2>3, <2>4
  <2> QED BY <2>1, <2>5 DEF RelTypes, Types
<1>16. ASSUME NEW p \in Parents, DeleteThroughHasMany(p) \/ DeleteThroughPivot(p) PROVE RelTypes' /\ above' = above
  <2>1. HasManyGet(p) \subseteq LiveRows /\ {c \in Children : Live(c)} \subseteq LiveRows
    BY DEF HasManyGet, LiveRows
  <2> QED BY <1>15, <1>16, <2>1 DEF DeleteThroughHasMany, DeleteThroughPivot
<1>17. CASE RelationStep
  <2>1. ASSUME RelTypes' /\ above' = above PROVE RelTypes' /\ \E g : Ranks(g)'
    BY <1>2, <2>1
  <2> QED BY <1>5, <1>6, <1>7, <1>8, <1>9, <1>10, <1>11, <1>12, <1>13, <1>14, <1>16, <1>17, <2>1 DEF RelationStep
<1> QED BY <1>4, <1>17

\* A batch over a pivot table finds for each what it would have found alone, and no copy that
\* is not its own.
LEMMA PivotsAgree ==
  ASSUME NEW K, NEW f, NEW all, NEW rows \in all, NEW those, DOMAIN rows = K, rows \in [K -> Nat]
  PROVE  /\ {r \in K : PivotEager(rows, all, those)[r] > 0} = PivotGet(rows, those)
         /\ \A r \in K : PivotEager(rows, all, those)[r] > 1 => rows[r] > 1
<1> DEFINE copies == PivotEager(rows, all, those)
           found == {r \in K : \E other \in all : other[r] > 0} \cap those
<1>1. copies = [r \in K |-> IF r \in found THEN rows[r] ELSE 0]
  BY DEF PivotEager
<1>2. PivotGet(rows, those) = {r \in K : rows[r] > 0} \cap those
  BY DEF PivotGet
<1>3. \A r \in K : rows[r] \in Nat /\ (rows[r] > 0 /\ r \in those => r \in found) /\ (r \in found => r \in those)
  OBVIOUS
<1> HIDE DEF found, copies
<1>4. \A r \in K : (r \in found => copies[r] = rows[r]) /\ (r \notin found => copies[r] = 0)
  BY <1>1
<1>5. \A r \in K : copies[r] > 0 <=> rows[r] > 0 /\ r \in those
  BY <1>3, <1>4
<1>6. \A r \in K : copies[r] > 1 => rows[r] > 1
  BY <1>3, <1>4
<1>7. {r \in K : copies[r] > 0} = PivotGet(rows, those)
  BY <1>2, <1>5
<1> QED BY <1>6, <1>7 DEF copies

\* How many pivot rows of each kind point where.
LEMMA PivotsTyped ==
  ASSUME RelTypes
  PROVE  /\ \A p \in Parents : PivotRows(p) \in [Children -> Nat] /\ MorphPivotRows(p) \in [Children -> Nat]
         /\ \A c \in Children : InversePivotRows(c) \in [Parents -> Nat]
<1>1. \A p \in Parents, c \in Children : pivots[<<p, c, Here>>] \in Nat /\ pivots[<<p, c, Elsewhere>>] \in Nat
  <2> SUFFICES ASSUME NEW p \in Parents, NEW c \in Children
               PROVE  pivots[<<p, c, Here>>] \in Nat /\ pivots[<<p, c, Elsewhere>>] \in Nat
    OBVIOUS
  <2>1. <<p, c, Here>> \in Parents \X Children \X Types /\ <<p, c, Elsewhere>> \in Parents \X Children \X Types
    BY DEF Types
  <2> DEFINE K == Parents \X Children \X Types
             x == <<p, c, Here>>
             y == <<p, c, Elsewhere>>
  <2>2. pivots \in [K -> Nat] /\ x \in K /\ y \in K
    BY <2>1 DEF RelTypes
  <2>3. pivots[x] \in Nat /\ pivots[y] \in Nat
    <3> HIDE DEF K, x, y
    <3> QED BY <2>2
  <2> QED BY <2>3
<1>2. \A p \in Parents, c \in Children : pivots[<<p, c, Here>>] + pivots[<<p, c, Elsewhere>>] \in Nat
  BY <1>1
<1> QED BY <1>1, <1>2, ZenonT(30) DEF PivotRows, MorphPivotRows, InversePivotRows

LEMMA BatchesRight == RelationsInv => BatchesAgree
<1> SUFFICES ASSUME RelTypes, NEW ps \in SUBSET saved, NEW p \in ps
             PROVE  /\ Grouped(HasManyEager(ps), p) = HasManyGet(p)
                    /\ Grouped(MorphManyEager(ps), p) = MorphManyGet(p)
                    /\ ThroughEager(ps, p) = ThroughGet(p)
                    /\ \A RowsOf \in {[q \in Parents |-> PivotRows(q)], [q \in Parents |-> MorphPivotRows(q)]} :
                          LET copies == PivotEager(RowsOf[p], {RowsOf[q] : q \in ps}, LiveRows) IN
                          /\ {c \in Children : copies[c] > 0} = PivotGet(RowsOf[p], LiveRows)
                          /\ \A c \in Children : copies[c] > 1 => RowsOf[p][c] > 1
  BY DEF RelationsInv, BatchesAgree
<1>1. p \in Parents /\ ps \subseteq Parents
  BY DEF RelTypes
<1>2. Grouped(HasManyEager(ps), p) = HasManyGet(p)
  BY DEF Grouped, HasManyEager, HasManyGet
<1>3. Grouped(MorphManyEager(ps), p) = MorphManyGet(p)
  BY DEF Grouped, MorphManyEager, MorphManyGet
<1>4. ThroughEager(ps, p) = ThroughGet(p)
  <2>1. \A c : c \in HasManyGet(p) <=> c \in HasManyEager(ps) /\ child[c].owner = p
    BY DEF HasManyEager, HasManyGet
  <2> QED BY <2>1 DEF ThroughEager, ThroughGet
<1>5. ASSUME NEW RowsOf, \A q \in Parents : RowsOf[q] \in [Children -> Nat]
      PROVE  LET copies == PivotEager(RowsOf[p], {RowsOf[q] : q \in ps}, LiveRows) IN
             /\ {c \in Children : copies[c] > 0} = PivotGet(RowsOf[p], LiveRows)
             /\ \A c \in Children : copies[c] > 1 => RowsOf[p][c] > 1
  <2>1. RowsOf[p] \in [Children -> Nat] /\ DOMAIN RowsOf[p] = Children /\ RowsOf[p] \in {RowsOf[q] : q \in ps}
    BY <1>1, <1>5
  <2>2. PICK rows, all : rows = RowsOf[p] /\ all = {RowsOf[q] : q \in ps}
    OBVIOUS
  <2>3. rows \in [Children -> Nat] /\ DOMAIN rows = Children /\ rows \in all
    BY <2>1, <2>2
  <2>4. /\ {c \in Children : PivotEager(rows, all, LiveRows)[c] > 0} = PivotGet(rows, LiveRows)
        /\ \A c \in Children : PivotEager(rows, all, LiveRows)[c] > 1 => rows[c] > 1
    BY ONLY <2>3, PivotsAgree
  <2> QED BY <2>2, <2>4
<1>6. ASSUME NEW RowsOf \in {[q \in Parents |-> PivotRows(q)], [q \in Parents |-> MorphPivotRows(q)]}
      PROVE  \A q \in Parents : RowsOf[q] \in [Children -> Nat]
  BY PivotsTyped
<1> QED BY <1>2, <1>3, <1>4, <1>5, <1>6

LEMMA InversesRight == RelationsInv => InversesAgree
<1> SUFFICES ASSUME RelTypes, NEW cs \in SUBSET LiveRows, NEW c \in cs
             PROVE  /\ BelongsToEager(cs, c) = BelongsToGet(c)
                    /\ MorphToEager(cs, c) = MorphToGet(c)
                    /\ LET copies == PivotEager(InversePivotRows(c), {InversePivotRows(d) : d \in cs}, saved)
                       IN  {p \in Parents : copies[p] > 0} = PivotGet(InversePivotRows(c), saved)
  BY DEF RelationsInv, InversesAgree
<1>1. c \in Children /\ child[c] \in ChildRow
  BY DEF RelTypes, LiveRows, Live, IsRow
<1>2. BelongsToEager(cs, c) = BelongsToGet(c)
  BY DEF BelongsToEager, BelongsToGet
<1>3. MorphToEager(cs, c) = MorphToGet(c)
  <2> DEFINE Wanted(type) == {child[d].owner : d \in {e \in cs : child[e].type = type}}
             found == UNION {{type} \X (TableOf(type) \cap Wanted(type)) : type \in Types}
  <2>1. child[c].type \in Types
    BY <1>1 DEF ChildRow
  <2>2. child[c].owner \in Wanted(child[c].type)
    OBVIOUS
  <2>3. \A type, o : <<type, o>> \in found <=> type \in Types /\ o \in TableOf(type) /\ o \in Wanted(type)
    <3> HIDE DEF Wanted
    <3> QED OBVIOUS
  <2>4. <<child[c].type, child[c].owner>> \in found <=> child[c].owner \in TableOf(child[c].type)
    <3> HIDE DEF found, Wanted
    <3> QED BY <2>1, <2>2, <2>3
  <2>5. MorphToEager(cs, c) = IF <<child[c].type, child[c].owner>> \in found
                              THEN <<child[c].type, child[c].owner>> ELSE Null
    BY DEF MorphToEager
  <2> HIDE DEF found
  <2> QED BY <2>4, <2>5 DEF MorphToGet
<1>4. LET copies == PivotEager(InversePivotRows(c), {InversePivotRows(d) : d \in cs}, saved)
      IN  {p \in Parents : copies[p] > 0} = PivotGet(InversePivotRows(c), saved)
  <2>1. InversePivotRows(c) \in [Parents -> Nat] /\ DOMAIN InversePivotRows(c) = Parents
        /\ InversePivotRows(c) \in {InversePivotRows(d) : d \in cs}
    BY <1>1, PivotsTyped
  <2>2. PICK rows, all : rows = InversePivotRows(c) /\ all = {InversePivotRows(d) : d \in cs}
    OBVIOUS
  <2>3. rows \in [Parents -> Nat] /\ DOMAIN rows = Parents /\ rows \in all
    BY <2>1, <2>2
  <2>4. {q \in Parents : PivotEager(rows, all, saved)[q] > 0} = PivotGet(rows, saved)
    BY ONLY <2>3, PivotsAgree
  <2> QED BY <2>2, <2>4
<1> QED BY <1>2, <1>3, <1>4

\* The pivot rows one by one are at least as many as what they point at, and as many where
\* none is there twice.
LEMMA CopiesCount ==
  ASSUME NEW K, IsFiniteSet(K), NEW rows \in [K -> Nat], NEW present, NEW got,
         \A r \in got : r \in K /\ r \in present /\ rows[r] > 0
  PROVE  /\ PivotCount(rows, present) >= Cardinality(got)
         /\ (\A r \in K : rows[r] <= 1) /\ (\A r \in K : r \in present /\ rows[r] > 0 => r \in got)
               => PivotCount(rows, present) = Cardinality(got)
<1> DEFINE all == {one \in RowCopies(rows) : one[1] \in present}
           first == got \X {1}
<1>1. \A k : k \in RowCopies(rows) <=> \E r \in K : k \in {r} \X (1..rows[r])
  BY DEF RowCopies
<1>2. IsFiniteSet(RowCopies(rows))
  <2> DEFINE parts == {{r} \X (1..rows[r]) : r \in K}
  <2>1. IsFiniteSet(parts)
    <3> DEFINE f == [r \in K |-> {r} \X (1..rows[r])]
    <3>1. f \in Surjection(K, parts)
      <4>1. f \in [K -> parts]
        OBVIOUS
      <4>2. \A x \in parts : \E r \in K : f[r] = x
        OBVIOUS
      <4> HIDE DEF f, parts
      <4> QED BY <4>1, <4>2 DEF Surjection
    <3> HIDE DEF f, parts
    <3> QED BY <3>1, FS_Surjection
  <2>2. \A s \in parts : IsFiniteSet(s)
    <3> SUFFICES ASSUME NEW r \in K PROVE IsFiniteSet({r} \X (1..rows[r]))
      OBVIOUS
    <3>1. IsFiniteSet({r})
      BY FS_Singleton
    <3>2. IsFiniteSet(1..rows[r])
      <4>1. 1 \in Int /\ rows[r] \in Int
        OBVIOUS
      <4> QED BY <4>1, FS_Interval
    <3> QED BY <3>1, <3>2, FS_Product
  <2>3. RowCopies(rows) = UNION parts
    BY DEF RowCopies
  <2> HIDE DEF parts
  <2> QED BY <2>1, <2>2, <2>3, FS_UNION
<1>3. IsFiniteSet(all) /\ Cardinality(all) \in Nat
  <2>1. all \subseteq RowCopies(rows)
    OBVIOUS
  <2> HIDE DEF all
  <2> QED BY <1>2, <2>1, FS_Subset, FS_CardinalityType
<1>4. IsFiniteSet(got) /\ Cardinality(got) \in Nat
  <2>1. got \subseteq K
    OBVIOUS
  <2> QED BY <2>1, FS_Subset, FS_CardinalityType
<1>5. IsFiniteSet(first) /\ Cardinality(first) = Cardinality(got)
  <2>1. IsFiniteSet({1}) /\ Cardinality({1}) = 1
    BY FS_Singleton
  <2>2. IsFiniteSet(got \X {1}) /\ Cardinality(got \X {1}) = Cardinality(got) * Cardinality({1})
    BY <1>4, <2>1, FS_Product
  <2> QED BY <1>4, <2>1, <2>2
<1>6. first \subseteq all
  <2> SUFFICES ASSUME NEW r \in got PROVE <<r, 1>> \in all
    OBVIOUS
  <2>1. r \in K /\ 1 \in 1..rows[r]
    OBVIOUS
  <2>2. <<r, 1>> \in RowCopies(rows)
    BY <1>1, <2>1
  <2> QED BY <2>2
<1>7. PivotCount(rows, present) = Cardinality(all)
  BY DEF PivotCount
<1>8. PivotCount(rows, present) >= Cardinality(got)
  <2> HIDE DEF all, first
  <2>1. Cardinality(first) <= Cardinality(all)
    BY <1>3, <1>6, FS_Subset
  <2> QED BY <1>3, <1>4, <1>5, <1>7, <2>1
<1>9. ASSUME \A r \in K : rows[r] <= 1, \A r \in K : r \in present /\ rows[r] > 0 => r \in got
      PROVE  PivotCount(rows, present) = Cardinality(got)
  <2>1. all \subseteq first
    <3> SUFFICES ASSUME NEW k \in all PROVE k \in first
      OBVIOUS
    <3>1. PICK r \in K : k \in {r} \X (1..rows[r])
      BY <1>1
    <3>2. k[1] = r /\ k[2] \in 1..rows[r] /\ k = <<k[1], k[2]>> /\ r \in present
      BY <3>1
    <3>3. rows[r] \in Nat /\ rows[r] <= 1
      BY <1>9
    <3>4. k[2] = 1 /\ rows[r] > 0
      BY <3>2, <3>3
    <3>5. r \in got
      BY <1>9, <3>2, <3>4
    <3> QED BY <3>2, <3>4, <3>5
  <2>2. all = first
    <3> HIDE DEF all, first
    <3> QED BY <1>6, <2>1
  <2> HIDE DEF all, first
  <2> QED BY <1>5, <1>7, <2>2
<1> QED BY <1>8, <1>9

LEMMA CountsRight == RelationsInv => CountsAgree
<1> SUFFICES ASSUME RelTypes, NEW p \in saved
             PROVE  /\ HasManyGet(p) = Correlated(p) \cap LiveRows
                    /\ MorphManyGet(p) = MorphCorrelated(p) \cap LiveRows
                    /\ ThroughGet(p) \subseteq ThroughCorrelated(p)
                    /\ Kept = LiveRows => ThroughGet(p) = ThroughCorrelated(p)
                    /\ \A rows \in {PivotRows(p), MorphPivotRows(p)} :
                          LET got == PivotGet(rows, LiveRows) IN
                          /\ got # {} => PivotExists(rows)
                          /\ PivotCount(rows, Kept) >= Cardinality(got)
                          /\ Kept = LiveRows /\ (\A c \in Children : rows[c] <= 1)
                                 => PivotCount(rows, Kept) = Cardinality(got)
  BY DEF RelationsInv, CountsAgree
<1>1. p \in Parents
  BY DEF RelTypes
<1>2. HasManyGet(p) = Correlated(p) \cap LiveRows
  BY DEF HasManyGet, Correlated, LiveRows, Live
<1>3. MorphManyGet(p) = MorphCorrelated(p) \cap LiveRows
  BY DEF MorphManyGet, MorphCorrelated, Correlated, LiveRows, Live
<1>4. ThroughGet(p) \subseteq ThroughCorrelated(p)
  BY <1>2 DEF ThroughGet, ThroughCorrelated
<1>5. Kept = LiveRows => ThroughGet(p) = ThroughCorrelated(p)
  <2>1. Correlated(p) \subseteq Kept
    BY DEF Correlated, Kept
  <2> QED BY <1>2, <2>1 DEF ThroughGet, ThroughCorrelated
<1>6. ASSUME NEW rows \in {PivotRows(p), MorphPivotRows(p)}
      PROVE  LET got == PivotGet(rows, LiveRows) IN
             /\ got # {} => PivotExists(rows)
             /\ PivotCount(rows, Kept) >= Cardinality(got)
             /\ Kept = LiveRows /\ (\A c \in Children : rows[c] <= 1)
                    => PivotCount(rows, Kept) = Cardinality(got)
  <2> DEFINE got == PivotGet(rows, LiveRows)
  <2>1. rows \in [Children -> Nat] /\ DOMAIN rows = Children
    BY <1>1, PivotsTyped
  <2>2. got = {r \in Children : rows[r] > 0} \cap LiveRows
    BY <2>1 DEF PivotGet
  <2>3. LiveRows \subseteq Kept
    BY DEF LiveRows, Kept, Live
  <2> HIDE DEF got
  <2>4. got # {} => PivotExists(rows)
    BY <2>1, <2>2 DEF PivotExists
  <2>5. \A r \in got : r \in Children /\ r \in Kept /\ rows[r] > 0
    BY <2>2, <2>3
  <2>6. IsFiniteSet(Children)
    BY RelationsAssumption
  <2>7. PivotCount(rows, Kept) >= Cardinality(got)
    BY <2>1, <2>5, <2>6, CopiesCount
  <2>8. Kept = LiveRows => \A r \in Children : r \in Kept /\ rows[r] > 0 => r \in got
    BY <2>2
  <2>9. ASSUME Kept = LiveRows, \A c \in Children : rows[c] <= 1
        PROVE  PivotCount(rows, Kept) = Cardinality(got)
    BY <2>1, <2>5, <2>6, <2>8, <2>9, CopiesCount
  <2> QED BY <2>4, <2>7, <2>9 DEF got
<1> QED BY <1>2, <1>3, <1>4, <1>5, <1>6

\* Then however a relation is resolved, it relates the same rows.
LEMMA RelationsKeep == RelationsInv => RelationsAgree
BY BatchesRight, InversesRight, CountsRight, TreesRight DEF RelationsAgree

-----------------------------------------------------------------------------
(* A query two tasks hold (Query.tla)                                       *)

\* What the clauses select, one joined to those before it.
JoinedBy(f, clauses, line) ==
    /\ f[0] = TRUE /\ Selects(clauses, line) = f[Len(clauses)]
    /\ 1 <= Len(clauses) => f[1] = Fits(clauses[1], line)
    /\ \A i \in 2..Len(clauses) :
          /\ clauses[i].or => f[i] = (f[i - 1] \/ Fits(clauses[i], line))
          /\ ~clauses[i].or => f[i] = (f[i - 1] /\ Fits(clauses[i], line))

LEMMA FitsOrNot == \A clause \in Clause, line \in TableRow : Fits(clause, line) \in BOOLEAN
  BY DEF Clause, Conditions, TableRow, Fits

LEMMA SelectsBy ==
  \A clauses \in Seq(Clause), line \in TableRow :
     \E f : (\A i \in 0..Len(clauses) : f[i] \in BOOLEAN) /\ JoinedBy(f, clauses, line)
<1> SUFFICES ASSUME NEW clauses \in Seq(Clause), NEW line \in TableRow
             PROVE  \E f : /\ \A i \in 0..Len(clauses) : f[i] \in BOOLEAN
                           /\ JoinedBy(f, clauses, line)
  OBVIOUS
<1> DEFINE n == Len(clauses)
           fit(i) == Fits(clauses[i], line)
           next(i, b) == IF i <= 1 THEN i = 0 \/ fit(1)
                         ELSE IF clauses[i].or THEN b \/ fit(i) ELSE b /\ fit(i)
           G == [i \in 1..n |-> [b \in BOOLEAN |-> next(i, b)]]
           Body(f) == [i \in 0..n |-> next(i, f[i - 1])]
           h == CHOOSE f : f = Body(f)
<1>1. n \in Nat /\ \A i \in 1..n : clauses[i] \in Clause /\ fit(i) \in BOOLEAN
  BY FitsOrNot
<1>2. /\ 0 \in 0..n /\ n \in 0..n /\ \A i \in 0..n : i = 0 \/ i \in 1..n
      /\ \A i \in 1..n : i - 1 \in 0..n /\ i \in 0..n /\ i # 0
  BY <1>1
<1>3. \A i \in 1..n, b \in BOOLEAN : next(i, b) \in BOOLEAN
  <2> SUFFICES ASSUME NEW i \in 1..n, NEW b \in BOOLEAN PROVE next(i, b) \in BOOLEAN
    OBVIOUS
  <2>1. fit(i) \in BOOLEAN /\ fit(1) \in BOOLEAN
    <3>1. 1 \in 1..n
      BY <1>1
    <3> QED BY <1>1, <3>1
  <2> HIDE DEF fit
  <2> QED BY <2>1
<1>4. G \in [1..n -> [BOOLEAN -> BOOLEAN]]
  <2> HIDE DEF next, n
  <2> QED BY <1>3
<1>5. PICK f : f \in [0..n -> BOOLEAN] /\ Unfolds(f, n, TRUE, G)
  <2> HIDE DEF n, G
  <2> QED BY <1>1, <1>4, StepByStep
<1>6. \A i \in 0..n : f[i] \in BOOLEAN
  <2> HIDE DEF n, G
  <2> QED BY ONLY <1>5, Zenon
<1>7. f[0] = TRUE /\ \A i \in 1..n : f[i] = G[i][f[i - 1]]
  <2> HIDE DEF n, G
  <2> QED BY ONLY <1>5, Zenon DEF Unfolds
<1>8. \A i \in 1..n : f[i] = next(i, f[i - 1])
  <2> SUFFICES ASSUME NEW i \in 1..n PROVE f[i] = next(i, f[i - 1])
    OBVIOUS
  <2>1. f[i - 1] \in BOOLEAN
    BY <1>2, <1>6
  <2>2. f[i] = G[i][f[i - 1]]
    BY <1>7
  <2> HIDE DEF next, n
  <2> QED BY <2>1, <2>2
<1>9. \A x : next(0, x) = TRUE
  OBVIOUS
<1>10. \A i \in 0..n : f[i] = next(i, f[i - 1])
  <2> HIDE DEF next, n
  <2> QED BY <1>2, <1>7, <1>8, <1>9
<1>11. f = Body(f)
  <2> HIDE DEF next, n, G
  <2>1. f = [i \in 0..n |-> f[i]]
    BY ONLY <1>5, Zenon
  <2> QED BY ONLY <2>1, <1>10, Zenon
<1>12. h = Body(h)
  <2> HIDE DEF Body
  <2> QED BY ONLY <1>11, Zenon
<1>s. Selects(clauses, line) = h[n]
  BY ONLY Zenon DEF Selects
<1>h. \A i \in 0..n : h[i] = next(i, h[i - 1])
  <2> HIDE DEF h, next, n
  <2> QED BY ONLY <1>12, Zenon
<1> HIDE DEF h
<1>t. Selects(clauses, line) = f[n]
  <2> HIDE DEF next
  <2> DEFINE P == {i \in 0..n : h[i] = f[i]}
  <2>1. 0 \in P
    BY <1>2, <1>7, <1>9, <1>h
  <2>2. ASSUME NEW i \in 1..n, i - 1 \in P PROVE i \in P
    BY <1>2, <1>8, <1>h, <2>2
  <2>3. \A i \in 0..n : i \in P
    <3> HIDE DEF P
    <3> QED BY <1>1, <2>1, <2>2, UpToAll
  <2> QED BY <1>2, <1>s, <2>3
<1>13. \A i \in 2..n : /\ clauses[i].or => f[i] = (f[i - 1] \/ fit(i))
                       /\ ~clauses[i].or => f[i] = (f[i - 1] /\ fit(i))
  <2> SUFFICES ASSUME NEW i \in 2..n
               PROVE  /\ clauses[i].or => f[i] = (f[i - 1] \/ fit(i))
                      /\ ~clauses[i].or => f[i] = (f[i - 1] /\ fit(i))
    OBVIOUS
  <2>1. i \in 1..n /\ ~(i <= 1)
    OBVIOUS
  <2>2. f[i] = IF clauses[i].or THEN f[i - 1] \/ fit(i) ELSE f[i - 1] /\ fit(i)
    <3> HIDE DEF fit
    <3> QED BY <1>8, <2>1
  <2> HIDE DEF fit
  <2> QED BY <2>2
<1>14. 1 <= n => f[1] = fit(1)
  <2> HIDE DEF fit
  <2> SUFFICES ASSUME 1 <= n PROVE f[1] = fit(1)
    OBVIOUS
  <2>1. 1 \in 1..n
    BY <1>1
  <2>2. f[1] = next(1, f[0])
    BY <1>8, <2>1
  <2>3. fit(1) \in BOOLEAN
    BY <1>1, <2>1
  <2> QED BY <2>2, <2>3
<1> QED BY <1>6, <1>7, <1>t, <1>13, <1>14 DEF JoinedBy

\* Without a later or_where, all of them are joined by AND.
LEMMA SelectsAll ==
  \A clauses \in Seq(Clause), line \in TableRow :
     ~OrFrom(clauses, 2) =>
        (Selects(clauses, line) <=> \A i \in 1..Len(clauses) : Fits(clauses[i], line))
<1> SUFFICES ASSUME NEW clauses \in Seq(Clause), NEW line \in TableRow, ~OrFrom(clauses, 2)
             PROVE  Selects(clauses, line) <=> \A i \in 1..Len(clauses) : Fits(clauses[i], line)
  OBVIOUS
<1> DEFINE n == Len(clauses)
           fit(i) == Fits(clauses[i], line)
<1>1. PICK f : (\A i \in 0..n : f[i] \in BOOLEAN) /\ JoinedBy(f, clauses, line)
  BY SelectsBy
<1>2. n \in Nat /\ \A i \in 1..n : fit(i) \in BOOLEAN
  BY FitsOrNot
<1>3. \A i \in 2..n : f[i] = (f[i - 1] /\ fit(i))
  BY <1>1 DEF JoinedBy, OrFrom
<1>4. 1 <= n => f[1] = fit(1)
  BY <1>1 DEF JoinedBy
<1>5. f[0] = TRUE /\ Selects(clauses, line) = f[n]
  BY <1>1 DEF JoinedBy
<1> HIDE DEF n, fit
<1> DEFINE P == {i \in 0..n : f[i] <=> \A j \in 1..i : fit(j)}
<1>6. 0 \in P
  BY <1>2, <1>5
<1>7. ASSUME NEW i \in 1..n, i - 1 \in P PROVE i \in P
  <2>1. f[i] = (f[i - 1] /\ fit(i))
    <3>1. CASE i = 1
      BY <1>2, <1>4, <1>5, <3>1
    <3>2. CASE i # 1
      BY <1>3, <3>2
    <3> QED BY <3>1, <3>2
  <2>2. (\A j \in 1..i : fit(j)) <=> (\A j \in 1..(i - 1) : fit(j)) /\ fit(i)
    <3>1. \A j : j \in 1..i <=> j \in 1..(i - 1) \/ j = i
      BY <1>2
    <3> QED BY <3>1
  <2>3. i \in 0..n
    BY <1>2
  <2> QED BY <1>7, <2>1, <2>2, <2>3
<1>8. \A i \in 0..n : i \in P
  <2> HIDE DEF P
  <2> QED BY <1>2, <1>6, <1>7, UpToAll
<1>9. n \in P
  <2>1. n \in 0..n
    BY <1>2
  <2> QED BY <1>8, <2>1
<1> QED BY <1>5, <1>9 DEF n, fit

\* And a clause for the owner's rows holds unless a later or_where opens it.
LEMMA SelectsOwn ==
  \A clauses \in Seq(Clause), line \in TableRow : \A k \in 1..Len(clauses) :
     /\ clauses[k].is = "owner" /\ ~clauses[k].or /\ ~OrFrom(clauses, k + 1)
     /\ Selects(clauses, line)
     => line.own
<1> SUFFICES ASSUME NEW clauses \in Seq(Clause), NEW line \in TableRow,
                    NEW k \in 1..Len(clauses), clauses[k].is = "owner", ~clauses[k].or,
                    ~OrFrom(clauses, k + 1), ~line.own
             PROVE  ~Selects(clauses, line)
  OBVIOUS
<1> DEFINE n == Len(clauses)
           fit(i) == Fits(clauses[i], line)
<1>1. PICK f : (\A i \in 0..n : f[i] \in BOOLEAN) /\ JoinedBy(f, clauses, line)
  BY SelectsBy
<1>2. n \in Nat /\ fit(k) = FALSE
  BY DEF Fits, TableRow
<1>3. f[k] = FALSE
  <2>1. CASE k = 1
    BY <1>1, <1>2, <2>1 DEF JoinedBy
  <2>2. CASE k # 1
    <3>1. k \in 2..n
      BY <2>2
    <3>2. f[k] = (f[k - 1] /\ fit(k))
      BY <1>1, <3>1 DEF JoinedBy
    <3> QED BY <1>2, <3>2
  <2> QED BY <2>1, <2>2
<1>4. \A i \in k + 1..n : f[i] = (f[i - 1] /\ fit(i))
  BY <1>1 DEF JoinedBy, OrFrom
<1>5. Selects(clauses, line) = f[n]
  BY <1>1 DEF JoinedBy
<1> HIDE DEF n, fit
<1> DEFINE P == {i \in 0..n : i >= k => f[i] = FALSE}
<1>6. k \in 1..n
  BY DEF n
<1>7. 0 \in P
  BY <1>2, <1>6
<1>8. ASSUME NEW i \in 1..n, i - 1 \in P PROVE i \in P
  <2>1. i \in 0..n
    BY <1>2
  <2>2. CASE i > k
    <3>1. i \in k + 1..n /\ i - 1 >= k
      BY <1>2, <1>6, <2>2
    <3> QED BY <1>4, <1>8, <2>1, <3>1
  <2>3. CASE ~(i > k)
    <3>1. i >= k => i = k
      BY <1>6, <2>3
    <3> QED BY <1>3, <2>1, <3>1
  <2> QED BY <2>2, <2>3
<1>9. \A i \in 0..n : i \in P
  <2> HIDE DEF P
  <2> QED BY <1>2, <1>7, <1>8, UpToAll
<1>10. n \in P /\ n >= k
  <2>1. n \in 0..n /\ n >= k
    BY <1>2, <1>6
  <2> QED BY <1>9, <2>1
<1> QED BY <1>5, <1>10

-----------------------------------------------------------------------------
\* Clauses for the owner's rows are joined by AND, and one is there when it is due.
OwnersJoined(clauses) ==
    \A i \in 1..Len(clauses) : clauses[i].is = "owner" => ~clauses[i].or
HasOwner(clauses) == \E i \in 1..Len(clauses) : clauses[i].is = "owner"

FoundBy == [rows : SUBSET TableRow, wheres : Seq(Clause), kind : {"read", "write", "first"},
            early : BOOLEAN]
RightAnswer(n) ==
    /\ n \in FoundBy /\ n.rows = RowsBy(n.wheres) /\ OwnersJoined(n.wheres)
    /\ n.kind = "first" => Len(n.wheres) > 0 /\ n.wheres[Len(n.wheres)] = Where("owner")
    /\ through = "key" \/ (through = "pivot" /\ n.kind # "write") =>
          HasOwner(n.wheres) \/ lost \/ n.early

QueryInv ==
    /\ wheres \in Seq(Clause) /\ OwnersJoined(wheres)
    /\ prepared \in BOOLEAN /\ awaiting \subseteq Holders /\ lost \in BOOLEAN
    /\ through = "key" => HasOwner(wheres)
    /\ through = "pivot" /\ prepared => HasOwner(wheres) \/ awaiting # {} \/ lost
    /\ answer \in [Holders -> {NoRows} \cup FoundBy]
    /\ \A t \in Holders : answer[t] # NoRows => RightAnswer(answer[t])

LEMMA QueryBegins == QueryInit => QueryInv
<1> SUFFICES ASSUME QueryInit PROVE QueryInv
  OBVIOUS
<1>1. Where("live") \in Clause /\ Where("trashed") \in Clause /\ Where("owner") \in Clause
  BY DEF Where, Clause, Conditions
<1>2. wheres \in Seq(Clause) /\ OwnersJoined(wheres) /\ (through = "key" => HasOwner(wheres))
  <2> DEFINE a == CASE trash = "exclude" -> <<Where("live")>>
                    [] trash = "only" -> <<Where("trashed")>>
                    [] OTHER -> <<>>
             b == IF through = "key" THEN <<Where("owner")>> ELSE <<>>
  <2>1. a \in Seq(Clause) /\ Len(a) <= 1 /\ \A i \in 1..Len(a) : ~a[i].or
    BY <1>1 DEF Where
  <2>2. b \in Seq(Clause) /\ (\A i \in 1..Len(b) : ~b[i].or)
        /\ (through = "key" => Len(b) = 1 /\ b[1].is = "owner")
    BY <1>1 DEF Where
  <2>3. wheres = a \o b
    BY DEF QueryInit, BaseQuery
  <2> HIDE DEF a, b
  <2>4. wheres \in Seq(Clause) /\ Len(wheres) = Len(a) + Len(b) /\ Len(a) \in Nat /\ Len(b) \in Nat
        /\ \A i \in 1..(Len(a) + Len(b)) : wheres[i] = IF i <= Len(a) THEN a[i] ELSE b[i - Len(a)]
    BY <2>1, <2>2, <2>3
  <2>5. OwnersJoined(wheres)
    <3> SUFFICES ASSUME NEW i \in 1..(Len(a) + Len(b)) PROVE ~wheres[i].or
      BY <2>4 DEF OwnersJoined
    <3>1. CASE i <= Len(a)
      BY <2>1, <2>4, <3>1
    <3>2. CASE ~(i <= Len(a))
      <4>1. i - Len(a) \in 1..Len(b)
        BY <2>4, <3>2
      <4> QED BY <2>2, <2>4, <3>2, <4>1
    <3> QED BY <3>1, <3>2
  <2>6. ASSUME through = "key" PROVE HasOwner(wheres)
    <3>0. Len(b) = 1 /\ Len(a) \in Nat
      BY <2>2, <2>4, <2>6
    <3>1. Len(a) + 1 \in 1..(Len(a) + Len(b)) /\ (Len(a) + 1) - Len(a) = 1 /\ ~(Len(a) + 1 <= Len(a))
      BY ONLY <3>0
    <3>2. wheres[Len(a) + 1] = b[1]
      BY <2>4, <3>1
    <3> QED BY <2>2, <2>4, <2>6, <3>1, <3>2 DEF HasOwner
  <2> QED BY <2>4, <2>5, <2>6
<1>3. answer \in [Holders -> {NoRows} \cup FoundBy] /\ \A t \in Holders : answer[t] = NoRows
  BY DEF QueryInit
<1> QED BY <1>2, <1>3 DEF QueryInit, QueryInv

\* One more clause.
LEMMA OneMoreClause ==
  \A clauses \in Seq(Clause), c \in Clause :
     /\ Append(clauses, c) \in Seq(Clause) /\ Len(Append(clauses, c)) = Len(clauses) + 1
     /\ Append(clauses, c)[Len(clauses) + 1] = c
     /\ HasOwner(clauses) => HasOwner(Append(clauses, c))
     /\ c.is = "owner" => HasOwner(Append(clauses, c))
     /\ OwnersJoined(clauses) /\ (c.is = "owner" => ~c.or) => OwnersJoined(Append(clauses, c))
  BY DEF HasOwner, OwnersJoined

\* A statement that is right when it is executed.
LEMMA ExecutesRight ==
  ASSUME QueryInv, NEW t \in Holders, NEW clauses \in Seq(Clause),
         NEW kind \in {"read", "write", "first"}, OwnersJoined(clauses),
         kind = "first" => Len(clauses) > 0 /\ clauses[Len(clauses)] = Where("owner"),
         through = "key" \/ (through = "pivot" /\ kind # "write") =>
            HasOwner(clauses) \/ lost' \/ awaiting \ {t} # {},
         Execute(t, clauses, kind), lost => lost', UNCHANGED through
  PROVE  /\ answer' \in [Holders -> {NoRows} \cup FoundBy]
         /\ \A u \in Holders : answer'[u] # NoRows => RightAnswer(answer[u])'
<1> DEFINE n == [rows |-> RowsBy(clauses), wheres |-> clauses, kind |-> kind,
                 early |-> awaiting \ {t} # {}]
<1>1. n \in FoundBy
  BY DEF FoundBy, RowsBy
<1>2. answer' = [answer EXCEPT ![t] = n] /\ answer \in [Holders -> {NoRows} \cup FoundBy]
  BY DEF Execute, QueryInv
<1>3. /\ n.rows = RowsBy(n.wheres) /\ n.wheres = clauses /\ n.kind = kind
      /\ n.early = (awaiting \ {t} # {})
  OBVIOUS
<1> HIDE DEF n
<1>4. answer' \in [Holders -> {NoRows} \cup FoundBy]
  BY <1>1, <1>2
<1>5. answer'[t] = n /\ \A u \in Holders : u # t => answer'[u] = answer[u]
  BY <1>2
<1>6. RightAnswer(answer[t])'
  BY <1>1, <1>3, <1>5 DEF RightAnswer
<1>7. ASSUME NEW u \in Holders, u # t, answer'[u] # NoRows PROVE RightAnswer(answer[u])'
  BY <1>5, <1>7 DEF RightAnswer, QueryInv
<1> QED BY <1>4, <1>6, <1>7

LEMMA QueryNextInv == QueryInv /\ [QueryStep]_queryVars => QueryInv'
<1> SUFFICES ASSUME QueryInv, [QueryStep]_queryVars PROVE QueryInv'
  OBVIOUS
<1>1. CASE Chain
  <2>1. PICK c \in Clause : wheres' = Append(wheres, c) /\ c.is \in Conditions
    BY <1>1 DEF Chain, Clause
  <2>2. c.is # "owner"
    BY <2>1 DEF Conditions
  <2>3. wheres' \in Seq(Clause) /\ OwnersJoined(wheres') /\ (HasOwner(wheres) => HasOwner(wheres'))
    BY <2>1, <2>2, OneMoreClause DEF QueryInv
  <2>4. UNCHANGED <<through, prepared, awaiting, lost, answer>>
    BY <1>1 DEF Chain
  <2>5. \A t \in Holders : answer'[t] # NoRows => RightAnswer(answer[t])'
    BY <2>4 DEF QueryInv, RightAnswer
  <2> QED BY <2>3, <2>4, <2>5 DEF QueryInv
<1>2. ASSUME NEW t \in Holders, NEW kind \in {"read", "write"}, Terminal(t, kind)
      PROVE  QueryInv'
  <2>1. t \notin awaiting /\ UNCHANGED <<through, wheres, lost>>
    BY <1>2 DEF Terminal
  <2>2. CASE kind = "read" /\ through = "pivot" /\ ~prepared
    <3>1. prepared' = TRUE /\ awaiting' = awaiting \cup {t} /\ answer' = answer
      BY <1>2, <2>2 DEF Terminal
    <3>2. \A u \in Holders : answer'[u] # NoRows => RightAnswer(answer[u])'
      BY <2>1, <3>1 DEF QueryInv, RightAnswer
    <3> QED BY <2>1, <2>2, <3>1, <3>2 DEF QueryInv
  <2>3. CASE ~(kind = "read" /\ through = "pivot" /\ ~prepared)
    <3>1. Execute(t, wheres, kind) /\ UNCHANGED <<prepared, awaiting>>
      BY <1>2, <2>3 DEF Terminal
    <3>2. awaiting \ {t} = awaiting
      BY <2>1
    <3>3. through = "key" \/ (through = "pivot" /\ kind # "write") =>
             HasOwner(wheres) \/ lost' \/ awaiting \ {t} # {}
      BY <2>1, <2>3, <3>2 DEF QueryInv
    <3>4. OwnersJoined(wheres) /\ wheres \in Seq(Clause) /\ kind \in {"read", "write", "first"}
          /\ kind # "first"
      BY DEF QueryInv
    <3>5. /\ answer' \in [Holders -> {NoRows} \cup FoundBy]
          /\ \A u \in Holders : answer'[u] # NoRows => RightAnswer(answer[u])'
      BY <2>1, <3>1, <3>3, <3>4, ExecutesRight
    <3> QED BY <2>1, <3>1, <3>5 DEF QueryInv
  <2> QED BY <2>2, <2>3
<1>3. ASSUME NEW t \in Holders, Prepare(t) PROVE QueryInv'
  <2>1. t \in awaiting /\ awaiting' = awaiting \ {t} /\ UNCHANGED <<through, prepared>>
    BY <1>3 DEF Prepare
  <2>2. CASE lost' = TRUE /\ UNCHANGED <<wheres, answer>>
    <3>1. \A u \in Holders : answer'[u] # NoRows => RightAnswer(answer[u])'
      BY <2>1, <2>2 DEF QueryInv, RightAnswer
    <3> QED BY <2>1, <2>2, <3>1 DEF QueryInv
  <2>3. CASE wheres' = WithIds(wheres) /\ Execute(t, WithIds(wheres), "first") /\ UNCHANGED lost
    <3>1. Where("owner") \in Clause /\ Where("owner").is = "owner" /\ Where("owner").or = FALSE
      BY DEF Where, Clause, Conditions
    <3> DEFINE w == WithIds(wheres)
    <3>2. /\ w \in Seq(Clause) /\ OwnersJoined(w) /\ HasOwner(w)
          /\ Len(w) = Len(wheres) + 1 /\ w[Len(wheres) + 1] = Where("owner") /\ Len(wheres) \in Nat
      BY <3>1, OneMoreClause DEF WithIds, QueryInv
    <3>3. PICK v : v = w
      OBVIOUS
    <3>4. wheres' = v /\ Execute(t, v, "first") /\ lost' = lost
      BY <2>3, <3>3
    <3>5. /\ v \in Seq(Clause) /\ OwnersJoined(v) /\ HasOwner(v) /\ Len(v) > 0
          /\ v[Len(v)] = Where("owner")
      BY <3>2, <3>3
    <3>6. /\ answer' \in [Holders -> {NoRows} \cup FoundBy]
          /\ \A u \in Holders : answer'[u] # NoRows => RightAnswer(answer[u])'
      BY <2>1, <3>4, <3>5, ExecutesRight
    <3> QED BY <2>1, <3>4, <3>5, <3>6 DEF QueryInv
  <2> QED BY <1>3, <2>2, <2>3 DEF Prepare
<1>4. CASE UNCHANGED queryVars
  <2>1. \A t \in Holders : answer'[t] # NoRows => RightAnswer(answer[t])'
    BY <1>4 DEF QueryInv, RightAnswer, queryVars
  <2> QED BY <1>4, <2>1 DEF QueryInv, queryVars
<1>5. CASE QueryStep
  BY <1>1, <1>2, <1>3, <1>5 DEF QueryStep
<1> QED BY <1>4, <1>5

\* Then every statement is scoped.
LEMMA QueryKeeps == QueryInv => QueryScoped
<1> SUFFICES ASSUME QueryInv, NEW t \in Holders, answer[t] # NoRows
             PROVE  LET n == answer[t]
                        owner == {i \in 1..Len(n.wheres) : n.wheres[i].is = "owner"}
                    IN  /\ OrFrom(n.wheres, 2) \/ n.rows = {line \in TableRow : \A i \in DOMAIN n.wheres :
                                                                Fits(n.wheres[i], line)}
                        /\ \A i \in owner : OrFrom(n.wheres, i + 1) \/ \A line \in n.rows : line.own
                        /\ n.kind = "first" => \A line \in n.rows : line.own
                        /\ through = "key" \/ (through = "pivot" /\ n.kind # "write") =>
                              owner # {} \/ lost \/ n.early
  BY DEF QueryScoped
<1> DEFINE n == answer[t]
           w == n.wheres
<1>1. RightAnswer(n) /\ w \in Seq(Clause) /\ n.rows = {line \in TableRow : Selects(w, line)}
      /\ OwnersJoined(w)
  BY DEF QueryInv, RightAnswer, FoundBy, RowsBy
<1>2. DOMAIN w = 1..Len(w) /\ Len(w) \in Nat
  BY <1>1
<1>3. OrFrom(w, 2) \/ n.rows = {line \in TableRow : \A i \in DOMAIN w : Fits(w[i], line)}
  BY <1>1, <1>2, SelectsAll
<1>4. ASSUME NEW i \in 1..Len(w), w[i].is = "owner", ~OrFrom(w, i + 1)
      PROVE  \A line \in n.rows : line.own
  <2>1. ~w[i].or
    BY <1>1, <1>4 DEF OwnersJoined
  <2> QED BY <1>1, <1>4, <2>1, SelectsOwn
<1>5. n.kind = "first" => \A line \in n.rows : line.own
  <2> SUFFICES ASSUME n.kind = "first" PROVE \A line \in n.rows : line.own
    OBVIOUS
  <2>1. Len(w) > 0 /\ w[Len(w)] = Where("owner")
    BY <1>1 DEF RightAnswer
  <2>2. Len(w) \in 1..Len(w) /\ w[Len(w)].is = "owner"
    BY <1>2, <2>1 DEF Where
  <2>3. ~OrFrom(w, Len(w) + 1)
    BY <1>2 DEF OrFrom
  <2> QED BY <1>4, <2>2, <2>3
<1>6. through = "key" \/ (through = "pivot" /\ n.kind # "write") =>
         HasOwner(w) \/ lost \/ n.early
  BY <1>1 DEF RightAnswer
<1>7. HasOwner(w) => {i \in 1..Len(w) : w[i].is = "owner"} # {}
  BY DEF HasOwner
<1> QED BY <1>3, <1>4, <1>5, <1>6, <1>7

-----------------------------------------------------------------------------
(* A walk over a table that changes (Query.tla)                             *)

\* Of some keys there is a first and a last one, which Max is.
LEMMA GreatestOfAll ==
  \A n \in Nat : \A S \in SUBSET (1..n) : S # {} =>
     Max(S) \in S /\ \A y \in S : y <= Max(S)
<1> SUFFICES ASSUME NEW n \in Nat, NEW S \in SUBSET (1..n), S # {}
             PROVE  Max(S) \in S /\ \A y \in S : y <= Max(S)
  OBVIOUS
<1> DEFINE D == {n - y : y \in S}
<1>1. D \subseteq Nat /\ D # {}
  <2>1. \A y \in S : y \in 1..n
    OBVIOUS
  <2>2. \A y \in S : n - y \in Nat
    BY <2>1
  <2> QED BY <2>2
<1>2. PICK d \in D : \A e \in D : d <= e
  <2> HIDE DEF D
  <2> QED BY <1>1, LeastOfAll
<1>3. PICK x \in S : d = n - x
  OBVIOUS
<1>4. \A y \in S : x >= y
  <2> SUFFICES ASSUME NEW y \in S PROVE x >= y
    OBVIOUS
  <2>1. n - x <= n - y
    BY <1>2, <1>3
  <2> QED BY <2>1
<1>5. Max(S) \in S /\ \A y \in S : Max(S) >= y
  BY <1>4 DEF Max
<1> QED BY <1>5

LEMMA KeysFinite == \A S \in SUBSET Keys : IsFiniteSet(S) /\ Cardinality(S) \in Nat
<1>1. IsFiniteSet(Keys)
  BY FS_Interval, WalkAssumption DEF Keys
<1> QED BY <1>1, FS_Subset, FS_CardinalityType

LEMMA Fewer == \A S, T \in SUBSET Keys : S \subseteq T => Cardinality(S) <= Cardinality(T)
  BY KeysFinite, FS_Subset

LEMMA OneMoreKey ==
  \A S \in SUBSET Keys : \A k \in Keys \ S : Cardinality(S \cup {k}) = Cardinality(S) + 1
  BY KeysFinite, FS_AddElement

\* The keys of a page: the first ones of those that remain, as many as fit; all that remain
\* when they are fewer.
PageOf(rest) == {k \in rest : Rank(k, rest) <= Size}

LEMMA FirstOnes ==
  \A rest \in SUBSET Keys :
     /\ Cardinality(PageOf(rest)) <= Size
     /\ Cardinality(PageOf(rest)) < Size => PageOf(rest) = rest
     /\ \A k \in PageOf(rest), j \in rest : j <= k => j \in PageOf(rest)
     /\ PageOf(rest) = {} => rest = {}
<1> SUFFICES ASSUME NEW rest \in SUBSET Keys
             PROVE  /\ Cardinality(PageOf(rest)) <= Size
                    /\ Cardinality(PageOf(rest)) < Size => PageOf(rest) = rest
                    /\ \A k \in PageOf(rest), j \in rest : j <= k => j \in PageOf(rest)
                    /\ PageOf(rest) = {} => rest = {}
  OBVIOUS
<1> DEFINE P == PageOf(rest)
           upto(k) == {j \in rest : j <= k}
<1>1. /\ P \subseteq rest /\ P \in SUBSET Keys /\ Keys \subseteq Nat /\ Size \in Nat \ {0}
      /\ \A k : upto(k) \in SUBSET Keys
      /\ \A k \in rest : k \in P <=> Cardinality(upto(k)) <= Size
  <2>1. Size \in Nat \ {0}
    BY WalkAssumption
  <2>2. Keys \subseteq Nat
    BY DEF Keys
  <2>3. P \subseteq rest /\ \A k \in rest : k \in P <=> Cardinality(upto(k)) <= Size
    BY DEF PageOf, Rank
  <2>4. rest \subseteq Keys
    OBVIOUS
  <2>5. \A k : upto(k) \in SUBSET Keys
    BY <2>4
  <2> HIDE DEF upto, P
  <2> QED BY <2>1, <2>2, <2>3, <2>4, <2>5
<1>2. \A k : Cardinality(upto(k)) \in Nat
  <2> HIDE DEF upto
  <2> QED BY <1>1, KeysFinite
<1>3. Cardinality(P) \in Nat
  BY <1>1, KeysFinite
<1>4. \A k \in P, j \in rest : j <= k => j \in P
  <2> SUFFICES ASSUME NEW k \in P, NEW j \in rest, j <= k PROVE j \in P
    OBVIOUS
  <2>1. upto(j) \subseteq upto(k)
    <3> SUFFICES ASSUME NEW i \in rest, i <= j PROVE i <= k
      OBVIOUS
    <3>1. i \in Nat /\ j \in Nat /\ k \in Nat
      <4> HIDE DEF P, upto
      <4> QED BY <1>1
    <3> QED BY <3>1
  <2>2. Cardinality(upto(j)) <= Cardinality(upto(k))
    <3> HIDE DEF upto
    <3> QED BY <1>1, <2>1, Fewer
  <2> HIDE DEF upto, P
  <2> QED BY <1>1, <1>2, <2>2
<1>5. Cardinality(P) <= Size
  <2>1. CASE P = {}
    BY <1>1, <2>1, FS_EmptySet
  <2>2. CASE P # {}
    <3> DEFINE m == Max(P)
    <3>1. m \in P /\ \A y \in P : y <= m
      <4> HIDE DEF P
      <4> QED BY <1>1, <2>2, GreatestOfAll, WalkAssumption DEF Keys
    <3> HIDE DEF m
    <3>2. P \subseteq upto(m)
      BY <1>1, <3>1
    <3>3. Cardinality(P) <= Cardinality(upto(m))
      <4> HIDE DEF P, upto
      <4> QED BY <1>1, <3>2, Fewer
    <3> HIDE DEF upto, P
    <3> QED BY <1>1, <1>2, <1>3, <3>1, <3>3
  <2> QED BY <2>1, <2>2
<1>6. ASSUME P # rest PROVE Size <= Cardinality(P)
  <2> DEFINE D == rest \ P
  <2>1. PICK x \in D : \A y \in D : x <= y
    <3>1. D # {} /\ D \subseteq Nat
      BY <1>1, <1>6
    <3> HIDE DEF D
    <3> QED BY <3>1, LeastOfAll
  <2>2. upto(x) \subseteq P \cup {x}
    <3> SUFFICES ASSUME NEW j \in rest, j <= x, j # x PROVE j \in P
      OBVIOUS
    <3>1. j \in Nat /\ x \in Nat
      BY <1>1
    <3> QED BY <2>1, <3>1
  <2>3. x \in Keys /\ x \notin P /\ P \cup {x} \in SUBSET Keys
    BY <1>1
  <2>4. Cardinality(P \cup {x}) = Cardinality(P) + 1
    <3> HIDE DEF P
    <3> QED BY <1>1, <2>3, OneMoreKey
  <2>5. Cardinality(upto(x)) <= Cardinality(P) + 1
    <3>1. upto(x) \in SUBSET Keys
      BY <1>1
    <3> HIDE DEF P, upto
    <3> QED BY <2>2, <2>3, <2>4, <3>1, Fewer
  <2>6. ~(Cardinality(upto(x)) <= Size)
    BY <1>1, <2>3
  <2> HIDE DEF P, upto
  <2> QED BY <1>1, <1>2, <1>3, <2>5, <2>6
<1>7. P = {} => rest = {}
  <2> SUFFICES ASSUME P = {}, rest # {} PROVE FALSE
    OBVIOUS
  <2>1. Cardinality(P) = 0
    BY FS_EmptySet
  <2> QED BY <1>1, <1>6, <2>1
<1>8. Cardinality(P) < Size => P = rest
  <2> HIDE DEF P
  <2> QED BY <1>1, <1>3, <1>6
<1> QED BY <1>4, <1>5, <1>7, <1>8

-----------------------------------------------------------------------------
Once == {k \in Keys : visited[k] = 1}
FirstOf(keys, set) == keys \subseteq set /\ \A k \in keys, j \in set : j <= k => j \in keys

\* A walk by id: every key that was handed over lies before its position or is on the page,
\* and of those that were there all along, all that lie before.
ById ==
    /\ \A k \in Keys : visited[k] = 1 => k <= position \/ k \in page
    /\ \A k \in page : k > position /\ visited[k] = 1
    /\ walk = "callback" => page # {}
    /\ walk \in {"fetch", "callback"} => \A k \in steady : k <= position => visited[k] = 1
    /\ walk = "callback" => \A k \in steady :
          k > position /\ ((\E m \in page : k <= m) \/ Cardinality(page) < Size) => k \in page
    /\ walk = "complete" => \A k \in steady : visited[k] = 1

\* A walk by offset, of a table at rest: the first so many keys were handed over.
ByOffset ==
    /\ steady = table /\ Once \subseteq table
    /\ walk = "fetch" => FirstOf(Once, table) /\ Cardinality(Once) = position
    /\ walk = "callback" =>
          /\ page \subseteq Once /\ FirstOf(Once, table)
          /\ Cardinality(Once \ page) = position
          /\ Cardinality(page) <= Size /\ (Cardinality(page) < Size => Once = table)
    /\ walk = "complete" => Once = table

WalkInv ==
    /\ WalkTypeOK /\ steady \subseteq table
    /\ walk # "callback" => page = {}
    /\ walk = "off" => position = 0 /\ visited = [k \in Keys |-> 0] /\ disturbed = FALSE
    /\ byId \/ ~disturbed => \A k \in Keys : visited[k] <= 1
    /\ byId => ById
    /\ ~byId /\ ~disturbed /\ walk # "off" => ByOffset

LEMMA WalkBegins == WalkInit => WalkInv
<1> SUFFICES ASSUME WalkInit PROVE WalkInv
  OBVIOUS
<1>1. /\ table = {} /\ walk = "off" /\ byId = TRUE /\ page = {} /\ position = 0
      /\ visited = [k \in Keys |-> 0] /\ steady = {} /\ disturbed = FALSE
  BY DEF WalkInit
<1>2. visited \in [Keys -> Nat] /\ \A k \in Keys : visited[k] = 0
  BY <1>1
<1>3. WalkTypeOK
  BY <1>1, <1>2 DEF WalkTypeOK
<1>4. ById
  BY <1>1, <1>2 DEF ById
<1> QED BY <1>1, <1>2, <1>3, <1>4 DEF WalkInv

LEMMA StartsRight == WalkInv /\ StartWalk => WalkInv'
<1> SUFFICES ASSUME WalkInv, StartWalk PROVE WalkInv'
  OBVIOUS
<1>1. /\ page = {} /\ page' = {} /\ position = 0 /\ position' = 0 /\ visited' = visited
      /\ visited = [k \in Keys |-> 0] /\ disturbed = FALSE /\ disturbed' = FALSE
      /\ walk' = "fetch" /\ byId' \in BOOLEAN /\ table' \in SUBSET Keys /\ steady' = table'
  BY DEF WalkInv, StartWalk
<1>2. Once' = {}
  BY <1>1 DEF Once
<1>3. Cardinality({}) = 0
  BY FS_EmptySet
<1>4. Keys \subseteq Nat /\ \A k \in Keys : k > 0
  BY DEF Keys
<1>5. WalkTypeOK'
  BY <1>1 DEF WalkTypeOK
<1>6. ById'
  BY <1>1, <1>4 DEF ById
<1>7. ByOffset'
  BY <1>1, <1>2, <1>3 DEF ByOffset, FirstOf
<1> QED BY <1>1, <1>4, <1>5, <1>6, <1>7 DEF WalkInv

LEMMA FetchesRight == WalkInv /\ FetchPage => WalkInv'
<1> SUFFICES ASSUME WalkInv, FetchPage PROVE WalkInv'
  OBVIOUS
<1>1. /\ walk = "fetch" /\ page = {} /\ page' = PageOf(Remaining)
      /\ walk' = IF page' = {} THEN "complete" ELSE "callback"
      /\ visited' = [k \in Keys |-> IF k \in page' THEN visited[k] + 1 ELSE visited[k]]
      /\ UNCHANGED <<table, byId, position, steady, disturbed>>
  BY DEF WalkInv, FetchPage, PageOf
<1>2. Remaining \in SUBSET Keys /\ Remaining \subseteq table /\ page' \subseteq Remaining
      /\ visited \in [Keys -> Nat] /\ Keys \subseteq Nat /\ position \in Nat /\ table \subseteq Keys
      /\ steady \subseteq table /\ byId \in BOOLEAN /\ disturbed \in BOOLEAN
  <2>1. /\ visited \in [Keys -> Nat] /\ position \in Nat /\ table \subseteq Keys
        /\ steady \subseteq table /\ byId \in BOOLEAN /\ disturbed \in BOOLEAN
    BY DEF WalkInv, WalkTypeOK
  <2>2. Remaining \subseteq table
    BY DEF Remaining
  <2>3. page' \subseteq Remaining
    BY <1>1 DEF PageOf
  <2>4. Keys \subseteq Nat
    BY DEF Keys
  <2> QED BY <2>1, <2>2, <2>3, <2>4
<1>3. /\ Cardinality(page') <= Size
      /\ Cardinality(page') < Size => page' = Remaining
      /\ \A k \in page', j \in Remaining : j <= k => j \in page'
      /\ page' = {} => Remaining = {}
  BY <1>1, <1>2, FirstOnes
<1>4. WalkTypeOK'
  <2>1. visited' \in [Keys -> Nat]
    BY <1>1, <1>2
  <2> QED BY <1>1, <1>2, <2>1 DEF WalkTypeOK
<1>5. ASSUME byId
      PROVE  ById' /\ \A k \in Keys : visited'[k] <= 1
  <2>1. ById /\ \A k \in Keys : visited[k] <= 1
    BY <1>5 DEF WalkInv
  <2>2. Remaining = {k \in table : k > position}
    BY <1>5 DEF Remaining
  <2>3. \A k \in page' : visited[k] = 0 /\ k > position
    <3> SUFFICES ASSUME NEW k \in page' PROVE visited[k] = 0 /\ k > position
      OBVIOUS
    <3>1. k > position /\ k \in Keys /\ k \in Nat
      BY <1>2, <2>2
    <3>2. visited[k] # 1 /\ visited[k] <= 1 /\ visited[k] \in Nat
      BY <1>1, <1>2, <2>1, <3>1 DEF ById
    <3> QED BY <3>1, <3>2
  <2>4. \A k \in Keys : visited'[k] <= 1
    BY <1>1, <1>2, <2>1, <2>3
  <2>5. \A k \in Keys : visited'[k] = 1 => k <= position \/ k \in page'
    BY <1>1, <2>1 DEF ById
  <2>6. \A k \in page' : k > position /\ visited'[k] = 1
    BY <1>1, <1>2, <2>3
  <2>7. \A k \in steady : k <= position => visited'[k] = 1
    <3> SUFFICES ASSUME NEW k \in steady, k <= position PROVE visited'[k] = 1
      OBVIOUS
    <3>1. k \in Keys /\ k \in Nat
      BY <1>2
    <3>2. visited[k] = 1
      BY <1>1, <2>1 DEF ById
    <3>3. k \notin page'
      BY <1>2, <2>3, <3>1
    <3> QED BY <1>1, <3>1, <3>2, <3>3
  <2>8. \A k \in steady :
           k > position /\ ((\E m \in page' : k <= m) \/ Cardinality(page') < Size) => k \in page'
    BY <1>2, <1>3, <2>2
  <2>9. page' = {} => \A k \in steady : visited'[k] = 1
    BY <1>2, <1>3, <2>2, <2>7
  <2>10. ById'
    BY <1>1, <2>5, <2>6, <2>7, <2>8, <2>9 DEF ById
  <2> QED BY <2>4, <2>10
<1>6. ASSUME ~byId, ~disturbed
      PROVE  ByOffset' /\ \A k \in Keys : visited'[k] <= 1
  <2>1. ByOffset /\ \A k \in Keys : visited[k] <= 1
    BY <1>1, <1>6 DEF WalkInv
  <2>2. FirstOf(Once, table) /\ Cardinality(Once) = position /\ steady = table
    BY <1>1, <2>1 DEF ByOffset
  <2> DEFINE upto(k) == {j \in table : j <= k}
  <2>3. Once \in SUBSET Keys /\ (\A k : upto(k) \in SUBSET Keys)
        /\ Remaining = {k \in table : Cardinality(upto(k)) > position}
    BY <1>2, <1>6 DEF Once, Remaining, Rank
  <2>4. Remaining = table \ Once
    <3>1. ASSUME NEW k \in Once PROVE k \notin Remaining
      <4>1. upto(k) \subseteq Once
        BY <2>2, <3>1 DEF FirstOf
      <4>2. Cardinality(upto(k)) <= Cardinality(Once) /\ Cardinality(upto(k)) \in Nat
        <5> HIDE DEF upto
        <5> QED BY <2>3, <4>1, Fewer, KeysFinite
      <4> HIDE DEF upto
      <4> QED BY <1>2, <2>2, <2>3, <4>2
    <3>2. ASSUME NEW k \in table \ Once PROVE k \in Remaining
      <4>1. Once \cup {k} \subseteq upto(k)
        <5> SUFFICES ASSUME NEW j \in Once PROVE j <= k /\ j \in table
          BY <1>2, <3>2
        <5>1. j \in Nat /\ k \in Nat /\ j \in table
          BY <1>2, <2>2, <2>3, <3>2 DEF FirstOf
        <5>2. ~(k <= j)
          BY <2>2, <3>2 DEF FirstOf
        <5> QED BY <5>1, <5>2
      <4>2. k \in Keys /\ Once \cup {k} \in SUBSET Keys
        BY <1>2, <2>3, <3>2
      <4>3. Cardinality(Once \cup {k}) = Cardinality(Once) + 1
        BY <2>3, <3>2, <4>2, OneMoreKey
      <4>4. Cardinality(Once \cup {k}) <= Cardinality(upto(k)) /\ Cardinality(upto(k)) \in Nat
        <5> HIDE DEF upto
        <5> QED BY <2>3, <4>1, <4>2, Fewer, KeysFinite
      <4> HIDE DEF upto
      <4> QED BY <1>2, <2>2, <2>3, <3>2, <4>3, <4>4
    <3> QED BY <2>2, <3>1, <3>2, <1>2
  <2>5. Once' = Once \cup page' /\ Once \cap page' = {}
    <3>1. page' \subseteq Keys /\ \A k \in page' : k \notin Once
      BY <1>2, <2>4
    <3>2. \A k \in Keys : visited[k] = 0 \/ visited[k] = 1
      BY <1>2, <2>1
    <3>3. \A k \in Keys : visited'[k] = 1 <=> k \in Once \/ k \in page'
      BY <1>1, <3>1, <3>2 DEF Once
    <3> QED BY <3>1, <3>3 DEF Once
  <2>6. \A k \in Keys : visited'[k] <= 1
    <3> SUFFICES ASSUME NEW k \in Keys PROVE visited'[k] <= 1
      OBVIOUS
    <3>1. CASE k \in page'
      <4>1. k \notin Once
        BY <2>5, <3>1
      <4>2. visited[k] = 0
        BY <1>2, <2>1, <4>1 DEF Once
      <4> QED BY <1>1, <3>1, <4>2
    <3>2. CASE k \notin page'
      BY <1>1, <2>1, <3>2
    <3> QED BY <3>1, <3>2
  <2>7. FirstOf(Once', table)
    <3>1. Once' \subseteq table
      BY <1>2, <2>2, <2>5 DEF FirstOf
    <3>2. ASSUME NEW k \in Once', NEW j \in table, j <= k PROVE j \in Once'
      <4>1. CASE k \in Once
        BY <2>2, <2>5, <3>2, <4>1 DEF FirstOf
      <4>2. CASE k \in page'
        BY <1>3, <2>4, <2>5, <3>2, <4>2
      <4> QED BY <2>5, <4>1, <4>2
    <3> QED BY <3>1, <3>2 DEF FirstOf
  <2>8. Once' \ page' = Once
    BY <2>5
  <2>9. Cardinality(page') < Size => Once' = table
    BY <1>3, <2>2, <2>4, <2>5 DEF FirstOf
  <2>10. page' = {} => Once' = table
    BY <1>3, <2>2, <2>4, <2>5 DEF FirstOf
  <2>11. ByOffset'
    BY <1>1, <1>3, <2>2, <2>5, <2>7, <2>8, <2>9, <2>10 DEF ByOffset, FirstOf
  <2> QED BY <2>6, <2>11
<1> QED BY <1>1, <1>2, <1>4, <1>5, <1>6 DEF WalkInv

LEMMA TurnsRight == WalkInv /\ (\E stop \in BOOLEAN : TurnPage(stop)) => WalkInv'
<1> SUFFICES ASSUME WalkInv, NEW stop \in BOOLEAN, TurnPage(stop) PROVE WalkInv'
  OBVIOUS
<1>1. /\ walk = "callback" /\ page' = {}
      /\ walk' = IF stop THEN "stopped" ELSE IF Cardinality(page) < Size THEN "complete" ELSE "fetch"
      /\ position' = IF byId THEN Max(page) ELSE position + Size
      /\ UNCHANGED <<table, byId, visited, steady, disturbed>>
  BY DEF TurnPage, NextPosition
<1>2. page \in SUBSET Keys /\ visited \in [Keys -> Nat] /\ Keys \subseteq Nat /\ position \in Nat
      /\ table \subseteq Keys /\ steady \subseteq table /\ Size \in Nat /\ Size > 0
  BY WalkAssumption DEF WalkInv, WalkTypeOK, Keys
<1>3. ASSUME byId PROVE ById' /\ position' \in Nat
  <2>1. ById
    BY <1>3 DEF WalkInv
  <2>2. page # {} /\ position' = Max(page)
    BY <1>1, <1>3, <2>1 DEF ById
  <2>3. position' \in page /\ \A k \in page : k <= position'
    BY <1>2, <2>2, GreatestOfAll, WalkAssumption DEF Keys
  <2>4. position' \in Nat /\ position' > position
    BY <1>2, <2>1, <2>3 DEF ById
  <2>5. \A k \in Keys : visited[k] = 1 => k <= position'
    <3> SUFFICES ASSUME NEW k \in Keys, visited[k] = 1 PROVE k <= position'
      OBVIOUS
    <3>1. k <= position \/ k \in page
      BY <2>1 DEF ById
    <3> QED BY <1>2, <2>3, <2>4, <3>1
  <2>6. \A k \in steady : k <= position' => visited[k] = 1
    <3> SUFFICES ASSUME NEW k \in steady, k <= position' PROVE visited[k] = 1
      OBVIOUS
    <3>1. CASE k <= position
      BY <1>1, <2>1, <3>1 DEF ById
    <3>2. CASE ~(k <= position)
      <4>1. k \in Nat /\ k > position
        BY <1>2, <3>2
      <4>2. k \in page
        BY <1>1, <2>1, <2>3, <4>1 DEF ById
      <4> QED BY <2>1, <4>2 DEF ById
    <3> QED BY <3>1, <3>2
  <2>7. Cardinality(page) < Size => \A k \in steady : visited[k] = 1
    <3> SUFFICES ASSUME Cardinality(page) < Size, NEW k \in steady PROVE visited[k] = 1
      OBVIOUS
    <3>1. CASE k <= position
      BY <1>1, <2>1, <3>1 DEF ById
    <3>2. CASE ~(k <= position)
      <4>1. k \in Nat /\ k > position
        BY <1>2, <3>2
      <4>2. k \in page
        BY <1>1, <2>1, <4>1 DEF ById
      <4> QED BY <2>1, <4>2 DEF ById
    <3> QED BY <3>1, <3>2
  <2>8. ById'
    BY <1>1, <2>5, <2>6, <2>7 DEF ById
  <2> QED BY <2>4, <2>8
<1>4. ASSUME ~byId PROVE position' \in Nat
  BY <1>1, <1>2, <1>4
<1>5. ASSUME ~byId, ~disturbed PROVE ByOffset'
  <2>1. ByOffset /\ position' = position + Size /\ Once' = Once
    BY <1>1, <1>5 DEF WalkInv, Once
  <2>2. /\ page \subseteq Once /\ FirstOf(Once, table) /\ Cardinality(Once \ page) = position
        /\ Cardinality(page) <= Size /\ (Cardinality(page) < Size => Once = table)
        /\ steady = table /\ Once \subseteq table
    BY <1>1, <2>1 DEF ByOffset
  <2>3. ASSUME ~(Cardinality(page) < Size) PROVE Cardinality(Once) = position + Size
    <3>1. Cardinality(page) = Size
      <4>1. Cardinality(page) \in Nat
        BY <1>2, KeysFinite
      <4> QED BY <1>2, <2>2, <2>3, <4>1
    <3>2. IsFiniteSet(Once)
      <4>1. Once \in SUBSET Keys
        BY DEF Once
      <4> QED BY <4>1, KeysFinite
    <3>3. Once \cap page = page
      BY <2>2
    <3>4. Cardinality(Once \ page) = Cardinality(Once) - Cardinality(Once \cap page)
      BY <3>2, FS_Difference
    <3>5. Cardinality(Once) \in Nat
      BY <3>2, FS_CardinalityType
    <3> QED BY <1>2, <2>2, <3>1, <3>3, <3>4, <3>5
  <2> QED BY <1>1, <2>1, <2>2, <2>3 DEF ByOffset
<1>6. WalkTypeOK'
  BY <1>1, <1>3, <1>4 DEF WalkInv, WalkTypeOK
<1> QED BY <1>1, <1>3, <1>5, <1>6 DEF WalkInv

LEMMA WalkNextInv == WalkInv /\ [WalkStep]_walkVars => WalkInv'
<1> SUFFICES ASSUME WalkInv, [WalkStep]_walkVars PROVE WalkInv'
  OBVIOUS
<1>1. ASSUME NEW k \in Keys, InsertOrDelete(k) PROVE WalkInv'
  <2>1. /\ walk \in {"fetch", "callback"} /\ steady' = steady \ {k} /\ disturbed' = TRUE
        /\ table' = IF k \in table THEN table \ {k} ELSE table \cup {k}
        /\ UNCHANGED <<walk, byId, page, position, visited>>
    BY <1>1 DEF InsertOrDelete
  <2>2. WalkTypeOK' /\ steady' \subseteq table'
    BY <2>1 DEF WalkInv, WalkTypeOK
  <2>3. byId => ById'
    BY <2>1 DEF WalkInv, ById
  <2> QED BY <2>1, <2>2, <2>3 DEF WalkInv
<1>2. CASE UNCHANGED walkVars
  <2>1. /\ WalkTypeOK => WalkTypeOK'
        /\ ById => ById'
        /\ ByOffset => ByOffset'
    BY <1>2 DEF walkVars, WalkTypeOK, ById, ByOffset, FirstOf, Once
  <2> QED BY <1>2, <2>1 DEF WalkInv, walkVars
<1>3. CASE WalkStep
  BY <1>1, <1>3, StartsRight, FetchesRight, TurnsRight DEF WalkStep
<1> QED BY <1>2, <1>3

\* Then a walk sees what it has to, once.
LEMMA WalkKeeps == WalkInv => WalkedOnce
  BY DEF WalkInv, WalkedOnce, ById, ByOffset, Once, WalkTypeOK

-----------------------------------------------------------------------------
(* Pages turned back and forth (Query.tla)                                  *)

Places == Nat \X Nat
Ahead(a, b, back) == IF back THEN Before(b, a) ELSE Before(a, b)

LEMMA PositionsPlaces == Position \subseteq Places /\ NoCursor \notin Position
<1>1. Scores \subseteq Nat /\ NoCursor \notin Scores \X Nat
  BY PagesAssumption
<1>2. TheIds \subseteq Nat
  BY DEF TheIds
<1>3. Position \subseteq Scores \X Nat
  BY <1>2 DEF Position
<1>4. Scores \X Nat \subseteq Places
  BY <1>1 DEF Places
<1> QED BY <1>1, <1>3, <1>4

LEMMA BeforeOrders ==
  \A a, b, c \in Places :
     /\ ~Before(a, a)
     /\ Before(a, b) /\ Before(b, c) => Before(a, c)
     /\ a = b \/ Before(a, b) \/ Before(b, a)
<1> SUFFICES ASSUME NEW a \in Places, NEW b \in Places, NEW c \in Places
             PROVE  /\ ~Before(a, a)
                    /\ Before(a, b) /\ Before(b, c) => Before(a, c)
                    /\ a = b \/ Before(a, b) \/ Before(b, a)
  OBVIOUS
<1>1. /\ a[1] \in Nat /\ a[2] \in Nat /\ b[1] \in Nat /\ b[2] \in Nat /\ c[1] \in Nat /\ c[2] \in Nat
      /\ a[1] = b[1] /\ a[2] = b[2] => a = b
  BY DEF Places
<1> QED BY <1>1 DEF Before

LEMMA AheadOrders ==
  \A back : \A a, b, c \in Places :
     /\ ~Ahead(a, a, back)
     /\ Ahead(a, b, back) /\ Ahead(b, c, back) => Ahead(a, c, back)
     /\ a = b \/ Ahead(a, b, back) \/ Ahead(b, a, back)
  BY BeforeOrders DEF Ahead

\* How many of a set are ahead of one.
AheadOf(S, p, back) == {q \in S : Ahead(q, p, back)}
Count(S, p, back) == Cardinality(AheadOf(S, p, back))

LEMMA CountTypes ==
  \A S \in SUBSET Places : IsFiniteSet(S) => \A back, p :
     /\ AheadOf(S, p, back) \subseteq S /\ IsFiniteSet(AheadOf(S, p, back))
     /\ Count(S, p, back) \in Nat /\ Cardinality(S) \in Nat
     /\ Count(S, p, back) <= Cardinality(S)
<1> SUFFICES ASSUME NEW S \in SUBSET Places, IsFiniteSet(S), NEW back, NEW p
             PROVE  /\ AheadOf(S, p, back) \subseteq S /\ IsFiniteSet(AheadOf(S, p, back))
                    /\ Count(S, p, back) \in Nat /\ Cardinality(S) \in Nat
                    /\ Count(S, p, back) <= Cardinality(S)
  OBVIOUS
<1>1. AheadOf(S, p, back) \subseteq S
  BY DEF AheadOf
<1> QED BY <1>1, FS_Subset, FS_CardinalityType DEF Count

\* One that is ahead has fewer ahead of it.
LEMMA CountsGrow ==
  \A S \in SUBSET Places : IsFiniteSet(S) => \A back : \A p, q \in S :
     Ahead(q, p, back) => Count(S, q, back) < Count(S, p, back)
<1> SUFFICES ASSUME NEW S \in SUBSET Places, IsFiniteSet(S), NEW back, NEW p \in S, NEW q \in S,
                    Ahead(q, p, back)
             PROVE  Count(S, q, back) < Count(S, p, back)
  OBVIOUS
<1> DEFINE A == AheadOf(S, q, back)
           B == AheadOf(S, p, back)
<1>1. IsFiniteSet(A) /\ IsFiniteSet(B) /\ Cardinality(A) \in Nat /\ Cardinality(B) \in Nat
  BY CountTypes DEF Count
<1>2. q \notin A /\ A \cup {q} \subseteq B
  <2>1. q \notin A
    BY AheadOrders DEF AheadOf
  <2>2. q \in B
    BY DEF AheadOf
  <2>3. ASSUME NEW x \in A PROVE x \in B
    <3>1. x \in S /\ Ahead(x, q, back) /\ x \in Places /\ q \in Places /\ p \in Places
      BY <2>3 DEF AheadOf
    <3>2. Ahead(x, p, back)
      BY <3>1, AheadOrders
    <3> QED BY <3>1, <3>2 DEF AheadOf
  <2> QED BY <2>1, <2>2, <2>3
<1> HIDE DEF A, B
<1>3. Cardinality(A \cup {q}) = Cardinality(A) + 1 /\ IsFiniteSet(A \cup {q})
  BY <1>1, <1>2, FS_AddElement
<1>4. Cardinality(A \cup {q}) <= Cardinality(B)
  BY <1>1, <1>2, FS_Subset
<1>5. Cardinality(A) < Cardinality(B)
  BY <1>1, <1>3, <1>4
<1> QED BY <1>5 DEF Count, A, B

\* Of some, one is behind all the others.
LEMMA OneIsBehind ==
  \A S \in SUBSET Places : IsFiniteSet(S) => \A back : \A T \in SUBSET S : T # {} =>
     \E g \in T : \A q \in T : q = g \/ Ahead(q, g, back)
<1> SUFFICES ASSUME NEW S \in SUBSET Places, IsFiniteSet(S), NEW back, NEW T \in SUBSET S, T # {}
             PROVE  \E g \in T : \A q \in T : q = g \/ Ahead(q, g, back)
  OBVIOUS
<1> DEFINE n == Cardinality(S)
           D == {n - Count(S, q, back) : q \in T}
<1>1. n \in Nat /\ \A q : Count(S, q, back) \in Nat /\ Count(S, q, back) <= n
  BY CountTypes
<1>2. D \subseteq Nat /\ D # {}
  <2>1. \A q \in T : n - Count(S, q, back) \in Nat
    <3> HIDE DEF n
    <3> QED BY <1>1
  <2> QED BY <2>1
<1>3. PICK d \in D : \A e \in D : d <= e
  <2> HIDE DEF D
  <2> QED BY <1>2, LeastOfAll
<1>4. PICK g \in T : d = n - Count(S, g, back)
  OBVIOUS
<1>5. ASSUME NEW q \in T, q # g PROVE Ahead(q, g, back)
  <2>1. n - Count(S, g, back) <= n - Count(S, q, back)
    BY <1>3, <1>4
  <2>2. ~(Count(S, g, back) < Count(S, q, back))
    <3> HIDE DEF n
    <3> QED BY <1>1, <2>1
  <2>3. ~Ahead(g, q, back)
    BY <2>2, CountsGrow
  <2> QED BY <1>5, <2>3, AheadOrders
<1> QED BY <1>5

\* So each place is one's.
LEMMA EachPlace ==
  \A S \in SUBSET Places : IsFiniteSet(S) => \A back : \A i \in 1..Cardinality(S) :
     \E p \in S : Count(S, p, back) = i - 1
<1> SUFFICES ASSUME NEW S \in SUBSET Places, IsFiniteSet(S), NEW back, NEW i \in 1..Cardinality(S)
             PROVE  \E p \in S : Count(S, p, back) = i - 1
  OBVIOUS
<1> DEFINE n == Cardinality(S)
           c(q) == Count(S, q, back)
           D == {q \in S : c(q) >= i - 1}
           N == {c(q) : q \in D}
<1>1. n \in Nat /\ (\A q : c(q) \in Nat) /\ (\A q : IsFiniteSet(AheadOf(S, q, back)))
      /\ \A q : AheadOf(S, q, back) \subseteq S
  BY CountTypes
<1>2. \A T \in SUBSET S : \A g \in S :
         (\A q \in T : q = g \/ Ahead(q, g, back)) => Cardinality(T) <= c(g) + 1
  <2> SUFFICES ASSUME NEW T \in SUBSET S, NEW g \in S, \A q \in T : q = g \/ Ahead(q, g, back)
               PROVE  Cardinality(T) <= c(g) + 1
    OBVIOUS
  <2> DEFINE A == AheadOf(S, g, back)
  <2>1. T \subseteq A \cup {g} /\ IsFiniteSet(A) /\ g \notin A
    <3>1. g \notin A
      BY AheadOrders DEF AheadOf
    <3>2. T \subseteq A \cup {g}
      BY DEF AheadOf
    <3> QED BY <1>1, <3>1, <3>2
  <2> HIDE DEF A
  <2>2. Cardinality(A \cup {g}) = Cardinality(A) + 1 /\ IsFiniteSet(A \cup {g})
    BY <2>1, FS_AddElement
  <2>3. Cardinality(T) <= Cardinality(A \cup {g})
    BY <2>1, <2>2, FS_Subset
  <2> QED BY <2>2, <2>3 DEF A, Count
<1>3. D # {}
  <2>1. S # {}
    <3>1. n # 0
      BY <1>1
    <3> QED BY <3>1, FS_EmptySet
  <2>2. PICK g \in S : \A q \in S : q = g \/ Ahead(q, g, back)
    BY <2>1, OneIsBehind
  <2>3. n <= c(g) + 1
    <3> HIDE DEF c
    <3> QED BY <1>2, <2>2
  <2>4. c(g) >= i - 1
    <3> HIDE DEF c, n
    <3> QED BY <1>1, <2>3, i \in 1..n DEF n
  <2> QED BY <2>4
<1>4. PICK m \in N : \A x \in N : m <= x
  <2>1. N \subseteq Nat /\ N # {}
    <3> HIDE DEF c
    <3> QED BY <1>1, <1>3
  <2> HIDE DEF N
  <2> QED BY <2>1, LeastOfAll
<1>5. PICK p \in D : m = c(p)
  OBVIOUS
<1>6. c(p) >= i - 1 /\ p \in S /\ c(p) \in Nat /\ i \in Nat
  BY <1>1
<1>7. ASSUME c(p) # i - 1 PROVE FALSE
  <2> DEFINE T == AheadOf(S, p, back)
  <2>1. T # {}
    <3> SUFFICES ASSUME T = {} PROVE FALSE
      OBVIOUS
    <3>1. c(p) = 0
      BY FS_EmptySet DEF Count
    <3> QED BY <1>6, <1>7, <3>1
  <2>2. PICK g \in T : \A q \in T : q = g \/ Ahead(q, g, back)
    <3>1. T \in SUBSET S
      BY <1>1
    <3> HIDE DEF T
    <3> QED BY <2>1, <3>1, OneIsBehind
  <2>3. g \in S /\ Ahead(g, p, back)
    BY DEF AheadOf
  <2>4. c(g) < c(p)
    BY <2>3, <1>6, CountsGrow
  <2>5. g \notin D
    <3> SUFFICES ASSUME g \in D PROVE FALSE
      OBVIOUS
    <3>1. m <= c(g)
      BY <1>4
    <3> HIDE DEF c
    <3> QED BY <1>1, <1>5, <2>4, <3>1
  <2>6. Cardinality(T) <= c(g) + 1
    <3>1. T \in SUBSET S
      BY <1>1
    <3> HIDE DEF c, T
    <3> QED BY <1>2, <2>2, <2>3, <3>1
  <2>7. c(p) <= c(g) + 1
    BY <2>6 DEF Count
  <2>8. ~(c(g) >= i - 1)
    BY <2>3, <2>5
  <2> HIDE DEF c
  <2> QED BY <1>1, <1>6, <1>7, <2>7, <2>8
<1> QED BY <1>6, <1>7

-----------------------------------------------------------------------------
\* The rows that a scan finds, and those it takes.
FoundFrom(cursor, back) == {p \in TableRows : cursor = NoCursor \/ Sought(p, cursor, back)}

LEMMA RowsFinite ==
  scores \in [TheIds -> Scores \cup {Absent}] =>
     /\ IsFiniteSet(TableRows) /\ TableRows \subseteq Position /\ TableRows \subseteq Places
<1> SUFFICES ASSUME scores \in [TheIds -> Scores \cup {Absent}]
             PROVE  /\ IsFiniteSet(TableRows) /\ TableRows \subseteq Position
                    /\ TableRows \subseteq Places
  OBVIOUS
<1> DEFINE J == {j \in TheIds : scores[j] # Absent}
<1>1. IsFiniteSet(TheIds)
  BY FS_Interval, PagesAssumption DEF TheIds
<1>2. IsFiniteSet(J)
  BY <1>1, FS_Subset
<1>3. IsFiniteSet({<<scores[i], i>> : i \in J})
  <2> HIDE DEF J
  <2> DEFINE T == {<<scores[i], i>> : i \in J}
             f == [i \in J |-> <<scores[i], i>>]
  <2>1. f \in Surjection(J, T)
    BY DEF Surjection
  <2> HIDE DEF f, T
  <2>2. IsFiniteSet(T)
    BY <1>2, <2>1, FS_Surjection
  <2> QED BY <2>2 DEF T
<1>4. \A i \in J : scores[i] \in Scores /\ i \in TheIds
  OBVIOUS
<1>5. TheIds \subseteq Nat /\ Scores \subseteq Nat
  BY PagesAssumption DEF TheIds
<1>6. TableRows = {<<scores[i], i>> : i \in J}
  BY DEF TableRows
<1>7. \A i \in J : <<scores[i], i>> \in Position /\ <<scores[i], i>> \in Places
  BY <1>4, <1>5 DEF Position, Places
<1> HIDE DEF J
<1> QED BY <1>3, <1>6, <1>7

LEMMA ScansRight ==
  \A cursor, back : scores \in [TheIds -> Scores \cup {Absent}] =>
     LET S == FoundFrom(cursor, back)
         rows == Scan(cursor, back)
         n == Cardinality(S)
     IN  /\ S \subseteq Places /\ S \subseteq Position /\ IsFiniteSet(S) /\ n \in Nat
         /\ rows \in Seq(S) /\ Len(rows) = IF n > PerPage THEN PerPage + 1 ELSE n
         /\ \A i \in 1..Len(rows) : Count(S, rows[i], back) = i - 1
         /\ \A p \in S : Count(S, p, back) < Len(rows) => rows[Count(S, p, back) + 1] = p
<1> SUFFICES ASSUME NEW cursor, NEW back, scores \in [TheIds -> Scores \cup {Absent}]
             PROVE  LET S == FoundFrom(cursor, back)
                        rows == Scan(cursor, back)
                        n == Cardinality(S)
                    IN  /\ S \subseteq Places /\ S \subseteq Position /\ IsFiniteSet(S) /\ n \in Nat
                        /\ rows \in Seq(S) /\ Len(rows) = IF n > PerPage THEN PerPage + 1 ELSE n
                        /\ \A i \in 1..Len(rows) : Count(S, rows[i], back) = i - 1
                        /\ \A p \in S : Count(S, p, back) < Len(rows) =>
                              rows[Count(S, p, back) + 1] = p
  OBVIOUS
<1> DEFINE S == FoundFrom(cursor, back)
           rows == Scan(cursor, back)
           n == Cardinality(S)
           took == IF n > PerPage THEN PerPage + 1 ELSE n
           nth(i) == CHOOSE p \in S : Count(S, p, back) = i - 1
<1>1. S \subseteq Places /\ S \subseteq Position /\ IsFiniteSet(S) /\ n \in Nat
  <2>1. S \subseteq TableRows
    BY DEF FoundFrom
  <2> HIDE DEF S
  <2>2. IsFiniteSet(S) /\ S \subseteq Places /\ S \subseteq Position
    BY <2>1, RowsFinite, FS_Subset
  <2> QED BY <2>2, FS_CardinalityType
<1>2. rows = [i \in 1..took |-> nth(i)]
  BY DEF Scan, FoundFrom, Count, AheadOf, Ahead
<1>3. took \in Nat /\ took <= n
  <2> HIDE DEF n
  <2> QED BY <1>1, PagesAssumption
<1>4. \A i \in 1..took : nth(i) \in S /\ Count(S, nth(i), back) = i - 1
  <2> SUFFICES ASSUME NEW i \in 1..took PROVE nth(i) \in S /\ Count(S, nth(i), back) = i - 1
    OBVIOUS
  <2>1. i \in 1..n
    <3> HIDE DEF took, n
    <3> QED BY <1>1, <1>3
  <2>2. \E p \in S : Count(S, p, back) = i - 1
    <3> HIDE DEF S
    <3> QED BY <1>1, <2>1, EachPlace DEF n
  <2> HIDE DEF S
  <2> QED BY <2>2
<1>5. rows \in Seq(S) /\ Len(rows) = took /\ \A i \in 1..took : rows[i] = nth(i)
  <2> HIDE DEF rows, nth, took, S
  <2> QED BY <1>2, <1>3, <1>4
<1>6. ASSUME NEW p \in S, Count(S, p, back) < took PROVE rows[Count(S, p, back) + 1] = p
  <2> DEFINE k == Count(S, p, back)
             q == nth(k + 1)
  <2>1. k \in Nat
    <3> HIDE DEF S
    <3> QED BY <1>1, CountTypes
  <2>2. k + 1 \in 1..took /\ (k + 1) - 1 = k
    <3> HIDE DEF k, took
    <3> QED BY <2>1, <1>3, <1>6 DEF k
  <2>3. q \in S /\ Count(S, q, back) = k /\ rows[k + 1] = q
    <3> HIDE DEF rows, nth, took, S
    <3> QED BY <1>4, <1>5, <2>2
  <2>4. q = p
    <3> HIDE DEF S, nth
    <3>1. ~(Count(S, q, back) < Count(S, p, back)) /\ ~(Count(S, p, back) < Count(S, q, back))
      BY <2>1, <2>3
    <3>2. ~Ahead(q, p, back) /\ ~Ahead(p, q, back)
      BY <1>1, <2>3, <3>1, CountsGrow
    <3> QED BY <1>1, <2>3, <3>2, AheadOrders
  <2> QED BY <2>3, <2>4
<1> HIDE DEF S, rows, nth
<1> QED BY <1>1, <1>4, <1>5, <1>6 DEF S, rows

\* What is shown of them, in the order of the table: all that was found, or more than a page.
Ascending(items) == \A i, j \in 1..Len(items) : i < j => Before(items[i], items[j])
Shows(items, S, back) ==
    /\ items \in Seq(S) /\ Ascending(items)
    /\ \A p \in S \ ToSet(items) :
          /\ items # <<>>
          /\ back => Before(p, items[1])
          /\ ~back => Before(items[Len(items)], p)

LEMMA PaginatesRight ==
  ASSUME scores \in [TheIds -> Scores \cup {Absent}], NEW cursor, NEW back \in BOOLEAN,
         CursorPaginate(cursor, back)
  PROVE  LET S == FoundFrom(cursor, back) IN
         /\ S \subseteq Places /\ S \subseteq Position
         /\ Shows(shown', S, back) /\ Len(shown') <= PerPage /\ backward' = back
         /\ nextCursor' # NoCursor => shown' # <<>> /\ nextCursor' = Last(shown')
         /\ prevCursor' # NoCursor => shown' # <<>> /\ prevCursor' = Head(shown')
         /\ shown' # <<>> /\ ~back /\ nextCursor' = NoCursor => S \subseteq ToSet(shown')
         /\ shown' # <<>> /\ back /\ prevCursor' = NoCursor => S \subseteq ToSet(shown')
<1> DEFINE S == FoundFrom(cursor, back)
           rows == Scan(cursor, back)
           n == Cardinality(S)
           extra == Len(rows) > PerPage
           ofpage == IF extra THEN Front(rows) ELSE rows
           items == IF back THEN Reverse(ofpage) ELSE ofpage
           m == Len(ofpage)
<1>1. /\ S \subseteq Places /\ S \subseteq Position /\ IsFiniteSet(S) /\ n \in Nat
      /\ rows \in Seq(S) /\ Len(rows) = IF n > PerPage THEN PerPage + 1 ELSE n
      /\ \A i \in 1..Len(rows) : Count(S, rows[i], back) = i - 1
      /\ \A p \in S : Count(S, p, back) < Len(rows) => rows[Count(S, p, back) + 1] = p
  BY ScansRight
<1>2. /\ shown' = items /\ backward' = back
      /\ items = <<>> => nextCursor' = NoCursor /\ prevCursor' = NoCursor
      /\ items # <<>> =>
            /\ nextCursor' = IF back \/ extra THEN Last(items) ELSE NoCursor
            /\ prevCursor' = IF (IF back THEN extra ELSE cursor # NoCursor)
                             THEN Head(items) ELSE NoCursor
  BY DEF CursorPaginate
<1>3. PerPage \in Nat /\ PerPage > 0
  BY PagesAssumption
<1> HIDE DEF S, rows
<1>4. /\ ofpage \in Seq(S) /\ m \in Nat /\ m <= PerPage /\ m <= Len(rows) /\ Len(rows) \in Nat
      /\ extra => m = PerPage
      /\ ~extra => m = Len(rows) /\ m = n
      /\ \A i \in 1..m : ofpage[i] = rows[i]
  <2>1. CASE extra
    <3>1. ofpage = SubSeq(rows, 1, Len(rows) - 1) /\ Len(rows) \in Nat /\ Len(rows) = PerPage + 1
      BY <1>1, <1>3, <2>1 DEF Front
    <3> HIDE DEF ofpage
    <3>2. ofpage \in Seq(S) /\ Len(ofpage) = PerPage /\ \A i \in 1..PerPage : ofpage[i] = rows[i]
      BY <1>1, <1>3, <3>1
    <3> QED BY <1>3, <2>1, <3>1, <3>2
  <2>2. CASE ~extra
    BY <1>1, <1>3, <2>2
  <2> QED BY <2>1, <2>2
<1> HIDE DEF ofpage, extra
<1>5. /\ items \in Seq(S) /\ Len(items) = m
      /\ ~back => \A i \in 1..m : items[i] = ofpage[i]
      /\ back => \A i \in 1..m : items[i] = ofpage[(m - i) + 1] /\ ofpage[i] = items[(m - i) + 1]
  <2>1. CASE ~back
    BY <1>4, <2>1
  <2>2. CASE back
    <3>1. items = [i \in 1..m |-> ofpage[(m - i) + 1]]
      BY <2>2 DEF Reverse
    <3>2. \A i \in 1..m : (m - i) + 1 \in 1..m /\ (m - ((m - i) + 1)) + 1 = i
      BY <1>4
    <3>3. \A i \in 1..m : ofpage[(m - i) + 1] \in S
      BY <1>4, <3>2
    <3> HIDE DEF items
    <3> QED BY <1>4, <2>2, <3>1, <3>2, <3>3
  <2> QED BY <2>1, <2>2
<1>6. \A i \in 1..m : ofpage[i] \in S /\ Count(S, ofpage[i], back) = i - 1
  BY <1>1, <1>4
<1>7. \A i, j \in 1..m : i < j => Ahead(ofpage[i], ofpage[j], back)
  <2> SUFFICES ASSUME NEW i \in 1..m, NEW j \in 1..m, i < j PROVE Ahead(ofpage[i], ofpage[j], back)
    OBVIOUS
  <2>1. ~(Count(S, ofpage[j], back) < Count(S, ofpage[i], back)) /\ ofpage[i] # ofpage[j]
    BY <1>4, <1>6
  <2>2. ~Ahead(ofpage[j], ofpage[i], back)
    BY <1>1, <1>6, <2>1, CountsGrow
  <2> QED BY <1>1, <1>6, <2>1, <2>2, AheadOrders
<1>8. ASSUME NEW p \in S, \A i \in 1..m : ofpage[i] # p
      PROVE  extra /\ m > 0 /\ Ahead(ofpage[m], p, back)
  <2> DEFINE k == Count(S, p, back)
  <2>1. k \in Nat /\ k <= n
    BY <1>1, CountTypes
  <2>2. ~(k < m)
    <3> SUFFICES ASSUME k < m PROVE FALSE
      OBVIOUS
    <3>1. k < Len(rows) /\ k + 1 \in 1..m
      BY <1>4, <2>1
    <3>2. rows[k + 1] = p
      BY <1>1, <3>1
    <3> QED BY <1>4, <1>8, <3>1, <3>2
  <2>3. k < n
    <3>1. p \in Places /\ p \notin AheadOf(S, p, back) /\ AheadOf(S, p, back) \subseteq S
      BY <1>1, AheadOrders DEF AheadOf
    <3> DEFINE A == AheadOf(S, p, back)
    <3>2. IsFiniteSet(A) /\ Cardinality(A) = k /\ A \cup {p} \subseteq S
      BY <1>1, <3>1, CountTypes DEF Count
    <3> HIDE DEF A
    <3>3. Cardinality(A \cup {p}) = Cardinality(A) + 1
      BY <3>1, <3>2, FS_AddElement DEF A
    <3>4. Cardinality(A \cup {p}) <= n
      BY <1>1, <3>2, FS_Subset
    <3> QED BY <1>1, <2>1, <3>2, <3>3, <3>4
  <2>4. extra
    <3> HIDE DEF k
    <3> QED BY <1>1, <1>4, <2>1, <2>2, <2>3
  <2>5. m > 0
    BY <1>3, <1>4, <2>4
  <2>6. m \in 1..m /\ Count(S, ofpage[m], back) = m - 1 /\ ofpage[m] \in S
    BY <1>4, <1>6, <2>5
  <2>7. ~Ahead(p, ofpage[m], back)
    <3>1. ~(k < m - 1)
      <4> HIDE DEF k
      <4> QED BY <1>4, <2>1, <2>2
    <3> QED BY <1>1, <2>6, <3>1, CountsGrow
  <2> QED BY <1>1, <1>8, <2>4, <2>5, <2>6, <2>7, AheadOrders
<1> HIDE DEF items
<1>9. Ascending(items)
  <2> SUFFICES ASSUME NEW i \in 1..m, NEW j \in 1..m, i < j PROVE Before(items[i], items[j])
    BY <1>5 DEF Ascending
  <2>1. CASE ~back
    BY <1>5, <1>7, <2>1 DEF Ahead
  <2>2. CASE back
    <3>1. (m - i) + 1 \in 1..m /\ (m - j) + 1 \in 1..m /\ (m - j) + 1 < (m - i) + 1
      BY <1>4
    <3>2. Ahead(ofpage[(m - j) + 1], ofpage[(m - i) + 1], back)
      BY <1>7, <3>1
    <3> QED BY <1>5, <2>2, <3>2 DEF Ahead
  <2> QED BY <2>1, <2>2
<1>10. ASSUME NEW p \in S \ ToSet(items)
       PROVE  /\ extra /\ items # <<>>
              /\ back => Before(p, items[1])
              /\ ~back => Before(items[Len(items)], p)
  <2>1. \A i \in 1..m : items[i] # p
    BY <1>5 DEF ToSet
  <2>2. \A i \in 1..m : ofpage[i] # p
    <3>1. \A i \in 1..m : (m - i) + 1 \in 1..m
      BY <1>4
    <3> QED BY <1>5, <2>1, <3>1
  <2>3. extra /\ m > 0 /\ Ahead(ofpage[m], p, back)
    BY <1>8, <2>2
  <2>4. items # <<>>
    BY <1>5, <2>3
  <2>5. m \in 1..m /\ 1 \in 1..m /\ (m - 1) + 1 = m
    BY <1>4, <2>3
  <2> QED BY <1>5, <2>3, <2>4, <2>5 DEF Ahead
<1>11. S \subseteq ToSet(items) \/ extra
  BY <1>10
<1>12. Shows(items, S, back)
  BY <1>5, <1>9, <1>10 DEF Shows
<1>13. items # <<>> => Last(items) # NoCursor /\ Head(items) # NoCursor
  <2> SUFFICES ASSUME items # <<>> PROVE Last(items) # NoCursor /\ Head(items) # NoCursor
    OBVIOUS
  <2>1. Head(items) \in S /\ items[Len(items)] \in S
    BY <1>5
  <2>2. Position \subseteq Scores \X Nat
    BY DEF Position, TheIds
  <2> QED BY <1>1, <2>1, <2>2, PagesAssumption DEF Last
<1> QED BY <1>1, <1>2, <1>4, <1>5, <1>11, <1>12, <1>13 DEF S

-----------------------------------------------------------------------------
UpTo(a, b) == a = b \/ Before(a, b)

PagesInv ==
    /\ scores \in [TheIds -> Scores \cup {Absent}]
    /\ shown \in Seq(Position) /\ Ascending(shown) /\ Len(shown) <= PerPage
    /\ furthest \in Position \cup {NoCursor} /\ backward \in BOOLEAN
    /\ settled \subseteq TableRows /\ unseen \subseteq settled
    /\ furthest = NoCursor => shown = <<>> /\ unseen = {}
    /\ shown # <<>> => UpTo(Last(shown), furthest)
    /\ nextCursor # NoCursor => shown # <<>> /\ nextCursor = Last(shown)
    /\ prevCursor # NoCursor => shown # <<>> /\ prevCursor = Head(shown)
    /\ PagesRight

LEMMA PagesBegin == PagesInit => PagesInv
<1> SUFFICES ASSUME PagesInit PROVE PagesInv
  OBVIOUS
<1>1. scores \in [TheIds -> Scores \cup {Absent}] /\ shown = <<>> /\ unseen = {} /\ settled = {}
      /\ shown \in Seq(Position) /\ Len(shown) = 0
      /\ nextCursor = NoCursor /\ prevCursor = NoCursor /\ furthest = NoCursor /\ backward = FALSE
  BY DEF PagesInit
<1>2. Ascending(shown)
  BY <1>1 DEF Ascending
<1>3. PagesRight
  BY <1>1 DEF PagesRight
<1>4. Len(shown) <= PerPage
  BY <1>1, PagesAssumption
<1> QED BY <1>1, <1>2, <1>3, <1>4 DEF PagesInv

\* The rows of a page have no row between them that was found and is not shown.
LEMMA NoHoles ==
  \A S \in SUBSET Places, back \in BOOLEAN : \A items : Shows(items, S, back) =>
     /\ items # <<>> => /\ items[1] \in S /\ items[Len(items)] \in S /\ Len(items) \in Nat
                        /\ items[1] \in ToSet(items) /\ items[Len(items)] \in ToSet(items)
                        /\ UpTo(items[1], items[Len(items)])
     /\ items # <<>> => \A p \in S : Between(p, items[1], items[Len(items)]) => p \in ToSet(items)
     /\ items # <<>> => \A p \in ToSet(items) : ~Before(p, items[1])
<1> SUFFICES ASSUME NEW S \in SUBSET Places, NEW back \in BOOLEAN, NEW items, Shows(items, S, back),
                    items # <<>>
             PROVE  /\ items[1] \in S /\ items[Len(items)] \in S /\ Len(items) \in Nat
                    /\ items[1] \in ToSet(items) /\ items[Len(items)] \in ToSet(items)
                    /\ UpTo(items[1], items[Len(items)])
                    /\ \A p \in S : Between(p, items[1], items[Len(items)]) => p \in ToSet(items)
                    /\ \A p \in ToSet(items) : ~Before(p, items[1])
  OBVIOUS
<1>1. items \in Seq(S) /\ Ascending(items)
  BY DEF Shows
<1>2. /\ Len(items) \in Nat /\ 1 \in 1..Len(items) /\ Len(items) \in 1..Len(items)
      /\ DOMAIN items = 1..Len(items) /\ \A i \in 1..Len(items) : items[i] \in S
  BY <1>1
<1>3. UpTo(items[1], items[Len(items)])
  <2>1. CASE Len(items) = 1
    BY <2>1 DEF UpTo
  <2>2. CASE Len(items) # 1
    <3>1. 1 < Len(items)
      BY <1>2, <2>2
    <3> QED BY <1>1, <1>2, <3>1 DEF Ascending, UpTo
  <2> QED BY <2>1, <2>2
<1>4. ASSUME NEW p \in S, Between(p, items[1], items[Len(items)]), p \notin ToSet(items)
      PROVE  FALSE
  <2>1. Before(p, items[1]) \/ Before(items[Len(items)], p)
    BY <1>4 DEF Shows
  <2>2. Before(items[1], p) /\ Before(p, items[Len(items)])
    BY <1>4 DEF Between
  <2>3. p \in Places /\ items[1] \in Places /\ items[Len(items)] \in Places
    BY <1>2
  <2> QED BY <2>1, <2>2, <2>3, BeforeOrders
<1>5. ASSUME NEW i \in 1..Len(items) PROVE ~Before(items[i], items[1])
  <2>1. CASE i = 1
    BY <1>2, <2>1, BeforeOrders
  <2>2. CASE i # 1
    <3>1. Before(items[1], items[i])
      <4>1. 1 < i
        BY <2>2
      <4> QED BY <1>1, <1>2, <4>1 DEF Ascending
    <3> QED BY <1>2, <3>1, BeforeOrders
  <2> QED BY <2>1, <2>2
<1>6. \A p \in ToSet(items) : ~Before(p, items[1])
  BY <1>2, <1>5 DEF ToSet
<1> QED BY <1>2, <1>3, <1>4, <1>6 DEF ToSet

\* A page that is turned to is right by itself.
LEMMA TurnedRight ==
  ASSUME PagesInv, NEW cursor \in Position \cup {NoCursor}, NEW back \in BOOLEAN,
         CursorPaginate(cursor, back), UNCHANGED scores, settled' \subseteq TableRows,
         back => cursor # NoCursor
  PROVE  /\ shown' \in Seq(Position) /\ Ascending(shown') /\ Len(shown') <= PerPage
         /\ backward' = back
         /\ nextCursor' # NoCursor => shown' # <<>> /\ nextCursor' = Last(shown')
         /\ prevCursor' # NoCursor => shown' # <<>> /\ prevCursor' = Head(shown')
         /\ shown' # <<>> =>
               \A p \in settled' : Between(p, Head(shown'), Last(shown')) => p \in ToSet(shown')
         /\ shown' # <<>> /\ backward' /\ prevCursor' = NoCursor =>
               \A p \in settled' : ~Before(p, Head(shown'))
         /\ shown' # <<>> /\ ~backward' /\ nextCursor' = NoCursor =>
               FoundFrom(cursor, back) \subseteq ToSet(shown')
         /\ Shows(shown', FoundFrom(cursor, back), back)
         /\ FoundFrom(cursor, back) \subseteq Places /\ FoundFrom(cursor, back) \subseteq Position
         /\ shown' # <<>> => /\ Head(shown') = shown'[1] /\ Last(shown') = shown'[Len(shown')]
                             /\ shown'[1] \in FoundFrom(cursor, back)
                             /\ shown'[Len(shown')] \in FoundFrom(cursor, back)
<1> DEFINE S == FoundFrom(cursor, back)
<1>1. PICK items : items = shown'
  OBVIOUS
<1>2. scores \in [TheIds -> Scores \cup {Absent}]
  BY DEF PagesInv
<1>3. /\ S \subseteq Places /\ S \subseteq Position
      /\ Shows(items, S, back) /\ Len(items) <= PerPage /\ backward' = back
      /\ nextCursor' # NoCursor => items # <<>> /\ nextCursor' = Last(items)
      /\ prevCursor' # NoCursor => items # <<>> /\ prevCursor' = Head(items)
      /\ items # <<>> /\ ~back /\ nextCursor' = NoCursor => S \subseteq ToSet(items)
      /\ items # <<>> /\ back /\ prevCursor' = NoCursor => S \subseteq ToSet(items)
  BY <1>1, <1>2, PaginatesRight
<1>4. S = {p \in TableRows : cursor = NoCursor \/ Sought(p, cursor, back)}
  BY DEF FoundFrom
<1> HIDE DEF S
<1>5. /\ items # <<>> => /\ items[1] \in S /\ items[Len(items)] \in S
                         /\ UpTo(items[1], items[Len(items)])
      /\ items # <<>> => \A p \in S : Between(p, items[1], items[Len(items)]) => p \in ToSet(items)
      /\ items # <<>> => \A p \in ToSet(items) : ~Before(p, items[1])
  BY <1>3, NoHoles
<1>6. items \in Seq(S) /\ Ascending(items)
  BY <1>3 DEF Shows
<1>7. items \in Seq(Position) /\ (items # <<>> => Head(items) = items[1] /\ Last(items) = items[Len(items)])
  BY <1>3, <1>6 DEF Last
<1>8. settled' \subseteq Places /\ (cursor # NoCursor => cursor \in Places)
  <2>1. TableRows \subseteq Places
    BY <1>2, RowsFinite
  <2>2. Position \subseteq Places
    BY PositionsPlaces
  <2> QED BY <2>1, <2>2
<1>9. ASSUME items # <<>>, NEW p \in settled', Before(p, items[Len(items)]), back
      PROVE  p \in S
  <2>1. Before(items[Len(items)], cursor) /\ cursor # NoCursor
    BY <1>4, <1>5, <1>9 DEF Sought
  <2>2. Before(p, cursor)
    <3>1. items[Len(items)] \in Places
      BY <1>3, <1>5, <1>9
    <3> QED BY <1>8, <1>9, <2>1, <3>1, BeforeOrders
  <2> QED BY <1>4, <1>9, <2>2 DEF Sought
<1>10. ASSUME items # <<>>, NEW p \in settled', Before(items[1], p), ~back
       PROVE  p \in S
  <2>1. CASE cursor = NoCursor
    BY <1>4, <2>1
  <2>2. CASE cursor # NoCursor
    <3>1. Before(cursor, items[1])
      BY <1>4, <1>5, <1>10, <2>2 DEF Sought
    <3>2. Before(cursor, p)
      <4>1. items[1] \in Places
        BY <1>3, <1>5, <1>10
      <4> QED BY <1>8, <1>10, <2>2, <3>1, <4>1, BeforeOrders
    <3> QED BY <1>4, <1>10, <3>2 DEF Sought
  <2> QED BY <2>1, <2>2
<1>11. ASSUME items # <<>>, NEW p \in settled', Between(p, items[1], items[Len(items)])
       PROVE  p \in ToSet(items)
  <2>1. p \in S
    BY <1>9, <1>10, <1>11 DEF Between
  <2> QED BY <1>5, <1>11, <2>1
<1>12. ASSUME items # <<>>, back, prevCursor' = NoCursor, NEW p \in settled', Before(p, items[1])
       PROVE  FALSE
  <2>1. Before(p, items[Len(items)])
    <3>1. p \in Places /\ items[1] \in Places /\ items[Len(items)] \in Places
      BY <1>3, <1>5, <1>8, <1>12
    <3> QED BY <1>5, <1>12, <3>1, BeforeOrders DEF UpTo
  <2>2. p \in S
    BY <1>9, <1>12, <2>1
  <2> QED BY <1>3, <1>5, <1>12, <2>2
<1> QED BY <1>1, <1>3, <1>5, <1>6, <1>7, <1>11, <1>12 DEF S

LEMMA PagesNextInv == PagesInv /\ [PageStep]_pageVars => PagesInv'
<1> SUFFICES ASSUME PagesInv, [PageStep]_pageVars PROVE PagesInv'
  OBVIOUS
<1>1. /\ scores \in [TheIds -> Scores \cup {Absent}]
      /\ settled \subseteq TableRows /\ unseen \subseteq settled
      /\ TableRows \subseteq Position /\ TableRows \subseteq Places
      /\ shown \in Seq(Position) /\ furthest \in Position \cup {NoCursor}
  BY RowsFinite DEF PagesInv
<1>2. Position \subseteq Places /\ NoCursor \notin Position
  BY PositionsPlaces
<1>3. CASE FirstPage
  <2>1. /\ furthest = NoCursor /\ CursorPaginate(NoCursor, FALSE) /\ settled' = TableRows
        /\ unseen' = TableRows \ ToSet(shown') /\ scores' = scores
        /\ furthest' = IF shown' = <<>> THEN NoCursor ELSE Last(shown')
    BY <1>3 DEF FirstPage
  <2> DEFINE S == FoundFrom(NoCursor, FALSE)
  <2>2. S = TableRows
    BY DEF FoundFrom
  <2> HIDE DEF S
  <2>3. /\ shown' \in Seq(Position) /\ Ascending(shown') /\ Len(shown') <= PerPage
        /\ backward' = FALSE
        /\ nextCursor' # NoCursor => shown' # <<>> /\ nextCursor' = Last(shown')
        /\ prevCursor' # NoCursor => shown' # <<>> /\ prevCursor' = Head(shown')
        /\ shown' # <<>> =>
              \A p \in settled' : Between(p, Head(shown'), Last(shown')) => p \in ToSet(shown')
        /\ shown' # <<>> /\ ~backward' /\ nextCursor' = NoCursor => S \subseteq ToSet(shown')
        /\ Shows(shown', S, FALSE)
        /\ shown' # <<>> => Last(shown') = shown'[Len(shown')] /\ shown'[Len(shown')] \in S
    BY <2>1, TurnedRight DEF S
  <2>4. ASSUME NEW p \in unseen', furthest' # NoCursor PROVE Before(furthest', p)
    <3>1. p \in S \ ToSet(shown')
      BY <2>1, <2>2, <2>4
    <3>2. Before(shown'[Len(shown')], p)
      BY <2>3, <3>1 DEF Shows
    <3> QED BY <2>1, <2>3, <2>4, <3>2
  <2>5. furthest' = NoCursor => shown' = <<>> /\ unseen' = {}
    <3>1. shown' # <<>> => furthest' # NoCursor
      BY <1>1, <1>2, <2>1, <2>2, <2>3
    <3>2. shown' = <<>> => S \ ToSet(shown') = {}
      BY <2>3 DEF Shows
    <3> QED BY <2>1, <2>2, <3>1, <3>2
  <2>6. furthest' \in Position \cup {NoCursor} /\ (shown' # <<>> => UpTo(Last(shown'), furthest'))
    BY <1>1, <2>1, <2>2, <2>3 DEF UpTo
  <2>7. TableRows' = TableRows
    BY <2>1 DEF TableRows
  <2>8. settled' \subseteq TableRows' /\ unseen' \subseteq settled' /\ scores' \in [TheIds -> Scores \cup {Absent}]
    BY <1>1, <2>1, <2>7
  <2>9. PagesRight'
    BY <2>1, <2>2, <2>3, <2>4 DEF PagesRight
  <2> QED BY <2>3, <2>5, <2>6, <2>8, <2>9 DEF PagesInv
<1>4. CASE NextPage
  <2>1. /\ nextCursor # NoCursor /\ CursorPaginate(nextCursor, FALSE) /\ unseen' = unseen \ ToSet(shown')
        /\ UNCHANGED <<scores, settled>>
        /\ furthest' = IF shown' # <<>> /\ Before(furthest, Last(shown')) THEN Last(shown') ELSE furthest
    BY <1>4 DEF NextPage, Seen
  <2>2. /\ shown # <<>> /\ nextCursor = Last(shown) /\ UpTo(nextCursor, furthest)
        /\ furthest \in Position /\ nextCursor \in Position
    <3>1. shown # <<>> /\ nextCursor = Last(shown) /\ furthest # NoCursor /\ UpTo(Last(shown), furthest)
      BY <2>1 DEF PagesInv
    <3> QED BY <1>1, <3>1 DEF Last
  <2> DEFINE S == FoundFrom(nextCursor, FALSE)
  <2>3. S = {p \in TableRows : Before(nextCursor, p)}
    BY <2>1 DEF FoundFrom, Sought
  <2> HIDE DEF S
  <2>4. /\ shown' \in Seq(Position) /\ Ascending(shown') /\ Len(shown') <= PerPage
        /\ backward' = FALSE
        /\ nextCursor' # NoCursor => shown' # <<>> /\ nextCursor' = Last(shown')
        /\ prevCursor' # NoCursor => shown' # <<>> /\ prevCursor' = Head(shown')
        /\ shown' # <<>> =>
              \A p \in settled' : Between(p, Head(shown'), Last(shown')) => p \in ToSet(shown')
        /\ shown' # <<>> /\ ~backward' /\ nextCursor' = NoCursor => S \subseteq ToSet(shown')
        /\ Shows(shown', S, FALSE)
        /\ shown' # <<>> => Last(shown') = shown'[Len(shown')] /\ shown'[Len(shown')] \in S
    <3>1. settled' \subseteq TableRows /\ nextCursor \in Position \cup {NoCursor} /\ scores' = scores
      BY <1>1, <2>1, <2>2
    <3> QED BY <2>1, <3>1, TurnedRight DEF S
  <2>5. \A p \in unseen : p \in S /\ Before(furthest, p)
    <3> SUFFICES ASSUME NEW p \in unseen PROVE p \in S /\ Before(furthest, p)
      OBVIOUS
    <3>1. Before(furthest, p) /\ p \in TableRows
      BY <1>1, <1>2, <2>2 DEF PagesInv, PagesRight
    <3>2. Before(nextCursor, p)
      <4>1. nextCursor \in Places /\ furthest \in Places /\ p \in Places
        BY <1>1, <1>2, <2>2, <3>1
      <4> QED BY <2>2, <3>1, <4>1, BeforeOrders DEF UpTo
    <3> QED BY <2>3, <3>1, <3>2
  <2>6. ASSUME NEW p \in unseen' PROVE Before(furthest', p)
    <3>1. p \in S \ ToSet(shown') /\ Before(furthest, p)
      BY <2>1, <2>5, <2>6
    <3>2. shown' # <<>> /\ Before(shown'[Len(shown')], p)
      BY <2>4, <3>1 DEF Shows
    <3> QED BY <2>1, <2>4, <3>1, <3>2
  <2>7. shown' # <<>> /\ nextCursor' = NoCursor => unseen' = {}
    BY <2>1, <2>4, <2>5
  <2>8. /\ furthest' \in Position
        /\ shown' # <<>> => UpTo(Last(shown'), furthest')
    <3>1. CASE shown' # <<>> /\ Before(furthest, Last(shown'))
      BY <1>1, <2>1, <2>3, <2>4, <3>1 DEF UpTo
    <3>2. CASE shown' # <<>> /\ ~Before(furthest, Last(shown'))
      <4>1. Last(shown') \in Places /\ furthest \in Places /\ furthest' = furthest
        BY <1>1, <1>2, <2>1, <2>2, <2>3, <2>4, <3>2
      <4> QED BY <2>2, <3>2, <4>1, BeforeOrders DEF UpTo
    <3>3. CASE shown' = <<>>
      BY <2>1, <2>2, <3>3
    <3> QED BY <3>1, <3>2, <3>3
  <2>9. TableRows' = TableRows
    BY <2>1 DEF TableRows
  <2>10. /\ settled' \subseteq TableRows' /\ unseen' \subseteq settled' /\ furthest' # NoCursor
         /\ scores' \in [TheIds -> Scores \cup {Absent}]
    BY <1>1, <1>2, <2>1, <2>8, <2>9
  <2>11. PagesRight'
    BY <2>4, <2>6, <2>7 DEF PagesRight
  <2> QED BY <2>4, <2>8, <2>10, <2>11 DEF PagesInv
<1>5. CASE PreviousPage
  <2>1. /\ prevCursor # NoCursor /\ CursorPaginate(prevCursor, TRUE) /\ unseen' = unseen \ ToSet(shown')
        /\ UNCHANGED <<scores, settled, furthest>>
    BY <1>5 DEF PreviousPage, Seen
  <2>2. /\ shown # <<>> /\ prevCursor = shown[1] /\ prevCursor \in Position
        /\ Len(shown) \in Nat /\ Len(shown) >= 1 /\ shown[Len(shown)] \in Position
        /\ UpTo(shown[Len(shown)], furthest) /\ furthest \in Position
    <3>1. shown # <<>> /\ prevCursor = Head(shown) /\ furthest # NoCursor /\ UpTo(Last(shown), furthest)
      BY <2>1 DEF PagesInv
    <3> QED BY <1>1, <3>1 DEF Last
  <2>3. UpTo(shown[1], shown[Len(shown)])
    <3>1. CASE Len(shown) = 1
      BY <3>1 DEF UpTo
    <3>2. CASE Len(shown) # 1
      <4>0. Len(shown) \in Nat /\ Len(shown) >= 1 /\ Len(shown) # 1
        BY <2>2, <3>2
      <4>1. \A k \in Nat : k >= 1 /\ k # 1 => 1 < k /\ 1 \in 1..k /\ k \in 1..k
        OBVIOUS
      <4>2. 1 < Len(shown) /\ 1 \in 1..Len(shown) /\ Len(shown) \in 1..Len(shown)
        BY ONLY <4>0, <4>1
      <4> QED BY <4>2 DEF PagesInv, Ascending, UpTo
    <3> QED BY <3>1, <3>2
  <2>4. UpTo(prevCursor, furthest)
    <3>1. prevCursor \in Places /\ shown[Len(shown)] \in Places /\ furthest \in Places
      BY <1>2, <2>2
    <3> QED BY <2>2, <2>3, <3>1, BeforeOrders DEF UpTo
  <2> DEFINE S == FoundFrom(prevCursor, TRUE)
  <2>5. S = {p \in TableRows : Before(p, prevCursor)}
    BY <2>1 DEF FoundFrom, Sought
  <2> HIDE DEF S
  <2>6. /\ shown' \in Seq(Position) /\ Ascending(shown') /\ Len(shown') <= PerPage
        /\ backward' = TRUE
        /\ nextCursor' # NoCursor => shown' # <<>> /\ nextCursor' = Last(shown')
        /\ prevCursor' # NoCursor => shown' # <<>> /\ prevCursor' = Head(shown')
        /\ shown' # <<>> =>
              \A p \in settled' : Between(p, Head(shown'), Last(shown')) => p \in ToSet(shown')
        /\ shown' # <<>> /\ prevCursor' = NoCursor => \A p \in settled' : ~Before(p, Head(shown'))
        /\ shown' # <<>> => Last(shown') = shown'[Len(shown')] /\ shown'[Len(shown')] \in S
    <3>1. settled' \subseteq TableRows /\ prevCursor \in Position \cup {NoCursor} /\ scores' = scores
      BY <1>1, <2>1, <2>2
    <3> QED BY <2>1, <3>1, TurnedRight DEF S
  <2>7. shown' # <<>> => UpTo(Last(shown'), furthest')
    <3> SUFFICES ASSUME shown' # <<>> PROVE UpTo(Last(shown'), furthest')
      OBVIOUS
    <3>1. Before(Last(shown'), prevCursor) /\ Last(shown') \in Places
      BY <1>1, <2>5, <2>6
    <3>2. prevCursor \in Places /\ furthest \in Places /\ furthest' = furthest
      BY <1>2, <2>1, <2>2
    <3> QED BY <2>4, <3>1, <3>2, BeforeOrders DEF UpTo
  <2>8. TableRows' = TableRows
    BY <2>1 DEF TableRows
  <2>9. /\ settled' \subseteq TableRows' /\ unseen' \subseteq settled' /\ furthest' # NoCursor
        /\ furthest' \in Position /\ scores' \in [TheIds -> Scores \cup {Absent}]
    BY <1>1, <1>2, <2>1, <2>2, <2>8
  <2>10. \A p \in unseen' : Before(furthest', p)
    BY <1>2, <2>1, <2>2 DEF PagesInv, PagesRight
  <2>11. PagesRight'
    BY <2>6, <2>10 DEF PagesRight
  <2> QED BY <2>6, <2>7, <2>9, <2>11 DEF PagesInv
<1>6. ASSUME NEW i \in TheIds, NEW score \in Scores \cup {Absent}, WriteRowAt(i, score)
      PROVE  PagesInv'
  <2>1. /\ scores' = [scores EXCEPT ![i] = score]
        /\ settled' = {p \in settled : p[2] # i} /\ unseen' = {p \in unseen : p[2] # i}
        /\ UNCHANGED <<shown, nextCursor, prevCursor, backward, furthest>>
    BY <1>6 DEF WriteRowAt, cursors
  <2>2. scores' \in [TheIds -> Scores \cup {Absent}]
    BY <1>1, <2>1
  <2>3. settled' \subseteq TableRows'
    <3> SUFFICES ASSUME NEW p \in settled, p[2] # i PROVE p \in TableRows'
      BY <2>1
    <3>1. PICK j \in TheIds : scores[j] # Absent /\ p = <<scores[j], j>>
      BY <1>1 DEF TableRows
    <3>2. j # i
      BY <1>6, <3>1
    <3>3. scores'[j] = scores[j]
      BY <1>1, <2>1, <3>1, <3>2
    <3> QED BY <3>1, <3>3 DEF TableRows
  <2>4. unseen' \subseteq settled' /\ unseen' \subseteq unseen /\ settled' \subseteq settled
    BY <1>1, <2>1
  <2>5. PagesRight'
    BY <2>1, <2>4 DEF PagesInv, PagesRight
  <2> QED BY <2>1, <2>2, <2>3, <2>4, <2>5 DEF PagesInv
<1>7. CASE UNCHANGED pageVars
  <2>1. TableRows' = TableRows /\ (PagesRight => PagesRight')
    BY <1>7 DEF pageVars, cursors, TableRows, PagesRight
  <2> QED BY <1>7, <2>1 DEF PagesInv, pageVars, cursors
<1>8. CASE PageStep
  BY <1>3, <1>4, <1>5, <1>6, <1>8 DEF PageStep
<1> QED BY <1>7, <1>8

-----------------------------------------------------------------------------
(* All of them *)

\* A step of the application is one of each of these parts, or none of it.
LEMMA ReadersStep ==
  [Next]_vars =>
    /\ [RelationStep]_relationVars /\ [QueryStep]_queryVars /\ [WalkStep]_walkVars
    /\ [PageStep]_pageVars /\ [RelayStep]_relayVars /\ [EventStep]_eventVars
<1>1. CASE Queries
  <2>1. CASE Transacts \/ Stores \/ Relates
    BY <1>1, <2>1 DEF Queries, Transacts, Stores, Relates
  <2>2. CASE Reads \/ Asks \/ Walks \/ Turns
    BY <1>1, <2>2 DEF Queries, Reads, Asks, Walks, Turns
  <2>3. CASE Indexes \/ Migrates
    BY <1>1, <2>3 DEF Queries, Indexes, Migrates
  <2> QED BY <1>1, <2>1, <2>2, <2>3 DEF Queries, DatabaseStep
<1>2. CASE Serves \/ LogsIn \/ Flags \/ Attaches
  BY <1>2 DEF Serves, LogsIn, Flags, Attaches, dbVars
<1>3. CASE Lives \/ Injects \/ Handles \/ Validates
  BY <1>3 DEF Lives, Injects, Handles, Validates, dbVars
<1>4. CASE Dispatches \/ Relays
  BY <1>4 DEF Dispatches, Relays, dbVars
<1>5. CASE Notifies \/ Consumes \/ Admits \/ Works
  BY <1>5 DEF Notifies, Consumes, Admits, Works, dbVars
<1>6. CASE UNCHANGED vars
  BY <1>6 DEF vars, dbVars
<1> QED
  BY <1>1, <1>2, <1>3, <1>4, <1>5, <1>6 DEF Next

ReadsInv == RelationsInv /\ QueryInv /\ WalkInv /\ PagesInv /\ RelayInv /\ EventsInv

\* Whatever steps the parts take, each of these keeps its invariant: they share no state, and
\* within each those who write keep it for those who read.
THEOREM ReadersKeepTheirs == Spec => []ReadsInv
<1>1. Init => ReadsInv
  BY RelationsBegin, QueryBegins, WalkBegins, PagesBegin, RelayBegins, EventsBegin
  DEF Init, DatabaseInit, ReadsInv
<1>2. ReadsInv /\ [Next]_vars => ReadsInv'
  BY ReadersStep, RelationsNextInv, QueryNextInv, WalkNextInv, PagesNextInv, RelayNextInv, EventsNextInv
  DEF ReadsInv
<1> QED BY <1>1, <1>2, PTL DEF Spec

\* What there is is what is read or heard: a relation relates the same rows however it is
\* resolved (database/relations.py), a query keeps to its clauses and scopes whoever else
\* holds it, a walk hands out each row once and a reader who turns pages misses none
\* (database/builder.py), an event is heard once, in order and of committed work only
\* (events/dispatcher.py), and a socket's frames come in the order they were published
\* (routing/broadcast_relay.py).
THEOREM ReadAsItIs == Spec => []ReadAsWritten
<1>1. ReadsInv => RelationsAgree /\ QueryScoped /\ WalkedOnce
  BY RelationsKeep, QueryKeeps, WalkKeeps DEF ReadsInv
<1>2. ReadsInv => PagesRight /\ EventsHeard /\ FramesRight
  BY EventsKeep, RelayKeeps DEF ReadsInv, PagesInv
<1>3. ReadsInv => ReadAsWritten
  BY <1>1, <1>2 DEF ReadAsWritten
<1> QED BY <1>3, ReadersKeepTheirs, PTL

-----------------------------------------------------------------------------
(* The life of the application (Lifecycle.tla) *)

LifeBounds ==
    /\ app \in Phases /\ stuck \subseteq Managed /\ closed \in BOOLEAN /\ excused \in BOOLEAN
    /\ tries \in [Resources -> 0..Retries]

LEMMA LifeBeginsBounded == LifeInit => LifeBounds
<1> SUFFICES ASSUME LifeInit PROVE LifeBounds
  OBVIOUS
<1>1. tries = [r \in Resources |-> 0] /\ Retries \in Nat
  BY LifecycleAssumption DEF LifeInit
<1>2. tries \in [Resources -> 0..Retries]
  BY <1>1
<1> QED BY <1>2 DEF LifeInit, LifeBounds, Phases

LEMMA LifeStaysBounded == LifeBounds /\ [LifeStep]_lifeVars => LifeBounds'
<1> SUFFICES ASSUME LifeBounds, [LifeStep]_lifeVars PROVE LifeBounds'
  OBVIOUS
<1> USE DEF LifeBounds, Phases, RegistryKept, ConnectionsKept
<1>1. CASE \/ Terminating \/ BootRaises \/ StartResources \/ CancelStartup \/ RolledBack \/ Terminate \/ HooksDone
             \/ Released
  BY <1>1 DEF Terminating, BootRaises, StartResources, CancelStartup, RolledBack, Terminate, HooksDone, Released
<1>2. CASE Report
  BY <1>2 DEF Report, BeginShutdown
<1>3. CASE CancelShutdown
  BY <1>3 DEF CancelShutdown
<1>4. CASE SignalShutdown
  BY <1>4 DEF SignalShutdown, BeginShutdown
<1>5. CASE TerminateRaises
  <2>1. Contains(callbacks, "shutdown") \in BOOLEAN
    BY DEF Contains
  <2> QED BY <1>5, <2>1 DEF TerminateRaises
<1>6. CASE NextCallback
  BY <1>6 DEF NextCallback, BeginShutdown
<1>7. ASSUME NEW r \in Resources, Register(r) PROVE LifeBounds'
  BY <1>7 DEF Register
<1>8. ASSUME NEW r \in Resources, AttemptFails(r) PROVE LifeBounds'
  <2>1. CASE tries[r] < Retries
    <3>1. tries' = [tries EXCEPT ![r] = tries[r] + 1] /\ tries[r] + 1 \in 0..Retries
      BY <1>8, <2>1, LifecycleAssumption DEF AttemptFails
    <3> QED BY <1>8, <3>1 DEF AttemptFails
  <2>2. CASE ~(tries[r] < Retries)
    BY <1>8, <2>2, LifecycleAssumption DEF AttemptFails
  <2> QED BY <2>1, <2>2
<1>9. ASSUME NEW r \in Resources, Connect(r) PROVE LifeBounds'
  BY <1>9, LifecycleAssumption DEF Connect
<1>10. ASSUME NEW r \in Resources, NEW verdict \in {"ok", "failed"}, Check(r, verdict) PROVE LifeBounds'
  BY <1>10, LifecycleAssumption DEF Check
<1>11. ASSUME NEW r \in Managed, Disconnected(r) \/ DisconnectFails(r) PROVE LifeBounds'
  BY <1>11 DEF Disconnected, DisconnectFails
<1>12. CASE UNCHANGED lifeVars
  BY <1>12 DEF lifeVars
<1> QED
  BY <1>1, <1>2, <1>3, <1>4, <1>5, <1>6, <1>7, <1>8, <1>9, <1>10, <1>11, <1>12 DEF LifeStep

LEMMA LifeTyped == LifeInv /\ LifeBounds => LifeTypeOK
BY DEF LifeInv, LifeShapes, LifeBounds, LifeTypeOK

-----------------------------------------------------------------------------
(* The container (Container.tla) *)

ContainerBounds == binding \in {"none", "transient", "shared", "scoped"} /\ passed \subseteq Tasks

LEMMA ContainerBeginsBounded == ContainerInit => ContainerBounds
BY DEF ContainerInit, ContainerBounds

LEMMA ContainerStaysBounded == ContainerBounds /\ [ContainerStep]_containerVars => ContainerBounds'
<1> SUFFICES ASSUME ContainerBounds, [ContainerStep]_containerVars PROVE ContainerBounds'
  OBVIOUS
<1> USE DEF ContainerBounds, pasts
<1>1. CASE MakeFresh
  BY <1>1 DEF MakeFresh
<1>2. ASSUME NEW x \in Extensions, Extend(x) PROVE ContainerBounds'
  BY <1>2 DEF Extend
<1>3. ASSUME NEW t \in Tasks, EnterScope(t) PROVE ContainerBounds'
  BY <1>3 DEF EnterScope
<1>4. ASSUME NEW c \in Callers, Forget(c) PROVE ContainerBounds'
  BY <1>4 DEF Forget, Change
<1>5. ASSUME NEW c \in Callers, Instance(c) \/ MakeCached(c) PROVE ContainerBounds'
  BY <1>5 DEF Instance, MakeCached
<1>6. ASSUME NEW c \in Callers, NEW as \in {"transient", "shared", "scoped"}, Bind(c, as)
      PROVE  ContainerBounds'
  BY <1>6 DEF Bind, Change
<1>7. ASSUME NEW c \in Callers, NEW raises \in BOOLEAN, MakeBuilds(c, raises) PROVE ContainerBounds'
  BY <1>7 DEF MakeBuilds
<1>8. CASE UNCHANGED containerVars
  BY <1>8 DEF containerVars
<1> QED BY <1>1, <1>2, <1>3, <1>4, <1>5, <1>6, <1>7, <1>8 DEF ContainerStep

LEMMA ContainerTyped == ContainerInv /\ ContainerBounds => ContainerTypeOK
<1> SUFFICES ASSUME ContainerShapes, Accounted, ContainerBounds PROVE ContainerTypeOK
  BY DEF ContainerInv
<1>1. spent \subseteq Extensions
  BY DEF ContainerShapes, Accounted, Range
<1>2. unmet \subseteq 1..MaxBuilt
  BY ContainerAssumption DEF ContainerShapes
<1> QED BY <1>1, <1>2 DEF ContainerShapes, ContainerBounds, ContainerTypeOK, ObjectOrNone, Wearable

-----------------------------------------------------------------------------
(* Requests on their way (Pipeline.tla) *)

VisitPlaces == {"idle", "bind", "enter", "payload", "unwind", "respond", "terminate", "render", "over"}
Raised == Raisable \cup {NoneYet}
Replies == Answers \cup {NoneYet}

PipelineBounds ==
    /\ maintenance \in {"up", "down", "listing"} /\ bound \in BOOLEAN
    /\ context \in [Streams -> Context] /\ visit \in [Streams -> Visit]
    /\ served \in 0..MaxServed

\* Visits, whatever their fields may hold; the ways one is edited.
Sights == {"up", "down", "listing"}
Hearings == Context \cup {Unheard}
VisitsOf(A, W, K, C, Q, R, Y, M, H) ==
    [at : A, who : W, stack : K, fits : BOOLEAN, found : BOOLEAN, saved : C, inside : Q, raised : R,
     answer : Y, reported : BOOLEAN, logged : Nat, seen : M, moved : BOOLEAN, heard : H]

LEMMA VisitsAre ==
  Visit = VisitsOf(VisitPlaces, Visitor, Seq(Middleware), Context, Seq(Middleware \X Context),
                   Raised, Replies, Sights, Hearings)
  BY DEF Visit, VisitsOf, VisitPlaces, Raised, Replies, Sights, Hearings

LEMMA VisitEdits ==
  ASSUME NEW A, NEW W, NEW K, NEW C, NEW Q, NEW R, NEW Y, NEW M, NEW H,
         NEW v \in VisitsOf(A, W, K, C, Q, R, Y, M, H)
  PROVE  /\ \A x \in A : [v EXCEPT !.at = x] \in VisitsOf(A, W, K, C, Q, R, Y, M, H)
         /\ \A x \in W : [v EXCEPT !.who = x] \in VisitsOf(A, W, K, C, Q, R, Y, M, H)
         /\ \A x \in K : [v EXCEPT !.stack = x] \in VisitsOf(A, W, K, C, Q, R, Y, M, H)
         /\ \A x \in C : [v EXCEPT !.saved = x] \in VisitsOf(A, W, K, C, Q, R, Y, M, H)
         /\ \A x \in Q : [v EXCEPT !.inside = x] \in VisitsOf(A, W, K, C, Q, R, Y, M, H)
         /\ \A x \in R : [v EXCEPT !.raised = x] \in VisitsOf(A, W, K, C, Q, R, Y, M, H)
         /\ \A x \in Y : [v EXCEPT !.answer = x] \in VisitsOf(A, W, K, C, Q, R, Y, M, H)
         /\ \A x \in M : [v EXCEPT !.seen = x] \in VisitsOf(A, W, K, C, Q, R, Y, M, H)
         /\ \A x \in H : [v EXCEPT !.heard = x] \in VisitsOf(A, W, K, C, Q, R, Y, M, H)
         /\ \A x \in Nat : [v EXCEPT !.logged = x] \in VisitsOf(A, W, K, C, Q, R, Y, M, H)
         /\ \A x \in BOOLEAN :
               /\ [v EXCEPT !.fits = x] \in VisitsOf(A, W, K, C, Q, R, Y, M, H)
               /\ [v EXCEPT !.found = x] \in VisitsOf(A, W, K, C, Q, R, Y, M, H)
               /\ [v EXCEPT !.moved = x] \in VisitsOf(A, W, K, C, Q, R, Y, M, H)
               /\ [v EXCEPT !.reported = x] \in VisitsOf(A, W, K, C, Q, R, Y, M, H)
<1>1. ASSUME NEW x \in A PROVE [v EXCEPT !.at = x] \in VisitsOf(A, W, K, C, Q, R, Y, M, H)
  BY DEF VisitsOf
<1>2. ASSUME NEW x \in W PROVE [v EXCEPT !.who = x] \in VisitsOf(A, W, K, C, Q, R, Y, M, H)
  BY DEF VisitsOf
<1>3. ASSUME NEW x \in K PROVE [v EXCEPT !.stack = x] \in VisitsOf(A, W, K, C, Q, R, Y, M, H)
  BY DEF VisitsOf
<1>4. ASSUME NEW x \in C PROVE [v EXCEPT !.saved = x] \in VisitsOf(A, W, K, C, Q, R, Y, M, H)
  BY DEF VisitsOf
<1>5. ASSUME NEW x \in Q PROVE [v EXCEPT !.inside = x] \in VisitsOf(A, W, K, C, Q, R, Y, M, H)
  BY DEF VisitsOf
<1>6. ASSUME NEW x \in R PROVE [v EXCEPT !.raised = x] \in VisitsOf(A, W, K, C, Q, R, Y, M, H)
  BY DEF VisitsOf
<1>7. ASSUME NEW x \in Y PROVE [v EXCEPT !.answer = x] \in VisitsOf(A, W, K, C, Q, R, Y, M, H)
  BY DEF VisitsOf
<1>8. ASSUME NEW x \in M PROVE [v EXCEPT !.seen = x] \in VisitsOf(A, W, K, C, Q, R, Y, M, H)
  BY DEF VisitsOf
<1>9. ASSUME NEW x \in H PROVE [v EXCEPT !.heard = x] \in VisitsOf(A, W, K, C, Q, R, Y, M, H)
  BY DEF VisitsOf
<1>10. ASSUME NEW x \in Nat PROVE [v EXCEPT !.logged = x] \in VisitsOf(A, W, K, C, Q, R, Y, M, H)
  BY DEF VisitsOf
<1>11. ASSUME NEW x \in BOOLEAN PROVE [v EXCEPT !.fits = x] \in VisitsOf(A, W, K, C, Q, R, Y, M, H)
  BY DEF VisitsOf
<1>12. ASSUME NEW x \in BOOLEAN PROVE [v EXCEPT !.found = x] \in VisitsOf(A, W, K, C, Q, R, Y, M, H)
  BY DEF VisitsOf
<1>13. ASSUME NEW x \in BOOLEAN PROVE [v EXCEPT !.moved = x] \in VisitsOf(A, W, K, C, Q, R, Y, M, H)
  BY DEF VisitsOf
<1>14. ASSUME NEW x \in BOOLEAN PROVE [v EXCEPT !.reported = x] \in VisitsOf(A, W, K, C, Q, R, Y, M, H)
  BY DEF VisitsOf
<1> QED BY ONLY <1>1, <1>2, <1>3, <1>4, <1>5, <1>6, <1>7, <1>8, <1>9, <1>10, <1>11, <1>12, <1>13, <1>14

LEMMA VisitMoves ==
  \A v \in Visit :
     /\ \A x \in VisitPlaces : [v EXCEPT !.at = x] \in Visit
     /\ \A x \in Visitor : [v EXCEPT !.who = x] \in Visit
     /\ \A x \in Seq(Middleware) : [v EXCEPT !.stack = x] \in Visit
     /\ \A x \in Context : [v EXCEPT !.saved = x] \in Visit
     /\ \A x \in Seq(Middleware \X Context) : [v EXCEPT !.inside = x] \in Visit
     /\ \A x \in Raised : [v EXCEPT !.raised = x] \in Visit
     /\ \A x \in Replies : [v EXCEPT !.answer = x] \in Visit
     /\ \A x \in Sights : [v EXCEPT !.seen = x] \in Visit
     /\ \A x \in Hearings : [v EXCEPT !.heard = x] \in Visit
     /\ \A x \in Nat : [v EXCEPT !.logged = x] \in Visit
     /\ \A x \in BOOLEAN :
           /\ [v EXCEPT !.fits = x] \in Visit
           /\ [v EXCEPT !.found = x] \in Visit
           /\ [v EXCEPT !.moved = x] \in Visit
           /\ [v EXCEPT !.reported = x] \in Visit
<1> DEFINE K == Seq(Middleware)
           Q == Seq(Middleware \X Context)
<1>1. Visit = VisitsOf(VisitPlaces, Visitor, K, Context, Q, Raised, Replies, Sights, Hearings)
  BY VisitsAre
<1> HIDE DEF K, Q
<1>2. \A v \in VisitsOf(VisitPlaces, Visitor, K, Context, Q, Raised, Replies, Sights, Hearings) :
     /\ \A x \in VisitPlaces : [v EXCEPT !.at = x] \in Visit
     /\ \A x \in Visitor : [v EXCEPT !.who = x] \in Visit
     /\ \A x \in K : [v EXCEPT !.stack = x] \in Visit
     /\ \A x \in Context : [v EXCEPT !.saved = x] \in Visit
     /\ \A x \in Q : [v EXCEPT !.inside = x] \in Visit
     /\ \A x \in Raised : [v EXCEPT !.raised = x] \in Visit
     /\ \A x \in Replies : [v EXCEPT !.answer = x] \in Visit
     /\ \A x \in Sights : [v EXCEPT !.seen = x] \in Visit
     /\ \A x \in Hearings : [v EXCEPT !.heard = x] \in Visit
     /\ \A x \in Nat : [v EXCEPT !.logged = x] \in Visit
     /\ \A x \in BOOLEAN :
           /\ [v EXCEPT !.fits = x] \in Visit
           /\ [v EXCEPT !.found = x] \in Visit
           /\ [v EXCEPT !.moved = x] \in Visit
           /\ [v EXCEPT !.reported = x] \in Visit
  BY ONLY <1>1, VisitEdits
<1> QED BY ONLY <1>1, <1>2 DEF K, Q

LEMMA NoneIsVisit == NoVisit \in Visit
<1> DEFINE someone == CHOOSE v \in Visitor : TRUE
<1>1. someone \in Visitor
  <2>1. [user |-> FALSE, prefers |-> FALSE, listed |-> FALSE, asks |-> "nothing"] \in Visitor
    BY DEF Visitor
  <2> QED BY <2>1
<1>2. Untouched \in Context /\ Unheard \in Hearings
  BY DEF Untouched, Context, Locales, Hearings
<1>3. NoVisit = [at |-> "idle", who |-> someone, stack |-> <<>>, fits |-> TRUE,
         found |-> FALSE, saved |-> Untouched, inside |-> <<>>, raised |-> NoneYet,
         answer |-> NoneYet, reported |-> FALSE, logged |-> 0, seen |-> "up", moved |-> FALSE,
          heard |-> Unheard]
  BY DEF NoVisit
<1>4. "idle" \in VisitPlaces /\ NoneYet \in Raised /\ NoneYet \in Replies /\ "up" \in Sights
  BY DEF VisitPlaces, Raised, Replies, Sights
<1>5. \A K, Q : <<>> \in K /\ <<>> \in Q =>
         NoVisit \in VisitsOf(VisitPlaces, Visitor, K, Context, Q, Raised, Replies, Sights, Hearings)
  <2> HIDE DEF someone
  <2> QED BY ONLY <1>1, <1>2, <1>3, <1>4 DEF VisitsOf
<1>6. <<>> \in Seq(Middleware) /\ <<>> \in Seq(Middleware \X Context)
  OBVIOUS
<1> QED BY ONLY <1>5, <1>6, VisitsAre

LEMMA PipelineBeginsBounded == PipelineInit => PipelineBounds
<1> SUFFICES ASSUME PipelineInit PROVE PipelineBounds
  OBVIOUS
<1>1. Untouched \in Context /\ NoVisit \in Visit /\ 0 \in 0..MaxServed
  BY NoneIsVisit, PipelineAssumption DEF Untouched, Context, Locales
<1> QED BY <1>1 DEF PipelineInit, PipelineBounds

\* One visit is changed, and the context of its stream; the others are as they were.
OneServes(s) ==
    /\ \E w \in Visit : SetVisit(s, w)
    /\ \E c \in Context : context' = [context EXCEPT ![s] = c]
    /\ UNCHANGED <<maintenance, bound>> /\ served' \in 0..MaxServed

LEMMA OneServesKeeps ==
  ASSUME PipelineBounds, NEW s \in Streams, OneServes(s) PROVE PipelineBounds'
<1>1. PICK w \in Visit : visit' = [visit EXCEPT ![s] = w]
  BY DEF OneServes, SetVisit
<1>2. PICK c \in Context : context' = [context EXCEPT ![s] = c]
  BY DEF OneServes
<1>3. /\ maintenance \in {"up", "down", "listing"} /\ bound \in BOOLEAN
      /\ context \in [Streams -> Context] /\ visit \in [Streams -> Visit]
      /\ maintenance' = maintenance /\ bound' = bound /\ served' \in 0..MaxServed
  BY DEF OneServes, PipelineBounds
<1>4. context' \in [Streams -> Context] /\ visit' \in [Streams -> Visit]
  BY ONLY <1>1, <1>2, <1>3
<1> QED BY <1>3, <1>4 DEF PipelineBounds

\* What a request holds.
Held(s) ==
    /\ visit[s] \in Visit /\ context[s] \in Context /\ context = [context EXCEPT ![s] = context[s]]
    /\ visit[s].who \in Visitor /\ visit[s].saved \in Context /\ visit[s].raised \in Raised
    /\ visit[s].answer \in Replies /\ visit[s].inside \in Seq(Middleware \X Context)
    /\ visit[s].logged \in Nat /\ context[s].user \in BOOLEAN /\ context[s].locale \in Locales

LEMMA AllHold == PipelineBounds => \A s \in Streams : Held(s)
<1> SUFFICES ASSUME PipelineBounds, NEW s \in Streams PROVE Held(s)
  OBVIOUS
<1>1. visit[s] \in Visit /\ context[s] \in Context /\ context = [context EXCEPT ![s] = context[s]]
  BY DEF PipelineBounds
<1> QED BY <1>1 DEF Held, Visit, Context, Raised, Replies

\* Several fields at once.
LEMMA VisitTurns ==
  \A v \in Visit : \A a \in VisitPlaces :
     /\ \A x \in Raised : [v EXCEPT !.at = a, !.raised = x] \in Visit
     /\ \A x \in Replies : [v EXCEPT !.at = a, !.answer = x] \in Visit
     /\ \A x \in BOOLEAN : [v EXCEPT !.at = a, !.found = x] \in Visit
     /\ \A x \in Sights : [v EXCEPT !.at = a, !.seen = x] \in Visit
     /\ \A x \in Seq(Middleware \X Context) : [v EXCEPT !.at = a, !.inside = x] \in Visit
     /\ \A x \in Nat : [v EXCEPT !.reported = TRUE, !.logged = x] \in Visit
     /\ \A x \in Hearings, y \in Replies, z \in Raised :
           [v EXCEPT !.at = a, !.heard = x, !.answer = y, !.raised = z] \in Visit
     /\ \A who \in Visitor, k \in Seq(Middleware), b \in BOOLEAN, c \in Context, z \in Raised :
           [v EXCEPT !.at = a, !.who = who, !.stack = k, !.fits = b, !.saved = c, !.raised = z]
              \in Visit
<1> SUFFICES ASSUME NEW v \in Visit, NEW a \in VisitPlaces
             PROVE  /\ \A x \in Raised : [v EXCEPT !.at = a, !.raised = x] \in Visit
                    /\ \A x \in Replies : [v EXCEPT !.at = a, !.answer = x] \in Visit
                    /\ \A x \in BOOLEAN : [v EXCEPT !.at = a, !.found = x] \in Visit
                    /\ \A x \in Sights : [v EXCEPT !.at = a, !.seen = x] \in Visit
                    /\ \A x \in Seq(Middleware \X Context) : [v EXCEPT !.at = a, !.inside = x] \in Visit
                    /\ \A x \in Nat : [v EXCEPT !.reported = TRUE, !.logged = x] \in Visit
                    /\ \A x \in Hearings, y \in Replies, z \in Raised :
                          [v EXCEPT !.at = a, !.heard = x, !.answer = y, !.raised = z] \in Visit
                    /\ \A who \in Visitor, k \in Seq(Middleware), b \in BOOLEAN, c \in Context,
                          z \in Raised :
                          [v EXCEPT !.at = a, !.who = who, !.stack = k, !.fits = b, !.saved = c,
                                    !.raised = z] \in Visit
  OBVIOUS
<1> DEFINE u == [v EXCEPT !.at = a]
<1>1. u \in Visit
  BY VisitMoves
<1>2. ASSUME NEW x \in Raised PROVE [v EXCEPT !.at = a, !.raised = x] \in Visit
  <2>1. [u EXCEPT !.raised = x] \in Visit
    BY ONLY <1>1, <1>2, VisitMoves
  <2> QED BY <2>1
<1>3. ASSUME NEW x \in Replies PROVE [v EXCEPT !.at = a, !.answer = x] \in Visit
  <2>1. [u EXCEPT !.answer = x] \in Visit
    BY ONLY <1>1, <1>3, VisitMoves
  <2> QED BY <2>1
<1>4. ASSUME NEW x \in BOOLEAN PROVE [v EXCEPT !.at = a, !.found = x] \in Visit
  <2>1. [u EXCEPT !.found = x] \in Visit
    BY ONLY <1>1, <1>4, VisitMoves
  <2> QED BY <2>1
<1>5. ASSUME NEW x \in Sights PROVE [v EXCEPT !.at = a, !.seen = x] \in Visit
  <2>1. [u EXCEPT !.seen = x] \in Visit
    BY ONLY <1>1, <1>5, VisitMoves
  <2> QED BY <2>1
<1>6. ASSUME NEW x \in Seq(Middleware \X Context) PROVE [v EXCEPT !.at = a, !.inside = x] \in Visit
  <2>1. [u EXCEPT !.inside = x] \in Visit
    BY ONLY <1>1, <1>6, VisitMoves
  <2> QED BY <2>1
<1>7. ASSUME NEW x \in Nat PROVE [v EXCEPT !.reported = TRUE, !.logged = x] \in Visit
  <2>1. [v EXCEPT !.reported = TRUE] \in Visit
    BY VisitMoves
  <2>2. [[v EXCEPT !.reported = TRUE] EXCEPT !.logged = x] \in Visit
    BY ONLY <2>1, <1>7, VisitMoves
  <2> QED BY <2>2
<1>8. ASSUME NEW x \in Hearings, NEW y \in Replies, NEW z \in Raised
      PROVE  [v EXCEPT !.at = a, !.heard = x, !.answer = y, !.raised = z] \in Visit
  <2>1. [u EXCEPT !.heard = x] \in Visit
    BY ONLY <1>1, <1>8, VisitMoves
  <2>2. [[u EXCEPT !.heard = x] EXCEPT !.answer = y] \in Visit
    BY ONLY <2>1, <1>8, VisitMoves
  <2>3. [[[u EXCEPT !.heard = x] EXCEPT !.answer = y] EXCEPT !.raised = z] \in Visit
    BY ONLY <2>2, <1>8, VisitMoves
  <2> QED BY <2>3
<1>9. ASSUME NEW who \in Visitor, NEW k \in Seq(Middleware), NEW b \in BOOLEAN, NEW c \in Context,
             NEW z \in Raised
      PROVE  [v EXCEPT !.at = a, !.who = who, !.stack = k, !.fits = b, !.saved = c, !.raised = z]
                \in Visit
  <2>1. PICK w \in Visit : w = [u EXCEPT !.who = who]
    BY ONLY <1>1, <1>9, VisitMoves
  <2>2. PICK x \in Visit : x = [w EXCEPT !.stack = k]
    BY ONLY <2>1, <1>9, VisitMoves
  <2>3. PICK y \in Visit : y = [x EXCEPT !.fits = b]
    BY ONLY <2>2, <1>9, VisitMoves
  <2>4. PICK q \in Visit : q = [y EXCEPT !.saved = c]
    BY ONLY <2>3, <1>9, VisitMoves
  <2>5. [q EXCEPT !.raised = z] \in Visit
    BY ONLY <2>4, <1>9, VisitMoves
  <2>6. [q EXCEPT !.raised = z] =
           [v EXCEPT !.at = a, !.who = who, !.stack = k, !.fits = b, !.saved = c, !.raised = z]
    BY ONLY <2>1, <2>2, <2>3, <2>4
  <2> QED BY <2>5, <2>6
<1> HIDE DEF u
<1> QED BY ONLY <1>2, <1>3, <1>4, <1>5, <1>6, <1>7, <1>8, <1>9

\* A visit is set, the context is inner or set.
LEMMA ServesOne ==
  ASSUME PipelineBounds, NEW s \in Streams, NEW w \in Visit, SetVisit(s, w),
         UNCHANGED context \/ \E c \in Context : context' = [context EXCEPT ![s] = c],
         UNCHANGED <<maintenance, bound>>, served' = served \/ served' \in 0..MaxServed
  PROVE  PipelineBounds'
<1>1. \E c \in Context : context' = [context EXCEPT ![s] = c]
  BY AllHold DEF Held
<1>2. served' \in 0..MaxServed
  BY DEF PipelineBounds
<1> QED BY <1>1, <1>2, OneServesKeeps DEF OneServes

\* The way in.
LEMMA ComingInBounded ==
  ASSUME PipelineBounds, NEW s \in Streams,
         \/ \E who \in Visitors, stack \in Stacks, fits \in BOOLEAN : ReceiveVisit(s, who, stack, fits)
         \/ BindRow(s) \/ GateReads(s) \/ GateDecides(s) \/ ChooseLocale(s)
  PROVE  PipelineBounds'
<1>0. /\ {"idle", "bind", "enter", "payload", "unwind"} \subseteq VisitPlaces
      /\ {"absent", "bug", NoneYet} \subseteq Raised /\ "maintenance" \in Replies
      /\ maintenance \in Sights /\ bound \in BOOLEAN /\ Held(s) /\ Middleware # {}
      /\ {"gate", "locale"} \subseteq Middleware
  BY AllHold DEF PipelineBounds, VisitPlaces, Raised, Replies, Answers, Raisable, ServerErrors, Sights,
                 Middleware
<1>1. ASSUME NEW who \in Visitors, NEW stack \in Stacks, NEW fits \in BOOLEAN,
             ReceiveVisit(s, who, stack, fits)
      PROVE  PipelineBounds'
  <2>1. who \in Visitor /\ stack \in Seq(Middleware)
    BY PipelineAssumption
  <2> DEFINE a == IF fits THEN "bind" ELSE "unwind"
             z == IF fits THEN NoneYet ELSE "absent"
             w == [NoVisit EXCEPT !.at = a, !.who = who, !.stack = stack, !.fits = fits,
                                  !.saved = context[s], !.raised = z]
  <2>2. a \in VisitPlaces /\ z \in Raised /\ context[s] \in Context
    BY <1>0 DEF Held
  <2>3. w \in Visit
    <3> HIDE DEF a, z, NoVisit
    <3> QED BY ONLY <2>1, <2>2, NoneIsVisit, VisitTurns, fits \in BOOLEAN
  <2>4. SetVisit(s, w) /\ UNCHANGED <<maintenance, bound>>
    BY <1>1 DEF ReceiveVisit
  <2>5. served' \in 0..MaxServed
    <3>1. served \in 0..MaxServed /\ MaxServed \in Nat
      BY PipelineAssumption DEF PipelineBounds
    <3>2. served < MaxServed /\ served' = served + 1
      BY <1>1 DEF ReceiveVisit
    <3> QED BY ONLY <3>1, <3>2
  <2>6. \E c \in Context : context' = [context EXCEPT ![s] = c]
    <3>1. [context[s] EXCEPT !.user = FALSE] \in Context
      BY <1>0 DEF Held, Context
    <3>2. context' = [context EXCEPT ![s] = [context[s] EXCEPT !.user = FALSE]]
      BY <1>1 DEF ReceiveVisit
    <3> QED BY <3>1, <3>2
  <2> HIDE DEF w
  <2> QED BY <2>3, <2>4, <2>5, <2>6, ServesOne
<1>2. ASSUME NEW w \in Visit, SetVisit(s, w), context' = context,
             UNCHANGED <<maintenance, bound, served>>
      PROVE  PipelineBounds'
  BY <1>2, ServesOne
<1>3. ASSUME NEW n \in Middleware, NEW c \in Context, CallNext(s, n, c),
             UNCHANGED <<maintenance, bound, served>>
      PROVE  PipelineBounds'
  <2> DEFINE q == Append(visit[s].inside, <<n, context[s]>>)
             w == [visit[s] EXCEPT !.at = "enter", !.inside = q]
  <2>1. q \in Seq(Middleware \X Context)
    BY <1>0 DEF Held
  <2>2. visit[s] \in Visit /\ "enter" \in VisitPlaces
    BY <1>0 DEF Held
  <2>3. w \in Visit
    <3> HIDE DEF q
    <3> QED BY ONLY <2>1, <2>2, VisitTurns
  <2>4. SetVisit(s, w) /\ \E d \in Context : context' = [context EXCEPT ![s] = d]
    BY <1>3 DEF CallNext
  <2> HIDE DEF w
  <2> QED BY <1>3, <2>3, <2>4, ServesOne
<1>4. ASSUME BindRow(s) PROVE PipelineBounds'
  <2>1. [visit[s] EXCEPT !.at = "enter", !.found = bound] \in Visit
    BY <1>0, VisitTurns DEF Held
  <2>2. [visit[s] EXCEPT !.at = "unwind", !.raised = "bug"] \in Visit
    BY <1>0, VisitTurns DEF Held
  <2> QED BY <1>2, <1>4, <2>1, <2>2 DEF BindRow, RaiseError
<1>5. ASSUME GateReads(s) PROVE PipelineBounds'
  <2>1. [visit[s] EXCEPT !.at = "payload", !.seen = maintenance] \in Visit
    BY <1>0, VisitTurns DEF Held
  <2> QED BY <1>0, <1>2, <1>3, <1>5, <2>1 DEF GateReads, Held
<1>6. ASSUME GateDecides(s) PROVE PipelineBounds'
  <2>1. [visit[s] EXCEPT !.at = "unwind", !.answer = "maintenance"] \in Visit
    BY <1>0, VisitTurns DEF Held
  <2> QED BY <1>0, <1>2, <1>3, <1>6, <2>1 DEF GateDecides, Held, Reply
<1>7. ASSUME ChooseLocale(s) PROVE PipelineBounds'
  <2> DEFINE asks == visit[s].who.asks
             l == CASE asks = "explicit" -> asks
                    [] asks # "explicit" /\ Preferred(s, context[s].user) -> "preferred"
                    [] asks = "header" /\ ~Preferred(s, context[s].user) -> asks
                    [] OTHER -> context[s].locale
  <2>1. l \in Locales
    BY <1>0 DEF Held, Locales
  <2>2. [context[s] EXCEPT !.locale = l] \in Context
    <3> HIDE DEF l
    <3> QED BY <1>0, <2>1 DEF Held, Context
  <2>3. CallNext(s, "locale", [context[s] EXCEPT !.locale = l]) /\ UNCHANGED <<maintenance, bound, served>>
    BY <1>7 DEF ChooseLocale
  <2> QED BY <1>0, <1>3, <2>2, <2>3
<1> QED BY <1>1, <1>4, <1>5, <1>6, <1>7

\* The rest of the middleware, and the destination.
LEMMA PassingBounded ==
  ASSUME PipelineBounds, NEW s \in Streams,
         Populate(s) \/ Authenticate(s) \/ Own(s) \/ Destination(s)
  PROVE  PipelineBounds'
<1>0. /\ {"enter", "unwind"} \subseteq VisitPlaces
      /\ {"unauthenticated", "bug"} \subseteq Raised /\ "own" \in Replies /\ Held(s)
      /\ {"populate", "auth", "own"} \subseteq Middleware
  BY AllHold DEF VisitPlaces, Raised, Replies, Answers, Raisable, ServerErrors, Middleware
<1>2. ASSUME NEW w \in Visit, SetVisit(s, w), context' = context,
             UNCHANGED <<maintenance, bound, served>>
      PROVE  PipelineBounds'
  BY <1>2, ServesOne
<1>3. ASSUME NEW n \in Middleware, NEW c \in Context, CallNext(s, n, c),
             UNCHANGED <<maintenance, bound, served>>
      PROVE  PipelineBounds'
  <2> DEFINE q == Append(visit[s].inside, <<n, context[s]>>)
             w == [visit[s] EXCEPT !.at = "enter", !.inside = q]
  <2>1. q \in Seq(Middleware \X Context)
    BY <1>0 DEF Held
  <2>2. visit[s] \in Visit /\ "enter" \in VisitPlaces
    BY <1>0 DEF Held
  <2>3. w \in Visit
    <3> HIDE DEF q
    <3> QED BY ONLY <2>1, <2>2, VisitTurns
  <2>4. SetVisit(s, w) /\ \E d \in Context : context' = [context EXCEPT ![s] = d]
    BY <1>3 DEF CallNext
  <2> HIDE DEF w
  <2> QED BY <1>3, <2>3, <2>4, ServesOne
<1>4. ASSUME NEW e \in {"unauthenticated", "bug"}, RaiseError(s, e), context' = context,
             UNCHANGED <<maintenance, bound, served>>
      PROVE  PipelineBounds'
  <2>1. [visit[s] EXCEPT !.at = "unwind", !.raised = e] \in Visit
    BY <1>0, VisitTurns DEF Held
  <2> QED BY <1>2, <1>4, <2>1 DEF RaiseError
<1>5. ASSUME Populate(s) PROVE PipelineBounds'
  <2> DEFINE user == visit[s].who.user
             l == IF visit[s].who.asks # "explicit" /\ Preferred(s, user)
                  THEN "preferred" ELSE context[s].locale
  <2>1. user \in BOOLEAN /\ l \in Locales
    BY <1>0 DEF Held, Locales, Visitor
  <2>2. [user |-> user, locale |-> l] \in Context
    <3> HIDE DEF user, l
    <3> QED BY <2>1 DEF Context
  <2>3. UNCHANGED <<maintenance, bound, served>>
    BY <1>5 DEF Populate
  <2>4. \/ CallNext(s, "populate", [user |-> user, locale |-> l])
        \/ RaiseError(s, "bug") /\ UNCHANGED context
    BY <1>5 DEF Populate
  <2> HIDE DEF user, l
  <2> QED BY <1>0, <1>3, <1>4, <2>2, <2>3, <2>4
<1>6. ASSUME Authenticate(s) PROVE PipelineBounds'
  BY <1>0, <1>3, <1>4, <1>6 DEF Authenticate, Held
<1>7. ASSUME Own(s) PROVE PipelineBounds'
  <2>1. [visit[s] EXCEPT !.at = "unwind", !.answer = "own"] \in Visit
    BY <1>0, VisitTurns DEF Held
  <2> QED BY <1>0, <1>2, <1>3, <1>4, <1>7, <2>1 DEF Own, Held, Reply
<1>8. ASSUME Destination(s) PROVE PipelineBounds'
  <2>1. UNCHANGED <<context, maintenance, bound, served>>
    BY <1>8 DEF Destination
  <2>2. PICK outcome \in {"invalid", "denied", "ok", "unavailable", "bug", "gone", "absent"} :
           SetVisit(s, [visit[s] EXCEPT !.at = "unwind", !.heard = context[s],
                           !.answer = IF outcome \in Raisable THEN visit[s].answer ELSE outcome,
                           !.raised = IF outcome \in Raisable THEN outcome ELSE visit[s].raised])
    BY <1>8 DEF Destination
  <2> DEFINE y == IF outcome \in Raisable THEN visit[s].answer ELSE outcome
             z == IF outcome \in Raisable THEN outcome ELSE visit[s].raised
  <2>3. y \in Replies /\ z \in Raised /\ context[s] \in Hearings
    BY <1>0 DEF Held, Replies, Raised, Answers, Raisable, ServerErrors, Hearings
  <2>4. SetVisit(s, [visit[s] EXCEPT !.at = "unwind", !.heard = context[s], !.answer = y, !.raised = z])
    BY <2>2
  <2>5. visit[s] \in Visit /\ "unwind" \in VisitPlaces
    BY <1>0 DEF Held
  <2>6. [visit[s] EXCEPT !.at = "unwind", !.heard = context[s], !.answer = y, !.raised = z] \in Visit
    <3> HIDE DEF y, z
    <3> QED BY ONLY <2>3, <2>5, VisitTurns
  <2> HIDE DEF y, z
  <2> QED BY <1>2, <2>1, <2>4, <2>6
<1> QED BY <1>5, <1>6, <1>7, <1>8

\* And out again.
LEMMA ComingOutBounded ==
  ASSUME PipelineBounds, NEW s \in Streams,
         Unwind(s) \/ Unwound(s) \/ MakeResponse(s) \/ RunTerminate(s) \/ Render(s) \/ Done(s)
  PROVE  PipelineBounds'
<1>0. /\ {"idle", "unwind", "respond", "terminate", "render", "over"} \subseteq VisitPlaces
      /\ {"bug", NoneYet} \subseteq Raised /\ "rendered" \in Replies /\ Raised \subseteq Replies
      /\ visit[s] \in Visit /\ visit[s].saved \in Context /\ visit[s].raised \in Raised
      /\ visit[s].inside \in Seq(Middleware \X Context)
  BY AllHold DEF Held, VisitPlaces, Raised, Replies, Answers, Raisable, ServerErrors
<1>1. UNCHANGED <<maintenance, bound, served>>
  BY DEF Unwind, Unwound, MakeResponse, RunTerminate, Render, Done
<1>2. ASSUME NEW w \in Visit, SetVisit(s, w),
             context' = context \/ \E c \in Context : context' = [context EXCEPT ![s] = c]
      PROVE  PipelineBounds'
  BY <1>1, <1>2, ServesOne
<1>3. ASSUME NEW a \in VisitPlaces, NEW e \in Raised, LeaveWith(s, a, e) PROVE PipelineBounds'
  <2>1. [visit[s] EXCEPT !.at = a, !.raised = e] \in Visit
    BY <1>0, VisitTurns
  <2> QED BY <1>0, <1>2, <1>3, <2>1 DEF LeaveWith
<1>4. ASSUME Unwind(s) PROVE PipelineBounds'
  <2> DEFINE q == visit[s].inside
             inner == [visit[s] EXCEPT !.inside = Front(q)]
  <2>1. q \in Seq(Middleware \X Context) /\ q # <<>>
    BY <1>0, <1>4 DEF Unwind
  <2>2. Front(q) \in Seq(Middleware \X Context) /\ Last(q) \in Middleware \X Context
    <3> DEFINE T == Middleware \X Context
    <3>1. \A u \in Seq(T) : u # <<>> => Front(u) \in Seq(T) /\ Last(u) \in T
      <4> HIDE DEF T
      <4> QED BY DEF Front, Last
    <3> HIDE DEF q
    <3> QED BY <2>1, <3>1
  <2>3. inner \in Visit /\ [inner EXCEPT !.raised = "bug"] \in Visit
    <3>1. inner \in Visit
      <4> HIDE DEF q
      <4> QED BY ONLY <1>0, <2>2, VisitMoves
    <3> HIDE DEF inner
    <3> QED BY ONLY <1>0, <3>1, VisitMoves
  <2>4. Last(q)[2] \in Context
    BY <2>2
  <2>5. /\ context' = [context EXCEPT ![s] = Last(q)[2]]
        /\ SetVisit(s, inner) \/ SetVisit(s, [inner EXCEPT !.raised = "bug"])
    BY <1>4 DEF Unwind
  <2> HIDE DEF q, inner
  <2> QED BY <1>2, <2>3, <2>4, <2>5
<1>5. ASSUME Unwound(s) PROVE PipelineBounds'
  <2>1. [visit[s] EXCEPT !.at = "respond"] \in Visit
    BY <1>0, VisitMoves
  <2> QED BY <1>0, <1>2, <1>3, <1>5, <2>1 DEF Unwound
<1>6. ASSUME MakeResponse(s) PROVE PipelineBounds'
  <2>1. [visit[s] EXCEPT !.at = "terminate"] \in Visit
    BY <1>0, VisitMoves
  <2> QED BY <1>0, <1>2, <1>3, <1>6, <2>1 DEF MakeResponse
<1>7. ASSUME RunTerminate(s) PROVE PipelineBounds'
  BY <1>0, <1>3, <1>7 DEF RunTerminate
<1>8. ASSUME Render(s) PROVE PipelineBounds'
  <2>1. \A v \in Visit : ReportError(v) \in Visit
    <3> SUFFICES ASSUME NEW v \in Visit PROVE ReportError(v) \in Visit
      OBVIOUS
    <3> DEFINE n == v.logged + (IF window < Limit THEN 1 ELSE 0)
    <3>1. v.logged \in Nat
      BY DEF Visit
    <3>2. n \in Nat
      BY <3>1
    <3>3. [v EXCEPT !.reported = TRUE, !.logged = n] \in Visit
      <4> HIDE DEF n
      <4> QED BY ONLY <1>0, <3>2, VisitTurns, v \in Visit
    <3>4. ReportError(v) = v \/ ReportError(v) = [v EXCEPT !.reported = TRUE, !.logged = n]
      BY DEF ReportError
    <3> HIDE DEF n
    <3> QED BY <3>3, <3>4
  <2>2. \A v \in Visit : v.raised \in Replies
    BY DEF Visit, Raised, Replies, Answers
  <2>3. \A v \in Visit : RenderException(v) \in Visit
    <3> SUFFICES ASSUME NEW v \in Visit PROVE RenderException(v) \in Visit
      OBVIOUS
    <3>1. PICK u \in Visit : u = IF v.raised \in ServerErrors THEN ReportError(v) ELSE v
      BY <2>1
    <3>2. RenderException(v) = [u EXCEPT !.answer = v.raised]
      BY <3>1 DEF RenderException
    <3>3. [u EXCEPT !.answer = v.raised] \in Visit
      BY <2>2, VisitMoves
    <3> QED BY <3>2, <3>3
  <2>4. \A v \in Visit : HandleUncaught(v) \subseteq Visit
    <3> SUFFICES ASSUME NEW v \in Visit PROVE HandleUncaught(v) \subseteq Visit
      OBVIOUS
    <3>1. PICK u \in Visit : u = ReportError(v)
      BY <2>1
    <3>2. [u EXCEPT !.answer = "rendered"] \in Visit /\ RenderException(u) \in Visit
      BY <1>0, <2>3, VisitMoves
    <3> QED BY <3>1, <3>2 DEF HandleUncaught
  <2>5. PICK v \in Visit : SetVisit(s, [v EXCEPT !.at = "over"])
    <3>1. \E v \in IF visit[s].raised = "bug" THEN HandleUncaught(visit[s])
                                             ELSE {RenderException(visit[s])} :
             SetVisit(s, [v EXCEPT !.at = "over"])
      BY <1>8 DEF Render
    <3> HIDE DEF HandleUncaught, RenderException
    <3> QED BY <1>0, <2>3, <2>4, <3>1
  <2>6. [v EXCEPT !.at = "over"] \in Visit
    BY <1>0, VisitMoves
  <2>7. context' = context
    BY <1>8 DEF Render
  <2> QED BY <1>2, <2>5, <2>6, <2>7
<1>9. ASSUME Done(s) PROVE PipelineBounds'
  BY <1>2, <1>9, NoneIsVisit DEF Done
<1> QED BY <1>4, <1>5, <1>6, <1>7, <1>8, <1>9

LEMMA PipelineStaysBounded == PipelineBounds /\ [PipelineStep]_pipelineVars => PipelineBounds'
<1> SUFFICES ASSUME PipelineBounds, [PipelineStep]_pipelineVars PROVE PipelineBounds'
  OBVIOUS
<1>1. ASSUME NEW s \in Streams, Serve(s) PROVE PipelineBounds'
  BY <1>1, ComingInBounded, PassingBounded, ComingOutBounded DEF Serve
<1>2. ASSUME NEW f \in {"up", "down", "listing"}, SwitchMaintenance(f) PROVE PipelineBounds'
  <2>1. /\ visit' = [s \in Streams |-> [visit[s] EXCEPT !.moved = visit[s].moved \/ visit[s].at = "payload"]]
        /\ UNCHANGED <<bound, context, served>> /\ maintenance' = f
    BY <1>2 DEF SwitchMaintenance
  <2>2. ASSUME NEW s \in Streams
        PROVE  [visit[s] EXCEPT !.moved = visit[s].moved \/ visit[s].at = "payload"] \in Visit
    <3>1. visit[s] \in Visit
      BY DEF PipelineBounds
    <3>2. (visit[s].moved \/ visit[s].at = "payload") \in BOOLEAN
      OBVIOUS
    <3> QED BY <3>1, <3>2, VisitMoves
  <2>3. visit' \in [Streams -> Visit]
    BY <2>1, <2>2
  <2> QED BY <2>1, <2>3 DEF PipelineBounds
<1>3. CASE RowComesOrGoes \/ WindowPasses
  BY <1>3 DEF RowComesOrGoes, WindowPasses, PipelineBounds
<1>4. CASE UNCHANGED pipelineVars
  BY <1>4 DEF pipelineVars, PipelineBounds
<1> QED BY <1>1, <1>2, <1>3, <1>4 DEF PipelineStep

LEMMA PipelineTyped == PipelineInv /\ PipelineBounds => PipelineTypeOK
<1> SUFFICES ASSUME PipelineInv, PipelineBounds PROVE PipelineTypeOK
  OBVIOUS
<1>1. window \in 0..Limit
  BY PipelineAssumption DEF PipelineInv
<1> QED BY <1>1 DEF PipelineBounds, PipelineTypeOK

-----------------------------------------------------------------------------
(* Validation (Validation.tla) *)

\* What a validator keeps of a pass: failed rules, for each key, and fields.
FormBounds == errors \in [ErrorKeys -> SUBSET (Rules \cup {"hook"})] /\ excluded \subseteq Fields

LEMMA FormsBeginBounded == FormsInit => FormBounds
BY DEF FormsInit, FormBounds, NoErrors

\* The rules a field or an element is ruled by are rules.
LEMMA RulesAre == form \in Form =>
  /\ \A f \in Fields : Range(form.rules[f].rules) \subseteq Rules
  /\ Range(form.each.rules) \subseteq Rules
<1> SUFFICES ASSUME form \in Form
             PROVE  /\ \A f \in Fields : Range(form.rules[f].rules) \subseteq Rules
                    /\ Range(form.each.rules) \subseteq Rules
  OBVIOUS
<1>1. \A r \in Ruleset : Range(r.rules) \subseteq Rules
  <2> SUFFICES ASSUME NEW r \in Ruleset PROVE Range(r.rules) \subseteq Rules
    OBVIOUS
  <2>1. r.rules \in Seq(Rules)
    BY DEF Ruleset
  <2> HIDE DEF Rules
  <2>2. \A i \in DOMAIN r.rules : r.rules[i] \in Rules
    BY <2>1
  <2> QED BY <2>2 DEF Range
<1>2. (\A f \in Fields : form.rules[f] \in Ruleset) /\ form.each \in Ruleset
  BY ValidationAssumption DEF Form
<1> QED BY <1>1, <1>2

LEMMA SweptBounded == form \in Form => \A d :
  /\ Swept(d).errors \in [ErrorKeys -> SUBSET (Rules \cup {"hook"})]
  /\ Swept(d).excluded \subseteq Fields
<1> SUFFICES ASSUME form \in Form, NEW d
             PROVE  /\ Swept(d).errors \in [ErrorKeys -> SUBSET (Rules \cup {"hook"})]
                    /\ Swept(d).excluded \subseteq Fields
  OBVIOUS
<1>1. \A f \in Fields : FieldErrors(f, d) \subseteq Rules
  BY RulesAre DEF FieldErrors, Reported, Applicable
<1>2. \A i : ElementErrors(i) \subseteq Rules
  BY RulesAre DEF ElementErrors, Reported
<1> HIDE DEF FieldErrors, ElementErrors, Rules
<1>3. \A k \in ErrorKeys : Swept(d).errors[k] \subseteq Rules \cup {"hook"}
  BY <1>1, <1>2 DEF Swept
<1>4. Swept(d).errors = [k \in ErrorKeys |-> Swept(d).errors[k]]
  BY DEF Swept
<1>5. Swept(d).excluded \subseteq Fields
  BY DEF Swept
<1> QED BY <1>3, <1>4, <1>5

LEMMA FormsStayBounded == FormsInv /\ FormBounds /\ [FormStep]_formVars => FormBounds'
<1> SUFFICES ASSUME FormsInv, FormBounds, [FormStep]_formVars PROVE FormBounds'
  OBVIOUS
<1>1. form \in Form
  BY DEF FormsInv, FormShapes
<1>2. ASSUME NEW d, Sweep(d) PROVE FormBounds'
  BY <1>1, <1>2, SweptBounded DEF Sweep, FormBounds
<1>3. ASSUME NEW r \in Rules, AwaitRule(r) PROVE FormBounds'
  <2>1. errors' = errors \/ errors' = [errors EXCEPT ![pass.field] = errors[pass.field] \cup {r}]
    BY <1>3 DEF AwaitRule
  <2>2. excluded' = excluded /\ pass.field \in Fields
    BY <1>3 DEF AwaitRule
  <2>3. pass.field \in ErrorKeys
    BY <2>2 DEF ErrorKeys
  <2> HIDE DEF Rules
  <2> QED BY <2>1, <2>2, <2>3 DEF FormBounds
<1>4. CASE UNCHANGED formVars
  BY <1>4 DEF FormBounds, formVars
<1>5. CASE NextField \/ PassEnds \/ RowChanges
  BY <1>5 DEF FormBounds, NextField, PassEnds, RowChanges
<1> QED BY <1>2, <1>3, <1>4, <1>5 DEF FormStep, Passes, PassesAsync

LEMMA FormsTyped == FormsInv /\ FormBounds => FormsTypeOK
BY DEF FormsInv, FormShapes, FormBounds, FormsTypeOK

-----------------------------------------------------------------------------
(* Related rows (Relations.tla) *)

\* As many copies of a row as it has are among the copies of all of them.
LEMMA CopiesOfOne ==
  ASSUME NEW K, IsFiniteSet(K), NEW rows \in [K -> Nat], NEW k \in K
  PROVE  rows[k] <= Cardinality(RowCopies(rows)) /\ IsFiniteSet(RowCopies(rows))
<1> DEFINE All == {{r} \X (1..rows[r]) : r \in K}
           own == {k} \X (1..rows[k])
<1>1. \A r \in K : IsFiniteSet({r} \X (1..rows[r])) /\ Cardinality({r} \X (1..rows[r])) = rows[r]
  <2> SUFFICES ASSUME NEW r \in K
               PROVE  IsFiniteSet({r} \X (1..rows[r])) /\ Cardinality({r} \X (1..rows[r])) = rows[r]
    OBVIOUS
  <2>1. rows[r] \in Nat
    OBVIOUS
  <2>2. IsFiniteSet(1..rows[r]) /\ Cardinality(1..rows[r]) = rows[r]
    BY <2>1, FS_Interval
  <2>3. IsFiniteSet({r}) /\ Cardinality({r}) = 1
    BY FS_Singleton
  <2>4. /\ IsFiniteSet({r} \X (1..rows[r]))
        /\ Cardinality({r} \X (1..rows[r])) = Cardinality({r}) * Cardinality(1..rows[r])
    BY <2>2, <2>3, FS_Product
  <2> QED BY <2>1, <2>2, <2>3, <2>4
<1>2. IsFiniteSet(All)
  <2> DEFINE f == [r \in K |-> {r} \X (1..rows[r])]
  <2>1. f \in [K -> All] /\ \A T \in All : \E r \in K : f[r] = T
    OBVIOUS
  <2> HIDE DEF f, All
  <2>2. f \in Surjection(K, All)
    BY <2>1 DEF Surjection
  <2> QED BY <2>2, FS_Surjection
<1>3. \A T \in All : IsFiniteSet(T)
  BY <1>1
<1>4. RowCopies(rows) = UNION All
  BY DEF RowCopies
<1>5. IsFiniteSet(RowCopies(rows))
  <2> HIDE DEF All
  <2> QED BY <1>2, <1>3, <1>4, FS_UNION
<1>6. own \in SUBSET RowCopies(rows)
  BY <1>4
<1>7. Cardinality(own) <= Cardinality(RowCopies(rows))
  <2> HIDE DEF own
  <2> QED BY <1>5, <1>6, FS_Subset
<1>8. Cardinality(own) = rows[k]
  BY <1>1
<1> HIDE DEF own
<1> QED BY ONLY <1>5, <1>7, <1>8

FewPivots == \A l \in Parents \X Children \X Types : pivots[l] <= MaxPivots
MoreOfRelations == FewPivots /\ strayed \in BOOLEAN

LEMMA RelationsBeginTyped == RelationsInit => MoreOfRelations
<1> SUFFICES ASSUME RelationsInit PROVE MoreOfRelations
  OBVIOUS
<1> DEFINE K == Parents \X Children \X Types
<1>1. pivots = [l \in K |-> 0] /\ strayed = FALSE
  BY DEF RelationsInit
<1>2. \A l \in K : pivots[l] <= MaxPivots
  <2> HIDE DEF K
  <2> QED BY <1>1, RelationsAssumption
<1> QED BY <1>1, <1>2 DEF MoreOfRelations, FewPivots

LEMMA RelationsStayTyped ==
  RelationsInv /\ MoreOfRelations /\ [RelationStep]_relationVars => MoreOfRelations'
<1> SUFFICES ASSUME RelTypes, MoreOfRelations, [RelationStep]_relationVars PROVE MoreOfRelations'
  BY DEF RelationsInv
<1> DEFINE K == Parents \X Children \X Types
<1>1. pivots \in [K -> Nat] /\ MaxPivots \in Nat /\ (\A l \in K : pivots[l] <= MaxPivots)
  BY RelationsAssumption DEF RelTypes, MoreOfRelations, FewPivots
<1>2. IsFiniteSet(K)
  <2>1. IsFiniteSet({Here} \cup {Elsewhere}) /\ Types = {Here} \cup {Elsewhere}
    BY FS_Singleton, FS_Union, Zenon DEF Types
  <2>2. IsFiniteSet(Parents \X Children)
    BY RelationsAssumption, FS_Product
  <2>3. IsFiniteSet((Parents \X Children) \X Types)
    BY <2>1, <2>2, FS_Product
  <2> DEFINE f == [l \in (Parents \X Children) \X Types |-> <<l[1][1], l[1][2], l[2]>>]
  <2>4. f \in Surjection((Parents \X Children) \X Types, K)
    <3>1. f \in [(Parents \X Children) \X Types -> K]
      OBVIOUS
    <3>2. \A l \in K : \E k \in (Parents \X Children) \X Types : f[k] = l
      <4> SUFFICES ASSUME NEW l \in K PROVE \E k \in (Parents \X Children) \X Types : f[k] = l
        OBVIOUS
      <4>1. <<<<l[1], l[2]>>, l[3]>> \in (Parents \X Children) \X Types
        OBVIOUS
      <4>2. f[<<<<l[1], l[2]>>, l[3]>>] = l
        BY <4>1
      <4> QED BY <4>1, <4>2
    <3> HIDE DEF f, K
    <3> QED BY <3>1, <3>2 DEF Surjection
  <2> HIDE DEF f, K
  <2> QED BY <2>3, <2>4, FS_Surjection
<1>3. \A l \in K : pivots[l] <= Cardinality(RowCopies(pivots)) /\ IsFiniteSet(RowCopies(pivots))
  <2> HIDE DEF K
  <2> SUFFICES ASSUME NEW l \in K
               PROVE  pivots[l] <= Cardinality(RowCopies(pivots)) /\ IsFiniteSet(RowCopies(pivots))
    OBVIOUS
  <2> QED BY ONLY <1>1, <1>2, l \in K, CopiesOfOne
<1>4. CASE UNCHANGED relationVars
  BY <1>4 DEF relationVars, MoreOfRelations, FewPivots
<1>5. ASSUME NEW p \in Parents, NEW c \in Children, NEW type \in Types, Link(p, c, type)
      PROVE  MoreOfRelations'
  <2>1. /\ pivots' = [pivots EXCEPT ![<<p, c, type>>] = pivots[<<p, c, type>>] + 1]
        /\ strayed' = strayed /\ <<p, c, type>> \in K
        /\ Cardinality(RowCopies(pivots)) < MaxPivots
    BY <1>5 DEF Link, OnlyPivots
  <2>2. ASSUME NEW k, k = <<p, c, type>> PROVE \A l \in K : pivots'[l] <= MaxPivots
    <3>1. /\ pivots' = [pivots EXCEPT ![k] = pivots[k] + 1] /\ k \in K
      BY <2>1, <2>2
    <3>2. IsFiniteSet(RowCopies(pivots)) => Cardinality(RowCopies(pivots)) \in Nat
      BY FS_CardinalityType
    <3>3. pivots[k] <= Cardinality(RowCopies(pivots)) /\ pivots[k] \in Nat
      BY <1>1, <1>3, <3>1
    <3>4. Cardinality(RowCopies(pivots)) \in Nat
      BY <1>3, <3>1, <3>2
    <3> HIDE DEF K
    <3>5. pivots[k] + 1 <= MaxPivots
      BY <1>1, <2>1, <3>3, <3>4
    <3> QED BY <1>1, <3>1, <3>5
  <2> QED BY <2>1, <2>2 DEF MoreOfRelations, FewPivots, Types
<1>6. ASSUME NEW p \in Parents, NEW cs, NEW types, Unlink(p, cs, types) PROVE MoreOfRelations'
  <2>1. /\ pivots' = [l \in DOMAIN pivots |-> IF l[1] = p /\ l[2] \in cs /\ l[3] \in types THEN 0 ELSE pivots[l]]
        /\ strayed' = strayed
    BY <1>6 DEF Unlink, OnlyPivots
  <2>2. \A l \in K : pivots'[l] \in {0, pivots[l]}
    BY <1>1, <2>1
  <2>3. \A l \in K : pivots'[l] <= MaxPivots
    <3> HIDE DEF K
    <3> QED BY <1>1, <2>2
  <2> QED BY <2>1, <2>3 DEF MoreOfRelations, FewPivots, Types
<1>7. ASSUME NEW cs, NEW related, TrashAll(cs, related) PROVE MoreOfRelations'
  BY <1>7 DEF TrashAll, MoreOfRelations, FewPivots
<1>8. ASSUME UNCHANGED <<pivots, strayed>> PROVE MoreOfRelations'
  BY <1>8 DEF MoreOfRelations, FewPivots
<1>9. ASSUME NEW p \in Parents, NEW c \in Children, NEW type \in Types, CreateChild(p, c, type)
      PROVE  MoreOfRelations'
  BY <1>8, <1>9 DEF CreateChild, OnlyChildren
<1>10. ASSUME NEW p \in Parents, CreateOrDeleteParent(p) PROVE MoreOfRelations'
  BY <1>8, <1>10 DEF CreateOrDeleteParent
<1>11. ASSUME NEW c \in Children, TrashOrRestore(c) \/ DeleteChild(c) PROVE MoreOfRelations'
  BY <1>8, <1>11 DEF TrashOrRestore, DeleteChild, OnlyChildren
<1>12. ASSUME NEW c \in Children, NEW owner \in Parents \cup {Null}, MoveChild(c, owner)
       PROVE  MoreOfRelations'
  BY <1>8, <1>12 DEF MoveChild, OnlyChildren
<1>13. ASSUME NEW g \in Grands, NEW c \in Children, PointAt(g, c) PROVE MoreOfRelations'
  BY <1>8, <1>13 DEF PointAt
<1>14. ASSUME NEW n \in Nodes, Uproot(n) PROVE MoreOfRelations'
  BY <1>8, <1>14 DEF Uproot
<1>15. ASSUME NEW n \in Nodes, NEW m, HangUnder(n, m) PROVE MoreOfRelations'
  BY <1>8, <1>15 DEF HangUnder
<1> QED
  BY <1>4, <1>5, <1>6, <1>7, <1>9, <1>10, <1>11, <1>12, <1>13, <1>14, <1>15
  DEF RelationStep, DeleteThroughHasMany, DeleteThroughPivot

LEMMA RelationsTyped == RelationsInv /\ MoreOfRelations => RelationsTypeOK
<1> SUFFICES ASSUME RelationsInv, MoreOfRelations PROVE RelationsTypeOK
  OBVIOUS
<1> DEFINE K == Parents \X Children \X Types
<1>1. pivots \in [K -> Nat] /\ MaxPivots \in Nat /\ (\A l \in K : pivots[l] <= MaxPivots)
  BY RelationsAssumption DEF RelationsInv, RelTypes, MoreOfRelations, FewPivots
<1>2. pivots \in [K -> 0..MaxPivots]
  <2> HIDE DEF K
  <2> QED BY <1>1
<1> QED BY <1>2 DEF RelationsInv, RelTypes, MoreOfRelations, RelationsTypeOK

-----------------------------------------------------------------------------
(* Queries, walks and pages (Query.tla) *)

\* What a query goes through, and which rows the model shows, is settled when it is made.
QuerySettled == through \in {"nothing", "key", "pivot"} /\ trash \in {"exclude", "only", "include"}

LEMMA QueryBeginsSettled == QueryInit => QuerySettled
BY DEF QueryInit, QuerySettled

LEMMA QueryStaysSettled == QuerySettled /\ [QueryStep]_queryVars => QuerySettled'
BY DEF QuerySettled, QueryStep, queryVars, Chain, Prepare, Terminal

LEMMA QueryTyped == QueryInv /\ QuerySettled => QueryTypeOK
<1> SUFFICES ASSUME QueryInv, QuerySettled PROVE QueryTypeOK
  OBVIOUS
<1>1. ASSUME NEW t \in Holders, answer[t] # NoRows
      PROVE  answer[t].rows \subseteq TableRow /\ answer[t].wheres \in Seq(Clause)
  BY <1>1 DEF QueryInv, FoundBy
<1>2. {prepared, lost} \subseteq BOOLEAN
  BY DEF QueryInv
<1> QED BY <1>1, <1>2 DEF QueryInv, QuerySettled, QueryTypeOK

LEMMA PagesTyped == PagesInv => PagesTypeOK
<1> SUFFICES ASSUME PagesInv PROVE PagesTypeOK
  OBVIOUS
<1>1. shown # <<>> => Head(shown) \in Position /\ Last(shown) \in Position
  BY DEF PagesInv, Last
<1>2. settled \subseteq Position
  <2>1. TableRows \subseteq Position
    BY DEF TableRows, Position, PagesInv, Absent, TheIds
  <2> QED BY <2>1 DEF PagesInv
<1> QED BY <1>1, <1>2 DEF PagesInv, PagesTypeOK

-----------------------------------------------------------------------------
(* The schema (Migrations.tla) *)

\* No migration is undone more than once too often, and what a rollback has undone it can
\* still commit.
Reversible(e, at, done) == at = "down" => \A m \in done : e[m] > Undone
EffectsBounded ==
    /\ \A m \in Migrations : effect[m] >= Undone
    /\ \A d \in Deploys : Reversible(effect, deploy[d].at, deploy[d].done)

LEMMA MigrationsBeginBounded == MigrationsInit => EffectsBounded
BY DEF MigrationsInit, EffectsBounded, Reversible, Resting, Begun, Undone

LEMMA MigrationsStayBounded ==
  MigrationsInv /\ EffectsBounded /\ [MigrationStep]_migrationVars => EffectsBounded'
<1> SUFFICES ASSUME MigrationsInv, EffectsBounded, [MigrationStep]_migrationVars
             PROVE  EffectsBounded'
  OBVIOUS
<1>1. /\ deploy \in [Deploys -> DeployRecords] /\ effect \in [Migrations -> Int]
      /\ \A d \in Deploys : deploy[d].done \subseteq Migrations
  BY DEF MigrationsInv, MigrationShapes, DeployRecords
<1>2. /\ \A m \in Migrations : effect[m] >= Undone
      /\ \A d \in Deploys : Reversible(effect, deploy[d].at, deploy[d].done)
  BY DEF EffectsBounded
<1>3. ASSUME effect' = effect, NEW d \in Deploys, NEW mine, deploy' = [deploy EXCEPT ![d] = mine],
             Reversible(effect, mine.at, mine.done)
      PROVE  EffectsBounded'
  <2>1. \A e \in Deploys : deploy'[e] = deploy[e] \/ deploy'[e] = mine
    BY <1>1, <1>3
  <2>2. \A e \in Deploys : Reversible(effect, deploy'[e].at, deploy'[e].done)
    BY <1>2, <1>3, <2>1
  <2> QED BY <1>2, <1>3, <2>2 DEF EffectsBounded
<1>4. ASSUME UNCHANGED <<effect, deploy>> PROVE EffectsBounded'
  BY <1>4, <1>2 DEF EffectsBounded
<1>5. ASSUME NEW d \in Deploys, NEW at, NEW next, StartCommand(d, at, next) PROVE EffectsBounded'
  <2>1. Reversible(effect, Begun(at, {}, 0, next).at, Begun(at, {}, 0, next).done)
    BY DEF Begun, Reversible
  <2> QED BY <1>3, <1>5, <2>1 DEF StartCommand
<1>6. ASSUME NEW d \in Deploys, BeginRun(d) PROVE EffectsBounded'
  <2> DEFINE mine == Begun("up", files \ Applied, LastBatch + 1, "idle")
  <2>1. Reversible(effect, mine.at, mine.done)
    BY DEF Begun, Reversible
  <2> QED BY <1>3, <1>6, <2>1 DEF BeginRun
<1>7. ASSUME NEW d \in Deploys, NEW next, BeginRollback(d, next) PROVE EffectsBounded'
  <2>1. PICK others : deploy' = [deploy EXCEPT ![d] = Begun("down", others, 0, next)] /\ effect' = effect
    BY <1>7 DEF BeginRollback
  <2>2. Reversible(effect, Begun("down", others, 0, next).at, Begun("down", others, 0, next).done)
    BY DEF Begun, Reversible
  <2> QED BY <1>3, <2>1, <2>2
<1>8. ASSUME NEW d \in Deploys, AbortCommand(d) PROVE EffectsBounded'
  <2>1. Reversible(effect, Resting.at, Resting.done)
    BY DEF Begun, Reversible, Resting
  <2> QED BY <1>3, <1>8, <2>1 DEF AbortCommand
<1>9. ASSUME NEW d \in Deploys, MigrateNext(d) PROVE EffectsBounded'
  <2>1. PICK m : m = NextMigration(d)
    OBVIOUS
  <2>2. InTransaction(d) /\ CanApply(d, m) /\ effect' = effect
        /\ deploy' = [deploy EXCEPT ![d] = [deploy[d] EXCEPT !.todo = deploy[d].todo \ {m},
                                                      !.done = deploy[d].done \cup {m}]]
    BY <1>9, <2>1 DEF MigrateNext, Migrate
  <2> DEFINE mine == [deploy[d] EXCEPT !.todo = deploy[d].todo \ {m}, !.done = deploy[d].done \cup {m}]
  <2>3. deploy' = [deploy EXCEPT ![d] = mine] /\ mine.at = deploy[d].at
        /\ mine.done = deploy[d].done \cup {m}
    BY <1>1, <2>2 DEF DeployRecords
  <2>4. deploy[d].at = "down" => effect[m] > Undone
    <3> SUFFICES ASSUME deploy[d].at = "down" PROVE effect[m] > Undone
      OBVIOUS
    <3>1. effect[m] > (IF m \in OnlyData THEN Undone ELSE 0)
      BY <2>2 DEF CanApply, CanDown
    <3>2. m \in Migrations
      <4>1. deploy[d].todo \subseteq Migrations /\ deploy[d].todo # {}
        BY <1>1, <1>9 DEF MigrateNext, DeployRecords
      <4>2. IsFiniteSet(deploy[d].todo) /\ Migrations \subseteq Int
        BY <4>1, MigrationsAssumption, FS_Subset
      <4>3. m \in deploy[d].todo
        BY <2>1, <4>1, <4>2, Greatest, Least DEF NextMigration
      <4> QED BY <4>1, <4>3
    <3>3. effect[m] \in Int
      BY <1>1, <3>2
    <3> QED BY <3>1, <3>3 DEF Undone
  <2>5. Reversible(effect, mine.at, mine.done)
    BY <1>2, <2>3, <2>4 DEF Reversible
  <2> HIDE DEF mine
  <2> QED BY <1>3, <2>2, <2>3, <2>5
<1>10. ASSUME NEW d \in Deploys, DropAll(d) PROVE EffectsBounded'
  <2>1. \A e \in Deploys : deploy'[e].at # "down" \/ deploy'[e].done = {}
    <3>1. PICK then : deploy' = [deploy EXCEPT ![d] = Begun(then, {}, 0, "idle")]
      BY <1>10 DEF DropAll
    <3>2. \A e \in Deploys : e = d \/ (e \in Others(d) /\ deploy'[e] = deploy[e] /\ ~InTransaction(e))
      BY <1>1, <1>10, <3>1 DEF DropAll, Others
    <3>3. deploy'[d].done = {}
      BY <1>1, <3>1 DEF Begun
    <3> QED BY <3>2, <3>3 DEF InTransaction
  <2>2. \A m \in Migrations : effect'[m] = 0
    BY <1>10 DEF DropAll
  <2> QED BY <2>1, <2>2 DEF EffectsBounded, Reversible, Undone
<1>11. ASSUME NEW d \in Deploys, CommitCommand(d) PROVE EffectsBounded'
  <2> DEFINE done == deploy[d].done
             up == deploy[d].at = "up"
  <2>1. \A m \in Migrations :
           /\ m \notin done => effect'[m] = effect[m]
           /\ m \in done /\ up => effect'[m] = effect[m] + 1
           /\ m \in done /\ ~up => effect'[m] = effect[m] - 1
    BY <1>11 DEF CommitCommand
  <2>2. ~up => \A m \in done : effect[m] > Undone
    BY <1>2, <1>11 DEF Reversible, CommitCommand, InTransaction
  <2>3. \A e \in Deploys : e # d => \A m \in deploy[e].done : m \notin done
    BY DEF MigrationsInv, DeploysApart, Others
  <2>4. PICK then : deploy' = [deploy EXCEPT ![d] = Begun(then, {}, 0, "idle")]
    BY <1>11 DEF CommitCommand
  <2>5. deploy'[d].done = {} /\ \A e \in Deploys : e # d => deploy'[e] = deploy[e]
    BY <1>1, <2>4 DEF Begun
  <2> HIDE DEF done, up
  <2>6. \A m \in Migrations : effect'[m] >= Undone
    BY <1>1, <1>2, <2>1, <2>2 DEF Undone
  <2>7. ASSUME NEW e \in Deploys PROVE Reversible(effect', deploy'[e].at, deploy'[e].done)
    <3>1. CASE e = d
      BY <2>5, <3>1 DEF Reversible
    <3>2. CASE e # d
      <4>1. \A m \in deploy[e].done : effect'[m] = effect[m]
        BY <1>1, <2>1, <2>3, <3>2
      <4> QED BY <1>2, <2>5, <3>2, <4>1 DEF Reversible
    <3> QED BY <3>1, <3>2
  <2> QED BY <2>6, <2>7 DEF EffectsBounded
<1>12. ASSUME NEW s, Checkout(s) PROVE EffectsBounded'
  BY <1>4, <1>12 DEF Checkout
<1>13. CASE UNCHANGED migrationVars
  BY <1>4, <1>13 DEF migrationVars
<1> QED
  BY <1>5, <1>6, <1>7, <1>8, <1>9, <1>10, <1>11, <1>12, <1>13 DEF MigrationStep

LEMMA MigrationsTyped == MigrationsInv /\ EffectsBounded => MigrationsTypeOK
<1> SUFFICES ASSUME MigrationsInv, EffectsBounded PROVE MigrationsTypeOK
  OBVIOUS
<1>1. effect \in [Migrations -> Int] /\ \A m \in Migrations : effect[m] <= 1 /\ effect[m] >= Undone
  BY DEF MigrationsInv, MigrationShapes, DeploysApart, EffectsBounded
<1>2. effect \in [Migrations -> Undone..2]
  BY <1>1 DEF Undone
<1> QED BY <1>2 DEF MigrationsInv, MigrationShapes, DeployRecords, MigrationsTypeOK

-----------------------------------------------------------------------------
(* The dispatcher (Events.tla) *)

\* What is picked of different items is different, and is what there is of them.
LEMMA PickedDistinct ==
  \A T, set : \A s \in Seq(T) : Distinct(s) => Distinct(Those(s, set))
<1> SUFFICES ASSUME NEW T, NEW set, NEW s \in Seq(T), Distinct(s) PROVE Distinct(Those(s, set))
  OBVIOUS
<1> DEFINE n == Len(s)
           U == T \cap set
           Upto(i) == {s[j] : j \in 1..i}
<1>1. n \in Nat /\ \A i \in 1..n : s[i] \in T
  OBVIOUS
<1>2. PICK f : (\A i \in 0..n : f[i] \in Seq(U)) /\ Picks(f, s, set)
  BY ThoseBy
<1>3. /\ f[0] = <<>> /\ f[n] = Those(s, set)
      /\ \A i \in 1..n : f[i] = IF s[i] \in set THEN Append(f[i - 1], s[i]) ELSE f[i - 1]
  BY <1>1, <1>2 DEF Picks
<1> DEFINE P == {i \in 0..n : Distinct(f[i]) /\ Range(f[i]) \subseteq Upto(i)}
<1>4. 0 \in P
  BY <1>1, <1>3, NoneHas
<1>5. ASSUME NEW i \in 1..n, i - 1 \in P PROVE i \in P
  <2>1. i - 1 \in 0..n /\ i \in 0..n /\ Upto(i) = Upto(i - 1) \cup {s[i]}
    <3>1. 1..i = (1..(i - 1)) \cup {i}
      BY <1>1
    <3>2. i - 1 \in 0..n /\ i \in 0..n
      BY <1>1
    <3> QED BY <3>1, <3>2
  <2>2. s[i] \notin Upto(i - 1)
    <3>1. \A j \in 1..(i - 1) : j \in 1..n /\ j # i
      BY <1>1
    <3> QED BY <3>1 DEF Distinct
  <2>3. CASE s[i] \notin set
    BY <1>3, <1>5, <2>1, <2>3
  <2>4. CASE s[i] \in set
    <3> DEFINE q == f[i - 1]
               e == s[i]
    <3>1. q \in Seq(U) /\ e \in U
      BY <1>1, <1>2, <2>1, <2>4
    <3>2. f[i] = Append(q, e) /\ Distinct(q) /\ Range(q) \subseteq Upto(i - 1) /\ e \notin Range(q)
      BY <1>3, <1>5, <2>2, <2>4
    <3>3. Range(Append(q, e)) = Range(q) \cup {e} /\ Distinct(Append(q, e))
      <4>1. Distinct(q) /\ e \notin Range(q)
        BY <3>2
      <4> HIDE DEF q, e, U
      <4> QED BY ONLY <3>1, <4>1, HasOneMore
    <3> QED BY <2>1, <3>2, <3>3
  <2> QED BY <2>3, <2>4
<1>6. \A i \in 0..n : i \in P
  <2> HIDE DEF P, n
  <2> QED BY <1>1, <1>4, <1>5, UpToAll
<1>7. n \in P
  <2>1. n \in 0..n
    BY <1>1
  <2> HIDE DEF P
  <2> QED BY <1>6, <2>1
<1> QED BY <1>3, <1>7

\* No listener is registered twice.
ListenersOnce == IsInjective(listeners)

LEMMA OnceIs == \A T : \A s \in Seq(T) : IsInjective(s) <=> Distinct(s)
<1> SUFFICES ASSUME NEW T, NEW s \in Seq(T) PROVE IsInjective(s) <=> Distinct(s)
  OBVIOUS
<1>1. DOMAIN s = 1..Len(s)
  OBVIOUS
<1> QED BY <1>1 DEF IsInjective, Distinct

LEMMA ListenersBegin == EventsInit => ListenersOnce
<1>1. <<>> \in Seq(Listeners) /\ Distinct(<<>>)
  BY NoneHas
<1> QED BY <1>1, OnceIs DEF EventsInit, ListenersOnce

LEMMA ListenersStay == EventsInv /\ ListenersOnce /\ [EventStep]_eventVars => ListenersOnce'
<1> SUFFICES ASSUME EventsInv, ListenersOnce, [EventStep]_eventVars PROVE ListenersOnce'
  OBVIOUS
<1>1. listeners \in Seq(Listeners) /\ Distinct(listeners)
  BY OnceIs DEF EventsInv, EvTypes, ListenersOnce
<1>2. ASSUME NEW l \in Listeners, Listen(l) PROVE ListenersOnce'
  <2>1. l \notin Range(listeners) /\ listeners' = Append(listeners, l)
    BY <1>2 DEF Listen
  <2>2. listeners' \in Seq(Listeners) /\ Distinct(listeners')
    BY <1>1, <2>1, HasOneMore
  <2> QED BY <2>2, OnceIs DEF ListenersOnce
<1>3. ASSUME NEW own \in BOOLEAN, ForgetListeners(own) PROVE ListenersOnce'
  <2>1. PICK set : listeners' = Registered(set)
    BY <1>3 DEF ForgetListeners
  <2>2. Registered(set) = Those(listeners, set)
    BY DEF Registered, Those
  <2>3. listeners' \in Seq(Listeners) /\ Distinct(listeners')
    BY <1>1, <2>1, <2>2, RegisteredTypes, PickedDistinct
  <2> QED BY <2>3, OnceIs DEF ListenersOnce
<1>4. CASE UNCHANGED listeners
  BY <1>4 DEF ListenersOnce
<1>5. \/ \E l \in Listeners : Listen(l)
      \/ \E own \in BOOLEAN : ForgetListeners(own)
      \/ UNCHANGED listeners
  BY DEF EventStep, eventVars, ForgetPushed, PushEvent, Flush, Fire, Raises, NextItem, BeginBlock,
         CommitBlock, Replayed, RollBackBlock, CancelCaller, Dispatch, Hear
<1> QED BY <1>2, <1>3, <1>4, <1>5

\* A sequence is one of whatever all its items are.
LEMMA SeqOfItems == \A S, T : \A s \in Seq(T) : Range(s) \subseteq S => s \in Seq(S)
<1> SUFFICES ASSUME NEW S, NEW T, NEW s \in Seq(T), Range(s) \subseteq S PROVE s \in Seq(S)
  OBVIOUS
<1>1. Len(s) \in Nat /\ DOMAIN s = 1..Len(s)
  OBVIOUS
<1>2. \A i \in 1..Len(s) : s[i] \in S
  BY <1>1 DEF Range
<1>3. s = [i \in 1..Len(s) |-> s[i]]
  OBVIOUS
<1> QED BY <1>1, <1>2, <1>3

LEMMA EventsTyped == EventsInv /\ ListenersOnce => EventsTypeOK
<1> SUFFICES ASSUME EventsInv, ListenersOnce PROVE EventsTypeOK
  OBVIOUS
<1>1. EvTypes /\ PlacedHere /\ FiredHere /\ PushedOnce /\ BlocksThere
  BY DEF EventsInv, EvPlaces, EvLinks
<1>2. pushed \in Seq(EventIds)
  <2>1. pushed \in Seq(Nat) /\ Range(pushed) \subseteq EventIds
    BY <1>1 DEF EvTypes, PushedOnce
  <2> QED BY <2>1, SeqOfItems
<1>3. ASSUME NEW c \in Dispatchers
      PROVE  /\ caller[c].at \in {"outside", "body", "replay", "cancelled"}
             /\ caller[c].block \in 0..Len(txBlock) /\ caller[c].fires \in EventIds \cup {0}
             /\ caller[c].buffer \in Seq(Deferrals) /\ caller[c].todo \in Seq(Deferrals)
             /\ caller[c].rest \in Seq(Listeners)
  <2>1. caller[c] \in CallerStates
    BY <1>1 DEF EvTypes
  <2>2. /\ caller[c].at \in {"outside", "body", "replay", "cancelled"}
        /\ caller[c].rest \in Seq(Listeners)
    BY <2>1 DEF CallerStates
  <2>3. caller[c].buffer \in Seq(Pieces) /\ caller[c].todo \in Seq(Pieces)
    BY <2>1 DEF CallerStates
  <2>4. \A item \in Pieces : HasIt(c, item) => item \in Deferrals
    BY <1>1 DEF PlacedHere, Pieces, Deferrals
  <2>5. \A s \in Seq(Pieces) : Range(s) \subseteq Pieces
    <3> HIDE DEF Pieces
    <3> SUFFICES ASSUME NEW s \in Seq(Pieces) PROVE Range(s) \subseteq Pieces
      OBVIOUS
    <3>1. \A i \in DOMAIN s : s[i] \in Pieces
      OBVIOUS
    <3> QED BY <3>1 DEF Range
  <2>6. Range(caller[c].buffer) \subseteq Deferrals /\ Range(caller[c].todo) \subseteq Deferrals
    BY <2>3, <2>4, <2>5 DEF HasIt
  <2>7. caller[c].buffer \in Seq(Deferrals) /\ caller[c].todo \in Seq(Deferrals)
    <3> HIDE DEF Pieces, Deferrals
    <3> QED BY <2>3, <2>6, SeqOfItems
  <2>8. caller[c].block \in 0..Len(txBlock) /\ caller[c].fires \in EventIds \cup {0}
    BY <1>1 DEF FiredHere, BlocksThere
  <2> QED BY <2>2, <2>7, <2>8
<1>4. \A i \in EventIds : event[i].kind \in EventKinds /\ event[i].block \in 0..Len(txBlock)
  <2> DEFINE Row == [kind : EventKinds, block : Nat]
  <2>1. event \in Seq(Row)
    BY <1>1 DEF EvTypes
  <2>2. \A i \in EventIds : event[i] \in Row
    <3> HIDE DEF Row
    <3> QED BY <2>1 DEF EventIds
  <2>3. \A i \in EventIds : event[i].kind \in EventKinds
    BY <2>2
  <2> QED BY <1>1, <2>3 DEF BlocksThere
<1>5. /\ listeners \in Seq(Listeners) /\ IsInjective(listeners)
      /\ txBlock \in Seq({"open", "committed", "replayed", "rolled back", "cut"})
      /\ gathered \in [EventIds -> Seq(Listeners)] /\ heard \in [EventIds -> Seq(Listeners)]
      /\ sent \in [EventIds -> Nat]
      /\ fate \in [EventIds -> {"waiting", "firing", "over", "stopped", "raised", "dropped"}]
  BY <1>1 DEF EvTypes, ListenersOnce, States, Fates
<1> HIDE DEF EventIds, Deferrals, EventKinds
<1> QED BY ONLY <1>2, <1>3, <1>4, <1>5 DEF EventsTypeOK

-----------------------------------------------------------------------------
(* Notifications (Delivery.tla) *)

\* The tries a run has had, and that it carries no more than the notification.
RunBounds(x) ==
    /\ x.tries <= MaxTries /\ Len(x.todo) <= Len(Via)
    /\ x.at = "none" => x.tries = 0
    /\ x.at = "ready" => x.tries < MaxTries
LeftOf(q) == \E i \in 0..Len(Via) : q = SubSeq(Via, i + 1, Len(Via))
RunsBounded == \A r \in Runs : RunBounds(run[r])
LoopGoesOn ==
    /\ sending \in {"inside", "outside", "inline", "replay", "done", "rolled back", "raised"}
    /\ LeftOf(toQueue)

LEMMA ViaLength ==
  /\ Len(Via) \in Nat /\ Via \in Seq(Channels) /\ MaxTries \in Nat /\ MaxTries >= 1
  /\ \A c \in Channels : Len(Via) >= 1
<1>1. Via \in Seq(Channels) /\ Len(Via) \in Nat /\ DOMAIN Via = 1..Len(Via)
  BY DeliveryAssumption
<1>2. ASSUME NEW c \in Channels PROVE Len(Via) >= 1
  <2>1. PICK i \in DOMAIN Via : Via[i] = c
    BY <1>2 DEF Channels, Range
  <2> QED BY <1>1, <2>1
<1> QED BY <1>1, <1>2, DeliveryAssumption

\* The loop over via() has left all of it, nothing, or what follows its first of the rest.
LEMMA LeftOfVia ==
  /\ LeftOf(Via) /\ LeftOf(<<>>)
  /\ \A q : LeftOf(q) /\ q # <<>> => LeftOf(Tail(q))
<1>1. Len(Via) \in Nat /\ Via \in Seq(Channels)
  BY ViaLength
<1>2. LeftOf(Via)
  <2>1. SubSeq(Via, 1, Len(Via)) = Via
    BY <1>1
  <2> QED BY <1>1, <2>1 DEF LeftOf
<1>3. LeftOf(<<>>)
  <2>1. SubSeq(Via, Len(Via) + 1, Len(Via)) = <<>>
    BY <1>1
  <2> QED BY <1>1, <2>1 DEF LeftOf
<1>4. ASSUME NEW i \in 0..Len(Via), SubSeq(Via, i + 1, Len(Via)) # <<>>
      PROVE  LeftOf(Tail(SubSeq(Via, i + 1, Len(Via))))
  <2>1. i + 1 \in 0..Len(Via)
    BY <1>1, <1>4
  <2>2. Tail(SubSeq(Via, i + 1, Len(Via))) = SubSeq(Via, (i + 1) + 1, Len(Via))
    BY <1>1, <2>1
  <2> QED BY <2>1, <2>2 DEF LeftOf
<1> QED BY <1>2, <1>3, <1>4 DEF LeftOf

LEMMA DeliveryBeginsBounded == DeliveryInit => RunsBounded /\ LoopGoesOn
<1> SUFFICES ASSUME DeliveryInit PROVE RunsBounded /\ LoopGoesOn
  OBVIOUS
<1>1. LoopGoesOn
  BY LeftOfVia DEF DeliveryInit, LoopGoesOn
<1>2. RunBounds([at |-> "ask", todo |-> Via, tries |-> 0]) /\ RunBounds(AtRest)
  BY ViaLength DEF RunBounds, AtRest
<1>3. \A r \in Runs : run[r] = [at |-> "ask", todo |-> Via, tries |-> 0] \/ run[r] = AtRest
  BY DEF DeliveryInit
<1> QED BY <1>1, <1>2, <1>3 DEF RunsBounded

LEMMA LoopStays ==
  LoopGoesOn /\ [DeliveryStep]_deliveryVars => LoopGoesOn'
<1> SUFFICES ASSUME LoopGoesOn, [DeliveryStep]_deliveryVars PROVE LoopGoesOn'
  OBVIOUS
<1> USE DEF LoopGoesOn
<1>1. ASSUME UNCHANGED <<sending, toQueue>> PROVE LoopGoesOn'
  BY <1>1 DEF LeftOf
<1>2. CASE QueueChannel
  BY <1>2, LeftOfVia DEF QueueChannel
<1>3. CASE PushFails
  BY <1>3, LeftOfVia DEF PushFails
<1>4. ASSUME NEW b \in BOOLEAN, EndBlock(b) PROVE LoopGoesOn'
  BY <1>4, LeftOfVia DEF EndBlock
<1>5. ASSUME NEW b \in BOOLEAN, ReplayPush(b) PROVE LoopGoesOn'
  BY <1>5 DEF ReplayPush
<1>6. ASSUME NEW r \in Runs, Returns(r) PROVE LoopGoesOn'
  BY <1>6 DEF Returns
<1>7. ASSUME NEW r \in Runs, DriverAnswers(r) \/ SendRaises(r) \/ Fails(r) PROVE LoopGoesOn'
  BY <1>1, <1>7 DEF DriverAnswers, SendRaises, Fails
<1>8. ASSUME NEW r \in Runs, NEW b \in BOOLEAN, Ask(r, b) PROVE LoopGoesOn'
  BY <1>1, <1>8 DEF Ask
<1>9. ASSUME NEW r \in Runs, NEW b \in BOOLEAN, NEW o \in BOOLEAN, Transport(r, b, o) PROVE LoopGoesOn'
  BY <1>1, <1>9 DEF Transport, Try
<1>10. ASSUME NEW c \in Channels, TakeNotification(c) PROVE LoopGoesOn'
  BY <1>1, <1>10 DEF TakeNotification
<1>11. ASSUME NEW c \in Channels, WorkerDies(c) PROVE LoopGoesOn'
  BY <1>7, <1>11 DEF WorkerDies, Runs
<1>12. CASE UNCHANGED deliveryVars
  BY <1>1, <1>12 DEF deliveryVars
<1> QED
  BY <1>2, <1>3, <1>4, <1>5, <1>6, <1>7, <1>8, <1>9, <1>10, <1>11, <1>12 DEF DeliveryStep

LEMMA RunsStayBounded ==
  DeliveryInv /\ RunsBounded /\ [DeliveryStep]_deliveryVars => RunsBounded'
<1> SUFFICES ASSUME DeliveryInv, RunsBounded, [DeliveryStep]_deliveryVars PROVE RunsBounded'
  OBVIOUS
<1>1. /\ run \in [Runs -> RunRecords] /\ toQueue \in Seq(Channels) /\ deferred \in Seq(Channels)
      /\ Channels \subseteq Runs
  BY DEF DeliveryInv, DeliveryShapes, Runs
<1>2. \A r \in Runs : RunBounds(run[r]) /\ run[r] \in RunRecords
  BY <1>1 DEF RunsBounded
<1>3. ASSUME run' = run PROVE RunsBounded'
  BY <1>2, <1>3 DEF RunsBounded
<1>4. ASSUME NEW r \in Runs, NEW x, run' = [run EXCEPT ![r] = x], RunBounds(x) PROVE RunsBounded'
  <2>1. \A q \in Runs : run'[q] = x \/ run'[q] = run[q]
    BY <1>1, <1>4
  <2> QED BY <1>2, <1>4, <2>1 DEF RunsBounded
<1>5. ASSUME NEW c \in Channels, run[c].at = "none", run' = Pushed(c) PROVE RunsBounded'
  <2>1. run' = [run EXCEPT ![c] = [run[c] EXCEPT !.at = "ready"]] /\ c \in Runs
    BY <1>1, <1>5 DEF Pushed
  <2>2. run[c].tries = 0 /\ Len(run[c].todo) <= Len(Via) /\ run[c] \in RunRecords
    BY <1>2, <1>5, <2>1 DEF RunBounds
  <2>3. RunBounds([run[c] EXCEPT !.at = "ready"])
    BY <2>2, ViaLength DEF RunBounds, RunRecords
  <2> QED BY <1>4, <2>1, <2>3
<1>6. CASE QueueChannel
  <2>1. CASE sending = "inside"
    BY <1>3, <1>6, <2>1 DEF QueueChannel
  <2>2. CASE sending # "inside"
    <3>1. 1 \in 1..Len(toQueue) /\ Head(toQueue) = toQueue[1] /\ Head(toQueue) \in Channels
      BY <1>1, <1>6 DEF QueueChannel
    <3>2. run[Head(toQueue)].at = "none"
      BY <3>1 DEF DeliveryInv, Unpushed
    <3> QED BY <1>5, <1>6, <2>2, <3>1, <3>2 DEF QueueChannel
  <2> QED BY <2>1, <2>2
<1>7. ASSUME NEW fails \in BOOLEAN, ReplayPush(fails) PROVE RunsBounded'
  <2>1. 1 \in 1..Len(deferred) /\ Head(deferred) = deferred[1] /\ Head(deferred) \in Channels
    BY <1>1, <1>7 DEF ReplayPush
  <2>2. run[Head(deferred)].at = "none"
    BY <2>1 DEF DeliveryInv, Unpushed
  <2> QED BY <1>3, <1>5, <1>7, <2>1, <2>2 DEF ReplayPush
<1>8. CASE PushFails
  BY <1>3, <1>8 DEF PushFails
<1>9. ASSUME NEW b \in BOOLEAN, EndBlock(b) PROVE RunsBounded'
  BY <1>3, <1>9 DEF EndBlock
<1>10. ASSUME NEW c \in Channels, TakeNotification(c) PROVE RunsBounded'
  <2> DEFINE x == [at |-> "ask", todo |-> <<c>>, tries |-> run[c].tries + 1]
  <2>1. run' = [run EXCEPT ![c] = x] /\ c \in Runs /\ run[c].at = "ready"
    BY <1>1, <1>10 DEF TakeNotification, Slice
  <2>2. run[c].tries \in Nat /\ run[c].tries < MaxTries
    BY <1>2, <2>1 DEF RunBounds, RunRecords
  <2>3. RunBounds(x)
    BY <2>2, ViaLength DEF RunBounds
  <2> HIDE DEF x
  <2> QED BY <1>4, <2>1, <2>3
<1>11. ASSUME NEW r \in Runs, Fails(r), run[r].at # "none" PROVE RunsBounded'
  <2> DEFINE x == [at |-> IF r # Inline /\ run[r].tries < MaxTries THEN "ready" ELSE "failed",
                   todo |-> <<>>, tries |-> run[r].tries]
  <2>1. run' = [run EXCEPT ![r] = x]
    BY <1>11 DEF Fails
  <2>2. RunBounds(x)
    BY <1>2, ViaLength DEF RunBounds
  <2> HIDE DEF x
  <2> QED BY <1>4, <2>1, <2>2
<1>12. ASSUME NEW r \in Runs, NEW veto \in BOOLEAN, Ask(r, veto) PROVE RunsBounded'
  <2>1. run[r].at = "ask" /\ run[r].todo # <<>> /\ run[r].todo \in Seq(Channels) /\ run[r].tries \in Nat
    BY <1>2, <1>12 DEF Ask, RunRecords
  <2>2. CASE veto
    <3>1. run' = [run EXCEPT ![r] = [run[r] EXCEPT !.todo = Tail(run[r].todo)]]
      BY <1>1, <1>12, <2>2 DEF Ask
    <3>2. Len(Tail(run[r].todo)) <= Len(run[r].todo) /\ Len(Tail(run[r].todo)) \in Nat /\ Len(run[r].todo) \in Nat
      BY <2>1
    <3>3. RunBounds([run[r] EXCEPT !.todo = Tail(run[r].todo)])
      <4>1. run[r] \in RunRecords /\ RunBounds(run[r]) /\ Len(Via) \in Nat
        BY <1>2, ViaLength
      <4>2. PICK rest : rest = Tail(run[r].todo)
        OBVIOUS
      <4>3. [run[r] EXCEPT !.todo = rest].at = "ask" /\ [run[r] EXCEPT !.todo = rest].todo = rest
            /\ [run[r] EXCEPT !.todo = rest].tries = run[r].tries
        BY <2>1, <4>1 DEF RunRecords
      <4>4. Len(rest) <= Len(Via) /\ run[r].tries <= MaxTries
        BY <3>2, <4>1, <4>2 DEF RunBounds
      <4> QED BY <4>2, <4>3, <4>4 DEF RunBounds
    <3> QED BY <1>4, <3>1, <3>3
  <2>3. CASE ~veto
    <3>1. run' = [run EXCEPT ![r] = [run[r] EXCEPT !.at = "send"]]
      BY <1>1, <1>12, <2>3 DEF Ask
    <3>2. RunBounds([run[r] EXCEPT !.at = "send"])
      BY <1>2 DEF RunBounds, RunRecords
    <3> QED BY <1>4, <3>1, <3>2
  <2> QED BY <2>2, <2>3
<1>13. ASSUME NEW r \in Runs, NEW b \in BOOLEAN, NEW o \in BOOLEAN, Transport(r, b, o) PROVE RunsBounded'
  <2>1. PICK at \in {"answer", "send"} : run' = [run EXCEPT ![r].at = at]
    BY <1>13 DEF Transport
  <2>2. run' = [run EXCEPT ![r] = [run[r] EXCEPT !.at = at]]
    BY <2>1
  <2>3. RunBounds([run[r] EXCEPT !.at = at])
    BY <1>2, <2>1 DEF RunBounds, RunRecords
  <2> QED BY <1>4, <2>2, <2>3
<1>14. ASSUME NEW r \in Runs, DriverAnswers(r) PROVE RunsBounded'
  <2>1. /\ run' = [run EXCEPT ![r] = [at |-> "ask", todo |-> Tail(run[r].todo), tries |-> run[r].tries]]
        /\ run[r].at = "answer"
    BY <1>14 DEF DriverAnswers
  <2>2. run[r].todo # <<>>
    BY <2>1 DEF DeliveryInv, Halfway, Sending
  <2>3. run[r].todo \in Seq(Channels)
    BY <1>2 DEF RunRecords
  <2>4. Len(Tail(run[r].todo)) <= Len(run[r].todo) /\ Len(Tail(run[r].todo)) \in Nat /\ Len(run[r].todo) \in Nat
    BY <2>2, <2>3
  <2>5. RunBounds([at |-> "ask", todo |-> Tail(run[r].todo), tries |-> run[r].tries])
    BY <1>2, <2>4, ViaLength DEF RunBounds
  <2> QED BY <1>4, <2>1, <2>5
<1>15. ASSUME NEW r \in Runs, SendRaises(r) PROVE RunsBounded'
  BY <1>11, <1>15 DEF SendRaises
<1>16. ASSUME NEW c \in Channels, WorkerDies(c) PROVE RunsBounded'
  BY <1>1, <1>11, <1>16 DEF WorkerDies
<1>17. ASSUME NEW r \in Runs, Returns(r) PROVE RunsBounded'
  <2>1. run' = [run EXCEPT ![r] = [run[r] EXCEPT !.at = "done"]]
    BY <1>17 DEF Returns
  <2>2. RunBounds([run[r] EXCEPT !.at = "done"])
    BY <1>2 DEF RunBounds, RunRecords
  <2> QED BY <1>4, <2>1, <2>2
<1>18. CASE UNCHANGED deliveryVars
  BY <1>3, <1>18 DEF deliveryVars
<1> QED
  BY <1>6, <1>7, <1>8, <1>9, <1>10, <1>12, <1>13, <1>14, <1>15, <1>16, <1>17, <1>18
  DEF DeliveryStep

LEMMA DeliveryTyped == DeliveryInv /\ RunsBounded /\ LoopGoesOn => DeliveryTypeOK
<1> SUFFICES ASSUME DeliveryInv, RunsBounded, LoopGoesOn PROVE DeliveryTypeOK
  OBVIOUS
<1>1. DeliveryShapes
  BY DEF DeliveryInv
<1>2. ASSUME NEW r \in Runs
      PROVE  /\ run[r].at \in {"none", "ready", "ask", "send", "answer", "done", "failed"}
             /\ run[r].tries \in 0..MaxTries
             /\ \E i \in 0..Len(Via) : Len(run[r].todo) = i
             /\ response[r] \in {"none", "sent", "error"}
  <2>1. run[r] \in RunRecords /\ RunBounds(run[r]) /\ response[r] \in {"none", "sent", "error"}
    BY <1>1 DEF DeliveryShapes, RunsBounded
  <2>2. Len(run[r].todo) \in Nat /\ run[r].tries \in Nat
    BY <2>1 DEF RunRecords
  <2> QED BY <2>1, <2>2, ViaLength DEF RunRecords, RunBounds
<1> QED BY <1>1, <1>2 DEF DeliveryShapes, LoopGoesOn, LeftOf, DeliveryTypeOK

-----------------------------------------------------------------------------
(* The pool's client (HttpClient.tla) *)

\* How the requests are retried is settled when the pool is made.
HowSettled == cap \in Caps /\ policy \in Policies /\ times \in 0..MaxTimes /\ throw \in BOOLEAN
AttemptsBounded == HowSettled /\ \A r \in Fetches : attempts[r] <= MaxTimes

LEMMA ClientBeginsBounded == ClientInit => AttemptsBounded
BY HttpClientAssumption DEF ClientInit, AttemptsBounded, HowSettled

LEMMA ClientStaysBounded ==
  ClientInv /\ AttemptsBounded /\ [ClientStep]_clientVars => AttemptsBounded'
<1> SUFFICES ASSUME TurnsInv, AttemptsBounded, [ClientStep]_clientVars PROVE AttemptsBounded'
  BY DEF ClientInv
<1>1. MaxTimes \in Nat /\ MaxTimes >= 1 /\ attempts \in [Fetches -> Nat] /\ HowSettled
      /\ \A r \in Fetches : attempts[r] <= MaxTimes
  BY HttpClientAssumption DEF TurnsInv, AttemptsBounded
<1>2. HowSettled'
  BY <1>1 DEF HowSettled, ClientStep, clientVars, how, EnterPool, SendOnce, Decide, HookRaises, Again,
     CancelPool
<1>3. Allowed \in 1..MaxTimes
  BY <1>1 DEF HowSettled, Allowed
<1>4. ASSUME NEW r \in Fetches, EnterPool(r) PROVE \A q \in Fetches : attempts'[q] <= MaxTimes
  BY <1>1, <1>4 DEF EnterPool
<1>5. ASSUME NEW r \in Fetches, Again(r) PROVE \A q \in Fetches : attempts'[q] <= MaxTimes
  <2>1. attempts[r] \in 1..(Allowed - 1)
    BY <1>5 DEF TurnsInv, AtTurn, Again
  <2>2. attempts' = [attempts EXCEPT ![r] = attempts[r] + 1] /\ attempts[r] + 1 <= MaxTimes
    BY <1>1, <1>3, <1>5, <2>1 DEF Again
  <2> QED BY <1>1, <2>2
<1>6. CASE attempts' = attempts
  BY <1>1, <1>2, <1>6 DEF AttemptsBounded
<1>7. attempts' = attempts \/ \E r \in Fetches : EnterPool(r) \/ Again(r)
  BY DEF ClientStep, clientVars, callVars, SendOnce, Decide, HookRaises, CancelPool
<1> QED BY <1>2, <1>4, <1>5, <1>6, <1>7 DEF AttemptsBounded

LEMMA ClientTyped == ClientInv /\ AttemptsBounded => ClientTypeOK
<1> SUFFICES ASSUME TurnsInv, AttemptsBounded PROVE ClientTypeOK
  BY DEF ClientInv
<1>1. attempts \in [Fetches -> 0..MaxTimes]
  BY HttpClientAssumption DEF TurnsInv, AttemptsBounded
<1> QED BY <1>1 DEF TurnsInv, AttemptsBounded, HowSettled, ClientTypeOK

-----------------------------------------------------------------------------
(* All of them *)

\* What the parts keep besides their invariants (ApplicationProofs, WritesProofs, EventsProofs).
TypesInv ==
    /\ TxTypeOK /\ FramesOK /\ MoreOfRelations /\ QuerySettled /\ EffectsBounded
    /\ LifeBounds /\ ContainerBounds /\ ListenersOnce /\ RunsBounded /\ LoopGoesOn
    /\ AttemptsBounded /\ PipelineBounds /\ FormBounds

AllInv == PartsInv /\ ServicesInv /\ WritesInv /\ ReadsInv

\* A step of the application is a step of the caller of a transaction, or none of it.
LEMMA TransactsStep == [Next]_vars => [TxStep]_txVars
<1>1. CASE Queries
  <2>1. CASE Transacts \/ Stores \/ Relates
    BY <1>1, <2>1 DEF Queries, Transacts, Stores, Relates
  <2>2. CASE Reads \/ Asks \/ Walks \/ Turns
    BY <1>1, <2>2 DEF Queries, Reads, Asks, Walks, Turns
  <2>3. CASE Indexes \/ Migrates
    BY <1>1, <2>3 DEF Queries, Indexes, Migrates
  <2> QED BY <1>1, <2>1, <2>2, <2>3 DEF Queries, DatabaseStep
<1>2. CASE Serves \/ LogsIn \/ Flags \/ Attaches
  BY <1>2 DEF Serves, LogsIn, Flags, Attaches, dbVars
<1>3. CASE Lives \/ Injects \/ Handles \/ Validates
  BY <1>3 DEF Lives, Injects, Handles, Validates, dbVars
<1>4. CASE Dispatches \/ Relays
  BY <1>4 DEF Dispatches, Relays, dbVars
<1>5. CASE Notifies \/ Consumes \/ Admits \/ Works
  BY <1>5 DEF Notifies, Consumes, Admits, Works, dbVars
<1>6. CASE UNCHANGED vars
  BY <1>6 DEF vars, dbVars
<1> QED
  BY <1>1, <1>2, <1>3, <1>4, <1>5, <1>6 DEF Next

LEMMA TypesBegin == Init => TypesInv
  BY TxTypeInit, RelationsBeginTyped, QueryBeginsSettled, MigrationsBeginBounded, LifeBeginsBounded,
     ContainerBeginsBounded, ListenersBegin, DeliveryBeginsBounded, ClientBeginsBounded,
     PipelineBeginsBounded, FormsBeginBounded
  DEF Init, DatabaseInit, TypesInv

LEMMA TypesStay == AllInv /\ TypesInv /\ [Next]_vars => TypesInv'
<1> SUFFICES ASSUME AllInv, TypesInv, [Next]_vars PROVE TypesInv'
  OBVIOUS
<1>1. (TxTypeOK /\ FramesOK)'
  BY TransactsStep, TxTypeNext DEF TypesInv
<1>2. MoreOfRelations' /\ QuerySettled' /\ ListenersOnce'
  BY ReadersStep, RelationsStayTyped, QueryStaysSettled, ListenersStay DEF AllInv, ReadsInv, TypesInv
<1>3. EffectsBounded' /\ AttemptsBounded' /\ RunsBounded' /\ LoopGoesOn'
  BY WritersStep, MigrationsStayBounded, ClientStaysBounded, RunsStayBounded, LoopStays
  DEF AllInv, WritesInv, TypesInv
<1>4. LifeBounds' /\ ContainerBounds' /\ PipelineBounds' /\ FormBounds'
  BY ServicesStep, LifeStaysBounded, ContainerStaysBounded, PipelineStaysBounded, FormsStayBounded
  DEF AllInv, ServicesInv, TypesInv
<1> QED BY <1>1, <1>2, <1>3, <1>4 DEF TypesInv

LEMMA TypesFollow == AllInv /\ TypesInv => TypeOK
<1> SUFFICES ASSUME AllInv, TypesInv PROVE TypeOK
  OBVIOUS
<1>1. SessionsTypeOK /\ LoginsTypeOK /\ FeaturesTypeOK /\ MediaTypeOK /\ IdentitiesTypeOK /\ WorkingTypeOK
  BY DEF AllInv, PartsInv, SessionInv, LoginInv, FeatureInv, MediaInv, IdentityInv, WorkingInv
<1>2. LifeTypeOK /\ ContainerTypeOK /\ PipelineTypeOK /\ FormsTypeOK
  BY LifeTyped, ContainerTyped, PipelineTyped, FormsTyped DEF AllInv, ServicesInv, TypesInv
<1>3. RecordsTypeOK /\ PivotTypeOK /\ IndexTypeOK
  BY DEF AllInv, WritesInv, RowInv, PivotInv, IndexInv
<1>4. MigrationsTypeOK /\ ClientTypeOK /\ DeliveryTypeOK
  BY MigrationsTyped, ClientTyped, DeliveryTyped DEF AllInv, WritesInv, TypesInv
<1>5. RelationsTypeOK /\ QueryTypeOK /\ PagesTypeOK /\ EventsTypeOK
  BY RelationsTyped, QueryTyped, PagesTyped, EventsTyped DEF AllInv, ReadsInv, TypesInv
<1>6. WalkTypeOK /\ RelayTypeOK
  BY DEF AllInv, ReadsInv, WalkInv, RelayInv, RelayTypes
<1> QED BY <1>1, <1>2, <1>3, <1>4, <1>5, <1>6 DEF TypesInv, TypeOK

\* Whatever the parts do, each value stays within what the code can hold there: rows, answers
\* and pages (database/), the attempts and backlog of a request pool (client/), the runs of a
\* worker's notifications (notifications/), the effects and tables of a migration run
\* (migrations/), a request on its way (http/kernel.py), the errors of a form (validation/),
\* and no listener is registered twice (events/dispatcher.py).
THEOREM TypesAreKept == Spec => []TypeOK
<1>1. AllInv /\ TypesInv /\ [Next]_vars => TypesInv'
  BY TypesStay
<1>2. Spec => []AllInv
  BY PartsKeepTheirs, ServicesKeepTheirs, WritersKeepTheirs, ReadersKeepTheirs, PTL DEF AllInv
<1>3. Init => TypesInv
  BY TypesBegin
<1>4. AllInv /\ TypesInv => TypeOK
  BY TypesFollow
<1> QED BY <1>1, <1>2, <1>3, <1>4, PTL DEF Spec

=============================================================================
