--------------------------- MODULE WaitGraph_proofs ---------------------------
(***************************************************************************)
(* The check before an insertion is enough: a graph to which edges are     *)
(* added only when their target does not reach their source has no cycle,  *)
(* whatever edges are removed in between.  And that is what it is for: in  *)
(* a finite graph without a cycle somebody waits for one that waits for    *)
(* nobody, so that not everybody waits.                                    *)
(*                                                                         *)
(* The check of the depth is enough as well, although it is about the      *)
(* chains through the new edge only.                                       *)
(***************************************************************************)
EXTENDS WaitGraph, FiniteSetTheorems, WellFoundedInduction, TLAPS

-----------------------------------------------------------------------------
\* Induction on natural numbers, for a set of them.

\* Of a set of parts of a finite set one is the smallest.
LEMMA LeastPart ==
  ASSUME NEW S, IsFiniteSet(S), NEW K, K \subseteq SUBSET S, K # {}
  PROVE  \E T \in K : \A U \in K : U \subseteq T => U = T
<1>1. IsWellFoundedOn(StrictSubsetOrdering(S), SUBSET S)
  BY FS_FiniteSubsetsOfFinite, FS_StrictSubsetOrderingWellFounded
<1>2. \E T \in K : \A U \in K : <<U, T>> \notin StrictSubsetOrdering(S)
  BY <1>1, WFMin
<1> QED BY <1>2 DEF StrictSubsetOrdering

\* Numbers that hold 0 and with each number the next are all of them: of those
\* left out up to one of them, the least would follow one that is not.
LEMMA AllNumbers ==
  ASSUME NEW G, 0 \in G, \A n \in Nat : n \in G => n + 1 \in G
  PROVE  \A n \in Nat : n \in G
<1> SUFFICES ASSUME NEW b \in Nat, b \notin G PROVE FALSE
  OBVIOUS
<1> DEFINE K == {0..k : k \in (0..b) \ G}
<1>1. K \subseteq SUBSET (0..b) /\ 0..b \in K
  OBVIOUS
<1>2. IsFiniteSet(0..b)
  BY FS_Interval
<1>3. PICK T \in K : \A U \in K : U \subseteq T => U = T
  <2> DEFINE B == 0..b
  <2> HIDE DEF K
  <2>1. K \subseteq SUBSET B /\ K # {} /\ IsFiniteSet(B)
    BY <1>1, <1>2
  <2> HIDE DEF B
  <2> QED BY <2>1, LeastPart
<1>4. PICK m \in (0..b) \ G : T = 0..m
  BY <1>3
<1>5. m # 0 /\ m \in Nat /\ m - 1 \in Nat /\ m - 1 \in 0..b
  BY <1>4
<1>6. m - 1 \notin G
  BY <1>4, <1>5
<1>7. 0..(m - 1) \in K
  BY <1>5, <1>6
<1>8. 0..(m - 1) \subseteq 0..m /\ m \in 0..m /\ m \notin 0..(m - 1)
  BY <1>5
<1> HIDE DEF K
<1> QED BY <1>3, <1>4, <1>7, <1>8

-----------------------------------------------------------------------------
\* Cycles.

\* Adding an edge closes no cycle when its target does not reach its source:
\* what Acquire and ValidateInsert rely on.
THEOREM InsertionKeepsAcyclic ==
  ASSUME NEW N, NEW E \in SUBSET (N \X N), Acyclic(N, E),
         NEW x \in N, NEW y \in N, ~Reaches(N, E, y, x)
  PROVE  Acyclic(N, E \cup {<<x, y>>})
<1> DEFINE F == E \cup {<<x, y>>}
<1>1. PICK T \in SUBSET N : y \in T /\ Closed(E, T) /\ x \notin T
  BY DEF Reaches
<1>2. SUFFICES ASSUME NEW e \in F
               PROVE  \E U \in SUBSET N : e[2] \in U /\ Closed(F, U) /\ e[1] \notin U
  BY DEF Acyclic, Reaches
<1>3. ASSUME NEW U \in SUBSET N, Closed(E, U), x \in U => y \in U
      PROVE  Closed(F, U)
  BY <1>3 DEF Closed
<1>4. CASE e = <<x, y>>
  BY <1>1, <1>3, <1>4
<1>5. CASE e \in E
  <2>1. PICK S \in SUBSET N : e[2] \in S /\ Closed(E, S) /\ e[1] \notin S
    BY <1>5 DEF Acyclic, Reaches
  <2>2. CASE x \notin S
    BY <2>1, <2>2, <1>3
  <2>3. CASE x \in S /\ e[1] \notin T
    <3>1. S \cup T \in SUBSET N /\ Closed(E, S \cup T) /\ y \in S \cup T
      BY <1>1, <2>1 DEF Closed
    <3>2. Closed(F, S \cup T)
      BY <3>1, <1>3
    <3> QED BY <3>1, <3>2, <2>1, <2>3
  <2>4. CASE x \in S /\ e[1] \in T
    <3>1. S \cap T \in SUBSET N /\ Closed(E, S \cap T) /\ x \notin S \cap T
      BY <1>1, <2>1 DEF Closed
    <3>2. e[2] \in S \cap T
      BY <1>1, <1>5, <2>1, <2>4 DEF Closed
    <3>3. Closed(F, S \cap T)
      BY <3>1, <1>3
    <3> QED BY <3>2, <3>3, <2>1
  <2> QED BY <2>2, <2>3, <2>4
<1> QED BY <1>4, <1>5

\* Removing edges closes no cycle.
THEOREM RemovalKeepsAcyclic ==
  ASSUME NEW N, NEW E, NEW F \in SUBSET E, Acyclic(N, E)
  PROVE  Acyclic(N, F)
<1>1. SUFFICES ASSUME NEW e \in F
               PROVE  \E U \in SUBSET N : e[2] \in U /\ Closed(F, U) /\ e[1] \notin U
  BY DEF Acyclic, Reaches
<1>2. PICK U \in SUBSET N : e[2] \in U /\ Closed(E, U) /\ e[1] \notin U
  BY DEF Acyclic, Reaches
<1>3. Closed(F, U)
  BY <1>2 DEF Closed
<1> QED BY <1>2, <1>3

\* Of waits without a cycle one is for a node that waits for nothing: the wait
\* from whose target the fewest waits can be reached.
THEOREM SomeoneIsNotWaiting ==
  ASSUME NEW N, NEW E \in SUBSET (N \X N), IsFiniteSet(E), E # {}, Acyclic(N, E)
  PROVE  \E e \in E : \A f \in E : f[1] # e[2]
<1> DEFINE After(e) == {f \in E : Reaches(N, E, e[2], f[1])}
           K == {After(e) : e \in E}
<1>1. K \subseteq SUBSET E /\ K # {}
  OBVIOUS
<1>2. \E T \in K : \A U \in K : U \subseteq T => U = T
  <2> HIDE DEF K
  <2> QED BY <1>1, LeastPart
<1>3. PICK e \in E : \A g \in E : After(g) \subseteq After(e) => After(g) = After(e)
  <2>1. PICK T \in K : \A U \in K : U \subseteq T => U = T
    BY <1>2
  <2>2. PICK e \in E : T = After(e)
    BY <2>1
  <2>3. \A g \in E : After(g) \in K
    OBVIOUS
  <2> HIDE DEF After, K
  <2> QED BY <2>1, <2>2, <2>3
<1>4. ASSUME NEW f \in E, f[1] = e[2] PROVE FALSE
  <2>1. f \in After(e)
    BY <1>4 DEF Reaches
  <2>2. f \notin After(f)
    BY DEF Acyclic
  <2>3. ASSUME NEW S \in SUBSET N, e[2] \in S, Closed(E, S) PROVE f[2] \in S
    BY <1>4, <2>3 DEF Closed
  <2>4. After(f) \subseteq After(e)
    BY <2>3 DEF Reaches
  <2> HIDE DEF After
  <2> QED BY <1>3, <2>1, <2>2, <2>4
<1> QED BY <1>4

-----------------------------------------------------------------------------
\* Walks along the waits, and the length of the longest.

\* What is one wait further on.
Onward(E, T) == {e[2] : e \in {e \in E : e[1] \in T}}

\* The walk is what its definition says.
LEMMA WalkSteps ==
  ASSUME NEW E, NEW x, NEW n \in Nat
  PROVE  /\ WalkFrom(E, x, n)[0] = {x}
         /\ \A k \in 1..n : WalkFrom(E, x, n)[k] = Onward(E, WalkFrom(E, x, n)[k - 1])
<1> DEFINE Is(w, m) == w = [k \in 0..m |-> IF k = 0 THEN {x} ELSE Onward(E, w[k - 1])]
           G == {m \in Nat : \E w : Is(w, m)}
<1>1. 0 \in G
  <2>1. Is([k \in 0..0 |-> {x}], 0)
    OBVIOUS
  <2> QED BY <2>1
<1>2. ASSUME NEW m \in Nat, m \in G PROVE m + 1 \in G
  <2>1. PICK w : Is(w, m)
    BY <1>2
  <2> DEFINE v == [k \in 0..(m + 1) |-> IF k = m + 1 THEN Onward(E, w[m]) ELSE w[k]]
  <2>2. ASSUME NEW k \in 0..(m + 1) PROVE v[k] = IF k = 0 THEN {x} ELSE Onward(E, v[k - 1])
    <3>1. CASE k = m + 1
      <4>1. v[k] = Onward(E, w[m]) /\ k # 0 /\ k - 1 = m /\ m \in 0..(m + 1) /\ m # m + 1
        BY <3>1
      <4>2. v[m] = w[m]
        BY <4>1
      <4> QED BY <4>1, <4>2
    <3>2. CASE k # m + 1
      <4>1. k \in 0..m /\ v[k] = w[k]
        BY <3>2
      <4>2. w[k] = IF k = 0 THEN {x} ELSE Onward(E, w[k - 1])
        BY <2>1, <4>1
      <4>3. k # 0 => k - 1 \in 0..(m + 1) /\ k - 1 # m + 1
        BY <4>1
      <4>4. k # 0 => v[k - 1] = w[k - 1]
        BY <4>3
      <4> QED BY <4>1, <4>2, <4>4
    <3> QED BY <3>1, <3>2
  <2>3. Is(v, m + 1)
    <3>1. v = [k \in 0..(m + 1) |-> v[k]]
      OBVIOUS
    <3> HIDE DEF v
    <3> QED BY <2>2, <3>1
  <2> HIDE DEF v, Is
  <2> QED BY <2>3
<1>3. n \in G
  <2> HIDE DEF G
  <2> QED BY <1>1, <1>2, AllNumbers
<1>4. Is(WalkFrom(E, x, n), n)
  BY <1>3 DEF WalkFrom, Onward
<1> DEFINE W == WalkFrom(E, x, n)
<1>5. W = [k \in 0..n |-> IF k = 0 THEN {x} ELSE Onward(E, W[k - 1])]
  BY <1>4
<1>6. 0 \in 0..n /\ \A k \in 1..n : k \in 0..n /\ k # 0
  OBVIOUS
<1> HIDE DEF W
<1>7. W[0] = {x} /\ \A k \in 1..n : W[k] = Onward(E, W[k - 1])
  BY <1>5, <1>6
<1> QED BY <1>7 DEF W

\* A height that falls along every wait bounds the walks.
Falls(E, h) == \A e \in E : h[e[2]] < h[e[1]]

\* Along a walk the height falls by at least its length.
LEMMA WalksFall ==
  ASSUME NEW N, NEW E \in SUBSET (N \X N), NEW h \in [N -> Nat], Falls(E, h),
         NEW x \in N, NEW n \in Nat
  PROVE  \A k \in 0..n : \A y \in WalkFrom(E, x, n)[k] : y \in N /\ h[y] + k <= h[x]
<1> DEFINE W == WalkFrom(E, x, n)
           G == {k \in Nat : k <= n => \A y \in W[k] : y \in N /\ h[y] + k <= h[x]}
<1>1. 0 \in G
  <2>1. W[0] = {x}
    BY WalkSteps
  <2> HIDE DEF W
  <2> QED BY <2>1
<1>2. ASSUME NEW k \in Nat, k \in G PROVE k + 1 \in G
  <2> SUFFICES ASSUME k + 1 <= n, NEW y \in W[k + 1] PROVE y \in N /\ h[y] + (k + 1) <= h[x]
    OBVIOUS
  <2>1. W[k + 1] = Onward(E, W[k])
    <3>1. k + 1 \in 1..n /\ (k + 1) - 1 = k
      OBVIOUS
    <3> HIDE DEF G
    <3> QED BY <3>1, WalkSteps
  <2>2. PICK e \in E : e[1] \in W[k] /\ e[2] = y
    <3> HIDE DEF W, G
    <3> QED BY <2>1 DEF Onward
  <2>3. e[1] \in N /\ h[e[1]] + k <= h[x]
    <3> HIDE DEF W
    <3> QED BY <1>2, <2>2
  <2>4. y \in N /\ h[y] \in Nat /\ h[e[1]] \in Nat /\ h[x] \in Nat /\ h[y] < h[e[1]]
    BY <2>2, <2>3 DEF Falls
  <2> HIDE DEF W, G
  <2> QED BY <2>3, <2>4
<1>3. \A k \in Nat : k \in G
  <2> HIDE DEF G
  <2> QED BY <1>1, <1>2, AllNumbers
<1> HIDE DEF W
<1> QED BY <1>3 DEF W

\* Longest is the length of a walk, and of no shorter one than any.
LEMMA LongestIs ==
  ASSUME NEW N, IsFiniteSet(N), NEW E, NEW x
  PROVE  /\ Cardinality(N) \in Nat
         /\ Longest(N, E, x) \in 0..Cardinality(N)
         /\ WalkFrom(E, x, Cardinality(N))[Longest(N, E, x)] # {}
         /\ \A j \in 0..Cardinality(N) :
              WalkFrom(E, x, Cardinality(N))[j] # {} => j <= Longest(N, E, x)
<1> DEFINE n == Cardinality(N)
           W == WalkFrom(E, x, n)
           Last(m, k) == W[k] # {} /\ \A j \in 0..m : W[j] # {} => j <= k
           G == {m \in Nat : \E k \in 0..m : Last(m, k)}
<1>1. n \in Nat
  BY FS_CardinalityType
<1>2. 0 \in G
  <2>1. W[0] = {x}
    BY <1>1, WalkSteps
  <2> HIDE DEF W
  <2>2. 0 \in 0..0 /\ \A j \in 0..0 : j = 0
    OBVIOUS
  <2>3. Last(0, 0)
    BY <2>1, <2>2
  <2> QED BY <2>2, <2>3
<1>3. ASSUME NEW m \in Nat, m \in G PROVE m + 1 \in G
  <2>1. PICK k \in 0..m : Last(m, k)
    BY <1>3
  <2> HIDE DEF W
  <2>2. CASE W[m + 1] = {}
    <3>1. k \in 0..(m + 1) /\ \A j \in 0..(m + 1) : j \in 0..m \/ j = m + 1
      OBVIOUS
    <3>2. Last(m + 1, k)
      BY <2>1, <2>2, <3>1
    <3> QED BY <3>1, <3>2
  <2>3. CASE W[m + 1] # {}
    <3>1. m + 1 \in 0..(m + 1) /\ \A j \in 0..(m + 1) : j <= m + 1
      OBVIOUS
    <3>2. Last(m + 1, m + 1)
      BY <2>3, <3>1
    <3> QED BY <3>1, <3>2
  <2> QED BY <2>2, <2>3
<1>4. n \in G
  <2> HIDE DEF G, n
  <2> QED BY <1>1, <1>2, <1>3, AllNumbers
<1>5. \E k \in 0..n : Last(n, k)
  BY <1>4
<1>6. Longest(N, E, x) = CHOOSE k \in 0..n : Last(n, k)
  BY DEF Longest
<1> HIDE DEF n, W
<1>7. Longest(N, E, x) \in 0..n /\ Last(n, Longest(N, E, x))
  BY <1>5, <1>6
<1> QED BY <1>1, <1>7 DEF n, W

\* So a height that falls is above the longest walk.
LEMMA LongestBelow ==
  ASSUME NEW N, IsFiniteSet(N), NEW E \in SUBSET (N \X N), NEW h \in [N -> Nat], Falls(E, h),
         NEW x \in N
  PROVE  Longest(N, E, x) <= h[x]
<1> DEFINE n == Cardinality(N)
           L == Longest(N, E, x)
           W == WalkFrom(E, x, n)
<1>1. n \in Nat /\ L \in 0..n /\ W[L] # {}
  BY LongestIs
<1>2. \A k \in 0..n : \A y \in W[k] : y \in N /\ h[y] + k <= h[x]
  BY <1>1, WalksFall
<1> HIDE DEF n, L, W
<1>3. PICK y \in W[L] : TRUE
  BY <1>1
<1>4. y \in N /\ h[y] + L <= h[x]
  BY <1>1, <1>2, <1>3
<1>5. h[y] \in Nat /\ h[x] \in Nat /\ L \in Nat
  BY <1>1, <1>4
<1>6. L <= h[x]
  BY <1>4, <1>5
<1> QED BY <1>6 DEF L

\* A walk from where a wait leads to is one from where it begins, a step later.
LEMMA WalksContinue ==
  ASSUME NEW E, NEW e \in E, NEW n \in Nat
  PROVE  \A k \in 0..(n - 1) : WalkFrom(E, e[2], n)[k] \subseteq WalkFrom(E, e[1], n)[k + 1]
<1> DEFINE V == WalkFrom(E, e[2], n)
           W == WalkFrom(E, e[1], n)
           G == {k \in Nat : k <= n - 1 => V[k] \subseteq W[k + 1]}
<1>1. /\ V[0] = {e[2]} /\ \A k \in 1..n : V[k] = Onward(E, V[k - 1])
      /\ W[0] = {e[1]} /\ \A k \in 1..n : W[k] = Onward(E, W[k - 1])
  BY WalkSteps
<1> HIDE DEF V, W
<1>2. 0 \in G
  <2> SUFFICES ASSUME 0 <= n - 1 PROVE V[0] \subseteq W[0 + 1]
    OBVIOUS
  <2>1. 1 \in 1..n /\ 0 + 1 = 1 /\ 1 - 1 = 0
    OBVIOUS
  <2>2. W[0 + 1] = Onward(E, W[0])
    BY <1>1, <2>1
  <2> QED BY <1>1, <2>2 DEF Onward
<1>3. ASSUME NEW k \in Nat, k \in G PROVE k + 1 \in G
  <2> SUFFICES ASSUME k + 1 <= n - 1 PROVE V[k + 1] \subseteq W[(k + 1) + 1]
    OBVIOUS
  <2>1. k + 1 \in 1..n /\ (k + 1) + 1 \in 1..n /\ k <= n - 1
        /\ (k + 1) - 1 = k /\ ((k + 1) + 1) - 1 = k + 1
    OBVIOUS
  <2>2. V[k] \subseteq W[k + 1]
    BY <1>3, <2>1
  <2>3. V[k + 1] = Onward(E, V[k]) /\ W[(k + 1) + 1] = Onward(E, W[k + 1])
    <3> HIDE DEF G
    <3> QED BY <1>1, <2>1
  <2> HIDE DEF G
  <2> QED BY <2>2, <2>3 DEF Onward
<1>4. \A k \in Nat : k \in G
  <2> HIDE DEF G
  <2> QED BY <1>2, <1>3, AllNumbers
<1>5. \A k \in 0..(n - 1) : V[k] \subseteq W[k + 1]
  BY <1>4
<1> QED BY <1>5 DEF V, W

\* In a graph without a cycle the number of nodes that a node waits for falls
\* along every wait, so that no walk is as long as there are nodes.
LEMMA Ranks ==
  ASSUME NEW N, IsFiniteSet(N), NEW E \in SUBSET (N \X N), Acyclic(N, E)
  PROVE  \E h \in [N -> Nat] : Falls(E, h) /\ \A x \in N : h[x] < Cardinality(N)
<1> DEFINE R(x) == {z \in N : Reaches(N, E, x, z)}
           h == [x \in N |-> Cardinality(R(x) \ {x})]
<1>1. ASSUME NEW x \in N
      PROVE  /\ x \in R(x) /\ R(x) \subseteq N
             /\ IsFiniteSet(R(x)) /\ IsFiniteSet(R(x) \ {x}) /\ IsFiniteSet(N \ {x})
             /\ Cardinality(R(x) \ {x}) \in Nat
             /\ Cardinality(R(x) \ {x}) = Cardinality(R(x)) - 1
             /\ Cardinality(R(x) \ {x}) <= Cardinality(N \ {x})
             /\ Cardinality(N \ {x}) = Cardinality(N) - 1
             /\ Cardinality(N) \in Nat /\ Cardinality(R(x)) \in Nat
  <2>1. x \in R(x) /\ R(x) \subseteq N
    BY DEF Reaches
  <2> HIDE DEF R
  <2>2. IsFiniteSet(R(x)) /\ IsFiniteSet(R(x) \ {x}) /\ IsFiniteSet(N \ {x})
    <3>1. R(x) \ {x} \subseteq N /\ N \ {x} \subseteq N
      BY <2>1
    <3> QED BY <2>1, <3>1, FS_Subset
  <2>3. /\ Cardinality(R(x) \ {x}) \in Nat /\ Cardinality(N) \in Nat /\ Cardinality(R(x)) \in Nat
    BY <2>2, FS_CardinalityType
  <2>4. /\ Cardinality(R(x) \ {x}) = Cardinality(R(x)) - 1
        /\ Cardinality(N \ {x}) = Cardinality(N) - 1
    BY <2>1, <2>2, FS_RemoveElement
  <2>5. Cardinality(R(x) \ {x}) <= Cardinality(N \ {x})
    <3>1. R(x) \ {x} \subseteq N \ {x}
      BY <2>1
    <3> QED BY <2>2, <3>1, FS_Subset
  <2> QED BY <2>1, <2>2, <2>3, <2>4, <2>5
<1>2. ASSUME NEW e \in E
      PROVE  Cardinality(R(e[2]) \ {e[2]}) < Cardinality(R(e[1]) \ {e[1]})
  <2>1. e[1] \in N /\ e[2] \in N
    OBVIOUS
  <2>2. e[1] \notin R(e[2])
    BY DEF Acyclic
  <2>3. R(e[2]) \subseteq R(e[1])
    BY DEF Reaches, Closed
  <2> HIDE DEF R
  <2>4. R(e[2]) \subseteq R(e[1]) \ {e[1]}
    BY <2>2, <2>3
  <2>5. Cardinality(R(e[2])) <= Cardinality(R(e[1]) \ {e[1]})
    BY <1>1, <2>1, <2>4, FS_Subset
  <2>6. /\ Cardinality(R(e[2]) \ {e[2]}) = Cardinality(R(e[2])) - 1
        /\ Cardinality(R(e[2])) \in Nat /\ Cardinality(R(e[1]) \ {e[1]}) \in Nat
    BY <1>1, <2>1
  <2> QED BY <2>5, <2>6
<1> HIDE DEF R
<1>3. h \in [N -> Nat]
  BY <1>1
<1>4. Falls(E, h)
  <2> SUFFICES ASSUME NEW e \in E PROVE h[e[2]] < h[e[1]]
    BY DEF Falls
  <2>1. e[1] \in N /\ e[2] \in N
    OBVIOUS
  <2> QED BY <1>2, <2>1
<1>5. ASSUME NEW x \in N PROVE h[x] < Cardinality(N)
  <2>1. h[x] = Cardinality(R(x) \ {x})
    OBVIOUS
  <2>2. /\ Cardinality(R(x) \ {x}) <= Cardinality(N \ {x})
        /\ Cardinality(N \ {x}) = Cardinality(N) - 1 /\ Cardinality(N) \in Nat
        /\ Cardinality(R(x) \ {x}) \in Nat
    BY <1>1
  <2> HIDE DEF h
  <2> QED BY <2>1, <2>2
<1> HIDE DEF h
<1> QED BY <1>3, <1>4, <1>5

\* The longest walk gets shorter along every wait.
LEMMA LongestFalls ==
  ASSUME NEW N, IsFiniteSet(N), NEW E \in SUBSET (N \X N), Acyclic(N, E)
  PROVE  /\ [x \in N |-> Longest(N, E, x)] \in [N -> Nat]
         /\ Falls(E, [x \in N |-> Longest(N, E, x)])
<1>1. ASSUME NEW e \in E PROVE Longest(N, E, e[2]) < Longest(N, E, e[1])
  <2> DEFINE n == Cardinality(N)
             K == Longest(N, E, e[2])
             L == Longest(N, E, e[1])
             V == WalkFrom(E, e[2], n)
             W == WalkFrom(E, e[1], n)
  <2>1. e[1] \in N /\ e[2] \in N
    OBVIOUS
  <2>2. n \in Nat /\ K \in 0..n /\ V[K] # {}
    BY LongestIs
  <2>3. L \in 0..n /\ \A j \in 0..n : W[j] # {} => j <= L
    BY LongestIs
  <2>4. PICK h \in [N -> Nat] : Falls(E, h) /\ \A x \in N : h[x] < n
    BY Ranks
  <2>5. K <= h[e[2]]
    BY <2>1, <2>4, LongestBelow
  <2>6. \A k \in 0..(n - 1) : V[k] \subseteq W[k + 1]
    BY <2>2, WalksContinue
  <2> HIDE DEF n, K, L, V, W
  <2>7. h[e[2]] \in Nat /\ h[e[2]] < n
    BY <2>1, <2>4
  <2>8. K \in 0..(n - 1) /\ K + 1 \in 0..n
    BY <2>2, <2>5, <2>7
  <2>9. W[K + 1] # {}
    BY <2>2, <2>6, <2>8
  <2>10. K + 1 <= L
    BY <2>3, <2>8, <2>9
  <2>11. K < L
    BY <2>2, <2>3, <2>10
  <2> QED BY <2>11 DEF K, L
<1>2. ASSUME NEW x \in N PROVE Longest(N, E, x) \in Nat
  BY LongestIs
<1> QED BY <1>1, <1>2 DEF Falls

\* Waits that are turned round form no cycle either.
LEMMA ReversedAcyclic ==
  ASSUME NEW N, NEW E \in SUBSET (N \X N), Acyclic(N, E)
  PROVE  Reversed(E) \in SUBSET (N \X N) /\ Acyclic(N, Reversed(E))
<1>1. Reversed(E) \in SUBSET (N \X N)
  BY DEF Reversed
<1>2. ASSUME NEW e \in E PROVE ~Reaches(N, Reversed(E), e[1], e[2])
  <2>1. PICK U \in SUBSET N : e[2] \in U /\ Closed(E, U) /\ e[1] \notin U
    BY DEF Acyclic, Reaches
  <2>2. N \ U \in SUBSET N /\ e[1] \in N \ U /\ e[2] \notin N \ U
    BY <2>1
  <2>3. Closed(Reversed(E), N \ U)
    <3> SUFFICES ASSUME NEW f \in E, f[2] \in N \ U PROVE f[1] \in N \ U
      BY DEF Closed, Reversed
    <3> QED BY <2>1 DEF Closed
  <2> QED BY <2>2, <2>3 DEF Reaches
<1>3. ASSUME NEW r \in Reversed(E) PROVE ~Reaches(N, Reversed(E), r[2], r[1])
  <2>1. PICK e \in E : r = <<e[2], e[1]>>
    BY DEF Reversed
  <2> QED BY <1>2, <2>1
<1> QED BY <1>1, <1>3 DEF Acyclic

\* The chains of waits that remain when some are removed are no longer.
THEOREM RemovalKeepsDepth ==
  ASSUME NEW N, IsFiniteSet(N), NEW E \in SUBSET (N \X N), Acyclic(N, E), NEW F \in SUBSET E,
         NEW x \in N
  PROVE  Longest(N, F, x) <= Longest(N, E, x)
<1> DEFINE h == [a \in N |-> Longest(N, E, a)]
<1>1. h \in [N -> Nat] /\ Falls(E, h)
  BY LongestFalls
<1>2. h[x] = Longest(N, E, x)
  OBVIOUS
<1> HIDE DEF h
<1>3. Falls(F, h) /\ F \in SUBSET (N \X N)
  BY <1>1 DEF Falls
<1> QED BY <1>1, <1>2, <1>3, LongestBelow

\* The check of ValidateInsert is about the chains through the new edge only,
\* and it keeps all of them within the limit.
THEOREM InsertionKeepsDepth ==
  ASSUME NEW N, IsFiniteSet(N), NEW E \in SUBSET (N \X N), Acyclic(N, E),
         NEW s \in N, NEW t \in N, ~Reaches(N, E, t, s), NEW D \in Nat,
         \A a \in N : Longest(N, E, a) <= D,
         Longest(N, Reversed(E), s) + Longest(N, E, t) + 1 <= D
  PROVE  \A a \in N : Longest(N, E \cup {<<s, t>>}, a) <= D
<1> DEFINE F == E \cup {<<s, t>>}
           out == [a \in N |-> Longest(N, E, a)]
           into == [a \in N |-> Longest(N, Reversed(E), a)]
           via(a) == into[s] - into[a] + 1 + out[t]
           h == [a \in N |-> IF Reaches(N, E, a, s) /\ via(a) > out[a] THEN via(a) ELSE out[a]]
<1>1. out \in [N -> Nat] /\ Falls(E, out) /\ \A a \in N : out[a] <= D
  BY LongestFalls
<1>2. into \in [N -> Nat] /\ Falls(Reversed(E), into)
  <2> DEFINE B == Reversed(E)
  <2>1. B \in SUBSET (N \X N) /\ Acyclic(N, B)
    BY ReversedAcyclic
  <2> HIDE DEF B
  <2>2. /\ [a \in N |-> Longest(N, B, a)] \in [N -> Nat]
        /\ Falls(B, [a \in N |-> Longest(N, B, a)])
    BY <2>1, LongestFalls
  <2> QED BY <2>2 DEF B
<1>3. into[s] + out[t] + 1 <= D
  OBVIOUS
<1> HIDE DEF out, into
<1>4. ASSUME NEW a \in N
      PROVE  /\ out[a] \in Nat /\ into[a] \in Nat /\ via(a) \in Int /\ via(a) <= D
             /\ h[a] = IF Reaches(N, E, a, s) /\ via(a) > out[a] THEN via(a) ELSE out[a]
  <2>1. out[a] \in Nat /\ into[a] \in Nat /\ out[t] \in Nat /\ into[s] \in Nat
    BY <1>1, <1>2
  <2> QED BY <1>3, <2>1
<1>5. ASSUME NEW a \in N PROVE h[a] \in Nat /\ h[a] <= D /\ out[a] <= h[a]
  <2> HIDE DEF h, via
  <2> QED BY <1>1, <1>4
<1>6. ASSUME NEW e \in E PROVE h[e[2]] < h[e[1]]
  <2>1. e[1] \in N /\ e[2] \in N
    OBVIOUS
  <2>2. out[e[2]] < out[e[1]]
    BY <1>1 DEF Falls
  <2>3. into[e[1]] < into[e[2]]
    <3>1. <<e[2], e[1]>> \in Reversed(E)
      BY DEF Reversed
    <3> QED BY <1>2, <3>1 DEF Falls
  <2>4. Reaches(N, E, e[2], s) => Reaches(N, E, e[1], s)
    BY DEF Reaches, Closed
  <2>5. via(e[2]) < via(e[1])
    <3>1. /\ into[e[1]] \in Nat /\ into[e[2]] \in Nat /\ into[s] \in Nat /\ out[t] \in Nat
      BY <1>4, <2>1
    <3> QED BY <2>3, <3>1
  <2>6. /\ out[e[1]] \in Nat /\ out[e[2]] \in Nat /\ via(e[1]) \in Int /\ via(e[2]) \in Int
        /\ h[e[1]] = IF Reaches(N, E, e[1], s) /\ via(e[1]) > out[e[1]] THEN via(e[1]) ELSE out[e[1]]
        /\ h[e[2]] = IF Reaches(N, E, e[2], s) /\ via(e[2]) > out[e[2]] THEN via(e[2]) ELSE out[e[2]]
    BY <1>4, <2>1
  <2> HIDE DEF h, via
  <2> QED BY <2>2, <2>4, <2>5, <2>6
<1>7. h[t] < h[s]
  <2>1. h[t] = out[t] /\ out[t] \in Nat
    BY <1>4
  <2>2. Reaches(N, E, s, s)
    BY DEF Reaches
  <2>3. via(s) = 1 + out[t]
    <3>1. into[s] \in Nat /\ out[t] \in Nat
      BY <1>4
    <3> QED BY <3>1
  <2>4. h[s] = IF via(s) > out[s] THEN via(s) ELSE out[s]
    BY <1>4, <2>2
  <2>5. out[s] \in Nat
    BY <1>4
  <2> HIDE DEF h, via
  <2> QED BY <2>1, <2>3, <2>4, <2>5
<1>8. h \in [N -> Nat]
  <2>1. h = [a \in N |-> h[a]]
    OBVIOUS
  <2> HIDE DEF h
  <2> QED BY <1>5, <2>1
<1> HIDE DEF h, via
<1>9. Falls(F, h) /\ F \in SUBSET (N \X N)
  BY <1>6, <1>7 DEF Falls
<1> HIDE DEF F
<1>10. ASSUME NEW a \in N PROVE Longest(N, F, a) <= D
  <2>1. Longest(N, F, a) <= h[a] /\ h[a] <= D /\ h[a] \in Nat
    BY <1>5, <1>8, <1>9, LongestBelow
  <2>2. Longest(N, F, a) \in Nat
    BY LongestIs
  <2> QED BY <2>1, <2>2
<1> QED BY <1>10 DEF F
=============================================================================
