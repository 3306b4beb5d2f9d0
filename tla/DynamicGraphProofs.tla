------------------------- MODULE DynamicGraphProofs --------------------------
(***************************************************************************)
(* Proofs about DynamicGraph, for every number of nodes and every kind of  *)
(* data of the edges.                                                      *)
(***************************************************************************)
EXTENDS DynamicGraph, SequenceTheorems, FiniteSetTheorems, WellFoundedInduction, TLAPS

\* Every set of natural numbers but the empty one has a least element: inductions are made
\* on a least counterexample.
LEMMA Least ==
  ASSUME NEW T, T \subseteq Nat, T # {}
  PROVE  \E x \in T : \A y \in T : x <= y
<1> DEFINE R == {ss \in Nat \X Nat : ss[1] < ss[2]}
<1>0. IsWellFoundedOn(R, Nat)
  BY NatLessThanWellFounded, Zenon DEF OpToRel
<1>1. PICK x \in T : \A y \in T : ~ (<<y, x>> \in R)
  <2> HIDE DEF R
  <2> QED BY <1>0, WFMin, Zenon
<1>2. \A y \in T : ~(y < x)
  BY <1>1, Zenon
<1> QED
  BY <1>2

\* A function on 1..n is a sequence of length n.
LEMMA FunctionIsSeq ==
  ASSUME NEW S, NEW n \in Nat, NEW f \in [1..n -> S]
  PROVE  f \in Seq(S) /\ Len(f) = n
<1>1. f \in Seq(S)
  BY SeqDef, Zenon
<1>2. DOMAIN f = 1..Len(f) /\ Len(f) \in Nat
  BY <1>1, LenProperties, Zenon
<1>3. 1..n = 1..Len(f)
  BY <1>2, Zenon
<1> QED BY <1>1, <1>2, <1>3

-----------------------------------------------------------------------------
\* How often an edge occurs in some slots.
Count(f, A, e) == Cardinality({p \in A : f[p] = e})

\* The count is a natural number.
LEMMA CountTyped ==
  ASSUME NEW f, NEW A, IsFiniteSet(A), NEW e
  PROVE  Count(f, A, e) \in Nat /\ IsFiniteSet({p \in A : f[p] = e})
<1>1. {p \in A : f[p] = e} \in SUBSET A
  BY Zenon
<1>2. IsFiniteSet({p \in A : f[p] = e})
  BY <1>1, FS_Subset, Zenon
<1> QED BY <1>2, FS_CardinalityType, Zenon DEF Count

\* What does not occur is counted 0.
LEMMA CountNone ==
  ASSUME NEW f, NEW A, NEW e, \A p \in A : f[p] # e
  PROVE  Count(f, A, e) = 0
<1>1. {p \in A : f[p] = e} = {}
  BY Zenon
<1> QED BY <1>1, FS_EmptySet, Zenon DEF Count

\* What occurs is not counted 0.
LEMMA CountSome ==
  ASSUME NEW f, NEW A, IsFiniteSet(A), NEW p \in A
  PROVE  Count(f, A, f[p]) > 0
<1>1. PICK e : e = f[p]
  BY Zenon
<1>2. {q \in A : f[q] = e} # {}
  BY <1>1, Zenon
<1>3. IsFiniteSet({q \in A : f[q] = e}) /\ Count(f, A, e) \in Nat
  BY CountTyped, Zenon
<1>4. Count(f, A, e) # 0
  BY <1>2, <1>3, FS_EmptySet, Zenon DEF Count
<1> QED BY <1>1, <1>3, <1>4

\* One slot more.
LEMMA CountAdd ==
  ASSUME NEW f, NEW A, IsFiniteSet(A), NEW x, x \notin A, NEW e
  PROVE  Count(f, A \cup {x}, e) = IF f[x] = e THEN Count(f, A, e) + 1 ELSE Count(f, A, e)
<1> DEFINE C == {p \in A : f[p] = e}
<1>0. IsFiniteSet(C) /\ x \notin C
  BY CountTyped
<1>1. CASE f[x] = e
  <2>1. {p \in A \cup {x} : f[p] = e} = C \cup {x}
    BY <1>1, Zenon
  <2>2. Cardinality(C \cup {x}) = Cardinality(C) + 1
    <3> HIDE DEF C
    <3> QED BY <1>0, FS_AddElement, Zenon
  <2> QED BY <1>1, <2>1, <2>2, Zenon DEF Count
<1>2. CASE f[x] # e
  <2>1. {p \in A \cup {x} : f[p] = e} = C
    BY <1>2, Zenon
  <2> QED BY <1>2, <2>1, Zenon DEF Count
<1> QED BY <1>1, <1>2, Zenon

\* Edges that move from slot to slot are counted the same.
LEMMA CountMoved ==
  ASSUME NEW f, NEW h, NEW A, NEW B, IsFiniteSet(A), NEW G \in Bijection(A, B),
         NEW d, NEW e, \A p \in A : f[p] = d <=> h[G[p]] = e
  PROVE  Count(f, A, d) = Count(h, B, e)
<1> DEFINE S == {p \in A : f[p] = d}
           T == {p \in B : h[p] = e}
           M == [p \in S |-> G[p]]
<1>0. G \in [A -> B] /\ (\A p, q \in A : G[p] = G[q] => p = q) /\ \A b \in B : \E p \in A : G[p] = b
  BY Zenon DEF Bijection, Injection, IsInjective, Surjection
<1>1. M \in [S -> T]
  BY <1>0, Zenon
<1>2. \A p, q \in S : M[p] = M[q] => p = q
  BY <1>0, Zenon
<1>3. \A b \in T : \E p \in S : M[p] = b
  BY <1>0, Zenon
<1>4. IsFiniteSet(S)
  <2>1. S \in SUBSET A
    BY Zenon
  <2> HIDE DEF S
  <2> QED BY <2>1, FS_Subset, Zenon
<1> HIDE DEF S, T, M
<1>5. M \in Bijection(S, T)
  <2>1. M \in Injection(S, T)
    BY <1>1, <1>2, Zenon DEF Injection, IsInjective
  <2>2. M \in Surjection(S, T)
    BY <1>1, <1>3, Zenon DEF Surjection
  <2> QED BY <2>1, <2>2, Zenon DEF Bijection
<1>6. Cardinality(T) = Cardinality(S)
  BY <1>4, <1>5, FS_Bijection, Zenon DEF ExistsBijection
<1> QED BY <1>6, Zenon DEF Count, S, T

\* Slots that stay as they are are counted the same.
LEMMA CountSame ==
  ASSUME NEW f, NEW h, NEW A, \A p \in A : f[p] = h[p], NEW e
  PROVE  Count(f, A, e) = Count(h, A, e)
<1>1. {p \in A : f[p] = e} = {p \in A : h[p] = e}
  BY Zenon
<1> QED BY <1>1, Zenon DEF Count

\* An injection of a finite set into one of the same size is a bijection.
LEMMA SameSize ==
  ASSUME NEW A, NEW B, IsFiniteSet(A), IsFiniteSet(B), Cardinality(A) = Cardinality(B),
         NEW G \in [A -> B], \A p, q \in A : G[p] = G[q] => p = q
  PROVE  G \in Bijection(A, B)
<1>1. G \in Injection(A, B)
  BY Zenon DEF Injection, IsInjective
<1>2. G \in Surjection(A, B)
  BY <1>1, FS_Injection, Zenon
<1> QED BY <1>1, <1>2, Zenon DEF Bijection

-----------------------------------------------------------------------------
\* In a finite set of slots every place is taken by exactly one, counted from either end.
Below(S, p) == Cardinality({q \in S : q < p})
Above(S, p) == Cardinality({q \in S : q > p})

\* Different members of a set have different ranks in it.
LEMMA RanksDiffer ==
  ASSUME NEW S, S \subseteq Int, IsFiniteSet(S), NEW p \in S, NEW q \in S, p < q
  PROVE  Below(S, p) < Below(S, q) /\ Above(S, q) < Above(S, p)
<1> DEFINE Lp == {r \in S : r < p}
           Lq == {r \in S : r < q}
           Up == {r \in S : r > p}
           Uq == {r \in S : r > q}
<1>0. p \in Int /\ q \in Int /\ p \in Lq /\ ~(p \in Lp) /\ q \in Up /\ ~(q \in Uq)
  OBVIOUS
<1>1. Lp \in SUBSET Lq /\ Lp # Lq /\ Lq \in SUBSET S
  <2>1. \A r \in S : r < p => r < q
    BY <1>0
  <2> QED BY <1>0, <2>1, Zenon
<1>2. Uq \in SUBSET Up /\ Uq # Up /\ Up \in SUBSET S
  <2>1. \A r \in S : r > q => r > p
    BY <1>0
  <2> QED BY <1>0, <2>1, Zenon
<1> HIDE DEF Lp, Lq, Up, Uq
<1>3. IsFiniteSet(Lq) /\ IsFiniteSet(Up)
  BY <1>1, <1>2, FS_Subset, Zenon
<1>4. IsFiniteSet(Lp) /\ Cardinality(Lp) <= Cardinality(Lq) /\ Cardinality(Lp) # Cardinality(Lq)
  BY <1>1, <1>3, FS_Subset, Zenon
<1>5. IsFiniteSet(Uq) /\ Cardinality(Uq) <= Cardinality(Up) /\ Cardinality(Uq) # Cardinality(Up)
  BY <1>2, <1>3, FS_Subset, Zenon
<1>6. /\ Cardinality(Lp) \in Nat /\ Cardinality(Lq) \in Nat
      /\ Cardinality(Up) \in Nat /\ Cardinality(Uq) \in Nat
  BY <1>3, <1>4, <1>5, FS_CardinalityType, Zenon
<1> QED BY <1>4, <1>5, <1>6 DEF Below, Above, Lp, Lq, Up, Uq

\* The ranks are below the size of the set.
LEMMA RankTyped ==
  ASSUME NEW S, S \subseteq Int, IsFiniteSet(S), NEW p \in S
  PROVE  /\ Cardinality(S) \in Nat
         /\ Below(S, p) \in 0..(Cardinality(S) - 1) /\ Above(S, p) \in 0..(Cardinality(S) - 1)
<1> DEFINE L == {r \in S : r < p}
           U == {r \in S : r > p}
<1>1. L \in SUBSET S /\ L # S /\ U \in SUBSET S /\ U # S
  OBVIOUS
<1> HIDE DEF L, U
<1>2. /\ IsFiniteSet(L) /\ Cardinality(L) <= Cardinality(S) /\ Cardinality(S) # Cardinality(L)
      /\ IsFiniteSet(U) /\ Cardinality(U) <= Cardinality(S) /\ Cardinality(S) # Cardinality(U)
  BY <1>1, FS_Subset, Zenon
<1>3. Cardinality(L) \in Nat /\ Cardinality(U) \in Nat /\ Cardinality(S) \in Nat
  BY <1>2, FS_CardinalityType, Zenon
<1> QED BY <1>2, <1>3 DEF Below, Above, L, U

\* Every rank is taken.
LEMMA RankTaken ==
  ASSUME NEW S, S \subseteq Int, IsFiniteSet(S), NEW r \in 0..(Cardinality(S) - 1)
  PROVE  (\E p \in S : Below(S, p) = r) /\ (\E p \in S : Above(S, p) = r)
<1>0. Cardinality(S) \in Nat
  BY FS_CardinalityType, Zenon
<1> DEFINE N == 0..(Cardinality(S) - 1)
           F == [p \in S |-> Below(S, p)]
           H == [p \in S |-> Above(S, p)]
<1>1. IsFiniteSet(N) /\ Cardinality(N) = Cardinality(S)
  BY <1>0, FS_Interval
<1>2. F \in [S -> N] /\ H \in [S -> N]
  BY RankTyped, Zenon
<1>3. \A p, q \in S : p # q => F[p] # F[q] /\ H[p] # H[q]
  <2> SUFFICES ASSUME NEW p \in S, NEW q \in S, p # q PROVE F[p] # F[q] /\ H[p] # H[q]
    BY Zenon
  <2>1. p < q \/ q < p
    OBVIOUS
  <2>2. \A x \in S : Below(S, x) \in Int /\ Above(S, x) \in Int
    <3> TAKE x \in S
    <3>1. PICK c \in Nat : c = Cardinality(S)
      BY <1>0, Zenon
    <3>2. Below(S, x) \in 0..(c - 1) /\ Above(S, x) \in 0..(c - 1)
      BY <3>1, RankTyped, Zenon
    <3> QED BY <3>2
  <2>3. CASE p < q
    <3>1. Below(S, p) < Below(S, q) /\ Above(S, q) < Above(S, p)
      BY <2>3, RanksDiffer, Zenon
    <3> QED BY <2>2, <3>1
  <2>4. CASE q < p
    <3>1. Below(S, q) < Below(S, p) /\ Above(S, p) < Above(S, q)
      BY <2>4, RanksDiffer, Zenon
    <3> QED BY <2>2, <3>1
  <2> QED BY <2>1, <2>3, <2>4, Zenon
<1> HIDE DEF N, F, H
<1>4. F \in Bijection(S, N) /\ H \in Bijection(S, N)
  BY <1>1, <1>2, <1>3, SameSize, Zenon
<1>5. (\A x \in N : \E p \in S : F[p] = x) /\ (\A x \in N : \E p \in S : H[p] = x)
  BY <1>4, Zenon DEF Bijection, Surjection
<1> QED BY <1>5, Zenon DEF N, F, H

-----------------------------------------------------------------------------
\* The sums of the first numbers of l, up to the first n of them.
Prefix(g, l, n) == g = [k \in 0..n |-> IF k = 0 THEN 0 ELSE g[k - 1] + l[k - 1]]

\* The sums exist.
LEMMA PrefixExists ==
  ASSUME NEW l, NEW n \in Nat
  PROVE  \E g : Prefix(g, l, n)
<1> DEFINE T == {k \in Nat : ~ \E g : Prefix(g, l, k)}
<1>1. SUFFICES ASSUME T # {} PROVE FALSE
  BY Zenon
<1>2. PICK k \in T : \A j \in T : k <= j
  <2>1. T \subseteq Nat
    BY Zenon
  <2> HIDE DEF T
  <2> QED BY <1>1, <2>1, Least, Zenon
<1>3. CASE k = 0
  <2>1. Prefix([j \in 0..0 |-> 0], l, 0)
    BY DEF Prefix
  <2> QED BY <1>3, <2>1, Zenon
<1>4. CASE k # 0
  <2>1. k - 1 \in Nat /\ k - 1 \notin T
    BY <1>2, <1>4
  <2>2. PICK g : Prefix(g, l, k - 1)
    BY <2>1, Zenon
  <2> DEFINE h == [j \in 0..k |-> IF j = k THEN g[k - 1] + l[k - 1] ELSE g[j]]
  <2>3. \A j \in 0..(k - 1) : g[j] = IF j = 0 THEN 0 ELSE g[j - 1] + l[j - 1]
    BY <2>2, Zenon DEF Prefix
  <2>4. \A j \in 0..(k - 1) : h[j] = g[j]
    OBVIOUS
  <2>5. \A j \in 0..k : h[j] = IF j = 0 THEN 0 ELSE h[j - 1] + l[j - 1]
    <3> TAKE j \in 0..k
    <3>1. CASE j = k
      <4>1. h[j] = g[k - 1] + l[k - 1]
        BY <3>1, Zenon
      <4>2. h[k - 1] = g[k - 1]
        BY <2>1, <2>4
      <4> HIDE DEF h
      <4> QED BY <1>4, <3>1, <4>1, <4>2, Zenon
    <3>2. CASE j # k
      <4>1. j \in 0..(k - 1) /\ (j # 0 => j - 1 \in 0..(k - 1))
        BY <3>2
      <4>2. h[j] = g[j] /\ (j # 0 => h[j - 1] = g[j - 1])
        BY <2>4, <4>1, Zenon
      <4> HIDE DEF h
      <4> QED BY <2>3, <4>1, <4>2, Zenon
    <3> QED BY <3>1, <3>2, Zenon
  <2>6. h = [j \in 0..k |-> h[j]]
    BY Zenon
  <2>7. Prefix(h, l, k)
    <3> HIDE DEF h
    <3> QED BY <2>5, <2>6, Zenon DEF Prefix
  <2> HIDE DEF h
  <2> QED BY <2>7, Zenon
<1> QED BY <1>3, <1>4, Zenon

\* What Prefix says of each place.
LEMMA PrefixSteps ==
  ASSUME NEW g, NEW l, Prefix(g, l, NumberOfNodes)
  PROVE  g[0] = 0 /\ \A n \in NodeIterator : g[n + 1] = g[n] + l[n]
<1>1. NumberOfNodes \in Nat \ {0}
  BY GraphAssumption, Zenon
<1>2. \A k \in 0..NumberOfNodes : g[k] = IF k = 0 THEN 0 ELSE g[k - 1] + l[k - 1]
  BY Zenon DEF Prefix
<1>3. \A n \in NodeIterator : n + 1 \in 0..NumberOfNodes /\ n + 1 # 0 /\ (n + 1) - 1 = n
  BY <1>1 DEF NodeIterator
<1>4. g[0] = 0
  BY <1>1, <1>2
<1>5. ASSUME NEW n \in NodeIterator PROVE g[n + 1] = g[n] + l[n]
  <2>1. PICK k : k = n + 1
    BY Zenon
  <2>2. k \in 0..NumberOfNodes /\ k # 0 /\ k - 1 = n
    BY <1>3, <2>1, Zenon
  <2>3. g[k] = g[n] + l[n]
    BY <1>2, <2>2, Zenon
  <2> QED BY <2>1, <2>3, Zenon
<1> QED BY <1>4, <1>5, Zenon

\* When one number changes, the total changes by as much.
LEMMA PrefixChange ==
  ASSUME NEW l \in [NodeIterator -> Int], NEW m \in [NodeIterator -> Int], NEW n \in NodeIterator,
         NEW g, Prefix(g, l, NumberOfNodes), NEW h, Prefix(h, m, NumberOfNodes),
         \A k \in NodeIterator \ {n} : m[k] = l[k]
  PROVE  g[NumberOfNodes] \in Int /\ h[NumberOfNodes] = g[NumberOfNodes] + m[n] - l[n]
<1>d. PICK d \in Int : m[n] = l[n] + d /\ d = m[n] - l[n]
  <2>1. m[n] - l[n] \in Int /\ m[n] = l[n] + (m[n] - l[n])
    OBVIOUS
  <2> QED BY <2>1, Zenon
<1>0. NumberOfNodes \in Nat \ {0} /\ n \in Nat /\ n < NumberOfNodes
  BY GraphAssumption DEF NodeIterator
<1> DEFINE P(k) == g[k] \in Int /\ h[k] = g[k] + (IF n < k THEN d ELSE 0)
           T == {k \in 0..NumberOfNodes : ~P(k)}
<1>s. /\ g[0] = 0 /\ \A k \in NodeIterator : g[k + 1] = g[k] + l[k]
      /\ h[0] = 0 /\ \A k \in NodeIterator : h[k + 1] = h[k] + m[k]
  BY PrefixSteps
<1>1. T = {}
  <2>1. SUFFICES ASSUME T # {} PROVE FALSE
    BY Zenon
  <2>2. PICK k \in T : \A j \in T : k <= j
    <3>1. T \subseteq Nat
      BY <1>0
    <3> HIDE DEF T
    <3> QED BY <2>1, <3>1, Least, Zenon
  <2>3. CASE k = 0
    <3>1. P(0)
      BY <1>0, <1>s
    <3> QED BY <2>2, <2>3, <3>1, Zenon
  <2>4. CASE k # 0
    <3>1. PICK i \in NodeIterator : k = i + 1
      <4>1. k - 1 \in NodeIterator /\ k = (k - 1) + 1
        BY <1>0, <2>2, <2>4 DEF NodeIterator
      <4> QED BY <4>1, Zenon
    <3>2. i \in 0..NumberOfNodes /\ i \in Nat /\ ~(k <= i)
      BY <1>0, <3>1 DEF NodeIterator
    <3>3. P(i)
      BY <2>2, <3>2, Zenon
    <3>4. g[k] = g[i] + l[i] /\ h[k] = h[i] + m[i]
      BY <1>s, <3>1, Zenon
    <3>5. l[i] \in Int /\ m[i] = IF i = n THEN l[i] + d ELSE l[i]
      BY <1>d, Zenon
    <3>6. CASE i = n
      BY <1>0, <2>2, <3>1, <3>3, <3>4, <3>5, <3>6, SMTT(30)
    <3>7. CASE i # n
      <4>1. (n < k) <=> (n < i)
        BY <1>0, <3>1, <3>2, <3>7
      <4> QED BY <1>0, <2>2, <3>3, <3>4, <3>5, <3>7, <4>1
    <3> QED BY <3>6, <3>7, Zenon
  <2> QED BY <2>3, <2>4, Zenon
<1>2. P(NumberOfNodes)
  BY <1>0, <1>1
<1> QED BY <1>0, <1>d, <1>2, Zenon

Changed(l, n, c) == [l EXCEPT ![n] = c]

\* The same for a single update of a function.
LEMMA PrefixExcept ==
  ASSUME NEW l \in [NodeIterator -> Nat], NEW n \in NodeIterator, NEW c \in Nat, NEW g, NEW h,
         Prefix(g, l, NumberOfNodes), Prefix(h, Changed(l, n, c), NumberOfNodes)
  PROVE  h[NumberOfNodes] = g[NumberOfNodes] + c - l[n]
<1>1. PICK m \in [NodeIterator -> Int] : m = Changed(l, n, c)
  <2>1. Changed(l, n, c) \in [NodeIterator -> Int]
    BY DEF Changed
  <2> QED BY <2>1, Zenon
<1>2. m[n] = c /\ \A k \in NodeIterator \ {n} : m[k] = l[k]
  BY <1>1, Zenon DEF Changed
<1>3. l \in [NodeIterator -> Int] /\ Prefix(h, m, NumberOfNodes)
  BY <1>1
<1>4. h[NumberOfNodes] = g[NumberOfNodes] + m[n] - l[n]
  BY <1>2, <1>3, PrefixChange
<1> QED BY <1>2, <1>4, Zenon

\* The same for whatever counts the total.
LEMMA CountChange ==
  ASSUME NEW l \in [NodeIterator -> Nat], NEW n \in NodeIterator, NEW c \in Nat, NEW x \in Int,
         \A g : Prefix(g, l, NumberOfNodes) => x = g[NumberOfNodes]
  PROVE  \A h : Prefix(h, Changed(l, n, c), NumberOfNodes) => x + c - l[n] = h[NumberOfNodes]
<1>1. PICK g : Prefix(g, l, NumberOfNodes)
  BY GraphAssumption, PrefixExists, Zenon
<1> SUFFICES ASSUME NEW h, Prefix(h, Changed(l, n, c), NumberOfNodes)
             PROVE  x + c - l[n] = h[NumberOfNodes]
  BY Zenon
<1>2. h[NumberOfNodes] = g[NumberOfNodes] + c - l[n]
  BY <1>1, PrefixExcept
<1> QED BY <1>1, <1>2, Zenon

\* There is only one total.
LEMMA PrefixSame ==
  ASSUME NEW l \in [NodeIterator -> Int], NEW g, Prefix(g, l, NumberOfNodes), NEW h, Prefix(h, l, NumberOfNodes)
  PROVE  h[NumberOfNodes] = g[NumberOfNodes]
<1>0. 0 \in NodeIterator
  BY GraphAssumption DEF NodeIterator
<1>1. l[0] \in Int
  BY <1>0, Zenon
<1>2. g[NumberOfNodes] \in Int /\ h[NumberOfNodes] = g[NumberOfNodes] + l[0] - l[0]
  BY <1>0, PrefixChange
<1> QED BY <1>1, <1>2

\* Offset is the sums of the lengths.
LEMMA OffsetIs ==
  ASSUME NEW a, NEW l, \A n \in NodeIterator : Len(a[n]) = l[n]
  PROVE  Prefix(Offset(a), l, NumberOfNodes)
<1>0. NumberOfNodes \in Nat \ {0}
  BY GraphAssumption, Zenon
<1> DEFINE F(g) == [n \in 0..NumberOfNodes |-> IF n = 0 THEN 0 ELSE g[n - 1] + Len(a[n - 1])]
           f == CHOOSE g : g = F(g)
<1>1. Offset(a) = f
  BY Zenon DEF Offset
<1>2. ASSUME NEW g PROVE F(g) = [k \in 0..NumberOfNodes |-> IF k = 0 THEN 0 ELSE g[k - 1] + l[k - 1]]
  <2>1. \A k \in 0..NumberOfNodes : k # 0 => k - 1 \in NodeIterator
    BY <1>0 DEF NodeIterator
  <2> QED BY <2>1, Zenon
<1>3. \E g : g = F(g)
  <2>1. PICK g : Prefix(g, l, NumberOfNodes)
    BY <1>0, PrefixExists, Zenon
  <2>2. g = F(g)
    BY <1>2, <2>1, Zenon DEF Prefix
  <2> QED BY <2>2, Zenon
<1>4. f = F(f)
  <2> HIDE DEF F
  <2> QED BY <1>3, Zenon
<1> HIDE DEF f
<1>5. f = [k \in 0..NumberOfNodes |-> IF k = 0 THEN 0 ELSE f[k - 1] + l[k - 1]]
  BY <1>2, <1>4, Zenon
<1> QED BY <1>1, <1>5, Zenon DEF Prefix

\* Sums of natural numbers are natural numbers.
LEMMA PrefixTyped ==
  ASSUME NEW l \in [NodeIterator -> Nat], NEW g, Prefix(g, l, NumberOfNodes)
  PROVE  g \in [0..NumberOfNodes -> Nat]
<1>0. NumberOfNodes \in Nat \ {0}
  BY GraphAssumption, Zenon
<1> DEFINE T == {k \in 0..NumberOfNodes : g[k] \notin Nat}
<1>s. g[0] = 0 /\ \A k \in NodeIterator : g[k + 1] = g[k] + l[k]
  BY PrefixSteps, Zenon
<1>1. T = {}
  <2>1. SUFFICES ASSUME T # {} PROVE FALSE
    BY Zenon
  <2>2. PICK k \in T : \A j \in T : k <= j
    <3>1. T \subseteq Nat
      BY <1>0
    <3> HIDE DEF T
    <3> QED BY <2>1, <3>1, Least, Zenon
  <2>3. CASE k = 0
    BY <1>s, <2>2, <2>3
  <2>4. CASE k # 0
    <3>1. PICK i \in NodeIterator : k = i + 1
      <4>1. k - 1 \in NodeIterator /\ k = (k - 1) + 1
        BY <1>0, <2>2, <2>4 DEF NodeIterator
      <4> QED BY <4>1, Zenon
    <3>2. i \in 0..NumberOfNodes /\ i \in Nat /\ ~(k <= i)
      BY <1>0, <3>1 DEF NodeIterator
    <3>3. g[i] \in Nat
      BY <2>2, <3>2, Zenon
    <3>4. g[k] = g[i] + l[i] /\ l[i] \in Nat
      BY <1>s, <3>1, Zenon
    <3> QED BY <2>2, <3>3, <3>4
  <2> QED BY <2>3, <2>4, Zenon
<1>2. g = [k \in 0..NumberOfNodes |-> g[k]]
  BY Zenon DEF Prefix
<1> QED BY <1>1, <1>2, Zenon

\* Sums of natural numbers do not decrease.
LEMMA PrefixGrows ==
  ASSUME NEW l \in [NodeIterator -> Nat], NEW g, Prefix(g, l, NumberOfNodes),
         NEW j \in 0..NumberOfNodes, NEW n \in 0..NumberOfNodes, j <= n
  PROVE  g[j] <= g[n]
<1>0. NumberOfNodes \in Nat \ {0}
  BY GraphAssumption, Zenon
<1> DEFINE T == {k \in 0..NumberOfNodes : j <= k /\ ~(g[j] <= g[k])}
<1>s. g \in [0..NumberOfNodes -> Nat] /\ \A k \in NodeIterator : g[k + 1] = g[k] + l[k]
  BY PrefixSteps, PrefixTyped, Zenon
<1>1. T = {}
  <2>1. SUFFICES ASSUME T # {} PROVE FALSE
    BY Zenon
  <2>2. PICK k \in T : \A i \in T : k <= i
    <3>1. T \subseteq Nat
      BY <1>0
    <3> HIDE DEF T
    <3> QED BY <2>1, <3>1, Least, Zenon
  <2>3. k \in 0..NumberOfNodes /\ j <= k /\ ~(g[j] <= g[k]) /\ k # j
    BY <1>s, <2>2
  <2>4. PICK i \in NodeIterator : k = i + 1
    <3>1. k - 1 \in NodeIterator /\ k = (k - 1) + 1
      BY <1>0, <2>3 DEF NodeIterator
    <3> QED BY <3>1, Zenon
  <2>5. i \in 0..NumberOfNodes /\ i \in Nat /\ ~(k <= i) /\ j <= i
    BY <1>0, <2>3, <2>4 DEF NodeIterator
  <2>6. g[j] <= g[i]
    BY <2>2, <2>5, Zenon
  <2>7. g[k] = g[i] + l[i] /\ l[i] \in Nat /\ g[i] \in Nat /\ g[j] \in Nat
    BY <1>s, <2>4, <2>5, Zenon
  <2> QED BY <2>3, <2>6, <2>7
<1> QED BY <1>1, Zenon

\* Each slot below the total belongs to a node ...
LEMMA OwnerOf ==
  ASSUME NEW l \in [NodeIterator -> Nat], NEW g, Prefix(g, l, NumberOfNodes),
         NEW p \in Nat, p < g[NumberOfNodes]
  PROVE  \E n \in NodeIterator : g[n] <= p /\ p < g[n + 1]
<1>0. NumberOfNodes \in Nat \ {0}
  BY GraphAssumption, Zenon
<1> DEFINE T == {k \in 0..NumberOfNodes : p < g[k]}
<1>1. g \in [0..NumberOfNodes -> Nat] /\ g[0] = 0
  BY PrefixSteps, PrefixTyped, Zenon
<1>2. T # {} /\ T \subseteq Nat
  BY <1>0
<1>3. PICK k \in T : \A i \in T : k <= i
  <2> HIDE DEF T
  <2> QED BY <1>2, Least, Zenon
<1>4. k \in 0..NumberOfNodes /\ p < g[k] /\ k # 0
  BY <1>1, <1>3
<1>5. PICK n \in NodeIterator : k = n + 1
  <2>1. k - 1 \in NodeIterator /\ k = (k - 1) + 1
    BY <1>0, <1>4 DEF NodeIterator
  <2> QED BY <2>1, Zenon
<1>6. n \in 0..NumberOfNodes /\ ~(k <= n)
  BY <1>0, <1>5 DEF NodeIterator
<1>7. ~(p < g[n])
  BY <1>3, <1>6, Zenon
<1>8. g[n] \in Nat
  BY <1>1, <1>6, Zenon
<1> QED BY <1>4, <1>5, <1>7, <1>8

\* ... and to no other.
LEMMA OneOwner ==
  ASSUME NEW l \in [NodeIterator -> Nat], NEW g, Prefix(g, l, NumberOfNodes), NEW p \in Nat,
         NEW m \in NodeIterator, g[m] <= p, p < g[m + 1],
         NEW n \in NodeIterator, g[n] <= p, p < g[n + 1]
  PROVE  m = n
<1>0. /\ NumberOfNodes \in Nat \ {0} /\ m \in Nat /\ n \in Nat
      /\ m \in 0..NumberOfNodes /\ n \in 0..NumberOfNodes
      /\ m + 1 \in 0..NumberOfNodes /\ n + 1 \in 0..NumberOfNodes
  BY GraphAssumption DEF NodeIterator
<1>1. g \in [0..NumberOfNodes -> Nat]
  BY PrefixTyped, Zenon
<1>2. CASE m < n
  <2>1. g[m + 1] <= g[n]
    BY <1>0, <1>2, PrefixGrows
  <2>2. g[m + 1] \in Nat /\ g[n] \in Nat
    BY <1>0, <1>1, Zenon
  <2> QED BY <2>1, <2>2
<1>3. CASE n < m
  <2>1. g[n + 1] <= g[m]
    BY <1>0, <1>3, PrefixGrows
  <2>2. g[n + 1] \in Nat /\ g[m] \in Nat
    BY <1>0, <1>1, Zenon
  <2> QED BY <2>1, <2>2
<1> QED BY <1>0, <1>2, <1>3

-----------------------------------------------------------------------------
\* An adjacency, its lengths, and the places where its blocks begin.
IsAdjacency(a, l) == l \in [NodeIterator -> Nat] /\ \A n \in NodeIterator : a[n] \in [1..l[n] -> Edge]

\* Packed puts the blocks one after the other: they lie within the list, hold the edges of
\* their nodes in order, and do not overlap.
LEMMA Packing ==
  ASSUME NEW a, NEW l, IsAdjacency(a, l)
  PROVE  /\ Prefix(Offset(a), l, NumberOfNodes)
         /\ Offset(a) \in [0..NumberOfNodes -> Nat]
         /\ \A n \in NodeIterator : /\ Len(a[n]) = l[n]
                                    /\ Offset(a)[n] + l[n] <= Offset(a)[NumberOfNodes]
         /\ Slots(a) \in [0..(Offset(a)[NumberOfNodes] - 1) -> Edge]
         /\ \A n \in NodeIterator : \A i \in 1..l[n] : Slots(a)[Offset(a)[n] + i - 1] = a[n][i]
         /\ \A m, n \in NodeIterator : m # n =>
              (Offset(a)[m]..(Offset(a)[m] + l[m] - 1)) \cap (Offset(a)[n]..(Offset(a)[n] + l[n] - 1)) = {}
<1>0. NumberOfNodes \in Nat \ {0} /\ l \in [NodeIterator -> Nat]
  BY GraphAssumption, Zenon DEF IsAdjacency
<1>1. \A n \in NodeIterator : Len(a[n]) = l[n]
  BY FunctionIsSeq, Zenon DEF IsAdjacency
<1>2. PICK g : g = Offset(a)
  BY Zenon
<1>3. Prefix(g, l, NumberOfNodes)
  BY <1>1, <1>2, OffsetIs, Zenon
<1>4. g \in [0..NumberOfNodes -> Nat] /\ \A n \in NodeIterator : g[n + 1] = g[n] + l[n]
  BY <1>0, <1>3, PrefixTyped, PrefixSteps
<1>5. \A n \in NodeIterator : n \in 0..NumberOfNodes /\ n + 1 \in 0..NumberOfNodes /\ n + 1 <= NumberOfNodes
  BY <1>0 DEF NodeIterator
<1>6. PICK N \in Nat : N = g[NumberOfNodes]
  BY <1>0, <1>4
<1>7. \A n \in NodeIterator : g[n] + l[n] <= N /\ g[n] \in Nat /\ l[n] \in Nat
  <2> TAKE n \in NodeIterator
  <2>1. g[n + 1] <= g[NumberOfNodes]
    BY <1>0, <1>3, <1>5, PrefixGrows
  <2> QED BY <1>0, <1>4, <1>5, <1>6, <2>1, Zenon
<1> DEFINE Owner(p) == CHOOSE n \in NodeIterator : g[n] <= p /\ p < g[n + 1]
<1>8. Slots(a) = [p \in 0..(N - 1) |-> a[Owner(p)][p - g[Owner(p)] + 1]]
  BY <1>2, <1>6 DEF Slots
<1>9. ASSUME NEW p \in 0..(N - 1)
      PROVE  /\ Owner(p) \in NodeIterator /\ g[Owner(p)] <= p /\ p < g[Owner(p) + 1]
             /\ p - g[Owner(p)] + 1 \in 1..l[Owner(p)]
  <2>1. \E n \in NodeIterator : g[n] <= p /\ p < g[n + 1]
    BY <1>0, <1>3, <1>6, OwnerOf
  <2>2. Owner(p) \in NodeIterator /\ g[Owner(p)] <= p /\ p < g[Owner(p) + 1]
    BY <2>1, Zenon
  <2>3. PICK n \in NodeIterator : n = Owner(p)
    BY <2>2, Zenon
  <2>4. g[n] <= p /\ p < g[n] + l[n]
    BY <1>4, <2>2, <2>3, Zenon
  <2>5. p - g[n] + 1 \in 1..l[n]
    BY <1>7, <2>4
  <2> QED BY <2>2, <2>3, <2>5, Zenon
<1>10. ASSUME NEW n \in NodeIterator, NEW i \in 1..l[n]
       PROVE  g[n] + i - 1 \in 0..(N - 1) /\ Owner(g[n] + i - 1) = n /\ g[n] + i - 1 - g[n] + 1 = i
  <2>1. PICK p \in 0..(N - 1) : p = g[n] + i - 1
    BY <1>7
  <2>2. g[n] <= p /\ p < g[n + 1]
    BY <1>4, <1>7, <2>1
  <2>3. PICK m \in NodeIterator : m = Owner(p) /\ g[m] <= p /\ p < g[m + 1]
    BY <1>9, Zenon
  <2>4. m = n
    BY <1>0, <1>3, <2>2, <2>3, OneOwner, SMTT(30)
  <2> HIDE DEF Owner
  <2> QED BY <1>7, <2>1, <2>3, <2>4
<1> HIDE DEF Owner
<1>11. Slots(a) \in [0..(N - 1) -> Edge]
  <2>1. \A p \in 0..(N - 1) : a[Owner(p)][p - g[Owner(p)] + 1] \in Edge
    BY <1>9, Zenon DEF IsAdjacency
  <2> QED BY <1>8, <2>1, Zenon
<1>12. ASSUME NEW n \in NodeIterator, NEW i \in 1..l[n] PROVE Slots(a)[g[n] + i - 1] = a[n][i]
  <2>0. g[n] + i - 1 \in 0..(N - 1) /\ Owner(g[n] + i - 1) = n /\ g[n] + i - 1 - g[n] + 1 = i
    BY <1>10, Zenon
  <2>1. PICK p \in 0..(N - 1) : p = g[n] + i - 1
    BY <2>0, Zenon
  <2>3. Owner(p) = n /\ p - g[n] + 1 = i
    BY <1>7, <2>0, <2>1
  <2>2. Slots(a)[p] = a[Owner(p)][p - g[Owner(p)] + 1]
    BY <1>8, Zenon
  <2> QED BY <2>1, <2>2, <2>3, Zenon
<1>13. ASSUME NEW m \in NodeIterator, NEW n \in NodeIterator, m # n,
              NEW p \in g[m]..(g[m] + l[m] - 1), p \in g[n]..(g[n] + l[n] - 1)
       PROVE  FALSE
  <2>1. p \in Nat /\ g[m] <= p /\ p < g[m + 1] /\ g[n] <= p /\ p < g[n + 1]
    <3>1. PICK x \in Nat, y \in Nat : x = g[m] /\ y = l[m] /\ g[m + 1] = x + y
      BY <1>4, <1>7, Zenon
    <3>2. PICK u \in Nat, v \in Nat : u = g[n] /\ v = l[n] /\ g[n + 1] = u + v
      BY <1>4, <1>7, Zenon
    <3>3. p \in x..(x + y - 1) /\ p \in u..(u + v - 1)
      BY <1>13, <3>1, <3>2, Zenon
    <3> QED BY <3>1, <3>2, <3>3
  <2> QED BY <1>0, <1>3, <1>13, <2>1, OneOwner, Zenon
<1> QED BY <1>1, <1>2, <1>3, <1>4, <1>6, <1>7, <1>11, <1>12, <1>13, Zenon

-----------------------------------------------------------------------------
GraphTypeOK == /\ first_edge \in [NodeIterator -> Nat] /\ edges \in [NodeIterator -> Nat]
               /\ size \in Nat /\ edge_list \in [0..(size - 1) -> Edge \cup {Dummy}]
               /\ number_of_edges \in Int /\ recount \in BOOLEAN

\* The blocks lie within the list, hold edges and do not overlap.
BlocksInside == \A n \in NodeIterator : first_edge[n] + edges[n] <= size
BlocksFull == \A n \in NodeIterator : \A p \in Block(n) : edge_list[p] \in Edge
BlocksApart == \A m, n \in NodeIterator : m # n => Block(m) \cap Block(n) = {}
Counted == recount \/ \A g : Prefix(g, edges, NumberOfNodes) => number_of_edges = g[NumberOfNodes]

GraphInv == GraphTypeOK /\ BlocksInside /\ BlocksFull /\ BlocksApart /\ Counted

Degree(n, a) == Count(edge_list, Block(n), a)

\* The block of a node lies within the list.
LEMMA BlockTyped ==
  ASSUME GraphInv, NEW n \in NodeIterator
  PROVE  /\ first_edge[n] \in Nat /\ edges[n] \in Nat /\ size \in Nat
         /\ IsFiniteSet(Block(n)) /\ Cardinality(Block(n)) = edges[n]
         /\ Block(n) \in SUBSET (0..(size - 1))
<1>1. first_edge[n] \in Nat /\ edges[n] \in Nat /\ size \in Nat /\ first_edge[n] + edges[n] <= size
  BY Zenon DEF GraphInv, GraphTypeOK, BlocksInside
<1>2. PICK a \in Int, b \in Int : a = first_edge[n] /\ b = first_edge[n] + edges[n] - 1
  BY <1>1
<1>3. IsFiniteSet(a..b) /\ Cardinality(a..b) = IF a > b THEN 0 ELSE b - a + 1
  BY FS_Interval, Zenon
<1>4. Block(n) = a..b
  BY <1>2, Zenon DEF Block
<1>5. Cardinality(Block(n)) = edges[n]
  BY <1>1, <1>2, <1>3, <1>4, SMTT(30)
<1> QED BY <1>1, <1>2, <1>3, <1>4, <1>5, SMTT(30)

\* What has to be shown of an operation on the block of one node: the block is
\* from f on and has c edges afterwards.
LEMMA OneBlock ==
  ASSUME GraphInv, NEW n \in NodeIterator, NEW f \in Nat, NEW c \in Nat, NEW s \in Nat,
         first_edge' = [first_edge EXCEPT ![n] = f], edges' = [edges EXCEPT ![n] = c],
         size' = s, size <= s, f + c <= s,
         edge_list' \in [0..(s - 1) -> Edge \cup {Dummy}],
         \A m \in NodeIterator \ {n} : \A p \in Block(m) :
            edge_list'[p] = edge_list[p] /\ p \notin f..(f + c - 1),
         \A p \in f..(f + c - 1) : edge_list'[p] \in Edge,
         number_of_edges' = number_of_edges + c - edges[n], recount' = recount
  PROVE  /\ GraphInv'
         /\ Block(n)' = f..(f + c - 1)
         /\ \A m \in NodeIterator \ {n} : \A a : Degree(m, a)' = Degree(m, a)
<1>1. /\ first_edge' \in [NodeIterator -> Nat] /\ edges' \in [NodeIterator -> Nat]
      /\ first_edge'[n] = f /\ edges'[n] = c
      /\ \A m \in NodeIterator \ {n} : first_edge'[m] = first_edge[m] /\ edges'[m] = edges[m]
  BY Zenon DEF GraphInv, GraphTypeOK
<1>2. Block(n)' = f..(f + c - 1) /\ \A m \in NodeIterator \ {n} : Block(m)' = Block(m)
  BY <1>1, Zenon DEF Block
<1>3. number_of_edges \in Int /\ edges[n] \in Nat /\ edges \in [NodeIterator -> Nat] /\ recount \in BOOLEAN
  BY Zenon DEF GraphInv, GraphTypeOK
<1>4. GraphTypeOK'
  BY <1>1, <1>3 DEF GraphTypeOK
<1>5. BlocksInside'
  <2> SUFFICES ASSUME NEW m \in NodeIterator PROVE first_edge'[m] + edges'[m] <= s
    BY Zenon DEF BlocksInside
  <2>1. CASE m = n
    BY <1>1, <2>1, Zenon
  <2>2. CASE m # n
    <3>1. first_edge[m] \in Nat /\ edges[m] \in Nat /\ size \in Nat /\ first_edge[m] + edges[m] <= size
      BY Zenon DEF GraphInv, GraphTypeOK, BlocksInside
    <3>2. first_edge'[m] = first_edge[m] /\ edges'[m] = edges[m]
      BY <1>1, <2>2, Zenon
    <3> QED BY <3>1, <3>2
  <2> QED BY <2>1, <2>2, Zenon
<1>6. BlocksFull'
  <2> SUFFICES ASSUME NEW m \in NodeIterator PROVE \A p \in Block(m)' : edge_list'[p] \in Edge
    BY Zenon DEF BlocksFull
  <2>1. CASE m = n
    BY <1>2, <2>1, Zenon
  <2>2. CASE m # n
    BY <1>2, <2>2, Zenon DEF GraphInv, BlocksFull
  <2> QED BY <2>1, <2>2, Zenon
<1>7. BlocksApart'
  <2> SUFFICES ASSUME NEW m \in NodeIterator, NEW k \in NodeIterator, m # k
               PROVE  Block(m)' \cap Block(k)' = {}
    BY Zenon DEF BlocksApart
  <2>1. CASE m # n /\ k # n
    BY <1>2, <2>1, Zenon DEF GraphInv, BlocksApart
  <2>2. CASE m = n
    BY <1>2, <2>2, Zenon
  <2>3. CASE k = n
    BY <1>2, <2>3, Zenon
  <2> QED BY <2>1, <2>2, <2>3, Zenon
<1>8. Counted'
  <2>1. CASE recount
    BY <2>1, Zenon DEF Counted
  <2>2. CASE ~recount
    <3>1. \A g : Prefix(g, edges, NumberOfNodes) => number_of_edges = g[NumberOfNodes]
      BY <2>2, Zenon DEF GraphInv, Counted
    <3>2. \A h : Prefix(h, Changed(edges, n, c), NumberOfNodes) =>
                 number_of_edges + c - edges[n] = h[NumberOfNodes]
      BY <1>3, <3>1, CountChange, SMTT(30)
    <3>3. \A h : Prefix(h, edges', NumberOfNodes) => number_of_edges' = h[NumberOfNodes]
      <4>1. edges' = Changed(edges, n, c)
        BY Zenon DEF Changed
      <4> QED BY <3>2, <4>1, Zenon
    <3> QED BY <3>3, Zenon DEF Counted, Prefix
  <2> QED BY <2>1, <2>2, Zenon
<1>9. ASSUME NEW m \in NodeIterator \ {n}, NEW a PROVE Degree(m, a)' = Degree(m, a)
  <2>1. Degree(m, a)' = Count(edge_list', Block(m)', a)
    BY Zenon DEF Degree, Count
  <2>2. Count(edge_list', Block(m), a) = Count(edge_list, Block(m), a)
    BY CountSame
  <2> QED BY <1>2, <2>1, <2>2, Zenon DEF Degree
<1> QED BY <1>2, <1>4, <1>5, <1>6, <1>7, <1>8, <1>9, Zenon DEF GraphInv

\* An operation may leave the first slot where it is.
LEMMA Unmoved ==
  ASSUME GraphInv, NEW n \in NodeIterator
  PROVE  first_edge = [first_edge EXCEPT ![n] = first_edge[n]]
  BY Zenon DEF GraphInv, GraphTypeOK

\* A free slot is in nobody's block.
LEMMA FreeSlot ==
  ASSUME GraphInv, NEW p, isDummy(p), NEW m \in NodeIterator
  PROVE  p \notin Block(m)
  BY GraphAssumption, Zenon DEF GraphInv, BlocksFull, isDummy, Edge, NodeIterator

\* InsertEdge into the free slot after the block.
LEMMA InsertAfterInv ==
  ASSUME GraphInv, NEW n \in NodeIterator, NEW e \in Edge, InsertAfter(n, e)
  PROVE  /\ GraphInv'
         /\ \A m \in NodeIterator \ {n} : \A a : Degree(m, a)' = Degree(m, a)
         /\ \A a : Degree(n, a)' = IF a = e THEN Degree(n, a) + 1 ELSE Degree(n, a)
<1>1. PICK f \in Nat, k \in Nat : f = first_edge[n] /\ k = edges[n] /\ f + k <= size /\ size \in Nat
  BY Zenon DEF GraphInv, GraphTypeOK, BlocksInside
<1>c. PICK c \in Nat : c = k + 1
  BY <1>1
<1>2. f + k \in 0..(size - 1) /\ isDummy(f + k)
  BY <1>1 DEF InsertAfter, FreeAfter
<1>3. edge_list \in [0..(size - 1) -> Edge \cup {Dummy}] /\ number_of_edges \in Int
  BY Zenon DEF GraphInv, GraphTypeOK
<1>4. /\ edge_list' = [edge_list EXCEPT ![f + k] = e] /\ edges' = [edges EXCEPT ![n] = c]
      /\ number_of_edges' = number_of_edges + c - edges[n]
      /\ first_edge' = [first_edge EXCEPT ![n] = f] /\ size' = size /\ recount' = recount
  <2>1. first_edge = [first_edge EXCEPT ![n] = f]
    BY <1>1, Unmoved, Zenon
  <2>2. number_of_edges + 1 = number_of_edges + c - edges[n]
    BY <1>1, <1>c, <1>3
  <2> QED BY <1>1, <1>c, <2>1, <2>2, Zenon DEF InsertAfter, Inserted
<1>5. f..(f + c - 1) = Block(n) \cup {f + k} /\ f + k \notin Block(n)
  BY <1>1, <1>c DEF Block
<1>6. ASSUME NEW m \in NodeIterator \ {n}, NEW p \in Block(m)
      PROVE  edge_list'[p] = edge_list[p] /\ p \notin f..(f + c - 1)
  <2>1. p # f + k /\ p \notin Block(n)
    BY <1>2, FreeSlot, Zenon DEF GraphInv, BlocksApart
  <2>2. p \in 0..(size - 1)
    BY BlockTyped, Zenon
  <2> QED BY <1>3, <1>4, <1>5, <2>1, <2>2, Zenon
<1>7. \A p \in Block(n) : edge_list'[p] = edge_list[p] /\ p \in 0..(size - 1)
  BY <1>3, <1>4, <1>5, BlockTyped, Zenon
<1>8. edge_list' \in [0..(size - 1) -> Edge \cup {Dummy}] /\ edge_list'[f + k] = e
  BY <1>2, <1>3, <1>4, Zenon
<1>9. \A p \in f..(f + c - 1) : edge_list'[p] \in Edge
  BY <1>5, <1>7, <1>8, Zenon DEF GraphInv, BlocksFull
<1>10. f + c <= size /\ size <= size /\ size \in Nat
  BY <1>1, <1>c, <1>2
<1>11. /\ GraphInv' /\ Block(n)' = f..(f + c - 1)
       /\ \A m \in NodeIterator \ {n} : \A a : Degree(m, a)' = Degree(m, a)
  BY <1>4, <1>6, <1>8, <1>9, <1>10, OneBlock, Zenon
<1>12. ASSUME NEW a PROVE Degree(n, a)' = IF a = e THEN Degree(n, a) + 1 ELSE Degree(n, a)
  <2>1. Degree(n, a)' = Count(edge_list', Block(n) \cup {f + k}, a)
    BY <1>5, <1>11, Zenon DEF Degree, Count
  <2>2. PICK x : x = f + k
    BY Zenon
  <2>3. Count(edge_list', Block(n) \cup {x}, a) =
          IF edge_list'[x] = a THEN Count(edge_list', Block(n), a) + 1 ELSE Count(edge_list', Block(n), a)
    BY <1>5, <2>2, BlockTyped, CountAdd, SMTT(30)
  <2>4. Count(edge_list', Block(n), a) = Degree(n, a)
    BY <1>7, CountSame DEF Degree
  <2> QED BY <1>8, <2>1, <2>2, <2>3, <2>4, Zenon
<1> QED BY <1>11, <1>12, Zenon

\* InsertEdge into the free slot before the block: the last edge moves there, and the new
\* one takes its slot.
LEMMA InsertBeforeInv ==
  ASSUME GraphInv, NEW n \in NodeIterator, NEW e \in Edge, InsertBefore(n, e)
  PROVE  /\ GraphInv'
         /\ \A m \in NodeIterator \ {n} : \A a : Degree(m, a)' = Degree(m, a)
         /\ \A a : Degree(n, a)' = IF a = e THEN Degree(n, a) + 1 ELSE Degree(n, a)
<1>1. PICK f0 \in Nat, k \in Nat : f0 = first_edge[n] /\ k = edges[n] /\ f0 + k <= size /\ size \in Nat
  BY DEF GraphInv, GraphTypeOK, BlocksInside
<1>c. PICK c \in Nat : c = k + 1
  BY <1>1
<1>f. PICK f \in Nat : f0 = f + 1
  <2>1. f0 - 1 \in Nat /\ f0 = (f0 - 1) + 1
    BY <1>1 DEF InsertBefore, FreeBefore
  <2> QED BY <2>1, Zenon
<1>x. PICK x \in Nat : x = f + k
  BY <1>f
<1>2. f \in 0..(size - 1) /\ x \in 0..(size - 1) /\ isDummy(f) /\ f <= x
  <2>1. isDummy(first_edge[n] - 1) /\ first_edge[n] - 1 = f
    BY <1>1, <1>f DEF InsertBefore, FreeBefore
  <2> QED BY <1>1, <1>f, <1>x, <2>1
<1>3. edge_list \in [0..(size - 1) -> Edge \cup {Dummy}] /\ number_of_edges \in Int
  BY Zenon DEF GraphInv, GraphTypeOK
<1>4. /\ edges' = [edges EXCEPT ![n] = c]
      /\ number_of_edges' = number_of_edges + c - edges[n]
      /\ first_edge' = [first_edge EXCEPT ![n] = f] /\ size' = size /\ recount' = recount
  <2>1. number_of_edges + 1 = number_of_edges + c - edges[n]
    BY <1>1, <1>c, <1>3
  <2>2. first_edge[n] - 1 = f
    BY <1>1, <1>f
  <2> QED BY <1>1, <1>c, <2>1, <2>2, Zenon DEF InsertBefore, Inserted
<1>5. edge_list' = [edge_list EXCEPT ![f] = edge_list[x], ![x] = e]
  <2>1. first_edge[n] - 1 = f /\ f + edges[n] = x
    BY <1>1, <1>f, <1>x
  <2> QED BY <2>1, Zenon DEF InsertBefore
<1>6. /\ edge_list' \in [0..(size - 1) -> Edge \cup {Dummy}]
      /\ edge_list'[x] = e /\ (f # x => edge_list'[f] = edge_list[x])
      /\ \A q \in 0..(size - 1) : q # f /\ q # x => edge_list'[q] = edge_list[q]
  BY <1>2, <1>3, <1>5, Zenon
<1>7. /\ f..(f + c - 1) = f..x /\ Block(n) = (f + 1)..x /\ f..x = (f..(x - 1)) \cup {x}
      /\ x \notin f..(x - 1) /\ (f # x => x \in Block(n))
  <2>1. Block(n) = f0..(f0 + k - 1)
    BY <1>1, Zenon DEF Block
  <2>2. Block(n) = (f + 1)..x /\ f..(f + c - 1) = f..x
    BY <1>c, <1>f, <1>x, <2>1, SMTT(30)
  <2>3. f..x = (f..(x - 1)) \cup {x} /\ x \notin f..(x - 1)
    BY <1>x
  <2>4. f # x => x \in (f + 1)..x
    BY <1>x
  <2> QED BY <2>2, <2>3, <2>4, Zenon
<1>8. ASSUME NEW m \in NodeIterator \ {n}, NEW p \in Block(m)
      PROVE  edge_list'[p] = edge_list[p] /\ p \notin f..(f + c - 1)
  <2>1. p # f /\ p \notin Block(n)
    BY <1>2, FreeSlot, Zenon DEF GraphInv, BlocksApart
  <2>2. p \in 0..(size - 1)
    BY BlockTyped, Zenon
  <2>3. p \notin f..x
    BY <1>2, <1>7, <2>1, <2>2
  <2>4. p # x
    BY <1>2, <2>3
  <2> QED BY <1>6, <1>7, <2>1, <2>2, <2>3, <2>4, Zenon
<1> DEFINE A == f..(x - 1)
           G == [p \in A |-> IF p = f THEN x ELSE p]
<1>9. G \in [A -> Block(n)] /\ (\A p, q \in A : G[p] = G[q] => p = q)
  BY <1>7
<1>10. \A q \in Block(n) : \E p \in A : G[p] = q
  <2> TAKE q \in Block(n)
  <2>1. q \in (f + 1)..x
    BY <1>7, Zenon
  <2>2. CASE q = x
    <3>1. f \in A /\ G[f] = x
      BY <2>1
    <3> QED BY <2>2, <3>1, Zenon
  <2>3. CASE q # x
    <3>1. q \in A /\ G[q] = q
      BY <2>1, <2>3
    <3> QED BY <3>1, Zenon
  <2> QED BY <2>2, <2>3, Zenon
<1>11. \A p \in A : edge_list'[p] = edge_list[G[p]]
  <2> TAKE p \in A
  <2>1. p \in 0..(size - 1) /\ p # x
    BY <1>1, <1>2
  <2> QED BY <1>6, <2>1, Zenon
<1>12. IsFiniteSet(A)
  BY FS_Interval
<1> HIDE DEF A, G
<1>13. G \in Bijection(A, Block(n))
  BY <1>9, <1>10, Zenon DEF Bijection, Injection, Surjection, IsInjective
<1>14. \A p \in f..(f + c - 1) : edge_list'[p] \in Edge
  <2> TAKE p \in f..(f + c - 1)
  <2>1. CASE p = x
    BY <1>6, <2>1, Zenon
  <2>2. CASE p # x
    <3>1. p \in A
      BY <1>7, <2>2, Zenon DEF A
    <3> QED BY <1>9, <1>11, <3>1, Zenon DEF GraphInv, BlocksFull
  <2> QED BY <2>1, <2>2, Zenon
<1>15. f + c <= size /\ size <= size /\ size \in Nat
  BY <1>1, <1>c, <1>f
<1>16. /\ GraphInv' /\ Block(n)' = f..(f + c - 1)
       /\ \A m \in NodeIterator \ {n} : \A a : Degree(m, a)' = Degree(m, a)
  BY <1>4, <1>6, <1>8, <1>14, <1>15, OneBlock, Zenon
<1>17. ASSUME NEW a PROVE Degree(n, a)' = IF a = e THEN Degree(n, a) + 1 ELSE Degree(n, a)
  <2>1. Degree(n, a)' = Count(edge_list', A \cup {x}, a)
    BY <1>7, <1>16, Zenon DEF Degree, Count, A
  <2>2. x \notin A
    BY <1>7, Zenon DEF A
  <2>3. Count(edge_list', A \cup {x}, a) =
          IF edge_list'[x] = a THEN Count(edge_list', A, a) + 1 ELSE Count(edge_list', A, a)
    BY <1>12, <2>2, CountAdd, SMTT(30)
  <2>4. Count(edge_list', A, a) = Degree(n, a)
    BY <1>11, <1>12, <1>13, CountMoved, SMTT(30) DEF Degree
  <2> QED BY <1>6, <2>1, <2>3, <2>4, Zenon
<1> QED BY <1>16, <1>17, Zenon

\* A block that moves has room for one edge more.
LEMMA NewSizeFits == ASSUME NEW n, edges[n] \in Nat PROVE NewSize(n) \in Nat /\ edges[n] + 1 <= NewSize(n)
<1>1. PICK k \in Nat : k = edges[n]
  BY Zenon
<1>2. (11 * k) \div 10 \in Nat /\ k <= (11 * k) \div 10
  BY Z3
<1> QED BY <1>1, <1>2 DEF NewSize

\* InsertEdge into a block that moves to the end of the list.
LEMMA InsertMovingInv ==
  ASSUME GraphInv, NEW n \in NodeIterator, NEW e \in Edge, InsertMoving(n, e)
  PROVE  /\ GraphInv'
         /\ \A m \in NodeIterator \ {n} : \A a : Degree(m, a)' = Degree(m, a)
         /\ \A a : Degree(n, a)' = IF a = e THEN Degree(n, a) + 1 ELSE Degree(n, a)
<1>1. PICK f0 \in Nat, k \in Nat : f0 = first_edge[n] /\ k = edges[n] /\ f0 + k <= size /\ size \in Nat
  BY DEF GraphInv, GraphTypeOK, BlocksInside
<1>c. PICK c \in Nat : c = k + 1
  BY <1>1
<1>f. PICK f \in Nat : f = size
  BY <1>1, Zenon
<1>s. PICK s \in Nat : s = f + NewSize(n) /\ f + c <= s
  BY <1>1, <1>c, <1>f, NewSizeFits
<1>x. PICK x \in Nat : x = f + k
  BY <1>f
<1>3. edge_list \in [0..(f - 1) -> Edge \cup {Dummy}] /\ number_of_edges \in Int
  BY <1>f, Zenon DEF GraphInv, GraphTypeOK
<1>4. /\ edges' = [edges EXCEPT ![n] = c]
      /\ number_of_edges' = number_of_edges + c - edges[n]
      /\ first_edge' = [first_edge EXCEPT ![n] = f] /\ size' = s /\ recount' = recount
  <2>1. number_of_edges + 1 = number_of_edges + c - edges[n]
    BY <1>1, <1>c, <1>3
  <2> QED BY <1>1, <1>c, <1>f, <1>s, <2>1, Zenon DEF InsertMoving, Inserted
<1>5. /\ edge_list' = [p \in 0..(s - 1) |-> edge_list'[p]]
      /\ \A p \in 0..(s - 1) : edge_list'[p] =
                     IF p \in Block(n) THEN Dummy
                     ELSE IF p < f THEN edge_list[p]
                     ELSE IF p < x THEN edge_list[f0 + p - f]
                     ELSE IF p = x THEN e
                     ELSE Dummy
  <2>1. size = f /\ first_edge[n] = f0 /\ edges[n] = k /\ f + NewSize(n) = s /\ f + k = x
    BY <1>1, <1>f, <1>s, <1>x, Zenon
  <2>2. edge_list' = [p \in 0..(f + NewSize(n) - 1) |->
                     IF p \in Block(n) THEN Dummy
                     ELSE IF p < f THEN edge_list[p]
                     ELSE IF p < f + k THEN edge_list[f0 + p - f]
                     ELSE IF p = f + k THEN e
                     ELSE Dummy]
    BY <2>1, Zenon DEF InsertMoving
  <2>3. 0..(f + NewSize(n) - 1) = 0..(s - 1)
    <3>1. PICK d \in Nat : d = NewSize(n)
      BY <1>1, NewSizeFits, Zenon
    <3>2. f + d - 1 = s - 1
      BY <2>1, <3>1
    <3> QED BY <3>1, <3>2, Zenon
  <2>4. edge_list' = [p \in 0..(f + NewSize(n) - 1) |-> edge_list'[p]]
    BY <2>2, Zenon
  <2>5. ASSUME NEW p \in 0..(s - 1)
        PROVE  edge_list'[p] = IF p \in Block(n) THEN Dummy
                     ELSE IF p < f THEN edge_list[p]
                     ELSE IF p < f + k THEN edge_list[f0 + p - f]
                     ELSE IF p = f + k THEN e
                     ELSE Dummy
    <3>1. p \in 0..(f + NewSize(n) - 1)
      BY <2>3, Zenon
    <3> QED BY <2>2, <3>1, Zenon
  <2> QED BY <2>1, <2>3, <2>4, <2>5, Zenon
<1>6. Block(n) = f0..(f0 + k - 1) /\ \A p \in Block(n) : p \in 0..(f - 1) /\ p < f
  BY <1>1, <1>f DEF Block
<1>7. /\ \A p \in 0..(f - 1) : p \notin Block(n) => edge_list'[p] = edge_list[p]
      /\ \A p \in f..(x - 1) : edge_list'[p] = edge_list[f0 + p - f] /\ f0 + p - f \in Block(n)
      /\ edge_list'[x] = e
  <2>1. \A p \in 0..(f - 1) : p \in 0..(s - 1) /\ p < f
    BY <1>c, <1>s
  <2>2. \A p \in f..x : p \in 0..(s - 1) /\ p \notin Block(n) /\ ~(p < f)
    <3> TAKE p \in f..x
    <3>1. p \in 0..(s - 1) /\ ~(p < f)
      BY <1>c, <1>s, <1>x
    <3> QED BY <1>6, <3>1, Zenon
  <2>3. \A p \in f..(x - 1) : p \in f..x /\ p < x
    OBVIOUS
  <2>4. x \in f..x /\ ~(x < x)
    BY <1>x
  <2>5. \A p \in f..(x - 1) : f0 + p - f \in Block(n)
    BY <1>x, <1>6
  <2> QED BY <1>5, <2>1, <2>2, <2>3, <2>4, <2>5, Zenon
<1>8. edge_list' \in [0..(s - 1) -> Edge \cup {Dummy}]
  <2>1. \A p \in 0..(s - 1) : p \in 0..(f - 1) \/ p \in f..(x - 1) \/ p = x \/ p > x
    BY <1>x
  <2>2. \A p \in Block(n) : edge_list[p] \in Edge
    BY Zenon DEF GraphInv, BlocksFull
  <2>3. \A p \in 0..(s - 1) : edge_list'[p] \in Edge \cup {Dummy}
    <3> TAKE p \in 0..(s - 1)
    <3>1. CASE p \in Block(n)
      BY <1>5, <3>1, Zenon
    <3>2. CASE p \in 0..(f - 1) /\ p \notin Block(n)
      BY <1>3, <1>7, <3>2, Zenon
    <3>3. CASE p \in f..(x - 1)
      BY <1>7, <2>2, <3>3, Zenon
    <3>4. CASE p = x
      BY <1>7, <3>4, Zenon
    <3>5. CASE p > x
      <4>1. p \notin Block(n) /\ ~(p < f) /\ ~(p < x) /\ p # x
        <5>1. ~(p < f) /\ ~(p < x) /\ p # x
          BY <1>x, <3>5
        <5> QED BY <1>6, <5>1, Zenon
      <4> QED BY <1>5, <4>1, Zenon
    <3> QED BY <2>1, <3>1, <3>2, <3>3, <3>4, <3>5, Zenon
  <2>4. edge_list' = [p \in 0..(s - 1) |-> edge_list'[p]]
    BY <1>5, Zenon
  <2> QED BY <2>3, <2>4, Zenon
<1>9. f..(f + c - 1) = (f..(x - 1)) \cup {x} /\ x \notin f..(x - 1)
  BY <1>c, <1>x
<1>10. ASSUME NEW m \in NodeIterator \ {n}, NEW p \in Block(m)
       PROVE  edge_list'[p] = edge_list[p] /\ p \notin f..(f + c - 1)
  <2>1. p \notin Block(n)
    BY Zenon DEF GraphInv, BlocksApart
  <2>2. p \in 0..(f - 1)
    BY <1>f, BlockTyped, Zenon
  <2> QED BY <1>7, <2>1, <2>2
<1> DEFINE A == f..(x - 1)
           G == [p \in A |-> f0 + p - f]
<1>11. G \in [A -> Block(n)] /\ (\A p, q \in A : G[p] = G[q] => p = q)
  BY <1>7
<1>12. \A q \in Block(n) : \E p \in A : G[p] = q
  <2> TAKE q \in Block(n)
  <2>1. q \in f0..(f0 + k - 1)
    BY <1>6, Zenon
  <2>2. q - f0 + f \in A /\ G[q - f0 + f] = q
    BY <1>x, <2>1
  <2> QED BY <2>2, Zenon
<1>13. \A p \in A : edge_list'[p] = edge_list[G[p]]
  BY <1>7, Zenon
<1>14. IsFiniteSet(A)
  BY FS_Interval
<1> HIDE DEF A, G
<1>15. G \in Bijection(A, Block(n))
  BY <1>11, <1>12, Zenon DEF Bijection, Injection, Surjection, IsInjective
<1>16. \A p \in f..(f + c - 1) : edge_list'[p] \in Edge
  <2> TAKE p \in f..(f + c - 1)
  <2>1. CASE p = x
    BY <1>7, <2>1, Zenon
  <2>2. CASE p \in A
    BY <1>11, <1>13, <2>2, Zenon DEF GraphInv, BlocksFull
  <2> QED BY <1>9, <2>1, <2>2, Zenon DEF A
<1>17. size <= s
  BY <1>c, <1>f, <1>s
<1>18. /\ GraphInv' /\ Block(n)' = f..(f + c - 1)
       /\ \A m \in NodeIterator \ {n} : \A a : Degree(m, a)' = Degree(m, a)
  BY <1>s, <1>4, <1>8, <1>10, <1>16, <1>17, OneBlock, Zenon
<1>19. ASSUME NEW a PROVE Degree(n, a)' = IF a = e THEN Degree(n, a) + 1 ELSE Degree(n, a)
  <2>1. Degree(n, a)' = Count(edge_list', A \cup {x}, a)
    BY <1>9, <1>18, Zenon DEF Degree, Count, A
  <2>2. x \notin A
    BY <1>9, Zenon DEF A
  <2>3. Count(edge_list', A \cup {x}, a) =
          IF edge_list'[x] = a THEN Count(edge_list', A, a) + 1 ELSE Count(edge_list', A, a)
    BY <1>14, <2>2, CountAdd, SMTT(30)
  <2>4. Count(edge_list', A, a) = Degree(n, a)
    BY <1>13, <1>14, <1>15, CountMoved, SMTT(30) DEF Degree
  <2> QED BY <1>7, <2>1, <2>3, <2>4, Zenon
<1> QED BY <1>18, <1>19, Zenon

\* DeleteEdge fills the slot with the last edge of the block.
LEMMA DeleteEdgeInv ==
  ASSUME GraphInv, NEW n \in NodeIterator, NEW p \in Block(n), DeleteEdge(n, p)
  PROVE  /\ GraphInv' /\ edge_list[p] \in Edge /\ Degree(n, edge_list[p]) > 0
         /\ \A m \in NodeIterator \ {n} : \A a : Degree(m, a)' = Degree(m, a)
         /\ \A a : Degree(n, a)' = IF a = edge_list[p] THEN Degree(n, a) - 1 ELSE Degree(n, a)
<1>1. PICK f \in Nat, k \in Nat : f = first_edge[n] /\ k = edges[n] /\ f + k <= size /\ size \in Nat
  BY Zenon DEF GraphInv, GraphTypeOK, BlocksInside
<1>2. Block(n) = f..(f + k - 1) /\ IsFiniteSet(Block(n)) /\ p \in f..(f + k - 1)
  BY <1>1, BlockTyped, Zenon DEF Block
<1>c. PICK c \in Nat : k = c + 1
  <2>1. k - 1 \in Nat /\ k = (k - 1) + 1
    BY <1>2
  <2> QED BY <2>1, Zenon
<1>x. PICK x \in Nat : x = f + c
  BY <1>1
<1>3. edge_list \in [0..(size - 1) -> Edge \cup {Dummy}] /\ number_of_edges \in Int
  BY Zenon DEF GraphInv, GraphTypeOK
<1>4. /\ edges' = [edges EXCEPT ![n] = c]
      /\ number_of_edges' = number_of_edges + c - edges[n]
      /\ first_edge' = [first_edge EXCEPT ![n] = f] /\ size' = size /\ recount' = recount
  <2>1. number_of_edges - 1 = number_of_edges + c - edges[n] /\ edges[n] - 1 = c
    BY <1>1, <1>c, <1>3
  <2>2. first_edge = [first_edge EXCEPT ![n] = f]
    BY <1>1, Unmoved, Zenon
  <2> QED BY <1>1, <1>c, <2>1, <2>2, Zenon DEF DeleteEdge
<1>5. edge_list' = [edge_list EXCEPT ![p] = edge_list[x], ![x] = Dummy]
  <2>1. first_edge[n] + edges[n] - 1 = x
    BY <1>1, <1>c, <1>x
  <2> QED BY <2>1, Zenon DEF DeleteEdge
<1>6. /\ Block(n) = (f..(x - 1)) \cup {x} /\ x \notin f..(x - 1) /\ f..(f + c - 1) = f..(x - 1)
      /\ Block(n) = f..x /\ p \in f..x
  <2>1. f + k - 1 = x /\ f + c - 1 = x - 1
    BY <1>c, <1>x
  <2>2. f..x = (f..(x - 1)) \cup {x} /\ x \notin f..(x - 1)
    BY <1>x
  <2> QED BY <1>2, <2>1, <2>2, Zenon
<1>7. x \in 0..(size - 1) /\ p \in 0..(size - 1) /\ \A q \in f..(x - 1) : q \in 0..(size - 1) /\ q # x
  <2>1. x < size /\ 0 <= f
    BY <1>1, <1>c, <1>x, SMTT(30)
  <2>2. \A q \in f..x : q \in 0..(size - 1)
    BY <1>1, <2>1
  <2>3. x \in f..x
    BY <1>x
  <2> QED BY <1>6, <2>2, <2>3, Zenon
<1>8. /\ edge_list' \in [0..(size - 1) -> Edge \cup {Dummy}]
      /\ \A q \in 0..(size - 1) : q # p /\ q # x => edge_list'[q] = edge_list[q]
      /\ \A q \in f..(x - 1) : edge_list'[q] = IF q = p THEN edge_list[x] ELSE edge_list[q]
  BY <1>3, <1>5, <1>7, Zenon
<1>9. \A q \in Block(n) : edge_list[q] \in Edge
  BY Zenon DEF GraphInv, BlocksFull
<1>10. ASSUME NEW m \in NodeIterator \ {n}, NEW q \in Block(m)
       PROVE  edge_list'[q] = edge_list[q] /\ q \notin f..(f + c - 1)
  <2>1. q \notin Block(n)
    BY Zenon DEF GraphInv, BlocksApart
  <2>2. q \in 0..(size - 1)
    BY BlockTyped, Zenon
  <2> QED BY <1>6, <1>8, <2>1, <2>2, Zenon
<1> DEFINE A == f..(x - 1)
           B == Block(n) \ {p}
           G == [q \in A |-> IF q = p THEN x ELSE q]
<1>11. G \in [A -> B] /\ (\A q, r \in A : G[q] = G[r] => q = r)
  BY <1>6, Zenon
<1>12. \A q \in B : \E r \in A : G[r] = q
  <2> TAKE q \in B
  <2>1. CASE q = x
    <3>1. p \in A /\ G[p] = x
      BY <1>6, <2>1, Zenon
    <3> QED BY <2>1, <3>1, Zenon
  <2>2. CASE q # x
    <3>1. q \in A /\ G[q] = q
      BY <1>6, <2>2, Zenon
    <3> QED BY <3>1, Zenon
  <2> QED BY <2>1, <2>2, Zenon
<1>13. \A q \in A : edge_list'[q] = edge_list[G[q]]
  BY <1>8, Zenon
<1>14. IsFiniteSet(A) /\ IsFiniteSet(B) /\ B \cup {p} = Block(n) /\ p \notin B
  <2>1. B \in SUBSET Block(n) /\ B \cup {p} = Block(n) /\ p \notin B
    BY Zenon
  <2> HIDE DEF B
  <2>2. IsFiniteSet(A)
    BY FS_Interval
  <2> QED BY <1>2, <2>1, <2>2, FS_Subset, Zenon
<1>15. \A q \in B : q \in Block(n)
  BY Zenon
<1> HIDE DEF A, B, G
<1>16. G \in Bijection(A, B)
  BY <1>11, <1>12, Zenon DEF Bijection, Injection, Surjection, IsInjective
<1>17. \A q \in f..(f + c - 1) : edge_list'[q] \in Edge
  BY <1>6, <1>9, <1>11, <1>13, <1>15, Zenon DEF A
<1>18. f + c <= size /\ size <= size /\ size \in Nat
  BY <1>1, <1>c
<1>19. /\ GraphInv' /\ Block(n)' = f..(f + c - 1)
       /\ \A m \in NodeIterator \ {n} : \A a : Degree(m, a)' = Degree(m, a)
  BY <1>4, <1>8, <1>10, <1>17, <1>18, OneBlock, ZenonT(30)
<1>20. ASSUME NEW a
       PROVE  Degree(n, a)' = IF a = edge_list[p] THEN Degree(n, a) - 1 ELSE Degree(n, a)
  <2>1. Degree(n, a)' = Count(edge_list', A, a)
    BY <1>6, <1>19, Zenon DEF Degree, Count, A
  <2>2. Count(edge_list', A, a) = Count(edge_list, B, a)
    BY <1>13, <1>14, <1>16, CountMoved, SMTT(30)
  <2>3. Count(edge_list, B \cup {p}, a) =
          IF edge_list[p] = a THEN Count(edge_list, B, a) + 1 ELSE Count(edge_list, B, a)
    BY <1>14, CountAdd
  <2>4. Count(edge_list, B, a) \in Nat
    BY <1>14, CountTyped, Zenon
  <2>5. Degree(n, a) = Count(edge_list, B \cup {p}, a)
    BY <1>14, Zenon DEF Degree
  <2> QED BY <2>1, <2>2, <2>3, <2>4, <2>5, SMTT(30)
<1>21. Degree(n, edge_list[p]) > 0
  BY <1>2, CountSome, Zenon DEF Degree
<1> QED BY <1>9, <1>19, <1>20, <1>21, Zenon

\* DeleteEdgesTo fills as many slots as there are edges to move, each with an edge of its own.
LEMMA DeleteEdgesToInv ==
  ASSUME GraphInv, NEW n \in NodeIterator, NEW target \in NodeIterator, DeleteEdgesTo(n, target)
  PROVE  /\ GraphInv'
         /\ \A m \in NodeIterator \ {n} : \A a : Degree(m, a)' = Degree(m, a)
         /\ \A a \in Edge : Degree(n, a)' = IF a[1] = target THEN 0 ELSE Degree(n, a)
<1>1. PICK f \in Nat, k \in Nat : f = first_edge[n] /\ k = edges[n] /\ f + k <= size /\ size \in Nat
  BY Zenon DEF GraphInv, GraphTypeOK, BlocksInside
<1> DEFINE deleted == {p \in Block(n) : edge_list[p][1] = target}
           stay == Block(n) \ deleted
<1>2. /\ Block(n) = f..(f + k - 1) /\ IsFiniteSet(Block(n)) /\ Cardinality(Block(n)) = k
      /\ \A p \in Block(n) : p \in 0..(size - 1)
  BY <1>1, BlockTyped, Zenon DEF Block
<1>3. /\ deleted \in SUBSET Block(n) /\ stay \in SUBSET Block(n) /\ Block(n) \cap deleted = deleted
      /\ \A p \in Block(n) : p \in deleted <=> edge_list[p][1] = target
      /\ \A p \in Block(n) : p \in stay <=> ~(p \in deleted)
  BY Zenon
<1>4. /\ IsFiniteSet(deleted) /\ IsFiniteSet(stay) /\ Cardinality(deleted) \in Nat
      /\ Cardinality(stay) = k - Cardinality(deleted)
  <2>1. IsFiniteSet(deleted)
    BY <1>2, <1>3, FS_Subset, Zenon
  <2> HIDE DEF deleted
  <2>2. IsFiniteSet(stay) /\ Cardinality(stay) = Cardinality(Block(n)) - Cardinality(Block(n) \cap deleted)
    BY <1>2, <2>1, FS_Difference, Zenon
  <2> HIDE DEF stay
  <2> QED BY <1>2, <1>3, <2>1, <2>2, FS_CardinalityType, Zenon
<1>c. PICK c \in Nat : c = Cardinality(stay) /\ c <= k /\ Cardinality(deleted) = k - c
  <2> HIDE DEF deleted, stay
  <2>1. Cardinality(stay) \in Nat
    BY <1>4, FS_CardinalityType, Zenon
  <2> QED BY <1>4, <2>1
<1> DEFINE x == first_edge[n] + Cardinality(stay)
<1>x. x \in Nat /\ x = f + c
  BY <1>1, <1>c
<1> DEFINE holes == {p \in deleted : p < x}
           movers == {p \in stay : p >= x}
           Filler(h) == CHOOSE p \in stay :
                          /\ p >= x
                          /\ Cardinality({q \in stay : q > p}) = Cardinality({q \in holes : q < h})
           A == f..(x - 1)
<1>5. /\ edge_list' = [p \in DOMAIN edge_list |->
                        IF p \in holes THEN edge_list[Filler(p)]
                        ELSE IF p \in Block(n) /\ p >= x THEN Dummy
                        ELSE edge_list[p]]
      /\ edges' = [edges EXCEPT ![n] = Cardinality(stay)]
      /\ number_of_edges' = number_of_edges - Cardinality(deleted)
      /\ UNCHANGED <<first_edge, size, recount>>
  BY Zenon DEF DeleteEdgesTo
<1> HIDE DEF x
<1>6. /\ A \subseteq Block(n) /\ IsFiniteSet(A) /\ Cardinality(A) = c
      /\ \A p \in A : p < x /\ p \in Int /\ ~(p >= x)
      /\ \A p \in Block(n) : p \in Int /\ (p < x <=> p \in A) /\ (p >= x <=> ~(p \in A))
  <2>1. A \subseteq Block(n)
    <3>1. x - 1 \in Int /\ x - 1 <= f + k - 1
      BY <1>c, <1>x
    <3> QED BY <1>2, <3>1
  <2>2. IsFiniteSet(A) /\ Cardinality(A) = c
    <3>1. PICK b \in Int : b = x - 1
      BY <1>x
    <3>2. IsFiniteSet(f..b) /\ Cardinality(f..b) = IF f > b THEN 0 ELSE b - f + 1
      BY FS_Interval
    <3> QED BY <1>x, <3>1, <3>2
  <2>3. /\ \A p \in A : p < x /\ p \in Int /\ ~(p >= x)
        /\ \A p \in Block(n) : p \in Int /\ (p < x <=> p \in A) /\ (p >= x <=> ~(p \in A))
    BY <1>x, <1>2
  <2> QED BY <2>1, <2>2, <2>3, Zenon
<1>7. holes = A \ stay /\ movers = stay \ A /\ stay \cap A = A \cap stay
  <2> HIDE DEF A
  <2> QED BY <1>3, <1>6, Zenon
<1>8. /\ IsFiniteSet(holes) /\ IsFiniteSet(movers) /\ Cardinality(movers) = Cardinality(holes)
      /\ holes \subseteq Int /\ movers \subseteq Int /\ holes \subseteq A
  <2>0. holes \subseteq Int /\ movers \subseteq Int /\ holes \subseteq A
    BY <1>6, <1>7, Zenon
  <2> HIDE DEF A, stay, deleted, holes, movers
  <2>1. /\ IsFiniteSet(A \ stay) /\ Cardinality(A \ stay) = Cardinality(A) - Cardinality(A \cap stay)
        /\ IsFiniteSet(stay \ A) /\ Cardinality(stay \ A) = Cardinality(stay) - Cardinality(stay \cap A)
    BY <1>4, <1>6, FS_Difference, Zenon
  <2> QED BY <1>c, <1>6, <1>7, <2>0, <2>1, Zenon
<1>9. ASSUME NEW h \in holes
      PROVE  Filler(h) \in movers /\ Above(movers, Filler(h)) = Below(holes, h)
  <2>1. ASSUME NEW p \in movers PROVE Cardinality({q \in stay : q > p}) = Above(movers, p)
    <3>1. {q \in stay : q > p} = {q \in movers : q > p}
      <4>1. \A q \in stay : q \in Int /\ p \in Int /\ p >= x
        BY <1>3, <1>6, Zenon
      <4>2. \A q \in stay : q > p => q >= x
        <5> HIDE DEF stay, movers
        <5> QED BY <1>x, <4>1
      <4> QED BY <4>2, Zenon
    <3> QED BY <3>1, Zenon DEF Above
  <2>2. PICK r : r = Below(holes, h)
    BY Zenon
  <2>3. PICK p \in movers : Above(movers, p) = r
    <3> HIDE DEF holes, movers
    <3>1. r \in 0..(Cardinality(movers) - 1)
      BY <1>8, <2>2, RankTyped, Zenon
    <3> QED BY <1>8, <3>1, RankTaken, Zenon
  <2>4. \E y \in stay : y >= x /\ Cardinality({q \in stay : q > y}) = Cardinality({q \in holes : q < h})
    <3>1. p \in stay /\ p >= x
      BY Zenon
    <3>2. Cardinality({q \in stay : q > p}) = Cardinality({q \in holes : q < h})
      <4>1. Cardinality({q \in stay : q > p}) = Above(movers, p)
        BY <2>1, Zenon
      <4> QED BY <2>2, <2>3, <4>1, Zenon DEF Below
    <3> HIDE DEF stay, holes
    <3> QED BY <3>1, <3>2, Zenon
  <2>5. PICK y : y = Filler(h)
    BY Zenon
  <2>6. y \in stay /\ y >= x /\ Cardinality({q \in stay : q > y}) = Cardinality({q \in holes : q < h})
    <3> HIDE DEF stay, holes
    <3> QED BY <2>4, <2>5, Zenon
  <2>7. y \in movers
    BY <2>6, Zenon
  <2>8. Above(movers, y) = Below(holes, h)
    <3>1. Cardinality({q \in stay : q > y}) = Above(movers, y)
      BY <2>1, <2>7, Zenon
    <3> QED BY <2>6, <3>1, Zenon DEF Below
  <2> HIDE DEF Filler, movers, holes
  <2> QED BY <2>5, <2>7, <2>8, Zenon
<1>10. ASSUME NEW g \in holes, NEW h \in holes, Filler(g) = Filler(h) PROVE g = h
  <2> HIDE DEF Filler, movers, holes
  <2>1. Below(holes, g) = Below(holes, h)
    BY <1>9, <1>10, Zenon
  <2>2. g \in Int /\ h \in Int
    BY <1>8, Zenon
  <2>3. Below(holes, g) \in Int /\ Below(holes, h) \in Int
    <3>1. PICK d \in Nat : d = Cardinality(holes)
      BY <1>8, RankTyped, Zenon
    <3>2. Below(holes, g) \in 0..(d - 1) /\ Below(holes, h) \in 0..(d - 1)
      BY <1>8, <3>1, RankTyped, Zenon
    <3> QED BY <3>2
  <2>4. ~(g < h) /\ ~(h < g)
    <3>1. g < h => Below(holes, g) < Below(holes, h)
      BY <1>8, RanksDiffer, Zenon
    <3>2. h < g => Below(holes, h) < Below(holes, g)
      BY <1>8, RanksDiffer, Zenon
    <3> QED BY <2>1, <2>3, <3>1, <3>2, SMTT(30)
  <2> QED BY <2>2, <2>4
<1> DEFINE G == [p \in A |-> IF p \in holes THEN Filler(p) ELSE p]
<1>11. /\ \A p \in movers : p \in stay /\ ~(p \in A)
       /\ \A p \in A : ~(p \in holes) => p \in stay
  <2> HIDE DEF A, holes, movers
  <2> QED BY <1>7, Zenon
<1>12. \A p \in Block(n) : edge_list[p] \in Edge
  BY Zenon DEF GraphInv, BlocksFull
<1>13. \A p \in stay : p \in Block(n) /\ edge_list[p][1] # target
  BY Zenon
<1>14. DOMAIN edge_list = 0..(size - 1) /\ edge_list \in [0..(size - 1) -> Edge \cup {Dummy}]
  BY Zenon DEF GraphInv, GraphTypeOK
<1>15. \A a : a[1] # target => {p \in stay : edge_list[p] = a} = {p \in Block(n) : edge_list[p] = a}
  BY Zenon
<1>16. ASSUME NEW p \in 0..(size - 1)
       PROVE  edge_list'[p] = IF p \in holes THEN edge_list[Filler(p)]
                        ELSE IF p \in Block(n) /\ p >= x THEN Dummy
                        ELSE edge_list[p]
  <2> HIDE DEF Filler, holes
  <2> QED BY <1>5, <1>14, Zenon
<1> HIDE DEF Filler, holes, movers, stay, deleted
<1>17. G \in [A -> stay] /\ \A p, q \in A : G[p] = G[q] => p = q
  <2>1. G \in [A -> stay]
    <3> HIDE DEF A
    <3> QED BY <1>9, <1>11, Zenon
  <2>2. ASSUME NEW p \in A, NEW q \in A, G[p] = G[q] PROVE p = q
    <3> HIDE DEF A
    <3> QED BY <1>9, <1>10, <1>11, <2>2, Zenon
  <2> QED BY <2>1, <2>2, Zenon
<1>18. \A p \in A : edge_list'[p] = edge_list[G[p]]
  <2> TAKE p \in A
  <2>1. p \in 0..(size - 1) /\ ~(p >= x)
    <3> HIDE DEF A
    <3> QED BY <1>2, <1>6, Zenon
  <2> HIDE DEF A
  <2> QED BY <1>16, <2>1, Zenon
<1> HIDE DEF G, A
<1>19. G \in Bijection(A, stay)
  BY <1>c, <1>4, <1>6, <1>17, SameSize, Zenon
<1>20. edge_list' \in [0..(size - 1) -> Edge \cup {Dummy}]
  <2>1. ASSUME NEW p \in 0..(size - 1) PROVE edge_list'[p] \in Edge \cup {Dummy}
    <3>1. CASE p \in holes
      <4>1. edge_list[Filler(p)] \in Edge
        BY <1>9, <1>11, <1>12, <1>13, <3>1, ZenonT(30)
      <4> QED BY <1>16, <3>1, <4>1, Zenon
    <3>2. CASE ~(p \in holes)
      BY <1>14, <1>16, <3>2, Zenon
    <3> QED BY <3>1, <3>2, Zenon
  <2>2. edge_list' = [p \in 0..(size - 1) |-> edge_list'[p]]
    BY <1>5, <1>14, Zenon
  <2> QED BY <2>1, <2>2, Zenon
<1>21. ASSUME NEW m \in NodeIterator \ {n}, NEW p \in Block(m)
       PROVE  edge_list'[p] = edge_list[p] /\ p \notin A
  <2>1. p \notin Block(n)
    BY Zenon DEF GraphInv, BlocksApart
  <2>2. p \in 0..(size - 1)
    BY BlockTyped, Zenon
  <2>3. ~(p \in holes) /\ ~(p \in A)
    BY <1>6, <1>8, <2>1, Zenon
  <2> QED BY <1>16, <2>1, <2>2, <2>3, Zenon
<1>22. \A p \in A : edge_list'[p] \in Edge
  BY <1>12, <1>13, <1>17, <1>18, Zenon
<1>23. /\ edges' = [edges EXCEPT ![n] = c]
       /\ number_of_edges' = number_of_edges + c - edges[n]
       /\ first_edge' = [first_edge EXCEPT ![n] = f] /\ size' = size /\ recount' = recount
  <2>1. number_of_edges - Cardinality(deleted) = number_of_edges + c - edges[n]
    BY <1>1, <1>c DEF GraphInv, GraphTypeOK
  <2>2. first_edge = [first_edge EXCEPT ![n] = f]
    BY <1>1, Unmoved, Zenon
  <2> QED BY <1>c, <1>5, <2>1, <2>2, Zenon
<1>24. f + c <= size /\ size <= size /\ A = f..(f + c - 1)
  <2>1. x - 1 = f + c - 1
    BY <1>x
  <2>2. f + c <= size /\ size <= size
    BY <1>1, <1>c
  <2> QED BY <2>1, <2>2, Zenon DEF A
<1>25. /\ GraphInv' /\ Block(n)' = A
       /\ \A m \in NodeIterator \ {n} : \A a : Degree(m, a)' = Degree(m, a)
  BY <1>1, <1>20, <1>21, <1>22, <1>23, <1>24, OneBlock, ZenonT(30)
<1>26. ASSUME NEW a \in Edge
       PROVE  Degree(n, a)' = IF a[1] = target THEN 0 ELSE Degree(n, a)
  <2>1. Degree(n, a)' = Count(edge_list', A, a)
    BY <1>25, Zenon DEF Degree, Count
  <2>2. Count(edge_list', A, a) = Count(edge_list, stay, a)
    BY <1>6, <1>18, <1>19, CountMoved, SMTT(30)
  <2>3. CASE a[1] = target
    <3>1. \A p \in stay : edge_list[p] # a
      BY <1>13, <2>3, Zenon
    <3> QED BY <2>1, <2>2, <2>3, <3>1, CountNone, ZenonT(30)
  <2>4. CASE a[1] # target
    BY <1>15, <2>1, <2>2, <2>4, Zenon DEF Degree, Count
  <2> QED BY <2>3, <2>4, Zenon
<1> QED BY <1>25, <1>26, Zenon

-----------------------------------------------------------------------------
\* A packed block has the edges of its node.
LEMMA BlockCopied ==
  ASSUME NEW a, NEW l, IsAdjacency(a, l), NEW n \in NodeIterator, NEW e
  PROVE  Count(Slots(a), Offset(a)[n]..(Offset(a)[n] + l[n] - 1), e) = Count(a[n], 1..l[n], e)
<1>1. PICK f \in Nat, k \in Nat : f = Offset(a)[n] /\ k = l[n]
  <2>1. n \in 0..NumberOfNodes /\ l[n] \in Nat
    BY GraphAssumption DEF NodeIterator, IsAdjacency
  <2> QED BY <2>1, Packing, Zenon
<1>2. \A i \in 1..k : Slots(a)[f + i - 1] = a[n][i]
  BY <1>1, Packing
<1> DEFINE A == 1..k
           B == f..(f + k - 1)
           G == [i \in A |-> f + i - 1]
<1>3. G \in [A -> B] /\ (\A i, j \in A : G[i] = G[j] => i = j) /\ \A i \in A : a[n][i] = Slots(a)[G[i]]
  BY <1>2
<1>4. \A q \in B : \E i \in A : G[i] = q
  <2> TAKE q \in B
  <2>1. q - f + 1 \in A /\ G[q - f + 1] = q
    OBVIOUS
  <2> QED BY <2>1, Zenon
<1>5. IsFiniteSet(A)
  BY FS_Interval
<1> HIDE DEF A, B, G
<1>6. G \in Bijection(A, B)
  BY <1>3, <1>4, Zenon DEF Bijection, Injection, Surjection, IsInjective
<1>7. Count(a[n], A, e) = Count(Slots(a), B, e)
  BY <1>3, <1>5, <1>6, CountMoved, SMTT(30)
<1> QED BY <1>1, <1>7, Zenon DEF A, B

\* The lists that Filter and Renumber make.
LEMMA PackedInv ==
  ASSUME NEW a, NEW l, IsAdjacency(a, l), Packed(a), number_of_edges' \in Int,
         recount' \in BOOLEAN, recount' \/ number_of_edges' = size'
  PROVE  GraphInv' /\ \A n \in NodeIterator : \A e : Degree(n, e)' = Count(a[n], 1..l[n], e)
<1>1. PICK g, b : g = Offset(a) /\ b = Slots(a)
  BY Zenon
<1>2. PICK s \in Nat : s = g[NumberOfNodes]
  <2>1. NumberOfNodes \in 0..NumberOfNodes
    BY GraphAssumption, SMTT(30)
  <2> QED BY <1>1, <2>1, Packing, Zenon
<1>3. /\ Prefix(g, l, NumberOfNodes) /\ g \in [0..NumberOfNodes -> Nat]
      /\ \A n \in NodeIterator : Len(a[n]) = l[n] /\ g[n] + l[n] <= s
      /\ b \in [0..(s - 1) -> Edge]
      /\ \A m, n \in NodeIterator : m # n => (g[m]..(g[m] + l[m] - 1)) \cap (g[n]..(g[n] + l[n] - 1)) = {}
  BY <1>1, <1>2, Packing, SMTT(30)
<1>4. l \in [NodeIterator -> Nat] /\ \A n \in NodeIterator : n \in 0..NumberOfNodes
  BY GraphAssumption DEF IsAdjacency, NodeIterator
<1>5. /\ first_edge' = [n \in NodeIterator |-> g[n]] /\ edges' = [n \in NodeIterator |-> Len(a[n])]
      /\ edge_list' = b /\ size' = s
  BY <1>1, <1>2, Zenon DEF Packed
<1>6. edges' = l
  BY <1>3, <1>4, <1>5, Zenon
<1>7. \A n \in NodeIterator : first_edge'[n] = g[n] /\ g[n] \in Nat /\ l[n] \in Nat
  BY <1>3, <1>4, <1>5, Zenon
<1>8. \A n \in NodeIterator : Block(n)' = g[n]..(g[n] + l[n] - 1)
  BY <1>6, <1>7, Zenon DEF Block
<1>9. GraphTypeOK'
  BY <1>3, <1>4, <1>5, <1>6, <1>7, Zenon DEF GraphTypeOK
<1>10. BlocksInside'
  BY <1>3, <1>5, <1>6, <1>7, Zenon DEF BlocksInside
<1>11. BlocksFull'
  <2> SUFFICES ASSUME NEW n \in NodeIterator, NEW p \in g[n]..(g[n] + l[n] - 1) PROVE b[p] \in Edge
    BY <1>5, <1>8, Zenon DEF BlocksFull
  <2>1. PICK c \in Nat, d \in Nat : c = g[n] /\ d = l[n] /\ c + d <= s
    BY <1>3, <1>7, Zenon
  <2>2. p \in 0..(s - 1)
    BY <2>1
  <2> QED BY <1>3, <2>2, Zenon
<1>12. BlocksApart'
  BY <1>3, <1>8, Zenon DEF BlocksApart
<1>13. Counted'
  <2>1. CASE recount'
    BY <2>1, Zenon DEF Counted
  <2>2. CASE number_of_edges' = size'
    <3>1. ASSUME NEW h, Prefix(h, l, NumberOfNodes) PROVE h[NumberOfNodes] = s
      <4>1. l \in [NodeIterator -> Int]
        BY <1>4
      <4> QED BY <1>2, <1>3, <3>1, <4>1, PrefixSame, Zenon
    <3> QED BY <1>5, <1>6, <2>2, <3>1, Zenon DEF Counted
  <2> QED BY <2>1, <2>2, Zenon
<1>14. ASSUME NEW n \in NodeIterator, NEW e PROVE Degree(n, e)' = Count(a[n], 1..l[n], e)
  <2>1. Degree(n, e)' = Count(b, g[n]..(g[n] + l[n] - 1), e)
    BY <1>5, <1>8, Zenon DEF Degree, Count
  <2> QED BY <1>1, <2>1, BlockCopied, Zenon
<1> QED BY <1>9, <1>10, <1>11, <1>12, <1>13, <1>14, Zenon DEF GraphInv

\* The list that the constructor makes.
LEMMA GraphInitInv == GraphInit => GraphInv
<1> SUFFICES ASSUME GraphInit PROVE GraphInv
  BY Zenon
<1>0. PICK a \in Graphs :
         /\ first_edge = [n \in NodeIterator |-> Offset(a)[n]]
         /\ edges = [n \in NodeIterator |-> Len(a[n])]
         /\ edge_list = Slots(a)
         /\ size = Offset(a)[NumberOfNodes]
         /\ number_of_edges = size
         /\ recount = FALSE
  BY Zenon DEF GraphInit
<1>l. PICK l : l = [n \in NodeIterator |-> Len(a[n])]
  BY Zenon
<1>a. IsAdjacency(a, l)
  <2>1. ASSUME NEW n \in NodeIterator PROVE l[n] \in Nat /\ a[n] \in [1..l[n] -> Edge]
    <3>1. PICK k \in Nat : a[n] \in [1..k -> Edge]
      BY GraphAssumption DEF Graphs
    <3>2. Len(a[n]) = k
      BY <3>1, FunctionIsSeq, Zenon
    <3>3. l[n] = k
      BY <1>l, <3>2, Zenon
    <3> QED BY <3>1, <3>3, Zenon
  <2> QED BY <1>l, <2>1, Zenon DEF IsAdjacency
<1>1. PICK g, b : g = Offset(a) /\ b = Slots(a)
  BY Zenon
<1>2. PICK s \in Nat : s = g[NumberOfNodes]
  <2>1. NumberOfNodes \in 0..NumberOfNodes
    BY GraphAssumption, SMTT(30)
  <2> QED BY <1>a, <1>1, <2>1, Packing, Zenon
<1>3. /\ Prefix(g, l, NumberOfNodes) /\ g \in [0..NumberOfNodes -> Nat]
      /\ \A n \in NodeIterator : Len(a[n]) = l[n] /\ g[n] + l[n] <= s
      /\ b \in [0..(s - 1) -> Edge]
      /\ \A m, n \in NodeIterator : m # n => (g[m]..(g[m] + l[m] - 1)) \cap (g[n]..(g[n] + l[n] - 1)) = {}
  BY <1>a, <1>1, <1>2, Packing, SMTT(30)
<1>4. l \in [NodeIterator -> Nat] /\ \A n \in NodeIterator : n \in 0..NumberOfNodes
  BY <1>a, GraphAssumption DEF IsAdjacency, NodeIterator
<1>5. /\ first_edge = [n \in NodeIterator |-> g[n]] /\ edges = l
      /\ edge_list = b /\ size = s /\ number_of_edges = s /\ recount = FALSE
  BY <1>0, <1>l, <1>1, <1>2, Zenon
<1>7. \A n \in NodeIterator : first_edge[n] = g[n] /\ g[n] \in Nat /\ l[n] \in Nat
  BY <1>3, <1>4, <1>5, Zenon
<1>8. \A n \in NodeIterator : Block(n) = g[n]..(g[n] + l[n] - 1)
  BY <1>5, <1>7, Zenon DEF Block
<1>9. GraphTypeOK
  <2>1. first_edge \in [NodeIterator -> Nat]
    BY <1>5, <1>7, Zenon
  <2>2. edges \in [NodeIterator -> Nat] /\ size \in Nat /\ number_of_edges \in Int
    BY <1>4, <1>5
  <2>3. edge_list \in [0..(size - 1) -> Edge \cup {Dummy}]
    BY <1>3, <1>5, Zenon
  <2>4. recount \in BOOLEAN
    BY <1>5, Zenon
  <2> QED BY <2>1, <2>2, <2>3, <2>4, Zenon DEF GraphTypeOK
<1>10. BlocksInside
  BY <1>3, <1>5, <1>7, Zenon DEF BlocksInside
<1>11. BlocksFull
  <2> SUFFICES ASSUME NEW n \in NodeIterator, NEW p \in g[n]..(g[n] + l[n] - 1) PROVE b[p] \in Edge
    BY <1>5, <1>8, Zenon DEF BlocksFull
  <2>1. PICK c \in Nat, d \in Nat : c = g[n] /\ d = l[n] /\ c + d <= s
    BY <1>3, <1>7, Zenon
  <2>2. p \in 0..(s - 1)
    BY <2>1
  <2> QED BY <1>3, <2>2, Zenon
<1>12. BlocksApart
  BY <1>3, <1>8, Zenon DEF BlocksApart
<1>13. Counted
  <2>1. ASSUME NEW h, Prefix(h, l, NumberOfNodes) PROVE h[NumberOfNodes] = s
    <3>1. l \in [NodeIterator -> Int]
      BY <1>4
    <3> QED BY <1>2, <1>3, <2>1, <3>1, PrefixSame, Zenon
  <2> QED BY <1>5, <2>1, Zenon DEF Counted
<1> QED BY <1>9, <1>10, <1>11, <1>12, <1>13, Zenon DEF GraphInv

\* The sequence of the edges of a node has the edges of its block.
LEMMA AdjacencyIs ==
  ASSUME GraphInv, NEW n \in NodeIterator
  PROVE  /\ edges[n] \in Nat /\ Adjacency[n] \in [1..edges[n] -> Edge]
         /\ \A e : Count(Adjacency[n], 1..edges[n], e) = Degree(n, e)
<1>1. PICK f \in Nat, k \in Nat : f = first_edge[n] /\ k = edges[n]
  BY BlockTyped, Zenon
<1>2. Block(n) = f..(f + k - 1)
  BY <1>1, Zenon DEF Block
<1>3. PICK b : b = Adjacency[n]
  BY Zenon
<1>4. b = [i \in 1..k |-> edge_list[f + i - 1]]
  BY <1>1, <1>3, Zenon DEF Adjacency
<1> DEFINE A == 1..k
           G == [i \in A |-> f + i - 1]
<1>5. G \in [A -> Block(n)] /\ (\A i, j \in A : G[i] = G[j] => i = j) /\ \A i \in A : b[i] = edge_list[G[i]]
  BY <1>2, <1>4
<1>6. \A q \in Block(n) : \E i \in A : G[i] = q
  <2> TAKE q \in Block(n)
  <2>1. q - f + 1 \in A /\ G[q - f + 1] = q
    BY <1>2
  <2> QED BY <2>1, Zenon
<1>7. IsFiniteSet(A)
  BY FS_Interval
<1>8. b = [i \in A |-> b[i]]
  BY <1>4, Zenon
<1> HIDE DEF A, G
<1>9. b \in [A -> Edge]
  BY <1>5, <1>8 DEF GraphInv, BlocksFull
<1>10. G \in Bijection(A, Block(n))
  BY <1>5, <1>6, Zenon DEF Bijection, Injection, Surjection, IsInjective
<1>11. \A e : Count(b, A, e) = Degree(n, e)
  BY <1>5, <1>7, <1>10, CountMoved, SMTT(30) DEF Degree
<1> QED BY <1>1, <1>3, <1>9, <1>11, Zenon DEF A

-----------------------------------------------------------------------------
\* copy_if takes each edge between nodes that are kept once.
LEMMA CopiedIs ==
  ASSUME GraphInv, NEW n \in NodeIterator, NEW keep
  PROVE  /\ Cardinality({p \in Block(n) : edge_list[p][1] \in keep}) \in Nat
         /\ Copied(n, keep) \in [1..Cardinality({p \in Block(n) : edge_list[p][1] \in keep}) -> Edge]
         /\ \A e : Count(Copied(n, keep),
                         1..Cardinality({p \in Block(n) : edge_list[p][1] \in keep}), e) =
                     IF e[1] \in keep THEN Degree(n, e) ELSE 0
<1> DEFINE kept == {p \in Block(n) : edge_list[p][1] \in keep}
           Nth(i) == CHOOSE p \in kept : Cardinality({q \in kept : q < p}) = i - 1
<1>1. /\ kept \in SUBSET Block(n) /\ \A p \in kept : edge_list[p][1] \in keep
      /\ \A e : e[1] \in keep => {p \in kept : edge_list[p] = e} = {p \in Block(n) : edge_list[p] = e}
  BY Zenon
<1>2. PICK b : b = Copied(n, keep)
  BY Zenon
<1>3. b = [i \in 1..Cardinality(kept) |-> edge_list[Nth(i)]]
  BY <1>2, Zenon DEF Copied
<1> HIDE DEF kept
<1>4. IsFiniteSet(kept) /\ kept \subseteq Int
  <2>1. IsFiniteSet(Block(n)) /\ \A p \in Block(n) : p \in Int
    BY BlockTyped
  <2>2. IsFiniteSet(kept)
    BY <1>1, <2>1, FS_Subset, Zenon
  <2> QED BY <1>1, <2>1, <2>2, Zenon
<1>5. PICK k \in Nat : k = Cardinality(kept)
  BY <1>4, FS_CardinalityType, Zenon
<1>6. ASSUME NEW i \in 1..k PROVE Nth(i) \in kept /\ Below(kept, Nth(i)) = i - 1
  <2>1. PICK r : r = i - 1
    BY Zenon
  <2>2. r \in 0..(Cardinality(kept) - 1)
    BY <1>5, <2>1
  <2>3. \E p \in kept : Below(kept, p) = r
    BY <1>4, <2>2, RankTaken, Zenon
  <2> QED BY <2>1, <2>3, Zenon DEF Below
<1> DEFINE A == 1..k
           G == [i \in A |-> Nth(i)]
<1>7. b = [i \in A |-> edge_list[Nth(i)]] /\ IsFiniteSet(A) /\ Cardinality(A) = Cardinality(kept)
  BY <1>3, <1>5, FS_Interval
<1>8. G \in [A -> kept] /\ \A i, j \in A : G[i] = G[j] => i = j
  <2>1. G \in [A -> kept] /\ \A i \in A : Below(kept, G[i]) = i - 1
    <3> HIDE DEF Nth
    <3> QED BY <1>6, Zenon
  <2>2. \A i, j \in A : i - 1 = j - 1 => i = j
    OBVIOUS
  <2> HIDE DEF G, A
  <2> QED BY <2>1, <2>2, Zenon
<1>9. b = [i \in A |-> b[i]] /\ \A i \in A : b[i] = edge_list[G[i]]
  <2> HIDE DEF Nth, A
  <2> QED BY <1>7, Zenon
<1> HIDE DEF G, A, Nth
<1>10. G \in Bijection(A, kept)
  BY <1>4, <1>7, <1>8, SameSize, Zenon
<1>11. b \in [A -> Edge]
  BY <1>1, <1>8, <1>9 DEF GraphInv, BlocksFull
<1>12. ASSUME NEW e PROVE Count(b, A, e) = IF e[1] \in keep THEN Degree(n, e) ELSE 0
  <2>1. Count(b, A, e) = Count(edge_list, kept, e)
    BY <1>7, <1>9, <1>10, CountMoved, SMTT(30)
  <2>2. CASE e[1] \in keep
    BY <1>1, <2>1, <2>2, Zenon DEF Degree, Count
  <2>3. CASE e[1] \notin keep
    <3>1. \A p \in kept : edge_list[p] # e
      BY <1>1, <2>3, Zenon
    <3> QED BY <2>1, <2>3, <3>1, CountNone, Zenon
  <2> QED BY <2>2, <2>3, Zenon
<1> QED BY <1>2, <1>5, <1>11, <1>12, Zenon DEF A, kept

\* Filter keeps the edges between nodes that are kept.
LEMMA FilterInv ==
  ASSUME GraphInv, NEW keep \in SUBSET NodeIterator, Filter(keep)
  PROVE  /\ GraphInv'
         /\ \A n \in NodeIterator : \A e \in Edge :
              Degree(n, e)' = IF n \in keep /\ e[1] \in keep THEN Degree(n, e) ELSE 0
<1>1. PICK a : a = [n \in NodeIterator |-> IF n \in keep THEN Copied(n, keep) ELSE << >>]
  BY Zenon
<1>2. PICK l : l = [n \in NodeIterator |->
                     IF n \in keep THEN Cardinality({p \in Block(n) : edge_list[p][1] \in keep}) ELSE 0]
  BY Zenon
<1>3. ASSUME NEW n \in NodeIterator
      PROVE  /\ l[n] \in Nat /\ a[n] \in [1..l[n] -> Edge]
             /\ \A e : Count(a[n], 1..l[n], e) = IF n \in keep /\ e[1] \in keep THEN Degree(n, e) ELSE 0
  <2>1. CASE n \in keep
    <3>1. a[n] = Copied(n, keep) /\ l[n] = Cardinality({p \in Block(n) : edge_list[p][1] \in keep})
      BY <1>1, <1>2, <2>1, Zenon
    <3> QED BY <2>1, <3>1, CopiedIs
  <2>2. CASE n \notin keep
    <3>1. a[n] = << >> /\ l[n] = 0 /\ 1..0 = {}
      BY <1>1, <1>2, <2>2
    <3>2. \A e : Count(a[n], {}, e) = 0
      BY CountNone, Zenon
    <3>3. << >> \in [{} -> Edge]
      OBVIOUS
    <3> QED BY <2>2, <3>1, <3>2, <3>3, SMTT(30)
  <2> QED BY <2>1, <2>2, Zenon
<1>4. IsAdjacency(a, l)
  BY <1>2, <1>3, Zenon DEF IsAdjacency
<1>5. Packed(a) /\ recount' = TRUE /\ number_of_edges' = number_of_edges
  BY <1>1, Zenon DEF Filter
<1>6. number_of_edges' \in Int
  BY <1>5, Zenon DEF GraphInv, GraphTypeOK
<1>7. recount' \in BOOLEAN /\ recount'
  BY <1>5, Zenon
<1>8. GraphInv' /\ \A n \in NodeIterator : \A e : Degree(n, e)' = Count(a[n], 1..l[n], e)
  BY <1>4, <1>5, <1>6, <1>7, PackedInv, Zenon
<1> QED BY <1>3, <1>8, Zenon

\* Renumber keeps every edge, under the new names of its nodes.
LEMMA RenumberInv ==
  ASSUME GraphInv, NEW f \in Renumberings, Renumber(f)
  PROVE  /\ GraphInv'
         /\ \A n \in NodeIterator : \A e \in Edge :
              Degree(f[n], <<f[e[1]], e[2]>>)' = Degree(n, e)
<1>1. f \in [NodeIterator -> NodeIterator] /\ \A m, n \in NodeIterator : f[m] = f[n] => m = n
  BY Zenon DEF Renumberings
<1>2. IsFiniteSet(NodeIterator)
  BY GraphAssumption, FS_Interval DEF NodeIterator
<1>3. \A n \in NodeIterator : \E m \in NodeIterator : f[m] = n
  <2>1. f \in Bijection(NodeIterator, NodeIterator)
    BY <1>1, <1>2, SameSize, Zenon
  <2> QED BY <2>1, Zenon DEF Bijection, Surjection
<1> DEFINE Old(n) == CHOOSE m \in NodeIterator : f[m] = n
<1>4. ASSUME NEW n \in NodeIterator PROVE Old(n) \in NodeIterator /\ f[Old(n)] = n
  BY <1>3, Zenon
<1>5. ASSUME NEW n \in NodeIterator PROVE Old(f[n]) = n
  <2>1. f[n] \in NodeIterator
    BY <1>1, Zenon
  <2> HIDE DEF Old
  <2> QED BY <1>1, <1>4, <2>1, Zenon
<1>a. PICK a : a = [n \in NodeIterator |->
                     [i \in 1..edges[Old(n)] |-> <<f[Adjacency[Old(n)][i][1]], Adjacency[Old(n)][i][2]>>]]
  BY Zenon
<1>l. PICK l : l = [n \in NodeIterator |-> edges[Old(n)]]
  BY Zenon
<1>6. Packed(a) /\ number_of_edges' = size' /\ recount' = FALSE
  BY <1>a, Zenon DEF Renumber
<1> HIDE DEF Old
<1>7. ASSUME NEW n \in NodeIterator, NEW m \in NodeIterator, m = Old(n)
      PROVE  /\ l[n] = edges[m] /\ l[n] \in Nat /\ a[n] \in [1..l[n] -> Edge]
             /\ \A e \in Edge : Count(a[n], 1..l[n], <<f[e[1]], e[2]>>) = Degree(m, e)
  <2>1. PICK k, b : k \in Nat /\ k = edges[m] /\ b = Adjacency[m] /\ b \in [1..k -> Edge]
    BY AdjacencyIs, Zenon
  <2>2. l[n] = k
    BY <1>l, <1>7, <2>1, Zenon
  <2>3. PICK c : c = a[n]
    BY Zenon
  <2>4. c = [i \in 1..k |-> <<f[b[i][1]], b[i][2]>>]
    BY <1>a, <1>7, <2>1, <2>3, Zenon
  <2>5. \A e \in Edge : e[1] \in NodeIterator /\ e[2] \in EdgeData /\ <<f[e[1]], e[2]>> \in Edge
    BY <1>1, Zenon DEF Edge
  <2>6. c \in [1..k -> Edge]
    BY <2>1, <2>4, <2>5, Zenon
  <2>7. ASSUME NEW e \in Edge PROVE Count(c, 1..k, <<f[e[1]], e[2]>>) = Degree(m, e)
    <3>1. ASSUME NEW i \in 1..k PROVE c[i] = <<f[e[1]], e[2]>> <=> b[i] = e
      <4>1. PICK d \in Edge : d = b[i]
        BY <2>1, Zenon
      <4>2. c[i] = <<f[d[1]], d[2]>>
        BY <2>4, <4>1, Zenon
      <4>3. <<f[d[1]], d[2]>> = <<f[e[1]], e[2]>> => d[1] = e[1] /\ d[2] = e[2]
        BY <1>1, <2>5, Zenon
      <4>4. d = <<d[1], d[2]>> /\ e = <<e[1], e[2]>>
        BY DEF Edge
      <4> QED BY <4>1, <4>2, <4>3, <4>4, Zenon
    <3>2. {i \in 1..k : c[i] = <<f[e[1]], e[2]>>} = {i \in 1..k : b[i] = e}
      BY <3>1, Zenon
    <3>3. Count(b, 1..k, e) = Degree(m, e)
      BY <2>1, AdjacencyIs, Zenon
    <3> QED BY <3>2, <3>3, Zenon DEF Count
  <2> QED BY <2>1, <2>2, <2>3, <2>6, <2>7, Zenon
<1>8. IsAdjacency(a, l)
  BY <1>l, <1>4, <1>7, Zenon DEF IsAdjacency
<1>9. number_of_edges' \in Int
  <2>1. size' = Offset(a)[NumberOfNodes]
    BY <1>6, Zenon DEF Packed
  <2>2. NumberOfNodes \in 0..NumberOfNodes
    BY GraphAssumption
  <2>3. Offset(a)[NumberOfNodes] \in Nat
    BY <1>8, <2>2, Packing, Zenon
  <2> QED BY <1>6, <2>1, <2>3, SMTT(30)
<1>10. recount' \in BOOLEAN
  BY <1>6, Zenon
<1>11. GraphInv' /\ \A n \in NodeIterator : \A e : Degree(n, e)' = Count(a[n], 1..l[n], e)
  BY <1>6, <1>8, <1>9, <1>10, PackedInv, Zenon
<1>12. ASSUME NEW m \in NodeIterator, NEW e \in Edge
       PROVE  Degree(f[m], <<f[e[1]], e[2]>>)' = Degree(m, e)
  <2>1. PICK n, d : n \in NodeIterator /\ n = f[m] /\ d = <<f[e[1]], e[2]>>
    BY <1>1, Zenon
  <2>2. Old(n) = m
    BY <1>5, <2>1, Zenon
  <2>3. Degree(n, d)' = Count(a[n], 1..l[n], d)
    BY <1>11, <2>1, Zenon
  <2>4. Count(a[n], 1..l[n], d) = Degree(m, e)
    BY <1>7, <2>1, <2>2, Zenon
  <2> QED BY <2>1, <2>3, <2>4, Zenon
<1> QED BY <1>11, <1>12, Zenon

-----------------------------------------------------------------------------
\* InsertEdge adds one edge in each of its three cases.
LEMMA InsertEdgeInv ==
  ASSUME GraphInv, NEW n \in NodeIterator, NEW e \in Edge, InsertEdge(n, e)
  PROVE  /\ GraphInv'
         /\ \A m \in NodeIterator \ {n} : \A a : Degree(m, a)' = Degree(m, a)
         /\ \A a : Degree(n, a)' = IF a = e THEN Degree(n, a) + 1 ELSE Degree(n, a)
<1>1. CASE InsertAfter(n, e)
  BY <1>1, InsertAfterInv, Zenon
<1>2. CASE InsertBefore(n, e)
  BY <1>2, InsertBeforeInv, Zenon
<1>3. CASE InsertMoving(n, e)
  BY <1>3, InsertMovingInv
<1> QED BY <1>1, <1>2, <1>3, Zenon DEF InsertEdge

\* Nothing changes when nothing changes.
LEMMA GraphSame ==
  ASSUME GraphInv, UNCHANGED graphVars
  PROVE  GraphInv' /\ \A n \in NodeIterator : \A e : Degree(n, e)' = Degree(n, e)
<1>1. /\ first_edge' = first_edge /\ edges' = edges /\ edge_list' = edge_list /\ size' = size
      /\ number_of_edges' = number_of_edges /\ recount' = recount
  BY Zenon DEF graphVars
<1>2. \A n \in NodeIterator : Block(n)' = Block(n)
  BY <1>1, Zenon DEF Block
<1>3. GraphTypeOK'
  BY <1>1, Zenon DEF GraphInv, GraphTypeOK
<1>4. BlocksInside' /\ BlocksFull' /\ BlocksApart'
  BY <1>1, <1>2, Zenon DEF GraphInv, BlocksInside, BlocksFull, BlocksApart
<1>5. Counted'
  BY <1>1, Zenon DEF GraphInv, Counted
<1>6. \A n \in NodeIterator : \A e : Degree(n, e)' = Degree(n, e)
  BY <1>1, <1>2, Zenon DEF Degree, Count
<1> QED BY <1>3, <1>4, <1>5, <1>6, Zenon DEF GraphInv

\* GraphInv is inductive.
LEMMA GraphStep ==
  ASSUME GraphInv, [GraphNext]_graphVars
  PROVE  GraphInv'
<1>1. ASSUME NEW n \in NodeIterator, NEW e \in Edge, InsertEdge(n, e) PROVE GraphInv'
  BY <1>1, InsertEdgeInv, Zenon
<1>2. ASSUME NEW n \in NodeIterator, NEW p \in Block(n), DeleteEdge(n, p) PROVE GraphInv'
  BY <1>2, DeleteEdgeInv, Zenon
<1>3. ASSUME NEW n \in NodeIterator, NEW target \in NodeIterator, DeleteEdgesTo(n, target) PROVE GraphInv'
  BY <1>3, DeleteEdgesToInv, Zenon
<1>4. ASSUME NEW keep \in SUBSET NodeIterator, Filter(keep) PROVE GraphInv'
  BY <1>4, FilterInv, Zenon
<1>5. ASSUME NEW f \in Renumberings, Renumber(f) PROVE GraphInv'
  BY <1>5, RenumberInv, Zenon
<1>6. CASE UNCHANGED graphVars
  BY <1>6, GraphSame, Zenon
<1> QED BY <1>1, <1>2, <1>3, <1>4, <1>5, <1>6, Zenon DEF GraphNext

\* Blocks lie within the list, hold edges and do not overlap, whatever is inserted, deleted,
\* filtered and renumbered.
THEOREM GraphInvariance == GraphSpec => []GraphInv
BY GraphInitInv, GraphStep, PTL DEF GraphSpec

\* The invariant counts as CountExact does.
LEMMA InvExact == GraphInv => CountExact
<1> SUFFICES ASSUME GraphInv, ~recount PROVE number_of_edges = Total
  BY Zenon DEF CountExact
<1>1. PICK a, l : a = Adjacency /\ l = edges
  BY Zenon
<1>2. \A n \in NodeIterator : Len(a[n]) = l[n]
  <2> TAKE n \in NodeIterator
  <2>1. PICK k, b : k \in Nat /\ k = edges[n] /\ b = Adjacency[n] /\ b \in [1..k -> Edge]
    BY AdjacencyIs, Zenon
  <2>2. Len(b) = k
    BY <2>1, FunctionIsSeq, Zenon
  <2> QED BY <1>1, <2>1, <2>2, Zenon
<1>3. Prefix(Offset(a), l, NumberOfNodes)
  BY <1>2, OffsetIs, Zenon
<1>4. number_of_edges = Offset(a)[NumberOfNodes]
  BY <1>1, <1>3, Zenon DEF GraphInv, Counted
<1> QED BY <1>1, <1>4, Zenon DEF Total

\* number_of_edges is the number of edges, unless the graph has been filtered and not been
\* renumbered since (CountExact).
THEOREM EdgesAreCounted == GraphSpec => []CountExact
BY GraphInvariance, InvExact, PTL

-----------------------------------------------------------------------------
Out == [n \in NodeIterator |-> [e \in Edge |-> Cardinality({p \in Block(n) : edge_list[p] = e})]]

\* The multigraph of the list.
LEMMA OutIs ==
  ASSUME GraphInv
  PROVE  /\ Out \in [NodeIterator -> [Edge -> Nat]]
         /\ \A n \in NodeIterator : \A e \in Edge : Out[n][e] = Degree(n, e)
<1>1. \A n \in NodeIterator : \A e \in Edge : Out[n][e] = Degree(n, e)
  BY Zenon DEF Out, Degree, Count
<1>2. \A n \in NodeIterator : \A e \in Edge : Degree(n, e) \in Nat
  BY BlockTyped, CountTyped, Zenon DEF Degree
<1>3. Out = [n \in NodeIterator |-> [e \in Edge |-> Degree(n, e)]]
  BY Zenon DEF Out, Degree, Count
<1> QED BY <1>1, <1>2, <1>3, Zenon

\* A function of the nodes and the edges.
IsTable(q) == q = [n \in NodeIterator |-> [e \in Edge |-> q[n][e]]]

\* The multigraph after a step.
LEMMA OutNext ==
  /\ IsTable(Out')
  /\ \A n \in NodeIterator : \A e \in Edge : Out'[n][e] = Degree(n, e)'
<1>1. Out' = [n \in NodeIterator |-> [e \in Edge |-> Degree(n, e)']]
  BY Zenon DEF Out, Degree, Count
<1> QED BY <1>1, Zenon DEF IsTable

\* A step that changes the edges of one node.
LEMMA OutChanged ==
  ASSUME NEW o \in [NodeIterator -> [Edge -> Nat]],
         NEW q, IsTable(q),
         NEW n \in NodeIterator, NEW r \in [Edge -> Int],
         \A m \in NodeIterator \ {n} : \A e \in Edge : q[m][e] = o[m][e],
         \A e \in Edge : q[n][e] = r[e]
  PROVE  q = [o EXCEPT ![n] = r]
<1>1. \A m \in NodeIterator : q[m] = [e \in Edge |-> q[m][e]]
  BY Zenon DEF IsTable
<1>2. q[n] = r
  BY <1>1, ZenonT(30)
<1>3. \A m \in NodeIterator \ {n} : q[m] = o[m]
  BY <1>1, ZenonT(30)
<1>4. q = [m \in NodeIterator |-> q[m]]
  BY Zenon DEF IsTable
<1> QED BY <1>2, <1>3, <1>4, Zenon

\* Each operation is one of the multigraph.
LEMMA GraphRefines ==
  ASSUME GraphInv, [GraphNext]_graphVars
  PROVE  [Graph!MultigraphNext]_Out
<1> USE DEF Graph!Arcs, Graph!Renamings
<1>o. PICK o : o = Out /\ o \in [NodeIterator -> [Edge -> Nat]]
           /\ \A n \in NodeIterator : \A e \in Edge : o[n][e] = Degree(n, e)
  BY OutIs, Zenon
<1>q. PICK q : q = Out' /\ IsTable(q)
           /\ \A n \in NodeIterator : \A e \in Edge : q[n][e] = Degree(n, e)'
  BY OutNext, Zenon
<1>1. ASSUME NEW n \in NodeIterator, NEW a \in Edge, InsertEdge(n, a)
      PROVE  Graph!Add(n, a)
  <2>r. PICK w \in [Edge -> Nat] : w = o[n]
    BY <1>o, Zenon
  <2>w. [w EXCEPT ![a] = @ + 1] \in [Edge -> Int]
    OBVIOUS
  <2>1. PICK r \in [Edge -> Int] : r = [o[n] EXCEPT ![a] = @ + 1]
    BY <2>r, <2>w, Zenon
  <2>2. \A e \in Edge : q[n][e] = r[e]
    BY <1>o, <1>q, <1>1, <2>1, InsertEdgeInv, SMTT(30)
  <2>3. \A m \in NodeIterator \ {n} : \A e \in Edge : q[m][e] = o[m][e]
    BY <1>o, <1>q, <1>1, InsertEdgeInv, SMTT(30)
  <2>4. q = [o EXCEPT ![n] = r]
    BY <1>o, <1>q, <2>2, <2>3, OutChanged, SMTT(30)
  <2>5. q = [o EXCEPT ![n][a] = @ + 1]
    BY <2>1, <2>4, Zenon
  <2> QED BY <1>o, <1>q, <2>5, Zenon DEF Graph!Add, Out
<1>2. ASSUME NEW n \in NodeIterator, NEW p \in Block(n), DeleteEdge(n, p)
      PROVE  edge_list[p] \in Edge /\ Graph!Remove(n, edge_list[p])
  <2>0. PICK a \in Edge : a = edge_list[p]
    BY <1>2, DeleteEdgeInv, Zenon
  <2>r. PICK w \in [Edge -> Nat] : w = o[n]
    BY <1>o, Zenon
  <2>w. [w EXCEPT ![a] = @ - 1] \in [Edge -> Int]
    OBVIOUS
  <2>1. PICK r \in [Edge -> Int] : r = [o[n] EXCEPT ![a] = @ - 1]
    BY <2>r, <2>w, ZenonT(30)
  <2>2. \A e \in Edge : q[n][e] = r[e]
    BY <1>o, <1>q, <1>2, <2>0, <2>1, DeleteEdgeInv, SMTT(30)
  <2>3. \A m \in NodeIterator \ {n} : \A e \in Edge : q[m][e] = o[m][e]
    BY <1>o, <1>q, <1>2, DeleteEdgeInv, SMTT(30)
  <2>4. q = [o EXCEPT ![n] = r]
    BY <1>o, <1>q, <2>2, <2>3, OutChanged, SMTT(30)
  <2>5. q = [o EXCEPT ![n][a] = @ - 1] /\ o[n][a] > 0
    BY <1>o, <1>2, <2>0, <2>1, <2>4, DeleteEdgeInv, SMTT(30)
  <2>6. Graph!Remove(n, a)
    BY <1>o, <1>q, <2>5, Zenon DEF Graph!Remove, Out
  <2> QED BY <2>0, <2>6, Zenon
<1>3. ASSUME NEW n \in NodeIterator, NEW target \in NodeIterator, DeleteEdgesTo(n, target)
      PROVE  Graph!RemoveTo(n, target)
  <2>r. PICK w \in [Edge -> Nat] : w = o[n]
    BY <1>o, Zenon
  <2>w. [a \in Edge |-> IF a[1] = target THEN 0 ELSE w[a]] \in [Edge -> Int]
    OBVIOUS
  <2>1. PICK r \in [Edge -> Int] : r = [a \in Edge |-> IF a[1] = target THEN 0 ELSE o[n][a]]
    BY <2>r, <2>w, Zenon
  <2>2. \A e \in Edge : q[n][e] = r[e]
    BY <1>o, <1>q, <1>3, <2>1, DeleteEdgesToInv, SMTT(30)
  <2>3. \A m \in NodeIterator \ {n} : \A e \in Edge : q[m][e] = o[m][e]
    BY <1>o, <1>q, <1>3, DeleteEdgesToInv, SMTT(30)
  <2>4. q = [o EXCEPT ![n] = r]
    BY <1>o, <1>q, <2>2, <2>3, OutChanged, SMTT(30)
  <2>5. q = [o EXCEPT ![n] = [a \in Edge |-> IF a[1] = target THEN 0 ELSE o[n][a]]]
    BY <2>1, <2>4, Zenon
  <2> QED BY <1>o, <1>q, <2>5, Zenon DEF Graph!RemoveTo, Out, Edge
<1>4. ASSUME NEW keep \in SUBSET NodeIterator, Filter(keep)
      PROVE  Graph!Restrict(keep)
  <2>0. \A n \in NodeIterator : \A e \in Edge :
          Degree(n, e)' = IF n \in keep /\ e[1] \in keep THEN Degree(n, e) ELSE 0
    BY <1>4, FilterInv, Zenon
  <2>1. \A n \in NodeIterator : \A e \in Edge :
          q[n][e] = IF n \in keep /\ e[1] \in keep THEN o[n][e] ELSE 0
    BY <1>o, <1>q, <2>0
  <2>2. q = [n \in NodeIterator |-> [e \in Edge |-> IF n \in keep /\ e[1] \in keep THEN o[n][e] ELSE 0]]
    BY <1>q, <2>1, Zenon DEF IsTable
  <2> QED BY <1>o, <1>q, <2>2, ZenonT(30) DEF Graph!Restrict, Out, Edge
<1>5. ASSUME NEW f \in Renumberings, Renumber(f)
      PROVE  Graph!Rename(f)
  <2>1. ASSUME NEW n \in NodeIterator, NEW e \in Edge PROVE q[f[n]][<<f[e[1]], e[2]>>] = o[n][e]
    <3>1. f[n] \in NodeIterator /\ <<f[e[1]], e[2]>> \in Edge
      BY Zenon DEF Renumberings, Edge
    <3> QED BY <1>o, <1>q, <1>5, <3>1, RenumberInv, SMTT(30)
  <2>2. \A n \in NodeIterator : \A e \in Edge : Out'[f[n]][<<f[e[1]], e[2]>>] = Out[n][e]
    BY <1>o, <1>q, <2>1, Zenon
  <2> QED BY <2>2, Zenon DEF Graph!Rename, Out, Edge
<1>6. CASE UNCHANGED graphVars
  <2>1. \A n \in NodeIterator : \A e \in Edge : q[n][e] = o[n][e]
    BY <1>o, <1>q, <1>6, GraphSame, ZenonT(30)
  <2>2. q = o
    <3>1. o = [n \in NodeIterator |-> [e \in Edge |-> o[n][e]]]
      BY <1>o, Zenon
    <3>2. q = [n \in NodeIterator |-> [e \in Edge |-> o[n][e]]]
      BY <1>q, <2>1, Zenon DEF IsTable
    <3> QED BY <3>1, <3>2, Zenon
  <2> QED BY <1>o, <1>q, <2>2, Zenon
<1> QED BY <1>1, <1>2, <1>3, <1>4, <1>5, <1>6, ZenonT(30) DEF GraphNext, Graph!MultigraphNext, Edge, Renumberings

\* Through all moves of blocks and edges in the list the graph has the edges it is meant to
\* have, each as often as it should (ImplementsMultigraph).
THEOREM GraphIsMultigraph == GraphSpec => ImplementsMultigraph
<1>1. GraphInit => Graph!MultigraphInit
  BY GraphInitInv, OutIs, Zenon DEF Graph!MultigraphInit, Graph!Arcs, Out, Edge
<1>2. GraphInv /\ [GraphNext]_graphVars => [Graph!MultigraphNext]_Out
  BY GraphRefines, Zenon
<1> QED BY <1>1, <1>2, GraphInvariance, PTL DEF GraphSpec, ImplementsMultigraph, Graph!MultigraphSpec, Out
==============================================================================
