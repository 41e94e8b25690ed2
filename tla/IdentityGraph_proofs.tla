-------------------------- MODULE IdentityGraph_proofs --------------------------
(***************************************************************************)
(* Proofs about IdentityGraph, in the order in which they build on one     *)
(* another: sorting by tuples lists every element of a finite set once and *)
(* in order; roots of a forest whose parents have smaller UUIDs exist, and *)
(* neither halving nor uniting changes them but for the two groups that    *)
(* become one; the accepted edges hold every exact group together.  The    *)
(* inductive invariant says of the union-find that both ends of an edge    *)
(* seen have one root and that no set that the edges seen do not leave is  *)
(* left by a parent.  The published nodes are then told apart by their     *)
(* groups, and what is asked of them follows.                              *)
(***************************************************************************)
EXTENDS IdentityGraph, Lists_proofs

-----------------------------------------------------------------------------
(* Sorting.                                                                *)

\* Keys of L numbers each, all different.
Keyed(S, key, L) ==
  /\ L \in Nat
  /\ key \in [S -> [1 .. L -> Int]]
  /\ \A x, y \in S : key[x] = key[y] => x = y

\* Python's order of tuples is total.
LEMMA BeforeTotal ==
  ASSUME NEW L \in Nat, NEW s \in [1 .. L -> Int], NEW t \in [1 .. L -> Int], s # t
  PROVE  Before(s, t) \/ Before(t, s)
<1> DEFINE T == {k \in 1 .. L : s[k] # t[k]}
<1>1. T \subseteq Nat /\ T # {}
  OBVIOUS
<1>2. PICK k \in T : \A j \in T : k <= j
  BY <1>1, LeastNat
<1>3. k \in 1 .. L /\ (s[k] < t[k] \/ t[k] < s[k])
  BY <1>2
<1>4. \A j \in 1 .. (k - 1) : s[j] = t[j]
  BY <1>2, <1>3
<1>5. DOMAIN s = 1 .. L /\ DOMAIN t = 1 .. L
  OBVIOUS
<1> QED
  BY <1>3, <1>4, <1>5 DEF Before

\* It is transitive.
LEMMA BeforeTransitive ==
  ASSUME NEW L \in Nat, NEW s \in [1 .. L -> Int], NEW t \in [1 .. L -> Int],
         NEW u \in [1 .. L -> Int], Before(s, t), Before(t, u)
  PROVE  Before(s, u)
<1>0. DOMAIN s = 1 .. L /\ DOMAIN t = 1 .. L
  OBVIOUS
<1>1. PICK k \in 1 .. L : s[k] < t[k] /\ \A j \in 1 .. (k - 1) : s[j] = t[j]
  BY <1>0 DEF Before
<1>2. PICK m \in 1 .. L : t[m] < u[m] /\ \A j \in 1 .. (m - 1) : t[j] = u[j]
  BY <1>0 DEF Before
<1>3. CASE k <= m
  <2>1. s[k] < u[k]
    BY <1>1, <1>2, <1>3
  <2>2. \A j \in 1 .. (k - 1) : s[j] = u[j]
    BY <1>1, <1>2, <1>3
  <2> QED
    BY <1>0, <2>1, <2>2 DEF Before
<1>4. CASE m < k
  <2>1. s[m] < u[m]
    BY <1>1, <1>2, <1>4
  <2>2. \A j \in 1 .. (m - 1) : s[j] = u[j]
    BY <1>1, <1>2, <1>4
  <2> QED
    BY <1>0, <2>1, <2>2 DEF Before
<1> QED
  BY <1>3, <1>4

\* Nothing is before itself.
LEMMA BeforeIrreflexive ==
  ASSUME NEW L \in Nat, NEW s \in [1 .. L -> Int]
  PROVE  ~ Before(s, s)
BY DEF Before

\* s lists S in the order of the keys.
Arranges(s, S, key) ==
  /\ s \in [1 .. Cardinality(S) -> S]
  /\ \A x \in S : \E i \in 1 .. Cardinality(S) : s[i] = x
  /\ \A i, j \in 1 .. Cardinality(S) : i < j => Before(key[s[i]], key[s[j]]) /\ s[i] # s[j]

\* An injection of a finite set into as many numbers reaches each of them.
LEMMA Filled ==
  ASSUME NEW S, IsFiniteSet(S), NEW n \in Nat, n = Cardinality(S),
         NEW c \in [S -> 0 .. (n - 1)], \A x, y \in S : c[x] = c[y] => x = y,
         NEW k \in 0 .. (n - 1)
  PROVE  \E x \in S : c[x] = k
<1> SUFFICES ASSUME \A x \in S : c[x] # k PROVE FALSE
  OBVIOUS
<1> DEFINE R == 0 .. (n - 1)
<1>1. 0 \in Int /\ n - 1 \in Int /\ 0 <= n - 1
  OBVIOUS
<1>2. IsFiniteSet(R) /\ Cardinality(R) = n
  <2>1. PICK m : m = n - 1
    OBVIOUS
  <2>2. 0 \in Int /\ m \in Int /\ ~ (0 > m) /\ m - 0 + 1 = n
    BY <1>1, <2>1
  <2>3. IsFiniteSet(0 .. m) /\ Cardinality(0 .. m) = IF 0 > m THEN 0 ELSE m - 0 + 1
    BY <2>2, FS_Interval, Zenon
  <2> QED
    BY <2>1, <2>2, <2>3
<1>3. IsFiniteSet(R \ {k}) /\ Cardinality(R \ {k}) = n - 1
  <2>1. IsFiniteSet(R \ {k})
         /\ Cardinality(R \ {k}) = IF k \in R THEN Cardinality(R) - 1 ELSE Cardinality(R)
    BY <1>2, FS_RemoveElement, Zenon
  <2> QED
    BY <1>2, <2>1
<1>4. c \in Injection(S, R \ {k})
  <2>1. c \in [S -> R \ {k}]
    OBVIOUS
  <2> QED
    BY <2>1 DEF Injection, IsInjective
<1>5. Cardinality(S) <= Cardinality(R \ {k})
  BY <1>3, <1>4, FS_Injection
<1> QED
  BY <1>3, <1>5

\* Sorted lists its set in the order of the keys.
THEOREM Sorting ==
  ASSUME NEW S, IsFiniteSet(S), NEW key, NEW L, Keyed(S, key, L)
  PROVE  Arranges(Sorted(S, key), S, key)
<1> DEFINE ahead(x) == {y \in S : Before(key[y], key[x])}
           c(x) == Cardinality(ahead(x))
<1>0. PICK n : n = Cardinality(S)
  OBVIOUS
<1>1. n \in Nat
  BY <1>0, FS_CardinalityType
<1>2. \A x \in S : key[x] \in [1 .. L -> Int] /\ L \in Nat
  BY DEF Keyed
<1>3. ASSUME NEW x \in S
      PROVE  /\ IsFiniteSet(ahead(x)) /\ x \notin ahead(x)
             /\ c(x) \in 0 .. (n - 1)
  <2>1. ahead(x) \subseteq S \ {x}
    BY <1>2, BeforeIrreflexive
  <2>2. IsFiniteSet(S \ {x}) /\ Cardinality(S \ {x}) = n - 1
    <3>1. IsFiniteSet(S \ {x})
           /\ Cardinality(S \ {x}) = IF x \in S THEN Cardinality(S) - 1 ELSE Cardinality(S)
      BY FS_RemoveElement, Zenon
    <3> QED
      BY <1>0, <3>1
  <2>3. IsFiniteSet(ahead(x)) /\ Cardinality(ahead(x)) <= Cardinality(S \ {x})
    BY <2>1, <2>2, FS_Subset
  <2>4. Cardinality(ahead(x)) \in Nat
    BY <2>3, FS_CardinalityType
  <2> HIDE DEF ahead
  <2> QED
    BY <1>1, <2>1, <2>2, <2>3, <2>4 DEF c
<1>4. ASSUME NEW x \in S, NEW y \in S, Before(key[x], key[y]) PROVE c(x) < c(y)
  <2>1. ahead(x) \subseteq ahead(y) /\ x \in ahead(y) /\ x \notin ahead(x)
    BY <1>2, <1>3, <1>4, BeforeTransitive
  <2>2. IsFiniteSet(ahead(x)) /\ IsFiniteSet(ahead(y))
    BY <1>3
  <2>3. PICK X : X = ahead(x)
    OBVIOUS
  <2>4. PICK Y : Y = ahead(y)
    OBVIOUS
  <2>5. X \subseteq Y /\ X # Y /\ IsFiniteSet(Y)
    BY <2>1, <2>2, <2>3, <2>4
  <2>6. Cardinality(X) <= Cardinality(Y) /\ Cardinality(X) # Cardinality(Y)
    BY <2>5, FS_Subset, Zenon
  <2>7. Cardinality(X) \in Nat /\ Cardinality(Y) \in Nat
    BY <2>2, <2>3, <2>4, FS_CardinalityType
  <2>8. c(x) = Cardinality(X) /\ c(y) = Cardinality(Y)
    BY <2>3, <2>4
  <2> QED
    BY <2>6, <2>7, <2>8
<1> HIDE DEF c
<1>5. \A x \in S : c(x) \in 0 .. (n - 1)
  BY <1>3 DEF c
<1>6. ASSUME NEW x \in S, NEW y \in S, x # y
      PROVE  \/ c(x) < c(y) /\ Before(key[x], key[y])
             \/ c(y) < c(x) /\ Before(key[y], key[x])
  <2>1. key[x] # key[y]
    BY <1>6 DEF Keyed
  <2>2. Before(key[x], key[y]) \/ Before(key[y], key[x])
    BY <1>2, <2>1, BeforeTotal
  <2> QED
    BY <1>4, <2>2
<1>7. \A x, y \in S : c(x) = c(y) => x = y
  BY <1>5, <1>6
<1>8. ASSUME NEW k \in 0 .. (n - 1) PROVE \E x \in S : c(x) = k
  <2> DEFINE g == [x \in S |-> c(x)]
  <2>1. g \in [S -> 0 .. (n - 1)] /\ \A x \in S : g[x] = c(x)
    BY <1>5
  <2> HIDE DEF g
  <2>2. \A x, y \in S : g[x] = g[y] => x = y
    BY <1>7, <2>1
  <2>3. \E x \in S : g[x] = k
    BY <1>0, <1>1, <2>1, <2>2, Filled
  <2> QED
    BY <2>1, <2>3
<1>9. Sorted(S, key) = [i \in 1 .. n |-> CHOOSE x \in S : c(x) = i - 1]
  BY <1>0 DEF Sorted, c
<1> DEFINE s == Sorted(S, key)
<1>10. ASSUME NEW i \in 1 .. n PROVE s[i] \in S /\ c(s[i]) = i - 1
  <2>1. i - 1 \in 0 .. (n - 1)
    BY <1>1
  <2>2. \E x \in S : c(x) = i - 1
    BY <1>8, <2>1
  <2>3. s[i] = CHOOSE x \in S : c(x) = i - 1
    BY <1>9
  <2> QED
    BY <2>2, <2>3
<1>11. s \in [1 .. n -> S]
  BY <1>9, <1>10
<1> HIDE DEF s
<1>12. ASSUME NEW x \in S PROVE \E i \in 1 .. n : s[i] = x
  <2>1. c(x) \in 0 .. (n - 1)
    BY <1>5
  <2>2. PICK i : i = c(x) + 1
    OBVIOUS
  <2>3. i \in 1 .. n /\ i - 1 = c(x)
    BY <1>1, <2>1, <2>2
  <2>4. s[i] = x
    BY <1>7, <1>10, <2>3
  <2> QED
    BY <2>3, <2>4
<1>13. ASSUME NEW i \in 1 .. n, NEW j \in 1 .. n, i < j
       PROVE  Before(key[s[i]], key[s[j]]) /\ s[i] # s[j]
  <2>1. s[i] \in S /\ s[j] \in S /\ c(s[i]) = i - 1 /\ c(s[j]) = j - 1
    BY <1>10
  <2>2. c(s[i]) < c(s[j])
    BY <1>1, <1>13, <2>1
  <2>3. s[i] # s[j] /\ ~ (c(s[j]) < c(s[i]))
    BY <1>1, <1>13, <2>1, <2>2
  <2> QED
    BY <1>6, <2>1, <2>3
<1> QED
  BY <1>0, <1>11, <1>12, <1>13 DEF Arranges, s

-----------------------------------------------------------------------------
(* The forest of the union-find.                                           *)

\* The numbers of the observations' UUIDs.
Ranked(O) ==
  /\ \A x \in O : rank[x] \in Nat
  /\ \A x, y \in O : rank[x] = rank[y] => x = y

\* A parent has a smaller UUID.
Forest(p, O) ==
  /\ p \in [O -> O]
  /\ \A x \in O : p[x] = x \/ rank[p[x]] < rank[x]

\* What holds of the roots, and of each observation whose parent it holds of,
\* holds of all.
LEMMA Climb ==
  ASSUME NEW O, Ranked(O), NEW p, Forest(p, O), NEW T,
         \A x \in O : p[x] = x => x \in T,
         \A x \in O : p[x] # x /\ p[x] \in T => x \in T
  PROVE  O \subseteq T
<1> SUFFICES ASSUME O \ T # {} PROVE FALSE
  OBVIOUS
<1> DEFINE N == {rank[x] : x \in O \ T}
<1>1. N \subseteq Nat /\ N # {}
  BY DEF Ranked
<1>2. PICK m \in N : \A k \in N : m <= k
  BY <1>1, LeastNat
<1>3. PICK x \in O \ T : m = rank[x]
  OBVIOUS
<1>4. p[x] # x /\ p[x] \in O
  BY <1>3 DEF Forest
<1>5. p[x] \in O \ T
  BY <1>3, <1>4
<1>6. rank[p[x]] < rank[x] /\ rank[p[x]] \in Nat /\ rank[x] \in Nat
  BY <1>3, <1>4 DEF Forest, Ranked
<1>7. m <= rank[p[x]]
  BY <1>2, <1>5
<1> QED
  BY <1>3, <1>6, <1>7

\* One step of Root.
OneUp(p, g, x) == IF p[x] = x THEN x ELSE g[p[x]]

\* The least observation above each one is its root.
LEMMA RootDefined ==
  ASSUME NEW O, Ranked(O), NEW p, Forest(p, O)
  PROVE  \E g : g = [x \in DOMAIN p |-> OneUp(p, g, x)]
<1> DEFINE Above(x) ==
             {y \in O : \A T \in SUBSET O : x \in T /\ (\A z \in T : p[z] \in T) => y \in T}
           Least(x, r) == r \in Above(x) /\ \A y \in Above(x) : rank[r] <= rank[y]
           g == [x \in O |-> CHOOSE r : Least(x, r)]
<1>0. DOMAIN p = O /\ \A x \in O : p[x] \in O
  BY DEF Forest
<1>1. ASSUME NEW x \in O
      PROVE  x \in Above(x) /\ Above(x) \subseteq O /\ \A y \in Above(x) : p[y] \in Above(x)
  BY <1>0
<1>2. ASSUME NEW x \in O PROVE Least(x, g[x])
  <2> DEFINE N == {rank[y] : y \in Above(x)}
  <2>1. N \subseteq Nat /\ N # {}
    BY <1>1 DEF Ranked
  <2> HIDE DEF Above
  <2>2. PICK m \in N : \A k \in N : m <= k
    BY <2>1, LeastNat
  <2>3. PICK r \in Above(x) : m = rank[r]
    OBVIOUS
  <2>4. Least(x, r)
    BY <2>2, <2>3
  <2>5. \E q : Least(x, q)
    BY <2>4
  <2> HIDE DEF Least
  <2>6. g[x] = CHOOSE q : Least(x, q)
    OBVIOUS
  <2> QED
    BY <2>5, <2>6
<1>3. ASSUME NEW x \in O PROVE g[x] = OneUp(p, g, x)
  <2>1. CASE p[x] = x
    <3>1. {x} \in SUBSET O /\ \A z \in {x} : p[z] \in {x}
      BY <2>1
    <3>2. Above(x) = {x}
      BY <1>1, <3>1
    <3> HIDE DEF Above
    <3>3. g[x] = x
      BY <1>2, <3>2
    <3> QED
      BY <2>1, <3>3 DEF OneUp
  <2>2. CASE p[x] # x
    <3>0. p[x] \in O
      BY <1>0
    <3>1. Above(p[x]) \subseteq Above(x)
      BY <1>0
    <3>2. Above(x) \subseteq {x} \cup Above(p[x])
      <4> DEFINE C == {x} \cup Above(p[x])
      <4>1. p[x] \in Above(p[x]) /\ \A y \in Above(p[x]) : p[y] \in Above(p[x])
        BY <1>1, <3>0
      <4>2. Above(p[x]) \subseteq O
        OBVIOUS
      <4>3. C \in SUBSET O /\ x \in C
        BY <4>2
      <4>4. \A z \in C : p[z] \in C
        BY <4>1
      <4>5. \A y \in Above(x) : y \in C
        BY <4>3, <4>4
      <4> QED
        BY <4>5
    <3>3. Least(x, g[x]) /\ Least(p[x], g[p[x]])
      BY <1>2, <3>0
    <3>4. Above(x) \subseteq O /\ Above(p[x]) \subseteq O /\ p[x] \in Above(p[x])
      BY <1>1, <3>0
    <3> HIDE DEF Above, g
    <3>5. g[x] # x
      <4>1. rank[p[x]] < rank[x] /\ rank[p[x]] \in Nat /\ rank[x] \in Nat
        BY <2>2, <3>0 DEF Forest, Ranked
      <4>2. rank[g[x]] <= rank[p[x]]
        BY <3>1, <3>3, <3>4
      <4> QED
        BY <4>1, <4>2
    <3>6. g[x] \in Above(p[x]) /\ g[p[x]] \in Above(x)
      BY <3>1, <3>2, <3>3, <3>5
    <3>7. rank[g[x]] <= rank[g[p[x]]] /\ rank[g[p[x]]] <= rank[g[x]]
      BY <3>3, <3>6
    <3>8. g[x] = g[p[x]]
      BY <3>4, <3>6, <3>7, <3>3 DEF Ranked
    <3> QED
      BY <2>2, <3>8 DEF OneUp
  <2> QED
    BY <2>1, <2>2
<1>4. g = [x \in DOMAIN p |-> OneUp(p, g, x)]
  <2>1. g = [x \in O |-> g[x]]
    OBVIOUS
  <2> HIDE DEF g
  <2> QED
    BY <1>0, <1>3, <2>1
<1> QED
  BY <1>4

\* The root is found by climbing.
LEMMA RootSteps ==
  ASSUME NEW O, Ranked(O), NEW p, Forest(p, O), NEW x \in O
  PROVE  Root(p, x) = IF p[x] = x THEN x ELSE Root(p, p[x])
<1> DEFINE Solves(g) == g = [y \in DOMAIN p |-> OneUp(p, g, y)]
           k == CHOOSE g : Solves(g)
<1>1. \E g : Solves(g)
  BY RootDefined
<1>2. Solves(k)
  BY <1>1
<1>3. \A y : Root(p, y) = k[y]
  BY DEF Root, OneUp
<1>4. x \in DOMAIN p
  BY DEF Forest
<1>5. k[x] = OneUp(p, k, x)
  BY <1>2, <1>4
<1> QED
  BY <1>3, <1>5 DEF OneUp

\* Every observation has a root, and no observation above it has a greater UUID.
LEMMA RootFound ==
  ASSUME NEW O, Ranked(O), NEW p, Forest(p, O)
  PROVE  \A x \in O : /\ Root(p, x) \in O /\ p[Root(p, x)] = Root(p, x)
                      /\ rank[Root(p, x)] <= rank[x]
                      /\ Root(p, Root(p, x)) = Root(p, x)
<1> DEFINE T == {x \in O : /\ Root(p, x) \in O /\ p[Root(p, x)] = Root(p, x)
                           /\ rank[Root(p, x)] <= rank[x]}
<1>1. \A x \in O : p[x] = x => x \in T
  BY RootSteps DEF Ranked
<1>2. ASSUME NEW x \in O, p[x] # x, p[x] \in T PROVE x \in T
  <2>1. Root(p, x) = Root(p, p[x])
    BY <1>2, RootSteps
  <2>2. rank[p[x]] < rank[x] /\ rank[p[x]] \in Nat /\ rank[x] \in Nat /\ p[x] \in O
    BY <1>2 DEF Forest, Ranked
  <2>3. rank[Root(p, x)] <= rank[p[x]] /\ rank[Root(p, x)] \in Nat /\ Root(p, x) \in O
    BY <1>2, <2>1 DEF Ranked
  <2>4. p[Root(p, x)] = Root(p, x)
    BY <1>2, <2>1
  <2> QED
    BY <2>2, <2>3, <2>4
<1> HIDE DEF T
<1>3. O \subseteq T
  BY <1>1, <1>2, Climb
<1>4. \A x \in O : /\ Root(p, x) \in O /\ p[Root(p, x)] = Root(p, x)
                   /\ rank[Root(p, x)] <= rank[x]
  BY <1>3 DEF T
<1> QED
  BY <1>4, RootSteps

\* A set that holds each observation together with its parent holds it
\* together with its root.
LEMMA RootTogether ==
  ASSUME NEW O, Ranked(O), NEW p, Forest(p, O), NEW S,
         \A x \in O : x \in S <=> p[x] \in S
  PROVE  \A x \in O : x \in S <=> Root(p, x) \in S
<1> DEFINE T == {x \in O : x \in S <=> Root(p, x) \in S}
<1>1. \A x \in O : p[x] = x => x \in T
  BY RootSteps
<1>2. ASSUME NEW x \in O, p[x] # x, p[x] \in T PROVE x \in T
  BY <1>2, RootSteps
<1> HIDE DEF T
<1>3. O \subseteq T
  BY <1>1, <1>2, Climb
<1> QED
  BY <1>3 DEF T

\* Halving leaves every observation its root.
LEMMA HalvingKeepsRoots ==
  ASSUME NEW O, Ranked(O), NEW p, Forest(p, O), NEW o
  PROVE  /\ Forest(Halve(p, o), O)
         /\ \A x \in O : Halve(p, o)[x] \in {p[x], p[p[x]]}
         /\ \A x \in O : Root(Halve(p, o), x) = Root(p, x)
<1> DEFINE q == Halve(p, o)
<1>1. \E V : q = [x \in DOMAIN p |-> IF x \in V THEN p[p[x]] ELSE p[x]]
  BY DEF Halve
<1> HIDE DEF q
<1>2. PICK V : q = [x \in DOMAIN p |-> IF x \in V THEN p[p[x]] ELSE p[x]]
  BY <1>1
<1>3. DOMAIN p = O /\ \A x \in O : p[x] \in O
  BY DEF Forest
<1>4. \A x \in O : q[x] \in {p[x], p[p[x]]} /\ q[x] \in O
  BY <1>2, <1>3
<1>5. ASSUME NEW x \in O
      PROVE  (p[x] = x => q[x] = x) /\ (p[x] # x => rank[q[x]] < rank[x] /\ q[x] # x)
  <2>1. CASE p[x] = x
    BY <1>4, <2>1
  <2>2. CASE p[x] # x
    <3>1. p[x] \in O /\ p[p[x]] \in O
      BY <1>3
    <3>2. rank[p[x]] < rank[x] /\ (p[p[x]] = p[x] \/ rank[p[p[x]]] < rank[p[x]])
      BY <2>2, <3>1 DEF Forest
    <3>3. rank[p[x]] \in Nat /\ rank[p[p[x]]] \in Nat /\ rank[x] \in Nat
      BY <3>1 DEF Ranked
    <3>4. rank[p[p[x]]] < rank[x]
      BY <3>2, <3>3
    <3>5. rank[q[x]] < rank[x]
      BY <1>4, <3>2, <3>4
    <3> QED
      BY <2>2, <3>3, <3>5
  <2> QED
    BY <2>1, <2>2
<1>6. Forest(q, O)
  <2>1. q \in [O -> O]
    BY <1>2, <1>3, <1>4
  <2> QED
    BY <1>5, <2>1 DEF Forest
<1> DEFINE T == {x \in O : Root(q, x) = Root(p, x)}
<1>7. ASSUME NEW x \in O, q[x] = x PROVE x \in T
  <2>1. p[x] = x
    BY <1>5, <1>7
  <2>2. Root(p, x) = x
    BY <2>1, RootSteps
  <2>3. Root(q, x) = x
    BY <1>6, <1>7, RootSteps
  <2> QED
    BY <2>2, <2>3
<1>8. ASSUME NEW x \in O, q[x] # x, q[x] \in T PROVE x \in T
  <2>1. Root(q, x) = Root(q, q[x])
    BY <1>6, <1>8, RootSteps
  <2>2. p[x] # x /\ p[x] \in O
    BY <1>3, <1>5, <1>8
  <2>3. Root(p, x) = Root(p, p[x])
    BY <2>2, RootSteps
  <2>4. Root(p, p[x]) = Root(p, p[p[x]])
    BY <2>2, RootSteps
  <2> QED
    BY <1>4, <1>8, <2>1, <2>3, <2>4
<1> HIDE DEF T
<1>9. O \subseteq T
  BY <1>6, <1>7, <1>8, Climb
<1> QED
  BY <1>4, <1>6, <1>9 DEF T, q

\* q is p with the group of b under a.
Hung(q, p, a, b, O) ==
  /\ Forest(q, O)
  /\ \A x \in O : q[x] = IF x = b THEN a ELSE p[x]
  /\ \A x \in O : Root(q, x) = IF Root(p, x) = b THEN a ELSE Root(p, x)

\* A root that is hung under one of a smaller UUID takes its group along.
LEMMA Hanging ==
  ASSUME NEW O, Ranked(O), NEW p, Forest(p, O), NEW a \in O, NEW b \in O,
         p[a] = a, p[b] = b, rank[a] < rank[b], NEW q \in [O -> O],
         \A x \in O : q[x] = IF x = b THEN a ELSE p[x]
  PROVE  Hung(q, p, a, b, O)
<1>1. \A x \in O : q[x] = IF x = b THEN a ELSE p[x]
  OBVIOUS
<1>2. a # b
  BY DEF Ranked
<1>3. Forest(q, O)
  <2>1. \A x \in O : q[x] = x \/ rank[q[x]] < rank[x]
    BY <1>1 DEF Forest
  <2> QED
    BY <2>1 DEF Forest
<1>4. \A x \in O : Root(q, x) = IF q[x] = x THEN x ELSE Root(q, q[x])
  BY <1>3, RootSteps
<1> DEFINE T == {x \in O : Root(q, x) = IF Root(p, x) = b THEN a ELSE Root(p, x)}
<1>5. ASSUME NEW x \in O, q[x] = x PROVE x \in T
  <2>1. x # b /\ p[x] = x
    BY <1>1, <1>2, <1>5
  <2>2. Root(p, x) = x
    BY <2>1, RootSteps
  <2>3. Root(q, x) = x
    BY <1>5, <1>4
  <2> QED
    BY <2>1, <2>2, <2>3
<1>6. ASSUME NEW x \in O, q[x] # x, q[x] \in T PROVE x \in T
  <2>1. Root(q, x) = Root(q, q[x])
    BY <1>6, <1>4
  <2>2. CASE x = b
    <3>1. q[x] = a /\ Root(p, a) = a /\ Root(p, x) = b
      BY <1>1, <2>2, RootSteps
    <3> QED
      BY <1>2, <1>6, <2>1, <3>1
  <2>3. CASE x # b
    <3>1. q[x] = p[x] /\ p[x] # x
      BY <1>1, <1>6, <2>3
    <3>2. Root(p, x) = Root(p, p[x])
      BY <3>1, RootSteps
    <3> QED
      BY <1>6, <2>1, <3>1, <3>2
  <2> QED
    BY <2>2, <2>3
<1> HIDE DEF T
<1>7. O \subseteq T
  BY <1>3, <1>5, <1>6, Climb
<1> QED
  BY <1>1, <1>3, <1>7 DEF T, Hung

\* S holds each observation together with its parent.
Together(S, p, O) == \A x \in O : x \in S <=> p[x] \in S

\* union: the groups of left and right become one, other groups stay as they are.
THEOREM Uniting ==
  ASSUME NEW O, Ranked(O), NEW p, Forest(p, O), NEW left \in O, NEW right \in O
  PROVE  LET u == Unite(p, left, right)
         IN /\ Forest(u, O)
            /\ Root(u, left) = Root(u, right)
            /\ \A x, y \in O : Root(p, x) = Root(p, y) => Root(u, x) = Root(u, y)
            /\ \A S : Together(S, p, O) /\ (left \in S <=> right \in S) => Together(S, u, O)
<1> DEFINE h == Halve(p, left)
           q == Halve(h, right)
           a == Root(q, left)
           b == Root(q, right)
           u == Unite(p, left, right)
<1>1. /\ Forest(h, O)
      /\ \A x \in O : h[x] \in {p[x], p[p[x]]}
      /\ \A x \in O : Root(h, x) = Root(p, x)
  BY HalvingKeepsRoots
<1> HIDE DEF h
<1>2. /\ Forest(q, O)
      /\ \A x \in O : q[x] \in {h[x], h[h[x]]}
      /\ \A x \in O : Root(q, x) = Root(h, x)
  BY <1>1, HalvingKeepsRoots
<1>3. u = IF a = b THEN q ELSE IF rank[a] < rank[b] THEN [q EXCEPT ![b] = a]
          ELSE [q EXCEPT ![a] = b]
  BY DEF Unite, h
<1> HIDE DEF q, u
<1>4. /\ a \in O /\ q[a] = a /\ Root(q, a) = a
      /\ b \in O /\ q[b] = b /\ Root(q, b) = b
  BY <1>2, RootFound
<1>5. \A x \in O : p[x] \in O /\ h[x] \in O
  BY <1>1 DEF Forest
<1>6. ASSUME NEW S, Together(S, p, O)
      PROVE  Together(S, q, O) /\ (left \in S <=> a \in S) /\ (right \in S <=> b \in S)
  <2>1. Together(S, h, O)
    BY <1>1, <1>5, <1>6 DEF Together
  <2>2. Together(S, q, O)
    BY <1>2, <1>5, <2>1 DEF Together
  <2>3. \A x \in O : x \in S <=> Root(q, x) \in S
    BY <1>2, <2>2, RootTogether DEF Together
  <2> QED
    BY <2>2, <2>3
<1>7. CASE a = b
  <2>1. u = q
    BY <1>3, <1>7
  <2>2. \A x, y \in O : Root(p, x) = Root(p, y) => Root(u, x) = Root(u, y)
    BY <1>1, <1>2, <2>1
  <2> QED
    BY <1>2, <1>6, <1>7, <2>1, <2>2 DEF u
<1>8. ASSUME NEW c \in O, NEW d \in O, {c, d} = {a, b}, rank[c] < rank[d], c # d,
             u = [q EXCEPT ![d] = c]
      PROVE  /\ Forest(u, O)
             /\ Root(u, left) = Root(u, right)
             /\ \A x, y \in O : Root(p, x) = Root(p, y) => Root(u, x) = Root(u, y)
             /\ \A S : Together(S, p, O) /\ (left \in S <=> right \in S) => Together(S, u, O)
  <2>1. (c = a /\ d = b) \/ (c = b /\ d = a)
    BY <1>8
  <2>2. q[c] = c /\ q[d] = d
    BY <1>4, <2>1
  <2>3. /\ Forest(u, O)
        /\ \A x \in O : u[x] = IF x = d THEN c ELSE q[x]
        /\ \A x \in O : Root(u, x) = IF Root(q, x) = d THEN c ELSE Root(q, x)
    <3>1. PICK p1 : p1 = q
      OBVIOUS
    <3>2. PICK p2 : p2 = u
      OBVIOUS
    <3>3. /\ Forest(p1, O) /\ p1[c] = c /\ p1[d] = d
          /\ rank[c] < rank[d] /\ p2 = [p1 EXCEPT ![d] = c]
      BY <1>2, <1>8, <2>2, <3>1, <3>2
    <3>4. p2 \in [O -> O] /\ \A x \in O : p2[x] = IF x = d THEN c ELSE p1[x]
      BY <3>3 DEF Forest
    <3>5. Hung(p2, p1, c, d, O)
      BY <3>3, <3>4, Hanging
    <3> QED
      BY <3>1, <3>2, <3>5 DEF Hung
  <2>4. Root(u, left) = c /\ Root(u, right) = c
    BY <2>1, <2>3
  <2>5. \A x, y \in O : Root(p, x) = Root(p, y) => Root(u, x) = Root(u, y)
    BY <1>1, <1>2, <2>3
  <2>6. ASSUME NEW S, Together(S, p, O), left \in S <=> right \in S PROVE Together(S, u, O)
    <3>1. Together(S, q, O) /\ (c \in S <=> d \in S)
      BY <1>6, <2>1, <2>6
    <3> QED
      BY <2>3, <3>1 DEF Together
  <2> QED
    BY <2>3, <2>4, <2>5, <2>6
<1>9. CASE a # b
  <2>1. rank[a] \in Nat /\ rank[b] \in Nat /\ rank[a] # rank[b]
    BY <1>4, <1>9 DEF Ranked
  <2>2. CASE rank[a] < rank[b]
    <3>1. u = [q EXCEPT ![b] = a]
      BY <1>3, <1>9, <2>2
    <3> HIDE DEF a, b
    <3> QED
      BY <1>4, <1>8, <1>9, <2>2, <3>1 DEF u
  <2>3. CASE ~ (rank[a] < rank[b])
    <3>1. u = [q EXCEPT ![a] = b] /\ rank[b] < rank[a]
      BY <1>3, <1>9, <2>1, <2>3
    <3> HIDE DEF a, b
    <3> QED
      BY <1>4, <1>8, <1>9, <3>1 DEF u
  <2> QED
    BY <2>2, <2>3
<1> QED
  BY <1>7, <1>9

-----------------------------------------------------------------------------
(* Observations.                                                           *)

\* What has been read: events of the capture, in one frame of one record.
Captured ==
  /\ events \in Seq(Event) /\ Len(events) <= MaxEvents
  /\ rank \in Orders
  /\ \A n, k \in DOMAIN events :
       n < k /\ events[n].frame = events[k].frame => OneRecord(events[n], events[k])

\* An observation names an identifier of an event.
Names(o) ==
  /\ o[1] \in DOMAIN events /\ o[1] \in 1 .. MaxEvents
  /\ o[2] \in DOMAIN events[o[1]].ids /\ o[2] \in Range(KindOrder)
  /\ o = <<o[1], o[2]>>

\* Its place in the orders of the code.
Placed(o) ==
  /\ Frame(o) \in Nat /\ Frame(o) >= FirstFrame
  /\ PositionIn(KindOrder, o[2]) \in Nat /\ KindOrder[PositionIn(KindOrder, o[2])] = o[2]
  /\ PositionIn(TypeOrder, Type(o)) \in Nat /\ TypeOrder[PositionIn(TypeOrder, Type(o))] = Type(o)

\* What an order lists has a position in it.
LEMMA Position ==
  ASSUME NEW order, NEW x \in Range(order)
  PROVE  PositionIn(order, x) \in DOMAIN order /\ order[PositionIn(order, x)] = x
BY DEF Range, PositionIn

\* The two orders of the code: their lengths and what they list.
LEMMA Orderings ==
  /\ DOMAIN KindOrder = 1 .. 11 /\ IsFiniteSet(Range(KindOrder))
  /\ DOMAIN TypeOrder = 1 .. 5
  /\ Range(TypeOrder) = {"ACCESS_CONTEXT", "PDU_SESSION", "PFCP_SESSION", "SM_CONTEXT", "UE"}
<1>1. DOMAIN KindOrder = 1 .. 11
  BY DEF KindOrder
<1>2. IsFiniteSet(1 .. 11)
  <2>1. PICK n \in Nat : n = 11
    OBVIOUS
  <2>2. 1 \in Int /\ n \in Int
    OBVIOUS
  <2>3. IsFiniteSet(1 .. n)
    BY <2>2, FS_Interval, Zenon
  <2> QED
    BY <2>1, <2>3
<1>3. KindOrder \in Surjection(1 .. 11, Range(KindOrder))
  <2>1. KindOrder = [i \in 1 .. 11 |-> KindOrder[i]]
    BY DEF KindOrder
  <2> QED
    BY <1>1, <2>1 DEF Surjection, Range
<1>4. IsFiniteSet(Range(KindOrder))
  BY <1>2, <1>3, FS_Surjection
<1>5. DOMAIN TypeOrder = 1 .. 5
  BY DEF TypeOrder
<1>6. /\ TypeOrder[1] = "ACCESS_CONTEXT" /\ TypeOrder[2] = "PDU_SESSION"
      /\ TypeOrder[3] = "PFCP_SESSION" /\ TypeOrder[4] = "SM_CONTEXT" /\ TypeOrder[5] = "UE"
  BY DEF TypeOrder
<1>7. \A i \in 1 .. 5 : i = 1 \/ i = 2 \/ i = 3 \/ i = 4 \/ i = 5
  OBVIOUS
<1>8. \A i \in {1, 2, 3, 4, 5} : i \in DOMAIN TypeOrder
  BY <1>5
<1>9. Range(TypeOrder) = {"ACCESS_CONTEXT", "PDU_SESSION", "PFCP_SESSION", "SM_CONTEXT", "UE"}
  BY <1>5, <1>6, <1>7, <1>8 DEF Range
<1> QED
  BY <1>1, <1>4, <1>5, <1>9

\* Every kind of identifier belongs to one of the five node types.
LEMMA NodeTypes ==
  ASSUME NEW kind
  PROVE  NodeType(kind) \in Range(TypeOrder)
<1>1. \/ NodeType(kind) = "UE" \/ NodeType(kind) = "ACCESS_CONTEXT"
      \/ NodeType(kind) = "PDU_SESSION" \/ NodeType(kind) = "SM_CONTEXT"
      \/ NodeType(kind) = "PFCP_SESSION"
  BY DEF NodeType
<1> QED
  BY <1>1, Orderings

\* Observations are finitely many, with a place in every order and a UUID of their own.
LEMMA Observed ==
  ASSUME Captured
  PROVE  /\ IsFiniteSet(Observations) /\ Ranked(Observations)
         /\ \A o \in Observations : Names(o) /\ Placed(o)
<1>1. ASSUME NEW n \in DOMAIN events
      PROVE  /\ n \in Nat /\ n \in 1 .. MaxEvents
             /\ events[n].frame \in Nat /\ events[n].frame >= FirstFrame
             /\ DOMAIN events[n].ids \subseteq Range(KindOrder)
  <2>1. events[n] \in Event /\ n \in 1 .. Len(events) /\ Len(events) \in Nat
    BY DEF Captured
  <2>2. n \in Nat /\ n \in 1 .. MaxEvents
    BY <2>1, IdentityAssumption DEF Captured
  <2> QED
    BY <2>1, <2>2, IdentityAssumption
<1>2. ASSUME NEW o \in Observations PROVE Names(o)
  <2>1. PICK n \in DOMAIN events : o \in {n} \X DOMAIN events[n].ids
    BY DEF Observations, ObservationsOf
  <2>2. o[1] = n /\ o[2] \in DOMAIN events[n].ids /\ o = <<o[1], o[2]>>
    BY <2>1
  <2> QED
    BY <1>1, <2>2 DEF Names
<1>3. ASSUME NEW o \in Observations PROVE Placed(o)
  <2>1. Names(o)
    BY <1>2
  <2>2. Frame(o) \in Nat /\ Frame(o) >= FirstFrame
    BY <1>1, <2>1 DEF Names, Frame
  <2>3. PositionIn(KindOrder, o[2]) \in DOMAIN KindOrder
         /\ KindOrder[PositionIn(KindOrder, o[2])] = o[2]
    BY <2>1, Position DEF Names
  <2>4. PositionIn(TypeOrder, Type(o)) \in DOMAIN TypeOrder
         /\ TypeOrder[PositionIn(TypeOrder, Type(o))] = Type(o)
    BY NodeTypes, Position DEF Type
  <2>5. PositionIn(KindOrder, o[2]) \in Nat /\ PositionIn(TypeOrder, Type(o)) \in Nat
    BY <2>3, <2>4, Orderings
  <2> QED
    BY <2>2, <2>3, <2>4, <2>5 DEF Placed
<1>4. IsFiniteSet(Observations)
  <2>1. IsFiniteSet(1 .. MaxEvents)
    BY FS_Interval, IdentityAssumption
  <2>2. IsFiniteSet((1 .. MaxEvents) \X Range(KindOrder))
    BY <2>1, Orderings, FS_Product
  <2>3. Observations \subseteq (1 .. MaxEvents) \X Range(KindOrder)
    BY <1>2 DEF Names
  <2> QED
    BY <2>2, <2>3, FS_Subset
<1>5. Ranked(Observations)
  <2>1. /\ (1 .. MaxEvents) \X Range(KindOrder) \subseteq DOMAIN rank
        /\ Range(rank) \subseteq Nat /\ IsInjective(rank)
    BY IdentityAssumption DEF Captured
  <2>2. \A o \in Observations : o \in DOMAIN rank
    BY <1>2, <2>1 DEF Names
  <2> QED
    BY <2>1, <2>2 DEF Ranked, Range, IsInjective
<1> QED
  BY <1>2, <1>3, <1>4, <1>5

-----------------------------------------------------------------------------
(* Edges.                                                                  *)

\* What may be united: access identifiers, and what shows the same.
Unitable(o, p) ==
  /\ Type(o) = Type(p)
  /\ Type(o) # "ACCESS_CONTEXT" => p \in ExactGroup(o)

\* Edges between observations; an association is of two types.
EdgeSet ==
  {e \in [left : Observations, right : Observations, effect : {"union", "associate"}] :
     /\ e.effect = "union" => Unitable(e.left, e.right)
     /\ e.effect = "associate" => Type(e.left) # Type(e.right)}

\* Which of the two comes first does not matter.
LEMMA UnitableBothWays ==
  ASSUME NEW o \in Observations, NEW p \in Observations, Unitable(o, p)
  PROVE  Unitable(p, o)
BY DEF Unitable, ExactGroup

\* Tuples of numbers as keys.
LEMMA Pairs ==
  ASSUME NEW a \in Int, NEW b \in Int
  PROVE  <<a, b>> \in [1 .. 2 -> Int]
OBVIOUS

\* Three numbers.
LEMMA Triples ==
  ASSUME NEW a \in Int, NEW b \in Int, NEW c \in Int
  PROVE  <<a, b, c>> \in [1 .. 3 -> Int]
OBVIOUS

\* u is s and then t.
Joins(u, s, t) ==
  /\ Len(u) = Len(s) + Len(t)
  /\ \A i \in 1 .. Len(s) : u[i] = s[i]
  /\ \A i \in 1 .. Len(t) : u[Len(s) + i] = t[i]

\* What concatenation does.
LEMMA Joined ==
  ASSUME NEW S, NEW s \in Seq(S), NEW t \in Seq(S)
  PROVE  s \o t \in Seq(S) /\ Joins(s \o t, s, t)
BY DEF Joins

\* Two pairs make a key of four.
LEMMA FourOf ==
  ASSUME NEW a \in Int, NEW b \in Int, NEW c \in Int, NEW d \in Int
  PROVE  /\ <<a, b>> \o <<c, d>> \in [1 .. 4 -> Int]
         /\ (<<a, b>> \o <<c, d>>)[1] = a /\ (<<a, b>> \o <<c, d>>)[2] = b
         /\ (<<a, b>> \o <<c, d>>)[3] = c /\ (<<a, b>> \o <<c, d>>)[4] = d
<1>1. PICK s : s = <<a, b>>
  OBVIOUS
<1>2. PICK t : t = <<c, d>>
  OBVIOUS
<1>3. s \in Seq(Int) /\ Len(s) = 2 /\ s[1] = a /\ s[2] = b
  BY <1>1
<1>4. t \in Seq(Int) /\ Len(t) = 2 /\ t[1] = c /\ t[2] = d
  BY <1>2
<1>5. PICK u : u = s \o t
  OBVIOUS
<1>6. /\ u \in Seq(Int) /\ Len(u) = 4
      /\ u[1] = a /\ u[2] = b /\ u[3] = c /\ u[4] = d
  <2>1. u \in Seq(Int) /\ Joins(u, s, t)
    BY <1>3, <1>4, <1>5, Joined
  <2>2. 2 + 1 = 3 /\ 2 + 2 = 4 /\ 1 \in 1 .. 2 /\ 2 \in 1 .. 2
    OBVIOUS
  <2>3. u[1] = s[1] /\ u[2] = s[2] /\ u[2 + 1] = t[1] /\ u[2 + 2] = t[2]
    BY <1>3, <1>4, <2>1, <2>2 DEF Joins
  <2> QED
    BY <1>3, <1>4, <2>1, <2>2, <2>3 DEF Joins
<1>7. u \in [1 .. 4 -> Int]
  BY <1>6
<1> QED
  BY <1>1, <1>2, <1>5, <1>6, <1>7

\* An edge has its ends, whichever comes first.
LEMMA EdgeEnds ==
  ASSUME NEW o \in Observations, NEW p \in Observations, NEW effect \in {"union", "associate"},
         effect = "union" => Unitable(o, p), effect = "associate" => Type(o) # Type(p)
  PROVE  /\ Edge(o, p, effect) \in EdgeSet /\ Edge(o, p, effect).effect = effect
         /\ {Edge(o, p, effect).left, Edge(o, p, effect).right} = {o, p}
         /\ \A S : (Edge(o, p, effect).left \in S <=> Edge(o, p, effect).right \in S)
                     <=> (o \in S <=> p \in S)
<1>1. CASE rank[o] < rank[p]
  BY <1>1 DEF Edge, EdgeSet
<1>2. CASE ~ (rank[o] < rank[p])
  BY <1>2, UnitableBothWays DEF Edge, EdgeSet
<1> QED
  BY <1>1, <1>2

\* An exact group can be sorted by frame and UUID.
LEMMA GroupSorted ==
  ASSUME Captured, NEW o \in Observations
  PROVE  LET group == ExactGroup(o)
         IN /\ IsFiniteSet(group) /\ group \subseteq Observations /\ o \in group
            /\ \A p, q \in group : Unitable(p, q)
            /\ Arranges(Sorted(group, [p \in group |-> <<Frame(p), rank[p]>>]), group,
                     [p \in group |-> <<Frame(p), rank[p]>>])
<1> DEFINE group == ExactGroup(o)
           key == [p \in group |-> <<Frame(p), rank[p]>>]
<1>1. group \subseteq Observations /\ o \in group /\ \A p, q \in group : Unitable(p, q)
  BY DEF ExactGroup, Type, Unitable
<1>2. IsFiniteSet(group)
  BY <1>1, Observed, FS_Subset
<1> HIDE DEF group
<1>3. \A p \in group : Frame(p) \in Int /\ rank[p] \in Int
  BY <1>1, Observed DEF Placed, Ranked
<1>4. \A p \in group : key[p] = <<Frame(p), rank[p]>>
  OBVIOUS
<1>5. \A p \in group : key[p] \in [1 .. 2 -> Int] /\ key[p][2] = rank[p]
  BY <1>3, <1>4, Pairs
<1>6. key = [p \in group |-> key[p]]
  OBVIOUS
<1> HIDE DEF key
<1>7. key \in [group -> [1 .. 2 -> Int]]
  BY <1>5, <1>6
<1>8. \A p, q \in group : key[p] = key[q] => p = q
  BY <1>1, <1>5, Observed DEF Ranked
<1>9. Keyed(group, key, 2)
  BY <1>7, <1>8 DEF Keyed
<1>10. Arranges(Sorted(group, key), group, key)
  BY <1>2, <1>9, Sorting
<1> QED
  BY <1>1, <1>2, <1>10 DEF group, key

\* The chain of an exact group holds the group together.
LEMMA ChainHolds ==
  ASSUME Captured, NEW o \in Observations
  PROVE  /\ Chain(ExactGroup(o)) \in Seq(EdgeSet)
         /\ \A e \in ToSet(Chain(ExactGroup(o))) : e.effect = "union"
         /\ \A S : Closed(S, ToSet(Chain(ExactGroup(o)))) /\ o \in S => ExactGroup(o) \subseteq S
<1> DEFINE group == ExactGroup(o)
           key == [p \in group |-> <<Frame(p), rank[p]>>]
           s == Sorted(group, key)
           chain == Chain(group)
<1>1. /\ IsFiniteSet(group) /\ group \subseteq Observations /\ o \in group
      /\ \A p, q \in group : Unitable(p, q)
      /\ Arranges(s, group, key)
  BY GroupSorted
<1>2. chain = [i \in 1 .. (Len(s) - 1) |-> Edge(s[i], s[i + 1], "union")]
  BY DEF Chain
<1> HIDE DEF group, key, s, chain
<1>3. PICK n \in Nat : n = Cardinality(group)
  BY <1>1, FS_CardinalityType
<1>4. s \in [1 .. n -> group] /\ (\A p \in group : \E i \in 1 .. n : s[i] = p) /\ Len(s) = n
  BY <1>1, <1>3 DEF Arranges
<1>5. ASSUME NEW i \in 1 .. (n - 1)
      PROVE  /\ chain[i] \in EdgeSet /\ chain[i].effect = "union"
             /\ \A S : (chain[i].left \in S <=> chain[i].right \in S)
                         <=> (s[i] \in S <=> s[i + 1] \in S)
  <2>1. i \in 1 .. n /\ i + 1 \in 1 .. n /\ chain[i] = Edge(s[i], s[i + 1], "union")
    BY <1>2, <1>3, <1>4
  <2>2. /\ s[i] \in Observations /\ s[i + 1] \in Observations
        /\ Unitable(s[i], s[i + 1])
    BY <1>1, <1>4, <2>1
  <2> QED
    BY <2>1, <2>2, EdgeEnds
<1>6. chain \in [1 .. (n - 1) -> EdgeSet]
  BY <1>2, <1>4, <1>5
<1>7. n # 0
  BY <1>1, <1>4
<1>8. chain \in Seq(EdgeSet) /\ DOMAIN chain = 1 .. (n - 1)
  <2>1. n - 1 \in Nat
    BY <1>7
  <2> QED
    BY <1>6, <2>1
<1>9. \A e \in ToSet(chain) : e.effect = "union"
  BY <1>5, <1>8 DEF ToSet
<1>10. ASSUME NEW S, Closed(S, ToSet(chain)), o \in S PROVE group \subseteq S
  <2>1. \A i \in 1 .. (n - 1) : s[i] \in S <=> s[i + 1] \in S
    BY <1>5, <1>8, <1>10 DEF Closed, ToSet
  <2> DEFINE T == {k \in Nat : k + 1 <= n => (s[k + 1] \in S <=> s[1] \in S)}
  <2>2. 0 \in T
    OBVIOUS
  <2>3. ASSUME NEW k \in T \cap Nat PROVE k + 1 \in T
    <3> SUFFICES ASSUME (k + 1) + 1 <= n PROVE s[(k + 1) + 1] \in S <=> s[1] \in S
      OBVIOUS
    <3>1. k + 1 \in 1 .. (n - 1) /\ k + 1 <= n
      BY <1>3
    <3> QED
      BY <2>1, <3>1
  <2>4. Nat \subseteq T
    <3> HIDE DEF T
    <3> QED
      BY <2>2, <2>3, Induction
  <2>5. \A i \in 1 .. n : s[i] \in S <=> s[1] \in S
    <3> TAKE i \in 1 .. n
    <3>1. i - 1 \in Nat /\ (i - 1) + 1 = i /\ i <= n
      BY <1>3
    <3> QED
      BY <2>4, <3>1
  <2> QED
    BY <1>1, <1>4, <1>10, <2>5
<1> QED
  BY <1>8, <1>9, <1>10 DEF group, chain

\* The observations can be sorted.
LEMMA ObservationsSorted ==
  ASSUME Captured
  PROVE  Arranges(SortedObservations, Observations,
               [o \in Observations |-> <<Frame(o), o[1], rank[o]>>])
<1> DEFINE key == [o \in Observations |-> <<Frame(o), o[1], rank[o]>>]
<1>1. \A o \in Observations : Frame(o) \in Int /\ o[1] \in Int /\ rank[o] \in Int
  BY Observed DEF Names, Placed, Ranked
<1>2. \A o \in Observations : key[o] = <<Frame(o), o[1], rank[o]>>
  OBVIOUS
<1>3. \A o \in Observations : key[o] \in [1 .. 3 -> Int] /\ key[o][3] = rank[o]
  BY <1>1, <1>2, Triples
<1>4. key = [o \in Observations |-> key[o]]
  OBVIOUS
<1> HIDE DEF key
<1>5. key \in [Observations -> [1 .. 3 -> Int]]
  BY <1>3, <1>4
<1>6. \A o, p \in Observations : key[o] = key[p] => o = p
  BY <1>3, Observed DEF Ranked
<1>7. Keyed(Observations, key, 3)
  BY <1>5, <1>6 DEF Keyed
<1> QED
  BY <1>7, Observed, Sorting DEF SortedObservations, key

\* The exact edges contain the chain of every exact group.
LEMMA ExactTyped ==
  ASSUME Captured
  PROVE  /\ ExactEdges \in Seq(EdgeSet)
         /\ \A o \in Observations : ToSet(Chain(ExactGroup(o))) \subseteq ToSet(ExactEdges)
<1> DEFINE s == SortedObservations
           firsts == {i \in DOMAIN s : \A j \in 1 .. (i - 1) : s[j] \notin ExactGroup(s[i])}
           f == [i \in DOMAIN s |-> IF i \in firsts THEN Chain(ExactGroup(s[i])) ELSE << >>]
<1>1. Arranges(s, Observations, [o \in Observations |-> <<Frame(o), o[1], rank[o]>>])
  BY ObservationsSorted
<1>2. PICK n \in Nat : n = Cardinality(Observations)
  BY Observed, FS_CardinalityType
<1>3. /\ s \in [1 .. n -> Observations] /\ DOMAIN s = 1 .. n
      /\ \A o \in Observations : \E i \in 1 .. n : s[i] = o
  BY <1>1, <1>2 DEF Arranges
<1>4. ExactEdges = FlattenSeq(f)
  BY DEF ExactEdges
<1> HIDE DEF s
<1>5. \A i \in 1 .. n : Chain(ExactGroup(s[i])) \in Seq(EdgeSet)
  BY <1>3, ChainHolds
<1>6. f \in [1 .. n -> Seq(EdgeSet)] /\ \A i \in firsts : f[i] = Chain(ExactGroup(s[i]))
  BY <1>3, <1>5
<1> HIDE DEF f
<1>7. /\ FlattenSeq(f) \in Seq(EdgeSet)
      /\ \A i \in 1 .. n : ToSet(f[i]) \subseteq ToSet(FlattenSeq(f))
  BY <1>2, <1>6, Flattened
<1>8. ASSUME NEW o \in Observations
      PROVE  ToSet(Chain(ExactGroup(o))) \subseteq ToSet(FlattenSeq(f))
  <2> DEFINE T == {i \in 1 .. n : s[i] \in ExactGroup(o)}
  <2>1. T # {} /\ T \subseteq Nat
    <3>1. o \in ExactGroup(o)
      BY DEF ExactGroup
    <3>2. PICK i \in 1 .. n : s[i] = o
      BY <1>3
    <3> QED
      BY <3>1, <3>2
  <2>2. PICK i \in T : \A j \in T : i <= j
    BY <2>1, LeastNat
  <2>3. i \in 1 .. n /\ s[i] \in ExactGroup(o)
    BY <2>2
  <2>4. ExactGroup(s[i]) = ExactGroup(o)
    BY <2>3 DEF ExactGroup
  <2>5. \A j \in 1 .. (i - 1) : s[j] \notin ExactGroup(o)
    <3> TAKE j \in 1 .. (i - 1)
    <3>1. j \in 1 .. n /\ ~ (i <= j)
      BY <2>3
    <3> QED
      BY <2>2, <3>1
  <2>6. i \in firsts
    BY <1>3, <2>3, <2>4, <2>5
  <2> HIDE DEF firsts
  <2>7. f[i] = Chain(ExactGroup(o))
    BY <1>6, <2>4, <2>6
  <2> QED
    BY <1>7, <2>3, <2>7
<1> QED
  BY <1>4, <1>7, <1>8

\* The edges within one event.
LEMMA CooccurringTyped ==
  ASSUME Captured, NEW n \in DOMAIN events
  PROVE  Cooccurring(n) \in Seq(EdgeSet)
<1> DEFINE place(o) == <<PositionIn(TypeOrder, Type(o)), PositionIn(KindOrder, o[2])>>
           pairs == {q \in ObservationsOf(n) \X ObservationsOf(n) :
                       /\ Before(place(q[1]), place(q[2]))
                       /\ Type(q[1]) = Type(q[2]) => Type(q[1]) = "ACCESS_CONTEXT"}
           key == [q \in pairs |-> place(q[1]) \o place(q[2])]
           s == Sorted(pairs, key)
<1>1. ObservationsOf(n) \subseteq Observations /\ \A o \in ObservationsOf(n) : o[1] = n
  BY DEF Observations, ObservationsOf
<1>2. ASSUME NEW q \in pairs
      PROVE  /\ q[1] \in Observations /\ q[2] \in Observations /\ q = <<q[1], q[2]>>
             /\ q[1][1] = n /\ q[2][1] = n
             /\ Type(q[1]) = Type(q[2]) => Type(q[1]) = "ACCESS_CONTEXT"
  BY <1>1
<1>3. pairs \subseteq Observations \X Observations
  BY <1>1
<1>4. IsFiniteSet(pairs)
  BY <1>3, Observed, FS_Product, FS_Subset
<1>5. key = [q \in pairs |-> key[q]] /\ \A q \in pairs : key[q] = place(q[1]) \o place(q[2])
  OBVIOUS
<1>6. Cooccurring(n) =
        [i \in DOMAIN s |->
           Edge(s[i][1], s[i][2],
                IF Type(s[i][1]) = Type(s[i][2]) THEN "union" ELSE "associate")]
  BY DEF Cooccurring
<1> HIDE DEF pairs, key
<1>7. ASSUME NEW q \in pairs
      PROVE  /\ key[q] \in [1 .. 4 -> Int]
             /\ key[q][2] = PositionIn(KindOrder, q[1][2])
             /\ key[q][4] = PositionIn(KindOrder, q[2][2])
  <2>1. q[1] \in Observations /\ q[2] \in Observations
    BY <1>2
  <2>2. /\ PositionIn(TypeOrder, Type(q[1])) \in Int /\ PositionIn(KindOrder, q[1][2]) \in Int
        /\ PositionIn(TypeOrder, Type(q[2])) \in Int /\ PositionIn(KindOrder, q[2][2]) \in Int
    BY <2>1, Observed DEF Placed
  <2>3. PICK a, b, c, d \in Int :
          /\ a = PositionIn(TypeOrder, Type(q[1])) /\ b = PositionIn(KindOrder, q[1][2])
          /\ c = PositionIn(TypeOrder, Type(q[2])) /\ d = PositionIn(KindOrder, q[2][2])
    BY <2>2
  <2>4. key[q] = <<a, b>> \o <<c, d>>
    BY <1>5, <2>3
  <2> QED
    BY <2>3, <2>4, FourOf
<1>8. ASSUME NEW q \in pairs, NEW r \in pairs, key[q] = key[r] PROVE q = r
  <2>1. /\ PositionIn(KindOrder, q[1][2]) = PositionIn(KindOrder, r[1][2])
        /\ PositionIn(KindOrder, q[2][2]) = PositionIn(KindOrder, r[2][2])
    BY <1>7, <1>8
  <2>2. q[1][2] = r[1][2] /\ q[2][2] = r[2][2]
    BY <1>2, <2>1, Observed DEF Placed
  <2>3. q[1] = r[1] /\ q[2] = r[2]
    BY <1>2, <2>2, Observed DEF Names
  <2> QED
    BY <1>2, <2>3
<1>9. Keyed(pairs, key, 4)
  <2>1. key \in [pairs -> [1 .. 4 -> Int]]
    BY <1>5, <1>7
  <2> QED
    BY <1>8, <2>1 DEF Keyed
<1>10. Arranges(s, pairs, key)
  BY <1>4, <1>9, Sorting
<1> HIDE DEF s
<1>11. PICK m \in Nat : m = Cardinality(pairs)
  BY <1>4, FS_CardinalityType
<1>12. s \in [1 .. m -> pairs] /\ DOMAIN s = 1 .. m
  BY <1>10, <1>11 DEF Arranges
<1>13. ASSUME NEW i \in 1 .. m PROVE Cooccurring(n)[i] \in EdgeSet
  <2>1. s[i] \in pairs
    BY <1>12
  <2>2. s[i][1] \in Observations /\ s[i][2] \in Observations
    BY <1>2, <2>1
  <2>3. CASE Type(s[i][1]) = Type(s[i][2])
    <3>1. Cooccurring(n)[i] = Edge(s[i][1], s[i][2], "union")
      BY <1>6, <1>12, <2>3
    <3>2. Unitable(s[i][1], s[i][2])
      BY <1>2, <2>1, <2>3 DEF Unitable
    <3> QED
      BY <2>2, <3>1, <3>2, EdgeEnds
  <2>4. CASE Type(s[i][1]) # Type(s[i][2])
    <3>1. Cooccurring(n)[i] = Edge(s[i][1], s[i][2], "associate")
      BY <1>6, <1>12, <2>4
    <3> QED
      BY <2>2, <2>4, <3>1, EdgeEnds
  <2> QED
    BY <2>3, <2>4
<1>14. Cooccurring(n) \in [1 .. m -> EdgeSet]
  BY <1>6, <1>12, <1>13
<1> QED
  BY <1>14

\* The accepted edges: typed, and enough of them to hold every exact group together.
LEMMA EdgesTyped ==
  ASSUME Captured
  PROVE  /\ Edges \in Seq(EdgeSet)
         /\ \A o \in Observations : ToSet(Chain(ExactGroup(o))) \subseteq ToSet(Edges)
<1> DEFINE f == [n \in DOMAIN events |-> Cooccurring(n)]
<1>1. PICK m \in Nat : m = Len(events) /\ DOMAIN events = 1 .. m
  BY DEF Captured
<1>2. f \in [1 .. m -> Seq(EdgeSet)]
  BY <1>1, CooccurringTyped
<1> HIDE DEF f
<1>3. FlattenSeq(f) \in Seq(EdgeSet)
  BY <1>1, <1>2, Flattened
<1>4. Edges = ExactEdges \o FlattenSeq(f)
  BY DEF Edges, f
<1>5. ExactEdges \in Seq(EdgeSet)
  BY ExactTyped
<1>6. Edges \in Seq(EdgeSet) /\ ToSet(Edges) = ToSet(ExactEdges) \cup ToSet(FlattenSeq(f))
  BY <1>3, <1>4, <1>5, ConcatElements
<1> QED
  BY <1>6, ExactTyped

-----------------------------------------------------------------------------
(* The groups of the union-find.                                           *)

\* The union edges among the first k.
SeenIn(k) == {e \in {Edges[i] : i \in 1 .. k} : e.effect = "union"}

\* p groups the observations as the first k edges connect them.
Groups(p, k) ==
  /\ Forest(p, Observations)
  /\ \A e \in SeenIn(k) : Root(p, e.left) = Root(p, e.right)
  /\ \A S : Closed(S, SeenIn(k)) => Together(S, p, Observations)

\* At first every observation is its own group.
LEMMA GroupsAtFirst ==
  ASSUME Captured
  PROVE  Groups([o \in Observations |-> o], 0)
<1> DEFINE p == [o \in Observations |-> o]
<1>1. Forest(p, Observations)
  BY DEF Forest
<1>2. SeenIn(0) = {}
  BY DEF SeenIn
<1>3. \A S : Together(S, p, Observations)
  BY DEF Together
<1> QED
  BY <1>1, <1>2, <1>3 DEF Groups

\* One more edge.
LEMMA GroupsGrow ==
  ASSUME Captured, NEW k \in Nat, k + 1 <= Len(Edges), NEW p, Groups(p, k)
  PROVE  Groups(IF Edges[k + 1].effect = "union"
                THEN Unite(p, Edges[k + 1].left, Edges[k + 1].right) ELSE p, k + 1)
<1> DEFINE O == Observations
<1>1. PICK e : e = Edges[k + 1]
  OBVIOUS
<1>2. e \in EdgeSet
  BY <1>1, EdgesTyped
<1>3. e.left \in O /\ e.right \in O
  BY <1>2 DEF EdgeSet
<1>4. {Edges[i] : i \in 1 .. (k + 1)} = {Edges[i] : i \in 1 .. k} \cup {e}
  <2>1. \A i \in 1 .. (k + 1) : i \in 1 .. k \/ i = k + 1
    OBVIOUS
  <2>2. k + 1 \in 1 .. (k + 1) /\ \A i \in 1 .. k : i \in 1 .. (k + 1)
    OBVIOUS
  <2> QED
    BY <1>1, <2>1, <2>2
<1>5. CASE e.effect # "union"
  <2>1. SeenIn(k + 1) = SeenIn(k)
    BY <1>4, <1>5 DEF SeenIn
  <2> QED
    BY <1>1, <1>5, <2>1 DEF Groups
<1>6. CASE e.effect = "union"
  <2>1. SeenIn(k + 1) = SeenIn(k) \cup {e}
    BY <1>4, <1>6 DEF SeenIn
  <2>2. PICK u : u = Unite(p, e.left, e.right)
    OBVIOUS
  <2>3. Ranked(O) /\ Forest(p, O)
    BY Observed DEF Groups
  <2>4. /\ Forest(u, O) /\ Root(u, e.left) = Root(u, e.right)
        /\ \A x, y \in O : Root(p, x) = Root(p, y) => Root(u, x) = Root(u, y)
        /\ \A S : Together(S, p, O) /\ (e.left \in S <=> e.right \in S) => Together(S, u, O)
    BY <1>3, <2>2, <2>3, Uniting
  <2>5. \A f \in SeenIn(k) : f.left \in O /\ f.right \in O
    <3>1. \A i \in 1 .. k : Edges[i] \in EdgeSet
      BY EdgesTyped
    <3> QED
      BY <3>1 DEF SeenIn, EdgeSet
  <2>6. \A f \in SeenIn(k + 1) : Root(u, f.left) = Root(u, f.right)
    BY <2>1, <2>4, <2>5 DEF Groups
  <2>7. ASSUME NEW S, Closed(S, SeenIn(k + 1)) PROVE Together(S, u, O)
    <3>1. Closed(S, SeenIn(k)) /\ (e.left \in S <=> e.right \in S)
      BY <2>1, <2>7 DEF Closed
    <3>2. Together(S, p, O)
      BY <3>1 DEF Groups
    <3> QED
      BY <2>4, <3>1, <3>2
  <2>8. Groups(u, k + 1)
    BY <2>4, <2>6, <2>7 DEF Groups
  <2> QED
    BY <1>1, <1>6, <2>2, <2>8
<1> QED
  BY <1>5, <1>6

\* The edges are fixed when the last event has been read.
LEMMA EdgesFixed ==
  ASSUME UNCHANGED <<events, rank>>
  PROVE  Observations' = Observations /\ Edges' = Edges /\ EdgeSet' = EdgeSet
<1>1. Observations' = Observations
  BY DEF Observations, ObservationsOf
<1>2. \A o : Frame(o)' = Frame(o) /\ Value(o)' = Value(o)
  BY DEF Frame, Value
<1>3. \A n, kind : Scope(n, kind)' = Scope(n, kind)
  BY DEF Scope, AccessKey
<1>4. \A o : ExactGroup(o)' = ExactGroup(o)
  BY <1>1, <1>2, <1>3 DEF ExactGroup
<1>5. [o \in Observations |-> <<Frame(o), o[1], rank[o]>>]'
        = [o \in Observations |-> <<Frame(o), o[1], rank[o]>>]
  BY <1>1, <1>2
<1>6. SortedObservations' = SortedObservations
  BY <1>1, <1>5 DEF SortedObservations
<1>7. \A o, p, effect : Edge(o, p, effect)' = Edge(o, p, effect)
  BY DEF Edge
<1>8. ASSUME NEW group PROVE Chain(group)' = Chain(group)
  <2>1. [o \in group |-> <<Frame(o), rank[o]>>]' = [o \in group |-> <<Frame(o), rank[o]>>]
    BY <1>2
  <2>2. PICK s : s = Sorted(group, [o \in group |-> <<Frame(o), rank[o]>>])
    OBVIOUS
  <2>3. Chain(group) = [i \in 1 .. (Len(s) - 1) |-> Edge(s[i], s[i + 1], "union")]
    BY <2>2 DEF Chain
  <2>4. Chain(group)' = [i \in 1 .. (Len(s) - 1) |-> Edge(s[i], s[i + 1], "union")']
    BY <2>1, <2>2 DEF Chain
  <2> QED
    BY <1>7, <2>3, <2>4
<1>9. ExactEdges' = ExactEdges
  <2>1. PICK s : s = SortedObservations
    OBVIOUS
  <2> DEFINE firsts == {i \in DOMAIN s : \A j \in 1 .. (i - 1) : s[j] \notin ExactGroup(s[i])}
             f == [i \in DOMAIN s |-> IF i \in firsts THEN Chain(ExactGroup(s[i])) ELSE << >>]
  <2>2. firsts' = firsts
    BY <1>4
  <2>3. \A i : Chain(ExactGroup(s[i]))' = Chain(ExactGroup(s[i]))
    BY <1>4, <1>8
  <2>4. f' = f
    BY <2>2, <2>3
  <2>5. ExactEdges = FlattenSeq(f)
    BY <2>1 DEF ExactEdges
  <2>6. ExactEdges' = FlattenSeq(f')
    BY <1>6, <2>1 DEF ExactEdges
  <2> HIDE DEF f
  <2> QED
    BY <2>4, <2>5, <2>6
<1>10. ASSUME NEW n PROVE Cooccurring(n)' = Cooccurring(n)
  <2> DEFINE place(o) == <<PositionIn(TypeOrder, Type(o)), PositionIn(KindOrder, o[2])>>
             pairs == {q \in ObservationsOf(n) \X ObservationsOf(n) :
                         /\ Before(place(q[1]), place(q[2]))
                         /\ Type(q[1]) = Type(q[2]) => Type(q[1]) = "ACCESS_CONTEXT"}
             key == [q \in pairs |-> place(q[1]) \o place(q[2])]
  <2>1. ObservationsOf(n)' = ObservationsOf(n)
    BY DEF ObservationsOf
  <2>2. pairs' = pairs
    BY <2>1
  <2>3. key' = key
    BY <2>2
  <2>4. PICK s : s = Sorted(pairs, key)
    OBVIOUS
  <2> DEFINE edge(i) == Edge(s[i][1], s[i][2],
                             IF Type(s[i][1]) = Type(s[i][2]) THEN "union" ELSE "associate")
  <2>5. Cooccurring(n) = [i \in DOMAIN s |-> edge(i)]
    BY <2>4 DEF Cooccurring
  <2>6. s = Sorted(pairs', key')
    BY <2>2, <2>3, <2>4
  <2>7. Cooccurring(n)' = [i \in DOMAIN s |-> edge(i)']
    BY <2>6 DEF Cooccurring
  <2>8. \A i : edge(i)' = edge(i)
    BY <1>7
  <2> HIDE DEF edge
  <2> QED
    BY <2>5, <2>7, <2>8
<1>11. [n \in DOMAIN events |-> Cooccurring(n)]' = [n \in DOMAIN events |-> Cooccurring(n)]
  BY <1>10
<1>12. Edges' = Edges
  BY <1>9, <1>11 DEF Edges
<1>13. \A o, p : Unitable(o, p)' = Unitable(o, p)
  BY <1>4 DEF Unitable
<1>14. EdgeSet' = EdgeSet
  BY <1>1, <1>13 DEF EdgeSet
<1> QED
  BY <1>1, <1>12, <1>14

\* The nodes are fixed with the groups.
LEMMA NodesFixed ==
  ASSUME UNCHANGED <<events, rank, parent>>
  PROVE  MaterializedNodes' = MaterializedNodes
<1>1. Observations' = Observations
  BY EdgesFixed
<1>2. \A o : Frame(o)' = Frame(o) /\ Value(o)' = Value(o) /\ NodeId(o)' = NodeId(o)
  BY DEF Frame, Value, NodeId
<1>3. \A r : Members(r)' = Members(r)
  BY <1>1 DEF Members
<1>4. ASSUME NEW r PROVE SortedMembers(r)' = SortedMembers(r)
  <2> DEFINE key == [o \in Members(r) |-> <<Frame(o), PositionIn(KindOrder, o[2]), rank[o]>>]
  <2>1. key' = key
    BY <1>2, <1>3
  <2> QED
    BY <1>3, <2>1 DEF SortedMembers
<1>5. \A r : Node(r)' = Node(r)
  BY <1>2, <1>3, <1>4 DEF Node
<1> DEFINE roots == {Root(parent, o) : o \in Observations}
           key == [r \in roots |-> <<PositionIn(TypeOrder, Type(r)), Node(r).first, rank[r]>>]
<1>6. roots' = roots
  BY <1>1
<1>7. key' = key
  BY <1>5, <1>6
<1>8. PICK s : s = Sorted(roots, key)
  OBVIOUS
<1>9. s = Sorted(roots', key')
  BY <1>6, <1>7, <1>8
<1>10. MaterializedNodes = [i \in DOMAIN s |-> Node(s[i])]
  BY <1>8 DEF MaterializedNodes
<1>11. MaterializedNodes' = [i \in DOMAIN s |-> Node(s[i])']
  BY <1>9 DEF MaterializedNodes
<1> QED
  BY <1>5, <1>10, <1>11

-----------------------------------------------------------------------------
(* The inductive invariant.                                                *)

\* The groups stand where the edges behind todo have led them.
Linked ==
  \E k \in Nat :
    /\ todo \in Seq(EdgeSet) /\ k + Len(todo) = Len(Edges)
    /\ \A i \in 1 .. Len(todo) : todo[i] = Edges[k + i]
    /\ Groups(parent, k)

IInv ==
  /\ Captured
  /\ phase \in {"reading", "uniting", "published"}
  /\ phase = "reading" => todo = << >>
  /\ phase # "published" => nodes = << >>
  /\ phase # "reading" => Linked
  /\ phase = "published" => todo = << >> /\ nodes = MaterializedNodes

\* While events and UUIDs stay, so does what the edges and groups say.
LEMMA LinkedStays ==
  ASSUME UNCHANGED <<events, rank, todo, parent>>, Linked
  PROVE  Linked'
<1>1. Observations' = Observations /\ Edges' = Edges /\ EdgeSet' = EdgeSet
  BY EdgesFixed
<1> QED
  BY <1>1 DEF Linked, Groups, Forest, SeenIn, Closed, Together

\* So do the groups of any parent map.
LEMMA GroupsStay ==
  ASSUME UNCHANGED <<events, rank>>, NEW p, NEW k, Groups(p, k)
  PROVE  Groups(p, k)' /\ EdgeSet' = EdgeSet
<1>1. Observations' = Observations /\ Edges' = Edges
  BY EdgesFixed
<1>2. EdgeSet' = EdgeSet
  BY EdgesFixed
<1>3. Forest(p, Observations)'
  BY <1>1 DEF Groups, Forest
<1>4. SeenIn(k)' = SeenIn(k)
  BY <1>1 DEF SeenIn
<1> QED
  BY <1>1, <1>2, <1>3, <1>4 DEF Groups, Closed, Together

\* And what has been read.
LEMMA CapturedStays ==
  ASSUME UNCHANGED <<events, rank>>, Captured
  PROVE  Captured'
BY DEF Captured, OneRecord

\* The invariant holds at first and in every step.
LEMMA InitIInv == Init => IInv
<1> SUFFICES ASSUME Init PROVE IInv
  OBVIOUS
<1>1. Captured
  BY IdentityAssumption DEF Init, Captured
<1> QED
  BY <1>1 DEF Init, IInv

\* One more event.
LEMMA ReadEventIInv == IInv /\ ReadEvent => IInv'
<1> SUFFICES ASSUME IInv, ReadEvent PROVE IInv'
  OBVIOUS
<1>1. Captured'
  <2>1. PICK e \in Event :
          /\ \A n \in DOMAIN events : events[n].frame = e.frame => OneRecord(events[n], e)
          /\ events' = Append(events, e)
    BY DEF ReadEvent
  <2>2. events \in Seq(Event) /\ Len(events) < MaxEvents /\ rank' = rank /\ rank \in Orders
    BY DEF IInv, Captured, ReadEvent
  <2>3. PICK m \in Nat : m = Len(events)
    BY <2>2
  <2>4. /\ events' \in Seq(Event) /\ Len(events') = m + 1 /\ DOMAIN events' = 1 .. (m + 1)
        /\ DOMAIN events = 1 .. m /\ events'[m + 1] = e
        /\ \A i \in 1 .. m : events'[i] = events[i]
    BY <2>1, <2>2, <2>3
  <2>5. ASSUME NEW n \in DOMAIN events', NEW k \in DOMAIN events', n < k,
               events'[n].frame = events'[k].frame
        PROVE  OneRecord(events'[n], events'[k])
    <3>1. n \in DOMAIN events /\ events'[n] = events[n]
      BY <2>4, <2>5
    <3>2. CASE k \in DOMAIN events
      <4>1. events'[k] = events[k]
        BY <2>4, <3>2
      <4> QED
        BY <2>5, <3>1, <3>2, <4>1 DEF IInv, Captured
    <3>3. CASE k \notin DOMAIN events
      <4>1. k = m + 1
        BY <2>4, <3>3
      <4> QED
        BY <2>1, <2>4, <2>5, <3>1, <4>1
    <3> QED
      BY <3>2, <3>3
  <2>6. \A n, k \in DOMAIN events' :
          n < k /\ events'[n].frame = events'[k].frame => OneRecord(events'[n], events'[k])
    BY <2>5
  <2>7. Len(events') <= MaxEvents
    BY <2>2, <2>3, <2>4, IdentityAssumption
  <2> QED
    BY <2>2, <2>4, <2>6, <2>7 DEF Captured, OneRecord
<1> QED
  BY <1>1 DEF ReadEvent, IInv

\* The edges are made once, and nothing is united yet.
LEMMA BuildEdgesIInv == IInv /\ BuildEdges => IInv'
<1> SUFFICES ASSUME IInv, BuildEdges PROVE IInv'
  OBVIOUS
<1>0. UNCHANGED <<events, rank, nodes>> /\ Captured /\ todo' = Edges /\ phase' = "uniting"
  BY DEF BuildEdges, IInv
<1>1. Captured' /\ Observations' = Observations /\ Edges' = Edges
  BY <1>0, CapturedStays, EdgesFixed
<1>2. PICK p : p = [o \in Observations |-> o]
  OBVIOUS
<1>3. Groups(p, 0)' /\ EdgeSet' = EdgeSet
  BY <1>0, <1>2, GroupsAtFirst, GroupsStay
<1>4. parent' = p
  BY <1>2 DEF BuildEdges
<1>5. Groups(parent, 0)'
  BY <1>3, <1>4 DEF Groups
<1>6. Edges \in Seq(EdgeSet)
  BY <1>0, EdgesTyped
<1>7. PICK s : s = Edges
  OBVIOUS
<1>8. s \in Seq(EdgeSet) /\ 0 + Len(s) = Len(s) /\ \A i \in 1 .. Len(s) : s[i] = s[0 + i]
  BY <1>6, <1>7
<1>9. Linked'
  BY <1>0, <1>1, <1>3, <1>5, <1>7, <1>8 DEF Linked
<1> QED
  BY <1>0, <1>1, <1>9 DEF IInv, BuildEdges

\* The next edge leaves todo and is seen.
LEMMA UniteEdgeIInv == IInv /\ UniteEdge => IInv'
<1> SUFFICES ASSUME IInv, UniteEdge PROVE IInv'
  OBVIOUS
<1>0. UNCHANGED <<events, rank, phase, nodes>> /\ Captured /\ phase = "uniting" /\ todo # << >>
  BY DEF UniteEdge, IInv
<1>1. Captured' /\ Observations' = Observations /\ Edges' = Edges
  BY <1>0, CapturedStays, EdgesFixed
<1>2. PICK k \in Nat :
        /\ todo \in Seq(EdgeSet) /\ k + Len(todo) = Len(Edges)
        /\ \A i \in 1 .. Len(todo) : todo[i] = Edges[k + i]
        /\ Groups(parent, k)
  BY <1>0 DEF IInv, Linked
<1>3. /\ Len(todo) \in Nat /\ Len(todo) # 0 /\ Head(todo) = todo[1]
      /\ todo' = Tail(todo) /\ todo' \in Seq(EdgeSet) /\ Len(todo') = Len(todo) - 1
      /\ \A i \in 1 .. Len(todo') : todo'[i] = todo[i + 1]
  BY <1>0, <1>2 DEF UniteEdge
<1>4. Head(todo) = Edges[k + 1] /\ k + 1 <= Len(Edges)
  BY <1>2, <1>3
<1>5. PICK p : p = parent'
  OBVIOUS
<1>6. Groups(p, k + 1)
  <2>1. p = IF Edges[k + 1].effect = "union"
            THEN Unite(parent, Edges[k + 1].left, Edges[k + 1].right) ELSE parent
    BY <1>4, <1>5 DEF UniteEdge
  <2> QED
    BY <1>0, <1>2, <1>4, <2>1, GroupsGrow
<1>7. PICK m \in Nat : m = k + 1
  BY <1>2
<1>8. Groups(p, m)' /\ EdgeSet' = EdgeSet
  BY <1>0, <1>6, <1>7, GroupsStay
<1>9. Groups(parent, m)'
  BY <1>5, <1>8 DEF Groups
<1>10. m + Len(todo') = Len(Edges) /\ \A i \in 1 .. Len(todo') : todo'[i] = Edges[m + i]
  <2>1. m + Len(todo') = Len(Edges)
    BY <1>2, <1>3, <1>7
  <2>2. ASSUME NEW i \in 1 .. Len(todo') PROVE todo'[i] = Edges[m + i]
    <3>1. i + 1 \in 1 .. Len(todo) /\ k + (i + 1) = m + i
      BY <1>3, <1>7
    <3> QED
      BY <1>2, <1>3, <3>1
  <2> QED
    BY <2>1, <2>2
<1>11. Linked'
  BY <1>1, <1>3, <1>8, <1>9, <1>10 DEF Linked
<1> QED
  BY <1>0, <1>1, <1>11 DEF IInv

\* The last step makes the nodes.
LEMMA PublishIInv == IInv /\ Publish => IInv'
<1> SUFFICES ASSUME IInv, Publish PROVE IInv'
  OBVIOUS
<1>0. /\ UNCHANGED <<events, rank, todo, parent>> /\ Captured /\ Linked
      /\ todo = << >> /\ phase' = "published" /\ nodes' = MaterializedNodes
  BY DEF Publish, IInv
<1>1. Captured' /\ Linked' /\ MaterializedNodes' = MaterializedNodes
  BY <1>0, CapturedStays, LinkedStays, NodesFixed
<1> QED
  BY <1>0, <1>1 DEF IInv

\* Nothing changes in a stuttering step.
LEMMA StutterIInv == IInv /\ UNCHANGED vars => IInv'
<1> SUFFICES ASSUME IInv, UNCHANGED vars PROVE IInv'
  OBVIOUS
<1>0. UNCHANGED <<events, rank, phase, todo, parent, nodes>>
  BY DEF vars
<1>1. Captured' /\ (phase # "reading" => Linked') /\ MaterializedNodes' = MaterializedNodes
  BY <1>0, CapturedStays, LinkedStays, NodesFixed DEF IInv
<1> QED
  BY <1>0, <1>1 DEF IInv

\* In every reachable state the union-find has grouped the observations as the
\* edges it has seen connect them, and the published nodes are its groups.
THEOREM Grouping == Spec => []IInv
<1>1. Init => IInv
  BY InitIInv
<1>2. IInv /\ [Next]_vars => IInv'
  BY ReadEventIInv, BuildEdgesIInv, UniteEdgeIInv, PublishIInv, StutterIInv DEF Next
<1> QED
  BY <1>1, <1>2, PTL DEF Spec

\* The groups of the union-find are the components of the edges seen.
LEMMA GroupsConnected ==
  ASSUME Captured, NEW k \in Nat, k <= Len(Edges), NEW p, Groups(p, k), NEW o \in Observations
  PROVE  LET group == {x \in Observations : Root(p, x) = Root(p, o)}
         IN /\ Closed(group, SeenIn(k))
            /\ \A S \in SUBSET group : (o \in S /\ Closed(S, SeenIn(k))) => S = group
            /\ \A x \in group : rank[Root(p, o)] <= rank[x]
<1> DEFINE O == Observations
           group == {x \in O : Root(p, x) = Root(p, o)}
<1>1. Ranked(O) /\ Forest(p, O)
  BY Observed DEF Groups
<1>2. \A e \in SeenIn(k) : e.left \in O /\ e.right \in O
  <2>1. \A i \in 1 .. k : Edges[i] \in EdgeSet
    BY EdgesTyped
  <2> QED
    BY <2>1 DEF SeenIn, EdgeSet
<1>3. Closed(group, SeenIn(k))
  BY <1>2 DEF Closed, Groups
<1>4. ASSUME NEW S \in SUBSET group, o \in S, Closed(S, SeenIn(k)) PROVE S = group
  <2>1. Together(S, p, O)
    BY <1>4 DEF Groups
  <2>2. \A x \in O : x \in S <=> Root(p, x) \in S
    BY <1>1, <2>1, RootTogether DEF Together
  <2>3. \A x \in group : x \in S
    BY <1>4, <2>2
  <2> QED
    BY <1>4, <2>3
<1>5. \A x \in group : rank[Root(p, o)] <= rank[x]
  <2> TAKE x \in group
  <2>1. Root(p, x) = Root(p, o) /\ x \in O
    OBVIOUS
  <2>2. rank[Root(p, x)] <= rank[x]
    BY <1>1, <2>1, RootFound
  <2> QED
    BY <2>1, <2>2
<1> QED
  BY <1>3, <1>4, <1>5

\* The edges behind todo are the first of the list.
LEMMA SeenFirst ==
  ASSUME Captured, NEW k \in Nat, todo \in Seq(EdgeSet), k + Len(todo) = Len(Edges)
  PROVE  SeenUnions = SeenIn(k) /\ k <= Len(Edges)
<1>1. Edges \in Seq(EdgeSet) /\ Len(todo) \in Nat /\ Len(Edges) \in Nat
  BY EdgesTyped
<1>2. Len(Edges) - Len(todo) = k /\ k <= Len(Edges)
  BY <1>1
<1>3. PICK s : s = SubSeq(Edges, 1, k)
  OBVIOUS
<1>4. DOMAIN s = 1 .. k /\ \A i \in 1 .. k : s[i] = Edges[i]
  BY <1>1, <1>2, <1>3
<1>5. Range(s) = {Edges[i] : i \in 1 .. k}
  BY <1>4 DEF Range
<1> QED
  BY <1>2, <1>3, <1>5 DEF SeenUnions, SeenIn

\* The root has the least UUID of its group, and the groups are the connected
\* components of the edges seen, at every step of the union-find.
THEOREM Components == Spec => []GroupsAreComponents
<1>1. IInv => GroupsAreComponents
  <2> SUFFICES ASSUME IInv, phase # "reading" PROVE GroupsAreComponents
    BY DEF GroupsAreComponents
  <2>0. Captured
    BY DEF IInv
  <2>1. PICK k \in Nat : /\ todo \in Seq(EdgeSet) /\ k + Len(todo) = Len(Edges)
                         /\ Groups(parent, k)
    BY DEF IInv, Linked
  <2>2. SeenUnions = SeenIn(k) /\ k <= Len(Edges)
    BY <2>0, <2>1, SeenFirst
  <2>3. DOMAIN parent = Observations
    BY <2>1 DEF Groups, Forest
  <2>4. ASSUME NEW o \in Observations
        PROVE  LET group == {x \in Observations : Root(parent, x) = Root(parent, o)}
               IN /\ Closed(group, SeenIn(k))
                  /\ \A S \in SUBSET group : (o \in S /\ Closed(S, SeenIn(k))) => S = group
                  /\ \A x \in group : rank[Root(parent, o)] <= rank[x]
    BY <2>0, <2>1, <2>2, GroupsConnected
  <2> QED
    BY <2>2, <2>3, <2>4 DEF GroupsAreComponents
<1> QED
  BY <1>1, Grouping, PTL

-----------------------------------------------------------------------------
(* The published nodes.                                                    *)

\* All edges seen, an exact group is in one group.
LEMMA ExactTogether ==
  ASSUME Captured, NEW p, Groups(p, Len(Edges)), NEW o \in Observations, NEW q \in ExactGroup(o)
  PROVE  Root(p, q) = Root(p, o)
<1> DEFINE group == {x \in Observations : Root(p, x) = Root(p, o)}
           chain == Chain(ExactGroup(o))
<1>1. Edges \in Seq(EdgeSet) /\ ToSet(chain) \subseteq ToSet(Edges)
  BY EdgesTyped
<1>2. PICK k \in Nat : k = Len(Edges)
  BY <1>1
<1>3. Closed(group, SeenIn(k))
  BY <1>2, GroupsConnected
<1>4. ToSet(Edges) = {Edges[i] : i \in 1 .. k}
  BY <1>1, <1>2 DEF ToSet
<1>5. ToSet(chain) \subseteq SeenIn(k)
  BY <1>1, <1>4, ChainHolds DEF SeenIn
<1>6. Closed(group, ToSet(chain))
  BY <1>3, <1>5 DEF Closed
<1>7. o \in group
  OBVIOUS
<1> HIDE DEF group
<1>8. ExactGroup(o) \subseteq group
  BY <1>6, <1>7, ChainHolds
<1> QED
  BY <1>8 DEF group

\* What is may be united with one end of an edge may be with the other.
LEMMA UnitableTogether ==
  ASSUME NEW x \in Observations, NEW o \in Observations, NEW p \in Observations, Unitable(o, p)
  PROVE  Unitable(x, o) <=> Unitable(x, p)
BY DEF Unitable, ExactGroup

\* A group keeps to what may be united.
LEMMA GroupsAlike ==
  ASSUME Captured, NEW k \in Nat, k <= Len(Edges), NEW p, Groups(p, k),
         NEW x \in Observations, NEW y \in Observations, Root(p, x) = Root(p, y)
  PROVE  Unitable(x, y)
<1> DEFINE S == {z \in Observations : Unitable(x, z)}
<1>1. \A e \in SeenIn(k) : e \in EdgeSet /\ e.effect = "union"
  <2>1. \A i \in 1 .. k : Edges[i] \in EdgeSet
    BY EdgesTyped
  <2> QED
    BY <2>1 DEF SeenIn
<1>2. Closed(S, SeenIn(k))
  <2>1. \A e \in SeenIn(k) : /\ e.left \in Observations /\ e.right \in Observations
                            /\ Unitable(e.left, e.right)
    BY <1>1 DEF EdgeSet
  <2> QED
    BY <2>1, UnitableTogether DEF Closed
<1>3. Together(S, p, Observations)
  BY <1>2 DEF Groups
<1>4. x \in S
  BY DEF Unitable, ExactGroup
<1> HIDE DEF S
<1>5. \A z \in Observations : z \in S <=> Root(p, z) \in S
  BY <1>3, Observed, RootTogether DEF Groups, Together
<1>6. y \in S
  BY <1>4, <1>5
<1> QED
  BY <1>6 DEF S

\* So it keeps to one type.
LEMMA TypesAgree ==
  ASSUME Captured, NEW k \in Nat, k <= Len(Edges), NEW p, Groups(p, k),
         NEW x \in Observations, NEW y \in Observations, Root(p, x) = Root(p, y)
  PROVE  Type(x) = Type(y)
BY GroupsAlike DEF Unitable

\* Earlier in the order of tuples: not greater in the first place.
LEMMA FirstPlace ==
  ASSUME NEW L \in Nat \ {0}, NEW s \in [1 .. L -> Int], NEW t \in [1 .. L -> Int], Before(s, t)
  PROVE  s[1] <= t[1]
<1>1. DOMAIN s = 1 .. L
  OBVIOUS
<1>2. PICK k \in 1 .. L : s[k] < t[k] /\ \A j \in 1 .. (k - 1) : s[j] = t[j]
  BY <1>1 DEF Before
<1>3. s[1] \in Int /\ t[1] \in Int
  OBVIOUS
<1>4. CASE k = 1
  BY <1>2, <1>3, <1>4
<1>5. CASE k # 1
  BY <1>2, <1>3, <1>5
<1> QED
  BY <1>4, <1>5

\* The node of the group of r: its name and type are those of a member, its
\* frames reach from the first member to the last.
NodeOf(node, r) ==
  /\ node.members = Members(r)
  /\ \E a \in Members(r) : node.id = NodeId(a) /\ node.type = Type(a) /\ node.first = Frame(a)
  /\ node.first \in Nat /\ node.last \in Nat
  /\ \A x \in Members(r) : node.first <= Frame(x) /\ Frame(x) <= node.last

\* Node makes such a node of every group.
LEMMA NodeMade ==
  ASSUME Captured, Forest(parent, Observations), NEW o \in Observations, NEW r,
         r = Root(parent, o)
  PROVE  NodeOf(Node(r), r)
<1> DEFINE M == Members(r)
           key == [x \in M |-> <<Frame(x), PositionIn(KindOrder, x[2]), rank[x]>>]
           s == SortedMembers(r)
<1>1. M \subseteq Observations /\ o \in M
  BY Observed, RootFound DEF Members
<1>2. IsFiniteSet(M)
  BY <1>1, Observed, FS_Subset
<1>3. s = Sorted(M, key)
  BY DEF SortedMembers
<1>4. Node(r) = [id |-> NodeId(s[1]), type |-> Type(s[1]), members |-> M,
                 first |-> Frame(s[1]), last |-> Frame(Last(s)),
                 incomplete |-> Frame(s[1]) = FirstFrame]
  BY DEF Node
<1> HIDE DEF M, s
<1>5. ASSUME NEW x \in M
      PROVE  /\ Frame(x) \in Nat /\ PositionIn(KindOrder, x[2]) \in Int /\ rank[x] \in Int
  BY <1>1, Observed DEF Placed, Ranked
<1>6. key = [x \in M |-> key[x]]
      /\ \A x \in M : key[x] = <<Frame(x), PositionIn(KindOrder, x[2]), rank[x]>>
  OBVIOUS
<1> HIDE DEF key
<1>7. ASSUME NEW x \in M
      PROVE  key[x] \in [1 .. 3 -> Int] /\ key[x][1] = Frame(x) /\ key[x][3] = rank[x]
  <2>1. PICK a, b, c \in Int :
          a = Frame(x) /\ b = PositionIn(KindOrder, x[2]) /\ c = rank[x]
    BY <1>5
  <2>2. key[x] = <<a, b, c>>
    BY <1>6, <2>1
  <2> QED
    BY <2>1, <2>2, Triples
<1>8. Keyed(M, key, 3)
  <2>1. key \in [M -> [1 .. 3 -> Int]]
    BY <1>6, <1>7
  <2>2. \A x, y \in M : key[x] = key[y] => x = y
    BY <1>1, <1>7, Observed DEF Ranked
  <2> QED
    BY <2>1, <2>2 DEF Keyed
<1>9. Arranges(s, M, key)
  BY <1>2, <1>3, <1>8, Sorting
<1>10. PICK n \in Nat : n = Cardinality(M)
  BY <1>2, FS_CardinalityType
<1>11. /\ s \in [1 .. n -> M] /\ Len(s) = n
       /\ \A x \in M : \E i \in 1 .. n : s[i] = x
       /\ \A i, j \in 1 .. n : i < j => Before(key[s[i]], key[s[j]])
  BY <1>9, <1>10 DEF Arranges
<1>12. 1 \in 1 .. n /\ n \in 1 .. n /\ s[1] \in M /\ s[n] \in M
  BY <1>1, <1>11
<1>13. Last(s) = s[n]
  BY <1>11 DEF Last
<1>14. ASSUME NEW i \in 1 .. n, NEW j \in 1 .. n, i <= j PROVE Frame(s[i]) <= Frame(s[j])
  <2>1. s[i] \in M /\ s[j] \in M /\ Frame(s[i]) \in Nat /\ Frame(s[j]) \in Nat
    BY <1>5, <1>11
  <2>2. CASE i < j
    <3>1. Before(key[s[i]], key[s[j]])
      BY <1>11, <2>2
    <3>2. PICK t, u \in [1 .. 3 -> Int] : t = key[s[i]] /\ u = key[s[j]]
      BY <1>7, <2>1
    <3>3. 3 \in Nat \ {0} /\ Before(t, u)
      BY <3>1, <3>2
    <3>4. t[1] <= u[1]
      BY <3>3, FirstPlace
    <3> QED
      BY <1>7, <2>1, <3>2, <3>4
  <2>3. CASE i = j
    BY <2>1, <2>3
  <2> QED
    BY <1>14, <2>2, <2>3
<1>15. ASSUME NEW x \in M PROVE Frame(s[1]) <= Frame(x) /\ Frame(x) <= Frame(s[n])
  <2>1. PICK i \in 1 .. n : s[i] = x
    BY <1>11
  <2>2. 1 <= i /\ i <= n
    BY <2>1
  <2> QED
    BY <1>12, <1>14, <2>1, <2>2
<1>16. /\ Node(r).members = M /\ Node(r).id = NodeId(s[1]) /\ Node(r).type = Type(s[1])
       /\ Node(r).first = Frame(s[1]) /\ Node(r).last = Frame(s[n])
  BY <1>4, <1>13
<1>17. Frame(s[1]) \in Nat /\ Frame(s[n]) \in Nat
  BY <1>5, <1>12
<1> QED
  BY <1>12, <1>15, <1>16, <1>17 DEF NodeOf, M

\* The published list: s names the roots of its nodes.
Laid(s, n) ==
  /\ DOMAIN nodes = 1 .. n /\ Len(nodes) = n /\ nodes \in Seq(Range(nodes))
  /\ \A i \in 1 .. n : s[i] \in Observations /\ NodeOf(nodes[i], s[i])
  /\ \A i, j \in 1 .. n : s[i] = s[j] => i = j
  /\ \A o \in Observations : \E i \in 1 .. n : s[i] = Root(parent, o)

\* The published list is one node per group.
LEMMA NodesLaid ==
  ASSUME IInv, Published
  PROVE  /\ Captured /\ Groups(parent, Len(Edges)) /\ Forest(parent, Observations)
         /\ Edges \in Seq(EdgeSet)
         /\ \E n \in Nat : \E s : Laid(s, n)
<1>1. Captured /\ Linked /\ todo = << >> /\ nodes = MaterializedNodes
  BY DEF IInv, Published
<1>2. Edges \in Seq(EdgeSet)
  BY <1>1, EdgesTyped
<1>3. Groups(parent, Len(Edges)) /\ Forest(parent, Observations)
  <2>1. PICK k \in Nat : k + Len(todo) = Len(Edges) /\ Groups(parent, k)
    BY <1>1 DEF Linked
  <2>2. k = Len(Edges)
    BY <1>1, <2>1
  <2> QED
    BY <2>1, <2>2 DEF Groups
<1> DEFINE roots == {Root(parent, o) : o \in Observations}
           key == [r \in roots |-> <<PositionIn(TypeOrder, Type(r)), Node(r).first, rank[r]>>]
           s == Sorted(roots, key)
<1>4. roots \subseteq Observations /\ \A r \in roots : NodeOf(Node(r), r)
  BY <1>1, <1>3, Observed, RootFound, NodeMade
<1>5. \A o \in Observations : Root(parent, o) \in roots
  OBVIOUS
<1>6. IsFiniteSet(roots)
  BY <1>1, <1>4, Observed, FS_Subset
<1>7. nodes = [i \in DOMAIN s |-> Node(s[i])]
  BY <1>1 DEF MaterializedNodes
<1> HIDE DEF roots
<1>8. \A r \in roots : /\ PositionIn(TypeOrder, Type(r)) \in Int /\ Node(r).first \in Int
                       /\ rank[r] \in Int
  BY <1>1, <1>4, Observed DEF Placed, Ranked, NodeOf
<1>9. /\ key = [r \in roots |-> key[r]]
      /\ \A r \in roots : key[r] = <<PositionIn(TypeOrder, Type(r)), Node(r).first, rank[r]>>
  OBVIOUS
<1> HIDE DEF key, s
<1>10. ASSUME NEW r \in roots PROVE key[r] \in [1 .. 3 -> Int] /\ key[r][3] = rank[r]
  <2>1. PICK a, b, c \in Int :
          a = PositionIn(TypeOrder, Type(r)) /\ b = Node(r).first /\ c = rank[r]
    BY <1>8
  <2>2. key[r] = <<a, b, c>>
    BY <1>9, <2>1
  <2> QED
    BY <2>1, <2>2, Triples
<1>11. Keyed(roots, key, 3)
  <2>1. key \in [roots -> [1 .. 3 -> Int]]
    BY <1>9, <1>10
  <2>2. \A x, y \in roots : key[x] = key[y] => x = y
    BY <1>1, <1>4, <1>10, Observed DEF Ranked
  <2> QED
    BY <2>1, <2>2 DEF Keyed
<1>12. Arranges(s, roots, key)
  BY <1>6, <1>11, Sorting DEF s
<1>13. PICK n \in Nat : n = Cardinality(roots)
  BY <1>6, FS_CardinalityType
<1>14. /\ s \in [1 .. n -> roots]
       /\ \A r \in roots : \E i \in 1 .. n : s[i] = r
       /\ \A i, j \in 1 .. n : i < j => s[i] # s[j]
  BY <1>12, <1>13 DEF Arranges
<1>15. \A i, j \in 1 .. n : s[i] = s[j] => i = j
  <2> TAKE i, j \in 1 .. n
  <2>1. i < j \/ j < i \/ i = j
    OBVIOUS
  <2> QED
    BY <1>14, <2>1
<1>16. DOMAIN nodes = 1 .. n /\ \A i \in 1 .. n : nodes[i] = Node(s[i]) /\ s[i] \in roots
  BY <1>7, <1>14
<1>17. Len(nodes) = n /\ nodes \in Seq(Range(nodes))
  <2>1. nodes = [i \in 1 .. n |-> nodes[i]]
    BY <1>7, <1>16
  <2>2. \A i \in 1 .. n : nodes[i] \in Range(nodes)
    BY <1>16 DEF Range
  <2>3. nodes \in [1 .. n -> Range(nodes)]
    BY <2>1, <2>2
  <2> QED
    BY <1>13, <2>3
<1>18. Laid(s, n)
  BY <1>4, <1>5, <1>14, <1>15, <1>16, <1>17 DEF Laid
<1> QED
  BY <1>1, <1>2, <1>3, <1>18

\* An observation is a member of the node of its root, and of no other.
LEMMA OneNode ==
  ASSUME IInv, Published, NEW n \in Nat, NEW s, Laid(s, n), NEW o \in Observations
  PROVE  \E i \in 1 .. n : /\ s[i] = Root(parent, o)
                           /\ \A j \in 1 .. n : o \in nodes[j].members <=> j = i
                           /\ nodes[i].type = Type(o)
                           /\ nodes[i].first \in Nat /\ nodes[i].last \in Nat
                           /\ nodes[i].first <= Frame(o) /\ Frame(o) <= nodes[i].last
<1>1. /\ Captured /\ Groups(parent, Len(Edges)) /\ Forest(parent, Observations)
      /\ Edges \in Seq(EdgeSet)
  BY NodesLaid
<1>2. PICK i \in 1 .. n : s[i] = Root(parent, o)
  BY DEF Laid
<1>3. \A j \in 1 .. n : nodes[j].members = {x \in Observations : Root(parent, x) = s[j]}
  BY DEF Laid, NodeOf, Members
<1>4. \A j \in 1 .. n : o \in nodes[j].members <=> j = i
  BY <1>2, <1>3 DEF Laid
<1>5. o \in Members(s[i]) /\ NodeOf(nodes[i], s[i])
  BY <1>2 DEF Members, Laid
<1>6. PICK a \in Members(s[i]) : nodes[i].type = Type(a)
  BY <1>5 DEF NodeOf
<1>7. a \in Observations /\ Root(parent, a) = Root(parent, o)
  BY <1>2, <1>6 DEF Members
<1>8. PICK k \in Nat : k = Len(Edges) /\ k <= Len(Edges)
  BY <1>1
<1>9. Type(a) = Type(o)
  BY <1>1, <1>7, <1>8, TypesAgree
<1> QED
  BY <1>2, <1>4, <1>5, <1>6, <1>9 DEF NodeOf

\* In one frame, what shows the same shows it in the same scope.
LEMMA ScopeInFrame ==
  ASSUME Captured, NEW a \in Observations, NEW b \in Observations, a[2] = b[2],
         Frame(a) = Frame(b)
  PROVE  Scope(a[1], a[2]) = Scope(b[1], b[2])
<1> DEFINE e == events[a[1]]
           f == events[b[1]]
<1>1. /\ a[1] \in DOMAIN events /\ a[2] \in DOMAIN e.ids
      /\ b[1] \in DOMAIN events /\ a[2] \in DOMAIN f.ids
  BY Observed DEF Names
<1>2. e.frame = f.frame
  BY DEF Frame
<1>3. a[1] = b[1] \/ OneRecord(e, f) \/ OneRecord(f, e)
  <2>1. a[1] \in Nat /\ b[1] \in Nat
    BY Observed DEF Names
  <2>2. a[1] < b[1] \/ b[1] < a[1] \/ a[1] = b[1]
    BY <2>1
  <2> QED
    BY <1>1, <1>2, <2>2 DEF Captured
<1>4. CASE a[1] = b[1]
  BY <1>4
<1>5. CASE OneRecord(e, f) \/ OneRecord(f, e)
  <2>1. \A kind \in {"amf_ue_ngap_id", "ran_ue_ngap_id"} :
          kind \in DOMAIN e.ids \cup DOMAIN f.ids =>
            /\ kind \in DOMAIN e.ids /\ kind \in DOMAIN f.ids
            /\ e.ids[kind] = f.ids[kind] /\ e.src = f.src /\ e.dst = f.dst
    BY <1>5 DEF OneRecord
  <2> HIDE DEF e, f
  <2>2. AccessKey(e.ids) = AccessKey(f.ids)
    BY <2>1 DEF AccessKey
  <2>3. NodeType(a[2]) = "ACCESS_CONTEXT" => e.src = f.src /\ e.dst = f.dst
    <3>1. NodeType(a[2]) = "ACCESS_CONTEXT" => a[2] \in {"amf_ue_ngap_id", "ran_ue_ngap_id"}
      BY DEF NodeType
    <3> QED
      BY <1>1, <2>1, <3>1
  <2> QED
    BY <1>2, <2>2, <2>3 DEF Scope, e, f
<1> QED
  BY <1>3, <1>4, <1>5

\* A node's id tells it from the others.
LEMMA IdsApart == IInv => NodeIdsUnique
<1> SUFFICES ASSUME IInv, NEW i \in DOMAIN nodes, NEW j \in DOMAIN nodes, nodes[i].id = nodes[j].id
             PROVE  i = j
  BY DEF NodeIdsUnique
<1>1. CASE ~ Published
  BY <1>1 DEF IInv, Published
<1>2. CASE Published
  <2>1. PICK n \in Nat : \E s : Laid(s, n)
    BY <1>2, NodesLaid
  <2>2. PICK s : Laid(s, n)
    BY <2>1
  <2>3. Captured /\ Groups(parent, Len(Edges))
    BY <1>2, NodesLaid
  <2>4. /\ i \in 1 .. n /\ j \in 1 .. n
        /\ NodeOf(nodes[i], s[i]) /\ NodeOf(nodes[j], s[j])
    BY <2>2 DEF Laid
  <2>5. PICK a \in Members(s[i]) : nodes[i].id = NodeId(a)
    BY <2>4 DEF NodeOf
  <2>6. PICK b \in Members(s[j]) : nodes[j].id = NodeId(b)
    BY <2>4 DEF NodeOf
  <2>7. a[2] = b[2] /\ Value(a) = Value(b) /\ Frame(a) = Frame(b)
    <3>1. NodeId(a) = NodeId(b)
      BY <2>5, <2>6
    <3>2. \A o : NodeId(o)[2] = o[2] /\ NodeId(o)[3] = Value(o) /\ NodeId(o)[4] = Frame(o)
      BY DEF NodeId
    <3> QED
      BY <3>1, <3>2
  <2>8. /\ a \in Observations /\ Root(parent, a) = s[i]
        /\ b \in Observations /\ Root(parent, b) = s[j]
    BY <2>5, <2>6 DEF Members
  <2>9. b \in ExactGroup(a)
    BY <2>3, <2>7, <2>8, ScopeInFrame DEF ExactGroup
  <2>10. s[i] = s[j]
    BY <2>3, <2>8, <2>9, ExactTogether
  <2> QED
    BY <2>2, <2>4, <2>10 DEF Laid
<1> QED
  BY <1>1, <1>2

\* An event's identifiers lie in one node each, alive in the event's frame.
LEMMA EventsAnswered == IInv => EventsFindTheirNodes
<1> SUFFICES ASSUME IInv, Published, NEW o \in Observations
    PROVE  LET n == o[1]
               mine == {i \in NodesForEvent(n) : o \in nodes[i].members}
           IN \E i \in mine :
                /\ mine = {i} /\ nodes[i].type = Type(o)
                /\ Frame(o) \in nodes[i].first .. nodes[i].last
                /\ Type(o) = "ACCESS_CONTEXT"
                     => Cardinality(RegisteredAt(nodes[i].id, Frame(o))) = 1
                /\ Type(o) = "UE" => TopologyAt(nodes[i].id, Frame(o)) = {i}
  BY DEF EventsFindTheirNodes
<1> DEFINE mine == {i \in NodesForEvent(o[1]) : o \in nodes[i].members}
<1>1. PICK n \in Nat : \E s : Laid(s, n)
  BY NodesLaid
<1>2. PICK s : Laid(s, n)
  BY <1>1
<1>3. DOMAIN nodes = 1 .. n
  BY <1>2 DEF Laid
<1>4. PICK i \in 1 .. n : /\ \A j \in 1 .. n : o \in nodes[j].members <=> j = i
                          /\ nodes[i].type = Type(o)
                          /\ nodes[i].first \in Nat /\ nodes[i].last \in Nat
                          /\ nodes[i].first <= Frame(o) /\ Frame(o) <= nodes[i].last
  BY <1>2, OneNode
<1>5. Captured
  BY DEF IInv
<1>6. Frame(o) \in Nat /\ o \in ObservationsOf(o[1])
  BY <1>5, Observed DEF Names, Placed, ObservationsOf
<1>7. mine = {i}
  BY <1>3, <1>4, <1>6 DEF NodesForEvent
<1>8. Frame(o) \in nodes[i].first .. nodes[i].last
  BY <1>4, <1>6
<1>9. \A j \in 1 .. n : nodes[j].id = nodes[i].id => j = i
  BY <1>3, IdsApart DEF NodeIdsUnique
<1>10. ASSUME Type(o) = "ACCESS_CONTEXT"
       PROVE  Cardinality(RegisteredAt(nodes[i].id, Frame(o))) = 1
  <2>1. PICK state : state = [context |-> nodes[i].id, from |-> nodes[i].first, to |-> nodes[i].last]
    OBVIOUS
  <2>2. state \in RegisteredAt(nodes[i].id, Frame(o))
    BY <1>3, <1>4, <1>8, <1>10, <2>1 DEF RegisteredAt, RegistrationStates
  <2>3. ASSUME NEW t \in RegisteredAt(nodes[i].id, Frame(o)) PROVE t = state
    <3>1. PICK j \in 1 .. n :
            t = [context |-> nodes[j].id, from |-> nodes[j].first, to |-> nodes[j].last]
      BY <1>3 DEF RegisteredAt, RegistrationStates
    <3>2. nodes[j].id = nodes[i].id
      BY <3>1 DEF RegisteredAt
    <3> QED
      BY <1>9, <2>1, <3>1, <3>2
  <2>4. RegisteredAt(nodes[i].id, Frame(o)) = {state}
    BY <2>2, <2>3
  <2> QED
    BY <2>4, FS_Singleton
<1>11. Type(o) = "UE" => TopologyAt(nodes[i].id, Frame(o)) = {i}
  BY <1>3, <1>4, <1>8, <1>9 DEF TopologyAt
<1> QED
  BY <1>4, <1>7, <1>8, <1>10, <1>11

\* A subscriber's identifier is one node, which a lookup by it finds.
LEMMA SubscribersAnswered == IInv => SubscriberFound
<1> SUFFICES ASSUME IInv, Published, NEW o \in Observations, Type(o) = "UE"
    PROVE  \E node \in UeByLookup(o[2], Value(o)) :
             /\ UeByLookup(o[2], Value(o)) = {node}
             /\ \A p \in Observations :
                  (p[2] = o[2] /\ Value(p) = Value(o)) =>
                    p \in node.members /\ Frame(p) \in node.first .. node.last
  BY DEF SubscriberFound
<1>1. PICK n \in Nat : \E s : Laid(s, n)
  BY NodesLaid
<1>2. PICK s : Laid(s, n)
  BY <1>1
<1>3. DOMAIN nodes = 1 .. n /\ Len(nodes) = n /\ nodes \in Seq(Range(nodes))
  BY <1>2 DEF Laid
<1>4. Captured /\ Groups(parent, Len(Edges))
  BY NodesLaid
<1>5. PICK i \in 1 .. n : /\ s[i] = Root(parent, o)
                          /\ \A j \in 1 .. n : o \in nodes[j].members <=> j = i
                          /\ nodes[i].type = Type(o)
                          /\ nodes[i].first \in Nat /\ nodes[i].last \in Nat
                          /\ nodes[i].first <= Frame(o) /\ Frame(o) <= nodes[i].last
  BY <1>2, OneNode
<1> DEFINE node == nodes[i]
           alike == {p \in Observations : p[2] = o[2] /\ Value(p) = Value(o)}
<1>6. ASSUME NEW p \in alike
      PROVE  /\ \A j \in 1 .. n : p \in nodes[j].members <=> j = i
             /\ Frame(p) \in node.first .. node.last
  <2>1. p \in ExactGroup(o)
    <3>1. p[2] = o[2] /\ NodeType(o[2]) = "UE"
      BY DEF Type
    <3>2. o[2] \notin {"pdu_session_id", "sm_context_ref"}
      BY <3>1 DEF NodeType
    <3>3. Scope(p[1], p[2]) = << >> /\ Scope(o[1], o[2]) = << >>
      BY <3>1, <3>2 DEF Scope
    <3> QED
      BY <3>3 DEF ExactGroup
  <2>2. Root(parent, p) = Root(parent, o)
    BY <1>4, <2>1, ExactTogether
  <2>3. PICK k \in 1 .. n : /\ s[k] = Root(parent, p)
                            /\ \A j \in 1 .. n : p \in nodes[j].members <=> j = k
                            /\ nodes[k].first \in Nat /\ nodes[k].last \in Nat
                            /\ nodes[k].first <= Frame(p) /\ Frame(p) <= nodes[k].last
    BY <1>2, OneNode
  <2>4. k = i
    BY <1>2, <1>5, <2>2, <2>3 DEF Laid
  <2>5. Frame(p) \in Nat
    BY <1>4, Observed DEF Placed
  <2> QED
    BY <2>3, <2>4, <2>5
<1>7. ById(node.id) = node
  <2> DEFINE X == {m \in Range(nodes) : m.id = node.id}
             r == Keep(nodes, X)
  <2>1. node \in Range(nodes)
    BY <1>3 DEF Range
  <2>2. \A m \in X : m = node
    BY <1>3, IdsApart DEF NodeIdsUnique, Range
  <2>3. r \in Seq(Range(nodes))
    BY <1>3, KeepSelects
  <2>4. ToSet(r) = ToSet(nodes) \cap X
    BY <1>3, KeepElements
  <2>5. ToSet(nodes) = Range(nodes)
    BY DEF ToSet, Range
  <2>6. ToSet(r) = {node}
    BY <2>1, <2>2, <2>4, <2>5
  <2> HIDE DEF X, r
  <2>7. Len(r) \in 1 .. Len(r) /\ DOMAIN r = 1 .. Len(r)
    <3>1. DOMAIN r = 1 .. Len(r) /\ Len(r) \in Nat
      BY <2>3
    <3>2. DOMAIN r # {}
      BY <2>6 DEF ToSet
    <3> QED
      BY <3>1, <3>2
  <2>8. Last(r) = node
    BY <2>6, <2>7 DEF Last, ToSet
  <2> QED
    BY <2>8 DEF ById, r, X
<1>8. {j \in DOMAIN nodes :
         nodes[j].type = "UE" /\ \E p \in nodes[j].members : p[2] = o[2] /\ Value(p) = Value(o)}
        = {i}
  <2>1. \A j \in 1 .. n : \A p \in nodes[j].members : p \in Observations
    BY <1>2 DEF Laid, NodeOf, Members
  <2>2. o \in alike /\ o \in node.members
    BY <1>5
  <2>3. \A j \in 1 .. n :
          (\E p \in nodes[j].members : p[2] = o[2] /\ Value(p) = Value(o)) => j = i
    BY <1>6, <2>1
  <2> QED
    BY <1>3, <1>5, <2>2, <2>3
<1>9. UeByLookup(o[2], Value(o)) = {node}
  BY <1>7, <1>8 DEF UeByLookup
<1> QED
  BY <1>6, <1>9

\* What T04 and the tools ask of the published graph is answered: by event,
\* by a subscriber's identifier and by id.
THEOREM LookupsAnswered == Spec => []LookupsSound
<1>1. IInv => LookupsSound
  BY IdsApart, EventsAnswered, SubscribersAnswered DEF LookupsSound
<1> QED
  BY <1>1, Grouping, PTL

\* The members of a published node may be united.
LEMMA MembersAlike ==
  ASSUME IInv, Published, NEW i \in DOMAIN nodes,
         NEW o \in nodes[i].members, NEW p \in nodes[i].members
  PROVE  o \in Observations /\ p \in Observations /\ Unitable(o, p)
<1>1. PICK n \in Nat : \E s : Laid(s, n)
  BY NodesLaid
<1>2. PICK s : Laid(s, n)
  BY <1>1
<1>3. /\ Captured /\ Groups(parent, Len(Edges)) /\ Edges \in Seq(EdgeSet)
      /\ i \in 1 .. n
  BY <1>2, NodesLaid DEF Laid
<1>4. /\ o \in Observations /\ p \in Observations
      /\ Root(parent, o) = s[i] /\ Root(parent, p) = s[i]
  BY <1>2, <1>3 DEF Laid, NodeOf, Members
<1>5. PICK k \in Nat : k = Len(Edges) /\ k <= Len(Edges)
  BY <1>3
<1> QED
  BY <1>3, <1>4, <1>5, GroupsAlike

\* An observation is in the node that HolderOf names.
LEMMA Held ==
  ASSUME IInv, Published, NEW o \in Observations
  PROVE  HolderOf(o) \in DOMAIN nodes /\ o \in nodes[HolderOf(o)].members
<1>1. PICK n \in Nat : \E s : Laid(s, n)
  BY NodesLaid
<1>2. PICK s : Laid(s, n)
  BY <1>1
<1>3. \E i \in DOMAIN nodes : o \in nodes[i].members
  <2>1. DOMAIN nodes = 1 .. n
    BY <1>2 DEF Laid
  <2> QED
    BY <1>2, <2>1, OneNode
<1> QED
  BY <1>3 DEF HolderOf

\* What a conflict names are observations of subscribers with different values.
LEMMA ConflictNames ==
  ASSUME NEW x \in Conflicts
  PROVE  \E o, p \in x : /\ o \in Observations /\ p \in Observations
                         /\ Type(o) = "UE" /\ Type(p) = "UE" /\ Value(o) # Value(p)
<1>1. PICK b \in Bindings :
        /\ x = UNION {{c[1], c[2]} : c \in BoundAlike(b)}
        /\ Cardinality({Value(c[2]) : c \in BoundAlike(b)}) > 1
  BY DEF Conflicts
<1> DEFINE seen == {Value(c[2]) : c \in BoundAlike(b)}
<1>2. b \in BoundAlike(b)
  BY DEF Bindings, BoundAlike, ExactGroup
<1>3. PICK v : v = Value(b[2])
  OBVIOUS
<1>4. v \in seen
  BY <1>2, <1>3
<1>5. \E w \in seen : w # v
  <2> SUFFICES ASSUME \A w \in seen : w = v PROVE FALSE
    OBVIOUS
  <2> HIDE DEF seen
  <2>1. seen = {v}
    BY <1>4
  <2>2. Cardinality(seen) = 1
    BY <2>1, FS_Singleton
  <2> QED
    BY <1>1, <2>2 DEF seen
<1>6. PICK c \in BoundAlike(b) : Value(c[2]) # v
  BY <1>5
<1>7. b[2] \in x /\ c[2] \in x
  BY <1>1, <1>2, <1>6
<1>8. /\ b[2] \in Observations /\ Type(b[2]) = "UE"
      /\ c[2] \in Observations /\ Type(c[2]) = "UE"
  BY <1>6 DEF Bindings, BoundAlike
<1> QED
  BY <1>3, <1>6, <1>7, <1>8

\* Whatever the access contexts joined, nothing else is joined with them: nodes
\* keep to a type and a scope, associations stay between two nodes, and the
\* subscribers of a conflict stay apart.
THEOREM BoundariesAlwaysKept == Spec => []BoundariesKept
<1>1. IInv => BoundariesKept
  <2> SUFFICES ASSUME IInv, Published PROVE BoundariesKept
    BY DEF BoundariesKept
  <2>1. \A i \in DOMAIN nodes : \A o, p \in nodes[i].members :
          /\ Type(o) = Type(p)
          /\ Type(o) # "ACCESS_CONTEXT" => p \in ExactGroup(o)
    BY MembersAlike DEF Unitable
  <2>2. ASSUME NEW e \in Range(Edges), e.effect = "associate"
        PROVE  HolderOf(e.left) # HolderOf(e.right)
    <3>1. Edges \in Seq(EdgeSet)
      BY NodesLaid
    <3>2. e \in EdgeSet
      BY <3>1 DEF Range
    <3>3. /\ e.left \in Observations /\ e.right \in Observations
          /\ Type(e.left) # Type(e.right)
      BY <2>2, <3>2 DEF EdgeSet
    <3> QED
      BY <2>1, <3>3, Held
  <2>3. ASSUME NEW x \in Conflicts
        PROVE  \E o, p \in x : Type(o) = "UE" /\ Type(p) = "UE" /\ HolderOf(o) # HolderOf(p)
    <3>1. PICK o, p \in x : /\ o \in Observations /\ p \in Observations
                            /\ Type(o) = "UE" /\ Type(p) = "UE" /\ Value(o) # Value(p)
      BY ConflictNames
    <3>2. p \notin ExactGroup(o)
      BY <3>1 DEF ExactGroup
    <3>3. HolderOf(o) # HolderOf(p)
      BY <2>1, <3>1, <3>2, Held
    <3> QED
      BY <3>1, <3>3
  <2> QED
    BY <2>1, <2>2, <2>3 DEF BoundariesKept
<1> QED
  BY <1>1, Grouping, PTL

\* The state has its types: what the union-find and the nodes hold are
\* observations.
THEOREM GraphTyped == Spec => []TypeOK
<1>1. IInv => TypeOK
  <2> SUFFICES ASSUME IInv PROVE TypeOK
    OBVIOUS
  <2>1. \A n \in DOMAIN events : events[n] \in Event
    BY DEF IInv, Captured
  <2>2. \A i \in DOMAIN todo : {todo[i].left, todo[i].right} \subseteq Observations
    <3>1. CASE phase = "reading"
      BY <3>1 DEF IInv
    <3>2. CASE phase # "reading"
      <4>1. todo \in Seq(EdgeSet)
        BY <3>2 DEF IInv, Linked
      <4>2. \A i \in DOMAIN todo : todo[i] \in EdgeSet
        BY <4>1
      <4> QED
        BY <4>2 DEF EdgeSet
    <3> QED
      BY <3>1, <3>2
  <2>3. phase # "reading" => parent \in [Observations -> Observations]
    BY DEF IInv, Linked, Groups, Forest
  <2>4. \A i \in DOMAIN nodes : nodes[i].members \subseteq Observations
    <3>1. CASE ~ Published
      BY <3>1 DEF IInv, Published
    <3>2. CASE Published
      <4>1. PICK n \in Nat : \E s : Laid(s, n)
        BY <3>2, NodesLaid
      <4>2. PICK s : Laid(s, n)
        BY <4>1
      <4> QED
        BY <4>2 DEF Laid, NodeOf, Members
    <3> QED
      BY <3>1, <3>2
  <2> QED
    BY <2>1, <2>2, <2>3, <2>4 DEF TypeOK, IInv, Captured
<1> QED
  BY <1>1, Grouping, PTL
=============================================================================
