----------------------------- MODULE Lists_proofs -----------------------------
(***************************************************************************)
(* What the other proofs need to know of lists and finite sets.  Where a   *)
(* fact needs induction, it is drawn from the least number at which it     *)
(* would fail.                                                             *)
(***************************************************************************)
EXTENDS Lists, SequencesExt, FiniteSetTheorems, TLAPS

\* A set of naturals that is not empty has a least element.
LEMMA LeastNat ==
  ASSUME NEW T, T \subseteq Nat, T # {}
  PROVE  \E x \in T : \A y \in T : x <= y
<1>1. IsWellFoundedOn(OpToRel(<, Nat), Nat)
  BY NatLessThanWellFounded
<1>2. PICK x \in T : \A y \in T : <<y, x>> \notin OpToRel(<, Nat)
  BY <1>1, WFMin
<1>3. \A y \in T : ~ (y < x)
  BY <1>2 DEF OpToRel
<1> QED
  BY <1>3

\* A step that is always possible leads everywhere.
LEMMA Induction ==
  ASSUME NEW T, 0 \in T, \A n \in T \cap Nat : n + 1 \in T
  PROVE  Nat \subseteq T
<1> SUFFICES ASSUME Nat \ T # {} PROVE FALSE
  OBVIOUS
<1>1. PICK m \in Nat \ T : \A n \in Nat \ T : m <= n
  BY LeastNat
<1>2. m # 0 /\ m - 1 \in Nat
  OBVIOUS
<1>3. m - 1 \in T
  BY <1>1, <1>2
<1>4. (m - 1) + 1 \in T
  BY <1>2, <1>3
<1> QED
  BY <1>4

\* The image of a finite set is finite.
LEMMA ImageFinite ==
  ASSUME NEW S, IsFiniteSet(S), NEW f, f = [x \in S |-> f[x]]
  PROVE  IsFiniteSet(Range(f))
<1>1. DOMAIN f = S
  OBVIOUS
<1>2. f \in Surjection(S, Range(f))
  BY <1>1 DEF Surjection, Range
<1> QED
  BY <1>2, FS_Surjection

\* A finite set has an element where f is greatest.
THEOREM Maximum ==
  ASSUME NEW S, IsFiniteSet(S), S # {}, NEW f \in [S -> Int]
  PROVE  \E a \in S : \A b \in S : f[b] <= f[a]
<1> DEFINE Peak(X) == \E a \in X : \A b \in X : f[b] <= f[a]
           T == {n \in Nat : \A X \in SUBSET S : Cardinality(X) = n /\ X # {} => Peak(X)}
<1>1. 0 \in T
  <2> SUFFICES ASSUME NEW X \in SUBSET S, Cardinality(X) = 0, X # {} PROVE FALSE
    OBVIOUS
  <2> QED
    BY FS_EmptySet, FS_Subset
<1>2. ASSUME NEW n \in T PROVE n + 1 \in T
  <2> SUFFICES ASSUME NEW X \in SUBSET S, Cardinality(X) = n + 1, X # {} PROVE Peak(X)
    OBVIOUS
  <2>1. PICK x \in X : TRUE
    OBVIOUS
  <2>2. X \ {x} \in SUBSET S /\ Cardinality(X \ {x}) = n
    <3>1. IsFiniteSet(X)
      BY FS_Subset
    <3>2. Cardinality(X \ {x}) = Cardinality(X) - 1
      BY <3>1, FS_RemoveElement
    <3> QED
      BY <3>2
  <2>3. CASE X \ {x} = {}
    BY <2>1, <2>3
  <2>4. CASE X \ {x} # {}
    <3>1. PICK a \in X \ {x} : \A b \in X \ {x} : f[b] <= f[a]
      BY <2>2, <2>4
    <3>2. CASE f[x] <= f[a]
      BY <3>1, <3>2
    <3>3. CASE f[a] < f[x]
      BY <3>1, <3>3
    <3> QED
      BY <3>1, <3>2, <3>3
  <2> QED
    BY <2>3, <2>4
<1> HIDE DEF Peak, T
<1>3. Nat \subseteq T
  BY <1>1, <1>2, Induction
<1>4. Cardinality(S) \in Nat
  BY FS_CardinalityType
<1>5. S \in SUBSET S /\ Cardinality(S) \in T
  BY <1>3, <1>4
<1>6. Peak(S)
  BY <1>5 DEF T
<1> QED
  BY <1>6 DEF Peak

\* A finite set that R orders has a foremost element.
LEMMA Foremost ==
  ASSUME NEW S, IsFiniteSet(S), S # {}, NEW R,
         \A a, b \in S : a # b => <<a, b>> \in R \/ <<b, a>> \in R,
         \A a, b, c \in S : <<a, b>> \in R /\ <<b, c>> \in R => <<a, c>> \in R
  PROVE  \E a \in S : \A b \in S \ {a} : <<a, b>> \in R
<1> DEFINE First(X) == \E a \in X : \A b \in X \ {a} : <<a, b>> \in R
           T == {n \in Nat : \A X \in SUBSET S : Cardinality(X) = n /\ X # {} => First(X)}
<1>1. 0 \in T
  <2> SUFFICES ASSUME NEW X \in SUBSET S, Cardinality(X) = 0, X # {} PROVE FALSE
    OBVIOUS
  <2> QED
    BY FS_EmptySet, FS_Subset
<1>2. ASSUME NEW n \in T PROVE n + 1 \in T
  <2> SUFFICES ASSUME NEW X \in SUBSET S, Cardinality(X) = n + 1, X # {} PROVE First(X)
    OBVIOUS
  <2>1. PICK x \in X : TRUE
    OBVIOUS
  <2>2. X \ {x} \in SUBSET S /\ Cardinality(X \ {x}) = n
    <3>1. IsFiniteSet(X)
      BY FS_Subset
    <3>2. Cardinality(X \ {x}) = Cardinality(X) - 1
      BY <3>1, FS_RemoveElement
    <3> QED
      BY <3>2
  <2>3. CASE X \ {x} = {}
    BY <2>1, <2>3
  <2>4. CASE X \ {x} # {}
    <3>1. PICK a \in X \ {x} : \A b \in (X \ {x}) \ {a} : <<a, b>> \in R
      BY <2>2, <2>4
    <3>2. CASE <<a, x>> \in R
      <4>1. \A b \in X \ {a} : <<a, b>> \in R
        BY <3>1, <3>2
      <4> QED
        BY <4>1
    <3>3. CASE <<x, a>> \in R
      <4>1. \A b \in X \ {x} : <<x, b>> \in R
        BY <2>1, <3>1, <3>3
      <4> QED
        BY <2>1, <4>1
    <3> QED
      BY <2>1, <3>1, <3>2, <3>3
  <2> QED
    BY <2>3, <2>4
<1> HIDE DEF First
<1>3. Nat \subseteq T
  <2>1. \A n \in T \cap Nat : n + 1 \in T
    BY <1>2
  <2> HIDE DEF T
  <2> QED
    BY <1>1, <2>1, Induction
<1>4. Cardinality(S) \in Nat
  BY FS_CardinalityType
<1>5. First(S)
  BY <1>3, <1>4
<1> QED
  BY <1>5 DEF First

-----------------------------------------------------------------------------
(* Keep                                                                    *)

\* One step of the comprehension.
Kept(s, X, g, n) ==
  IF n = 0 THEN << >>
  ELSE IF s[n] \in X THEN Append(g[n - 1], s[n]) ELSE g[n - 1]

\* The recursive definition defines a function.
LEMMA KeepDefined ==
  ASSUME NEW s, NEW X, Len(s) \in Nat
  PROVE  \E g : /\ g = [n \in 0 .. Len(s) |-> Kept(s, X, g, n)]
                /\ Keep(s, X) = g[Len(s)]
<1> DEFINE Solves(g, m) == g = [n \in 0 .. m |-> Kept(s, X, g, n)]
           T == {m \in Nat : \E g : Solves(g, m)}
<1>1. 0 \in T
  <2> DEFINE g == [n \in 0 .. 0 |-> << >>]
  <2>1. Solves(g, 0)
    BY DEF Kept
  <2> QED
    BY <2>1
<1>2. ASSUME NEW m \in T PROVE m + 1 \in T
  <2>1. PICK g : Solves(g, m)
    OBVIOUS
  <2> DEFINE h == [n \in 0 .. (m + 1) |-> Kept(s, X, g, n)]
  <2>2. ASSUME NEW n \in 0 .. (m + 1), n # 0 PROVE g[n - 1] = h[n - 1]
    BY <2>1, <2>2
  <2>3. \A n \in 0 .. (m + 1) : Kept(s, X, g, n) = Kept(s, X, h, n)
    BY <2>2 DEF Kept
  <2>4. Solves(h, m + 1)
    BY <2>3
  <2> QED
    BY <2>4
<1> HIDE DEF T
<1>3. Nat \subseteq T
  BY <1>1, <1>2, Induction
<1>4. \E g : Solves(g, Len(s))
  BY <1>3 DEF T
<1> DEFINE k == CHOOSE g : Solves(g, Len(s))
<1>5. Solves(k, Len(s))
  BY <1>4
<1>6. Keep(s, X) = k[Len(s)]
  BY DEF Keep, Kept
<1> QED
  BY <1>5, <1>6

\* r holds the elements of the first n of s that are in X, in the order of s:
\* f says where each one comes from.
Selects(r, s, n, X, f) ==
  /\ f \in [DOMAIN r -> 1 .. n]
  /\ \A i \in DOMAIN r : r[i] = s[f[i]] /\ s[f[i]] \in X
  /\ \A i, j \in DOMAIN r : i < j => f[i] < f[j]
  /\ \A k \in 1 .. n : s[k] \in X => \E i \in DOMAIN r : f[i] = k

LEMMA OneMoreLeftOut ==
  ASSUME NEW s, NEW X, NEW n \in Nat, NEW r, NEW f, Selects(r, s, n, X, f), s[n + 1] \notin X
  PROVE  Selects(r, s, n + 1, X, f)
<1>1. f \in [DOMAIN r -> 1 .. (n + 1)]
  BY DEF Selects
<1>2. \A k \in 1 .. (n + 1) : s[k] \in X => k \in 1 .. n
  OBVIOUS
<1> QED
  BY <1>1, <1>2 DEF Selects

LEMMA OneMoreTaken ==
  ASSUME NEW S, NEW s, NEW X, NEW n \in Nat, NEW r \in Seq(S), NEW f,
         Selects(r, s, n, X, f), s[n + 1] \in X, s[n + 1] \in S
  PROVE  \E h : Selects(Append(r, s[n + 1]), s, n + 1, X, h)
<1> DEFINE q == Append(r, s[n + 1])
           m == Len(r) + 1
           h == [i \in 1 .. m |-> IF i = m THEN n + 1 ELSE f[i]]
<1>1. /\ DOMAIN q = 1 .. m /\ q[m] = s[n + 1] /\ m \in Nat \ {0}
      /\ DOMAIN r = 1 .. (m - 1) /\ \A i \in 1 .. (m - 1) : q[i] = r[i]
  OBVIOUS
<1> HIDE DEF q, m
<1>2. h \in [DOMAIN q -> 1 .. (n + 1)]
  BY <1>1 DEF Selects
<1>3. \A i \in DOMAIN q : q[i] = s[h[i]] /\ s[h[i]] \in X
  BY <1>1 DEF Selects
<1>4. \A i, j \in DOMAIN q : i < j => h[i] < h[j]
  BY <1>1 DEF Selects
<1>5. ASSUME NEW k \in 1 .. (n + 1), s[k] \in X PROVE \E i \in DOMAIN q : h[i] = k
  <2>1. CASE k = n + 1
    <3>1. m \in DOMAIN q /\ h[m] = k
      BY <1>1, <2>1
    <3> QED
      BY <3>1
  <2>2. CASE k # n + 1
    <3>1. PICK i \in DOMAIN r : f[i] = k
      BY <1>5, <2>2 DEF Selects
    <3>2. i \in DOMAIN q /\ h[i] = k
      BY <1>1, <3>1
    <3> QED
      BY <3>2
  <2> QED
    BY <2>1, <2>2
<1> HIDE DEF h
<1>6. Selects(q, s, n + 1, X, h)
  BY <1>2, <1>3, <1>4, <1>5 DEF Selects
<1> QED
  BY <1>6 DEF q

LEMMA KeepSelects ==
  ASSUME NEW S, NEW s \in Seq(S), NEW X
  PROVE  Keep(s, X) \in Seq(S) /\ \E f : Selects(Keep(s, X), s, Len(s), X, f)
<1>0. DOMAIN s = 1 .. Len(s) /\ Len(s) \in Nat
  OBVIOUS
<1>1. PICK g : /\ g = [n \in 0 .. Len(s) |-> Kept(s, X, g, n)]
               /\ Keep(s, X) = g[Len(s)]
  BY <1>0, KeepDefined
<1>2. \A n \in 0 .. Len(s) : g[n] = Kept(s, X, g, n)
  BY <1>1
<1> DEFINE Good(n) == g[n] \in Seq(S) /\ \E f : Selects(g[n], s, n, X, f)
           T == {n \in Nat : n <= Len(s) => Good(n)}
<1>3. Good(0)
  <2>1. g[0] = << >>
    BY <1>0, <1>2 DEF Kept
  <2>2. Selects(<< >>, s, 0, X, << >>)
    BY DEF Selects
  <2> QED
    BY <2>1, <2>2
<1>4. ASSUME NEW n \in Nat, n + 1 <= Len(s), Good(n) PROVE Good(n + 1)
  <2>1. PICK f : Selects(g[n], s, n, X, f)
    BY <1>4
  <2>2. g[n + 1] = IF s[n + 1] \in X THEN Append(g[n], s[n + 1]) ELSE g[n]
    <3>1. n + 1 \in 0 .. Len(s) /\ n + 1 # 0 /\ (n + 1) - 1 = n
      BY <1>0, <1>4
    <3>2. g[n + 1] = Kept(s, X, g, n + 1)
      BY <1>2, <3>1
    <3> QED
      BY <3>1, <3>2 DEF Kept
  <2>3. s[n + 1] \in S /\ g[n] \in Seq(S)
    BY <1>0, <1>4
  <2>4. CASE s[n + 1] \notin X
    <3>1. Selects(g[n + 1], s, n + 1, X, f)
      BY <2>1, <2>2, <2>4, OneMoreLeftOut
    <3> QED
      BY <2>2, <2>3, <2>4, <3>1
  <2>5. CASE s[n + 1] \in X
    <3>1. \E h : Selects(Append(g[n], s[n + 1]), s, n + 1, X, h)
      BY <2>1, <2>3, <2>5, OneMoreTaken
    <3>2. g[n + 1] = Append(g[n], s[n + 1])
      BY <2>2, <2>5
    <3> QED
      BY <2>3, <3>1, <3>2
  <2> QED
    BY <2>4, <2>5
<1> HIDE DEF Good
<1>5. \A n \in T \cap Nat : n + 1 \in T
  BY <1>0, <1>4
<1>6. 0 \in T
  BY <1>3
<1> HIDE DEF T
<1>7. Nat \subseteq T
  BY <1>5, <1>6, Induction
<1>8. Good(Len(s))
  BY <1>0, <1>7 DEF T
<1> QED
  BY <1>1, <1>8 DEF Good

\* The elements of Keep(s, X) are those of s that are in X, each as often.
THEOREM KeepElements ==
  ASSUME NEW S, NEW s \in Seq(S), NEW X
  PROVE  /\ ToSet(Keep(s, X)) = ToSet(s) \cap X
         /\ IsInjective(s) => IsInjective(Keep(s, X))
<1> DEFINE r == Keep(s, X)
<1>0. DOMAIN s = 1 .. Len(s)
  OBVIOUS
<1>1. r \in Seq(S) /\ \E f : Selects(r, s, Len(s), X, f)
  BY KeepSelects
<1> HIDE DEF r
<1>2. PICK f : Selects(r, s, Len(s), X, f)
  BY <1>1
<1>3. ToSet(r) = ToSet(s) \cap X
  BY <1>0, <1>2 DEF ToSet, Selects
<1>4. ASSUME IsInjective(s), NEW i \in DOMAIN r, NEW j \in DOMAIN r, r[i] = r[j]
      PROVE  i = j
  <2>1. f[i] = f[j]
    BY <1>0, <1>2, <1>4 DEF IsInjective, Selects
  <2>2. DOMAIN r = 1 .. Len(r) /\ Len(r) \in Nat /\ Len(s) \in Nat
    BY <1>1
  <2>3. f[i] \in 1 .. Len(s) /\ ~ (f[i] < f[j]) /\ ~ (f[j] < f[i])
    BY <1>2, <2>1, <2>2 DEF Selects
  <2>4. ~ (i < j) /\ ~ (j < i)
    BY <1>2, <2>3 DEF Selects
  <2> QED
    BY <2>2, <2>4
<1> QED
  BY <1>3, <1>4 DEF r, IsInjective

-----------------------------------------------------------------------------
(* One more element, and one list after another.                           *)

LEMMA AppendElements ==
  ASSUME NEW S, NEW s \in Seq(S), NEW x
  PROVE  /\ ToSet(Append(s, x)) = ToSet(s) \cup {x}
         /\ IsInjective(s) /\ x \notin ToSet(s) => IsInjective(Append(s, x))
<1> DEFINE t == Append(s, x)
           m == Len(s) + 1
<1>1. /\ m \in Nat \ {0} /\ DOMAIN t = 1 .. m /\ t[m] = x
      /\ DOMAIN s = 1 .. (m - 1) /\ \A i \in 1 .. (m - 1) : t[i] = s[i]
  OBVIOUS
<1> HIDE DEF t, m
<1>2. ToSet(t) \subseteq ToSet(s) \cup {x}
  BY <1>1 DEF ToSet
<1>3. x \in ToSet(t)
  <2>1. m \in DOMAIN t /\ t[m] = x
    BY <1>1
  <2> QED
    BY <2>1 DEF ToSet
<1>4. ASSUME NEW y \in ToSet(s) PROVE y \in ToSet(t)
  <2>1. PICK i \in DOMAIN s : s[i] = y
    BY DEF ToSet
  <2>2. i \in DOMAIN t /\ t[i] = y
    BY <1>1, <2>1
  <2> QED
    BY <2>2 DEF ToSet
<1>5. ASSUME IsInjective(s), x \notin ToSet(s), NEW i \in DOMAIN t, NEW j \in DOMAIN t, t[i] = t[j]
      PROVE  i = j
  <2>1. CASE i = m /\ j # m
    <3>1. j \in DOMAIN s /\ s[j] = x
      BY <1>1, <1>5, <2>1
    <3> QED
      BY <1>5, <3>1 DEF ToSet
  <2>2. CASE j = m /\ i # m
    <3>1. i \in DOMAIN s /\ s[i] = x
      BY <1>1, <1>5, <2>2
    <3> QED
      BY <1>5, <3>1 DEF ToSet
  <2>3. CASE i # m /\ j # m
    <3>1. i \in DOMAIN s /\ j \in DOMAIN s /\ s[i] = s[j]
      BY <1>1, <1>5, <2>3
    <3> QED
      BY <1>5, <3>1 DEF IsInjective
  <2> QED
    BY <2>1, <2>2, <2>3
<1> QED
  BY <1>2, <1>3, <1>4, <1>5 DEF t, IsInjective

LEMMA ConcatElements ==
  ASSUME NEW S, NEW s \in Seq(S), NEW t \in Seq(S)
  PROVE  /\ ToSet(s \o t) = ToSet(s) \cup ToSet(t)
         /\ IsInjective(s) /\ IsInjective(t) /\ ToSet(s) \cap ToSet(t) = {}
              => IsInjective(s \o t)
<1> DEFINE u == s \o t
           m == Len(s)
           n == Len(t)
<1>1. /\ m \in Nat /\ n \in Nat
      /\ DOMAIN s = 1 .. m /\ DOMAIN t = 1 .. n /\ DOMAIN u = 1 .. (m + n)
      /\ \A i \in 1 .. m : u[i] = s[i]
      /\ \A i \in 1 .. n : u[m + i] = t[i]
  OBVIOUS
<1> HIDE DEF u, m, n
<1>2. ASSUME NEW i \in DOMAIN u, i \notin DOMAIN s
      PROVE  i - m \in DOMAIN t /\ t[i - m] = u[i]
  <2>1. i - m \in 1 .. n /\ m + (i - m) = i
    BY <1>1, <1>2
  <2> QED
    BY <1>1, <2>1
<1>3. \A i \in DOMAIN s : i \in DOMAIN u /\ u[i] = s[i]
  BY <1>1
<1>4. \A i \in DOMAIN t : m + i \in DOMAIN u /\ u[m + i] = t[i]
  BY <1>1
<1>5. ToSet(u) \subseteq ToSet(s) \cup ToSet(t)
  BY <1>2, <1>3 DEF ToSet
<1>6. ToSet(s) \subseteq ToSet(u)
  BY <1>3 DEF ToSet
<1>7. ToSet(t) \subseteq ToSet(u)
  BY <1>4 DEF ToSet
<1>8. ASSUME IsInjective(s), IsInjective(t), ToSet(s) \cap ToSet(t) = {},
             NEW i \in DOMAIN u, NEW j \in DOMAIN u, u[i] = u[j]
      PROVE  i = j
  <2>1. CASE i \in DOMAIN s /\ j \in DOMAIN s
    BY <1>3, <1>8, <2>1 DEF IsInjective
  <2>2. CASE i \notin DOMAIN s /\ j \notin DOMAIN s
    <3>1. i - m = j - m
      BY <1>2, <1>8, <2>2 DEF IsInjective
    <3> QED
      BY <1>1, <3>1
  <2>3. ASSUME NEW k \in DOMAIN s, NEW l \in DOMAIN u, l \notin DOMAIN s, u[k] = u[l] PROVE FALSE
    <3>1. s[k] \in ToSet(s) /\ t[l - m] \in ToSet(t) /\ s[k] = t[l - m]
      BY <1>2, <1>3, <2>3 DEF ToSet
    <3> QED
      BY <1>8, <3>1
  <2> QED
    BY <1>8, <2>1, <2>2, <2>3
<1> QED
  BY <1>5, <1>6, <1>7, <1>8 DEF u, IsInjective

\* The elements of a list are finitely many.
LEMMA ElementsFinite ==
  ASSUME NEW S, NEW s \in Seq(S)
  PROVE  /\ IsFiniteSet(ToSet(s))
         /\ ToSet(s) \subseteq S
         /\ \A i \in 1 .. Len(s) : s[i] \in ToSet(s)
         /\ s # << >> => Len(s) > 0 /\ ToSet(s) # {}
<1>1. DOMAIN s = 1 .. Len(s) /\ Len(s) \in Nat
  OBVIOUS
<1>2. IsFiniteSet(1 .. Len(s))
  BY <1>1, FS_Interval
<1>3. s \in Surjection(1 .. Len(s), ToSet(s))
  BY <1>1 DEF Surjection, ToSet
<1>4. IsFiniteSet(ToSet(s))
  BY <1>2, <1>3, FS_Surjection
<1>5. ToSet(s) \subseteq S
  BY <1>1 DEF ToSet
<1>6. s # << >> => Len(s) > 0 /\ s[1] \in ToSet(s)
  BY <1>1 DEF ToSet
<1>7. \A i \in 1 .. Len(s) : s[i] \in ToSet(s)
  BY <1>1 DEF ToSet
<1> QED
  BY <1>4, <1>5, <1>6, <1>7

-----------------------------------------------------------------------------
(* Lists put together.                                                     *)

\* One step of FlattenSeq.
Flat(s, g, i) == IF i = 1 THEN s[i] ELSE g[i - 1] \o s[i]

LEMMA FlatDefined ==
  ASSUME NEW s, NEW m \in Nat
  PROVE  \E g : g = [i \in 1 .. m |-> Flat(s, g, i)]
<1> DEFINE Solves(g, n) == g = [i \in 1 .. n |-> Flat(s, g, i)]
           T == {n \in Nat : \E g : Solves(g, n)}
<1>1. 0 \in T
  <2>1. Solves([i \in 1 .. 0 |-> s], 0)
    OBVIOUS
  <2> QED
    BY <2>1
<1>2. ASSUME NEW n \in T PROVE n + 1 \in T
  <2>1. PICK g : Solves(g, n)
    OBVIOUS
  <2> DEFINE h == [i \in 1 .. (n + 1) |-> Flat(s, g, i)]
  <2>2. ASSUME NEW i \in 1 .. (n + 1), i # 1 PROVE g[i - 1] = h[i - 1]
    <3>1. i - 1 \in 1 .. n /\ i - 1 \in 1 .. (n + 1)
      BY <2>2
    <3> QED
      BY <2>1, <3>1
  <2>3. \A i \in 1 .. (n + 1) : Flat(s, g, i) = Flat(s, h, i)
    BY <2>2 DEF Flat
  <2>4. Solves(h, n + 1)
    BY <2>3
  <2>5. \E x : Solves(x, n + 1)
    BY <2>4
  <2> QED
    BY <2>5
<1> HIDE DEF T
<1>3. Nat \subseteq T
  BY <1>1, <1>2, Induction
<1>4. \E g : Solves(g, m)
  BY <1>3 DEF T
<1> QED
  BY <1>4

\* Finitely many lists make one list, which holds what each of them holds.
LEMMA Flattened ==
  ASSUME NEW S, NEW m \in Nat, NEW s \in [1 .. m -> Seq(S)]
  PROVE  /\ FlattenSeq(s) \in Seq(S)
         /\ \A i \in 1 .. m : ToSet(s[i]) \subseteq ToSet(FlattenSeq(s))
<1>0. Len(s) = m /\ (m = 0 => s = << >>)
  OBVIOUS
<1> DEFINE Solves(g) == g = [i \in 1 .. m |-> Flat(s, g, i)]
           k == CHOOSE g : Solves(g)
<1>1. \E g : Solves(g)
  BY FlatDefined
<1>2. Solves(k)
  BY <1>1
<1>3. m # 0 => FlattenSeq(s) = k[m]
  BY <1>0 DEF FlattenSeq, Flat
<1>4. m = 0 => FlattenSeq(s) = << >>
  BY <1>0 DEF FlattenSeq
<1> HIDE DEF k
<1> DEFINE Holds(n) == \A j \in 1 .. n : ToSet(s[j]) \subseteq ToSet(k[n])
           T == {n \in Nat : n + 1 <= m => k[n + 1] \in Seq(S) /\ Holds(n + 1)}
<1>5. 0 \in T
  <2> SUFFICES ASSUME 1 <= m PROVE k[1] \in Seq(S) /\ Holds(1)
    OBVIOUS
  <2>1. k[1] = s[1] /\ s[1] \in Seq(S)
    BY <1>2 DEF Flat
  <2> QED
    BY <2>1
<1>6. ASSUME NEW n \in T PROVE n + 1 \in T
  <2> DEFINE i == (n + 1) + 1
  <2> SUFFICES ASSUME i <= m PROVE k[i] \in Seq(S) /\ Holds(i)
    OBVIOUS
  <2>1. i \in 1 .. m /\ i # 1 /\ i - 1 = n + 1 /\ n + 1 <= m
    OBVIOUS
  <2>2. k[i] = k[n + 1] \o s[i]
    BY <1>2, <2>1 DEF Flat
  <2>3. s[i] \in Seq(S) /\ k[n + 1] \in Seq(S) /\ Holds(n + 1)
    BY <2>1
  <2> HIDE DEF i
  <2>4. ToSet(k[i]) = ToSet(k[n + 1]) \cup ToSet(s[i])
    BY <2>2, <2>3, ConcatElements
  <2>5. \A j \in 1 .. i : j = i \/ j \in 1 .. (n + 1)
    BY <2>1
  <2>6. Holds(i)
    BY <2>3, <2>4, <2>5
  <2> QED
    BY <2>2, <2>3, <2>6
<1> HIDE DEF T
<1>7. Nat \subseteq T
  BY <1>5, <1>6, Induction
<1>8. ASSUME m # 0 PROVE k[m] \in Seq(S) /\ Holds(m)
  <2>1. m - 1 \in Nat /\ (m - 1) + 1 = m
    BY <1>8
  <2>2. m - 1 \in T
    BY <1>7, <2>1
  <2> QED
    BY <2>1, <2>2 DEF T
<1> QED
  BY <1>3, <1>4, <1>8

\* The elements of a finite set can be listed.
LEMMA Enumerated ==
  ASSUME NEW S, IsFiniteSet(S)
  PROVE  SetToSeq(S) \in Seq(S)
<1>1. Cardinality(S) \in Nat /\ ExistsBijection(1 .. Cardinality(S), S)
  BY FS_CardinalityType
<1>2. PICK n : n = Cardinality(S)
  OBVIOUS
<1>3. \E f \in [1 .. n -> S] : IsInjective(f)
  BY <1>1, <1>2 DEF ExistsBijection, Bijection, Injection, IsInjective
<1>4. SetToSeq(S) \in [1 .. n -> S]
  BY <1>2, <1>3 DEF SetToSeq
<1> QED
  BY <1>1, <1>2, <1>4
=============================================================================
