------------------------------- MODULE Basics -------------------------------
(***************************************************************************)
(* Facts about numbers and sequences which the proofs of several modules   *)
(* rest on.  Induction is stated with sets rather than with predicates: it *)
(* is what the loops of the code need, which the specifications describe   *)
(* as recursive functions.                                                 *)
(***************************************************************************)
EXTENDS Integers, Sequences, SequenceTheorems, FunctionTheorems, FiniteSetTheorems,
        WellFoundedInduction, TLAPS

-----------------------------------------------------------------------------
(* Induction *)

\* Every non-empty set of natural numbers has a least element: the intervals
\* below its elements have a minimal one by inclusion.
LEMMA LeastNatural ==
  ASSUME NEW S, S \subseteq Nat, S # {}
  PROVE  \E n \in S : \A m \in S : n <= m
<1> DEFINE Below == {0 .. n - 1 : n \in S}
<1>1. Below \subseteq FiniteSubsetsOf(Nat)
  <2>1. \A n \in S : IsFiniteSet(0 .. n - 1) /\ 0 .. n - 1 \subseteq Nat
    BY FS_Interval
  <2> QED BY <2>1 DEF FiniteSubsetsOf
<1>2. Below # {} OBVIOUS
<1>3. PICK X \in Below : \A Y \in Below : <<Y, X>> \notin StrictSubsetOrdering(Nat)
  <2>1. IsWellFoundedOn(StrictSubsetOrdering(Nat), FiniteSubsetsOf(Nat))
    BY FS_StrictSubsetOrderingWellFounded
  <2> HIDE DEF Below
  <2> QED BY <1>1, <1>2, <2>1, WFMin
<1>4. PICK n \in S : X = 0 .. n - 1 OBVIOUS
<1>5. ASSUME NEW m \in S, m < n PROVE FALSE
  <2>1. 0 .. m - 1 \subseteq X /\ 0 .. m - 1 # X
    <3>1. m \in X BY <1>4, <1>5
    <3>2. m \notin 0 .. m - 1 OBVIOUS
    <3> QED BY <1>4, <1>5, <3>1, <3>2
  <2>2. 0 .. m - 1 \in SUBSET Nat /\ X \in SUBSET Nat BY <1>4
  <2>3. <<0 .. m - 1, X>> \in StrictSubsetOrdering(Nat)
    BY <2>1, <2>2 DEF StrictSubsetOrdering
  <2> QED BY <1>3, <2>3
<1> QED BY <1>5

\* A bounded one has a greatest element.
LEMMA GreatestNatural ==
  ASSUME NEW S, S \subseteq Nat, S # {}, NEW b \in Nat, \A n \in S : n <= b
  PROVE  \E n \in S : \A m \in S : m <= n
<1> DEFINE Bounds == {n \in Nat : \A m \in S : m <= n}
<1>1. Bounds \subseteq Nat /\ Bounds # {} OBVIOUS
<1>2. PICK n \in Bounds : \A m \in Bounds : n <= m
  <2> HIDE DEF Bounds
  <2> QED BY <1>1, LeastNatural
<1>3. CASE n \in S BY <1>3
<1>4. CASE n \notin S
  <2>1. n \in Nat /\ \A m \in S : m \in Nat /\ m <= n /\ m # n BY <1>4
  <2>2. n - 1 \in Nat /\ \A m \in S : m <= n - 1
    <3>1. PICK m \in S : TRUE OBVIOUS
    <3> QED BY <2>1, <3>1
  <2>3. n - 1 \in Bounds BY <2>2
  <2> HIDE DEF Bounds
  <2> QED BY <1>2, <2>1, <2>3
<1> QED BY <1>3, <1>4

\* A set with 0 and the successors of its elements has every natural number.
LEMMA Induct ==
  ASSUME NEW S, 0 \in S, \A n \in Nat : n \in S => n + 1 \in S
  PROVE  \A n \in Nat : n \in S
<1> SUFFICES ASSUME NEW k \in Nat, k \notin S PROVE FALSE OBVIOUS
<1>1. PICK n \in Nat \ S : \A m \in Nat \ S : n <= m BY LeastNatural
<1>2. n # 0 /\ n - 1 \in Nat OBVIOUS
<1>3. n - 1 \in S BY <1>1, <1>2
<1> QED BY <1>2, <1>3

\* The same up to a bound.
LEMMA InductTo ==
  ASSUME NEW b \in Nat, NEW S, 0 \in S, \A n \in 0 .. b - 1 : n \in S => n + 1 \in S
  PROVE  \A n \in 0 .. b : n \in S
<1> DEFINE T == {n \in Nat : n <= b => n \in S}
<1>1. 0 \in T OBVIOUS
<1>2. \A n \in Nat : n \in T => n + 1 \in T OBVIOUS
<1>3. \A n \in Nat : n \in T
  <2> HIDE DEF T
  <2> QED BY <1>1, <1>2, Induct
<1> QED BY <1>3

-----------------------------------------------------------------------------
(* Recursion: what is defined by repeating a function exists *)

\* f repeats G from v, which loops of the models do.
Repeats(f, V, v, G) ==
  f \in [Nat -> V] /\ f = [n \in Nat |-> IF n = 0 THEN v ELSE G[f[n - 1]]]

\* For every G there is one.
LEMMA Iterated ==
  ASSUME NEW V, NEW v \in V, NEW G \in [V -> V]
  PROVE  \E f : Repeats(f, V, v, G)
<1> DEFINE Upto(g, n) == /\ g \in [0 .. n -> V] /\ g[0] = v
                         /\ \A m \in 0 .. n - 1 : g[m + 1] = G[g[m]]
           S == {n \in Nat : \E g : Upto(g, n)}
<1>1. 0 \in S
  <2>1. Upto([m \in 0 .. 0 |-> v], 0) OBVIOUS
  <2> HIDE DEF Upto
  <2> QED BY <2>1
<1>2. ASSUME NEW n \in Nat, n \in S PROVE n + 1 \in S
  <2>1. PICK g : Upto(g, n)
    <3> HIDE DEF Upto
    <3> QED BY <1>2
  <2>2. PICK x \in V : x = G[g[n]] BY <2>1
  <2>3. PICK h : h = [m \in 0 .. n + 1 |-> IF m = n + 1 THEN x ELSE g[m]] OBVIOUS
  <2>4. \A m \in 0 .. n : h[m] = g[m] /\ h[m] \in V BY <2>1, <2>3
  <2>5. h[n + 1] = x BY <2>3
  <2>6. h \in [0 .. n + 1 -> V]
    <3>1. \A m \in 0 .. n + 1 : m = n + 1 \/ m \in 0 .. n OBVIOUS
    <3>2. \A m \in 0 .. n + 1 : h[m] \in V BY <3>1, <2>2, <2>4, <2>5
    <3> QED BY <3>2, <2>3
  <2>7. ASSUME NEW m \in 0 .. (n + 1) - 1 PROVE h[m + 1] = G[h[m]]
    <3>1. CASE m = n BY <3>1, <2>2, <2>4, <2>5
    <3>2. CASE m \in 0 .. n - 1
      <4>1. g[m + 1] = G[g[m]] BY <3>2, <2>1
      <4>2. m \in 0 .. n /\ m + 1 \in 0 .. n BY <3>2
      <4> QED BY <4>1, <4>2, <2>4
    <3> QED BY <3>1, <3>2
  <2>8. h[0] = v BY <2>1, <2>4
  <2>9. Upto(h, n + 1) BY <2>6, <2>7, <2>8
  <2> HIDE DEF Upto
  <2> QED BY <2>9
<1>3. ASSUME NEW n \in Nat PROVE \E g : Upto(g, n)
  <2>1. n \in S
    <3> HIDE DEF S
    <3> QED BY <1>1, <1>2, Induct
  <2> HIDE DEF Upto
  <2> QED BY <2>1
<1>4. ASSUME NEW n \in Nat, NEW k \in Nat, k >= n, NEW g, NEW h, Upto(g, n), Upto(h, k)
      PROVE  \A m \in 0 .. n : g[m] = h[m]
  <2> DEFINE T == {m \in 0 .. n : g[m] = h[m]}
  <2>1. 0 \in T BY <1>4
  <2>2. ASSUME NEW m \in 0 .. n - 1, m \in T PROVE m + 1 \in T
    <3>1. g[m + 1] = G[g[m]] BY <1>4
    <3>2. h[m + 1] = G[h[m]]
      <4>1. m \in 0 .. k - 1 BY <1>4
      <4> QED BY <4>1, <1>4
    <3> QED BY <3>1, <3>2, <2>2
  <2>3. \A m \in 0 .. n : m \in T
    <3> HIDE DEF T
    <3> QED BY <2>1, <2>2, InductTo
  <2> QED BY <2>3
<1> DEFINE At(n) == CHOOSE g : Upto(g, n)
<1>5. ASSUME NEW n \in Nat PROVE Upto(At(n), n)
  <2> HIDE DEF Upto
  <2> QED BY <1>3
<1> HIDE DEF At
<1>6. PICK f : f = [n \in Nat |-> At(n)[n]] OBVIOUS
<1>7. f[0] = v /\ \A n \in Nat : f[n] \in V BY <1>5, <1>6
<1>8. ASSUME NEW n \in Nat PROVE f[n + 1] = G[f[n]]
  <2>1. PICK o \in Nat : o = n + 1 OBVIOUS
  <2>2. PICK g : g = At(n) OBVIOUS
  <2>3. PICK h : h = At(o) OBVIOUS
  <2>4. Upto(g, n) /\ Upto(h, o) BY <1>5, <2>1, <2>2, <2>3
  <2>5. \A m \in 0 .. n : g[m] = h[m]
    <3> HIDE DEF Upto
    <3> QED BY <1>4, <2>1, <2>4
  <2>6. h[n + 1] = G[h[n]]
    <3>1. \A m \in 0 .. o - 1 : h[m + 1] = G[h[m]] BY <2>4
    <3>2. n \in 0 .. o - 1 BY <2>1
    <3> QED BY <3>1, <3>2
  <2>7. g[n] = h[n] BY <2>5
  <2> QED BY <1>6, <2>1, <2>2, <2>3, <2>6, <2>7
<1>9. ASSUME NEW n \in Nat PROVE f[n] = IF n = 0 THEN v ELSE G[f[n - 1]]
  <2>1. CASE n = 0 BY <2>1, <1>7
  <2>2. CASE n # 0
    <3>1. n - 1 \in Nat /\ (n - 1) + 1 = n BY <2>2
    <3> QED BY <3>1, <2>2, <1>8
  <2> QED BY <2>1, <2>2
<1>10. f = [n \in Nat |-> IF n = 0 THEN v ELSE G[f[n - 1]]] BY <1>6, <1>9
<1>11. f \in [Nat -> V] BY <1>6, <1>7
<1>12. Repeats(f, V, v, G) BY <1>10, <1>11 DEF Repeats
<1> QED BY <1>12

-----------------------------------------------------------------------------
(* Sequences, of whatever elements *)

IsSeq(s) == \E S : s \in Seq(S)

LEMMA SeqParts ==
  ASSUME NEW s, IsSeq(s)
  PROVE  Len(s) \in Nat /\ DOMAIN s = 1 .. Len(s)
BY DEF IsSeq

LEMMA SeqIsSeq ==
  ASSUME NEW S, NEW s \in Seq(S)
  PROVE  IsSeq(s)
BY DEF IsSeq

LEMMA EmptyParts == IsSeq(<<>>) /\ Len(<<>>) = 0
<1>1. <<>> \in Seq({}) OBVIOUS
<1> QED BY <1>1 DEF IsSeq

LEMMA PairParts ==
  ASSUME NEW a, NEW b
  PROVE  IsSeq(<<a, b>>) /\ Len(<<a, b>>) = 2 /\ <<a, b>>[1] = a /\ <<a, b>>[2] = b
<1>1. <<a, b>> \in Seq({a, b}) OBVIOUS
<1> QED BY <1>1 DEF IsSeq

LEMMA AppendParts ==
  ASSUME NEW s, IsSeq(s), NEW x
  PROVE  /\ IsSeq(Append(s, x)) /\ Len(Append(s, x)) = Len(s) + 1
         /\ \A i \in 1 .. Len(s) : Append(s, x)[i] = s[i]
         /\ Append(s, x)[Len(s) + 1] = x
<1>1. PICK S : s \in Seq(S) BY DEF IsSeq
<1> DEFINE T == S \cup {x}
<1>2. s \in Seq(T) /\ x \in T
  <2>1. S \subseteq T OBVIOUS
  <2> HIDE DEF T
  <2>2. s \in Seq(T) BY <1>1, <2>1, SeqMonotonic
  <2> QED BY <2>2 DEF T
<1> HIDE DEF T
<1> QED BY <1>2, AppendProperties DEF IsSeq

LEMMA ConcatParts ==
  ASSUME NEW s, IsSeq(s), NEW t, IsSeq(t)
  PROVE  /\ IsSeq(s \o t) /\ Len(s \o t) = Len(s) + Len(t)
         /\ \A i \in 1 .. Len(s) : (s \o t)[i] = s[i]
         /\ \A i \in 1 .. Len(t) : (s \o t)[Len(s) + i] = t[i]
<1>1. PICK S : s \in Seq(S) BY DEF IsSeq
<1>2. PICK R : t \in Seq(R) BY DEF IsSeq
<1> DEFINE T == S \cup R
<1>3. s \in Seq(T) /\ t \in Seq(T)
  <2>1. S \subseteq T /\ R \subseteq T OBVIOUS
  <2> HIDE DEF T
  <2> QED BY <1>1, <1>2, <2>1, SeqMonotonic
<1> HIDE DEF T
<1> QED BY <1>3, ConcatProperties DEF IsSeq

LEMMA PrefixParts ==
  ASSUME NEW s, IsSeq(s), NEW n \in 0 .. Len(s)
  PROVE  /\ IsSeq(SubSeq(s, 1, n)) /\ Len(SubSeq(s, 1, n)) = n
         /\ \A i \in 1 .. n : SubSeq(s, 1, n)[i] = s[i]
<1>1. PICK S : s \in Seq(S) BY DEF IsSeq
<1> QED BY <1>1 DEF IsSeq

LEMMA FunctionIsSeq ==
  ASSUME NEW n \in Nat, NEW s, s = [i \in 1 .. n |-> s[i]]
  PROVE  IsSeq(s) /\ Len(s) = n
<1> DEFINE S == {s[i] : i \in 1 .. n}
<1>1. s \in [1 .. n -> S] OBVIOUS
<1>2. s \in Seq(S)
  <2> HIDE DEF S
  <2> QED BY <1>1
<1> HIDE DEF S
<1>3. Len(s) = n BY <1>1, <1>2
<1> QED BY <1>2, <1>3 DEF IsSeq

LEMMA SameSeq ==
  ASSUME NEW s, IsSeq(s), NEW t, IsSeq(t), Len(s) = Len(t),
         \A i \in 1 .. Len(s) : s[i] = t[i]
  PROVE  s = t
<1>1. PICK S : s \in Seq(S) BY DEF IsSeq
<1>2. PICK R : t \in Seq(R) BY DEF IsSeq
<1> QED BY <1>1, <1>2

-----------------------------------------------------------------------------
(* Division, as products *)

LEMMA Euclid ==
  ASSUME NEW a \in Nat, NEW b \in Nat, b >= 1
  PROVE  \E q, r \in Nat : q = a \div b /\ r = a % b /\ a = b * q + r /\ r < b
<1>1. a \div b \in Nat /\ a % b \in Nat /\ a % b < b OBVIOUS
<1>2. PICK q \in Nat, r \in Nat : q = a \div b /\ r = a % b BY <1>1
<1>3. a = b * q + r BY <1>2
<1> QED BY <1>1, <1>2, <1>3

LEMMA NoSmallMultiple ==
  ASSUME NEW p \in Nat, NEW a \in Int, 0 < a, a < p, NEW r \in Int, a = p * r
  PROVE  FALSE
<1>1. CASE r <= 0
  <2>1. p * r <= 0 BY <1>1
  <2> QED BY <2>1
<1>2. CASE r >= 1
  <2>1. p * r >= p BY <1>2
  <2> QED BY <2>1
<1> QED BY <1>1, <1>2

LEMMA Remainder ==
  ASSUME NEW b \in Nat, NEW q \in Nat, NEW r \in Nat, r < b, NEW a \in Nat, a = b * q + r
  PROVE  a % b = r
<1>1. b >= 1 OBVIOUS
<1>2. PICK x \in Nat, y \in Nat : y = a % b /\ a = b * x + y /\ y < b BY <1>1, Euclid
<1>3. ~(y < r)
  <2>1. SUFFICES ASSUME y < r PROVE FALSE OBVIOUS
  <2>2. r - y = b * (x - q) BY <1>2
  <2>3. r - y \in Int /\ x - q \in Int /\ 0 < r - y /\ r - y < b BY <2>1
  <2> QED BY <2>2, <2>3, NoSmallMultiple
<1>4. ~(r < y)
  <2>1. SUFFICES ASSUME r < y PROVE FALSE OBVIOUS
  <2>2. y - r = b * (q - x) BY <1>2
  <2>3. y - r \in Int /\ q - x \in Int /\ 0 < y - r /\ y - r < b BY <1>2, <2>1
  <2> QED BY <2>2, <2>3, NoSmallMultiple
<1> QED BY <1>2, <1>3, <1>4

-----------------------------------------------------------------------------
(* Powers of two: as the numbers of subsets, which the library counts. *)

LEMMA PowerZero == 2 ^ 0 = 1
OBVIOUS

LEMMA PowerIsCount ==
  ASSUME NEW n \in Nat
  PROVE  IsFiniteSet(SUBSET (1 .. n)) /\ Cardinality(SUBSET (1 .. n)) = 2 ^ n
<1>1. IsFiniteSet(1 .. n) /\ Cardinality(1 .. n) = n
  <2>1. 1 \in Int /\ n \in Int OBVIOUS
  <2>2. IsFiniteSet(1 .. n) /\ Cardinality(1 .. n) = IF 1 > n THEN 0 ELSE n - 1 + 1
    BY <2>1, FS_Interval
  <2> QED BY <2>2
<1> QED BY <1>1, FS_SUBSET

LEMMA PowerNext ==
  ASSUME NEW n \in Nat
  PROVE  2 ^ n \in Nat /\ 2 ^ (n + 1) = 2 * 2 ^ n
<1> DEFINE A == SUBSET (1 .. n)
           B == {S \cup {n + 1} : S \in A}
           f == [S \in A |-> S \cup {n + 1}]
<1>1. IsFiniteSet(A) /\ Cardinality(A) = 2 ^ n BY PowerIsCount
<1>2. Cardinality(A) \in Nat BY <1>1, FS_CardinalityType
<1>3. IsFiniteSet(B) /\ Cardinality(B) = Cardinality(A)
  <2>1. f \in [A -> B] OBVIOUS
  <2>2. ASSUME NEW S \in A, NEW T \in A, f[S] = f[T] PROVE S = T
    <3>1. n + 1 \notin S /\ n + 1 \notin T OBVIOUS
    <3>2. S \cup {n + 1} = T \cup {n + 1} BY <2>2
    <3> QED BY <3>1, <3>2
  <2>3. \A T \in B : \E S \in A : f[S] = T OBVIOUS
  <2> HIDE DEF A, B, f
  <2>4. f \in Bijection(A, B) BY <2>1, <2>2, <2>3, Fun_IsBij
  <2>5. ExistsBijection(A, B) BY <2>4 DEF ExistsBijection
  <2> QED BY <1>1, <2>5, FS_Bijection
<1>4. A \cap B = {}
  <2>1. \A S \in A : n + 1 \notin S OBVIOUS
  <2>2. \A S \in B : n + 1 \in S OBVIOUS
  <2> HIDE DEF A, B
  <2> QED BY <2>1, <2>2
<1>5. SUBSET (1 .. n + 1) = A \cup B
  <2>1. ASSUME NEW S \in SUBSET (1 .. n + 1) PROVE S \in A \cup B
    <3>1. CASE n + 1 \in S
      <4>1. S \ {n + 1} \in A BY DEF A
      <4>2. S = (S \ {n + 1}) \cup {n + 1} BY <3>1
      <4> QED BY <4>1, <4>2
    <3>2. CASE n + 1 \notin S
      <4>1. \A x \in S : x \in 1 .. n + 1 /\ x # n + 1 BY <3>2
      <4>2. \A x \in S : x \in 1 .. n BY <4>1
      <4> QED BY <4>2
    <3> QED BY <3>1, <3>2
  <2>2. 1 .. n \subseteq 1 .. n + 1 /\ n + 1 \in 1 .. n + 1 OBVIOUS
  <2>3. A \subseteq SUBSET (1 .. n + 1) /\ B \subseteq SUBSET (1 .. n + 1)
    <3> QED BY <2>2
  <2> HIDE DEF A, B
  <2> QED BY <2>1, <2>3
<1> HIDE DEF A, B
<1>6. Cardinality(A \cup B) = Cardinality(A) + Cardinality(B) - 0
  <2>1. Cardinality(A \cap B) = 0 BY <1>4, FS_EmptySet
  <2> QED BY <1>1, <1>3, <2>1, FS_Union
<1>7. n + 1 \in Nat OBVIOUS
<1>8. Cardinality(A \cup B) = 2 ^ (n + 1) BY <1>5, <1>7, PowerIsCount
<1>9. PICK p \in Nat : p = 2 ^ n BY <1>1, <1>2
<1>10. 2 ^ (n + 1) = p + p BY <1>1, <1>3, <1>6, <1>8, <1>9
<1> QED BY <1>9, <1>10

LEMMA PowerPositive == \A n \in Nat : 2 ^ n \in Nat /\ 2 ^ n >= 1
<1> DEFINE S == {n \in Nat : 2 ^ n \in Nat /\ 2 ^ n >= 1}
<1>1. 0 \in S BY PowerZero
<1>2. ASSUME NEW n \in Nat, n \in S PROVE n + 1 \in S
  <2>1. PICK p \in Nat : p = 2 ^ n /\ p >= 1 BY <1>2
  <2>2. 2 ^ (n + 1) = 2 * p BY <2>1, PowerNext
  <2>3. 2 * p \in Nat /\ 2 * p >= 1 BY <2>1
  <2> QED BY <2>2, <2>3
<1> HIDE DEF S
<1>3. \A n \in Nat : n \in S BY <1>1, <1>2, Induct
<1> QED BY <1>3 DEF S
=============================================================================
