-------------------------- MODULE HashTableProofs --------------------------
(***************************************************************************)
(* The hash table is a map, for any keys, values, hashes and widths        *)
(* (IsMap), because the probes of a key reach every slot (ProbesReachAll)  *)
(* and a slot is always left free (RoomLeft).                              *)
(***************************************************************************)
EXTENDS HashTable, Basics

-----------------------------------------------------------------------------
(* Powers of two, which are all that capacities are *)

\* A smaller power divides a greater one.
LEMMA PowerDivides ==
  ASSUME NEW n \in Nat
  PROVE  \A k \in Nat : \E c \in Nat : c >= 1 /\ 2 ^ (n + k) = 2 ^ n * c
<1>1. PICK p \in Nat : p = 2 ^ n /\ p >= 1 BY PowerPositive
<1> DEFINE S == {k \in Nat : \E c \in Nat : c >= 1 /\ 2 ^ (n + k) = p * c}
<1>2. 0 \in S
  <2>1. n + 0 = n /\ p = p * 1 /\ 1 \in Nat OBVIOUS
  <2>2. 2 ^ (n + 0) = p * 1 BY <1>1, <2>1
  <2>3. PICK q : q = 2 ^ (n + 0) OBVIOUS
  <2>4. \E c \in Nat : c >= 1 /\ q = p * c BY <2>2, <2>3
  <2> QED BY <2>3, <2>4
<1>3. ASSUME NEW k \in Nat, k \in S PROVE k + 1 \in S
  <2>1. PICK c \in Nat : c >= 1 /\ 2 ^ (n + k) = p * c BY <1>3
  <2>2. n + k \in Nat /\ n + (k + 1) = (n + k) + 1 OBVIOUS
  <2>3. 2 ^ (n + (k + 1)) = 2 * (p * c) BY <2>1, <2>2, PowerNext
  <2>4. PICK d \in Nat : d = 2 * c /\ d >= 1 BY <2>1
  <2>5. 2 * (p * c) = p * d BY <2>4
  <2>6. PICK m \in Nat : m = k + 1 OBVIOUS
  <2>7. 2 ^ (n + m) = p * d BY <2>3, <2>5, <2>6
  <2>8. m \in S BY <2>4, <2>7
  <2> QED BY <2>6, <2>8
<1> HIDE DEF S
<1>4. \A k \in Nat : k \in S BY <1>2, <1>3, Induct
<1> QED BY <1>1, <1>4 DEF S

LEMMA PowerMonotonic ==
  ASSUME NEW n \in Nat, NEW m \in Nat, 2 ^ n < 2 ^ m
  PROVE  n < m
<1> SUFFICES ASSUME n >= m PROVE FALSE OBVIOUS
<1>1. PICK k \in Nat : n = m + k
  <2>1. n - m \in Nat /\ n = m + (n - m) OBVIOUS
  <2> QED BY <2>1
<1>2. PICK c \in Nat : c >= 1 /\ 2 ^ n = 2 ^ m * c
  <2>1. \E c \in Nat : c >= 1 /\ 2 ^ (m + k) = 2 ^ m * c BY PowerDivides
  <2> QED BY <1>1, <2>1
<1>3. PICK p \in Nat : p = 2 ^ m BY PowerPositive
<1>4. p * c >= p BY <1>2
<1> QED BY <1>2, <1>3, <1>4

-----------------------------------------------------------------------------
(* Probing: triangular numbers, modulo a power of two *)

LEMMA OddTimesOdd ==
  ASSUME NEW x \in Int, NEW y \in Int, NEW z \in Int,
         (2 * x + 1) * (2 * y + 1) = 2 * z
  PROVE  FALSE
<1>1. PICK w \in Int : w = x * y OBVIOUS
<1>2. (2 * x + 1) * (2 * y + 1) = 2 * (2 * w + x + y) + 1 BY <1>1
<1> QED BY <1>2

LEMMA Parity ==
  ASSUME NEW a \in Int
  PROVE  \E x \in Int : a = 2 * x \/ a = 2 * x + 1
<1>1. PICK x \in Int : x = a \div 2 OBVIOUS
<1>2. a = 2 * x \/ a = 2 * x + 1 BY <1>1
<1> QED BY <1>2

Odd(a) == \E x \in Int : a = 2 * x + 1

Multiple(n, a) == \E r \in Int : a = 2 ^ n * r

\* A power of two which divides the product of an odd number and another one divides
\* the other one.
LEMMA OddFactors ==
  \A n \in Nat : \A a, b \in Int : Odd(a) /\ Multiple(n, a * b) => Multiple(n, b)
<1> DEFINE S == {n \in Nat : \A a, b \in Int :
                   Odd(a) /\ Multiple(n, a * b) => Multiple(n, b)}
<1>1. 0 \in S
  <2>1. 2 ^ 0 = 1 BY PowerZero
  <2>2. ASSUME NEW b \in Int PROVE Multiple(0, b)
    <3>1. b = 2 ^ 0 * b BY <2>1
    <3> QED BY <3>1 DEF Multiple
  <2> QED BY <2>2
<1>2. ASSUME NEW n \in Nat, n \in S PROVE n + 1 \in S
  <2>1. PICK p \in Nat : p = 2 ^ n BY PowerPositive
  <2>2. PICK m \in Nat : m = n + 1 /\ 2 ^ m = 2 * p BY <2>1, PowerNext
  <2>3. ASSUME NEW a \in Int, NEW b \in Int, Odd(a), Multiple(m, a * b)
        PROVE  Multiple(m, b)
    <3>1. PICK x \in Int : a = 2 * x + 1 BY <2>3 DEF Odd
    <3>2. PICK q \in Int : a * b = (2 * p) * q BY <2>2, <2>3 DEF Multiple
    <3>3. PICK w \in Int : w = p * q /\ a * b = 2 * w
      <4>1. (2 * p) * q = 2 * (p * q) OBVIOUS
      <4> QED BY <3>2, <4>1
    <3>4. PICK c \in Int : b = 2 * c
      <4>1. PICK y \in Int : b = 2 * y \/ b = 2 * y + 1 BY Parity
      <4>2. (2 * x + 1) * b = 2 * w BY <3>1, <3>3
      <4>3. b # 2 * y + 1 BY <4>2, OddTimesOdd
      <4> QED BY <4>1, <4>3
    <3>5. PICK u \in Int : u = a * c OBVIOUS
    <3>6. u = w
      <4>1. a * (2 * c) = 2 * (a * c) OBVIOUS
      <4>2. 2 * u = 2 * w BY <3>3, <3>4, <3>5, <4>1
      <4> QED BY <4>2
    <3>7. Multiple(n, u) BY <2>1, <3>3, <3>6 DEF Multiple
    <3>8. Multiple(n, c) BY <1>2, <2>3, <3>5, <3>7
    <3>9. PICK r \in Int : c = p * r BY <2>1, <3>8 DEF Multiple
    <3>10. b = (2 * p) * r BY <3>4, <3>9
    <3> QED BY <2>2, <3>10 DEF Multiple
  <2>4. m \in S BY <2>2, <2>3
  <2> QED BY <2>2, <2>4
<1> HIDE DEF S
<1>3. \A n \in Nat : n \in S BY <1>1, <1>2, Induct
<1> QED BY <1>3 DEF S

LEMMA OddFactor ==
  ASSUME NEW n \in Nat, NEW a \in Int, Odd(a), NEW b \in Int, NEW w, w = a * b,
         Multiple(n, w)
  PROVE  Multiple(n, b)
BY OddFactors

\* Of two factors whose sum is odd one is odd.
LEMMA OneFactorDivides ==
  ASSUME NEW n \in Nat, NEW a \in Int, NEW b \in Int, Odd(a + b), Multiple(n, a * b)
  PROVE  Multiple(n, a) \/ Multiple(n, b)
<1>1. PICK x \in Int : a = 2 * x \/ a = 2 * x + 1 BY Parity
<1>2. PICK w \in Int : w = a * b /\ Multiple(n, w) OBVIOUS
<1>3. CASE a = 2 * x + 1
  <2>1. Odd(a) BY <1>3 DEF Odd
  <2> QED BY <1>2, <2>1, OddFactor
<1>4. CASE a = 2 * x
  <2>1. PICK s \in Int : a + b = 2 * s + 1 BY DEF Odd
  <2>2. b = 2 * (s - x) + 1 /\ s - x \in Int BY <1>4, <2>1
  <2>3. Odd(b) BY <2>2 DEF Odd
  <2>4. w = b * a BY <1>2
  <2> QED BY <1>2, <2>3, <2>4, OddFactor
<1> QED BY <1>1, <1>3, <1>4

\* t is a half of i * i + i, up to a multiple of p.
Triangle(t, i, p) == \E e \in Int : i * i + i = 2 * t + (2 * p) * e

\* The overflow of a probe does not matter to a table of half the width.
LEMMA ProbeIs ==
  ASSUME NEW n \in Nat, n < Width, Width \in Nat, NEW p \in Nat, p = 2 ^ n, NEW i \in Nat
  PROVE  Probe(i) \in Nat /\ Triangle(Probe(i), i, p)
<1>1. p >= 1 BY PowerPositive
<1>2. PICK c \in Nat : c >= 1 /\ 2 ^ Width = (2 * p) * c
  <2>1. PICK m \in Nat : m = n + 1 OBVIOUS
  <2>2. 2 ^ m = 2 * p BY <2>1, PowerNext
  <2>3. PICK k \in Nat : Width = m + k
    <3>1. Width - m \in Nat /\ Width = m + (Width - m) BY <2>1
    <3> QED BY <3>1
  <2> QED BY <2>2, <2>3, PowerDivides
<1>3. PICK w \in Nat, h \in Nat : w = 2 ^ Width /\ h = p * c /\ w = 2 * h /\ h >= 1
  <2>1. p * c \in Nat /\ p * c >= 1 /\ (2 * p) * c = 2 * (p * c) BY <1>1, <1>2
  <2> QED BY <1>2, <2>1
<1>4. PICK t \in Nat : i * i + i = 2 * t
  <2>1. PICK x \in Int : i = 2 * x \/ i = 2 * x + 1
    <3>1. i \in Int OBVIOUS
    <3> QED BY <3>1, Parity
  <2>2. CASE i = 2 * x
    <3>1. i * i + i = 2 * (2 * (x * x) + x) BY <2>2
    <3>2. x \in Nat BY <2>2
    <3>3. x * x \in Nat BY <3>2
    <3>4. 2 * (x * x) + x \in Nat BY <3>2, <3>3
    <3> QED BY <3>1, <3>4
  <2>3. CASE i = 2 * x + 1
    <3>1. i * i + i = 2 * (2 * (x * x) + 3 * x + 1) BY <2>3
    <3>2. x \in Nat BY <2>3
    <3>3. x * x \in Nat BY <3>2
    <3>4. 2 * (x * x) + 3 * x + 1 \in Nat BY <3>2, <3>3
    <3> QED BY <3>1, <3>4
  <2> QED BY <2>1, <2>2, <2>3
<1>5. Probe(i) = ((2 * t) % (2 * h)) \div 2 BY <1>3, <1>4 DEF Probe
<1>6. PICK d \in Nat, z \in Nat : t = h * d + z /\ z < h
  <2>1. h >= 1 BY <1>3
  <2> QED BY <2>1, Euclid
<1>7. (2 * t) % (2 * h) = 2 * z
  <2>1. PICK u \in Nat, v \in Nat : u = 2 * t /\ v = 2 * h /\ v >= 1 BY <1>3
  <2>2. PICK y \in Nat : y = 2 * z /\ y < v BY <1>6, <2>1
  <2>3. u = v * d + y
    <3>1. 2 * (h * d) = (2 * h) * d OBVIOUS
    <3>2. PICK g \in Nat : g = h * d OBVIOUS
    <3>3. u = 2 * g + y BY <1>6, <2>1, <2>2, <3>2
    <3> QED BY <2>1, <3>1, <3>2, <3>3
  <2>4. u % v = y BY <2>2, <2>3, Remainder
  <2>5. (2 * t) % (2 * h) = u % v BY <2>1
  <2> QED BY <2>2, <2>4, <2>5
<1>8. Probe(i) = z BY <1>5, <1>6, <1>7
<1>9. i * i + i = 2 * z + (2 * p) * (c * d)
  <2>1. PICK g \in Nat : g = h * d OBVIOUS
  <2>2. 2 * t = 2 * g + 2 * z BY <1>6, <2>1
  <2>3. 2 * g = (2 * p) * (c * d) BY <1>3, <2>1
  <2> QED BY <1>4, <2>2, <2>3
<1>10. c * d \in Int OBVIOUS
<1>11. Triangle(z, i, p) BY <1>9, <1>10 DEF Triangle
<1> QED BY <1>6, <1>8, <1>11

\* The difference is a multiple of p.
Apart(a, b, p) == \E e \in Int : b - a = p * e

LEMMA SameRemainder ==
  ASSUME NEW p \in Nat, p >= 1, NEW a \in Nat, NEW b \in Nat, a % p = b % p
  PROVE  Apart(a, b, p)
<1>1. PICK x \in Nat, y \in Nat, z \in Nat : a = p * x + z /\ b = p * y + z
  <2>1. PICK x \in Nat, z \in Nat : z = a % p /\ a = p * x + z BY Euclid
  <2>2. PICK y \in Nat, u \in Nat : u = b % p /\ b = p * y + u BY Euclid
  <2> QED BY <2>1, <2>2
<1>2. b - a = p * (y - x) /\ y - x \in Int BY <1>1
<1> QED BY <1>2 DEF Apart

\* Different turns probe different slots.
LEMMA ProbesDiffer ==
  ASSUME NEW n \in Nat, n < Width, Width \in Nat, NEW h \in Nat,
         NEW i \in 0 .. 2 ^ n - 1, NEW j \in 0 .. 2 ^ n - 1, i < j,
         (h + Probe(i)) % (2 ^ n) = (h + Probe(j)) % (2 ^ n)
  PROVE  FALSE
<1>1. PICK p \in Nat : p = 2 ^ n /\ p >= 1 BY PowerPositive
<1>2. PICK m \in Nat : m = n + 1 /\ 2 ^ m = 2 * p BY <1>1, PowerNext
<1>3. i \in Nat /\ j \in Nat /\ i < p /\ j < p BY <1>1
<1>4. PICK s \in Nat : s = Probe(i) /\ Triangle(s, i, p) BY <1>1, <1>3, ProbeIs
<1>5. PICK t \in Nat : t = Probe(j) /\ Triangle(t, j, p) BY <1>1, <1>3, ProbeIs
<1>6. PICK d \in Int, e \in Int :
        i * i + i = 2 * s + (2 * p) * d /\ j * j + j = 2 * t + (2 * p) * e
  BY <1>4, <1>5 DEF Triangle
<1>7. PICK f \in Int : t - s = p * f
  <2>1. PICK x \in Nat, y \in Nat : x = h + s /\ y = h + t BY <1>4, <1>5
  <2>2. x % p = y % p BY <1>1, <1>4, <1>5, <2>1
  <2>3. Apart(x, y, p) BY <1>1, <2>1, <2>2, SameRemainder
  <2>4. y - x = t - s BY <1>4, <1>5, <2>1
  <2> QED BY <2>3, <2>4 DEF Apart
<1>8. PICK q \in Int : (j - i) * (j + i + 1) = (2 * p) * q
  <2>1. (j - i) * (j + i + 1) = (j * j + j) - (i * i + i) BY <1>3
  <2>2. PICK x \in Int, y \in Int, z \in Int :
          x = (2 * p) * d /\ y = (2 * p) * e /\ z = (2 * p) * f
    OBVIOUS
  <2>3. 2 * (t - s) = z
    <3>1. 2 * (p * f) = (2 * p) * f OBVIOUS
    <3> QED BY <1>7, <2>2, <3>1
  <2>4. PICK ii \in Int, jj \in Int : ii = i * i + i /\ jj = j * j + j BY <1>3
  <2>5. ii = 2 * s + x /\ jj = 2 * t + y BY <1>6, <2>2, <2>4
  <2>6. jj - ii = z + y - x BY <1>4, <1>5, <2>2, <2>3, <2>4, <2>5
  <2>7. z + y - x = (2 * p) * (f + e - d) BY <2>2
  <2>8. f + e - d \in Int OBVIOUS
  <2> QED BY <2>1, <2>4, <2>6, <2>7, <2>8
<1>9. PICK a \in Int, b \in Int :
        a = j - i /\ b = j + i + 1 /\ 0 < a /\ a < 2 * p /\ 0 < b /\ b < 2 * p
        /\ a + b = 2 * j + 1
  BY <1>3
<1>10. Multiple(m, a * b) BY <1>2, <1>8, <1>9 DEF Multiple
<1>11. Odd(a + b)
  <2>1. j \in Int BY <1>3
  <2> QED BY <1>9, <2>1 DEF Odd
<1>12. Multiple(m, a) \/ Multiple(m, b) BY <1>9, <1>10, <1>11, OneFactorDivides
<1>13. PICK w \in Nat : w = 2 * p OBVIOUS
<1>14. ASSUME NEW x \in Int, 0 < x, x < w, Multiple(m, x) PROVE FALSE
  <2>1. PICK r \in Int : x = w * r BY <1>2, <1>13, <1>14 DEF Multiple
  <2> QED BY <1>14, <2>1, NoSmallMultiple
<1> QED BY <1>9, <1>12, <1>13, <1>14

\* So the probes of a key reach every slot.
LEMMA ProbesReach ==
  ASSUME NEW n \in Nat, n < Width, Width \in Nat, NEW h \in Nat
  PROVE  {(h + Probe(i)) % (2 ^ n) : i \in 0 .. 2 ^ n - 1} = 0 .. 2 ^ n - 1
<1>1. PICK p \in Nat : p = 2 ^ n /\ p >= 1 BY PowerPositive
<1>2. PICK S : S = 0 .. p - 1 OBVIOUS
<1>3. PICK f : f = [i \in S |-> (h + Probe(i)) % p] OBVIOUS
<1>4. f \in [S -> S]
  <2>1. ASSUME NEW i \in S PROVE (h + Probe(i)) % p \in S
    <3>1. i \in Nat BY <1>2
    <3>2. PICK x \in Nat : x = h + Probe(i)
      <4>1. Probe(i) \in Nat BY <1>1, <3>1, ProbeIs
      <4> QED BY <4>1
    <3>3. x % p \in 0 .. p - 1 BY <1>1
    <3> QED BY <1>2, <3>2, <3>3
  <2> QED BY <1>3, <2>1
<1>5. ASSUME NEW i \in S, NEW j \in S, f[i] = f[j] PROVE i = j
  <2>1. (h + Probe(i)) % (2 ^ n) = (h + Probe(j)) % (2 ^ n) BY <1>1, <1>3, <1>5
  <2>2. i \in 0 .. 2 ^ n - 1 /\ j \in 0 .. 2 ^ n - 1 BY <1>1, <1>2
  <2>3. ~(i < j) BY <2>1, <2>2, ProbesDiffer
  <2>4. ~(j < i) BY <2>1, <2>2, ProbesDiffer
  <2> QED BY <1>1, <2>2, <2>3, <2>4
<1>6. f \in Surjection(S, S)
  <2>1. f \in Injection(S, S) BY <1>4, <1>5, Fun_IsInj
  <2>2. IsFiniteSet(S)
    <3>1. 0 \in Int /\ p - 1 \in Int OBVIOUS
    <3> QED BY <1>2, <3>1, FS_Interval
  <2> QED BY <2>1, <2>2, FS_Injection
<1>7. \A s \in S : \E i \in S : f[i] = s BY <1>6, Fun_SurjectionProperties
<1>8. {(h + Probe(i)) % p : i \in S} = S BY <1>3, <1>4, <1>7
<1> QED BY <1>1, <1>2, <1>8

-----------------------------------------------------------------------------
(* Tables *)

HashIsNat == \A k \in Key : hash[k] \in Nat

Fields == {"cap", "len", "ok", "keys", "vals"}

Used(t) == {s \in Slots(t) : t.keys[s] # Nil}

\* The probes of a key on the way to its slot meet no free slot.
OnTheWay(t, k, s) ==
  \E i \in Slots(t) : /\ ProbeInd(t, k, i) = s
                      /\ \A j \in 0 .. i - 1 : t.keys[ProbeInd(t, k, j)] # Nil

\* A table with memory: a key is in one slot, where it is found.
Table(t) ==
  /\ DOMAIN t = Fields /\ t.ok = TRUE
  /\ \E n \in 2 .. Width - 1 : t.cap = 2 ^ n
  /\ t.keys \in [Slots(t) -> Key \cup {Nil}] /\ DOMAIN t.vals = Slots(t)
  /\ t.len = Cardinality(Used(t))
  /\ \A s, r \in Slots(t) : t.keys[s] = t.keys[r] /\ t.keys[s] # Nil => s = r
  /\ \A k \in Key : \A s \in Slots(t) : t.keys[s] = k => OnTheWay(t, k, s)

\* What the slots hold.
In(t, k) == \E s \in Slots(t) : t.keys[s] = k
At(t, k, v) == \E s \in Slots(t) : t.keys[s] = k /\ t.vals[s] = v

LEMMA Capacity ==
  ASSUME NEW n \in 2 .. Width - 1
  PROVE  /\ Width \in Nat /\ n \in Nat /\ n < Width
         /\ \E h \in Nat : 2 ^ n = 2 * h /\ h >= 2
<1>1. Width \in Nat BY TableAssumption
<1>2. n \in Nat /\ n < Width BY <1>1
<1>3. PICK m \in Nat : n = m + 1 /\ m >= 1
  <2>1. n - 1 \in Nat /\ n = (n - 1) + 1 /\ n - 1 >= 1 BY <1>1
  <2> QED BY <2>1
<1>4. PICK l \in Nat : m = l + 1
  <2>1. m - 1 \in Nat /\ m = (m - 1) + 1 BY <1>3
  <2> QED BY <2>1
<1>5. PICK q \in Nat : q = 2 ^ l /\ q >= 1 BY PowerPositive
<1>6. 2 ^ m = 2 * q BY <1>4, <1>5, PowerNext
<1>7. 2 ^ n = 2 * (2 * q) BY <1>3, <1>6, PowerNext
<1>8. 2 * q \in Nat /\ 2 * q >= 2 BY <1>5
<1> QED BY <1>1, <1>2, <1>7, <1>8

LEMMA TableCapacity ==
  ASSUME NEW t, Table(t)
  PROVE  /\ t.cap \in Nat /\ t.cap >= 4 /\ Slots(t) = 0 .. t.cap - 1
         /\ \E h \in Nat : t.cap = 2 * h
<1>1. PICK n \in 2 .. Width - 1 : t.cap = 2 ^ n BY DEF Table
<1>2. PICK h \in Nat : 2 ^ n = 2 * h /\ h >= 2 BY Capacity
<1> QED BY <1>1, <1>2 DEF Slots

LEMMA SlotsFinite ==
  ASSUME NEW t, t.cap \in Nat
  PROVE  IsFiniteSet(Slots(t)) /\ Cardinality(Slots(t)) = t.cap /\ IsFiniteSet(Used(t))
<1>1. 0 \in Int /\ t.cap - 1 \in Int OBVIOUS
<1>2. /\ IsFiniteSet(0 .. t.cap - 1)
      /\ Cardinality(0 .. t.cap - 1) = IF 0 > t.cap - 1 THEN 0 ELSE t.cap - 1 - 0 + 1
  BY <1>1, FS_Interval
<1>3. IsFiniteSet(Slots(t)) /\ Cardinality(Slots(t)) = t.cap BY <1>2 DEF Slots
<1>4. Used(t) \in SUBSET Slots(t) BY DEF Used
<1> QED BY <1>3, <1>4, FS_Subset

\* The probes of a key are slots, and every slot is probed.
LEMMA ProbesSlots ==
  ASSUME HashIsNat, NEW t, Table(t), NEW k \in Key
  PROVE  /\ \A i \in Slots(t) : ProbeInd(t, k, i) \in Slots(t)
         /\ \A s \in Slots(t) : \E i \in Slots(t) : ProbeInd(t, k, i) = s
<1>1. PICK n \in 2 .. Width - 1 : t.cap = 2 ^ n BY DEF Table
<1>2. Width \in Nat /\ n \in Nat /\ n < Width BY Capacity
<1>3. PICK h \in Nat : h = hash[k] BY DEF HashIsNat
<1>4. {(h + Probe(i)) % (2 ^ n) : i \in 0 .. 2 ^ n - 1} = 0 .. 2 ^ n - 1
  BY <1>2, ProbesReach
<1>5. PICK S : S = Slots(t) OBVIOUS
<1>6. S = 0 .. 2 ^ n - 1 BY <1>1, <1>5 DEF Slots
<1>7. \A i \in S : ProbeInd(t, k, i) = (h + Probe(i)) % (2 ^ n)
  BY <1>1, <1>3 DEF ProbeInd
<1>8. {ProbeInd(t, k, i) : i \in S} = S BY <1>4, <1>6, <1>7
<1> QED BY <1>5, <1>8

LEMMA FirstTurnIs ==
  ASSUME NEW t, t.cap \in Nat, NEW k, NEW S,
         NEW i \in Slots(t), t.keys[ProbeInd(t, k, i)] \in S
  PROVE  \E f \in Slots(t) :
           /\ FirstTurn(t, k, S) = {f} /\ t.keys[ProbeInd(t, k, f)] \in S
           /\ \A j \in 0 .. f - 1 : t.keys[ProbeInd(t, k, j)] \notin S
<1> DEFINE T == {f \in Slots(t) : t.keys[ProbeInd(t, k, f)] \in S}
<1>1. Slots(t) = 0 .. t.cap - 1 /\ Slots(t) \subseteq Nat BY DEF Slots
<1>2. T \subseteq Nat /\ T # {} BY <1>1
<1>3. PICK f \in T : \A m \in T : f <= m
  <2> HIDE DEF T
  <2> QED BY <1>2, LeastNatural
<1>4. \A j \in 0 .. f - 1 : j \in Slots(t) /\ j \notin T
  <2>1. ASSUME NEW j \in 0 .. f - 1 PROVE j \in Slots(t) /\ j \notin T
    <3>1. j \in Nat /\ j < f /\ f < t.cap BY <1>1
    <3>2. j \in Slots(t) BY <1>1, <3>1
    <3>3. j \notin T
      <4>1. f \in Nat BY <1>2
      <4> HIDE DEF T
      <4> QED BY <1>3, <3>1, <4>1
    <3> QED BY <3>2, <3>3
  <2> QED BY <2>1
<1>5. \A j \in 0 .. f - 1 : t.keys[ProbeInd(t, k, j)] \notin S BY <1>4
<1>6. f \in FirstTurn(t, k, S) BY <1>5 DEF FirstTurn
<1>7. ASSUME NEW g \in FirstTurn(t, k, S) PROVE g = f
  <2>1. g \in T /\ \A j \in 0 .. g - 1 : t.keys[ProbeInd(t, k, j)] \notin S
    BY DEF FirstTurn
  <2>2. f <= g BY <1>3, <2>1
  <2>3. f \in Nat /\ g \in Nat BY <1>1, <2>1
  <2>4. ~(f < g)
    <3>1. SUFFICES ASSUME f < g PROVE FALSE OBVIOUS
    <3>2. f \in 0 .. g - 1 BY <2>3, <3>1
    <3> QED BY <2>1, <3>2
  <2> QED BY <2>2, <2>3, <2>4
<1> QED BY <1>5, <1>6, <1>7

\* A key is found where it is.
LEMMA MatchingIs ==
  ASSUME HashIsNat, NEW t, Table(t), NEW k \in Key, NEW s \in Slots(t), t.keys[s] = k
  PROVE  MatchingInd(t, k) = {s}
<1>1. PICK i \in Slots(t) : ProbeInd(t, k, i) = s BY ProbesSlots
<1>2. t.cap \in Nat /\ t.keys[ProbeInd(t, k, i)] \in {k} BY <1>1, TableCapacity
<1>3. PICK f \in Slots(t) : FirstTurn(t, k, {k}) = {f} /\ t.keys[ProbeInd(t, k, f)] \in {k}
  BY <1>2, FirstTurnIs
<1>4. ProbeInd(t, k, f) \in Slots(t) /\ t.keys[ProbeInd(t, k, f)] = k
  BY <1>3, ProbesSlots
<1>5. k # Nil BY TableAssumption
<1>6. ProbeInd(t, k, f) = s BY <1>4, <1>5 DEF Table
<1> QED BY <1>3, <1>6 DEF MatchingInd

LEMMA NotMatching ==
  ASSUME HashIsNat, NEW t, Table(t), NEW k \in Key, ~In(t, k)
  PROVE  MatchingInd(t, k) = {}
<1>1. \A i \in Slots(t) : t.keys[ProbeInd(t, k, i)] # k BY ProbesSlots DEF In
<1> QED BY <1>1 DEF MatchingInd, FirstTurn

\* There is a slot for every key: its own, or the first free one if it has none.
LEMMA AvailableIs ==
  ASSUME HashIsNat, NEW t, Table(t), t.len < t.cap, NEW k \in Key
  PROVE  \E s \in Slots(t) :
           /\ AvailableInd(t, k) = {s} /\ OnTheWay(t, k, s)
           /\ t.keys[s] = k \/ (t.keys[s] = Nil /\ ~In(t, k))
<1>1. t.cap \in Nat /\ Slots(t) = 0 .. t.cap - 1 BY TableCapacity
<1>2. PICK r \in Slots(t) : t.keys[r] = Nil
  <2>1. SUFFICES ASSUME \A r \in Slots(t) : t.keys[r] # Nil PROVE FALSE OBVIOUS
  <2>2. Used(t) = Slots(t) BY <2>1 DEF Used
  <2>3. t.len = t.cap BY <1>1, <2>2, SlotsFinite DEF Table
  <2> QED BY <1>1, <2>3
<1>3. PICK i \in Slots(t) : ProbeInd(t, k, i) = r BY ProbesSlots
<1>4. PICK S : S = {k, Nil} OBVIOUS
<1>5. t.keys[ProbeInd(t, k, i)] \in S BY <1>2, <1>3, <1>4
<1>6. PICK f \in Slots(t) :
        /\ FirstTurn(t, k, S) = {f} /\ t.keys[ProbeInd(t, k, f)] \in S
        /\ \A j \in 0 .. f - 1 : t.keys[ProbeInd(t, k, j)] \notin S
  BY <1>1, <1>5, FirstTurnIs
<1>7. PICK s \in Slots(t) : s = ProbeInd(t, k, f) BY <1>6, ProbesSlots
<1>8. AvailableInd(t, k) = {s} BY <1>4, <1>6, <1>7 DEF AvailableInd
<1>9. OnTheWay(t, k, s)
  <2>1. \A j \in 0 .. f - 1 : t.keys[ProbeInd(t, k, j)] # Nil BY <1>4, <1>6
  <2> QED BY <1>7, <2>1 DEF OnTheWay
<1>10. CASE t.keys[s] = k BY <1>8, <1>9, <1>10
<1>11. CASE t.keys[s] # k
  <2>1. t.keys[s] = Nil BY <1>4, <1>6, <1>7, <1>11
  <2>2. ASSUME NEW q \in Slots(t), t.keys[q] = k PROVE FALSE
    <3>1. PICK g \in Slots(t) :
            /\ ProbeInd(t, k, g) = q
            /\ \A j \in 0 .. g - 1 : t.keys[ProbeInd(t, k, j)] # Nil
      BY <2>2 DEF Table, OnTheWay
    <3>2. f \in Nat /\ g \in Nat BY <1>1
    <3>3. ~(g < f)
      <4>1. SUFFICES ASSUME g < f PROVE FALSE OBVIOUS
      <4>2. g \in 0 .. f - 1 BY <3>2, <4>1
      <4>3. t.keys[ProbeInd(t, k, g)] \notin S BY <1>6, <4>2
      <4> QED BY <1>4, <2>2, <3>1, <4>3
    <3>4. ~(f < g)
      <4>1. SUFFICES ASSUME f < g PROVE FALSE OBVIOUS
      <4>2. f \in 0 .. g - 1 BY <3>2, <4>1
      <4>3. t.keys[ProbeInd(t, k, f)] # Nil BY <3>1, <4>2
      <4> QED BY <1>7, <2>1, <4>3
    <3>5. f = g BY <3>2, <3>3, <3>4
    <3> QED BY <1>7, <1>11, <2>2, <3>1, <3>5
  <2> QED BY <1>8, <1>9, <2>1, <2>2 DEF In
<1> QED BY <1>10, <1>11

-----------------------------------------------------------------------------
(* Setting *)

LEMMA ProbesAgree ==
  ASSUME NEW t, NEW u, u.cap = t.cap, NEW k, NEW i
  PROVE  ProbeInd(u, k, i) = ProbeInd(t, k, i)
BY DEF ProbeInd

\* A key stays on its way when slots are filled.
LEMMA WayStays ==
  ASSUME HashIsNat, NEW t, Table(t), NEW u, u.cap = t.cap,
         \A s \in Slots(t) : t.keys[s] # Nil => u.keys[s] # Nil,
         NEW k \in Key, NEW s, OnTheWay(t, k, s)
  PROVE  OnTheWay(u, k, s)
<1>1. PICK i \in Slots(t) :
        /\ ProbeInd(t, k, i) = s
        /\ \A j \in 0 .. i - 1 : t.keys[ProbeInd(t, k, j)] # Nil
  BY DEF OnTheWay
<1>2. t.cap \in Nat /\ Slots(t) = 0 .. t.cap - 1 /\ Slots(u) = Slots(t)
  BY TableCapacity DEF Slots
<1>3. ASSUME NEW j \in 0 .. i - 1 PROVE u.keys[ProbeInd(u, k, j)] # Nil
  <2>1. j \in Slots(t) BY <1>2
  <2>2. PICK r \in Slots(t) : r = ProbeInd(t, k, j) BY <2>1, ProbesSlots
  <2>3. u.keys[r] # Nil BY <1>1, <2>2
  <2>4. ProbeInd(u, k, j) = r BY <2>2, ProbesAgree
  <2> QED BY <2>3, <2>4
<1>4. ProbeInd(u, k, i) = s BY <1>1, ProbesAgree
<1> QED BY <1>2, <1>3, <1>4 DEF OnTheWay

\* u is t with k and v in slot s.
PutAt(t, k, v, u, s) ==
  /\ OnTheWay(t, k, s)
  /\ t.keys[s] = k \/ (t.keys[s] = Nil /\ ~In(t, k))
  /\ DOMAIN u = Fields /\ u.ok = TRUE /\ u.cap = t.cap
  /\ u.len = IF t.keys[s] = Nil THEN t.len + 1 ELSE t.len
  /\ u.keys = [r \in Slots(t) |-> IF r = s THEN k ELSE t.keys[r]]
  /\ u.vals = [r \in Slots(t) |-> IF r = s THEN v ELSE t.vals[r]]

\* What Put does to a table with room.
LEMMA PutFields ==
  ASSUME HashIsNat, NEW t, Table(t), t.len < t.cap, NEW k \in Key, NEW v,
         NEW u, u = Put(t, k, v)
  PROVE  \E s \in Slots(t) : PutAt(t, k, v, u, s)
<1>1. PICK s \in Slots(t) :
        /\ AvailableInd(t, k) = {s} /\ OnTheWay(t, k, s)
        /\ t.keys[s] = k \/ (t.keys[s] = Nil /\ ~In(t, k))
  BY AvailableIs
<1>2. PICK n \in Int : n = t.len /\ t.cap \in Nat
  <2>1. IsFiniteSet(Used(t)) BY TableCapacity, SlotsFinite
  <2>2. t.len \in Nat BY <2>1, FS_CardinalityType DEF Table
  <2> QED BY <2>2, TableCapacity
<1>3. ~(AvailableInd(t, k) = {} \/ t.len >= t.cap) BY <1>1, <1>2
<1>4. (CHOOSE r \in AvailableInd(t, k) : TRUE) = s BY <1>1
<1>5. u = [t EXCEPT !.keys[s] = k, !.vals[s] = v,
                    !.len = IF t.keys[s] = Nil THEN @ + 1 ELSE @]
  BY <1>3, <1>4 DEF Put
<1>6. DOMAIN t = Fields /\ t.ok = TRUE /\ DOMAIN t.keys = Slots(t) /\ DOMAIN t.vals = Slots(t)
  BY DEF Table
<1>7. DOMAIN u = Fields /\ u.ok = TRUE /\ u.cap = t.cap BY <1>5, <1>6 DEF Fields
<1>8. u.len = IF t.keys[s] = Nil THEN t.len + 1 ELSE t.len BY <1>5, <1>6 DEF Fields
<1>9. u.keys = [t.keys EXCEPT ![s] = k] BY <1>5, <1>6 DEF Fields
<1>10. u.vals = [t.vals EXCEPT ![s] = v] BY <1>5, <1>6 DEF Fields
<1>11. u.keys = [r \in Slots(t) |-> IF r = s THEN k ELSE t.keys[r]] BY <1>6, <1>9
<1>12. u.vals = [r \in Slots(t) |-> IF r = s THEN v ELSE t.vals[r]] BY <1>6, <1>10
<1> QED BY <1>1, <1>7, <1>8, <1>11, <1>12 DEF PutAt

\* A table with room takes any key and stays a table.
LEMMA PutTable ==
  ASSUME HashIsNat, NEW t, Table(t), t.len < t.cap, NEW k \in Key, NEW v,
         NEW u, u = Put(t, k, v)
  PROVE  /\ Table(u) /\ u.cap = t.cap
         /\ u.len = IF In(t, k) THEN t.len ELSE t.len + 1
         /\ \A q \in Key : \A w : At(u, q, w) <=> IF q = k THEN w = v ELSE At(t, q, w)
<1>0. PICK s \in Slots(t) : PutAt(t, k, v, u, s) BY PutFields
<1>1. /\ OnTheWay(t, k, s)
      /\ t.keys[s] = k \/ (t.keys[s] = Nil /\ ~In(t, k))
      /\ DOMAIN u = Fields /\ u.ok = TRUE /\ u.cap = t.cap
      /\ u.len = IF t.keys[s] = Nil THEN t.len + 1 ELSE t.len
      /\ u.keys = [r \in Slots(t) |-> IF r = s THEN k ELSE t.keys[r]]
      /\ u.vals = [r \in Slots(t) |-> IF r = s THEN v ELSE t.vals[r]]
  BY <1>0 DEF PutAt
<1>2. k # Nil BY TableAssumption
<1>3. Slots(u) = Slots(t) BY <1>1 DEF Slots
<1>4. u.keys[s] = k /\ \A r \in Slots(t) : r # s => u.keys[r] = t.keys[r] BY <1>1
<1>5. u.vals[s] = v /\ \A r \in Slots(t) : r # s => u.vals[r] = t.vals[r] BY <1>1
<1>6. In(t, k) <=> t.keys[s] = k BY <1>1, <1>2 DEF In
<1>7. \A r \in Slots(t) : t.keys[r] = k => r = s
  <2>1. SUFFICES ASSUME NEW r \in Slots(t), t.keys[r] = k PROVE r = s OBVIOUS
  <2>2. t.keys[s] = k BY <1>6, <2>1 DEF In
  <2> QED BY <1>2, <2>1, <2>2 DEF Table
<1>8. u.len = Cardinality(Used(u))
  <2>1. t.len = Cardinality(Used(t)) BY DEF Table
  <2>2. IsFiniteSet(Used(t)) BY TableCapacity, SlotsFinite
  <2>3. CASE t.keys[s] = Nil
    <3>1. s \notin Used(t) BY <2>3 DEF Used
    <3>2. Used(u) = Used(t) \cup {s} BY <1>2, <1>3, <1>4 DEF Used
    <3>3. Cardinality(Used(t) \cup {s}) = Cardinality(Used(t)) + 1
      BY <2>2, <3>1, FS_AddElement
    <3> QED BY <1>1, <2>1, <2>3, <3>2, <3>3
  <2>4. CASE t.keys[s] # Nil
    <3>1. Used(u) = Used(t) BY <1>1, <1>2, <1>3, <1>4, <2>4 DEF Used
    <3> QED BY <1>1, <2>1, <2>4, <3>1
  <2> QED BY <2>3, <2>4
<1>9. \A r, q \in Slots(u) : u.keys[r] = u.keys[q] /\ u.keys[r] # Nil => r = q
  <2>1. SUFFICES ASSUME NEW r \in Slots(t), NEW q \in Slots(t),
                        u.keys[r] = u.keys[q], u.keys[r] # Nil
                 PROVE  r = q
    BY <1>3
  <2>2. CASE r = s \/ q = s BY <1>4, <1>7, <2>1, <2>2
  <2>3. CASE r # s /\ q # s
    <3>1. t.keys[r] = t.keys[q] /\ t.keys[r] # Nil BY <1>4, <2>1, <2>3
    <3> QED BY <3>1 DEF Table
  <2> QED BY <2>2, <2>3
<1>10. \A q \in Key : \A r \in Slots(u) : u.keys[r] = q => OnTheWay(u, q, r)
  <2>1. SUFFICES ASSUME NEW q \in Key, NEW r \in Slots(t), u.keys[r] = q
                 PROVE  OnTheWay(u, q, r)
    BY <1>3
  <2>2. OnTheWay(t, q, r)
    <3>1. CASE r = s BY <1>1, <1>4, <2>1, <3>1
    <3>2. CASE r # s
      <4>1. t.keys[r] = q BY <1>4, <2>1, <3>2
      <4> QED BY <4>1 DEF Table
    <3> QED BY <3>1, <3>2
  <2>3. u.cap = t.cap BY <1>1
  <2>4. \A x \in Slots(t) : t.keys[x] # Nil => u.keys[x] # Nil BY <1>2, <1>4
  <2> QED BY <2>2, <2>3, <2>4, WayStays
<1>11. Table(u)
  <2>1. \E n \in 2 .. Width - 1 : u.cap = 2 ^ n BY <1>1 DEF Table
  <2>2. u.keys \in [Slots(u) -> Key \cup {Nil}] BY <1>1, <1>3 DEF Table
  <2>3. DOMAIN u.vals = Slots(u) BY <1>1, <1>3
  <2> QED BY <1>1, <1>8, <1>9, <1>10, <2>1, <2>2, <2>3 DEF Table
<1>12. u.len = IF In(t, k) THEN t.len ELSE t.len + 1 BY <1>1, <1>2, <1>6
<1>13. ASSUME NEW q \in Key, NEW w PROVE At(u, q, w) <=> IF q = k THEN w = v ELSE At(t, q, w)
  <2>1. CASE q = k
    <3>1. \A r \in Slots(t) : u.keys[r] = k => r = s BY <1>4, <1>7
    <3>2. At(u, k, w) <=> u.vals[s] = w BY <1>3, <1>4, <3>1 DEF At
    <3> QED BY <1>5, <2>1, <3>2
  <2>2. CASE q # k
    <3>1. q # Nil BY TableAssumption
    <3>2. ASSUME NEW r \in Slots(t)
          PROVE  (u.keys[r] = q /\ u.vals[r] = w) <=> (t.keys[r] = q /\ t.vals[r] = w)
      <4>1. CASE r = s
        <5>1. u.keys[r] # q BY <1>4, <2>2, <4>1
        <5>2. t.keys[r] # q BY <1>1, <2>2, <3>1, <4>1
        <5> QED BY <5>1, <5>2
      <4>2. CASE r # s
        <5>1. u.keys[r] = t.keys[r] /\ u.vals[r] = t.vals[r] BY <1>4, <1>5, <4>2
        <5> QED BY <5>1
      <4> QED BY <4>1, <4>2
    <3>3. At(u, q, w) <=> At(t, q, w) BY <1>3, <3>2 DEF At
    <3> QED BY <2>2, <3>3
  <2> QED BY <2>1, <2>2
<1> QED BY <1>1, <1>11, <1>12, <1>13

\* A fresh table is one, and holds nothing.
LEMMA NewTable ==
  ASSUME NEW n \in 2 .. Width - 1, NEW c, c = 2 ^ n, NEW u, u = New(c)
  PROVE  /\ Table(u) /\ u.cap = c /\ u.len = 0
         /\ \A k \in Key : \A w : ~At(u, k, w)
<1>1. /\ DOMAIN u = Fields /\ u.ok = TRUE /\ u.cap = c /\ u.len = 0
      /\ u.keys = [s \in 0 .. c - 1 |-> Nil] /\ u.vals = [s \in 0 .. c - 1 |-> Nil]
  BY DEF New, Fields
<1>2. Slots(u) = 0 .. c - 1 BY <1>1 DEF Slots
<1>3. u.keys \in [Slots(u) -> Key \cup {Nil}] /\ DOMAIN u.vals = Slots(u) BY <1>1, <1>2
<1>4. \A s \in Slots(u) : u.keys[s] = Nil BY <1>1, <1>2
<1>5. Used(u) = {} BY <1>4 DEF Used
<1>6. u.len = Cardinality(Used(u)) BY <1>1, <1>5, FS_EmptySet
<1>7. Nil \notin Key BY TableAssumption
<1>8. \A k \in Key : \A s \in Slots(u) : u.keys[s] # k BY <1>4, <1>7
<1>9. Table(u) BY <1>1, <1>3, <1>4, <1>6, <1>8 DEF Table
<1> QED BY <1>1, <1>8, <1>9 DEF At

-----------------------------------------------------------------------------
(* Growing *)

\* The loop of hash_table_rehash.
LEMMA Moves ==
  ASSUME NEW t, t.cap \in Nat, NEW u, u = Rehash(t)
  PROVE  \E f : /\ f[0] = [New(2 * t.cap) EXCEPT !.ok = t.ok]
                /\ \A n \in 1 .. t.cap : f[n] = Move(t, n - 1, f[n - 1])
                /\ u = f[t.cap]
<1>1. PICK l \in Nat : l = t.cap OBVIOUS
<1>2. PICK e : e = [New(2 * t.cap) EXCEPT !.ok = t.ok] OBVIOUS
<1> DEFINE Upto(g, n) == /\ g = [m \in 0 .. n |-> g[m]] /\ g[0] = e
                         /\ \A i \in 1 .. n : g[i] = Move(t, i - 1, g[i - 1])
           S == {n \in 0 .. l : \E g : Upto(g, n)}
<1>3. 0 \in S
  <2>1. Upto([m \in 0 .. 0 |-> e], 0) OBVIOUS
  <2> HIDE DEF Upto
  <2> QED BY <2>1
<1>4. ASSUME NEW n \in 0 .. l - 1, n \in S PROVE n + 1 \in S
  <2>1. PICK g : Upto(g, n)
    <3> HIDE DEF Upto
    <3> QED BY <1>4
  <2>2. PICK h : h = [m \in 0 .. n + 1 |-> IF m = n + 1 THEN Move(t, n, g[n]) ELSE g[m]]
    OBVIOUS
  <2>3. h = [m \in 0 .. n + 1 |-> h[m]] BY <2>2
  <2>4. \A m \in 0 .. n : h[m] = g[m] BY <2>2
  <2>5. h[n + 1] = Move(t, n, g[n]) BY <2>2
  <2>6. ASSUME NEW i \in 1 .. n + 1 PROVE h[i] = Move(t, i - 1, h[i - 1])
    <3>1. CASE i = n + 1
      <4>1. i - 1 = n /\ n \in 0 .. n BY <3>1
      <4>2. h[i - 1] = g[n] BY <2>4, <4>1
      <4> QED BY <2>5, <3>1, <4>1, <4>2
    <3>2. CASE i \in 1 .. n
      <4>1. h[i] = g[i] /\ h[i - 1] = g[i - 1] BY <2>4, <3>2
      <4> QED BY <2>1, <3>2, <4>1
    <3> QED BY <3>1, <3>2
  <2>7. h[0] = e BY <2>1, <2>4
  <2>8. Upto(h, n + 1) BY <2>3, <2>6, <2>7
  <2>9. n + 1 \in 0 .. l BY <1>1
  <2> HIDE DEF Upto
  <2> QED BY <2>8, <2>9
<1>5. l \in S
  <2> HIDE DEF S
  <2>1. \A n \in 0 .. l : n \in S BY <1>3, <1>4, InductTo
  <2> QED BY <2>1
<1>6. PICK g : Upto(g, l) BY <1>5
<1> DEFINE moved[n \in 0 .. t.cap] ==
             IF n = 0 THEN [New(2 * t.cap) EXCEPT !.ok = t.ok]
             ELSE Move(t, n - 1, moved[n - 1])
<1>7. g = [n \in 0 .. t.cap |-> IF n = 0 THEN [New(2 * t.cap) EXCEPT !.ok = t.ok]
                                ELSE Move(t, n - 1, g[n - 1])]
  <2>1. g = [n \in 0 .. l |-> g[n]] BY <1>6
  <2>2. ASSUME NEW n \in 0 .. l PROVE g[n] = IF n = 0 THEN e ELSE Move(t, n - 1, g[n - 1])
    <3>1. CASE n = 0 BY <1>6, <3>1
    <3>2. CASE n \in 1 .. l BY <1>6, <3>2
    <3> QED BY <3>1, <3>2
  <2>3. g = [n \in 0 .. l |-> IF n = 0 THEN e ELSE Move(t, n - 1, g[n - 1])]
    BY <2>1, <2>2
  <2> QED BY <1>1, <1>2, <2>3
<1>8. PICK f : f = moved OBVIOUS
<1>9. f = [n \in 0 .. t.cap |-> IF n = 0 THEN [New(2 * t.cap) EXCEPT !.ok = t.ok]
                                ELSE Move(t, n - 1, f[n - 1])]
  BY <1>7, <1>8
<1>10. u = f[t.cap] BY <1>8 DEF Rehash
<1> HIDE DEF moved
<1>11. f[0] = e BY <1>1, <1>2, <1>9
<1>12. ASSUME NEW n \in 1 .. t.cap PROVE f[n] = Move(t, n - 1, f[n - 1])
  <2>1. n \in 0 .. t.cap /\ n # 0 BY <1>1
  <2> QED BY <1>9, <2>1
<1> QED BY <1>2, <1>10, <1>11, <1>12

\* A table keeps its capacity, whatever happens to it.
LEMMA MoveCapacity ==
  ASSUME NEW t, NEW s, NEW m, DOMAIN m = Fields, NEW u, u = Move(t, s, m)
  PROVE  DOMAIN u = Fields /\ u.cap = m.cap
<1>1. CASE u = m BY <1>1
<1>2. CASE u = [m EXCEPT !.ok = FALSE] BY <1>2 DEF Fields
<1>3. CASE \E k, v : u = Put(m, k, v) /\ u # [m EXCEPT !.ok = FALSE]
  <2>1. PICK k, v : u = Put(m, k, v) /\ u # [m EXCEPT !.ok = FALSE] BY <1>3
  <2>2. PICK r : r = CHOOSE x \in AvailableInd(m, k) : TRUE OBVIOUS
  <2>3. u = [m EXCEPT !.keys[r] = k, !.vals[r] = v,
                      !.len = IF m.keys[r] = Nil THEN @ + 1 ELSE @]
    BY <2>1, <2>2 DEF Put
  <2> QED BY <2>3 DEF Fields
<1> QED BY <1>1, <1>2, <1>3 DEF Move

LEMMA RehashCapacity ==
  ASSUME NEW t, t.cap \in Nat, NEW u, u = Rehash(t)
  PROVE  u.cap = 2 * t.cap
<1>1. PICK f : /\ f[0] = [New(2 * t.cap) EXCEPT !.ok = t.ok]
               /\ \A n \in 1 .. t.cap : f[n] = Move(t, n - 1, f[n - 1])
               /\ u = f[t.cap]
  BY Moves
<1>2. PICK l \in Nat : l = t.cap OBVIOUS
<1> DEFINE S == {n \in 0 .. l : DOMAIN f[n] = Fields /\ f[n].cap = 2 * t.cap}
<1>3. 0 \in S
  <2>1. PICK e : e = f[0] OBVIOUS
  <2>2. DOMAIN e = Fields /\ e.cap = 2 * t.cap BY <1>1, <2>1 DEF New, Fields
  <2> QED BY <2>1, <2>2
<1>4. ASSUME NEW n \in 0 .. l - 1, n \in S PROVE n + 1 \in S
  <2>1. n + 1 \in 1 .. t.cap /\ (n + 1) - 1 = n BY <1>2
  <2>2. PICK m, e : m = f[n] /\ e = f[n + 1] /\ e = Move(t, n, m) BY <1>1, <2>1
  <2>3. DOMAIN m = Fields /\ m.cap = 2 * t.cap BY <1>4, <2>2
  <2>4. DOMAIN e = Fields /\ e.cap = m.cap BY <2>2, <2>3, MoveCapacity
  <2>5. n + 1 \in 0 .. l BY <1>2
  <2> QED BY <2>2, <2>3, <2>4, <2>5
<1>5. l \in S
  <2> HIDE DEF S
  <2>1. \A n \in 0 .. l : n \in S BY <1>3, <1>4, InductTo
  <2> QED BY <2>1
<1> QED BY <1>1, <1>2, <1>5

\* The table m has the entries of the first n slots of t.
HasMoved(t, m, n) ==
  /\ Table(m) /\ m.cap = 2 * t.cap
  /\ m.len = Cardinality({s \in 0 .. n - 1 : t.keys[s] # Nil})
  /\ \A q \in Key : \A w :
       At(m, q, w) <=> \E s \in 0 .. n - 1 : t.keys[s] = q /\ t.vals[s] = w

LEMMA OneMoves ==
  ASSUME HashIsNat, NEW t, Table(t), NEW n \in Nat, n < t.cap,
         NEW m, HasMoved(t, m, n), NEW u, u = Move(t, n, m)
  PROVE  HasMoved(t, u, n + 1)
<1>1. t.cap \in Nat /\ Slots(t) = 0 .. t.cap - 1 /\ n \in Slots(t) BY TableCapacity
<1>2. PICK k : k = t.keys[n] /\ k \in Key \cup {Nil} BY <1>1 DEF Table
<1> DEFINE Met(i) == {s \in 0 .. i - 1 : t.keys[s] # Nil}
<1>3. IsFiniteSet(Met(n)) /\ Cardinality(Met(n)) <= n
  <2>1. 0 \in Int /\ n - 1 \in Int OBVIOUS
  <2>2. IsFiniteSet(0 .. n - 1) /\ Cardinality(0 .. n - 1) = IF 0 > n - 1 THEN 0 ELSE n - 1 - 0 + 1
    BY <2>1, FS_Interval
  <2>3. Cardinality(0 .. n - 1) = n BY <2>2
  <2>4. Met(n) \in SUBSET (0 .. n - 1) OBVIOUS
  <2> HIDE DEF Met
  <2> QED BY <2>2, <2>3, <2>4, FS_Subset
<1>4. PICK o \in Nat : o = n + 1 /\ 0 .. o - 1 = (0 .. n - 1) \cup {n} /\ n \notin 0 .. n - 1
  OBVIOUS
<1>5. CASE k = Nil
  <2>1. u = m BY <1>2, <1>5 DEF Move
  <2>2. Met(o) = Met(n) BY <1>2, <1>4, <1>5
  <2>3. ASSUME NEW q \in Key, NEW w
        PROVE  At(u, q, w) <=> \E s \in 0 .. o - 1 : t.keys[s] = q /\ t.vals[s] = w
    <3>1. q # Nil BY TableAssumption
    <3>2. At(m, q, w) <=> \E s \in 0 .. n - 1 : t.keys[s] = q /\ t.vals[s] = w
      BY DEF HasMoved
    <3>3. \A s \in 0 .. o - 1 : t.keys[s] = q => s \in 0 .. n - 1
      BY <1>2, <1>4, <1>5, <3>1
    <3>4. (\E s \in 0 .. o - 1 : t.keys[s] = q /\ t.vals[s] = w)
            <=> \E s \in 0 .. n - 1 : t.keys[s] = q /\ t.vals[s] = w
      <4>1. \A s \in 0 .. n - 1 : s \in 0 .. o - 1 BY <1>4
      <4> QED BY <3>3, <4>1
    <3> QED BY <2>1, <3>2, <3>4
  <2>4. m.len = Cardinality(Met(o)) BY <2>2 DEF HasMoved
  <2>5. HasMoved(t, u, o) BY <2>1, <2>3, <2>4 DEF HasMoved
  <2> QED BY <1>4, <2>5
<1>6. CASE k # Nil
  <2>1. k \in Key BY <1>2, <1>6
  <2>2. Table(m) /\ m.cap = 2 * t.cap /\ m.len = Cardinality(Met(n)) BY DEF HasMoved
  <2>3. m.len < m.cap
    <3> HIDE DEF Met
    <3>1. Cardinality(Met(n)) \in Nat BY <1>3, FS_CardinalityType
    <3>2. PICK c \in Nat : c = Cardinality(Met(n)) BY <3>1
    <3>3. PICK d \in Nat : d = t.cap BY <1>1
    <3>4. c < 2 * d BY <1>3, <3>2, <3>3
    <3> QED BY <2>2, <3>2, <3>3, <3>4
  <2>4. ~In(m, k)
    <3>1. SUFFICES ASSUME NEW r \in Slots(m), m.keys[r] = k PROVE FALSE BY DEF In
    <3>2. At(m, k, m.vals[r]) BY <3>1 DEF At
    <3>3. PICK s \in 0 .. n - 1 : t.keys[s] = k BY <2>1, <3>2 DEF HasMoved
    <3>4. s \in Slots(t) /\ s # n BY <1>1
    <3> QED BY <1>1, <1>2, <1>6, <3>3, <3>4 DEF Table
  <2>5. ~(\E r \in AvailableInd(m, k) : m.keys[r] = k)
    <3>1. PICK r \in Slots(m) :
            AvailableInd(m, k) = {r} /\ (m.keys[r] = k \/ (m.keys[r] = Nil /\ ~In(m, k)))
      BY <2>1, <2>2, <2>3, AvailableIs
    <3>2. m.keys[r] # k BY <2>4 DEF In
    <3> QED BY <3>1, <3>2
  <2>6. PICK v : v = t.vals[n] OBVIOUS
  <2>7. u = Put(m, k, v) BY <1>2, <1>6, <2>5, <2>6 DEF Move
  <2>8. /\ Table(u) /\ u.cap = m.cap /\ u.len = IF In(m, k) THEN m.len ELSE m.len + 1
        /\ \A q \in Key : \A w : At(u, q, w) <=> IF q = k THEN w = v ELSE At(m, q, w)
    BY <2>1, <2>2, <2>3, <2>7, PutTable
  <2>9. u.len = Cardinality(Met(o))
    <3>1. Met(o) = Met(n) \cup {n} /\ n \notin Met(n) BY <1>2, <1>4, <1>6
    <3> HIDE DEF Met
    <3>2. Cardinality(Met(n) \cup {n}) = Cardinality(Met(n)) + 1
      BY <1>3, <3>1, FS_AddElement
    <3> QED BY <2>2, <2>4, <2>8, <3>1, <3>2
  <2>10. ASSUME NEW q \in Key, NEW w
         PROVE  At(u, q, w) <=> \E s \in 0 .. o - 1 : t.keys[s] = q /\ t.vals[s] = w
    <3>1. At(m, q, w) <=> \E s \in 0 .. n - 1 : t.keys[s] = q /\ t.vals[s] = w
      BY DEF HasMoved
    <3>2. CASE q = k
      <4>1. \A s \in 0 .. n - 1 : t.keys[s] # k
        <5>1. SUFFICES ASSUME NEW s \in 0 .. n - 1, t.keys[s] = k PROVE FALSE OBVIOUS
        <5>2. s \in Slots(t) /\ s # n BY <1>1
        <5> QED BY <1>1, <1>2, <1>6, <5>1, <5>2 DEF Table
      <4>2. At(u, q, w) <=> w = v BY <2>8, <3>2
      <4> QED BY <1>2, <1>4, <2>6, <3>2, <4>1, <4>2
    <3>3. CASE q # k
      <4>1. At(u, q, w) <=> At(m, q, w) BY <2>8, <3>3
      <4>2. (\E s \in 0 .. o - 1 : t.keys[s] = q /\ t.vals[s] = w)
              <=> \E s \in 0 .. n - 1 : t.keys[s] = q /\ t.vals[s] = w
        BY <1>2, <1>4, <3>3
      <4> QED BY <3>1, <4>1, <4>2
    <3> QED BY <3>2, <3>3
  <2>11. u.cap = 2 * t.cap BY <2>2, <2>8
  <2> QED BY <1>4, <2>8, <2>9, <2>10, <2>11 DEF HasMoved
<1> QED BY <1>5, <1>6

\* A rehash keeps what a table holds.
LEMMA RehashTable ==
  ASSUME HashIsNat, NEW t, Table(t), NEW x \in 2 .. Width - 1, 2 * t.cap = 2 ^ x,
         NEW u, u = Rehash(t)
  PROVE  /\ Table(u) /\ u.cap = 2 * t.cap /\ u.len = t.len
         /\ \A q \in Key : \A w : At(u, q, w) <=> At(t, q, w)
<1>1. PICK l \in Nat : l = t.cap /\ Slots(t) = 0 .. l - 1 BY TableCapacity
<1>2. PICK f : /\ f[0] = [New(2 * t.cap) EXCEPT !.ok = t.ok]
               /\ \A n \in 1 .. t.cap : f[n] = Move(t, n - 1, f[n - 1])
               /\ u = f[t.cap]
  BY <1>1, Moves
<1> DEFINE S == {n \in 0 .. l : HasMoved(t, f[n], n)}
<1>3. 0 \in S
  <2>1. PICK c : c = 2 * t.cap /\ c = 2 ^ x OBVIOUS
  <2>2. PICK e : e = New(c) OBVIOUS
  <2>3. t.ok = TRUE BY DEF Table
  <2>4. [e EXCEPT !.ok = t.ok] = e
    <3>1. DOMAIN e = Fields /\ e.ok = TRUE BY <2>2 DEF New, Fields
    <3>2. e = [y \in DOMAIN e |-> e[y]] BY <2>2 DEF New
    <3> QED BY <2>3, <3>1, <3>2 DEF Fields
  <2>5. f[0] = e BY <1>2, <2>1, <2>2, <2>4
  <2>6. Table(e) /\ e.cap = c /\ e.len = 0 /\ \A q \in Key : \A w : ~At(e, q, w)
    BY <2>1, <2>2, NewTable
  <2>7. {s \in 0 .. 0 - 1 : t.keys[s] # Nil} = {} OBVIOUS
  <2>8. e.len = Cardinality({s \in 0 .. 0 - 1 : t.keys[s] # Nil})
    BY <2>6, <2>7, FS_EmptySet
  <2>9. HasMoved(t, e, 0) BY <2>1, <2>6, <2>8 DEF HasMoved
  <2> QED BY <2>5, <2>9
<1>4. ASSUME NEW n \in 0 .. l - 1, n \in S PROVE n + 1 \in S
  <2>1. n + 1 \in 1 .. t.cap /\ (n + 1) - 1 = n /\ n \in Nat /\ n < t.cap BY <1>1
  <2>2. PICK m, e : m = f[n] /\ e = f[n + 1] /\ e = Move(t, n, m) BY <1>2, <2>1
  <2>3. HasMoved(t, m, n) BY <1>4, <2>2
  <2>4. HasMoved(t, e, n + 1) BY <2>1, <2>2, <2>3, OneMoves
  <2>5. n + 1 \in 0 .. l BY <1>1
  <2> QED BY <2>2, <2>4, <2>5
<1>5. l \in S
  <2> HIDE DEF S
  <2>1. \A n \in 0 .. l : n \in S BY <1>3, <1>4, InductTo
  <2> QED BY <2>1
<1>6. HasMoved(t, u, l) BY <1>1, <1>2, <1>5
<1>7. {s \in 0 .. l - 1 : t.keys[s] # Nil} = Used(t) BY <1>1 DEF Used
<1>8. u.len = t.len BY <1>6, <1>7 DEF HasMoved, Table
<1>9. ASSUME NEW q \in Key, NEW w PROVE At(u, q, w) <=> At(t, q, w)
  <2>1. At(u, q, w) <=> \E s \in 0 .. l - 1 : t.keys[s] = q /\ t.vals[s] = w
    BY <1>6 DEF HasMoved
  <2> QED BY <1>1, <2>1 DEF At
<1> QED BY <1>6, <1>8, <1>9 DEF HasMoved

\* A table without memory, or one with a free slot.
Roomy(t) == t = New(0) \/ (Table(t) /\ t.len < t.cap)

LEMMA NewEmpty ==
  ASSUME NEW t, t = New(0)
  PROVE  /\ DOMAIN t = Fields /\ t.ok = TRUE /\ t.cap = 0 /\ t.len = 0
         /\ Slots(t) = {} /\ \A q \in Key : \A w : ~At(t, q, w)
<1>1. DOMAIN t = Fields /\ t.ok = TRUE /\ t.cap = 0 /\ t.len = 0 BY DEF New, Fields
<1>2. Slots(t) = {} BY <1>1 DEF Slots
<1> QED BY <1>1, <1>2 DEF At

\* The first half of hash_table_set makes a table which is at most half full.
LEMMA WithRoomTable ==
  ASSUME HashIsNat, NEW t, Roomy(t), NEW u, u = WithRoom(t), u.cap <= MaxCap
  PROVE  /\ Table(u) /\ 2 * u.len <= u.cap
         /\ \A q \in Key : \A w : At(u, q, w) <=> At(t, q, w)
<1>1. CASE t.cap = 0
  <2>1. t = New(0)
    <3>1. SUFFICES ASSUME Table(t) PROVE FALSE BY DEF Roomy
    <3> QED BY <1>1, <3>1, TableCapacity
  <2>2. \A q \in Key : \A w : ~At(t, q, w) BY <2>1, NewEmpty
  <2>3. PICK n \in 2 .. Width - 1 : InitCap = 2 ^ n BY TableAssumption
  <2>4. u = New(InitCap) BY <1>1 DEF WithRoom
  <2>5. Table(u) /\ u.len = 0 /\ \A q \in Key : \A w : ~At(u, q, w) BY <2>3, <2>4, NewTable
  <2>6. u.cap \in Nat BY <2>5, TableCapacity
  <2> QED BY <2>2, <2>5, <2>6
<1>2. CASE t.cap # 0
  <2>1. Table(t) /\ t.len < t.cap BY <1>2, NewEmpty DEF Roomy
  <2>2. t.cap \in Nat BY <2>1, TableCapacity
  <2>3. t.len \in Nat
    <3>1. IsFiniteSet(Used(t)) BY <2>2, SlotsFinite
    <3> QED BY <2>1, <3>1, FS_CardinalityType DEF Table
  <2>4. CASE Loaded(t)
    <3>1. u = Rehash(t) BY <1>2, <2>4 DEF WithRoom
    <3>2. u.cap = 2 * t.cap BY <2>2, <3>1, RehashCapacity
    <3>3. PICK n \in 2 .. Width - 1 : t.cap = 2 ^ n BY <2>1 DEF Table
    <3>4. Width \in Nat /\ n \in Nat BY Capacity
    <3>5. PICK x \in Nat : x = n + 1 /\ 2 ^ x = 2 * t.cap BY <3>3, <3>4, PowerNext
    <3>6. 2 ^ x < 2 ^ Width
      <4>1. PICK c \in Nat, d \in Nat, e \in Nat :
              c = u.cap /\ d = MaxCap /\ e = 2 ^ Width /\ d < e
        BY <2>2, <3>2, <3>4, PowerPositive, TableAssumption
      <4> QED BY <3>2, <3>5, <4>1
    <3>7. x < Width BY <3>4, <3>6, PowerMonotonic
    <3>8. x \in 2 .. Width - 1 BY <3>3, <3>4, <3>5, <3>7
    <3>9. 2 * t.cap = 2 ^ x BY <3>5
    <3>10. Table(u) /\ u.len = t.len /\ \A q \in Key : \A w : At(u, q, w) <=> At(t, q, w)
      BY <2>1, <3>1, <3>8, <3>9, RehashTable
    <3>11. 2 * u.len <= u.cap
      <4>1. PICK l \in Nat, c \in Nat : l = t.len /\ c = t.cap /\ l < c BY <2>1, <2>2, <2>3
      <4> QED BY <3>2, <3>10, <4>1
    <3> QED BY <3>10, <3>11
  <2>5. CASE ~Loaded(t)
    <3>1. u = t BY <1>2, <2>5 DEF WithRoom
    <3>2. 2 * t.len <= t.cap
      <4>1. PICK l \in Nat, c \in Nat : l = t.len /\ c = t.cap BY <2>2, <2>3
      <4>2. ~(2 * l > c) BY <2>5, <4>1 DEF Loaded
      <4> QED BY <4>1, <4>2
    <3> QED BY <2>1, <3>1, <3>2
  <2> QED BY <2>4, <2>5
<1> QED BY <1>1, <1>2

\* All of hash_table_set, and of set_add_impl.
LEMMA Sets ==
  ASSUME HashIsNat, NEW t, Roomy(t), WithRoom(t).cap <= MaxCap,
         NEW k \in Key, NEW v, NEW u, u = Put(WithRoom(t), k, v)
  PROVE  /\ Table(u) /\ u.len < u.cap
         /\ \A q \in Key : \A w : At(u, q, w) <=> IF q = k THEN w = v ELSE At(t, q, w)
<1>1. PICK r : r = WithRoom(t) /\ r.cap <= MaxCap /\ u = Put(r, k, v) OBVIOUS
<1>2. Table(r) /\ 2 * r.len <= r.cap /\ \A q \in Key : \A w : At(r, q, w) <=> At(t, q, w)
  BY <1>1, WithRoomTable
<1>3. PICK l \in Nat, c \in Nat : l = r.len /\ c = r.cap /\ c >= 4 /\ 2 * l <= c
  <2>1. r.cap \in Nat /\ r.cap >= 4 BY <1>2, TableCapacity
  <2>2. IsFiniteSet(Used(r)) BY <2>1, SlotsFinite
  <2>3. r.len \in Nat BY <1>2, <2>2, FS_CardinalityType DEF Table
  <2> QED BY <1>2, <2>1, <2>3
<1>4. l < c /\ l + 1 < c BY <1>3
<1>5. r.len < r.cap BY <1>3, <1>4
<1>6. /\ Table(u) /\ u.cap = r.cap /\ u.len = IF In(r, k) THEN r.len ELSE r.len + 1
      /\ \A q \in Key : \A w : At(u, q, w) <=> IF q = k THEN w = v ELSE At(r, q, w)
  BY <1>1, <1>2, <1>5, PutTable
<1>7. u.len < u.cap BY <1>3, <1>4, <1>6
<1> QED BY <1>2, <1>6, <1>7

-----------------------------------------------------------------------------
(* The table is always one *)

Inv == hash \in [Key -> Hash] /\ Roomy(tab)

LEMMA InvHash ==
  ASSUME Inv
  PROVE  HashIsNat
BY TableAssumption DEF Inv, HashIsNat

LEMMA StaysTable ==
  ASSUME hash' = hash, NEW u, u = tab', Table(u)
  PROVE  Table(tab)'
BY DEF Table, OnTheWay, ProbeInd, Slots, Used

LEMMA StaysRoomy ==
  ASSUME hash' = hash, NEW u, u = tab', Roomy(u)
  PROVE  Roomy(tab)'
BY StaysTable DEF Roomy

\* Emptying a table: it keeps its memory.
LEMMA TruncRoomy ==
  ASSUME NEW t, Roomy(t), NEW u, u = [New(t.cap) EXCEPT !.ok = t.ok]
  PROVE  Roomy(u) /\ \A q \in Key : \A w : ~At(u, q, w)
<1>1. PICK e : e = New(t.cap) OBVIOUS
<1>2. t.ok = TRUE BY NewEmpty DEF Roomy, Table
<1>3. u = e
  <2>1. DOMAIN e = Fields /\ e.ok = TRUE /\ e = [y \in DOMAIN e |-> e[y]]
    BY <1>1 DEF New, Fields
  <2> QED BY <1>1, <1>2, <2>1 DEF Fields
<1>4. CASE t = New(0)
  <2>1. u = New(0) BY <1>1, <1>3, <1>4, NewEmpty
  <2> QED BY <2>1, NewEmpty DEF Roomy
<1>5. CASE Table(t)
  <2>1. PICK n \in 2 .. Width - 1 : t.cap = 2 ^ n BY <1>5 DEF Table
  <2>2. Table(u) /\ u.cap = t.cap /\ u.len = 0 /\ \A q \in Key : \A w : ~At(u, q, w)
    BY <1>1, <1>3, <2>1, NewTable
  <2>3. u.cap \in Nat /\ u.cap >= 4 BY <2>2, TableCapacity
  <2> QED BY <2>2, <2>3 DEF Roomy
<1> QED BY <1>4, <1>5 DEF Roomy

LEMMA InitInv ==
  ASSUME Init
  PROVE  Inv
BY DEF Init, Inv, Roomy

LEMMA NextInv ==
  ASSUME Inv, [Next]_vars
  PROVE  Inv'
<1>1. hash' = hash BY DEF Next, Trunc, Add, Set, vars
<1>2. hash' \in [Key -> Hash] BY <1>1 DEF Inv
<1>3. HashIsNat BY InvHash
<1>4. Roomy(tab) BY DEF Inv
<1>5. PICK u : u = tab' OBVIOUS
<1>6. Roomy(u)
  <2>1. CASE Trunc
    <3>1. u = [New(tab.cap) EXCEPT !.ok = tab.ok] BY <1>5, <2>1 DEF Trunc
    <3> QED BY <1>4, <3>1, TruncRoomy
  <2>2. ASSUME NEW k \in Key, Add(k) PROVE Roomy(u)
    <3>1. u = Put(WithRoom(tab), k, InSet) /\ WithRoom(tab).cap <= MaxCap
      BY <1>5, <2>2 DEF Add
    <3>2. Table(u) /\ u.len < u.cap BY <1>3, <1>4, <3>1, Sets
    <3> QED BY <3>2 DEF Roomy
  <2>3. ASSUME NEW k \in Key, NEW v \in Val, Set(k, v) PROVE Roomy(u)
    <3>1. u = Put(WithRoom(tab), k, v) /\ WithRoom(tab).cap <= MaxCap
      BY <1>5, <2>3 DEF Set
    <3>2. Table(u) /\ u.len < u.cap BY <1>3, <1>4, <3>1, Sets
    <3> QED BY <3>2 DEF Roomy
  <2>4. CASE UNCHANGED vars BY <1>4, <1>5, <2>4 DEF vars
  <2> QED BY <2>1, <2>2, <2>3, <2>4 DEF Next
<1>7. Roomy(tab)' BY <1>1, <1>5, <1>6, StaysRoomy
<1> QED BY <1>2, <1>7 DEF Inv

\* The inductive invariant: after every call the table is one with a free slot, or has
\* no memory yet.
THEOREM AlwaysInv == Spec => []Inv
<1>1. Init => Inv BY InitInv
<1>2. Inv /\ [Next]_vars => Inv' BY NextInv
<1> QED BY <1>1, <1>2, PTL DEF Spec

\* hash_table_probe: the probes of a key reach every slot of a table, for every
\* width of Ind and every capacity up to half of what it can hold.
THEOREM ProbesReachEverySlot == Spec => []ProbesReachAll
<1>1. ASSUME Inv PROVE ProbesReachAll
  <2>1. SUFFICES ASSUME NEW k \in Key, NEW n \in 0 .. Width - 1
                 PROVE  {(hash[k] + Probe(i)) % (2 ^ n) : i \in 0 .. 2 ^ n - 1}
                          = 0 .. 2 ^ n - 1
    BY DEF ProbesReachAll
  <2>2. Width \in Nat /\ n \in Nat /\ n < Width
    <3>1. Width \in Nat BY TableAssumption
    <3> QED BY <3>1
  <2>3. PICK h \in Nat : h = hash[k] BY <1>1, InvHash DEF HashIsNat
  <2> QED BY <2>2, <2>3, ProbesReach
<1>2. Inv => ProbesReachAll BY <1>1
<1> QED BY <1>2, AlwaysInv, PTL

\* hash_table_set, hash_table_rehash, hash_table_trunc, set_add_impl: the assertions
\* hold, the length is that of the entries, and a slot is left free, whatever the
\* hashes and the sequence of calls.
THEOREM RoomStaysLeft == Spec => []RoomLeft
<1>1. ASSUME Inv PROVE RoomLeft
  <2>1. Width \in Nat BY TableAssumption
  <2>2. CASE tab = New(0)
    <3>1. tab.ok = TRUE /\ tab.cap = 0 /\ tab.len = 0 /\ Slots(tab) = {}
      BY <2>2, NewEmpty
    <3>2. {s \in Slots(tab) : tab.keys[s] # Nil} = {} BY <3>1
    <3>3. tab.len = Cardinality({s \in Slots(tab) : tab.keys[s] # Nil})
      BY <3>1, <3>2, FS_EmptySet
    <3> QED BY <3>1, <3>3 DEF RoomLeft
  <2>3. CASE Table(tab) /\ tab.len < tab.cap
    <3>1. PICK n \in 2 .. Width - 1 : tab.cap = 2 ^ n BY <2>3 DEF Table
    <3>2. n \in 0 .. Width - 1 BY <2>1
    <3>3. tab.cap \in {0} \cup {2 ^ x : x \in 0 .. Width - 1} BY <3>1, <3>2
    <3>4. tab.len = Cardinality({s \in Slots(tab) : tab.keys[s] # Nil})
      BY <2>3 DEF Table, Used
    <3>5. tab.ok = TRUE BY <2>3 DEF Table
    <3> QED BY <2>3, <3>3, <3>4, <3>5 DEF RoomLeft
  <2> QED BY <1>1, <2>2, <2>3 DEF Inv, Roomy
<1>2. Inv => RoomLeft BY <1>1
<1> QED BY <1>2, AlwaysInv, PTL

-----------------------------------------------------------------------------
(* It is a map *)

\* What is found in a table, other than the one of the state.
GetIn(t, k) == IF MatchingInd(t, k) = {} THEN Nil
               ELSE t.vals[CHOOSE s \in MatchingInd(t, k) : TRUE]

LEMMA Found ==
  ASSUME HashIsNat, NEW t, Table(t), NEW k \in Key
  PROVE  \/ \A v : At(t, k, v) <=> v = GetIn(t, k)
         \/ (\A v : ~At(t, k, v)) /\ GetIn(t, k) = Nil
<1>1. CASE In(t, k)
  <2>1. PICK s \in Slots(t) : t.keys[s] = k BY <1>1 DEF In
  <2>2. MatchingInd(t, k) = {s} BY <2>1, MatchingIs
  <2>3. (CHOOSE r \in MatchingInd(t, k) : TRUE) = s BY <2>2
  <2>4. GetIn(t, k) = t.vals[s] BY <2>2, <2>3 DEF GetIn
  <2>5. \A r \in Slots(t) : t.keys[r] = k => r = s
    <3>1. k # Nil BY TableAssumption
    <3> QED BY <2>1, <3>1 DEF Table
  <2>6. \A v : At(t, k, v) <=> v = t.vals[s] BY <2>1, <2>5 DEF At
  <2> QED BY <2>4, <2>6
<1>2. CASE ~In(t, k)
  <2>1. GetIn(t, k) = Nil BY <1>2, NotMatching DEF GetIn
  <2> QED BY <1>2, <2>1 DEF In, At
<1> QED BY <1>1, <1>2

LEMMA NewFinds ==
  ASSUME NEW t, t = New(0), NEW k
  PROVE  GetIn(t, k) = Nil
<1>1. Slots(t) = {} BY NewEmpty
<1>2. MatchingInd(t, k) = {} BY <1>1 DEF MatchingInd, FirstTurn
<1> QED BY <1>2 DEF GetIn

\* What is found is what was put, and nothing where nothing was.
LEMMA Finds ==
  ASSUME HashIsNat, NEW t, Roomy(t), NEW k \in Key
  PROVE  \/ \A v : At(t, k, v) <=> v = GetIn(t, k)
         \/ (\A v : ~At(t, k, v)) /\ GetIn(t, k) = Nil
<1>1. CASE t = New(0) BY <1>1, NewEmpty, NewFinds
<1>2. CASE Table(t) BY <1>2, Found
<1> QED BY <1>1, <1>2 DEF Roomy

LEMMA PutFinds ==
  ASSUME HashIsNat, NEW t, Roomy(t), NEW k \in Key, NEW v, NEW u, Roomy(u),
         \A q \in Key : \A w : At(u, q, w) <=> IF q = k THEN w = v ELSE At(t, q, w)
  PROVE  \A q \in Key : GetIn(u, q) = IF q = k THEN v ELSE GetIn(t, q)
<1>1. SUFFICES ASSUME NEW q \in Key PROVE GetIn(u, q) = IF q = k THEN v ELSE GetIn(t, q)
  OBVIOUS
<1>2. \/ \A w : At(u, q, w) <=> w = GetIn(u, q)
      \/ (\A w : ~At(u, q, w)) /\ GetIn(u, q) = Nil
  BY Finds
<1>3. CASE q = k
  <2>1. At(u, q, v) BY <1>3
  <2> QED BY <1>2, <1>3, <2>1
<1>4. CASE q # k
  <2>1. \A w : At(u, q, w) <=> At(t, q, w) BY <1>4
  <2>2. \/ \A w : At(t, q, w) <=> w = GetIn(t, q)
        \/ (\A w : ~At(t, q, w)) /\ GetIn(t, q) = Nil
    BY Finds
  <2>3. GetIn(u, q) = GetIn(t, q)
    <3>1. CASE \A w : ~At(u, q, w) BY <1>2, <2>1, <2>2, <3>1
    <3>2. CASE \A w : At(u, q, w) <=> w = GetIn(u, q) BY <2>1, <2>2, <3>2
    <3> QED BY <1>2, <3>1, <3>2
  <2> QED BY <1>4, <2>3
<1> QED BY <1>3, <1>4

LEMMA GetIs ==
  ASSUME NEW k
  PROVE  Get(k) = GetIn(tab, k)
BY DEF Get, GetIn

LEMMA GetWillBe ==
  ASSUME hash' = hash, NEW u, u = tab', NEW k \in Key
  PROVE  Get(k)' = GetIn(u, k)
<1>1. PICK M : M = MatchingInd(u, k) OBVIOUS
<1>2. MatchingInd(tab, k)' = M BY <1>1 DEF MatchingInd, FirstTurn, ProbeInd, Slots
<1> QED BY <1>1, <1>2 DEF Get, GetIn

\* The map of a state.
Held == [k \in Key |-> Get(k)]

LEMMA InitHeld ==
  ASSUME Init
  PROVE  Abstract!Init
<1>1. tab = New(0) BY DEF Init
<1>2. \A k \in Key : Get(k) = Nil BY <1>1, NewFinds, GetIs
<1> QED BY <1>2 DEF Abstract!Init

LEMMA SetHeld ==
  ASSUME Inv, Inv', hash' = hash, NEW k \in Key, NEW v \in Val \cup {InSet},
         tab' = Put(WithRoom(tab), k, v), WithRoom(tab).cap <= MaxCap
  PROVE  Abstract!Next
<1>1. HashIsNat /\ Roomy(tab) BY InvHash DEF Inv
<1>2. PICK u : u = tab' OBVIOUS
<1>3. /\ Table(u) /\ u.len < u.cap
      /\ \A q \in Key : \A w : At(u, q, w) <=> IF q = k THEN w = v ELSE At(tab, q, w)
  BY <1>1, <1>2, Sets
<1>4. Roomy(u) BY <1>3 DEF Roomy
<1>5. \A q \in Key : GetIn(u, q) = IF q = k THEN v ELSE GetIn(tab, q)
  BY <1>1, <1>3, <1>4, PutFinds
<1>6. \A q \in Key : Get(q)' = IF q = k THEN v ELSE Get(q)
  BY <1>2, <1>5, GetIs, GetWillBe
<1>7. Held' = [Held EXCEPT ![k] = v] BY <1>6 DEF Held
<1>8. Abstract!Set(k, v) BY <1>7 DEF Abstract!Set, Held
<1> QED BY <1>8 DEF Abstract!Next

LEMMA TruncHeld ==
  ASSUME Inv, hash' = hash, tab' = [New(tab.cap) EXCEPT !.ok = tab.ok]
  PROVE  Abstract!Next
<1>1. HashIsNat /\ Roomy(tab) BY InvHash DEF Inv
<1>2. PICK u : u = tab' OBVIOUS
<1>3. Roomy(u) /\ \A q \in Key : \A w : ~At(u, q, w) BY <1>1, <1>2, TruncRoomy
<1>4. \A q \in Key : GetIn(u, q) = Nil BY <1>1, <1>3, Finds
<1>5. \A q \in Key : Get(q)' = Nil BY <1>2, <1>4, GetWillBe
<1>6. Held' = [q \in Key |-> Nil] BY <1>5 DEF Held
<1>7. Abstract!Trunc BY <1>6 DEF Abstract!Trunc, Held
<1> QED BY <1>7 DEF Abstract!Next

LEMMA NextHeld ==
  ASSUME Inv, Inv', [Next]_vars
  PROVE  Abstract!Next \/ UNCHANGED Held
<1>1. hash' = hash BY DEF Next, Trunc, Add, Set, vars
<1>2. CASE Trunc BY <1>1, <1>2, TruncHeld DEF Trunc
<1>3. ASSUME NEW k \in Key, Add(k) PROVE Abstract!Next
  <2>1. InSet \in Val \cup {InSet} OBVIOUS
  <2>2. tab' = Put(WithRoom(tab), k, InSet) /\ WithRoom(tab).cap <= MaxCap BY <1>3 DEF Add
  <2> QED BY <1>1, <2>1, <2>2, SetHeld
<1>4. ASSUME NEW k \in Key, NEW v \in Val, Set(k, v) PROVE Abstract!Next
  <2>1. v \in Val \cup {InSet} OBVIOUS
  <2>2. tab' = Put(WithRoom(tab), k, v) /\ WithRoom(tab).cap <= MaxCap BY <1>4 DEF Set
  <2> QED BY <1>1, <2>1, <2>2, SetHeld
<1>5. CASE UNCHANGED vars
  <2>1. PICK u : u = tab' OBVIOUS
  <2>2. u = tab BY <1>5, <2>1 DEF vars
  <2>3. \A q \in Key : Get(q)' = Get(q) BY <1>1, <2>1, <2>2, GetIs, GetWillBe
  <2> QED BY <2>3 DEF Held
<1> QED BY <1>2, <1>3, <1>4, <1>5 DEF Next

\* hash_table_set, hash_table_trunc, set_add_impl and the lookups of dict.c, map.c and
\* set.c: collisions, growth and truncation never lose, duplicate or mix up an entry.
THEOREM TableIsMap == Spec => IsMap
<1>1. Init => Abstract!Init BY InitHeld
<1>2. Inv /\ Inv' /\ [Next]_vars => [Abstract!Next]_Held BY NextHeld
<1>3. IsMap <=> Abstract!Init /\ [][Abstract!Next]_Held
  BY DEF IsMap, Abstract!Spec, Held
<1> QED BY <1>1, <1>2, <1>3, AlwaysInv, PTL DEF Spec
=============================================================================
