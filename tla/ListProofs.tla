------------------------------ MODULE ListProofs ----------------------------
(***************************************************************************)
(* What the operators on lists and sets of numbers return: the lemmas that *)
(* the proofs about the components share.                                  *)
(***************************************************************************)
EXTENDS ListOps, Links, TLAPS, SequenceTheorems, FiniteSetTheorems, WellFoundedInduction

\* A search upward stops at the smallest index there is.
LEMMA LeastIn ==
    ASSUME NEW T \in SUBSET Nat, T # {}
    PROVE  least(T) \in T /\ \A k \in T : least(T) <= k
<1> DEFINE R == {z \in Nat \X Nat : z[1] < z[2]}
<1>1. IsWellFoundedOn(R, Nat)
  BY NatLessThanWellFounded DEF OpToRel
<1>2. PICK m \in T : \A k \in T : ~ (<<k, m>> \in R)
  BY <1>1, WFMin
<1>3. ASSUME NEW k \in T PROVE m <= k
  <2>1. m \in Nat /\ k \in Nat /\ <<k, m>> \in Nat \X Nat
    OBVIOUS
  <2>2. ~ (k < m)
    BY <1>2, <2>1
  <2>3. QED
    BY <2>1, <2>2
<1>4. QED
  BY <1>3 DEF least

LEMMA LeastNat ==
    ASSUME NEW T \in SUBSET Nat, T # {}
    PROVE  \E m \in T : \A k \in T : m <= k
  BY LeastIn

\* The increasing enumeration of a set of positions.
Increasing(f, c) == \A i, j \in 1 .. c : i < j => f[i] < f[j]
Enumerates(f, T) ==
    /\ f \in [1 .. Cardinality(T) -> T]
    /\ Increasing(f, Cardinality(T))
    /\ \A x \in T : \E i \in 1 .. Cardinality(T) : f[i] = x

LEMMA PositionsFinite ==
    ASSUME NEW n \in Nat, NEW T \in SUBSET (1 .. n)
    PROVE  IsFiniteSet(T) /\ Cardinality(T) \in Nat
<1>1. IsFiniteSet(1 .. n)
  BY FS_Interval
<1>2. IsFiniteSet(T)
  BY <1>1, FS_Subset
<1>3. QED
  BY <1>2, FS_CardinalityType

\* Every set of positions has one: by the least length that has a set without.
LEMMA Enumerate ==
    ASSUME NEW n \in Nat, NEW T \in SUBSET (1 .. n)
    PROVE  \E f : Enumerates(f, T)
<1> DEFINE bad == {m \in Nat : \E X \in SUBSET (1 .. m) : ~ \E f : Enumerates(f, X)}
<1>1. SUFFICES ASSUME bad # {} PROVE FALSE
  OBVIOUS
<1>2. PICK m \in bad : \A k \in bad : m <= k
  <2> HIDE DEF bad
  <2>1. bad \in SUBSET Nat
    BY DEF bad
  <2>2. QED
    BY <1>1, <2>1, LeastNat
<1>3. m \in Nat
  OBVIOUS
<1>4. PICK X \in SUBSET (1 .. m) : ~ \E f : Enumerates(f, X)
  OBVIOUS
<1>5. CASE m \notin X
  <2>1. m # 0
    <3>1. SUFFICES ASSUME m = 0 PROVE FALSE
      OBVIOUS
    <3>2. X = {} /\ Cardinality(X) = 0
      <4>1. X = {}
        BY <3>1
      <4>2. QED
        BY <4>1, FS_EmptySet
    <3>3. Enumerates([i \in 1 .. 0 |-> i], X)
      BY <3>2 DEF Enumerates, Increasing
    <3>4. QED
      BY <1>4, <3>3
  <2>2. m - 1 \in Nat /\ X \in SUBSET (1 .. m - 1) /\ ~ (m <= m - 1)
    BY <1>3, <1>5, <2>1
  <2>3. m - 1 \in bad
    BY <1>4, <2>2
  <2>4. QED
    BY <1>2, <2>2, <2>3
<1>6. CASE m \in X
  <2> DEFINE Y == X \ {m}
             c == Cardinality(Y)
  <2>1. m \in 1 .. m /\ m - 1 \in Nat /\ Y \in SUBSET (1 .. m - 1) /\ ~ (m <= m - 1)
    BY <1>3, <1>6
  <2>2. PICK f : Enumerates(f, Y)
    BY <1>2, <2>1
  <2>3. Cardinality(X) = c + 1 /\ c \in Nat
    <3>1. IsFiniteSet(X) /\ Cardinality(X) \in Nat
      BY <1>3, PositionsFinite
    <3>2. Cardinality(Y) = Cardinality(X) - 1
      BY <1>6, <3>1, FS_RemoveElement
    <3>3. Cardinality(Y) \in Nat
      BY <2>1, PositionsFinite
    <3>4. QED
      BY <3>1, <3>2, <3>3
  <2> DEFINE g == [i \in 1 .. c + 1 |-> IF i <= c THEN f[i] ELSE m]
  <2>4. \A i \in 1 .. c : f[i] \in Y /\ f[i] < m /\ f[i] \in Nat
    <3> HIDE DEF c, Y
    <3>1. \A i \in 1 .. c : f[i] \in Y
      BY <2>2 DEF Enumerates, c
    <3>2. \A y \in Y : y < m /\ y \in Nat
      BY <1>3, <2>1
    <3>3. QED
      BY <3>1, <3>2
  <2>5. g \in [1 .. c + 1 -> X]
    BY <1>6, <2>3, <2>4
  <2>6. Increasing(g, c + 1)
    <3>1. Increasing(f, c)
      BY <2>2 DEF Enumerates
    <3> HIDE DEF c
    <3>2. ASSUME NEW i \in 1 .. c + 1, NEW j \in 1 .. c + 1, i < j
          PROVE  g[i] < g[j]
      <4>1. i \in 1 .. c /\ i <= c
        BY <2>3, <3>2
      <4>2. CASE j <= c
        <5>1. j \in 1 .. c
          BY <2>3, <4>2
        <5>2. QED
          BY <3>1, <3>2, <4>1, <4>2, <5>1 DEF Increasing
      <4>3. CASE ~ (j <= c)
        BY <2>4, <4>1, <4>3
      <4>4. QED
        BY <4>2, <4>3
    <3>3. QED
      BY <3>2 DEF Increasing
  <2>7. ASSUME NEW x \in X PROVE \E i \in 1 .. c + 1 : g[i] = x
    <3>1. CASE x = m
      <4>1. c + 1 \in 1 .. c + 1 /\ ~ (c + 1 <= c)
        BY <2>3
      <4>2. QED
        BY <3>1, <4>1
    <3>2. CASE x # m
      <4>1. PICK i \in 1 .. c : f[i] = x
        BY <2>2, <3>2 DEF Enumerates
      <4>2. i \in 1 .. c + 1 /\ i <= c
        BY <2>3, <4>1
      <4>3. QED
        BY <4>1, <4>2
    <3>3. QED
      BY <3>1, <3>2
  <2>8. Enumerates(g, X)
    <3> HIDE DEF g, c
    <3>1. QED
      BY <2>3, <2>5, <2>6, <2>7 DEF Enumerates
  <2>9. QED
    BY <1>4, <2>8
<1>7. QED
  BY <1>5, <1>6

\* Two increasing enumerations into a set agree in number, so the one the
\* definition chooses also reaches every element.
LEMMA IncreasingOnto ==
    ASSUME NEW n \in Nat, NEW T \in SUBSET (1 .. n),
           NEW f \in [1 .. Cardinality(T) -> T], Increasing(f, Cardinality(T))
    PROVE  Enumerates(f, T)
<1> DEFINE c == Cardinality(T)
<1>1. IsFiniteSet(T) /\ c \in Nat
  BY PositionsFinite
<1>2. \A i, j \in 1 .. c : i # j => f[i] # f[j]
  <2>1. \A i, j \in 1 .. c : i < j => f[i] < f[j]
    BY DEF Increasing
  <2>2. \A i \in 1 .. c : f[i] \in Nat
    <3>1. \A i \in 1 .. c : f[i] \in T
      OBVIOUS
    <3>2. T \subseteq Nat
      OBVIOUS
    <3>3. QED
      BY <3>1, <3>2
  <2>3. QED
    BY <1>1, <2>1, <2>2
<1>3. f \in Injection(1 .. c, T)
  BY <1>2 DEF Injection, IsInjective
<1> DEFINE R == {f[i] : i \in 1 .. c}
<1>4. IsFiniteSet(1 .. c) /\ Cardinality(1 .. c) = c
  <2>1. IsFiniteSet(1 .. c) /\ Cardinality(1 .. c) = IF 1 > c THEN 0 ELSE c - 1 + 1
    BY <1>1, FS_Interval
  <2> HIDE DEF c
  <2>2. QED
    BY <1>1, <2>1
<1>5. Range(f) = R
  BY DEF Range
<1>6. Cardinality(R) = c /\ R \subseteq T
  <2>1. f \in Bijection(1 .. c, R)
    BY <1>2 DEF Bijection, Injection, Surjection, IsInjective
  <2>2. Cardinality(1 .. c) = Cardinality(R)
    <3>1. ExistsBijection(1 .. c, R)
      BY <2>1 DEF ExistsBijection
    <3> HIDE DEF R, c
    <3>2. QED
      BY <1>4, <3>1, FS_Bijection
  <2>3. R \subseteq T
    OBVIOUS
  <2>4. QED
    BY <1>4, <2>2, <2>3
<1>7. R = T
  <2> HIDE DEF R
  <2>1. QED
    BY <1>1, <1>6, FS_Subset
<1>8. QED
  BY <1>7 DEF Enumerates

\* r is what q holds that is not gone, in q's order.
KeptOf(r, q, gone) ==
    \E f \in [1 .. Len(r) -> 1 .. Len(q)] :
       /\ Increasing(f, Len(r))
       /\ \A i \in 1 .. Len(r) : r[i] = q[f[i]] /\ q[f[i]] \notin gone
       /\ \A j \in 1 .. Len(q) : q[j] \notin gone => \E i \in 1 .. Len(r) : f[i] = j

\* list_remove() of several elements: what stays keeps its order.
LEMMA WithoutKeeps ==
    ASSUME NEW S, NEW q \in Seq(S), NEW gone
    PROVE  /\ list_without(q, gone) \in Seq(S) /\ Len(list_without(q, gone)) <= Len(q)
           /\ KeptOf(list_without(q, gone), q, gone)
<1> DEFINE n == Len(q)
           T == {i \in 1 .. n : q[i] \notin gone}
           c == Cardinality(T)
           e == CHOOSE f \in [1 .. c -> T] : \A i, j \in 1 .. c : i < j => f[i] < f[j]
           r == [i \in 1 .. c |-> q[e[i]]]
<1>1. n \in Nat /\ T \in SUBSET (1 .. n) /\ \A i \in 1 .. n : q[i] \in S
  OBVIOUS
<1>2. IsFiniteSet(T) /\ c \in Nat
  BY <1>1, PositionsFinite
<1>3. list_without(q, gone) = r
  BY DEF list_without
<1>4. e \in [1 .. c -> T] /\ \A i, j \in 1 .. c : i < j => e[i] < e[j]
  <2> HIDE DEF T
  <2>1. PICK f : Enumerates(f, T)
    BY <1>1, Enumerate
  <2>2. f \in [1 .. c -> T] /\ \A i, j \in 1 .. c : i < j => f[i] < f[j]
    BY <2>1 DEF Enumerates, Increasing
  <2> HIDE DEF c
  <2>3. QED
    BY <2>2
<1>5. Enumerates(e, T)
  <2> HIDE DEF T, e, n
  <2>1. Increasing(e, c)
    BY <1>4 DEF Increasing
  <2>2. QED
    BY <1>1, <1>4, <2>1, IncreasingOnto
<1> HIDE DEF e
<1>6. \A i \in 1 .. c : e[i] \in 1 .. n /\ q[e[i]] \notin gone /\ q[e[i]] \in S
  BY <1>1, <1>4
<1> HIDE DEF T
<1>7. r \in Seq(S) /\ Len(r) = c /\ \A i \in 1 .. c : r[i] = q[e[i]]
  <2> HIDE DEF c
  <2>1. r \in [1 .. c -> S]
    BY <1>6
  <2>2. QED
    BY <1>2, <2>1
<1>8. c <= n
  <2>1. IsFiniteSet(1 .. n) /\ Cardinality(1 .. n) = IF 1 > n THEN 0 ELSE n - 1 + 1
    BY <1>1, FS_Interval
  <2>2. Cardinality(T) <= Cardinality(1 .. n)
    BY <1>1, <2>1, FS_Subset
  <2> HIDE DEF n
  <2>3. QED
    BY <1>1, <1>2, <2>1, <2>2
<1>9. e \in [1 .. c -> 1 .. n]
  BY <1>4, <1>6
<1>10. \A j \in 1 .. n : q[j] \notin gone => \E i \in 1 .. c : e[i] = j
  BY <1>5 DEF Enumerates, T
<1>11. Increasing(e, c)
  BY <1>5 DEF Enumerates
<1> HIDE DEF r, c
<1>12. QED
  BY <1>3, <1>6, <1>7, <1>8, <1>9, <1>10, <1>11 DEF KeptOf

\* An increasing enumeration of an interval counts through it.
Covers(f, n, k, m) ==
    /\ \A i \in 1 .. n : f[i] \in (k + 1) .. m
    /\ Increasing(f, n)
    /\ \A j \in (k + 1) .. m : \E i \in 1 .. n : f[i] = j

LEMMA IncreasingShift ==
    ASSUME NEW n \in Nat, NEW m \in Nat, NEW k \in 0 .. m, NEW f, Covers(f, n, k, m)
    PROVE  n = m - k /\ \A i \in 1 .. n : f[i] = i + k
<1> USE DEF Covers
<1>1. \A i \in 1 .. n : f[i] = i + k
  <2> DEFINE bad == {i \in 1 .. n : f[i] # i + k}
  <2>1. SUFFICES ASSUME bad # {} PROVE FALSE
    OBVIOUS
  <2>2. PICK b \in bad : \A j \in bad : b <= j
    <3>1. bad \in SUBSET Nat
      OBVIOUS
    <3> HIDE DEF bad
    <3>2. QED
      BY <2>1, <3>1, LeastNat
  <2>3. b \in 1 .. n /\ f[b] # b + k /\ f[b] \in (k + 1) .. m
    OBVIOUS
  <2>4. \A j \in 1 .. n : j < b => f[j] = j + k
    BY <2>2, <2>3
  <2>5. ~ (f[b] < b + k)
    <3>1. SUFFICES ASSUME f[b] < b + k PROVE FALSE
      OBVIOUS
    <3>2. f[b] - k \in 1 .. n /\ f[b] - k < b /\ (f[b] - k) + k = f[b]
      BY <2>3, <3>1
    <3>3. f[f[b] - k] = f[b]
      BY <2>4, <3>2
    <3>4. f[f[b] - k] < f[b]
      BY <2>3, <3>2 DEF Increasing
    <3>5. QED
      BY <2>3, <3>3, <3>4
  <2>6. f[b] > b + k
    BY <2>3, <2>5
  <2>7. PICK i \in 1 .. n : f[i] = b + k
    <3>1. b + k \in (k + 1) .. m
      BY <2>3, <2>6
    <3>2. QED
      BY <3>1
  <2>8. CASE i < b
    BY <2>3, <2>4, <2>7, <2>8
  <2>9. CASE i > b
    <3>1. f[b] < f[i]
      BY <2>3, <2>9 DEF Increasing
    <3>2. QED
      BY <2>3, <2>6, <2>7, <3>1
  <2>10. QED
    BY <2>3, <2>7, <2>8, <2>9
<1>2. n <= m - k
  <2>1. CASE n = 0
    BY <2>1
  <2>2. CASE n # 0
    <3>1. n \in 1 .. n
      BY <2>2
    <3>2. f[n] \in (k + 1) .. m /\ f[n] = n + k
      BY <1>1, <3>1
    <3>3. QED
      BY <3>2
  <2>3. QED
    BY <2>1, <2>2
<1>3. m - k <= n
  <2>1. CASE m = k
    BY <2>1
  <2>2. CASE m # k
    <3>1. m \in (k + 1) .. m
      BY <2>2
    <3>2. PICK i \in 1 .. n : f[i] = m
      BY <3>1
    <3>3. QED
      BY <1>1, <3>2
  <2>3. QED
    BY <2>1, <2>2
<1>4. QED
  BY <1>1, <1>2, <1>3

\* A list of which only the first element may go.
LEMMA WithoutFirst ==
    ASSUME NEW S, NEW q \in Seq(S), NEW gone, \A i \in 2 .. Len(q) : q[i] \notin gone
    PROVE  LET r == list_without(q, gone) IN
           /\ r \in Seq(S)
           /\ \E k \in {0, 1} :
                /\ k = 1 <=> Len(q) > 0 /\ q[1] \in gone
                /\ Len(r) = Len(q) - k /\ \A i \in 1 .. Len(r) : r[i] = q[i + k]
<1> DEFINE r == list_without(q, gone)
           m == Len(q)
           n == Len(r)
<1>1. r \in Seq(S)
  BY WithoutKeeps
<1>2. PICK f \in [1 .. n -> 1 .. m] :
        /\ Increasing(f, n)
        /\ \A i \in 1 .. n : r[i] = q[f[i]] /\ q[f[i]] \notin gone
        /\ \A j \in 1 .. m : q[j] \notin gone => \E i \in 1 .. n : f[i] = j
  <2>1. KeptOf(list_without(q, gone), q, gone)
    BY WithoutKeeps
  <2>2. QED
    BY <2>1 DEF KeptOf
<1>3. m \in Nat /\ n \in Nat
  BY <1>1
<1> HIDE DEF r, m, n
<1>4. PICK k \in 0 .. m : k = IF m > 0 /\ q[1] \in gone THEN 1 ELSE 0
  BY <1>3
<1>5. ASSUME NEW i \in 1 .. n PROVE f[i] \in (k + 1) .. m
  <2>1. f[i] \in 1 .. m /\ (k = 1 => f[i] # 1)
    BY <1>2, <1>4
  <2>2. QED
    BY <1>3, <1>4, <2>1
<1>6. ASSUME NEW j \in (k + 1) .. m PROVE \E i \in 1 .. n : f[i] = j
  <2>1. j \in 1 .. m /\ q[j] \notin gone
    BY <1>3, <1>4 DEF m
  <2>2. QED
    BY <1>2, <2>1
<1>7. \A i \in 1 .. n : f[i] \in (k + 1) .. m
  BY <1>5
<1>8. n = m - k /\ \A i \in 1 .. n : f[i] = i + k
  <2>1. Increasing(f, n)
    BY <1>2
  <2>2. Covers(f, n, k, m)
    BY <1>6, <1>7, <2>1 DEF Covers
  <2>3. QED
    BY <1>3, <2>2, IncreasingShift
<1>9. k \in {0, 1} /\ (k = 1 <=> m > 0 /\ q[1] \in gone)
  BY <1>4
<1>10. \A i \in 1 .. n : r[i] = q[i + k]
  BY <1>2, <1>8
<1>11. QED
  BY <1>1, <1>8, <1>9, <1>10 DEF r, m, n

\* Lists without repetition, as the sets of their elements.
Distinct(q) == \A i, j \in 1 .. Len(q) : q[i] = q[j] => i = j

LEMMA ElemsEmpty ==
    ASSUME NEW S, NEW q \in Seq(S)
    PROVE  Elems(q) \in SUBSET S /\ (q = <<>> <=> Elems(q) = {})
  BY DEF Elems

LEMMA ElemsTail ==
    ASSUME NEW S, NEW q \in Seq(S), q # <<>>, Distinct(q)
    PROVE  /\ Head(q) \in Elems(q) /\ Head(q) \in S
           /\ Tail(q) \in Seq(S) /\ Distinct(Tail(q))
           /\ Elems(Tail(q)) = Elems(q) \ {Head(q)}
<1> DEFINE r == Tail(q)
<1>1. Len(q) \in Nat /\ Len(q) > 0 /\ Head(q) = q[1] /\ \A i \in 1 .. Len(q) : q[i] \in S
  OBVIOUS
<1>2. r \in Seq(S) /\ Len(r) = Len(q) - 1 /\ \A i \in 1 .. Len(r) : r[i] = q[i + 1]
  OBVIOUS
<1> HIDE DEF r
<1>3. Distinct(r)
  <2>1. \A i \in 1 .. Len(r) : i + 1 \in 1 .. Len(q)
    BY <1>1, <1>2
  <2>2. SUFFICES ASSUME NEW i \in 1 .. Len(r), NEW j \in 1 .. Len(r), r[i] = r[j] PROVE i = j
    BY DEF Distinct
  <2>3. i + 1 = j + 1
    BY <1>2, <2>1, <2>2 DEF Distinct
  <2>4. QED
    BY <1>2, <2>3
<1>4. Elems(r) \subseteq Elems(q) \ {Head(q)}
  <2>1. SUFFICES ASSUME NEW i \in 1 .. Len(r) PROVE r[i] \in Elems(q) \ {Head(q)}
    BY DEF Elems
  <2>2. i + 1 \in 1 .. Len(q) /\ 1 \in 1 .. Len(q) /\ i + 1 # 1
    BY <1>1, <1>2
  <2>3. QED
    BY <1>1, <1>2, <2>2 DEF Elems, Distinct
<1>5. Elems(q) \ {Head(q)} \subseteq Elems(r)
  <2>1. SUFFICES ASSUME NEW i \in 1 .. Len(q), q[i] # q[1] PROVE q[i] \in Elems(r)
    BY <1>1 DEF Elems
  <2>2. i - 1 \in 1 .. Len(r) /\ (i - 1) + 1 = i
    BY <1>1, <1>2, <2>1
  <2>3. r[i - 1] = q[i]
    BY <1>2, <2>2
  <2>4. QED
    BY <2>2, <2>3 DEF Elems
<1>6. Head(q) \in Elems(q) /\ Head(q) \in S
  <2>1. 1 \in 1 .. Len(q)
    BY <1>1
  <2>2. QED
    BY <1>1, <2>1 DEF Elems
<1>7. QED
  BY <1>2, <1>3, <1>4, <1>5, <1>6 DEF r

LEMMA ElemsConcat ==
    ASSUME NEW S, NEW q \in Seq(S), NEW r \in Seq(S), Distinct(q), Distinct(r),
           Elems(q) \cap Elems(r) = {}
    PROVE  q \o r \in Seq(S) /\ Distinct(q \o r) /\ Elems(q \o r) = Elems(q) \cup Elems(r)
<1> DEFINE s == q \o r
           m == Len(q)
           n == Len(r)
<1>1. /\ m \in Nat /\ n \in Nat /\ s \in Seq(S) /\ Len(s) = m + n
      /\ \A i \in 1 .. m + n : s[i] = IF i <= m THEN q[i] ELSE r[i - m]
  OBVIOUS
<1>2. \A i \in 1 .. m : q[i] \in Elems(q)
  BY DEF Elems
<1>3. \A i \in 1 .. n : r[i] \in Elems(r)
  BY DEF Elems
<1>4. /\ \A i, j \in 1 .. m : q[i] = q[j] => i = j
      /\ \A i, j \in 1 .. n : r[i] = r[j] => i = j
  BY DEF Distinct
<1>5. Elems(s) = {s[i] : i \in 1 .. m + n}
  BY <1>1 DEF Elems
<1>6. Elems(q) = {q[i] : i \in 1 .. m} /\ Elems(r) = {r[i] : i \in 1 .. n}
  BY DEF Elems
<1> HIDE DEF s, m, n
<1>7. Distinct(s)
  <2>1. SUFFICES ASSUME NEW i \in 1 .. m + n, NEW j \in 1 .. m + n, s[i] = s[j] PROVE i = j
    BY <1>1 DEF Distinct
  <2>2. CASE i <= m /\ j <= m
    BY <1>1, <1>4, <2>1, <2>2
  <2>3. CASE i > m /\ j > m
    <3>1. i - m \in 1 .. n /\ j - m \in 1 .. n
      BY <1>1, <2>3
    <3>2. s[i] = r[i - m] /\ s[j] = r[j - m]
      BY <1>1, <2>3
    <3>3. i - m = j - m
      BY <1>4, <2>1, <3>1, <3>2
    <3>4. QED
      BY <1>1, <3>3
  <2>4. CASE i <= m /\ j > m
    <3>1. i \in 1 .. m /\ j - m \in 1 .. n
      BY <1>1, <2>4
    <3>2. s[i] = q[i] /\ s[j] = r[j - m]
      BY <1>1, <2>4
    <3>3. QED
      BY <1>2, <1>3, <2>1, <3>1, <3>2
  <2>5. CASE i > m /\ j <= m
    <3>1. j \in 1 .. m /\ i - m \in 1 .. n
      BY <1>1, <2>5
    <3>2. s[j] = q[j] /\ s[i] = r[i - m]
      BY <1>1, <2>5
    <3>3. QED
      BY <1>2, <1>3, <2>1, <3>1, <3>2
  <2>6. QED
    BY <1>1, <2>2, <2>3, <2>4, <2>5
<1>8. Elems(s) \subseteq Elems(q) \cup Elems(r)
  <2>1. SUFFICES ASSUME NEW i \in 1 .. m + n PROVE s[i] \in Elems(q) \cup Elems(r)
    BY <1>5
  <2>2. CASE i <= m
    <3>1. i \in 1 .. m
      BY <1>1, <2>2
    <3>2. QED
      BY <1>1, <1>2, <2>2, <3>1
  <2>3. CASE i > m
    <3>1. i - m \in 1 .. n
      BY <1>1, <2>3
    <3>2. s[i] = r[i - m]
      BY <1>1, <2>3
    <3>3. QED
      BY <1>3, <3>1, <3>2
  <2>4. QED
    BY <1>1, <2>2, <2>3
<1>9. Elems(q) \subseteq Elems(s)
  <2>1. SUFFICES ASSUME NEW i \in 1 .. m PROVE q[i] \in Elems(s)
    BY <1>6
  <2>2. i \in 1 .. m + n /\ i <= m
    BY <1>1
  <2>3. QED
    BY <1>1, <1>5, <2>2
<1>10. Elems(r) \subseteq Elems(s)
  <2>1. SUFFICES ASSUME NEW i \in 1 .. n PROVE r[i] \in Elems(s)
    BY <1>6
  <2>2. i + m \in 1 .. m + n /\ ~ (i + m <= m) /\ (i + m) - m = i
    BY <1>1
  <2>3. s[i + m] = r[i]
    BY <1>1, <2>2
  <2>4. QED
    BY <1>5, <2>2, <2>3
<1>11. QED
  BY <1>1, <1>7, <1>8, <1>9, <1>10 DEF s

LEMMA ElemsCons ==
    ASSUME NEW S, NEW x \in S, NEW q \in Seq(S), Distinct(q), x \notin Elems(q)
    PROVE  <<x>> \o q \in Seq(S) /\ Distinct(<<x>> \o q) /\ Elems(<<x>> \o q) = Elems(q) \cup {x}
<1>1. PICK r : r = <<x>>
  OBVIOUS
<1>2. r \in Seq(S) /\ Len(r) = 1 /\ r[1] = x
  BY <1>1
<1>3. Distinct(r) /\ Elems(r) = {x}
  BY <1>2 DEF Distinct, Elems
<1>4. Elems(r) \cap Elems(q) = {}
  BY <1>3
<1>5. r \o q \in Seq(S) /\ Distinct(r \o q) /\ Elems(r \o q) = Elems(r) \cup Elems(q)
  BY <1>2, <1>3, <1>4, ElemsConcat
<1>6. QED
  BY <1>1, <1>3, <1>5

LEMMA ElemsWithout ==
    ASSUME NEW S, NEW q \in Seq(S), NEW gone, Distinct(q)
    PROVE  /\ list_without(q, gone) \in Seq(S) /\ Distinct(list_without(q, gone))
           /\ Elems(list_without(q, gone)) = Elems(q) \ gone
<1> DEFINE r == list_without(q, gone)
           m == Len(q)
           n == Len(r)
<1>1. r \in Seq(S)
  BY WithoutKeeps
<1>2. PICK f \in [1 .. n -> 1 .. m] :
        /\ Increasing(f, n)
        /\ \A i \in 1 .. n : r[i] = q[f[i]] /\ q[f[i]] \notin gone
        /\ \A j \in 1 .. m : q[j] \notin gone => \E i \in 1 .. n : f[i] = j
  <2>1. KeptOf(list_without(q, gone), q, gone)
    BY WithoutKeeps
  <2>2. QED
    BY <2>1 DEF KeptOf
<1>3. m \in Nat /\ n \in Nat
  BY <1>1
<1>4. \A i, j \in 1 .. m : q[i] = q[j] => i = j
  BY DEF Distinct
<1>5. Elems(q) = {q[i] : i \in 1 .. m} /\ Elems(r) = {r[i] : i \in 1 .. n}
  BY DEF Elems
<1> HIDE DEF r, m
<1>6. Distinct(r)
  <2>1. SUFFICES ASSUME NEW i \in 1 .. n, NEW j \in 1 .. n, r[i] = r[j] PROVE i = j
    BY DEF Distinct
  <2> HIDE DEF n
  <2>2. f[i] = f[j] /\ f[i] \in Nat
    <3>1. f[i] \in 1 .. m /\ f[j] \in 1 .. m
      BY <1>2
    <3>2. r[i] = q[f[i]] /\ r[j] = q[f[j]]
      BY <1>2
    <3>3. f[i] = f[j]
      BY <1>4, <2>1, <3>1, <3>2
    <3>4. QED
      BY <1>3, <3>1, <3>3
  <2>3. ~ (i < j) /\ ~ (j < i)
    BY <1>2, <2>2 DEF Increasing
  <2>4. QED
    BY <1>3, <2>3
<1> HIDE DEF n
<1>7. Elems(r) = Elems(q) \ gone
  <2>1. Elems(r) \subseteq Elems(q) \ gone
    BY <1>2, <1>5
  <2>2. Elems(q) \ gone \subseteq Elems(r)
    <3>1. SUFFICES ASSUME NEW j \in 1 .. m, q[j] \notin gone PROVE q[j] \in Elems(r)
      BY <1>5
    <3>2. PICK i \in 1 .. n : f[i] = j
      BY <1>2, <3>1
    <3>3. QED
      BY <1>2, <1>5, <3>2
  <2>3. QED
    BY <2>1, <2>2
<1>8. QED
  BY <1>1, <1>6, <1>7 DEF r

\* A list with one more element at its end.
LEMMA ElemsAppend ==
    ASSUME NEW S, NEW q \in Seq(S), NEW x \in S
    PROVE  /\ Append(q, x) \in Seq(S) /\ Len(Append(q, x)) = Len(q) + 1
           /\ \A i \in 1 .. Len(q) : Append(q, x)[i] = q[i]
           /\ Append(q, x)[Len(q) + 1] = x /\ Elems(Append(q, x)) = Elems(q) \cup {x}
<1> DEFINE r == Append(q, x)
           n == Len(q)
<1>1. /\ r \in Seq(S) /\ Len(r) = n + 1 /\ n \in Nat
      /\ (\A i \in 1 .. n : r[i] = q[i]) /\ r[n + 1] = x
  OBVIOUS
<1>2. Elems(r) = {r[i] : i \in 1 .. n + 1} /\ Elems(q) = {q[i] : i \in 1 .. n}
  BY <1>1 DEF Elems
<1> HIDE DEF r, n
<1>3. 1 .. n + 1 = (1 .. n) \cup {n + 1}
  BY <1>1
<1>4. Elems(r) = Elems(q) \cup {x}
  BY <1>1, <1>2, <1>3
<1>5. QED
  BY <1>1, <1>4 DEF r, n

\* A list without repetition has as many elements as it is long.
LEMMA DistinctCount ==
    ASSUME NEW S, NEW q \in Seq(S), Distinct(q)
    PROVE  IsFiniteSet(Elems(q)) /\ Cardinality(Elems(q)) = Len(q)
<1> DEFINE n == Len(q)
<1>1. n \in Nat /\ q \in [1 .. n -> Elems(q)]
  BY DEF Elems
<1>2. /\ \A i, j \in 1 .. n : q[i] = q[j] => i = j
      /\ \A x \in Elems(q) : \E i \in 1 .. n : q[i] = x
  BY DEF Distinct, Elems
<1> HIDE DEF n
<1>3. q \in Bijection(1 .. n, Elems(q))
  BY <1>1, <1>2 DEF Bijection, Injection, Surjection, IsInjective
<1>4. ExistsBijection(1 .. n, Elems(q))
  BY <1>3 DEF ExistsBijection
<1>5. QED
  BY <1>1, <1>4, FS_CountingElements, FS_NatBijection DEF n

\* The elements of q put apart at k around t.
Spread(q, k, t) == SubSeq(q, 1, k) \o <<t>> \o SubSeq(q, k + 1, Len(q))

LEMMA SpreadAt ==
    ASSUME NEW S, NEW q \in Seq(S), NEW k \in 0 .. Len(q), NEW t \in S
    PROVE  /\ Spread(q, k, t) \in Seq(S)
           /\ Len(Spread(q, k, t)) = Len(q) + 1
           /\ \A i \in 1 .. Len(q) + 1 :
                Spread(q, k, t)[i] = IF i <= k THEN q[i]
                                     ELSE IF i = k + 1 THEN t ELSE q[i - 1]
<1> DEFINE a == SubSeq(q, 1, k)
           b == SubSeq(q, k + 1, Len(q))
           c == a \o <<t>>
<1>1. Len(q) \in Nat /\ k \in Nat /\ k <= Len(q) /\ \A i \in 1 .. Len(q) : q[i] \in S
  OBVIOUS
<1>2. a \in Seq(S) /\ Len(a) = k /\ \A i \in 1 .. k : a[i] = q[i]
  BY <1>1, SubSeqProperties
<1>3. b \in Seq(S) /\ Len(b) = Len(q) - k /\ \A i \in 1 .. Len(q) - k : b[i] = q[k + i]
  BY <1>1, SubSeqProperties
<1>4. <<t>> \in Seq(S) /\ Len(<<t>>) = 1 /\ <<t>>[1] = t
  OBVIOUS
<1> HIDE DEF a, b
<1>5. /\ c \in Seq(S) /\ Len(c) = k + 1
      /\ \A i \in 1 .. k + 1 : c[i] = IF i <= k THEN a[i] ELSE <<t>>[i - k]
  BY <1>1, <1>2, <1>4, ConcatProperties
<1> HIDE DEF c
<1>6. /\ c \o b \in Seq(S) /\ Len(c \o b) = Len(q) + 1
      /\ \A i \in 1 .. Len(q) + 1 :
           (c \o b)[i] = IF i <= k + 1 THEN c[i] ELSE b[i - (k + 1)]
  BY <1>1, <1>3, <1>5, ConcatProperties
<1>7. ASSUME NEW i \in 1 .. Len(q) + 1
      PROVE  (c \o b)[i] = IF i <= k THEN q[i] ELSE IF i = k + 1 THEN t ELSE q[i - 1]
  <2>1. CASE i <= k
    BY <1>1, <1>2, <1>5, <1>6, <2>1
  <2>2. CASE i = k + 1
    BY <1>1, <1>4, <1>5, <1>6, <2>2
  <2>3. CASE i > k + 1
    <3>1. i - (k + 1) \in 1 .. Len(q) - k /\ k + (i - (k + 1)) = i - 1
      BY <1>1, <2>3
    <3>2. b[i - (k + 1)] = q[k + (i - (k + 1))]
      BY <1>3, <3>1
    <3>3. b[i - (k + 1)] = q[i - 1]
      BY <3>1, <3>2
    <3>4. (c \o b)[i] = b[i - (k + 1)] /\ ~ (i <= k) /\ i # k + 1
      BY <1>1, <1>6, <2>3
    <3>5. QED
      BY <3>3, <3>4
  <2>4. i \in Nat /\ (i <= k \/ i = k + 1 \/ i > k + 1)
    BY <1>1
  <2>5. QED
    BY <2>1, <2>2, <2>3, <2>4
<1>8. QED
  BY <1>6, <1>7 DEF Spread, a, b, c

-----------------------------------------------------------------------------
(***************************************************************************)
(* The pointers of a list.                                                 *)
(***************************************************************************)

\* Pointers of the nodes N, to nodes or to the null pointer.
Heap(N, nil) == [prev : [N -> N \cup {nil}], next : [N -> N \cup {nil}]]

\* The nodes of c, head and tail included, are linked both ways.
Chain(h, c) ==
    \A i \in 1 .. Len(c) - 1 : h.next[c[i]] = c[i + 1] /\ h.prev[c[i + 1]] = c[i]

\* The pointers list_insert() changes.
LEMMA InsertSets ==
    ASSUME NEW N, NEW nil, NEW h \in Heap(N, nil), NEW b \in N, NEW e \in N, b # e,
           NEW q \in N, h.prev[b] = q, q # e
    PROVE  LET r == list_insert(h, b, e) IN
           /\ r \in Heap(N, nil)
           /\ r.next[e] = b /\ r.next[q] = e /\ r.prev[b] = e /\ r.prev[e] = q
           /\ \A x \in N : x # e /\ x # q => r.next[x] = h.next[x]
           /\ \A x \in N : x # e /\ x # b => r.prev[x] = h.prev[x]
<1>1. PICK g : g = SetPrev(h, e, q)
  OBVIOUS
<1>2. /\ g \in Heap(N, nil) /\ g.next = h.next /\ g.prev[e] = q
      /\ \A x \in N : x # e => g.prev[x] = h.prev[x]
  BY <1>1 DEF SetPrev, Heap
<1>3. PICK a : a = SetNext(g, e, b)
  OBVIOUS
<1>4. /\ a \in Heap(N, nil) /\ a.prev = g.prev /\ a.next[e] = b
      /\ \A x \in N : x # e => a.next[x] = g.next[x]
  BY <1>2, <1>3 DEF SetNext, Heap
<1>5. a.prev[b] = q
  BY <1>2, <1>4
<1>6. PICK c : c = SetNext(a, q, e)
  OBVIOUS
<1>7. /\ c \in Heap(N, nil) /\ c.prev = a.prev /\ c.next[q] = e
      /\ \A x \in N : x # q => c.next[x] = a.next[x]
  BY <1>4, <1>6 DEF SetNext, Heap
<1>8. PICK r : r = SetPrev(c, b, e)
  OBVIOUS
<1>9. /\ r \in Heap(N, nil) /\ r.next = c.next /\ r.prev[b] = e
      /\ \A x \in N : x # b => r.prev[x] = c.prev[x]
  BY <1>7, <1>8 DEF SetPrev, Heap
<1>10. r = list_insert(h, b, e)
  BY <1>1, <1>3, <1>5, <1>6, <1>8 DEF list_insert
<1>11. /\ r.next[e] = b /\ r.next[q] = e /\ r.prev[b] = e /\ r.prev[e] = q
       /\ \A x \in N : x # e /\ x # q => r.next[x] = h.next[x]
       /\ \A x \in N : x # e /\ x # b => r.prev[x] = h.prev[x]
  BY <1>2, <1>4, <1>7, <1>9
<1>12. QED
  BY <1>9, <1>10, <1>11

\* The pointers list_remove() changes.
LEMMA RemoveSets ==
    ASSUME NEW N, NEW nil, NEW h \in Heap(N, nil), NEW e \in N,
           NEW p \in N, NEW n \in N, h.prev[e] = p, h.next[e] = n, p # e, n # e
    PROVE  LET r == list_remove(h, e) IN
           /\ r \in Heap(N, nil) /\ r.next[p] = n /\ r.prev[n] = p
           /\ \A x \in N : x # p => r.next[x] = h.next[x]
           /\ \A x \in N : x # n => r.prev[x] = h.prev[x]
<1>1. PICK a : a = SetNext(h, p, n)
  OBVIOUS
<1>2. /\ a \in Heap(N, nil) /\ a.prev = h.prev /\ a.next[p] = n
      /\ \A x \in N : x # p => a.next[x] = h.next[x]
  BY <1>1 DEF SetNext, Heap
<1>3. a.next[e] = n /\ a.prev[e] = p
  BY <1>2
<1>4. PICK r : r = SetPrev(a, n, p)
  OBVIOUS
<1>5. /\ r \in Heap(N, nil) /\ r.next = a.next /\ r.prev[n] = p
      /\ \A x \in N : x # n => r.prev[x] = a.prev[x]
  BY <1>2, <1>4 DEF SetPrev, Heap
<1>6. r = list_remove(h, e)
  BY <1>1, <1>3, <1>4 DEF list_remove
<1>7. QED
  BY <1>2, <1>5, <1>6

\* list_splice() moves first to last, which follow p, from before end to before
\* another node, which follows q.
Apart(N, h, p, first, last, end, q, before) ==
    /\ p \in N /\ first \in N /\ last \in N /\ end \in N /\ q \in N /\ before \in N
    /\ h.prev[first] = p /\ h.next[last] = end /\ h.prev[end] = last /\ h.prev[before] = q
    /\ first # end /\ p # last /\ first # before /\ end # before /\ last # q /\ p # q

\* The pointers it changes.
Moved(N, h, r, p, first, last, end, q, before) ==
    /\ r.next[p] = end /\ r.prev[end] = p
    /\ r.next[q] = first /\ r.prev[first] = q
    /\ r.next[last] = before /\ r.prev[before] = last
    /\ \A x \in N : x \notin {p, q, last} => r.next[x] = h.next[x]
    /\ \A x \in N : x \notin {end, first, before} => r.prev[x] = h.prev[x]

LEMMA SpliceSets ==
    ASSUME NEW N, NEW nil, NEW h \in Heap(N, nil), NEW r,
           NEW p, NEW first, NEW last, NEW end, NEW q, NEW before,
           Apart(N, h, p, first, last, end, q, before), r = list_splice(h, before, first, end)
    PROVE  r \in Heap(N, nil) /\ Moved(N, h, r, p, first, last, end, q, before)
<1> USE DEF Apart
<1>1. PICK a : a = SetNext(h, p, end)
  OBVIOUS
<1>2. /\ a \in Heap(N, nil) /\ a.prev = h.prev /\ a.next[p] = end
      /\ \A x \in N : x # p => a.next[x] = h.next[x]
  BY <1>1 DEF SetNext, Heap
<1>3. a.next[last] = end /\ a.prev[first] = p
  BY <1>2
<1>4. PICK b : b = SetPrev(a, end, p)
  OBVIOUS
<1>5. /\ b \in Heap(N, nil) /\ b.next = a.next /\ b.prev[end] = p
      /\ \A x \in N : x # end => b.prev[x] = a.prev[x]
  BY <1>2, <1>4 DEF SetPrev, Heap
<1>6. b.prev[before] = q
  BY <1>2, <1>5
<1>7. PICK g : g = SetPrev(b, first, q)
  OBVIOUS
<1>8. /\ g \in Heap(N, nil) /\ g.next = b.next /\ g.prev[first] = q
      /\ \A x \in N : x # first => g.prev[x] = b.prev[x]
  BY <1>5, <1>7 DEF SetPrev, Heap
<1>9. PICK c : c = SetNext(g, last, before)
  OBVIOUS
<1>10. /\ c \in Heap(N, nil) /\ c.prev = g.prev /\ c.next[last] = before
       /\ \A x \in N : x # last => c.next[x] = g.next[x]
  BY <1>8, <1>9 DEF SetNext, Heap
<1>11. c.prev[before] = q
  BY <1>6, <1>8, <1>10
<1>12. PICK d : d = SetNext(c, q, first)
  OBVIOUS
<1>13. /\ d \in Heap(N, nil) /\ d.prev = c.prev /\ d.next[q] = first
       /\ \A x \in N : x # q => d.next[x] = c.next[x]
  BY <1>10, <1>12 DEF SetNext, Heap
<1>14. r = SetPrev(d, before, last)
  <2>1. a = SetNext(h, h.prev[first], h.next[h.prev[end]])
    BY <1>1
  <2>2. b = SetPrev(a, a.next[h.prev[end]], a.prev[first])
    BY <1>3, <1>4
  <2>3. c = SetNext(SetPrev(b, first, b.prev[before]), h.prev[end], before)
    BY <1>6, <1>7, <1>9
  <2>4. d = SetNext(c, c.prev[before], first)
    BY <1>11, <1>12
  <2>5. QED
    BY <2>1, <2>2, <2>3, <2>4 DEF list_splice
<1>15. /\ r \in Heap(N, nil) /\ r.next = d.next /\ r.prev[before] = last
       /\ \A x \in N : x # before => r.prev[x] = d.prev[x]
  BY <1>13, <1>14 DEF SetPrev, Heap
<1>16. /\ r.next[p] = end /\ r.prev[end] = p
       /\ r.next[q] = first /\ r.prev[first] = q
       /\ r.next[last] = before /\ r.prev[before] = last
  BY <1>2, <1>5, <1>8, <1>10, <1>13, <1>15
<1>17. /\ \A x \in N : x \notin {p, q, last} => r.next[x] = h.next[x]
       /\ \A x \in N : x \notin {end, first, before} => r.prev[x] = h.prev[x]
  BY <1>2, <1>5, <1>8, <1>10, <1>13, <1>15
<1>18. QED
  BY <1>15, <1>16, <1>17 DEF Moved

\* A chain none of whose pointers change stays one.
LEMMA ChainKept ==
    ASSUME NEW h, NEW r, NEW c, Len(c) \in Nat, Chain(h, c),
           \A i \in 1 .. Len(c) - 1 : r.next[c[i]] = h.next[c[i]] /\ r.prev[c[i + 1]] = h.prev[c[i + 1]]
    PROVE  Chain(r, c)
  BY DEF Chain

LEMMA SpreadDistinct ==
    ASSUME NEW N, NEW c \in Seq(N), Distinct(c), NEW k \in 0 .. Len(c), NEW e \in N \ Elems(c)
    PROVE  Distinct(Spread(c, k, e)) /\ Elems(Spread(c, k, e)) = Elems(c) \cup {e}
<1> DEFINE s == Spread(c, k, e)
<1>1. e \in N /\ Len(c) \in Nat /\ k \in Nat /\ k <= Len(c)
  OBVIOUS
<1>2. /\ s \in Seq(N) /\ Len(s) = Len(c) + 1
      /\ \A i \in 1 .. Len(c) + 1 :
           s[i] = IF i <= k THEN c[i] ELSE IF i = k + 1 THEN e ELSE c[i - 1]
  BY <1>1, SpreadAt
<1> HIDE DEF s
<1>3. \A i \in 1 .. Len(c) : c[i] # e
  BY DEF Elems
<1>4. k + 1 \in 1 .. Len(c) + 1 /\ s[k + 1] = e
  BY <1>1, <1>2
<1>5. ASSUME NEW i \in 1 .. Len(c) + 1, i # k + 1
      PROVE  \E x \in 1 .. Len(c) : s[i] = c[x] /\ ((i <= k /\ x = i) \/ (i > k + 1 /\ x = i - 1))
  <2>1. CASE i <= k
    <3>1. i \in 1 .. Len(c) /\ s[i] = c[i]
      BY <1>1, <1>2, <2>1
    <3>2. QED
      BY <2>1, <3>1
  <2>2. CASE i > k + 1
    <3>1. i - 1 \in 1 .. Len(c) /\ s[i] = c[i - 1]
      BY <1>1, <1>2, <2>2
    <3>2. QED
      BY <2>2, <3>1
  <2>3. QED
    BY <1>1, <1>5, <2>1, <2>2
<1>6. Distinct(s)
  <2>1. SUFFICES ASSUME NEW i \in 1 .. Len(c) + 1, NEW j \in 1 .. Len(c) + 1, s[i] = s[j]
        PROVE  i = j
    BY <1>2 DEF Distinct
  <2>2. CASE i = k + 1 \/ j = k + 1
    BY <1>3, <1>4, <1>5, <2>1, <2>2
  <2>3. CASE i # k + 1 /\ j # k + 1
    <3>1. PICK x \in 1 .. Len(c) : s[i] = c[x] /\ ((i <= k /\ x = i) \/ (i > k + 1 /\ x = i - 1))
      BY <1>5, <2>3
    <3>2. PICK y \in 1 .. Len(c) : s[j] = c[y] /\ ((j <= k /\ y = j) \/ (j > k + 1 /\ y = j - 1))
      BY <1>5, <2>3
    <3>3. x = y
      BY <2>1, <3>1, <3>2 DEF Distinct
    <3>4. QED
      BY <1>1, <3>1, <3>2, <3>3
  <2>4. QED
    BY <2>2, <2>3
<1>7. Elems(s) = Elems(c) \cup {e}
  <2>1. ASSUME NEW i \in 1 .. Len(c) + 1 PROVE s[i] \in Elems(c) \cup {e}
    <3>1. CASE i = k + 1
      BY <1>4, <3>1
    <3>2. CASE i # k + 1
      BY <1>5, <3>2 DEF Elems
    <3>3. QED
      BY <3>1, <3>2
  <2>2. e \in Elems(s)
    BY <1>2, <1>4 DEF Elems
  <2>3. ASSUME NEW i \in 1 .. Len(c) PROVE c[i] \in Elems(s)
    <3>1. CASE i <= k
      BY <1>2, <3>1 DEF Elems
    <3>2. CASE ~ (i <= k)
      <4>1. i + 1 \in 1 .. Len(s) /\ s[i + 1] = c[i]
        BY <1>2, <3>2
      <4>2. QED
        BY <4>1 DEF Elems
    <3>3. QED
      BY <3>1, <3>2
  <2>4. Elems(s) \subseteq Elems(c) \cup {e} /\ Elems(c) \subseteq Elems(s)
    BY <1>2, <2>1, <2>3 DEF Elems
  <2>5. QED
    BY <2>2, <2>4
<1>8. QED
  BY <1>6, <1>7 DEF s

\* list_insert(), and with it list_push_front() and list_push_back(): on every
\* heap, a new element put before a node of a list becomes part of it at that
\* place, walking either way, and no other list changes.
THEOREM InsertLinks ==
    ASSUME NEW N, NEW nil, NEW h \in Heap(N, nil),
           NEW c \in Seq(N), Distinct(c), Chain(h, c),
           NEW k \in 2 .. Len(c), NEW e \in N \ Elems(c)
    PROVE  LET r == list_insert(h, c[k], e)
               s == Spread(c, k - 1, e)
           IN /\ r \in Heap(N, nil) /\ Chain(r, s) /\ Distinct(s) /\ Elems(s) = Elems(c) \cup {e}
              /\ \A d \in Seq(N) : Chain(h, d) /\ Elems(d) \cap (Elems(c) \cup {e}) = {} => Chain(r, d)
<1>1. PICK r : r = list_insert(h, c[k], e)
  OBVIOUS
<1>2. PICK s : s = Spread(c, k - 1, e)
  OBVIOUS
<1>3. PICK n \in Nat : n = Len(c)
  OBVIOUS
<1>4. k \in 2 .. n /\ k - 1 \in 0 .. n /\ k - 1 \in 1 .. n - 1 /\ k - 1 + 1 = k
  BY <1>3
<1>5. PICK b \in N, q \in N : b = c[k] /\ q = c[k - 1] /\ h.prev[b] = q /\ h.next[q] = b
  <2>1. c[k] \in N /\ c[k - 1] \in N
    BY <1>3, <1>4
  <2>2. h.next[c[k - 1]] = c[k - 1 + 1] /\ h.prev[c[k - 1 + 1]] = c[k - 1]
    BY <1>3, <1>4 DEF Chain
  <2>3. QED
    BY <1>4, <2>1, <2>2
<1>6. \A x \in 1 .. n : c[x] # e /\ c[x] \in N /\ c[x] \in Elems(c)
  BY <1>3 DEF Elems
<1>7. b # e /\ q # e /\ e \in N
  BY <1>4, <1>5, <1>6
<1>8. /\ r \in Heap(N, nil)
      /\ r.next[e] = b /\ r.next[q] = e /\ r.prev[b] = e /\ r.prev[e] = q
      /\ \A x \in N : x # e /\ x # q => r.next[x] = h.next[x]
      /\ \A x \in N : x # e /\ x # b => r.prev[x] = h.prev[x]
  BY <1>1, <1>5, <1>7, InsertSets
<1>9. /\ s \in Seq(N) /\ Len(s) = n + 1
      /\ \A i \in 1 .. n + 1 :
           s[i] = IF i <= k - 1 THEN c[i] ELSE IF i = k - 1 + 1 THEN e ELSE c[i - 1]
  <2>1. PICK m \in 0 .. Len(c) : m = k - 1
    BY <1>3, <1>4
  <2>2. /\ Spread(c, m, e) \in Seq(N) /\ Len(Spread(c, m, e)) = Len(c) + 1
        /\ \A i \in 1 .. Len(c) + 1 :
             Spread(c, m, e)[i] = IF i <= m THEN c[i] ELSE IF i = m + 1 THEN e ELSE c[i - 1]
    BY ONLY <1>7, SpreadAt, c \in Seq(N), m \in 0 .. Len(c)
  <2>3. QED
    BY <1>2, <1>3, <2>1, <2>2
<1>10. \A i, j \in 1 .. n : c[i] = c[j] => i = j
  BY <1>3 DEF Distinct
<1>11. ASSUME NEW i \in 1 .. n PROVE r.next[s[i]] = s[i + 1] /\ r.prev[s[i + 1]] = s[i]
  <2>1. CASE i < k - 1
    <3>1. s[i] = c[i] /\ s[i + 1] = c[i + 1] /\ i + 1 \in 1 .. n /\ i \in 1 .. n - 1
      BY <1>4, <1>9, <2>1
    <3>2. c[i] # q /\ c[i + 1] # b
      BY <1>4, <1>5, <1>10, <2>1, <3>1
    <3>3. h.next[c[i]] = c[i + 1] /\ h.prev[c[i + 1]] = c[i]
      BY <1>3, <3>1 DEF Chain
    <3>4. QED
      BY <1>6, <1>8, <3>1, <3>2, <3>3
  <2>2. CASE i = k - 1
    <3>1. s[i] = q /\ s[i + 1] = e
      BY <1>4, <1>5, <1>9, <2>2
    <3>2. QED
      BY <1>8, <3>1
  <2>3. CASE i = k
    <3>1. s[i] = e /\ s[i + 1] = b
      BY <1>4, <1>5, <1>9, <2>3
    <3>2. QED
      BY <1>8, <3>1
  <2>4. CASE i > k
    <3>1. s[i] = c[i - 1] /\ s[i + 1] = c[i] /\ i - 1 \in 1 .. n - 1 /\ i - 1 \in 1 .. n
      BY <1>4, <1>9, <2>4
    <3>2. c[i - 1] # q /\ c[i] # b
      BY <1>4, <1>5, <1>10, <2>4, <3>1
    <3>3. h.next[c[i - 1]] = c[i] /\ h.prev[c[i]] = c[i - 1]
      <4>1. h.next[c[i - 1]] = c[i - 1 + 1] /\ h.prev[c[i - 1 + 1]] = c[i - 1] /\ i - 1 + 1 = i
        BY <1>3, <3>1 DEF Chain
      <4>2. QED
        BY <4>1
    <3>4. QED
      BY <1>6, <1>8, <3>1, <3>2, <3>3
  <2>5. QED
    BY <1>4, <2>1, <2>2, <2>3, <2>4
<1>12. Chain(r, s)
  BY <1>9, <1>11 DEF Chain
<1>13. Distinct(s) /\ Elems(s) = Elems(c) \cup {e}
  BY <1>2, <1>3, <1>4, SpreadDistinct
<1>14. ASSUME NEW d \in Seq(N), Chain(h, d), Elems(d) \cap (Elems(c) \cup {e}) = {}
       PROVE  Chain(r, d)
  <2>1. b \in Elems(c) /\ q \in Elems(c)
    BY <1>4, <1>5, <1>6
  <2>2. \A i \in 1 .. Len(d) : d[i] \in N /\ d[i] # e /\ d[i] # b /\ d[i] # q
    <3>1. \A i \in 1 .. Len(d) : d[i] \in N /\ d[i] \in Elems(d)
      BY DEF Elems
    <3>2. e \notin Elems(d) /\ b \notin Elems(d) /\ q \notin Elems(d)
      BY <1>14, <2>1
    <3>3. QED
      BY <3>1, <3>2
  <2>3. Len(d) \in Nat /\ \A i \in 1 .. Len(d) - 1 : i \in 1 .. Len(d) /\ i + 1 \in 1 .. Len(d)
    OBVIOUS
  <2>4. \A i \in 1 .. Len(d) - 1 : /\ r.next[d[i]] = h.next[d[i]]
                                   /\ r.prev[d[i + 1]] = h.prev[d[i + 1]]
    BY <1>8, <2>2, <2>3
  <2>5. QED
    BY <1>14, <2>3, <2>4, ChainKept
<1>15. QED
  BY <1>1, <1>2, <1>8, <1>12, <1>13, <1>14

\* c without its elements i to j - 1, and d with them before its element k.
CutOut(c, i, j) == SubSeq(c, 1, i - 1) \o SubSeq(c, j, Len(c))
PutIn(d, k, c, i, j) == SubSeq(d, 1, k - 1) \o SubSeq(c, i, j - 1) \o SubSeq(d, k, Len(d))
Between(c, i, j) == {c[x] : x \in i .. j - 1}

LEMMA CutAt ==
    ASSUME NEW S, NEW c \in Seq(S), NEW i \in 1 .. Len(c) + 1, NEW j \in i .. Len(c) + 1
    PROVE  /\ CutOut(c, i, j) \in Seq(S) /\ Len(CutOut(c, i, j)) = Len(c) - (j - i)
           /\ \A x \in 1 .. Len(c) - (j - i) :
                CutOut(c, i, j)[x] = IF x < i THEN c[x] ELSE c[x + (j - i)]
<1>1. PICK n \in Nat : n = Len(c)
  OBVIOUS
<1>2. i \in Nat /\ j \in Nat /\ 1 <= i /\ i <= j /\ j <= n + 1
  BY <1>1
<1>3. PICK a : a = SubSeq(c, 1, i - 1)
  OBVIOUS
<1>4. a \in Seq(S) /\ Len(a) = i - 1 /\ \A x \in 1 .. i - 1 : a[x] = c[x]
  BY <1>1, <1>2, <1>3
<1>5. PICK b : b = SubSeq(c, j, n)
  OBVIOUS
<1>6. b \in Seq(S) /\ Len(b) = n + 1 - j /\ \A x \in 1 .. n + 1 - j : b[x] = c[j + x - 1]
  BY <1>1, <1>2, <1>5
<1>7. /\ a \o b \in Seq(S) /\ Len(a \o b) = n - (j - i)
      /\ \A x \in 1 .. n - (j - i) : (a \o b)[x] = IF x < i THEN a[x] ELSE b[x - (i - 1)]
  BY <1>2, <1>4, <1>6
<1>8. ASSUME NEW x \in 1 .. n - (j - i)
      PROVE  (a \o b)[x] = IF x < i THEN c[x] ELSE c[x + (j - i)]
  <2>1. CASE x < i
    BY <1>2, <1>4, <1>7, <2>1
  <2>2. CASE ~ (x < i)
    <3>1. x - (i - 1) \in 1 .. n + 1 - j /\ j + (x - (i - 1)) - 1 = x + (j - i)
      BY <1>2, <2>2
    <3>2. b[x - (i - 1)] = c[j + (x - (i - 1)) - 1]
      BY <1>6, <3>1
    <3>3. QED
      BY <1>7, <2>2, <3>1, <3>2
  <2>3. QED
    BY <2>1, <2>2
<1>9. QED
  BY <1>1, <1>3, <1>5, <1>7, <1>8 DEF CutOut

IsPut(p, d, k, c, i, j) ==
    /\ Len(p) = Len(d) + (j - i)
    /\ \A x \in 1 .. Len(d) + (j - i) :
         p[x] = IF x < k THEN d[x] ELSE IF x < k + (j - i) THEN c[x - k + i] ELSE d[x - (j - i)]

LEMMA PutAt ==
    ASSUME NEW S, NEW c \in Seq(S), NEW i \in 1 .. Len(c) + 1, NEW j \in i .. Len(c) + 1,
           NEW d \in Seq(S), NEW k \in 1 .. Len(d) + 1
    PROVE  PutIn(d, k, c, i, j) \in Seq(S) /\ IsPut(PutIn(d, k, c, i, j), d, k, c, i, j)
<1>1. PICK n \in Nat : n = Len(c)
  OBVIOUS
<1>2. PICK m \in Nat : m = Len(d)
  OBVIOUS
<1>3. i \in Nat /\ j \in Nat /\ 1 <= i /\ i <= j /\ j <= n + 1 /\ k \in Nat /\ 1 <= k /\ k <= m + 1
  BY <1>1, <1>2
<1>4. PICK a : a = SubSeq(d, 1, k - 1)
  OBVIOUS
<1>5. a \in Seq(S) /\ Len(a) = k - 1 /\ \A x \in 1 .. k - 1 : a[x] = d[x]
  BY <1>2, <1>3, <1>4
<1>6. PICK b : b = SubSeq(c, i, j - 1)
  OBVIOUS
<1>7. b \in Seq(S) /\ Len(b) = j - i /\ \A x \in 1 .. j - i : b[x] = c[i + x - 1]
  BY <1>1, <1>3, <1>6
<1>8. PICK e : e = SubSeq(d, k, m)
  OBVIOUS
<1>9. e \in Seq(S) /\ Len(e) = m + 1 - k /\ \A x \in 1 .. m + 1 - k : e[x] = d[k + x - 1]
  BY <1>2, <1>3, <1>8
<1>10. PICK f : f = a \o b
  OBVIOUS
<1>11. /\ f \in Seq(S) /\ Len(f) = k - 1 + (j - i)
       /\ \A x \in 1 .. k - 1 + (j - i) : f[x] = IF x < k THEN a[x] ELSE b[x - (k - 1)]
  <2>1. /\ f \in Seq(S) /\ Len(f) = Len(a) + Len(b)
        /\ \A x \in 1 .. Len(a) + Len(b) : f[x] = IF x <= Len(a) THEN a[x] ELSE b[x - Len(a)]
    BY <1>5, <1>7, <1>10, ConcatProperties
  <2>2. QED
    BY <1>3, <1>5, <1>7, <2>1
<1>12. /\ f \o e \in Seq(S) /\ Len(f \o e) = m + (j - i)
       /\ \A x \in 1 .. m + (j - i) :
            (f \o e)[x] = IF x < k + (j - i) THEN f[x] ELSE e[x - (k - 1 + (j - i))]
  <2>1. /\ f \o e \in Seq(S) /\ Len(f \o e) = Len(f) + Len(e)
        /\ \A x \in 1 .. Len(f) + Len(e) :
             (f \o e)[x] = IF x <= Len(f) THEN f[x] ELSE e[x - Len(f)]
    BY <1>9, <1>11, ConcatProperties
  <2>2. k - 1 + (j - i) + (m + 1 - k) = m + (j - i) /\ k - 1 + (j - i) \in Nat
    BY <1>3
  <2>3. QED
    BY <1>3, <1>9, <1>11, <2>1, <2>2
<1>13. ASSUME NEW x \in 1 .. m + (j - i)
       PROVE  (f \o e)[x] = IF x < k THEN d[x] ELSE IF x < k + (j - i) THEN c[x - k + i] ELSE d[x - (j - i)]
  <2>1. CASE x < k
    <3>1. x \in 1 .. k - 1 /\ x < k + (j - i) /\ x \in 1 .. k - 1 + (j - i)
      BY <1>3, <2>1
    <3>2. QED
      BY <1>5, <1>11, <1>12, <2>1, <3>1
  <2>2. CASE ~ (x < k) /\ x < k + (j - i)
    <3>1. /\ x - (k - 1) \in 1 .. j - i /\ i + (x - (k - 1)) - 1 = x - k + i
          /\ x \in 1 .. k - 1 + (j - i)
      BY <1>3, <2>2
    <3>2. b[x - (k - 1)] = c[i + (x - (k - 1)) - 1]
      BY <1>7, <3>1
    <3>3. QED
      BY <1>11, <1>12, <2>2, <3>1, <3>2
  <2>3. CASE ~ (x < k + (j - i))
    <3>1. PICK y : y = x - (k - 1 + (j - i))
      OBVIOUS
    <3>2. y \in 1 .. m + 1 - k /\ k + y - 1 = x - (j - i) /\ ~ (x < k)
      BY <1>3, <2>3, <3>1
    <3>3. e[y] = d[k + y - 1]
      BY <1>9, <3>2
    <3>4. QED
      BY <1>12, <2>3, <3>1, <3>2, <3>3
  <2>4. QED
    BY <2>1, <2>2, <2>3
<1>14. QED
  BY <1>1, <1>2, <1>4, <1>6, <1>8, <1>10, <1>12, <1>13 DEF PutIn, IsPut

\* Element x of c and the one after it are linked both ways.
Linked(h, c, x) == h.next[c[x]] = c[x + 1] /\ h.prev[c[x + 1]] = c[x]

\* Once the nodes at the seam are linked, what is left of a chain is linked
\* wherever the chain was.
LEMMA CutLinked ==
    ASSUME NEW N, NEW c \in Seq(N), NEW r,
           NEW i \in 2 .. Len(c), NEW j \in i .. Len(c), NEW g \in 0 .. i - 2,
           r.next[c[i - 1]] = c[j], r.prev[c[j]] = c[i - 1],
           \A x \in 1 .. Len(c) - 1 : (x < i - 1 \/ x >= j) /\ x # g => Linked(r, c, x)
    PROVE  \A x \in 1 .. Len(CutOut(c, i, j)) - 1 : x # g => Linked(r, CutOut(c, i, j), x)
<1>1. PICK n \in Nat : n = Len(c)
  OBVIOUS
<1>2. i \in Nat /\ j \in Nat /\ 2 <= i /\ i <= j /\ j <= n /\ g \in Nat /\ g <= i - 2
  BY <1>1
<1>3. PICK s : s = CutOut(c, i, j)
  OBVIOUS
<1>4. /\ Len(s) = n - (j - i)
      /\ \A x \in 1 .. n - (j - i) : s[x] = IF x < i THEN c[x] ELSE c[x + (j - i)]
  <2>1. i \in 1 .. Len(c) + 1 /\ j \in i .. Len(c) + 1
    BY <1>1, <1>2
  <2>2. /\ Len(CutOut(c, i, j)) = Len(c) - (j - i)
        /\ \A x \in 1 .. Len(c) - (j - i) :
             CutOut(c, i, j)[x] = IF x < i THEN c[x] ELSE c[x + (j - i)]
    BY <2>1, CutAt, Zenon
  <2>3. QED
    BY <1>1, <1>3, <2>2
<1>5. SUFFICES ASSUME NEW x \in 1 .. n - (j - i) - 1, x # g PROVE Linked(r, s, x)
  BY <1>3, <1>4
<1>6. CASE x < i - 1
  <2>1. /\ x \in 1 .. n - 1 /\ x \in 1 .. n - (j - i) /\ x < i
        /\ x + 1 \in 1 .. n - (j - i) /\ x + 1 < i
    BY <1>2, <1>6
  <2>2. s[x] = c[x] /\ s[x + 1] = c[x + 1]
    BY <1>4, <2>1
  <2>3. Linked(r, c, x)
    BY <1>1, <1>5, <1>6, <2>1
  <2>4. QED
    BY <2>2, <2>3 DEF Linked
<1>7. CASE x = i - 1
  <2>1. x + 1 + (j - i) = j
    BY <1>2, <1>7
  <2>2. s[x] = c[i - 1] /\ s[x + 1] = c[j]
    BY <1>2, <1>4, <1>7, <2>1
  <2>3. QED
    BY <2>2 DEF Linked
<1>8. CASE x >= i
  <2>1. PICK y : y = x + (j - i)
    OBVIOUS
  <2>2. y \in 1 .. n - 1 /\ y >= j /\ y # g /\ x + 1 + (j - i) = y + 1
    BY <1>2, <1>8, <2>1
  <2>3. s[x] = c[y] /\ s[x + 1] = c[y + 1]
    BY <1>2, <1>4, <1>8, <2>1, <2>2
  <2>4. Linked(r, c, y)
    BY <1>1, <2>2
  <2>5. QED
    BY <2>3, <2>4 DEF Linked
<1>9. QED
  BY <1>2, <1>6, <1>7, <1>8

\* The segment c[i] to c[j - 1] linked in before d[k] makes one chain.
LEMMA PutChain ==
    ASSUME NEW N, NEW c \in Seq(N), NEW d \in Seq(N), NEW r,
           NEW i \in 1 .. Len(c), NEW j \in i + 1 .. Len(c) + 1, NEW k \in 2 .. Len(d),
           r.next[d[k - 1]] = c[i], r.prev[c[i]] = d[k - 1],
           r.next[c[j - 1]] = d[k], r.prev[d[k]] = c[j - 1],
           \A x \in 1 .. Len(c) - 1 : i <= x /\ x < j - 1 => Linked(r, c, x),
           \A x \in 1 .. Len(d) - 1 : x # k - 1 => Linked(r, d, x)
    PROVE  Chain(r, PutIn(d, k, c, i, j))
<1>1. PICK n \in Nat : n = Len(c)
  OBVIOUS
<1>2. PICK m \in Nat : m = Len(d)
  OBVIOUS
<1>3. /\ i \in Nat /\ j \in Nat /\ k \in Nat /\ 1 <= i /\ i < j /\ j <= n + 1 /\ 2 <= k /\ k <= m
  BY <1>1, <1>2
<1>4. PICK s : s = PutIn(d, k, c, i, j)
  OBVIOUS
<1>5. PICK w \in Nat : w = j - i /\ w > 0 /\ i + w = j
  BY <1>3
<1>6. /\ Len(s) = m + w
      /\ \A x \in 1 .. m + w :
           s[x] = IF x < k THEN d[x] ELSE IF x < k + w THEN c[x - k + i] ELSE d[x - w]
  <2>1. i \in 1 .. Len(c) + 1 /\ j \in i .. Len(c) + 1 /\ k \in 1 .. Len(d) + 1
    BY <1>1, <1>2, <1>3
  <2>2. IsPut(PutIn(d, k, c, i, j), d, k, c, i, j)
    BY <2>1, PutAt
  <2>3. QED
    BY <1>2, <1>4, <1>5, <2>2 DEF IsPut
<1>7. SUFFICES ASSUME NEW x \in 1 .. m + w - 1
      PROVE  r.next[s[x]] = s[x + 1] /\ r.prev[s[x + 1]] = s[x]
  BY <1>4, <1>6 DEF Chain
<1>r. x \in Nat /\ 1 <= x /\ x <= m + w - 1
  BY <1>3, <1>5
<1>8. CASE x < k - 1
  <2>1. s[x] = d[x] /\ s[x + 1] = d[x + 1] /\ x \in 1 .. m - 1 /\ x # k - 1
    BY <1>3, <1>5, <1>6, <1>8
  <2>2. QED
    BY <1>2, <2>1 DEF Linked
<1>9. CASE x = k - 1
  <2>1. x + 1 - k + i = i
    BY <1>3, <1>9
  <2>2. s[x] = d[k - 1] /\ s[x + 1] = c[i]
    BY <1>3, <1>5, <1>6, <1>9, <2>1
  <2>3. QED
    BY <2>2
<1>10. CASE k <= x /\ x < k + w - 1
  <2>1. PICK y : y = x - k + i
    OBVIOUS
  <2>2. y \in 1 .. n - 1 /\ i <= y /\ y < j - 1 /\ x + 1 - k + i = y + 1
    BY <1>3, <1>5, <1>10, <2>1
  <2>3. s[x] = c[y] /\ s[x + 1] = c[y + 1]
    BY <1>3, <1>5, <1>6, <1>10, <2>1, <2>2
  <2>4. QED
    BY <1>1, <2>2, <2>3 DEF Linked
<1>11. CASE x = k + w - 1
  <2>1. /\ x - k + i = j - 1 /\ x \in 1 .. m + w /\ ~ (x < k) /\ x < k + w
        /\ x + 1 - w = k /\ x + 1 \in 1 .. m + w /\ ~ (x + 1 < k) /\ ~ (x + 1 < k + w)
    BY ONLY <1>3, <1>5, <1>r, <1>11, m \in Nat, n \in Nat, w \in Nat
  <2>2. s[x] = c[x - k + i] /\ s[x + 1] = d[x + 1 - w]
    BY <1>6, <2>1
  <2>3. QED
    BY <2>1, <2>2
<1>12. CASE x >= k + w
  <2>1. PICK y : y = x - w
    OBVIOUS
  <2>2. y \in 1 .. m - 1 /\ y # k - 1 /\ x + 1 - w = y + 1
    BY <1>3, <1>5, <1>12, <2>1
  <2>3. s[x] = d[y] /\ s[x + 1] = d[y + 1]
    BY <1>3, <1>5, <1>6, <1>12, <2>1, <2>2
  <2>4. QED
    BY <1>2, <2>2, <2>3 DEF Linked
<1>13. x < k - 1 \/ x = k - 1 \/ (k <= x /\ x < k + w - 1) \/ x = k + w - 1 \/ x >= k + w
  BY ONLY <1>3, <1>5, <1>r, m \in Nat, n \in Nat, w \in Nat
<1>14. QED
  BY <1>8, <1>9, <1>10, <1>11, <1>12, <1>13

\* What is left, and what was there before and was put in, is the elements.
LEMMA CutElems ==
    ASSUME NEW S, NEW c \in Seq(S), Distinct(c),
           NEW i \in 1 .. Len(c) + 1, NEW j \in i .. Len(c) + 1
    PROVE  /\ Distinct(CutOut(c, i, j))
           /\ Elems(CutOut(c, i, j)) = Elems(c) \ Between(c, i, j)
<1>1. PICK n \in Nat : n = Len(c)
  OBVIOUS
<1>2. i \in Nat /\ j \in Nat /\ 1 <= i /\ i <= j /\ j <= n + 1
  BY <1>1
<1>3. PICK s : s = CutOut(c, i, j)
  OBVIOUS
<1>4. PICK w \in Nat : w = j - i /\ i + w = j
  BY <1>2
<1>5. /\ Len(s) = n - w
      /\ \A x \in 1 .. n - w : s[x] = IF x < i THEN c[x] ELSE c[x + w]
  <2>1. /\ Len(CutOut(c, i, j)) = Len(c) - (j - i)
        /\ \A x \in 1 .. Len(c) - (j - i) :
             CutOut(c, i, j)[x] = IF x < i THEN c[x] ELSE c[x + (j - i)]
    BY CutAt, Zenon
  <2>2. QED
    BY <1>1, <1>3, <1>4, <2>1
<1>6. \A x, y \in 1 .. n : c[x] = c[y] => x = y
  BY <1>1 DEF Distinct
<1>7. ASSUME NEW x \in 1 .. n - w
      PROVE  \E y \in 1 .. n : s[x] = c[y] /\ ((x < i /\ y = x) \/ (~ (x < i) /\ y = x + w))
  <2>1. CASE x < i
    <3>1. x \in 1 .. n /\ s[x] = c[x]
      BY <1>2, <1>4, <1>5, <2>1
    <3>2. QED
      BY <2>1, <3>1
  <2>2. CASE ~ (x < i)
    <3>1. x + w \in 1 .. n /\ s[x] = c[x + w]
      BY <1>2, <1>4, <1>5, <2>2
    <3>2. QED
      BY <2>2, <3>1
  <2>3. QED
    BY <2>1, <2>2
<1>8. Distinct(s)
  <2>1. SUFFICES ASSUME NEW x \in 1 .. n - w, NEW z \in 1 .. n - w, s[x] = s[z] PROVE x = z
    BY <1>5 DEF Distinct
  <2>2. PICK y \in 1 .. n : s[x] = c[y] /\ ((x < i /\ y = x) \/ (~ (x < i) /\ y = x + w))
    BY <1>7
  <2>3. PICK v \in 1 .. n : s[z] = c[v] /\ ((z < i /\ v = z) \/ (~ (z < i) /\ v = z + w))
    BY <1>7
  <2>4. y = v
    BY <1>6, <2>1, <2>2, <2>3
  <2>5. QED
    BY <1>2, <1>4, <2>2, <2>3, <2>4
<1>9. ASSUME NEW x \in 1 .. n - w PROVE s[x] \in Elems(c) \ Between(c, i, j)
  <2>1. PICK y \in 1 .. n : s[x] = c[y] /\ ((x < i /\ y = x) \/ (~ (x < i) /\ y = x + w))
    BY <1>7
  <2>2. ASSUME NEW v \in i .. j - 1 PROVE c[v] # c[y]
    <3>1. v \in 1 .. n /\ v # y
      BY <1>2, <1>4, <2>1
    <3>2. QED
      BY <1>6, <3>1
  <2>3. c[y] \in Elems(c)
    BY <1>1 DEF Elems
  <2>4. QED
    BY <2>1, <2>2, <2>3 DEF Between
<1>10. ASSUME NEW y \in 1 .. n, c[y] \notin Between(c, i, j) PROVE \E x \in 1 .. n - w : c[y] = s[x]
  <2>1. ~ (i <= y /\ y <= j - 1)
    BY <1>2, <1>10 DEF Between
  <2>2. CASE y < i
    <3>1. y \in 1 .. n - w /\ s[y] = c[y]
      BY <1>2, <1>4, <1>5, <2>2
    <3>2. QED
      BY <3>1
  <2>3. CASE y >= j
    <3>1. y - w \in 1 .. n - w /\ ~ (y - w < i) /\ y - w + w = y
      BY <1>2, <1>4, <2>3
    <3>2. s[y - w] = c[y]
      BY <1>5, <3>1
    <3>3. QED
      BY <3>1, <3>2
  <2>4. QED
    BY <1>2, <2>1, <2>2, <2>3
<1>11. Elems(s) = Elems(c) \ Between(c, i, j)
  <2>1. Elems(s) = {s[x] : x \in 1 .. n - w} /\ Elems(c) = {c[y] : y \in 1 .. n}
    BY <1>1, <1>5 DEF Elems
  <2>2. QED
    BY <1>9, <1>10, <2>1
<1>12. QED
  BY <1>3, <1>8, <1>11

LEMMA PutElems ==
    ASSUME NEW S, NEW c \in Seq(S), Distinct(c), NEW d \in Seq(S), Distinct(d),
           NEW i \in 1 .. Len(c) + 1, NEW j \in i .. Len(c) + 1, NEW k \in 1 .. Len(d) + 1,
           Elems(d) \cap Between(c, i, j) = {}
    PROVE  /\ Distinct(PutIn(d, k, c, i, j))
           /\ Elems(PutIn(d, k, c, i, j)) = Elems(d) \cup Between(c, i, j)
<1>1. PICK n \in Nat : n = Len(c)
  OBVIOUS
<1>2. PICK m \in Nat : m = Len(d)
  OBVIOUS
<1>3. i \in Nat /\ j \in Nat /\ k \in Nat /\ 1 <= i /\ i <= j /\ j <= n + 1 /\ 1 <= k /\ k <= m + 1
  BY <1>1, <1>2
<1>4. PICK s : s = PutIn(d, k, c, i, j)
  OBVIOUS
<1>5. PICK w \in Nat : w = j - i /\ i + w = j
  BY <1>3
<1>6. /\ Len(s) = m + w
      /\ \A x \in 1 .. m + w :
           s[x] = IF x < k THEN d[x] ELSE IF x < k + w THEN c[x - k + i] ELSE d[x - w]
  <2>1. IsPut(PutIn(d, k, c, i, j), d, k, c, i, j)
    BY PutAt
  <2>2. QED
    BY <1>2, <1>4, <1>5, <2>1 DEF IsPut
<1>7. /\ \A x, y \in 1 .. n : c[x] = c[y] => x = y
      /\ \A x, y \in 1 .. m : d[x] = d[y] => x = y
      /\ \A x \in 1 .. m : \A y \in i .. j - 1 : d[x] # c[y]
  <2>1. /\ \A x, y \in 1 .. n : c[x] = c[y] => x = y
        /\ \A x, y \in 1 .. m : d[x] = d[y] => x = y
    BY <1>1, <1>2 DEF Distinct
  <2>2. \A x \in 1 .. m : d[x] \in Elems(d)
    BY <1>2 DEF Elems
  <2>3. \A y \in i .. j - 1 : c[y] \in Between(c, i, j)
    BY DEF Between
  <2>4. QED
    BY <2>1, <2>2, <2>3
\* Place x of the new list is place y of d or of c.
<1> DEFINE OfD(x, y) == s[x] = d[y] /\ ((x < k /\ y = x) \/ (x >= k + w /\ y = x - w))
           OfC(x, y) == s[x] = c[y] /\ k <= x /\ x < k + w /\ y = x - k + i
<1>8. ASSUME NEW x \in 1 .. m + w
      PROVE  (\E y \in 1 .. m : OfD(x, y)) \/ (\E y \in i .. j - 1 : OfC(x, y))
  <2>0. x \in Nat /\ 1 <= x /\ x <= m + w
    OBVIOUS
  <2>1. CASE x < k
    <3>1. x \in 1 .. m /\ s[x] = d[x]
      BY <1>3, <1>6, <2>1
    <3>2. QED
      BY <2>1, <3>1
  <2>2. CASE k <= x /\ x < k + w
    <3>1. x - k + i \in i .. j - 1 /\ ~ (x < k)
      BY ONLY <1>3, <1>5, <2>0, <2>2, m \in Nat, n \in Nat, w \in Nat
    <3>2. s[x] = c[x - k + i]
      BY <1>6, <2>2, <3>1
    <3>3. QED
      BY <2>2, <3>1, <3>2
  <2>3. CASE x >= k + w
    <3>1. x - w \in 1 .. m /\ ~ (x < k) /\ ~ (x < k + w)
      BY ONLY <1>3, <1>5, <2>0, <2>3, m \in Nat, n \in Nat, w \in Nat
    <3>2. s[x] = d[x - w]
      BY <1>6, <3>1
    <3>3. QED
      BY <2>3, <3>1, <3>2
  <2>4. QED
    BY <1>3, <2>0, <2>1, <2>2, <2>3
<1>9. Distinct(s)
  <2>1. SUFFICES ASSUME NEW x \in 1 .. m + w, NEW z \in 1 .. m + w, s[x] = s[z] PROVE x = z
    BY <1>6 DEF Distinct
  <2>2. x \in Nat /\ z \in Nat
    OBVIOUS
  <2>3. CASE \E y \in 1 .. m : OfD(x, y)
    <3>1. PICK y \in 1 .. m : OfD(x, y)
      BY <2>3
    <3>2. PICK v \in 1 .. m : OfD(z, v)
      BY <1>7, <1>8, <2>1, <3>1
    <3>3. y = v
      BY <1>7, <2>1, <3>1, <3>2
    <3>4. QED
      BY <1>3, <2>2, <3>1, <3>2, <3>3
  <2>4. CASE \E y \in i .. j - 1 : OfC(x, y)
    <3>1. PICK y \in i .. j - 1 : OfC(x, y)
      BY <2>4
    <3>2. PICK v \in i .. j - 1 : OfC(z, v)
      BY <1>7, <1>8, <2>1, <3>1
    <3>3. y \in 1 .. n /\ v \in 1 .. n
      BY <1>3
    <3>4. y = v
      BY <1>7, <2>1, <3>1, <3>2, <3>3
    <3>5. QED
      BY <1>3, <2>2, <3>1, <3>2, <3>4
  <2>5. QED
    BY <1>8, <2>3, <2>4
<1>10. ASSUME NEW y \in 1 .. m PROVE \E x \in 1 .. m + w : d[y] = s[x]
  <2>1. CASE y < k
    <3>1. y \in 1 .. m + w /\ s[y] = d[y]
      BY <1>6, <2>1
    <3>2. QED
      BY <3>1
  <2>2. CASE ~ (y < k)
    <3>1. y + w \in 1 .. m + w /\ ~ (y + w < k) /\ ~ (y + w < k + w) /\ y + w - w = y
      BY <1>3, <2>2
    <3>2. s[y + w] = d[y]
      BY <1>6, <3>1
    <3>3. QED
      BY <3>1, <3>2
  <2>3. QED
    BY <2>1, <2>2
<1>11. ASSUME NEW y \in i .. j - 1 PROVE \E x \in 1 .. m + w : c[y] = s[x]
  <2>0. y \in Nat /\ i <= y /\ y <= j - 1
    BY <1>3
  <2>1. PICK x : x = y - i + k
    OBVIOUS
  <2>2. x \in 1 .. m + w /\ ~ (x < k) /\ x < k + w /\ x - k + i = y
    BY ONLY <1>3, <1>5, <2>0, <2>1, m \in Nat, n \in Nat, w \in Nat
  <2>3. s[x] = c[y]
    BY <1>6, <2>2
  <2>4. QED
    BY <2>2, <2>3
<1>12. Elems(s) = Elems(d) \cup Between(c, i, j)
  <2>1. Elems(s) = {s[x] : x \in 1 .. m + w} /\ Elems(d) = {d[y] : y \in 1 .. m}
    BY <1>2, <1>6 DEF Elems
  <2>2. \A x \in 1 .. m + w : (\E y \in 1 .. m : s[x] = d[y]) \/ (\E y \in i .. j - 1 : s[x] = c[y])
    BY <1>8
  <2>3. Elems(s) \subseteq Elems(d) \cup Between(c, i, j)
    BY <2>1, <2>2 DEF Between
  <2>4. Elems(d) \subseteq Elems(s)
    BY <1>10, <2>1
  <2>5. Between(c, i, j) \subseteq Elems(s)
    BY <1>11, <2>1 DEF Between
  <2>6. QED
    BY <2>3, <2>4, <2>5
<1>13. QED
  BY <1>4, <1>9, <1>12

\* A list none of whose nodes' pointers change.
LEMMA OthersKept ==
    ASSUME NEW N, NEW h, NEW r, NEW d \in Seq(N), Chain(h, d),
           \A x \in Elems(d) : r.next[x] = h.next[x] /\ r.prev[x] = h.prev[x]
    PROVE  Chain(r, d)
<1>1. Len(d) \in Nat /\ \A i \in 1 .. Len(d) - 1 : i \in 1 .. Len(d) /\ i + 1 \in 1 .. Len(d)
  OBVIOUS
<1>2. \A i \in 1 .. Len(d) : d[i] \in Elems(d)
  BY DEF Elems
<1>3. \A i \in 1 .. Len(d) - 1 : /\ r.next[d[i]] = h.next[d[i]]
                                 /\ r.prev[d[i + 1]] = h.prev[d[i + 1]]
  BY <1>1, <1>2
<1>4. QED
  BY <1>1, <1>3, ChainKept

\* list_remove(), and with it list_pop_front() and list_pop_back(): on every
\* heap, the list is left linked both ways without the element, and no other
\* list changes.
THEOREM RemoveLinks ==
    ASSUME NEW N, NEW nil, NEW h \in Heap(N, nil),
           NEW c \in Seq(N), Distinct(c), Chain(h, c), NEW k \in 2 .. Len(c) - 1
    PROVE  LET r == list_remove(h, c[k])
               s == CutOut(c, k, k + 1)
           IN /\ r \in Heap(N, nil) /\ Chain(r, s) /\ Distinct(s) /\ Elems(s) = Elems(c) \ {c[k]}
              /\ \A d \in Seq(N) : Chain(h, d) /\ Elems(d) \cap Elems(c) = {} => Chain(r, d)
<1>1. PICK r : r = list_remove(h, c[k])
  OBVIOUS
<1>2. PICK n \in Nat : n = Len(c)
  OBVIOUS
<1>3. k \in Nat /\ 2 <= k /\ k <= n - 1
  BY <1>2
<1>4. \A x, y \in 1 .. n : c[x] = c[y] => x = y
  BY <1>2 DEF Distinct
<1>5. \A x \in 1 .. n : c[x] \in N /\ c[x] \in Elems(c)
  BY <1>2 DEF Elems
<1>6. \A x \in 1 .. n - 1 : h.next[c[x]] = c[x + 1] /\ h.prev[c[x + 1]] = c[x]
  BY <1>2 DEF Chain
<1>7. PICK e \in N, p \in N, f \in N : e = c[k] /\ p = c[k - 1] /\ f = c[k + 1]
  BY <1>3, <1>5
<1>8. h.prev[e] = p /\ h.next[e] = f /\ p # e /\ f # e
  <2>1. h.next[c[k - 1]] = c[k - 1 + 1] /\ h.prev[c[k - 1 + 1]] = c[k - 1] /\ k - 1 + 1 = k
    BY <1>3, <1>6
  <2>2. h.next[c[k]] = c[k + 1]
    BY <1>3, <1>6
  <2>3. c[k - 1] # c[k] /\ c[k + 1] # c[k]
    BY <1>3, <1>4
  <2>4. QED
    BY <1>7, <2>1, <2>2, <2>3
<1>9. /\ r \in Heap(N, nil) /\ r.next[p] = f /\ r.prev[f] = p
      /\ \A x \in N : x # p => r.next[x] = h.next[x]
      /\ \A x \in N : x # f => r.prev[x] = h.prev[x]
  BY <1>1, <1>7, <1>8, RemoveSets
<1>10. Chain(r, CutOut(c, k, k + 1))
  <2>1. ASSUME NEW x \in 1 .. n - 1, x < k - 1 \/ x >= k + 1 PROVE Linked(r, c, x)
    <3>1. c[x] # p /\ c[x + 1] # f /\ x \in 1 .. n /\ x + 1 \in 1 .. n
      BY <1>3, <1>4, <1>7, <2>1
    <3>2. QED
      BY <1>5, <1>6, <1>9, <3>1 DEF Linked
  <2>2. PICK i, j, g : /\ i = k /\ j = k + 1 /\ g = 0
                       /\ i \in 2 .. Len(c) /\ j \in i .. Len(c) /\ g \in 0 .. i - 2
    BY <1>2, <1>3
  <2>3. r.next[c[i - 1]] = c[j] /\ r.prev[c[j]] = c[i - 1]
    BY <1>7, <1>9, <2>2
  <2>4. \A x \in 1 .. Len(c) - 1 : (x < i - 1 \/ x >= j) /\ x # g => Linked(r, c, x)
    BY <1>2, <2>1, <2>2
  <2>5. \A x \in 1 .. Len(CutOut(c, i, j)) - 1 : x # g => Linked(r, CutOut(c, i, j), x)
    BY <2>2, <2>3, <2>4, CutLinked
  <2>6. \A x \in 1 .. Len(CutOut(c, k, k + 1)) - 1 : Linked(r, CutOut(c, k, k + 1), x)
    <3>1. ASSUME NEW x \in 1 .. Len(CutOut(c, i, j)) - 1 PROVE Linked(r, CutOut(c, i, j), x)
      <4>1. x # g
        BY <2>2
      <4>2. QED
        BY <2>5, <4>1
    <3>2. QED
      BY <2>2, <3>1
  <2>7. QED
    BY <2>6 DEF Chain, Linked
<1>11. Distinct(CutOut(c, k, k + 1)) /\ Elems(CutOut(c, k, k + 1)) = Elems(c) \ {c[k]}
  <2>1. PICK i, j : /\ i = k /\ j = k + 1
                    /\ i \in 1 .. Len(c) + 1 /\ j \in i .. Len(c) + 1
    BY <1>2, <1>3
  <2>2. Distinct(CutOut(c, i, j)) /\ Elems(CutOut(c, i, j)) = Elems(c) \ Between(c, i, j)
    BY <2>1, CutElems
  <2>3. i .. j - 1 = {k}
    BY <1>3, <2>1
  <2>4. Between(c, i, j) = {c[k]}
    BY <2>3 DEF Between
  <2>5. QED
    BY <2>1, <2>2, <2>4
<1>12. ASSUME NEW d \in Seq(N), Chain(h, d), Elems(d) \cap Elems(c) = {} PROVE Chain(r, d)
  <2>1. p \in Elems(c) /\ f \in Elems(c)
    BY <1>3, <1>5, <1>7
  <2>2. \A x \in Elems(d) : r.next[x] = h.next[x] /\ r.prev[x] = h.prev[x]
    <3>1. \A x \in Elems(d) : x \in N
      BY DEF Elems
    <3>2. QED
      BY <1>9, <1>12, <2>1, <3>1
  <2>3. QED
    BY <1>12, <2>2, OthersKept
<1>13. QED
  BY <1>1, <1>9, <1>10, <1>11, <1>12

\* list_splice() between two lists: on every heap, the elements from FIRST up
\* to END leave their list and come, in order, before BEFORE; both lists are
\* linked both ways, and no other list changes.
THEOREM SpliceLinks ==
    ASSUME NEW N, NEW nil, NEW h \in Heap(N, nil),
           NEW c \in Seq(N), Distinct(c), Chain(h, c),
           NEW d \in Seq(N), Distinct(d), Chain(h, d), Elems(c) \cap Elems(d) = {},
           NEW i \in 2 .. Len(c), NEW j \in i + 1 .. Len(c), NEW k \in 2 .. Len(d)
    PROVE  LET r == list_splice(h, d[k], c[i], c[j])
               s == CutOut(c, i, j)
               t == PutIn(d, k, c, i, j)
           IN /\ r \in Heap(N, nil)
              /\ Chain(r, s) /\ Distinct(s) /\ Elems(s) = Elems(c) \ Between(c, i, j)
              /\ Chain(r, t) /\ Distinct(t) /\ Elems(t) = Elems(d) \cup Between(c, i, j)
              /\ \A o \in Seq(N) : Chain(h, o) /\ Elems(o) \cap (Elems(c) \cup Elems(d)) = {} => Chain(r, o)
<1>1. PICK r : r = list_splice(h, d[k], c[i], c[j])
  OBVIOUS
<1>2. PICK n \in Nat, m \in Nat : n = Len(c) /\ m = Len(d)
  OBVIOUS
<1>3. i \in Nat /\ j \in Nat /\ k \in Nat /\ 2 <= i /\ i < j /\ j <= n /\ 2 <= k /\ k <= m
  BY <1>2
<1>4. /\ \A x, y \in 1 .. n : c[x] = c[y] => x = y
      /\ \A x, y \in 1 .. m : d[x] = d[y] => x = y
  BY <1>2 DEF Distinct
<1>5. /\ \A x \in 1 .. n : c[x] \in N /\ c[x] \in Elems(c)
      /\ \A x \in 1 .. m : d[x] \in N /\ d[x] \in Elems(d)
  BY <1>2 DEF Elems
<1>6. \A x \in 1 .. n : \A y \in 1 .. m : c[x] # d[y]
  BY <1>5
<1>7. /\ \A x \in 1 .. n - 1 : h.next[c[x]] = c[x + 1] /\ h.prev[c[x + 1]] = c[x]
      /\ \A x \in 1 .. m - 1 : h.next[d[x]] = d[x + 1] /\ h.prev[d[x + 1]] = d[x]
  BY <1>2 DEF Chain
<1>8. PICK p \in N, first \in N, last \in N, end \in N, q \in N, before \in N :
        /\ p = c[i - 1] /\ first = c[i] /\ last = c[j - 1] /\ end = c[j]
        /\ q = d[k - 1] /\ before = d[k]
  BY <1>3, <1>5
<1>9. /\ h.prev[first] = p /\ h.next[last] = end /\ h.prev[end] = last /\ h.prev[before] = q
      /\ first # end /\ p # last /\ first # before /\ end # before /\ last # q /\ p # q
  <2>1. i - 1 \in 1 .. n - 1 /\ i - 1 + 1 = i /\ j - 1 \in 1 .. n - 1 /\ j - 1 + 1 = j
    BY <1>3
  <2>2. k - 1 \in 1 .. m - 1 /\ k - 1 + 1 = k /\ k - 1 \in 1 .. m /\ k \in 1 .. m
    BY <1>3
  <2>3. h.prev[c[i]] = c[i - 1] /\ h.next[c[j - 1]] = c[j] /\ h.prev[c[j]] = c[j - 1]
    BY <1>7, <2>1
  <2>4. h.prev[d[k]] = d[k - 1]
    BY <1>7, <2>2
  <2>5. i - 1 \in 1 .. n /\ i \in 1 .. n /\ j - 1 \in 1 .. n /\ j \in 1 .. n
        /\ i # j /\ i - 1 # j - 1
    BY <1>3
  <2>6. c[i] # c[j] /\ c[i - 1] # c[j - 1]
    BY <1>4, <2>5
  <2>7. c[i] # d[k] /\ c[j] # d[k] /\ c[j - 1] # d[k - 1] /\ c[i - 1] # d[k - 1]
    BY <1>6, <2>2, <2>5
  <2>8. QED
    BY <1>8, <2>3, <2>4, <2>6, <2>7
<1>10. /\ r \in Heap(N, nil)
       /\ r.next[p] = end /\ r.prev[end] = p
       /\ r.next[q] = first /\ r.prev[first] = q
       /\ r.next[last] = before /\ r.prev[before] = last
       /\ \A x \in N : x \notin {p, q, last} => r.next[x] = h.next[x]
       /\ \A x \in N : x \notin {end, first, before} => r.prev[x] = h.prev[x]
  <2>1. r = list_splice(h, before, first, end) /\ Apart(N, h, p, first, last, end, q, before)
    BY <1>1, <1>8, <1>9 DEF Apart
  <2>2. r \in Heap(N, nil) /\ Moved(N, h, r, p, first, last, end, q, before)
    BY <2>1, SpliceSets
  <2>3. QED
    BY <2>2 DEF Moved
<1>11. ASSUME NEW x \in 1 .. n - 1, x # i - 1, x # j - 1 PROVE Linked(r, c, x)
  <2>1. x \in 1 .. n /\ x + 1 \in 1 .. n /\ x + 1 # i /\ x + 1 # j
    BY <1>3, <1>11
  <2>2. i - 1 \in 1 .. n /\ i \in 1 .. n /\ j - 1 \in 1 .. n /\ j \in 1 .. n
    BY <1>3
  <2>3. c[x] # c[i - 1] /\ c[x] # c[j - 1] /\ c[x + 1] # c[j] /\ c[x + 1] # c[i]
    BY <1>4, <1>11, <2>1, <2>2
  <2>4. c[x] # d[k - 1] /\ c[x + 1] # d[k]
    BY <1>3, <1>6, <2>1
  <2>5. c[x] \notin {p, q, last} /\ c[x + 1] \notin {end, first, before}
    BY <1>8, <2>3, <2>4
  <2>6. QED
    BY <1>5, <1>7, <1>10, <2>1, <2>5 DEF Linked
<1>12. ASSUME NEW x \in 1 .. m - 1, x # k - 1 PROVE Linked(r, d, x)
  <2>1. x \in 1 .. m /\ x + 1 \in 1 .. m /\ x + 1 # k
    BY <1>3, <1>12
  <2>2. k - 1 \in 1 .. m /\ k \in 1 .. m
    BY <1>3
  <2>3. d[x] # d[k - 1] /\ d[x + 1] # d[k]
    BY <1>4, <1>12, <2>1, <2>2
  <2>4. d[x] # c[i - 1] /\ d[x] # c[j - 1] /\ d[x + 1] # c[j] /\ d[x + 1] # c[i]
    BY <1>3, <1>6, <2>1
  <2>5. d[x] \notin {p, q, last} /\ d[x + 1] \notin {end, first, before}
    BY <1>8, <2>3, <2>4
  <2>6. QED
    BY <1>5, <1>7, <1>10, <2>1, <2>5 DEF Linked
<1>13. Chain(r, CutOut(c, i, j))
  <2>1. i \in 2 .. Len(c) /\ j \in i .. Len(c) /\ 0 \in 0 .. i - 2
    BY <1>2, <1>3
  <2>2. r.next[c[i - 1]] = c[j] /\ r.prev[c[j]] = c[i - 1]
    BY <1>8, <1>10
  <2>3. \A x \in 1 .. Len(c) - 1 : (x < i - 1 \/ x >= j) /\ x # 0 => Linked(r, c, x)
    BY <1>2, <1>3, <1>11
  <2>4. \A x \in 1 .. Len(CutOut(c, i, j)) - 1 : x # 0 => Linked(r, CutOut(c, i, j), x)
    BY <2>1, <2>2, <2>3, CutLinked
  <2>5. \A x \in 1 .. Len(CutOut(c, i, j)) - 1 : Linked(r, CutOut(c, i, j), x)
    <3>1. ASSUME NEW x \in 1 .. Len(CutOut(c, i, j)) - 1 PROVE x # 0
      OBVIOUS
    <3>2. QED
      BY <2>4, <3>1
  <2>6. QED
    BY <2>5 DEF Chain, Linked
<1>14. Chain(r, PutIn(d, k, c, i, j))
  <2>1. i \in 1 .. Len(c) /\ j \in i + 1 .. Len(c) + 1
    BY <1>2, <1>3
  <2>2. /\ r.next[d[k - 1]] = c[i] /\ r.prev[c[i]] = d[k - 1]
        /\ r.next[c[j - 1]] = d[k] /\ r.prev[d[k]] = c[j - 1]
    BY <1>8, <1>10
  <2>3. \A x \in 1 .. Len(c) - 1 : i <= x /\ x < j - 1 => Linked(r, c, x)
    BY <1>2, <1>3, <1>11
  <2>4. \A x \in 1 .. Len(d) - 1 : x # k - 1 => Linked(r, d, x)
    BY <1>2, <1>12
  <2>5. QED
    BY <2>1, <2>2, <2>3, <2>4, PutChain
<1>15. /\ Distinct(CutOut(c, i, j)) /\ Elems(CutOut(c, i, j)) = Elems(c) \ Between(c, i, j)
       /\ Distinct(PutIn(d, k, c, i, j)) /\ Elems(PutIn(d, k, c, i, j)) = Elems(d) \cup Between(c, i, j)
  <2>1. i \in 1 .. Len(c) + 1 /\ j \in i .. Len(c) + 1 /\ k \in 1 .. Len(d) + 1
    BY <1>2, <1>3
  <2>2. Distinct(CutOut(c, i, j)) /\ Elems(CutOut(c, i, j)) = Elems(c) \ Between(c, i, j)
    BY <2>1, CutElems
  <2>3. Elems(d) \cap Between(c, i, j) = {}
    <3>1. \A x \in i .. j - 1 : c[x] \in Elems(c)
      BY <1>3, <1>5
    <3>2. QED
      BY <3>1 DEF Between
  <2>4. /\ Distinct(PutIn(d, k, c, i, j))
        /\ Elems(PutIn(d, k, c, i, j)) = Elems(d) \cup Between(c, i, j)
    BY <2>1, <2>3, PutElems
  <2>5. QED
    BY <2>2, <2>4
<1>16. ASSUME NEW o \in Seq(N), Chain(h, o), Elems(o) \cap (Elems(c) \cup Elems(d)) = {}
       PROVE  Chain(r, o)
  <2>1. {p, q, last, end, first, before} \subseteq Elems(c) \cup Elems(d)
    BY <1>3, <1>5, <1>8
  <2>2. \A x \in Elems(o) : x \in N
    BY DEF Elems
  <2>3. \A x \in Elems(o) : r.next[x] = h.next[x] /\ r.prev[x] = h.prev[x]
    BY <1>10, <1>16, <2>1, <2>2
  <2>4. QED
    BY <1>16, <2>3, OthersKept
<1>17. QED
  BY <1>1, <1>10, <1>13, <1>14, <1>15, <1>16

\* list_splice() within one list, as the merge of list_sort() uses it: on every
\* heap, the elements from FIRST up to END come before an earlier element of
\* their list, which keeps all its elements, linked both ways; no other list
\* changes.
THEOREM SpliceWithin ==
    ASSUME NEW N, NEW nil, NEW h \in Heap(N, nil),
           NEW c \in Seq(N), Distinct(c), Chain(h, c),
           NEW i \in 3 .. Len(c), NEW j \in i + 1 .. Len(c), NEW k \in 2 .. i - 1
    PROVE  LET r == list_splice(h, c[k], c[i], c[j])
               t == PutIn(CutOut(c, i, j), k, c, i, j)
           IN /\ r \in Heap(N, nil)
              /\ Chain(r, t) /\ Distinct(t) /\ Elems(t) = Elems(c)
              /\ \A o \in Seq(N) : Chain(h, o) /\ Elems(o) \cap Elems(c) = {} => Chain(r, o)
<1>1. PICK r : r = list_splice(h, c[k], c[i], c[j])
  OBVIOUS
<1>2. PICK n \in Nat : n = Len(c)
  OBVIOUS
<1>3. i \in Nat /\ j \in Nat /\ k \in Nat /\ 3 <= i /\ i < j /\ j <= n /\ 2 <= k /\ k < i
  BY <1>2
<1>4. \A x, y \in 1 .. n : c[x] = c[y] => x = y
  BY <1>2 DEF Distinct
<1>5. \A x \in 1 .. n : c[x] \in N /\ c[x] \in Elems(c)
  BY <1>2 DEF Elems
<1>6. \A x \in 1 .. n - 1 : h.next[c[x]] = c[x + 1] /\ h.prev[c[x + 1]] = c[x]
  BY <1>2 DEF Chain
<1>7. PICK p \in N, first \in N, last \in N, end \in N, q \in N, before \in N :
        /\ p = c[i - 1] /\ first = c[i] /\ last = c[j - 1] /\ end = c[j]
        /\ q = c[k - 1] /\ before = c[k]
  BY <1>3, <1>5
<1>8. /\ i - 1 \in 1 .. n /\ i \in 1 .. n /\ j - 1 \in 1 .. n /\ j \in 1 .. n
      /\ k - 1 \in 1 .. n /\ k \in 1 .. n
  BY <1>3
<1>9. /\ h.prev[first] = p /\ h.next[last] = end /\ h.prev[end] = last /\ h.prev[before] = q
      /\ first # end /\ p # last /\ first # before /\ end # before /\ last # q /\ p # q
  <2>1. /\ i - 1 \in 1 .. n - 1 /\ i - 1 + 1 = i /\ j - 1 \in 1 .. n - 1 /\ j - 1 + 1 = j
        /\ k - 1 \in 1 .. n - 1 /\ k - 1 + 1 = k
    BY <1>3
  <2>2. /\ h.prev[c[i]] = c[i - 1] /\ h.next[c[j - 1]] = c[j] /\ h.prev[c[j]] = c[j - 1]
        /\ h.prev[c[k]] = c[k - 1]
    BY <1>6, <2>1
  <2>3. i # j /\ i - 1 # j - 1 /\ i # k /\ j # k /\ j - 1 # k - 1 /\ i - 1 # k - 1
    BY <1>3
  <2>4. /\ c[i] # c[j] /\ c[i - 1] # c[j - 1] /\ c[i] # c[k] /\ c[j] # c[k]
        /\ c[j - 1] # c[k - 1] /\ c[i - 1] # c[k - 1]
    BY <1>4, <1>8, <2>3
  <2>5. QED
    BY <1>7, <2>2, <2>4
<1>10. /\ r \in Heap(N, nil)
       /\ r.next[p] = end /\ r.prev[end] = p
       /\ r.next[q] = first /\ r.prev[first] = q
       /\ r.next[last] = before /\ r.prev[before] = last
       /\ \A x \in N : x \notin {p, q, last} => r.next[x] = h.next[x]
       /\ \A x \in N : x \notin {end, first, before} => r.prev[x] = h.prev[x]
  <2>1. r = list_splice(h, before, first, end) /\ Apart(N, h, p, first, last, end, q, before)
    BY <1>1, <1>7, <1>9 DEF Apart
  <2>2. r \in Heap(N, nil) /\ Moved(N, h, r, p, first, last, end, q, before)
    BY <2>1, SpliceSets
  <2>3. QED
    BY <2>2 DEF Moved
<1>11. ASSUME NEW x \in 1 .. n - 1, x # i - 1, x # j - 1, x # k - 1 PROVE Linked(r, c, x)
  <2>1. x \in 1 .. n /\ x + 1 \in 1 .. n /\ x + 1 # i /\ x + 1 # j /\ x + 1 # k
    BY <1>3, <1>11
  <2>2. /\ c[x] # c[i - 1] /\ c[x] # c[j - 1] /\ c[x + 1] # c[j] /\ c[x + 1] # c[i]
        /\ c[x] # c[k - 1] /\ c[x + 1] # c[k]
    BY <1>4, <1>8, <1>11, <2>1
  <2>3. c[x] \notin {p, q, last} /\ c[x + 1] \notin {end, first, before}
    BY <1>7, <2>2
  <2>4. QED
    BY <1>5, <1>6, <1>10, <2>1, <2>3 DEF Linked
<1>12. PICK d : d = CutOut(c, i, j)
  OBVIOUS
<1>13. PICK w \in Nat : w = j - i /\ i + w = j
  BY <1>3
<1>14. i \in 1 .. Len(c) + 1 /\ j \in i .. Len(c) + 1
  BY <1>2, <1>3
<1>15. /\ d \in Seq(N) /\ Len(d) = n - w
       /\ \A x \in 1 .. n - w : d[x] = IF x < i THEN c[x] ELSE c[x + w]
  <2>1. /\ CutOut(c, i, j) \in Seq(N) /\ Len(CutOut(c, i, j)) = Len(c) - (j - i)
        /\ \A x \in 1 .. Len(c) - (j - i) :
             CutOut(c, i, j)[x] = IF x < i THEN c[x] ELSE c[x + (j - i)]
    BY <1>14, CutAt, Zenon
  <2>2. QED
    BY <1>2, <1>12, <1>13, <2>1
<1>16. k \in 2 .. Len(d) /\ d[k] = c[k] /\ d[k - 1] = c[k - 1]
  BY <1>3, <1>13, <1>15
<1>17. \A x \in 1 .. Len(d) - 1 : x # k - 1 => Linked(r, d, x)
  <2>1. i \in 2 .. Len(c) /\ j \in i .. Len(c) /\ k - 1 \in 0 .. i - 2
    BY <1>2, <1>3
  <2>2. r.next[c[i - 1]] = c[j] /\ r.prev[c[j]] = c[i - 1]
    BY <1>7, <1>10
  <2>3. \A x \in 1 .. Len(c) - 1 : (x < i - 1 \/ x >= j) /\ x # k - 1 => Linked(r, c, x)
    BY <1>2, <1>3, <1>11
  <2>4. \A x \in 1 .. Len(CutOut(c, i, j)) - 1 : x # k - 1 => Linked(r, CutOut(c, i, j), x)
    BY <2>1, <2>2, <2>3, CutLinked
  <2>5. QED
    BY <1>12, <2>4
<1>18. Chain(r, PutIn(d, k, c, i, j))
  <2>1. i \in 1 .. Len(c) /\ j \in i + 1 .. Len(c) + 1
    BY <1>2, <1>3
  <2>2. /\ r.next[d[k - 1]] = c[i] /\ r.prev[c[i]] = d[k - 1]
        /\ r.next[c[j - 1]] = d[k] /\ r.prev[d[k]] = c[j - 1]
    BY <1>7, <1>10, <1>16
  <2>3. \A x \in 1 .. Len(c) - 1 : i <= x /\ x < j - 1 => Linked(r, c, x)
    BY <1>2, <1>3, <1>11
  <2>4. QED
    BY <1>15, <1>16, <1>17, <2>1, <2>2, <2>3, PutChain
<1>19. Distinct(PutIn(d, k, c, i, j)) /\ Elems(PutIn(d, k, c, i, j)) = Elems(c)
  <2>1. Distinct(CutOut(c, i, j)) /\ Elems(CutOut(c, i, j)) = Elems(c) \ Between(c, i, j)
    BY <1>14, CutElems
  <2>2. Distinct(d) /\ Elems(d) = Elems(c) \ Between(c, i, j) /\ Elems(d) \cap Between(c, i, j) = {}
    BY <1>12, <2>1
  <2>3. k \in 1 .. Len(d) + 1
    BY <1>15, <1>16
  <2>4. /\ Distinct(PutIn(d, k, c, i, j))
        /\ Elems(PutIn(d, k, c, i, j)) = Elems(d) \cup Between(c, i, j)
    BY <1>14, <1>15, <2>2, <2>3, PutElems
  <2>5. Between(c, i, j) \subseteq Elems(c)
    <3>1. \A x \in i .. j - 1 : c[x] \in Elems(c)
      BY <1>3, <1>5
    <3>2. QED
      BY <3>1 DEF Between
  <2>6. QED
    BY <2>2, <2>4, <2>5
<1>20. ASSUME NEW o \in Seq(N), Chain(h, o), Elems(o) \cap Elems(c) = {} PROVE Chain(r, o)
  <2>1. {p, q, last, end, first, before} \subseteq Elems(c)
    BY <1>5, <1>7, <1>8
  <2>2. \A x \in Elems(o) : x \in N
    BY DEF Elems
  <2>3. \A x \in Elems(o) : r.next[x] = h.next[x] /\ r.prev[x] = h.prev[x]
    BY <1>10, <1>20, <2>1, <2>2
  <2>4. QED
    BY <1>20, <2>3, OthersKept
<1>21. QED
  BY <1>1, <1>10, <1>12, <1>18, <1>19, <1>20
=============================================================================
