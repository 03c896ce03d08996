---------------------------- MODULE MemoryProofs ----------------------------
(***************************************************************************)
(* Proofs about the bitmap, the page pool, the block allocator, the loader *)
(* and the index of an inode, for any threads, any number of pages, any    *)
(* sizes of blocks and elements, any executable, any disk.  The loader is  *)
(* imported with variables of its own: it shares only the pages it counts  *)
(* with the pool.                                                          *)
(***************************************************************************)
EXTENDS Memory, InodeIndex, ListProofs

CONSTANTS W, PGSIZE, PHYS_BASE, PTES, Image, FLEN, USER_PAGES, KERNEL_PAGES, CmdBytes
VARIABLES phdrs, lpc, hdr, seg, map, pagedir, tables, user_free, kernel_free

INSTANCE Loader WITH pc <- lpc, i <- hdr

-----------------------------------------------------------------------------
(***************************************************************************)
(* Bitmaps.                                                                *)
(***************************************************************************)

IsBitmap(b, n) == b \in [bit_cnt : {n}, bits : [0..(elem_cnt(n) - 1) -> SUBSET Bit]]

\* A bit is one bit of one element.
LEMMA BitAt ==
  ASSUME ELEM_BITS \in Nat \ {0}, NEW n \in Nat, NEW i \in 0..(n - 1)
  PROVE  /\ elem_idx(i) \in 0..(elem_cnt(n) - 1) /\ i % ELEM_BITS \in Bit
         /\ i = ELEM_BITS * elem_idx(i) + (i % ELEM_BITS)
<1>1. i \in Nat /\ i \div ELEM_BITS \in Nat /\ i % ELEM_BITS \in 0..(ELEM_BITS - 1)
  OBVIOUS
<1>2. i = ELEM_BITS * (i \div ELEM_BITS) + (i % ELEM_BITS)
  BY <1>1
<1>3. i \div ELEM_BITS \in 0..(((n + ELEM_BITS - 1) \div ELEM_BITS) - 1)
  BY <1>1, <1>2
<1>4. QED
  BY <1>1, <1>2, <1>3 DEF elem_idx, elem_cnt, Bit

LEMMA BitsApart ==
  ASSUME ELEM_BITS \in Nat \ {0}, NEW n \in Nat, NEW i \in 0..(n - 1), NEW j \in 0..(n - 1),
         elem_idx(i) = elem_idx(j), i % ELEM_BITS = j % ELEM_BITS
  PROVE  i = j
<1>1. i = ELEM_BITS * elem_idx(i) + (i % ELEM_BITS) /\ j = ELEM_BITS * elem_idx(j) + (j % ELEM_BITS)
  BY BitAt
<1>2. QED
  BY <1>1

\* OR and AND with a mask change one bit.
LEMMA SetOne ==
  ASSUME ELEM_BITS \in Nat \ {0}, NEW n \in Nat, NEW b, IsBitmap(b, n),
         NEW i \in 0..(n - 1), NEW v \in BOOLEAN
  PROVE  /\ IsBitmap(bitmap_set(b, i, v), n)
         /\ \A j \in 0..(n - 1) :
              bitmap_test(bitmap_set(b, i, v), j) <=> IF j = i THEN v ELSE bitmap_test(b, j)
<1> DEFINE e == elem_idx(i)
           k == i % ELEM_BITS
           x == IF v THEN b.bits[e] \cup {k} ELSE b.bits[e] \ {k}
           r == bitmap_set(b, i, v)
<1>1. e \in 0..(elem_cnt(n) - 1) /\ k \in Bit
  BY BitAt
<1>2. b \in [bit_cnt : {n}, bits : [0..(elem_cnt(n) - 1) -> SUBSET Bit]]
  BY DEF IsBitmap
<1>3. r = [b EXCEPT !.bits = [@ EXCEPT ![e] = x]]
  BY <1>2 DEF bitmap_set, bitmap_mark, bitmap_reset, bit_mask
<1>4. x \in SUBSET Bit
  BY <1>1, <1>2
<1> HIDE DEF e, k, x, r
<1>5. [b.bits EXCEPT ![e] = x] \in [0..(elem_cnt(n) - 1) -> SUBSET Bit]
  BY <1>1, <1>2, <1>4
<1>6. IsBitmap(r, n) /\ r.bits = [b.bits EXCEPT ![e] = x]
  BY <1>2, <1>3, <1>5 DEF IsBitmap
<1>7. ASSUME NEW j \in 0..(n - 1)
      PROVE  bitmap_test(r, j) <=> IF j = i THEN v ELSE bitmap_test(b, j)
  <2>1. elem_idx(j) \in 0..(elem_cnt(n) - 1)
    BY BitAt
  <2>2. /\ bitmap_test(r, j) <=> j % ELEM_BITS \in r.bits[elem_idx(j)]
        /\ bitmap_test(b, j) <=> j % ELEM_BITS \in b.bits[elem_idx(j)]
    BY DEF bitmap_test, bit_mask
  <2>3. CASE elem_idx(j) # e
    BY <1>2, <1>6, <2>1, <2>2, <2>3 DEF e
  <2>4. CASE elem_idx(j) = e
    <3>1. r.bits[elem_idx(j)] = x
      BY <1>2, <1>6, <2>1, <2>4
    <3>2. j % ELEM_BITS = k <=> j = i
      BY <2>4, BitsApart DEF e, k
    <3>3. QED
      BY <2>2, <2>4, <3>1, <3>2 DEF x
  <2>5. QED
    BY <2>3, <2>4
<1>8. QED
  BY <1>6, <1>7 DEF r

\* A loop of n turns, each a function of the value before it.
Loops(f, T, base, G, n) ==
  /\ f \in [0..n -> T]
  /\ f = [i \in 0..n |-> IF i = 0 THEN base ELSE G[<<f[i - 1], i>>]]

LEMMA LoopExists ==
  ASSUME NEW T, NEW base \in T, NEW G \in [T \X Nat -> T], NEW n \in Nat
  PROVE  \E f : Loops(f, T, base, G, n)
<1> DEFINE Runs(f, m) == /\ f \in [0..m -> T] /\ f[0] = base
                         /\ \A i \in 1..m : f[i] = G[<<f[i - 1], i>>]
           bad == {m \in Nat : ~ \E f : Runs(f, m)}
<1>1. bad = {}
  <2>1. SUFFICES ASSUME bad # {} PROVE FALSE
    OBVIOUS
  <2>2. PICK m \in bad : \A k \in bad : m <= k
    <3>1. bad \in SUBSET Nat
      OBVIOUS
    <3> HIDE DEF bad
    <3>2. QED
      BY <2>1, <3>1, LeastNat
  <2>3. m \in Nat /\ ~ \E f : Runs(f, m)
    OBVIOUS
  <2>4. CASE m = 0
    <3>1. Runs([i \in 0..0 |-> base], 0)
      OBVIOUS
    <3>2. QED
      BY <2>3, <2>4, <3>1
  <2>5. CASE m # 0
    <3>1. m - 1 \in Nat /\ ~ (m <= m - 1)
      BY <2>3, <2>5
    <3>2. PICK f : Runs(f, m - 1)
      BY <2>2, <3>1
    <3>3. f[m - 1] \in T /\ G[<<f[m - 1], m>>] \in T
      BY <2>3, <3>1, <3>2
    <3> DEFINE g == [i \in 0..m |-> IF i < m THEN f[i] ELSE G[<<f[m - 1], m>>]]
    <3>4. g \in [0..m -> T]
      <4>1. \A i \in 0..m : i < m => i \in 0..(m - 1)
        BY <2>3
      <4>2. QED
        BY <3>2, <3>3, <4>1
    <3>5. g[0] = base
      BY <2>3, <2>5, <3>2
    <3>6. ASSUME NEW i \in 1..m PROVE g[i] = G[<<g[i - 1], i>>]
      <4>1. i \in 0..m /\ i - 1 \in 0..m /\ i - 1 < m /\ (i < m \/ i = m)
        BY <2>3
      <4>2. g[i - 1] = f[i - 1]
        BY <4>1
      <4>3. CASE i < m
        <5>1. i \in 1..(m - 1)
          BY <2>3, <4>3
        <5>2. QED
          BY <3>2, <4>1, <4>2, <4>3, <5>1
      <4>4. CASE i = m
        BY <2>3, <4>1, <4>2, <4>4
      <4>5. QED
        BY <4>1, <4>3, <4>4
    <3> HIDE DEF g
    <3>7. Runs(g, m)
      BY <3>4, <3>5, <3>6
    <3>8. QED
      BY <2>3, <3>7
  <2>6. QED
    BY <2>4, <2>5
<1>2. PICK f : Runs(f, n)
  BY <1>1
<1>3. f = [i \in 0..n |-> f[i]]
  BY <1>2
<1>4. \A i \in 0..n : f[i] = IF i = 0 THEN base ELSE G[<<f[i - 1], i>>]
  <2>1. \A i \in 0..n : i # 0 => i \in 1..n
    OBVIOUS
  <2>2. QED
    BY <1>2, <2>1
<1>5. [i \in 0..n |-> f[i]] = [i \in 0..n |-> IF i = 0 THEN base ELSE G[<<f[i - 1], i>>]]
  BY <1>4
<1>6. QED
  BY <1>2, <1>3, <1>5 DEF Loops

\* bitmap_set_multiple() sets the bits of the group and no others.
LEMMA SetMany ==
  ASSUME ELEM_BITS \in Nat \ {0}, NEW n \in Nat, NEW b, IsBitmap(b, n),
         NEW start \in Nat, NEW cnt \in Nat, start + cnt <= n, NEW v \in BOOLEAN
  PROVE  /\ IsBitmap(bitmap_set_multiple(b, start, cnt, v), n)
         /\ \A j \in 0..(n - 1) :
              bitmap_test(bitmap_set_multiple(b, start, cnt, v), j) <=>
                IF j \in start..(start + cnt - 1) THEN v ELSE bitmap_test(b, j)
<1> DEFINE T == [bit_cnt : {n}, bits : [0..(elem_cnt(n) - 1) -> SUBSET Bit]]
           set(x, i) == bitmap_set(x, start + i - 1, v)
           G == [z \in T \X Nat |-> IF z[2] \in 1..cnt THEN set(z[1], z[2]) ELSE z[1]]
           Steps(f) == f = [i \in 0..cnt |-> IF i = 0 THEN b ELSE set(f[i - 1], i)]
<1>1. bitmap_set_multiple(b, start, cnt, v) = (CHOOSE f : Steps(f))[cnt]
  BY DEF bitmap_set_multiple
<1>2. b \in T /\ \A x : x \in T <=> IsBitmap(x, n)
  BY DEF IsBitmap
<1> HIDE DEF T
<1>3. ASSUME NEW x \in T, NEW i \in 1..cnt
      PROVE  /\ set(x, i) \in T
             /\ \A j \in 0..(n - 1) :
                  bitmap_test(set(x, i), j) <=> IF j = start + i - 1 THEN v ELSE bitmap_test(x, j)
  <2>1. start + i - 1 \in 0..(n - 1)
    OBVIOUS
  <2>2. IsBitmap(x, n)
    BY <1>2
  <2>3. QED
    BY <1>2, <2>1, <2>2, SetOne
<1> HIDE DEF set
<1>4. G \in [T \X Nat -> T]
  BY <1>3
<1>5. PICK f : /\ f \in [0..cnt -> T]
               /\ f = [i \in 0..cnt |-> IF i = 0 THEN b ELSE G[<<f[i - 1], i>>]]
  <2>1. b \in T
    BY <1>2
  <2> HIDE DEF G
  <2>2. \E h : Loops(h, T, b, G, cnt)
    BY <1>4, <2>1, LoopExists
  <2>3. QED
    BY <2>2 DEF Loops
<1>6. Steps(f)
  <2>1. ASSUME NEW i \in 0..cnt, i # 0 PROVE G[<<f[i - 1], i>>] = set(f[i - 1], i)
    <3>1. i \in 1..cnt /\ i - 1 \in 0..cnt /\ i \in Nat
      BY <2>1
    <3>2. f[i - 1] \in T /\ <<f[i - 1], i>> \in T \X Nat
      BY <1>5, <3>1
    <3>3. QED
      BY <3>1, <3>2
  <2> HIDE DEF G
  <2>2. [i \in 0..cnt |-> IF i = 0 THEN b ELSE G[<<f[i - 1], i>>]] =
        [i \in 0..cnt |-> IF i = 0 THEN b ELSE set(f[i - 1], i)]
    BY <2>1
  <2>3. QED
    BY <1>5, <2>2
<1>7. PICK g : g = (CHOOSE h : Steps(h)) /\ Steps(g)
  BY <1>6
<1>8. g[0] = b /\ \A i \in 1..cnt : g[i] = set(g[i - 1], i)
  <2>1. g = [i \in 0..cnt |-> IF i = 0 THEN b ELSE set(g[i - 1], i)]
    BY <1>7
  <2>2. 0 \in 0..cnt /\ \A i \in 1..cnt : i \in 0..cnt /\ i # 0
    OBVIOUS
  <2>3. QED
    BY <2>1, <2>2
<1> DEFINE Right(i) == /\ g[i] \in T
                       /\ \A j \in 0..(n - 1) : bitmap_test(g[i], j) <=>
                            IF j \in start..(start + i - 1) THEN v ELSE bitmap_test(b, j)
           bad == {i \in 0..cnt : ~ Right(i)}
<1>9. bad = {}
  <2>1. SUFFICES ASSUME bad # {} PROVE FALSE
    OBVIOUS
  <2>2. PICK i \in bad : \A k \in bad : i <= k
    <3>1. bad \in SUBSET Nat
      OBVIOUS
    <3> HIDE DEF bad
    <3>2. QED
      BY <2>1, <3>1, LeastNat
  <2>3. i \in 0..cnt /\ ~ Right(i)
    OBVIOUS
  <2>4. CASE i = 0
    <3>1. \A j \in 0..(n - 1) : j \notin start..(start + 0 - 1)
      OBVIOUS
    <3>2. QED
      BY <1>2, <1>8, <2>3, <2>4, <3>1
  <2>5. CASE i # 0
    <3>1. i \in 1..cnt /\ i - 1 \in 0..cnt /\ ~ (i <= i - 1)
      BY <2>3, <2>5
    <3>2. Right(i - 1)
      BY <2>2, <3>1
    <3>3. g[i] = set(g[i - 1], i)
      BY <1>8, <3>1
    <3>4. /\ g[i] \in T
          /\ \A j \in 0..(n - 1) :
               bitmap_test(g[i], j) <=> IF j = start + i - 1 THEN v ELSE bitmap_test(g[i - 1], j)
      BY <1>3, <3>1, <3>2, <3>3
    <3>5. \A j \in 0..(n - 1) : j \in start..(start + i - 1) <=>
             j = start + i - 1 \/ j \in start..(start + (i - 1) - 1)
      BY <3>1
    <3>6. Right(i)
      BY <3>2, <3>4, <3>5
    <3>7. QED
      BY <2>3, <3>6
  <2>6. QED
    BY <2>4, <2>5
<1>10. Right(cnt)
  <2>1. cnt \in 0..cnt
    OBVIOUS
  <2>2. QED
    BY <1>9, <2>1
<1>11. QED
  BY <1>1, <1>2, <1>7, <1>10

\* Where a group of cnt bits with the value starts.
Fits(b, n, start, cnt, v) ==
  {i \in start..(n - cnt) : \A j \in i..(i + cnt - 1) : bitmap_test(b, j) <=> v}

\* bitmap_scan() answers the first group, or that there is none.
LEMMA ScanFinds ==
  ASSUME NEW n \in Nat, NEW b, IsBitmap(b, n), NEW start \in 0..n, NEW cnt \in Nat, NEW v \in BOOLEAN
  PROVE  IF Fits(b, n, start, cnt, v) = {}
         THEN bitmap_scan(b, start, cnt, v) = BITMAP_ERROR
         ELSE /\ bitmap_scan(b, start, cnt, v) \in Fits(b, n, start, cnt, v)
              /\ bitmap_scan(b, start, cnt, v) = least(Fits(b, n, start, cnt, v))
<1> DEFINE fits == {i \in start..(n - cnt) : \A j \in i..(i + cnt - 1) : bitmap_test(b, j) <=> v}
           found == {i \in start..(b.bit_cnt - cnt) : ~ bitmap_contains(b, i, cnt, ~v)}
<1>1. b.bit_cnt = n
  BY DEF IsBitmap
<1>2. \A i : bitmap_test(b, i) \in BOOLEAN
  BY DEF bitmap_test
<1>3. \A i : ~ bitmap_contains(b, i, cnt, ~v) <=> \A j \in i..(i + cnt - 1) : bitmap_test(b, j) <=> v
  BY <1>2 DEF bitmap_contains
<1>4. found = fits
  BY <1>1, <1>3
<1>5. bitmap_scan(b, start, cnt, v) = IF cnt > n \/ found = {} THEN BITMAP_ERROR ELSE least(found)
  BY <1>1 DEF bitmap_scan
<1>6. cnt > n => fits = {}
  OBVIOUS
<1>7. fits # {} => least(fits) \in fits
  <2>1. fits \in SUBSET Nat
    OBVIOUS
  <2> HIDE DEF fits
  <2>2. QED
    BY <2>1, LeastIn
<1> HIDE DEF fits, found
<1>8. IF fits = {} THEN bitmap_scan(b, start, cnt, v) = BITMAP_ERROR
      ELSE bitmap_scan(b, start, cnt, v) \in fits /\ bitmap_scan(b, start, cnt, v) = least(fits)
  BY <1>4, <1>5, <1>6, <1>7
<1>9. QED
  BY <1>8 DEF fits, Fits

\* bitmap_count() counts the bits of the group that have the value.
LEMMA CountCounts ==
  ASSUME NEW b, NEW start \in Nat, NEW cnt \in Nat, NEW v \in BOOLEAN
  PROVE  bitmap_count(b, start, cnt, v) =
           Cardinality({j \in start..(start + cnt - 1) : bitmap_test(b, j) = v})
<1> DEFINE one(i) == IF bitmap_test(b, start + i - 1) = v THEN 1 ELSE 0
           G == [z \in Nat \X Nat |-> z[1] + one(z[2])]
           Steps(f) == f = [i \in 0..cnt |-> IF i = 0 THEN 0 ELSE f[i - 1] + one(i)]
           same(i) == {j \in start..(start + i - 1) : bitmap_test(b, j) = v}
<1>1. bitmap_count(b, start, cnt, v) = (CHOOSE f : Steps(f))[cnt]
  BY DEF bitmap_count
<1>2. \A i : one(i) \in {0, 1} /\ (one(i) = 1 <=> bitmap_test(b, start + i - 1) = v)
  OBVIOUS
<1> HIDE DEF one
<1>3. G \in [Nat \X Nat -> Nat]
  BY <1>2
<1>4. PICK f : /\ f \in [0..cnt -> Nat]
               /\ f = [i \in 0..cnt |-> IF i = 0 THEN 0 ELSE G[<<f[i - 1], i>>]]
  <2> HIDE DEF G
  <2>1. 0 \in Nat
    OBVIOUS
  <2>2. \E h : Loops(h, Nat, 0, G, cnt)
    BY <1>3, <2>1, LoopExists
  <2>3. QED
    BY <2>2 DEF Loops
<1>5. Steps(f)
  <2>1. ASSUME NEW i \in 0..cnt, i # 0 PROVE G[<<f[i - 1], i>>] = f[i - 1] + one(i)
    <3>1. i - 1 \in 0..cnt /\ i \in Nat
      BY <2>1
    <3>2. <<f[i - 1], i>> \in Nat \X Nat
      BY <1>4, <3>1
    <3>3. QED
      BY <3>2
  <2> HIDE DEF G
  <2>2. [i \in 0..cnt |-> IF i = 0 THEN 0 ELSE G[<<f[i - 1], i>>]] =
        [i \in 0..cnt |-> IF i = 0 THEN 0 ELSE f[i - 1] + one(i)]
    BY <2>1
  <2>3. QED
    BY <1>4, <2>2
<1>6. PICK g : g = (CHOOSE h : Steps(h)) /\ Steps(g)
  BY <1>5
<1>7. g[0] = 0 /\ \A i \in 1..cnt : g[i] = g[i - 1] + one(i)
  <2>1. g = [i \in 0..cnt |-> IF i = 0 THEN 0 ELSE g[i - 1] + one(i)]
    BY <1>6
  <2>2. 0 \in 0..cnt /\ \A i \in 1..cnt : i \in 0..cnt /\ i # 0
    OBVIOUS
  <2>3. QED
    BY <2>1, <2>2
<1> DEFINE Right(i) == g[i] = Cardinality(same(i))
           bad == {i \in 0..cnt : ~ Right(i)}
<1>8. bad = {}
  <2>1. SUFFICES ASSUME bad # {} PROVE FALSE
    OBVIOUS
  <2>2. PICK i \in bad : \A k \in bad : i <= k
    <3>1. bad \in SUBSET Nat
      OBVIOUS
    <3> HIDE DEF bad
    <3>2. QED
      BY <2>1, <3>1, LeastNat
  <2>3. i \in 0..cnt /\ ~ Right(i)
    OBVIOUS
  <2>4. CASE i = 0
    <3>1. same(0) = {}
      OBVIOUS
    <3>2. Cardinality(same(0)) = 0
      BY <3>1, FS_EmptySet
    <3>3. QED
      BY <1>7, <2>3, <2>4, <3>2
  <2>5. CASE i # 0
    <3>1. i \in 1..cnt /\ i - 1 \in 0..cnt /\ ~ (i <= i - 1)
      BY <2>3, <2>5
    <3>2. Right(i - 1)
      BY <2>2, <3>1
    <3>3. g[i] = g[i - 1] + one(i)
      BY <1>7, <3>1
    <3>4. IsFiniteSet(same(i - 1)) /\ Cardinality(same(i - 1)) \in Nat
      <4>1. IsFiniteSet(start..(start + (i - 1) - 1))
        BY <3>1, FS_Interval
      <4>2. IsFiniteSet(same(i - 1))
        BY <4>1, FS_Subset
      <4>3. QED
        BY <4>2, FS_CardinalityType
    <3>5. start..(start + i - 1) = (start..(start + (i - 1) - 1)) \cup {start + i - 1}
      BY <3>1
    <3>6. start + i - 1 \notin same(i - 1)
      BY <3>1
    <3>7. CASE one(i) = 1
      <4>1. same(i) = same(i - 1) \cup {start + i - 1}
        BY <1>2, <3>5, <3>7
      <4> HIDE DEF same
      <4>2. Cardinality(same(i)) = Cardinality(same(i - 1)) + 1
        BY <3>4, <3>6, <4>1, FS_AddElement
      <4>3. QED
        BY <2>3, <3>2, <3>3, <3>7, <4>2
    <3>8. CASE one(i) # 1
      <4>1. same(i) = same(i - 1)
        BY <1>2, <3>5, <3>8
      <4> HIDE DEF same
      <4>2. one(i) = 0
        BY <1>2, <3>8
      <4>3. QED
        BY <2>3, <3>2, <3>3, <3>4, <4>1, <4>2
    <3>9. QED
      BY <3>7, <3>8
  <2>6. QED
    BY <2>4, <2>5
<1>9. Right(cnt)
  <2>1. cnt \in 0..cnt
    OBVIOUS
  <2>2. QED
    BY <1>8, <2>1
<1>10. QED
  BY <1>1, <1>6, <1>9

\* XOR with a mask changes one bit.
LEMMA FlipOne ==
  ASSUME ELEM_BITS \in Nat \ {0}, NEW n \in Nat, NEW b, IsBitmap(b, n), NEW i \in 0..(n - 1)
  PROVE  Marked(bitmap_flip(b, i)) = (Marked(b) \ {i}) \cup ({i} \ Marked(b))
<1> DEFINE v == ~ bitmap_test(b, i)
<1>1. v \in BOOLEAN
  BY DEF bitmap_test
<1>2. bitmap_flip(b, i) = bitmap_set(b, i, v)
  <2>1. b \in [bit_cnt : {n}, bits : [0..(elem_cnt(n) - 1) -> SUBSET Bit]]
    BY DEF IsBitmap
  <2>2. elem_idx(i) \in 0..(elem_cnt(n) - 1)
    BY BitAt
  <2> DEFINE x == b.bits[elem_idx(i)]
             m == bit_mask(i)
  <2>3. /\ v => (x \ m) \cup (m \ x) = x \cup m
        /\ ~v => (x \ m) \cup (m \ x) = x \ m
    BY DEF bitmap_test, bit_mask
  <2> HIDE DEF v
  <2>4. bitmap_flip(b, i) = [b EXCEPT !.bits = [@ EXCEPT ![elem_idx(i)] = (x \ m) \cup (m \ x)]]
    BY <2>1, <2>2 DEF bitmap_flip
  <2>5. bitmap_set(b, i, v) =
          [b EXCEPT !.bits = [@ EXCEPT ![elem_idx(i)] = IF v THEN x \cup m ELSE x \ m]]
    BY <2>1, <2>2 DEF bitmap_set, bitmap_mark, bitmap_reset
  <2>6. QED
    BY <2>3, <2>4, <2>5
<1>3. /\ IsBitmap(bitmap_set(b, i, v), n)
      /\ \A j \in 0..(n - 1) :
           bitmap_test(bitmap_set(b, i, v), j) <=> IF j = i THEN v ELSE bitmap_test(b, j)
  <2> HIDE DEF v
  <2>1. QED
    BY <1>1, SetOne
<1>4. b.bit_cnt = n /\ bitmap_set(b, i, v).bit_cnt = n
  <2> HIDE DEF v
  <2>1. QED
    BY <1>3 DEF IsBitmap
<1>5. QED
  BY <1>2, <1>3, <1>4 DEF Marked

\* bitmap_read() of what bitmap_write() wrote restores the bits.
LEMMA ReadBack ==
  ASSUME ELEM_BITS \in Nat \ {0}, NEW n \in Nat, NEW b, IsBitmap(b, n)
  PROVE  Marked(bitmap_read(bitmap_create(b.bit_cnt, b.bits), b.bits)) = Marked(b)
<1> DEFINE c == bitmap_create(b.bit_cnt, b.bits)
           r == bitmap_read(c, b.bits)
<1>1. /\ b \in [bit_cnt : {n}, bits : [0..(elem_cnt(n) - 1) -> SUBSET Bit]]
      /\ b.bit_cnt = n /\ b = [bit_cnt |-> n, bits |-> b.bits]
  BY DEF IsBitmap
<1>2. IsBitmap(c, n)
  <2>1. c = bitmap_set_multiple(b, 0, n, FALSE)
    BY <1>1 DEF bitmap_create
  <2>2. 0 \in Nat /\ 0 + n <= n /\ FALSE \in BOOLEAN
    OBVIOUS
  <2> HIDE DEF c
  <2>3. QED
    BY <2>1, <2>2, SetMany
<1> HIDE DEF c
<1>3. c.bit_cnt = n /\ c \in [bit_cnt : {n}, bits : [0..(elem_cnt(n) - 1) -> SUBSET Bit]]
  BY <1>2 DEF IsBitmap
<1>4. r.bit_cnt = n /\ r.bits = [e \in 0..(elem_cnt(n) - 1) |->
        IF e = elem_cnt(n) - 1 THEN b.bits[e] \cap last_mask(c) ELSE b.bits[e]]
  BY <1>3 DEF bitmap_read
<1> HIDE DEF r
<1>5. ASSUME NEW i \in 0..(n - 1) PROVE bitmap_test(r, i) <=> bitmap_test(b, i)
  <2>1. elem_idx(i) \in 0..(elem_cnt(n) - 1)
    BY BitAt
  <2>2. /\ bitmap_test(r, i) <=> i % ELEM_BITS \in r.bits[elem_idx(i)]
        /\ bitmap_test(b, i) <=> i % ELEM_BITS \in b.bits[elem_idx(i)]
    BY DEF bitmap_test, bit_mask
  <2>3. CASE elem_idx(i) # elem_cnt(n) - 1
    BY <1>4, <2>1, <2>2, <2>3
  <2>4. CASE elem_idx(i) = elem_cnt(n) - 1
    <3>1. i % ELEM_BITS \in last_mask(c)
      <4>1. /\ i % ELEM_BITS \in Bit /\ i % ELEM_BITS \in Nat
            /\ i = ELEM_BITS * elem_idx(i) + (i % ELEM_BITS)
        <5>1. i % ELEM_BITS \in Bit /\ i = ELEM_BITS * elem_idx(i) + (i % ELEM_BITS)
          BY BitAt
        <5>2. i % ELEM_BITS \in Nat
          OBVIOUS
        <5>3. QED
          BY <5>1, <5>2
      <4>2. CASE n % ELEM_BITS = 0
        BY <1>3, <4>1, <4>2 DEF last_mask
      <4>3. CASE n % ELEM_BITS # 0
        <5> DEFINE q == n \div ELEM_BITS
                   k == n % ELEM_BITS
        <5>1. q \in Nat /\ k \in 1..(ELEM_BITS - 1) /\ n = ELEM_BITS * q + k
          BY <4>3
        <5>2. elem_cnt(n) = q + 1
          <6>1. (n + ELEM_BITS - 1) \div ELEM_BITS = q + 1
            BY <5>1
          <6>2. QED
            BY <6>1 DEF elem_cnt
        <5>3. elem_idx(i) = q
          BY <2>4, <5>1, <5>2
        <5>4. i % ELEM_BITS < k
          BY <4>1, <5>1, <5>3
        <5>5. last_mask(c) = 0..(k - 1)
          BY <1>3, <4>3 DEF last_mask
        <5>6. QED
          BY <4>1, <5>1, <5>4, <5>5
      <4>4. QED
        BY <4>2, <4>3
    <3>2. r.bits[elem_idx(i)] = b.bits[elem_idx(i)] \cap last_mask(c)
      BY <1>4, <2>1, <2>4
    <3>3. QED
      BY <2>2, <3>1, <3>2
  <2>5. QED
    BY <2>3, <2>4
<1>6. Marked(r) = Marked(b)
  BY <1>1, <1>4, <1>5 DEF Marked
<1>7. QED
  BY <1>6 DEF r, c

\* bitmap_scan_and_flip() changes the first group there is, and nothing else.
FirstGroup(b, n, start, cnt, v) ==
  LET fits == {s \in start..(n - cnt) : \A i \in s..(s + cnt - 1) : (i \in Marked(b)) = v}
  IN  IF fits = {} THEN {} ELSE least(fits)..(least(fits) + cnt - 1)

LEMMA ScanFlips ==
  ASSUME ELEM_BITS \in Nat \ {0}, NEW n \in Nat, NEW b, IsBitmap(b, n),
         NEW start \in 0..n, NEW cnt \in Nat, NEW v \in BOOLEAN
  PROVE  Marked(bitmap_scan_and_flip(b, start, cnt, v)) =
           IF v THEN Marked(b) \ FirstGroup(b, n, start, cnt, v)
                ELSE Marked(b) \cup FirstGroup(b, n, start, cnt, v)
<1> DEFINE fits == {s \in start..(n - cnt) : \A i \in s..(s + cnt - 1) : (i \in Marked(b)) = v}
           found == Fits(b, n, start, cnt, v)
           m == least(fits)
           group == IF fits = {} THEN {} ELSE m..(m + cnt - 1)
           r == bitmap_scan(b, start, cnt, v)
           after == bitmap_scan_and_flip(b, start, cnt, v)
<1> SUFFICES Marked(after) = IF v THEN Marked(b) \ group ELSE Marked(b) \cup group
  BY DEF FirstGroup
<1>1. b.bit_cnt = n
  BY DEF IsBitmap
<1>2. \A i : bitmap_test(b, i) \in BOOLEAN
  BY DEF bitmap_test
<1>3. found = fits
  <2>1. \A s \in start..(n - cnt) : \A i \in s..(s + cnt - 1) : i \in 0..(n - 1)
    OBVIOUS
  <2>2. \A i \in 0..(n - 1) : i \in Marked(b) <=> bitmap_test(b, i)
    BY <1>1 DEF Marked
  <2>3. \A i : (i \in Marked(b)) \in BOOLEAN
    BY DEF Marked
  <2>4. QED
    BY <1>2, <2>1, <2>2, <2>3 DEF Fits
<1>4. IF fits = {} THEN r = BITMAP_ERROR ELSE r \in fits /\ r = m
  <2> HIDE DEF fits
  <2>1. IF found = {} THEN r = BITMAP_ERROR ELSE r \in found /\ r = least(found)
    BY ScanFinds
  <2>2. QED
    BY <1>3, <2>1
<1>5. after = IF r = BITMAP_ERROR THEN b ELSE bitmap_set_multiple(b, r, cnt, ~v)
  BY DEF bitmap_scan_and_flip
<1>6. CASE fits = {}
  BY <1>4, <1>5, <1>6
<1>7. CASE fits # {}
  <2>1. r = m /\ m \in Nat /\ m + cnt <= n /\ r # BITMAP_ERROR
    <3>1. fits \in SUBSET {s \in Nat : s + cnt <= n}
      OBVIOUS
    <3> HIDE DEF fits, m, r
    <3>2. r \in fits /\ r = m
      BY <1>4, <1>7
    <3>3. r \in Nat /\ r + cnt <= n
      BY <3>1, <3>2
    <3>4. r # -1
      BY <3>3
    <3>5. QED
      BY <3>2, <3>3, <3>4 DEF BITMAP_ERROR
  <2> HIDE DEF fits, m, r, after
  <2>2. after = bitmap_set_multiple(b, m, cnt, ~v) /\ (~v) \in BOOLEAN
    BY <1>5, <2>1
  <2>3. /\ IsBitmap(after, n)
        /\ \A j \in 0..(n - 1) :
             bitmap_test(after, j) <=> IF j \in m..(m + cnt - 1) THEN ~v ELSE bitmap_test(b, j)
    BY <2>1, <2>2, SetMany
  <2>4. after.bit_cnt = n
    BY <2>3 DEF IsBitmap
  <2>5. group = m..(m + cnt - 1) /\ group \subseteq 0..(n - 1)
    BY <1>7, <2>1
  <2> HIDE DEF group
  <2>6. Marked(after) = {i \in 0..(n - 1) : bitmap_test(after, i)}
    BY <2>4 DEF Marked
  <2>7. Marked(b) = {i \in 0..(n - 1) : bitmap_test(b, i)}
    BY <1>1 DEF Marked
  <2>8. Marked(after) = IF v THEN Marked(b) \ group ELSE Marked(b) \cup group
    BY <2>3, <2>5, <2>6, <2>7
  <2>9. QED
    BY <2>8 DEF after, group, m, fits
<1>8. QED
  BY <1>6, <1>7

\* The operations of bitmap.c treat any bitmap, of any length, in elements of
\* any width and with anything in the unused bits of the last one, as the set of
\* its marked bits.
THEOREM BitmapActsAsSet ==
  ASSUME ELEM_BITS \in Nat \ {0}, NEW n \in Nat, NEW b, IsBitmap(b, n)
  PROVE  ActsAsSet(b)
<1> DEFINE N == b.bit_cnt
<1>1. N \in Nat /\ IsBitmap(b, N)
  BY DEF IsBitmap
<1>2. Marked(b) = {i \in 0..(N - 1) : bitmap_test(b, i)}
  BY DEF Marked
<1>3. \A i : bitmap_test(b, i) \in BOOLEAN /\ (i \in Marked(b)) \in BOOLEAN
  BY DEF bitmap_test, Marked
<1>4. ASSUME NEW start \in 0..N, NEW v \in BOOLEAN, NEW cnt \in 0..(N - start)
      PROVE  LET Group(s) == s..(s + cnt - 1)
                 same == {i \in Group(start) : (i \in Marked(b)) = v}
                 fits == {s \in start..(N - cnt) :
                            \A i \in Group(s) : (i \in Marked(b)) = v}
                 group == IF fits = {} THEN {} ELSE Group(least(fits))
                 after == Marked(bitmap_scan_and_flip(b, start, cnt, v))
             IN /\ bitmap_count(b, start, cnt, v) = Cardinality(same)
                /\ bitmap_contains(b, start, cnt, v) = (same # {})
                /\ v => bitmap_all(b, start, cnt) = (same = Group(start))
                /\ after = IF v THEN Marked(b) \ group ELSE Marked(b) \cup group
  <2> DEFINE group == start..(start + cnt - 1)
             same == {i \in group : (i \in Marked(b)) = v}
  <2>1. cnt \in Nat /\ start \in Nat /\ group \subseteq 0..(N - 1)
    BY <1>1
  <2>2. same = {i \in group : bitmap_test(b, i) = v}
    BY <1>2, <1>3, <2>1
  <2>3. bitmap_count(b, start, cnt, v) = Cardinality(same)
    BY <2>1, <2>2, CountCounts
  <2>4. bitmap_contains(b, start, cnt, v) = (same # {})
    <3>1. bitmap_contains(b, start, cnt, v) <=> same # {}
      BY <2>2 DEF bitmap_contains
    <3>2. bitmap_contains(b, start, cnt, v) \in BOOLEAN
      BY DEF bitmap_contains
    <3>3. QED
      BY <3>1, <3>2
  <2>5. v => bitmap_all(b, start, cnt) = (same = group)
    <3>1. v => (bitmap_all(b, start, cnt) <=> same = group)
      BY <1>3, <2>2 DEF bitmap_all, bitmap_contains
    <3>2. bitmap_all(b, start, cnt) \in BOOLEAN
      BY DEF bitmap_all
    <3>3. QED
      BY <3>1, <3>2
  <2> DEFINE Group(s) == s..(s + cnt - 1)
             fits == {s \in start..(N - cnt) : \A i \in Group(s) : (i \in Marked(b)) = v}
             first == IF fits = {} THEN {} ELSE Group(least(fits))
  <2>6. Marked(bitmap_scan_and_flip(b, start, cnt, v)) =
          IF v THEN Marked(b) \ first ELSE Marked(b) \cup first
    <3>1. first = FirstGroup(b, N, start, cnt, v)
      BY DEF FirstGroup
    <3> HIDE DEF first
    <3>2. QED
      BY <1>1, <2>1, <3>1, ScanFlips
  <2>7. QED
    BY <2>3, <2>4, <2>5, <2>6
<1>5. \A i \in 0..(N - 1) :
        Marked(bitmap_flip(b, i)) = (Marked(b) \ {i}) \cup ({i} \ Marked(b))
  BY <1>1, FlipOne
<1>6. Marked(bitmap_read(bitmap_create(b.bit_cnt, b.bits), b.bits)) = Marked(b)
  BY <1>1, ReadBack
<1>7. QED
  BY <1>1, <1>4, <1>5, <1>6 DEF ActsAsSet

-----------------------------------------------------------------------------
(***************************************************************************)
(* The page pool and the block allocator: the inductive invariant.         *)
(***************************************************************************)

\* The constants: an element of the bitmap has bits, a big block has pages, an
\* arena has blocks, and NULL is no thread, descriptor or header.
Header == [desc : Desc \cup {NULL}, free_cnt : Nat]
Request == [desc : Desc \cup {NULL}, pages : BigPages]

MemoryAssumption ==
  /\ PAGE_CNT \in Nat /\ ELEM_BITS \in Nat \ {0} /\ BigPages \subseteq Nat \ {0}
  /\ blocks_per_arena \in [Desc -> Nat \ {0}]
  /\ NULL \notin Thread /\ NULL \notin Desc /\ NULL \notin Header

MemoryTypes ==
  /\ IsBitmap(used_map, PAGE_CNT)
  /\ pool_lock \in Thread \cup {NULL}
  /\ desc_lock \in [Desc -> Thread \cup {NULL}]
  /\ arena \in [Page -> Header \cup {NULL}]
  /\ free_list \in [Desc -> Seq(Block)]
  /\ pc \in [Thread -> {"idle", "lock", "get", "flip", "got", "pop"}]
  /\ req \in [Thread -> Request \cup {NULL}]
  /\ idx \in [Thread -> Page \cup {BITMAP_ERROR}]
  /\ owner \in [Thread -> SUBSET Block]

\* Who is inside palloc_get_multiple() or malloc() holds the locks they take.
LocksHeld ==
  \A t \in Thread :
    /\ pc[t] # "idle" => req[t] \in Request
    /\ pc[t] \in {"lock", "pop"} => req[t].desc # NULL
    /\ pc[t] = "flip" => pool_lock = t
    /\ pc[t] \in {"get", "flip", "got", "pop"} /\ req[t].desc # NULL => desc_lock[req[t].desc] = t

\* The group bitmap_scan() found is still free when it is marked: only frees
\* run without the pool's lock.
Group(t) == idx[t]..(idx[t] + PagesOf(req[t]) - 1)
Scanned ==
  \A t \in Thread : pc[t] = "flip" /\ idx[t] # BITMAP_ERROR =>
    \A q \in Group(t) : q \in Page /\ ~ bitmap_test(used_map, q)

\* PagesExclusive, page by page.
PagesInv ==
  /\ \A p \in Page : Held(p) \subseteq Page /\ (arena[p] # NULL => p \in Held(p))
  /\ \A t \in Thread : Taken(t) \subseteq Page
  /\ \A q \in Page : bitmap_test(used_map, q) <=>
       (\E p \in Page : q \in Held(p)) \/ (\E t \in Thread : q \in Taken(t))
  /\ \A p, q \in Page : \A x \in Held(p) : x \in Held(q) => p = q
  /\ \A t \in Thread, p \in Page : \A x \in Taken(t) : x \notin Held(p)
  /\ \A t, u \in Thread : \A x \in Taken(t) : x \in Taken(u) => t = u

\* The blocks of an arena of descriptor d at page p, and those that are free.
Slots(d, p) == [page : {p}, idx : 0..(blocks_per_arena[d] - 1)]
Free(d, p) == {b \in Elems(free_list[d]) : b.page = p}

FreeSound ==
  \A d \in Desc :
    /\ Distinct(free_list[d])
    /\ \A b \in Elems(free_list[d]) :
         arena[b.page] # NULL /\ arena[b.page].desc = d /\ b \in Slots(d, b.page)

OwnSound ==
  /\ \A t \in Thread : \A b \in owner[t] :
       /\ arena[b.page] # NULL
       /\ IF arena[b.page].desc = NULL THEN b.idx = -1
          ELSE /\ b \in Slots(arena[b.page].desc, b.page)
               /\ b \notin Elems(free_list[arena[b.page].desc])
  /\ \A t, u \in Thread : \A b \in owner[t] : b \in owner[u] => t = u

AllThere ==
  \A p \in Page : arena[p] # NULL /\ arena[p].desc # NULL =>
    /\ \A b \in Slots(arena[p].desc, p) :
         b \in Elems(free_list[arena[p].desc]) \/ \E t \in Thread : b \in owner[t]
    /\ arena[p].free_cnt = Cardinality(Free(arena[p].desc, p))

PopReady == \A t \in Thread : pc[t] = "pop" => free_list[req[t].desc] # <<>>

MemoryInv ==
  /\ MemoryTypes /\ LocksHeld /\ Scanned /\ PagesInv
  /\ FreeSound /\ OwnSound /\ AllThere /\ PopReady

\* The number of pages of a request.
LEMMA RequestPages ==
  ASSUME MemoryAssumption, NEW r \in Request
  PROVE  PagesOf(r) \in Nat \ {0} /\ r.desc \in Desc \cup {NULL} /\ r.pages \in BigPages
<1>1. r.desc \in Desc \cup {NULL} /\ r.pages \in BigPages
  BY DEF Request
<1>2. r.pages \in Nat \ {0}
  BY <1>1 DEF MemoryAssumption
<1>3. QED
  BY <1>1, <1>2 DEF PagesOf

\* Steps that leave the blocks, or what the pages are used for, as they are.
LEMMA KeepBlocks ==
  ASSUME FreeSound, OwnSound, AllThere, UNCHANGED <<arena, free_list, owner>>
  PROVE  FreeSound' /\ OwnSound' /\ AllThere'
<1> USE DEF Slots, Free
<1>1. FreeSound'
  BY DEF FreeSound
<1>2. OwnSound'
  BY DEF OwnSound
<1>3. AllThere'
  BY DEF AllThere
<1>4. QED
  BY <1>1, <1>2, <1>3

LEMMA KeepPages ==
  ASSUME PagesInv, UNCHANGED used_map,
         \A p \in Page : Held(p)' = Held(p) /\ (arena'[p] # NULL => arena[p] # NULL),
         \A t \in Thread : Taken(t)' = Taken(t)
  PROVE  PagesInv'
<1>1. Page' = Page
  BY DEF Page
<1>2. QED
  BY <1>1 DEF PagesInv, bitmap_test, elem_idx, bit_mask

LEMMA SameHeld ==
  ASSUME UNCHANGED arena
  PROVE  \A p \in Page : Held(p)' = Held(p) /\ (arena'[p] # NULL => arena[p] # NULL)
  BY DEF Held

LEMMA SameTaken ==
  ASSUME NEW t \in Thread, pc[t] # "got" \/ idx[t] = BITMAP_ERROR,
         pc'[t] # "got" \/ idx'[t] = BITMAP_ERROR,
         \A u \in Thread \ {t} : pc'[u] = pc[u] /\ req'[u] = req[u] /\ idx'[u] = idx[u]
  PROVE  \A u \in Thread : Taken(u)' = Taken(u)
  BY DEF Taken, PagesOf, BITMAP_ERROR

\* What the fields of the other threads say is kept.
Others(t) ==
  \A u \in Thread \ {t} : pc'[u] = pc[u] /\ req'[u] = req[u] /\ idx'[u] = idx[u]

LEMMA MallocInv ==
  ASSUME MemoryAssumption, MemoryInv, NEW t \in Thread, Malloc(t)
  PROVE  MemoryInv'
<1> USE DEF MemoryInv
<1>1. PICK d \in Desc \cup {NULL}, n \in BigPages :
        /\ req' = [req EXCEPT ![t] = [desc |-> d, pages |-> n]]
        /\ pc' = [pc EXCEPT ![t] = IF d = NULL THEN "get" ELSE "lock"]
  BY DEF Malloc
<1>2. UNCHANGED <<used_map, pool_lock, desc_lock, arena, free_list, idx, owner>> /\ pc[t] = "idle"
  BY DEF Malloc
<1>3. [desc |-> d, pages |-> n] \in Request
  BY DEF Request
<1>4. MemoryTypes'
  BY <1>1, <1>2, <1>3 DEF MemoryTypes, Page, IsBitmap, elem_cnt, Bit, Block
<1>5. /\ Others(t) /\ req'[t] = [desc |-> d, pages |-> n]
      /\ pc'[t] = IF d = NULL THEN "get" ELSE "lock"
  BY <1>1, <1>2 DEF MemoryTypes, Others
<1>6. LocksHeld'
  BY <1>2, <1>3, <1>5 DEF LocksHeld, Others
<1>7. Scanned'
  BY <1>2, <1>5 DEF Scanned, Others, Group, PagesOf, bitmap_test, elem_idx, bit_mask, Page
<1>8. PagesInv'
  <2>1. \A u \in Thread : Taken(u)' = Taken(u)
    BY <1>2, <1>5, SameTaken DEF Others
  <2>2. QED
    BY <1>2, <2>1, SameHeld, KeepPages
<1>9. PopReady'
  BY <1>2, <1>5 DEF PopReady, Others
<1>10. QED
  BY <1>2, <1>4, <1>6, <1>7, <1>8, <1>9, KeepBlocks

LEMMA MallocLockInv ==
  ASSUME MemoryAssumption, MemoryInv, NEW t \in Thread, MallocLock(t)
  PROVE  MemoryInv'
<1> USE DEF MemoryInv
<1> DEFINE d == req[t].desc
<1>1. /\ pc[t] = "lock" /\ desc_lock[d] = NULL
      /\ desc_lock' = [desc_lock EXCEPT ![d] = t]
      /\ pc' = [pc EXCEPT ![t] = IF free_list[d] = <<>> THEN "get" ELSE "pop"]
      /\ UNCHANGED <<used_map, pool_lock, arena, free_list, req, idx, owner>>
  BY DEF MallocLock
<1>2. d \in Desc /\ req[t] \in Request
  BY <1>1, RequestPages DEF LocksHeld
<1>3. MemoryTypes'
  BY <1>1, <1>2 DEF MemoryTypes, Page, IsBitmap, elem_cnt, Bit, Block
<1>4. /\ Others(t) /\ req'[t] = req[t] /\ desc_lock'[d] = t
      /\ \A e \in Desc \ {d} : desc_lock'[e] = desc_lock[e]
      /\ pc'[t] = IF free_list[d] = <<>> THEN "get" ELSE "pop"
  BY <1>1, <1>2 DEF MemoryTypes, Others
<1> HIDE DEF d
<1>5. LocksHeld'
  <2>1. SUFFICES ASSUME NEW u \in Thread
        PROVE  /\ pc'[u] # "idle" => req'[u] \in Request
               /\ pc'[u] \in {"lock", "pop"} => req'[u].desc # NULL
               /\ pc'[u] = "flip" => pool_lock' = u
               /\ pc'[u] \in {"get", "flip", "got", "pop"} /\ req'[u].desc # NULL =>
                    desc_lock'[req'[u].desc] = u
    BY DEF LocksHeld, Request
  <2>2. CASE u = t
    BY <1>1, <1>2, <1>4, <2>2 DEF LocksHeld, d, MemoryAssumption
  <2>3. CASE u # t
    <3>1. pc'[u] = pc[u] /\ req'[u] = req[u]
      BY <1>4, <2>3 DEF Others
    <3>2. pc[u] \in {"get", "flip", "got", "pop"} /\ req[u].desc # NULL =>
            req[u].desc \in Desc /\ req[u].desc # d
      BY <1>1, RequestPages DEF LocksHeld, MemoryAssumption
    <3>3. QED
      BY <1>1, <1>4, <3>1, <3>2 DEF LocksHeld
  <2>4. QED
    BY <2>2, <2>3
<1>6. Scanned'
  BY <1>1, <1>4 DEF Scanned, Others, Group, PagesOf, bitmap_test, elem_idx, bit_mask, Page
<1>7. PagesInv'
  <2>1. \A u \in Thread : Taken(u)' = Taken(u)
    BY <1>1, <1>4, SameTaken DEF Others
  <2>2. QED
    BY <1>1, <2>1, SameHeld, KeepPages
<1>8. PopReady'
  BY <1>1, <1>4 DEF PopReady, Others, d
<1>9. QED
  BY <1>1, <1>3, <1>5, <1>6, <1>7, <1>8, KeepBlocks

LEMMA MallocFailsInv ==
  ASSUME MemoryAssumption, MemoryInv, NEW t \in Thread, MallocFails(t)
  PROVE  MemoryInv'
<1> USE DEF MemoryInv
<1> DEFINE d == req[t].desc
<1>1. /\ pc[t] = "got" /\ idx[t] = BITMAP_ERROR
      /\ desc_lock' = IF d = NULL THEN desc_lock ELSE [desc_lock EXCEPT ![d] = NULL]
      /\ pc' = [pc EXCEPT ![t] = "idle"]
      /\ req' = [req EXCEPT ![t] = NULL]
      /\ idx' = [idx EXCEPT ![t] = BITMAP_ERROR]
      /\ UNCHANGED <<used_map, pool_lock, arena, free_list, owner>>
  BY DEF MallocFails, Return
<1>2. d \in Desc \cup {NULL} /\ req[t] \in Request /\ (d # NULL => desc_lock[d] = t)
  BY <1>1, RequestPages DEF LocksHeld
<1>3. MemoryTypes'
  BY <1>1, <1>2 DEF MemoryTypes, Page, IsBitmap, elem_cnt, Bit, Block
<1>4. /\ Others(t) /\ pc'[t] = "idle" /\ idx'[t] = BITMAP_ERROR
      /\ \A e \in Desc \ {d} : desc_lock'[e] = desc_lock[e]
  BY <1>1, <1>2 DEF MemoryTypes, Others
<1> HIDE DEF d
<1>5. LocksHeld'
  <2>1. SUFFICES ASSUME NEW u \in Thread
        PROVE  /\ pc'[u] # "idle" => req'[u] \in Request
               /\ pc'[u] \in {"lock", "pop"} => req'[u].desc # NULL
               /\ pc'[u] = "flip" => pool_lock' = u
               /\ pc'[u] \in {"get", "flip", "got", "pop"} /\ req'[u].desc # NULL =>
                    desc_lock'[req'[u].desc] = u
    BY DEF LocksHeld, Request
  <2>2. CASE u = t
    BY <1>4, <2>2
  <2>3. CASE u # t
    <3>1. pc'[u] = pc[u] /\ req'[u] = req[u]
      BY <1>4, <2>3 DEF Others
    <3>2. pc[u] \in {"get", "flip", "got", "pop"} /\ req[u].desc # NULL =>
            req[u].desc \in Desc /\ req[u].desc # d
      BY <1>2, <2>3, RequestPages DEF LocksHeld
    <3>3. QED
      BY <1>1, <1>4, <3>1, <3>2 DEF LocksHeld
  <2>4. QED
    BY <2>2, <2>3
<1>6. Scanned'
  BY <1>1, <1>4 DEF Scanned, Others, Group, PagesOf, bitmap_test, elem_idx, bit_mask, Page
<1>7. PagesInv'
  <2>1. \A u \in Thread : Taken(u)' = Taken(u)
    BY <1>1, <1>4, SameTaken DEF Others
  <2>2. QED
    BY <1>1, <2>1, SameHeld, KeepPages
<1>8. PopReady'
  BY <1>1, <1>4 DEF PopReady, Others
<1>9. QED
  BY <1>1, <1>3, <1>5, <1>6, <1>7, <1>8, KeepBlocks

LEMMA PoolScanInv ==
  ASSUME MemoryAssumption, MemoryInv, NEW t \in Thread, PoolScan(t)
  PROVE  MemoryInv'
<1> USE DEF MemoryInv
<1> DEFINE cnt == PagesOf(req[t])
           r == bitmap_scan(used_map, 0, cnt, FALSE)
<1>1. /\ pc[t] = "get" /\ pool_lock = NULL /\ pool_lock' = t
      /\ idx' = [idx EXCEPT ![t] = r]
      /\ pc' = [pc EXCEPT ![t] = "flip"]
      /\ UNCHANGED <<used_map, desc_lock, arena, free_list, req, owner>>
  BY DEF PoolScan
<1>2. cnt \in Nat \ {0} /\ req[t] \in Request
  BY <1>1, RequestPages DEF LocksHeld
<1>3. r # BITMAP_ERROR => r \in Fits(used_map, PAGE_CNT, 0, cnt, FALSE)
  <2>1. IsBitmap(used_map, PAGE_CNT) /\ PAGE_CNT \in Nat /\ 0 \in 0..PAGE_CNT /\ FALSE \in BOOLEAN
    BY DEF MemoryTypes, MemoryAssumption
  <2> HIDE DEF cnt
  <2>2. QED
    BY <1>2, <2>1, ScanFinds
<1> HIDE DEF cnt, r
<1>4. r # BITMAP_ERROR =>
        r \in Page /\ \A q \in r..(r + cnt - 1) : q \in Page /\ ~ bitmap_test(used_map, q)
  <2>1. SUFFICES ASSUME r # BITMAP_ERROR
        PROVE  r \in Page /\ \A q \in r..(r + cnt - 1) : q \in Page /\ ~ bitmap_test(used_map, q)
    OBVIOUS
  <2>2. r \in 0..(PAGE_CNT - cnt) /\ \A q \in r..(r + cnt - 1) : ~ bitmap_test(used_map, q)
    BY <1>3, <2>1 DEF Fits
  <2>3. r \in 0..(PAGE_CNT - 1) /\ \A q \in r..(r + cnt - 1) : q \in 0..(PAGE_CNT - 1)
    BY <1>2, <2>2 DEF MemoryAssumption
  <2>4. QED
    BY <2>2, <2>3 DEF Page
<1>5. MemoryTypes'
  <2>1. r \in Page \cup {BITMAP_ERROR}
    BY <1>4
  <2>2. QED
    BY <1>1, <2>1 DEF MemoryTypes, Page, IsBitmap, elem_cnt, Bit, Block, BITMAP_ERROR
<1>6. /\ Others(t) /\ req'[t] = req[t] /\ pc'[t] = "flip" /\ idx'[t] = r
  BY <1>1 DEF MemoryTypes, Others
<1>7. LocksHeld'
  BY <1>1, <1>6 DEF LocksHeld, Others, Request, MemoryAssumption
<1>8. Scanned'
  <2>1. SUFFICES ASSUME NEW u \in Thread, pc'[u] = "flip", idx'[u] # BITMAP_ERROR,
                        NEW q \in (idx'[u])..(idx'[u] + PagesOf(req'[u]) - 1)
        PROVE  q \in Page /\ ~ bitmap_test(used_map, q)
    BY <1>1 DEF Scanned, Group, PagesOf, bitmap_test, elem_idx, bit_mask, Page, BITMAP_ERROR
  <2>2. CASE u = t
    BY <1>4, <1>6, <2>1, <2>2 DEF cnt
  <2>3. CASE u # t
    BY <1>6, <2>1, <2>3 DEF Scanned, Others, Group
  <2>4. QED
    BY <2>2, <2>3
<1>9. PagesInv'
  <2>1. \A u \in Thread : Taken(u)' = Taken(u)
    BY <1>1, <1>6, SameTaken DEF Others
  <2>2. QED
    BY <1>1, <2>1, SameHeld, KeepPages
<1>10. PopReady'
  BY <1>1, <1>6 DEF PopReady, Others
<1>11. QED
  BY <1>1, <1>5, <1>7, <1>8, <1>9, <1>10, KeepBlocks

LEMMA PoolFlipInv ==
  ASSUME MemoryAssumption, MemoryInv, NEW t \in Thread, PoolFlip(t)
  PROVE  MemoryInv'
<1> USE DEF MemoryInv
<1> DEFINE cnt == PagesOf(req[t])
           r == idx[t]
<1>1. /\ pc[t] = "flip"
      /\ used_map' = IF r = BITMAP_ERROR THEN used_map
                     ELSE bitmap_set_multiple(used_map, r, cnt, TRUE)
      /\ pool_lock' = NULL
      /\ pc' = [pc EXCEPT ![t] = "got"]
      /\ UNCHANGED <<desc_lock, arena, free_list, req, idx, owner>>
  BY DEF PoolFlip
<1>2. cnt \in Nat \ {0} /\ req[t] \in Request /\ r \in Page \cup {BITMAP_ERROR} /\ PAGE_CNT \in Nat
  BY <1>1, RequestPages DEF LocksHeld, MemoryTypes, MemoryAssumption
<1>3. Group(t) = r..(r + cnt - 1)
  BY DEF Group
<1> HIDE DEF cnt, r
<1>4. r # BITMAP_ERROR => \A q \in Group(t) : q \in Page /\ ~ bitmap_test(used_map, q)
  BY <1>1 DEF Scanned, r
<1>5. /\ IsBitmap(used_map', PAGE_CNT)
      /\ \A q \in Page : bitmap_test(used_map', q) <=>
           bitmap_test(used_map, q) \/ (r # BITMAP_ERROR /\ q \in Group(t))
  <2>1. IsBitmap(used_map, PAGE_CNT)
    BY DEF MemoryTypes
  <2>2. CASE r = BITMAP_ERROR
    BY <1>1, <2>1, <2>2
  <2>3. CASE r # BITMAP_ERROR
    <3>1. r \in Nat /\ r + cnt - 1 \in Page
      <4>1. r \in Nat /\ r + cnt - 1 \in r..(r + cnt - 1)
        BY <1>2, <2>3 DEF Page
      <4>2. QED
        BY <1>3, <1>4, <2>3, <4>1
    <3>2. r + cnt <= PAGE_CNT /\ TRUE \in BOOLEAN
      BY <1>2, <3>1 DEF Page
    <3>3. /\ IsBitmap(used_map', PAGE_CNT)
          /\ \A j \in 0..(PAGE_CNT - 1) : bitmap_test(used_map', j) <=>
               IF j \in r..(r + cnt - 1) THEN TRUE ELSE bitmap_test(used_map, j)
      BY <1>1, <1>2, <2>1, <2>3, <3>1, <3>2, SetMany DEF MemoryAssumption
    <3>4. QED
      BY <1>3, <2>3, <3>3 DEF Page
  <2>4. QED
    BY <2>2, <2>3
<1>6. MemoryTypes'
  <2>1. IsBitmap(used_map, PAGE_CNT)'
    BY <1>5 DEF IsBitmap, elem_cnt, Bit
  <2>2. QED
    BY <1>1, <2>1 DEF MemoryTypes, Page, Block, BITMAP_ERROR
<1>7. Others(t) /\ req'[t] = req[t] /\ pc'[t] = "got" /\ idx'[t] = r
  BY <1>1 DEF MemoryTypes, Others, r
<1>8. \A u \in Thread \ {t} : pc[u] # "flip"
  BY <1>1 DEF LocksHeld
<1>9. LocksHeld'
  BY <1>1, <1>7, <1>8 DEF LocksHeld, Others, Request
<1>10. Scanned'
  BY <1>7, <1>8 DEF Scanned, Others
<1>11. PopReady'
  BY <1>1, <1>7 DEF PopReady, Others
<1>12. PagesInv'
  <2>1. \A u \in Thread \ {t} : Taken(u)' = Taken(u)
    BY <1>7 DEF Taken, Others, PagesOf, BITMAP_ERROR
  <2>2. Taken(t) = {} /\ Taken(t)' = IF r # BITMAP_ERROR THEN Group(t) ELSE {}
    BY <1>1, <1>3, <1>7 DEF Taken, PagesOf, BITMAP_ERROR, cnt
  <2>3. \A p \in Page : Held(p)' = Held(p)
    BY <1>1 DEF Held
  <2>4. \A q \in Page : bitmap_test(used_map, q)' <=> bitmap_test(used_map', q)
    BY DEF bitmap_test, elem_idx, bit_mask
  <2>5. \A x \in Taken(t)' : x \in Page /\ ~ bitmap_test(used_map, x)
    BY <1>4, <2>2
  <2>6. \A q \in Page : bitmap_test(used_map, q)' <=> bitmap_test(used_map, q) \/ q \in Taken(t)'
    BY <1>5, <2>2, <2>4
  <2>7. Page' = Page
    BY DEF Page
  <2>8. \A x \in Page : ~ bitmap_test(used_map, x) =>
          (\A p \in Page : x \notin Held(p)) /\ (\A u \in Thread : x \notin Taken(u))
    BY DEF PagesInv
  <2>9. (\A p \in Page : Held(p) \subseteq Page /\ (arena[p] # NULL => p \in Held(p)))'
    BY <1>1, <2>3, <2>7 DEF PagesInv
  <2>10. (\A u \in Thread : Taken(u) \subseteq Page)'
    BY <2>1, <2>5, <2>7 DEF PagesInv
  <2>11. (\A q \in Page : bitmap_test(used_map, q) <=>
            (\E p \in Page : q \in Held(p)) \/ (\E u \in Thread : q \in Taken(u)))'
    BY <2>1, <2>2, <2>3, <2>6, <2>7 DEF PagesInv
  <2>12. (\A p, q \in Page : \A x \in Held(p) : x \in Held(q) => p = q)'
    BY <2>3, <2>7 DEF PagesInv
  <2>13. (\A u \in Thread, p \in Page : \A x \in Taken(u) : x \notin Held(p))'
    BY <2>1, <2>3, <2>5, <2>7, <2>8 DEF PagesInv
  <2>14. (\A w, u \in Thread : \A x \in Taken(w) : x \in Taken(u) => w = u)'
    BY <2>1, <2>5, <2>8 DEF PagesInv
  <2>15. QED
    BY <2>9, <2>10, <2>11, <2>12, <2>13, <2>14 DEF PagesInv
<1>13. QED
  BY <1>1, <1>6, <1>9, <1>10, <1>11, <1>12, KeepBlocks

\* The page a thread was given has no header yet, and no block is on it.
LEMMA NewPage ==
  ASSUME MemoryAssumption, MemoryInv, NEW t \in Thread, pc[t] = "got", idx[t] # BITMAP_ERROR
  PROVE  /\ req[t] \in Request /\ idx[t] \in Page /\ idx[t] \in Nat /\ arena[idx[t]] = NULL
         /\ PagesOf(req[t]) \in Nat \ {0} /\ Taken(t) = Group(t)
         /\ \A d \in Desc : \A b \in Elems(free_list[d]) : b.page # idx[t]
         /\ \A u \in Thread : \A b \in owner[u] : b.page # idx[t]
<1> USE DEF MemoryInv
<1>1. req[t] \in Request /\ idx[t] \in Page /\ idx[t] \in Nat
  BY DEF LocksHeld, MemoryTypes, Page
<1>2. PagesOf(req[t]) \in Nat \ {0}
  BY <1>1, RequestPages
<1>3. Taken(t) = Group(t)
  BY DEF Taken, Group
<1>4. idx[t] \in Taken(t)
  BY <1>1, <1>2, <1>3 DEF Group
<1>5. arena[idx[t]] = NULL
  BY <1>1, <1>4 DEF PagesInv
<1>6. \A d \in Desc : \A b \in Elems(free_list[d]) : b.page # idx[t]
  BY <1>5 DEF FreeSound
<1>7. \A u \in Thread : \A b \in owner[u] : b.page # idx[t]
  BY <1>5 DEF OwnSound
<1>8. QED
  BY <1>1, <1>2, <1>3, <1>5, <1>6, <1>7

\* A header takes over the pages: PagesInv sees them change hands.
LEMMA HeaderPages ==
  ASSUME PagesInv, NEW t \in Thread, NEW p \in Page, UNCHANGED used_map,
         Held(p)' = Taken(t), Held(p) = {}, Taken(t)' = {}, p \in Held(p)',
         \A q \in Page \ {p} : Held(q)' = Held(q) /\ arena'[q] = arena[q],
         \A u \in Thread \ {t} : Taken(u)' = Taken(u)
  PROVE  PagesInv'
<1>1. Page' = Page
  BY DEF Page
<1>2. \A q \in Page : bitmap_test(used_map, q)' <=> bitmap_test(used_map, q)
  BY DEF bitmap_test, elem_idx, bit_mask
<1>3. (\A q \in Page : Held(q) \subseteq Page /\ (arena[q] # NULL => q \in Held(q)))'
  BY <1>1 DEF PagesInv
<1>4. (\A u \in Thread : Taken(u) \subseteq Page)'
  BY <1>1 DEF PagesInv
<1>5. (\A x \in Page : bitmap_test(used_map, x) <=>
         (\E q \in Page : x \in Held(q)) \/ (\E u \in Thread : x \in Taken(u)))'
  <2>1. SUFFICES ASSUME NEW x \in Page
        PROVE  bitmap_test(used_map, x) <=>
                 (\E q \in Page : x \in Held(q)') \/ (\E u \in Thread : x \in Taken(u)')
    BY <1>1, <1>2
  <2>2. (\E q \in Page : x \in Held(q)) \/ (\E u \in Thread : x \in Taken(u)) <=>
        (\E q \in Page : x \in Held(q)') \/ (\E u \in Thread : x \in Taken(u)')
    OBVIOUS
  <2>3. QED
    BY <2>2 DEF PagesInv
<1>6. (\A q, s \in Page : \A x \in Held(q) : x \in Held(s) => q = s)'
  BY <1>1 DEF PagesInv
<1>7. (\A u \in Thread, q \in Page : \A x \in Taken(u) : x \notin Held(q))'
  BY <1>1 DEF PagesInv
<1>8. (\A w, u \in Thread : \A x \in Taken(w) : x \in Taken(u) => w = u)'
  BY DEF PagesInv
<1>9. QED
  BY <1>3, <1>4, <1>5, <1>6, <1>7, <1>8 DEF PagesInv

LEMMA MallocBigInv ==
  ASSUME MemoryAssumption, MemoryInv, NEW t \in Thread, MallocBig(t)
  PROVE  MemoryInv'
<1> USE DEF MemoryInv
<1>0. PICK p : p = idx[t]
  OBVIOUS
<1> DEFINE h == [desc |-> NULL, free_cnt |-> req[t].pages]
           b == [page |-> p, idx |-> -1]
<1>1. /\ pc[t] = "got" /\ p # BITMAP_ERROR /\ req[t].desc = NULL
      /\ arena' = [arena EXCEPT ![p] = h]
      /\ owner' = [owner EXCEPT ![t] = @ \cup {b}]
      /\ pc' = [pc EXCEPT ![t] = "idle"]
      /\ req' = [req EXCEPT ![t] = NULL]
      /\ idx' = [idx EXCEPT ![t] = BITMAP_ERROR]
      /\ UNCHANGED <<used_map, pool_lock, desc_lock, free_list>>
  BY <1>0 DEF MallocBig, Return
<1>2. /\ req[t] \in Request /\ p \in Page /\ p \in Nat /\ arena[p] = NULL
      /\ PagesOf(req[t]) \in Nat \ {0} /\ Taken(t) = Group(t)
      /\ \A d \in Desc : \A c \in Elems(free_list[d]) : c.page # p
      /\ \A u \in Thread : \A c \in owner[u] : c.page # p
  BY <1>0, <1>1, NewPage
<1>3. req[t].pages \in Nat \ {0} /\ PagesOf(req[t]) = req[t].pages
  BY <1>1, <1>2 DEF PagesOf
<1>4. h \in Header /\ h # NULL /\ h.desc = NULL /\ h.free_cnt = req[t].pages
  BY <1>3 DEF Header, MemoryAssumption
<1>5. b \in Block /\ b.page = p /\ b.idx = -1
  BY <1>2 DEF Block
<1> HIDE DEF h, b
<1>6. /\ Others(t) /\ pc'[t] = "idle" /\ idx'[t] = BITMAP_ERROR
      /\ owner'[t] = owner[t] \cup {b} /\ \A u \in Thread \ {t} : owner'[u] = owner[u]
  BY <1>1 DEF MemoryTypes, Others
<1>7. arena'[p] = h /\ \A q \in Page \ {p} : arena'[q] = arena[q]
  BY <1>1, <1>2 DEF MemoryTypes
<1>8. MemoryTypes'
  BY <1>1, <1>2, <1>4, <1>5 DEF MemoryTypes, Page, IsBitmap, elem_cnt, Bit, Block, Header
<1>9. LocksHeld'
  BY <1>1, <1>6 DEF LocksHeld, Others, Request
<1>10. Scanned'
  BY <1>1, <1>6 DEF Scanned, Others, Group, PagesOf, bitmap_test, elem_idx, bit_mask, Page
<1>11. PopReady'
  BY <1>1, <1>6 DEF PopReady, Others
<1>12. PagesInv'
  <2>1. Held(p)' = Taken(t)
    <3>1. Held(p)' = p..(p + h.free_cnt - 1)
      BY <1>4, <1>7 DEF Held
    <3>2. QED
      BY <1>0, <1>2, <1>3, <1>4, <3>1 DEF Group
  <2>2. Held(p) = {}
    BY <1>2 DEF Held
  <2>3. Taken(t)' = {} /\ \A u \in Thread \ {t} : Taken(u)' = Taken(u)
    BY <1>6 DEF Taken, Others, PagesOf, BITMAP_ERROR
  <2>4. p \in Held(p)'
    BY <1>0, <1>2, <2>1 DEF Group
  <2>5. \A q \in Page \ {p} : Held(q)' = Held(q) /\ arena'[q] = arena[q]
    BY <1>7 DEF Held
  <2>6. QED
    BY <1>1, <1>2, <2>1, <2>2, <2>3, <2>4, <2>5, HeaderPages
<1>13. FreeSound'
  <2>1. \A d \in Desc : \A c \in Elems(free_list[d]) : c.page \in Page /\ arena'[c.page] = arena[c.page]
    <3>1. \A d \in Desc : \A c \in Elems(free_list[d]) : c \in Block
      BY ElemsEmpty DEF MemoryTypes
    <3>2. QED
      BY <1>2, <1>7, <3>1 DEF Block
  <2>2. QED
    BY <1>1, <2>1 DEF FreeSound, Slots
<1>14. OwnSound'
  <2>1. \A u \in Thread : \A c \in owner[u] : c.page \in Page /\ arena'[c.page] = arena[c.page]
    <3>1. \A u \in Thread : \A c \in owner[u] : c \in Block
      BY DEF MemoryTypes
    <3>2. QED
      BY <1>2, <1>7, <3>1 DEF Block
  <2>2. ASSUME NEW u \in Thread, NEW c \in owner'[u]
        PROVE  /\ arena'[c.page] # NULL
               /\ IF arena'[c.page].desc = NULL THEN c.idx = -1
                  ELSE /\ c \in Slots(arena'[c.page].desc, c.page)
                       /\ c \notin Elems(free_list[arena'[c.page].desc])
    <3>1. CASE u = t /\ c = b
      BY <1>4, <1>5, <1>7, <3>1
    <3>2. CASE c \in owner[u]
      BY <2>1, <3>2 DEF OwnSound
    <3>3. QED
      BY <1>6, <2>2, <3>1, <3>2
  <2>3. ASSUME NEW u \in Thread, NEW w \in Thread, NEW c \in owner'[u], c \in owner'[w]
        PROVE  u = w
    BY <1>2, <1>5, <1>6, <2>3 DEF OwnSound
  <2>4. QED
    BY <1>1, <2>2, <2>3 DEF OwnSound, Slots
<1>15. AllThere'
  <2>1. ASSUME NEW q \in Page, arena'[q] # NULL, arena'[q].desc # NULL
        PROVE  /\ \A c \in Slots(arena'[q].desc, q) :
                    c \in Elems(free_list'[arena'[q].desc]) \/ \E u \in Thread : c \in owner'[u]
               /\ arena'[q].free_cnt =
                    Cardinality({c \in Elems(free_list'[arena'[q].desc]) : c.page = q})
    <3>1. q # p /\ arena'[q] = arena[q]
      BY <1>4, <1>7, <2>1
    <3>2. QED
      BY <1>1, <1>6, <2>1, <3>1 DEF AllThere, Free
  <2>2. QED
    BY <2>1 DEF AllThere, Page, Slots, Free
<1>16. QED
  BY <1>8, <1>9, <1>10, <1>11, <1>12, <1>13, <1>14, <1>15

\* An arena's blocks: as many as the descriptor says, each once on the new list.
LEMMA SlotsCount ==
  ASSUME MemoryAssumption, NEW d \in Desc, NEW p \in Page
  PROVE  LET r == [i \in 1..blocks_per_arena[d] |-> [page |-> p, idx |-> i - 1]] IN
         /\ r \in Seq(Block) /\ Distinct(r) /\ Elems(r) = Slots(d, p)
         /\ IsFiniteSet(Slots(d, p)) /\ Cardinality(Slots(d, p)) = blocks_per_arena[d]
         /\ Slots(d, p) # {} /\ blocks_per_arena[d] \in Nat /\ Slots(d, p) \in SUBSET Block
<1> DEFINE n == blocks_per_arena[d]
           r == [i \in 1..n |-> [page |-> p, idx |-> i - 1]]
<1>1. n \in Nat /\ n # 0
  BY DEF MemoryAssumption
<1>2. Slots(d, p) = [page : {p}, idx : 0..(n - 1)]
  BY DEF Slots
<1> HIDE DEF n
<1>3. \A i \in 1..n : [page |-> p, idx |-> i - 1] \in Block
  BY <1>1 DEF Block
<1>4. r \in Seq(Block) /\ Len(r) = n
  <2>1. r \in [1..n -> Block]
    BY <1>3
  <2> HIDE DEF r
  <2>2. QED
    BY <1>1, <2>1
<1>5. \A i \in 1..n : r[i].page = p /\ r[i].idx = i - 1 /\ r[i] \in Slots(d, p)
  <2>1. \A i \in 1..n : r[i] = [page |-> p, idx |-> i - 1]
    OBVIOUS
  <2>2. \A i \in 1..n : i - 1 \in 0..(n - 1)
    BY <1>1
  <2>3. QED
    BY <1>2, <2>1, <2>2
<1>6. Distinct(r)
  <2>1. \A i, j \in 1..n : r[i] = r[j] => i - 1 = j - 1
    BY <1>5
  <2>2. QED
    BY <1>1, <1>4, <2>1 DEF Distinct
<1>7. ASSUME NEW b \in Slots(d, p) PROVE \E i \in 1..n : r[i] = b
  <2>1. b.idx + 1 \in 1..n /\ b = [page |-> p, idx |-> (b.idx + 1) - 1]
    BY <1>1, <1>2
  <2>2. QED
    BY <2>1
<1> HIDE DEF r
<1>8. Elems(r) = Slots(d, p)
  BY <1>4, <1>5, <1>7 DEF Elems
<1>9. r \in Bijection(1..n, Slots(d, p))
  <2>1. r \in [1..n -> Slots(d, p)]
    BY <1>1, <1>4, <1>5
  <2>2. \A i, j \in 1..n : r[i] = r[j] => i = j
    BY <1>4, <1>6 DEF Distinct
  <2>3. QED
    BY <1>7, <2>1, <2>2 DEF Bijection, Injection, Surjection, IsInjective
<1>10. Cardinality(Slots(d, p)) = n /\ IsFiniteSet(Slots(d, p))
  <2>1. ExistsBijection(1..n, Slots(d, p))
    BY <1>9 DEF ExistsBijection
  <2>2. QED
    BY <1>1, <2>1, FS_CountingElements, FS_NatBijection
<1>11. r[1] \in Slots(d, p)
  <2>1. 1 \in 1..n
    BY <1>1
  <2>2. QED
    BY <1>5, <2>1
<1>12. Slots(d, p) \in SUBSET Block
  BY <1>4, <1>8, ElemsEmpty
<1>13. QED
  BY <1>1, <1>4, <1>6, <1>8, <1>10, <1>11, <1>12 DEF r, n

LEMMA FreeFinite ==
  ASSUME MemoryAssumption, FreeSound, NEW d \in Desc, NEW p \in Page
  PROVE  IsFiniteSet(Free(d, p)) /\ Cardinality(Free(d, p)) \in Nat /\ Free(d, p) \subseteq Slots(d, p)
<1>1. Free(d, p) \subseteq Slots(d, p)
  BY DEF Free, FreeSound
<1>2. IsFiniteSet(Slots(d, p))
  BY SlotsCount
<1>3. IsFiniteSet(Free(d, p))
  BY <1>1, <1>2, FS_Subset
<1>4. QED
  BY <1>1, <1>3, FS_CardinalityType

LEMMA MallocArenaInv ==
  ASSUME MemoryAssumption, MemoryInv, NEW t \in Thread, MallocArena(t)
  PROVE  MemoryInv'
<1> USE DEF MemoryInv
<1>0. PICK p, d : p = idx[t] /\ d = req[t].desc
  OBVIOUS
<1> DEFINE n == blocks_per_arena[d]
           h == [desc |-> d, free_cnt |-> n]
           r == [i \in 1..n |-> [page |-> p, idx |-> i - 1]]
<1>1. /\ pc[t] = "got" /\ p # BITMAP_ERROR /\ d # NULL
      /\ arena' = [arena EXCEPT ![p] = h]
      /\ free_list' = [free_list EXCEPT ![d] = @ \o r]
      /\ pc' = [pc EXCEPT ![t] = "pop"]
      /\ UNCHANGED <<used_map, pool_lock, desc_lock, req, idx, owner>>
  BY <1>0 DEF MallocArena
<1>2. /\ req[t] \in Request /\ p \in Page /\ p \in Nat /\ arena[p] = NULL
      /\ Taken(t) = Group(t)
      /\ \A e \in Desc : \A c \in Elems(free_list[e]) : c.page # p
      /\ \A u \in Thread : \A c \in owner[u] : c.page # p
  BY <1>0, <1>1, NewPage
<1>3. d \in Desc /\ PagesOf(req[t]) = 1
  BY <1>0, <1>1, <1>2, RequestPages DEF PagesOf
<1>4. /\ r \in Seq(Block) /\ Distinct(r) /\ Elems(r) = Slots(d, p)
      /\ IsFiniteSet(Slots(d, p)) /\ Cardinality(Slots(d, p)) = n
      /\ Slots(d, p) # {} /\ n \in Nat /\ Slots(d, p) \in SUBSET Block
  BY <1>2, <1>3, SlotsCount
<1>5. \A c \in Slots(d, p) : c.page = p
  BY DEF Slots
<1>6. h \in Header /\ h # NULL /\ h.desc = d /\ h.free_cnt = n
  BY <1>3, <1>4 DEF Header, MemoryAssumption
<1> HIDE DEF h, r, n
<1>7. /\ Others(t) /\ pc'[t] = "pop" /\ idx'[t] = p /\ req'[t] = req[t]
  BY <1>0, <1>1 DEF MemoryTypes, Others
<1>8. arena'[p] = h /\ \A q \in Page \ {p} : arena'[q] = arena[q]
  BY <1>1, <1>2 DEF MemoryTypes
<1>9. /\ free_list'[d] = free_list[d] \o r
      /\ \A e \in Desc \ {d} : free_list'[e] = free_list[e]
  BY <1>1, <1>3 DEF MemoryTypes
<1>10. /\ free_list'[d] \in Seq(Block) /\ Distinct(free_list'[d])
       /\ Elems(free_list'[d]) = Elems(free_list[d]) \cup Slots(d, p)
  <2>1. free_list[d] \in Seq(Block) /\ Distinct(free_list[d])
    BY <1>3 DEF MemoryTypes, FreeSound
  <2>2. Elems(free_list[d]) \cap Elems(r) = {}
    BY <1>2, <1>3, <1>4, <1>5
  <2>3. QED
    BY <1>4, <1>9, <2>1, <2>2, ElemsConcat
<1>11. MemoryTypes'
  <2>1. free_list' \in [Desc -> Seq(Block)]
    <3>1. free_list[d] \o r \in Seq(Block)
      BY <1>9, <1>10
    <3>2. QED
      BY <1>1, <3>1 DEF MemoryTypes
  <2>2. arena' \in [Page -> Header \cup {NULL}]
    BY <1>1, <1>6 DEF MemoryTypes
  <2>3. QED
    BY <1>1, <2>1, <2>2 DEF MemoryTypes, Page, IsBitmap, elem_cnt, Bit, Block, Header
<1>12. LocksHeld'
  BY <1>0, <1>1, <1>7 DEF LocksHeld, Others, Request
<1>13. Scanned'
  BY <1>1, <1>7 DEF Scanned, Others, Group, PagesOf, bitmap_test, elem_idx, bit_mask, Page
<1>14. PopReady'
  <2>1. SUFFICES ASSUME NEW u \in Thread, pc'[u] = "pop" PROVE free_list'[req'[u].desc] # <<>>
    BY DEF PopReady
  <2>2. free_list'[d] # <<>>
    BY <1>4, <1>10, ElemsEmpty
  <2>3. CASE u = t
    BY <1>0, <1>7, <2>2, <2>3
  <2>4. CASE u # t
    <3>1. pc[u] = "pop" /\ req'[u] = req[u]
      BY <1>7, <2>1, <2>4 DEF Others
    <3>2. req[u].desc \in Desc
      BY <3>1, RequestPages DEF LocksHeld
    <3>3. QED
      BY <1>9, <2>2, <3>1, <3>2 DEF PopReady
  <2>5. QED
    BY <2>3, <2>4
<1>15. PagesInv'
  <2>1. Held(p)' = Taken(t)
    <3>1. Held(p)' = {p}
      BY <1>1, <1>6, <1>8 DEF Held
    <3>2. QED
      BY <1>0, <1>2, <1>3, <3>1 DEF Group
  <2>2. Held(p) = {}
    BY <1>2 DEF Held
  <2>3. Taken(t)' = {} /\ \A u \in Thread \ {t} : Taken(u)' = Taken(u)
    BY <1>7 DEF Taken, Others, PagesOf, BITMAP_ERROR
  <2>4. p \in Held(p)'
    BY <1>1, <1>6, <1>8 DEF Held
  <2>5. \A q \in Page \ {p} : Held(q)' = Held(q) /\ arena'[q] = arena[q]
    BY <1>8 DEF Held
  <2>6. QED
    BY <1>1, <1>2, <2>1, <2>2, <2>3, <2>4, <2>5, HeaderPages
<1>16. FreeSound'
  <2>1. ASSUME NEW e \in Desc
        PROVE  /\ Distinct(free_list'[e])
               /\ \A c \in Elems(free_list'[e]) : /\ arena'[c.page] # NULL
                                                  /\ arena'[c.page].desc = e
                                                  /\ c \in Slots(e, c.page)
    <3>1. ASSUME NEW c \in Elems(free_list[e])
          PROVE  arena'[c.page] # NULL /\ arena'[c.page].desc = e /\ c \in Slots(e, c.page)
      <4>1. c \in Block
        BY ElemsEmpty DEF MemoryTypes
      <4>2. c.page \in Page \ {p}
        BY <1>2, <4>1 DEF Block
      <4>3. QED
        BY <1>8, <4>2 DEF FreeSound
    <3>2. CASE e # d
      BY <1>9, <3>1, <3>2 DEF FreeSound
    <3>3. CASE e = d
      BY <1>5, <1>6, <1>8, <1>10, <3>1, <3>3
    <3>4. QED
      BY <3>2, <3>3
  <2>2. QED
    BY <2>1 DEF FreeSound, Slots
<1>17. OwnSound'
  <2>1. ASSUME NEW u \in Thread, NEW c \in owner[u]
        PROVE  /\ arena'[c.page] # NULL
               /\ IF arena'[c.page].desc = NULL THEN c.idx = -1
                  ELSE /\ c \in Slots(arena'[c.page].desc, c.page)
                       /\ c \notin Elems(free_list'[arena'[c.page].desc])
    <3>1. c \in Block
      BY DEF MemoryTypes
    <3>2. c.page \in Page \ {p}
      BY <1>2, <3>1 DEF Block
    <3>3. arena'[c.page] = arena[c.page] /\ c \notin Slots(d, p)
      BY <1>5, <1>8, <3>2
    <3>4. arena[c.page] # NULL => arena[c.page].desc \in Desc \cup {NULL}
      BY <3>2 DEF MemoryTypes, Header
    <3>5. \A e \in Desc : c \in Elems(free_list'[e]) => c \in Elems(free_list[e])
      BY <1>9, <1>10, <3>3
    <3>6. QED
      BY <3>3, <3>4, <3>5 DEF OwnSound
  <2>2. QED
    BY <1>1, <2>1 DEF OwnSound, Slots
<1>18. AllThere'
  <2>1. ASSUME NEW q \in Page, arena'[q] # NULL, arena'[q].desc # NULL
        PROVE  /\ \A c \in Slots(arena'[q].desc, q) :
                    c \in Elems(free_list'[arena'[q].desc]) \/ \E u \in Thread : c \in owner'[u]
               /\ arena'[q].free_cnt =
                    Cardinality({c \in Elems(free_list'[arena'[q].desc]) : c.page = q})
    <3>1. CASE q = p
      <4>1. {c \in Elems(free_list'[d]) : c.page = p} = Slots(d, p)
        BY <1>2, <1>3, <1>5, <1>10
      <4>2. QED
        BY <1>4, <1>6, <1>8, <1>10, <3>1, <4>1
    <3>2. CASE q # p
      <4>1. arena'[q] = arena[q] /\ arena[q].desc \in Desc
        BY <1>8, <2>1, <3>2 DEF MemoryTypes, Header
      <4>2. {c \in Elems(free_list'[arena[q].desc]) : c.page = q} = Free(arena[q].desc, q)
        BY <1>5, <1>9, <1>10, <3>2, <4>1 DEF Free
      <4>3. \A c : c \in Elems(free_list[arena[q].desc]) => c \in Elems(free_list'[arena[q].desc])
        BY <1>9, <1>10, <4>1
      <4>4. QED
        BY <1>1, <2>1, <4>1, <4>2, <4>3 DEF AllThere
    <3>3. QED
      BY <3>1, <3>2
  <2>2. QED
    BY <2>1 DEF AllThere, Page, Slots, Free
<1>19. QED
  BY <1>11, <1>12, <1>13, <1>14, <1>15, <1>16, <1>17, <1>18

LEMMA MallocPopInv ==
  ASSUME MemoryAssumption, MemoryInv, NEW t \in Thread, MallocPop(t)
  PROVE  MemoryInv'
<1> USE DEF MemoryInv
<1>0. PICK d, b, p : d = req[t].desc /\ b = Head(free_list[d]) /\ p = b.page
  OBVIOUS
<1>1. /\ pc[t] = "pop"
      /\ free_list' = [free_list EXCEPT ![d] = Tail(@)]
      /\ arena' = [arena EXCEPT ![p].free_cnt = @ - 1]
      /\ desc_lock' = [desc_lock EXCEPT ![d] = NULL]
      /\ owner' = [owner EXCEPT ![t] = @ \cup {b}]
      /\ pc' = [pc EXCEPT ![t] = "idle"]
      /\ req' = [req EXCEPT ![t] = NULL]
      /\ idx' = [idx EXCEPT ![t] = BITMAP_ERROR]
      /\ UNCHANGED <<used_map, pool_lock>>
  BY <1>0 DEF MallocPop, Return
<1>2. req[t] \in Request /\ d \in Desc /\ desc_lock[d] = t /\ free_list[d] # <<>>
  BY <1>0, <1>1, RequestPages DEF LocksHeld, PopReady
<1>3. /\ b \in Elems(free_list[d]) /\ b \in Block
      /\ Tail(free_list[d]) \in Seq(Block) /\ Distinct(Tail(free_list[d]))
      /\ Elems(Tail(free_list[d])) = Elems(free_list[d]) \ {b}
  BY <1>0, <1>2, ElemsTail DEF MemoryTypes, FreeSound
<1>4. p \in Page /\ arena[p] # NULL /\ arena[p].desc = d /\ b \in Slots(d, p)
  BY <1>0, <1>2, <1>3 DEF FreeSound, Block
<1>5. /\ arena[p] \in Header /\ d # NULL /\ arena[p].free_cnt \in Nat
      /\ arena[p].free_cnt = Cardinality(Free(d, p)) /\ b \in Free(d, p)
      /\ Free(d, p) \ {b} = {c \in Elems(free_list[d]) \ {b} : c.page = p}
  BY <1>0, <1>2, <1>3, <1>4 DEF MemoryTypes, Header, MemoryAssumption, AllThere, Free
<1>6. Cardinality(Free(d, p) \ {b}) = arena[p].free_cnt - 1 /\ arena[p].free_cnt - 1 \in Nat
  <2>1. IsFiniteSet(Free(d, p))
    BY <1>2, <1>4, FreeFinite
  <2>2. Cardinality(Free(d, p) \ {b}) = Cardinality(Free(d, p)) - 1
    BY <1>5, <2>1, FS_RemoveElement
  <2>3. IsFiniteSet(Free(d, p) \ {b})
    BY <2>1, FS_Subset
  <2>4. Cardinality(Free(d, p) \ {b}) \in Nat
    BY <2>3, FS_CardinalityType
  <2>5. QED
    BY <1>5, <2>2, <2>4
<1> DEFINE h == [arena[p] EXCEPT !.free_cnt = arena[p].free_cnt - 1]
<1>7. h \in Header /\ h # NULL /\ h.desc = d /\ h.free_cnt = arena[p].free_cnt - 1
  BY <1>4, <1>5, <1>6 DEF Header, MemoryAssumption
<1>8. arena' = [arena EXCEPT ![p] = h] /\ arena'[p] = h /\ \A q \in Page \ {p} : arena'[q] = arena[q]
  BY <1>1, <1>4, <1>5 DEF MemoryTypes, Header
<1> HIDE DEF h
<1>9. /\ Others(t) /\ pc'[t] = "idle" /\ idx'[t] = BITMAP_ERROR
      /\ owner'[t] = owner[t] \cup {b} /\ (\A u \in Thread \ {t} : owner'[u] = owner[u])
      /\ \A e \in Desc \ {d} : desc_lock'[e] = desc_lock[e]
  BY <1>1 DEF MemoryTypes, Others
<1>10. /\ free_list'[d] = Tail(free_list[d])
       /\ \A e \in Desc \ {d} : free_list'[e] = free_list[e]
  BY <1>1, <1>2 DEF MemoryTypes
<1>11. MemoryTypes'
  <2>1. free_list' \in [Desc -> Seq(Block)]
    BY <1>1, <1>3 DEF MemoryTypes
  <2>2. arena' \in [Page -> Header \cup {NULL}]
    BY <1>7, <1>8 DEF MemoryTypes
  <2>3. owner' \in [Thread -> SUBSET Block]
    BY <1>1, <1>3 DEF MemoryTypes
  <2>4. QED
    BY <1>1, <2>1, <2>2, <2>3 DEF MemoryTypes, Page, IsBitmap, elem_cnt, Bit, Block, Header
<1>12. LocksHeld'
  <2>1. SUFFICES ASSUME NEW u \in Thread
        PROVE  /\ pc'[u] # "idle" => req'[u] \in Request
               /\ pc'[u] \in {"lock", "pop"} => req'[u].desc # NULL
               /\ pc'[u] = "flip" => pool_lock' = u
               /\ pc'[u] \in {"get", "flip", "got", "pop"} /\ req'[u].desc # NULL =>
                    desc_lock'[req'[u].desc] = u
    BY DEF LocksHeld, Request
  <2>2. CASE u = t
    BY <1>9, <2>2
  <2>3. CASE u # t
    <3>1. pc'[u] = pc[u] /\ req'[u] = req[u]
      BY <1>9, <2>3 DEF Others
    <3>2. pc[u] \in {"get", "flip", "got", "pop"} /\ req[u].desc # NULL =>
            req[u].desc \in Desc /\ req[u].desc # d
      BY <1>2, <2>3, RequestPages DEF LocksHeld
    <3>3. QED
      BY <1>1, <1>9, <3>1, <3>2 DEF LocksHeld
  <2>4. QED
    BY <2>2, <2>3
<1>13. Scanned'
  BY <1>1, <1>9 DEF Scanned, Others, Group, PagesOf, bitmap_test, elem_idx, bit_mask, Page
<1>14. PopReady'
  <2>1. SUFFICES ASSUME NEW u \in Thread, pc'[u] = "pop" PROVE free_list'[req'[u].desc] # <<>>
    BY DEF PopReady
  <2>2. u # t /\ pc[u] = "pop" /\ req'[u] = req[u]
    BY <1>9, <2>1 DEF Others
  <2>3. req[u].desc \in Desc \ {d}
    BY <1>2, <2>2, RequestPages DEF LocksHeld
  <2>4. QED
    BY <1>10, <2>2, <2>3 DEF PopReady
<1>15. PagesInv'
  <2>1. \A u \in Thread : Taken(u)' = Taken(u)
    BY <1>1, <1>9, SameTaken DEF Others
  <2>2. \A q \in Page : Held(q)' = Held(q) /\ (arena'[q] # NULL => arena[q] # NULL)
    BY <1>4, <1>5, <1>7, <1>8 DEF Held
  <2>3. QED
    BY <1>1, <2>1, <2>2, KeepPages
<1>16. \A q \in Page : /\ arena'[q] # NULL <=> arena[q] # NULL
                       /\ arena[q] # NULL => arena'[q].desc = arena[q].desc
  BY <1>4, <1>7, <1>8
<1>17. \A e \in Desc : Elems(free_list'[e]) = Elems(free_list[e]) \ {b}
  <2>1. \A e \in Desc \ {d} : b \notin Elems(free_list[e])
    BY <1>0, <1>4 DEF FreeSound
  <2>2. QED
    BY <1>3, <1>10, <2>1
<1>18. \A e \in Desc : Elems(free_list[e]) \in SUBSET Block
  BY ElemsEmpty DEF MemoryTypes
<1>19. FreeSound'
  <2>1. ASSUME NEW e \in Desc
        PROVE  /\ Distinct(free_list'[e])
               /\ \A c \in Elems(free_list'[e]) : /\ arena'[c.page] # NULL
                                                  /\ arena'[c.page].desc = e
                                                  /\ c \in Slots(e, c.page)
    <3>1. Distinct(free_list'[e])
      BY <1>3, <1>10 DEF FreeSound
    <3>2. ASSUME NEW c \in Elems(free_list'[e])
          PROVE  arena'[c.page] # NULL /\ arena'[c.page].desc = e /\ c \in Slots(e, c.page)
      <4>1. c \in Elems(free_list[e]) /\ c.page \in Page
        BY <1>17, <1>18 DEF Block
      <4>2. QED
        BY <1>16, <4>1 DEF FreeSound
    <3>3. QED
      BY <3>1, <3>2
  <2>2. QED
    BY <2>1 DEF FreeSound, Slots
<1>20. OwnSound'
  <2>1. ASSUME NEW u \in Thread, NEW c \in owner'[u]
        PROVE  /\ arena'[c.page] # NULL
               /\ IF arena'[c.page].desc = NULL THEN c.idx = -1
                  ELSE /\ c \in Slots(arena'[c.page].desc, c.page)
                       /\ c \notin Elems(free_list'[arena'[c.page].desc])
    <3>1. CASE c = b
      <4>1. arena'[c.page] = h /\ b \notin Elems(free_list'[d])
        BY <1>0, <1>2, <1>8, <1>17, <3>1
      <4>2. QED
        BY <1>0, <1>4, <1>5, <1>7, <3>1, <4>1
    <3>2. CASE c \in owner[u]
      <4>1. c.page \in Page
        BY <3>2 DEF MemoryTypes, Block
      <4>2. arena[c.page] # NULL => arena[c.page].desc \in Desc \cup {NULL}
        BY <4>1 DEF MemoryTypes, Header
      <4>3. QED
        BY <1>16, <1>17, <3>2, <4>1, <4>2 DEF OwnSound
    <3>3. QED
      BY <1>9, <2>1, <3>1, <3>2
  <2>2. \A u \in Thread : b \notin owner[u]
    BY <1>0, <1>3, <1>4, <1>5 DEF OwnSound
  <2>3. ASSUME NEW u \in Thread, NEW w \in Thread, NEW c \in owner'[u], c \in owner'[w]
        PROVE  u = w
    BY <1>9, <2>2, <2>3 DEF OwnSound
  <2>4. QED
    BY <2>1, <2>3 DEF OwnSound, Slots
<1>21. AllThere'
  <2>1. ASSUME NEW q \in Page, arena'[q] # NULL, arena'[q].desc # NULL
        PROVE  /\ \A c \in Slots(arena'[q].desc, q) :
                    c \in Elems(free_list'[arena'[q].desc]) \/ \E u \in Thread : c \in owner'[u]
               /\ arena'[q].free_cnt =
                    Cardinality({c \in Elems(free_list'[arena'[q].desc]) : c.page = q})
    <3>1. arena[q] # NULL /\ arena'[q].desc = arena[q].desc /\ arena[q].desc \in Desc
      BY <1>16, <2>1 DEF MemoryTypes, Header
    <3>2. \A c \in Slots(arena'[q].desc, q) :
             c \in Elems(free_list'[arena'[q].desc]) \/ \E u \in Thread : c \in owner'[u]
      BY <1>9, <1>17, <2>1, <3>1 DEF AllThere
    <3>3. CASE q = p
      BY <1>2, <1>4, <1>5, <1>6, <1>7, <1>8, <1>17, <3>1, <3>2, <3>3
    <3>4. CASE q # p
      <4>1. {c \in Elems(free_list'[arena'[q].desc]) : c.page = q} = Free(arena[q].desc, q)
        BY <1>0, <1>17, <3>1, <3>4 DEF Free
      <4>2. QED
        BY <1>8, <2>1, <3>1, <3>2, <3>4, <4>1 DEF AllThere
    <3>5. QED
      BY <3>3, <3>4
  <2>2. QED
    BY <2>1 DEF AllThere, Page, Slots, Free
<1>22. QED
  BY <1>11, <1>12, <1>13, <1>14, <1>15, <1>19, <1>20, <1>21

\* Pages given back: the bits of the header's pages are cleared, without the
\* pool's lock, and no other.
LEMMA GiveBack ==
  ASSUME MemoryAssumption, MemoryInv, NEW p \in Page, NEW cnt \in Nat,
         arena[p] # NULL, Held(p) = p..(p + cnt - 1), arena'[p] = NULL,
         \A q \in Page \ {p} : arena'[q] = arena[q],
         UNCHANGED <<pc, req, idx>>, palloc_free_multiple(p, cnt)
  PROVE  IsBitmap(used_map, PAGE_CNT)' /\ PagesInv' /\ Scanned'
<1> USE DEF MemoryInv
<1>1. p \in Nat /\ cnt # 0 /\ p + cnt <= PAGE_CNT /\ PAGE_CNT \in Nat
  <2>1. p \in Nat /\ p \in Held(p) /\ Held(p) \subseteq Page /\ PAGE_CNT \in Nat
    BY DEF PagesInv, Page, MemoryAssumption
  <2>2. cnt # 0
    BY <2>1
  <2>3. p + cnt - 1 \in Held(p)
    BY <2>1, <2>2
  <2>4. p + cnt - 1 \in Page
    BY <2>1, <2>3
  <2>5. QED
    BY <2>1, <2>2, <2>4 DEF Page
<1>2. /\ IsBitmap(used_map', PAGE_CNT)
      /\ \A j \in 0..(PAGE_CNT - 1) : bitmap_test(used_map', j) <=>
           IF j \in p..(p + cnt - 1) THEN FALSE ELSE bitmap_test(used_map, j)
  <2>1. FALSE \in BOOLEAN /\ IsBitmap(used_map, PAGE_CNT) /\ ELEM_BITS \in Nat \ {0}
    BY DEF MemoryTypes, MemoryAssumption
  <2>2. used_map' = bitmap_set_multiple(used_map, p, cnt, FALSE)
    BY DEF palloc_free_multiple
  <2>3. QED
    BY <1>1, <2>1, <2>2, SetMany
<1>3. IsBitmap(used_map, PAGE_CNT)'
  BY <1>2 DEF IsBitmap, elem_cnt, Bit
<1>4. \A q \in Page : bitmap_test(used_map, q)' <=> bitmap_test(used_map, q) /\ q \notin Held(p)
  BY <1>2 DEF Page, bitmap_test, elem_idx, bit_mask
<1>5. Page' = Page
  BY DEF Page
<1>6. Scanned'
  <2>1. \A t \in Thread : Group(t)' = Group(t)
    BY DEF Group, PagesOf
  <2>2. QED
    BY <1>4, <1>5, <2>1 DEF Scanned, BITMAP_ERROR
<1>7. \A u \in Thread : Taken(u)' = Taken(u)
  BY DEF Taken, PagesOf, BITMAP_ERROR
<1>8. Held(p)' = {} /\ \A q \in Page \ {p} : Held(q)' = Held(q)
  BY DEF Held
<1>9. (\A q \in Page : Held(q) \subseteq Page /\ (arena[q] # NULL => q \in Held(q)))'
  BY <1>5, <1>8 DEF PagesInv
<1>10. (\A u \in Thread : Taken(u) \subseteq Page)'
  BY <1>5, <1>7 DEF PagesInv
<1>11. (\A x \in Page : bitmap_test(used_map, x) <=>
         (\E q \in Page : x \in Held(q)) \/ (\E u \in Thread : x \in Taken(u)))'
  <2>1. SUFFICES ASSUME NEW x \in Page
        PROVE  bitmap_test(used_map, x) /\ x \notin Held(p) <=>
                 (\E q \in Page : x \in Held(q)') \/ (\E u \in Thread : x \in Taken(u)')
    BY <1>4, <1>5
  <2>2. bitmap_test(used_map, x) <=>
          (\E q \in Page : x \in Held(q)) \/ (\E u \in Thread : x \in Taken(u))
    BY DEF PagesInv
  <2>3. x \in Held(p) => (\A q \in Page \ {p} : x \notin Held(q)) /\ \A u \in Thread : x \notin Taken(u)
    BY DEF PagesInv
  <2>4. QED
    BY <1>7, <1>8, <2>2, <2>3
<1>12. (\A q, s \in Page : \A x \in Held(q) : x \in Held(s) => q = s)'
  BY <1>5, <1>8 DEF PagesInv
<1>13. (\A u \in Thread, q \in Page : \A x \in Taken(u) : x \notin Held(q))'
  BY <1>5, <1>7, <1>8 DEF PagesInv
<1>14. (\A w, u \in Thread : \A x \in Taken(w) : x \in Taken(u) => w = u)'
  BY <1>7 DEF PagesInv
<1>15. PagesInv'
  BY <1>9, <1>10, <1>11, <1>12, <1>13, <1>14 DEF PagesInv
<1>16. QED
  BY <1>3, <1>6, <1>15

LEMMA FreeBigInv ==
  ASSUME MemoryAssumption, MemoryInv, NEW t \in Thread, NEW b \in owner[t], FreeBig(t, b)
  PROVE  MemoryInv'
<1> USE DEF MemoryInv
<1>0. PICK p, cnt : p = b.page /\ cnt = arena[b.page].free_cnt
  OBVIOUS
<1>1. /\ pc[t] = "idle" /\ arena[p].desc = NULL
      /\ owner' = [owner EXCEPT ![t] = @ \ {b}]
      /\ palloc_free_multiple(p, cnt)
      /\ arena' = [arena EXCEPT ![p] = NULL]
      /\ UNCHANGED <<pool_lock, desc_lock, free_list, pc, req, idx>>
  BY <1>0 DEF FreeBig
<1>2. b \in Block /\ p \in Page /\ arena[p] # NULL /\ arena[p] \in Header /\ cnt \in Nat
  <2>1. b \in Block
    BY DEF MemoryTypes
  <2>2. p \in Page
    BY <1>0, <2>1 DEF Block
  <2>3. arena[p] # NULL
    BY <1>0 DEF OwnSound
  <2>4. arena[p] \in Header
    BY <2>2, <2>3 DEF MemoryTypes
  <2>5. QED
    BY <1>0, <2>1, <2>2, <2>3, <2>4 DEF Header
<1>3. /\ arena'[p] = NULL /\ (\A q \in Page \ {p} : arena'[q] = arena[q])
      /\ owner'[t] = owner[t] \ {b} /\ \A u \in Thread \ {t} : owner'[u] = owner[u]
  BY <1>1, <1>2 DEF MemoryTypes
<1>4. Held(p) = p..(p + cnt - 1)
  BY <1>0, <1>1, <1>2 DEF Held
<1>5. IsBitmap(used_map, PAGE_CNT)' /\ PagesInv' /\ Scanned'
  BY <1>1, <1>2, <1>3, <1>4, GiveBack
<1>6. MemoryTypes'
  BY <1>1, <1>2, <1>5 DEF MemoryTypes, Page, Block, Header, BITMAP_ERROR
<1>7. LocksHeld' /\ PopReady'
  BY <1>1 DEF LocksHeld, PopReady, Request
<1>8. ASSUME NEW u \in Thread, NEW c \in owner'[u] PROVE c \in owner[u] /\ c.page \in Page \ {p}
  <2>1. c \in owner[u] /\ c \in Block
    BY <1>3, <1>8 DEF MemoryTypes
  <2>2. SUFFICES ASSUME c.page = p PROVE FALSE
    BY <2>1 DEF Block
  <2>3. c.idx = -1 /\ b.idx = -1
    BY <1>0, <1>1, <2>1, <2>2 DEF OwnSound
  <2>4. c = b
    BY <1>0, <1>2, <2>1, <2>2, <2>3 DEF Block
  <2>5. u = t
    BY <2>1, <2>4 DEF OwnSound
  <2>6. QED
    BY <1>3, <1>8, <2>4, <2>5
<1>9. \A e \in Desc : \A c \in Elems(free_list[e]) : c.page \in Page \ {p}
  <2>1. \A e \in Desc : \A c \in Elems(free_list[e]) : c \in Block
    BY ElemsEmpty DEF MemoryTypes
  <2>2. \A e \in Desc : \A c \in Elems(free_list[e]) : c.page # p
    BY <1>1 DEF FreeSound, MemoryAssumption
  <2>3. QED
    BY <2>1, <2>2 DEF Block
<1>10. FreeSound'
  BY <1>1, <1>3, <1>9 DEF FreeSound, Slots
<1>11. OwnSound'
  <2>1. ASSUME NEW u \in Thread, NEW c \in owner'[u]
        PROVE  /\ arena'[c.page] # NULL
               /\ IF arena'[c.page].desc = NULL THEN c.idx = -1
                  ELSE /\ c \in Slots(arena'[c.page].desc, c.page)
                       /\ c \notin Elems(free_list[arena'[c.page].desc])
    <3>1. c \in owner[u] /\ arena'[c.page] = arena[c.page]
      BY <1>3, <1>8
    <3>2. QED
      BY <3>1 DEF OwnSound
  <2>2. ASSUME NEW u \in Thread, NEW w \in Thread, NEW c \in owner'[u], c \in owner'[w]
        PROVE  u = w
    BY <1>8, <2>2 DEF OwnSound
  <2>3. QED
    BY <1>1, <2>1, <2>2 DEF OwnSound, Slots
<1>12. AllThere'
  <2>1. ASSUME NEW q \in Page, arena'[q] # NULL, arena'[q].desc # NULL
        PROVE  /\ \A c \in Slots(arena'[q].desc, q) :
                    c \in Elems(free_list'[arena'[q].desc]) \/ \E u \in Thread : c \in owner'[u]
               /\ arena'[q].free_cnt =
                    Cardinality({c \in Elems(free_list'[arena'[q].desc]) : c.page = q})
    <3>1. q # p /\ arena'[q] = arena[q]
      BY <1>3, <2>1
    <3>2. \A c \in Slots(arena[q].desc, q) : c # b
      BY <1>0, <3>1 DEF Slots
    <3>3. QED
      BY <1>1, <1>3, <2>1, <3>1, <3>2 DEF AllThere, Free
  <2>2. QED
    BY <2>1 DEF AllThere, Page, Slots, Free
<1>13. QED
  BY <1>5, <1>6, <1>7, <1>10, <1>11, <1>12

LEMMA FreeBlockInv ==
  ASSUME MemoryAssumption, MemoryInv, NEW t \in Thread, NEW b \in owner[t], FreeBlock(t, b)
  PROVE  MemoryInv'
<1> USE DEF MemoryInv
<1>0. PICK p, a, d, n : p = b.page /\ a = arena[p] /\ d = a.desc /\ n = blocks_per_arena[d]
  OBVIOUS
<1> DEFINE full == a.free_cnt + 1 >= n
           list == <<b>> \o free_list[d]
           rest == list_without(list, {c \in Elems(list) : c.page = p})
           h == [a EXCEPT !.free_cnt = @ + 1]
<1>1. /\ pc[t] = "idle" /\ d # NULL /\ desc_lock[d] = NULL
      /\ owner' = [owner EXCEPT ![t] = @ \ {b}]
      /\ free_list' = [free_list EXCEPT ![d] = IF full THEN rest ELSE list]
      /\ arena' = [arena EXCEPT ![p] = IF full THEN NULL ELSE h]
      /\ IF full THEN palloc_free_multiple(p, 1) ELSE UNCHANGED used_map
      /\ UNCHANGED <<pool_lock, desc_lock, pc, req, idx>>
  <2>1. arena[b.page] = a /\ arena[b.page].desc = d /\ blocks_per_arena[arena[b.page].desc] = n
    BY <1>0
  <2>2. /\ pc[t] = "idle" /\ d # NULL /\ desc_lock[d] = NULL
        /\ owner' = [owner EXCEPT ![t] = @ \ {b}]
        /\ UNCHANGED <<pool_lock, desc_lock, pc, req, idx>>
    BY <2>1 DEF FreeBlock
  <2>3. free_list' = [free_list EXCEPT ![d] = IF full THEN rest ELSE list]
    BY <1>0, <2>1 DEF FreeBlock
  <2>4. arena' = [arena EXCEPT ![p] = IF full THEN NULL ELSE h]
    BY <1>0, <2>1 DEF FreeBlock
  <2>5. IF full THEN palloc_free_multiple(p, 1) ELSE UNCHANGED used_map
    BY <1>0, <2>1 DEF FreeBlock
  <2>6. QED
    BY <2>2, <2>3, <2>4, <2>5
<1>2. b \in Block /\ p \in Page /\ a # NULL /\ a \in Header
  <2>1. b \in Block
    BY DEF MemoryTypes
  <2>2. p \in Page
    BY <1>0, <2>1 DEF Block
  <2>3. a # NULL
    BY <1>0 DEF OwnSound
  <2>4. QED
    BY <1>0, <2>1, <2>2, <2>3 DEF MemoryTypes
<1>3. d \in Desc /\ a.free_cnt \in Nat /\ n \in Nat
  BY <1>0, <1>1, <1>2 DEF Header, MemoryAssumption
<1>4. b \in Slots(d, p) /\ b \notin Elems(free_list[d])
  BY <1>0, <1>1, <1>2 DEF OwnSound
<1>5. a.free_cnt = Cardinality(Free(d, p))
  BY <1>0, <1>1, <1>2 DEF AllThere
<1>6. list \in Seq(Block) /\ Distinct(list) /\ Elems(list) = Elems(free_list[d]) \cup {b}
  <2>1. free_list[d] \in Seq(Block) /\ Distinct(free_list[d])
    BY <1>3 DEF MemoryTypes, FreeSound
  <2>2. QED
    BY <1>2, <1>4, <2>1, ElemsCons
<1>7. /\ rest \in Seq(Block) /\ Distinct(rest)
      /\ Elems(rest) = {c \in Elems(free_list[d]) : c.page # p}
  <2> DEFINE gone == {c \in Elems(list) : c.page = p}
  <2> HIDE DEF list
  <2>1. rest \in Seq(Block) /\ Distinct(rest) /\ Elems(rest) = Elems(list) \ gone
    BY <1>6, ElemsWithout
  <2>2. Elems(list) \ gone = {c \in Elems(free_list[d]) : c.page # p}
    BY <1>0, <1>6
  <2>3. QED
    BY <2>1, <2>2
<1>8. Free(d, p) \cup {b} \subseteq Slots(d, p) /\ Cardinality(Free(d, p) \cup {b}) = a.free_cnt + 1
  <2>1. IsFiniteSet(Free(d, p)) /\ Free(d, p) \subseteq Slots(d, p)
    BY <1>2, <1>3, FreeFinite
  <2>2. b \notin Free(d, p)
    BY <1>4 DEF Free
  <2>3. Cardinality(Free(d, p) \cup {b}) = Cardinality(Free(d, p)) + 1
    BY <2>1, <2>2, FS_AddElement
  <2>4. QED
    BY <1>4, <1>5, <2>1, <2>3
<1>9. h \in Header /\ h # NULL /\ h.desc = d /\ h.free_cnt = a.free_cnt + 1
  BY <1>0, <1>2, <1>3 DEF Header, MemoryAssumption
<1> HIDE DEF list, rest, h
<1>10. /\ owner'[t] = owner[t] \ {b} /\ (\A u \in Thread \ {t} : owner'[u] = owner[u])
       /\ arena'[p] = (IF full THEN NULL ELSE h) /\ (\A q \in Page \ {p} : arena'[q] = arena[q])
       /\ free_list'[d] = (IF full THEN rest ELSE list)
       /\ \A e \in Desc \ {d} : free_list'[e] = free_list[e]
  BY <1>1, <1>2, <1>3 DEF MemoryTypes
<1>11. \A u \in Thread : \A c \in owner'[u] : c \in owner[u] /\ c # b
  BY <1>10 DEF OwnSound
<1>12. (IsBitmap(used_map, PAGE_CNT) /\ PagesInv /\ Scanned)'
  <2>1. Held(p) = {p}
    BY <1>0, <1>1, <1>2 DEF Held
  <2>2. CASE full
    <3>1. Held(p) = p..(p + 1 - 1) /\ 1 \in Nat
      BY <1>2, <2>1 DEF Page
    <3>2. arena[p] # NULL /\ arena'[p] = NULL /\ palloc_free_multiple(p, 1)
      BY <1>0, <1>1, <1>2, <1>10, <2>2
    <3>3. QED
      BY <1>1, <1>2, <1>10, <3>1, <3>2, GiveBack
  <2>3. CASE ~ full
    <3>1. \A u \in Thread : Taken(u)' = Taken(u)
      BY <1>1 DEF Taken, PagesOf, BITMAP_ERROR
    <3>2. \A q \in Page : Held(q)' = Held(q) /\ (arena'[q] # NULL => arena[q] # NULL)
      BY <1>0, <1>1, <1>2, <1>9, <1>10, <2>3 DEF Held
    <3>3. UNCHANGED used_map
      BY <1>1, <2>3
    <3>4. PagesInv'
      BY <3>1, <3>2, <3>3, KeepPages
    <3>5. Scanned'
      BY <1>1, <3>3 DEF Scanned, Group, PagesOf, bitmap_test, elem_idx, bit_mask, Page
    <3>6. IsBitmap(used_map, PAGE_CNT)'
      BY <3>3 DEF MemoryTypes, IsBitmap, elem_cnt, Bit
    <3>7. QED
      BY <3>4, <3>5, <3>6
  <2>4. QED
    BY <2>2, <2>3
<1>13. MemoryTypes'
  <2>1. free_list' \in [Desc -> Seq(Block)]
    <3>1. (IF full THEN rest ELSE list) \in Seq(Block)
      BY <1>6, <1>7
    <3>2. QED
      BY <1>1, <3>1 DEF MemoryTypes
  <2>2. arena' \in [Page -> Header \cup {NULL}]
    BY <1>1, <1>9 DEF MemoryTypes
  <2>3. owner' \in [Thread -> SUBSET Block]
    BY <1>1 DEF MemoryTypes
  <2>4. QED
    BY <1>1, <1>12, <2>1, <2>2, <2>3 DEF MemoryTypes, Page, Block, Header, BITMAP_ERROR
<1>14. LocksHeld'
  BY <1>1 DEF LocksHeld, Request
<1>15. PopReady'
  <2>1. SUFFICES ASSUME NEW u \in Thread, pc[u] = "pop" PROVE free_list'[req[u].desc] # <<>>
    BY <1>1 DEF PopReady
  <2>2. req[u].desc \in Desc /\ desc_lock[req[u].desc] = u
    BY <2>1, RequestPages DEF LocksHeld
  <2>3. req[u].desc # d
    BY <1>1, <2>2 DEF MemoryAssumption
  <2>4. QED
    BY <1>10, <2>1, <2>2, <2>3 DEF PopReady
<1>16. \A e \in Desc : \A c \in Elems(free_list[e]) : c.page \in Page
  <2>1. \A e \in Desc : \A c \in Elems(free_list[e]) : c \in Block
    BY ElemsEmpty DEF MemoryTypes
  <2>2. QED
    BY <2>1 DEF Block
<1>17. \A u \in Thread : \A c \in owner[u] : c.page \in Page
  <2>1. \A u \in Thread : \A c \in owner[u] : c \in Block
    BY DEF MemoryTypes
  <2>2. QED
    BY <2>1 DEF Block
<1>18. \A e \in Desc \ {d} : \A c \in Elems(free_list[e]) : c.page # p
  BY <1>0 DEF FreeSound
<1>19. CASE ~ full
  <2>1. /\ arena'[p] = h /\ free_list'[d] = list
        /\ Elems(free_list'[d]) = Elems(free_list[d]) \cup {b}
    BY <1>6, <1>10, <1>19
  <2>2. \A q \in Page : /\ arena'[q] # NULL <=> arena[q] # NULL
                        /\ arena[q] # NULL => arena'[q].desc = arena[q].desc
    BY <1>0, <1>2, <1>9, <1>10, <2>1
  <2>3. FreeSound'
    <3>1. ASSUME NEW e \in Desc
          PROVE  /\ Distinct(free_list'[e])
                 /\ \A c \in Elems(free_list'[e]) : /\ arena'[c.page] # NULL
                                                    /\ arena'[c.page].desc = e
                                                    /\ c \in Slots(e, c.page)
      <4>1. Distinct(free_list'[e])
        BY <1>6, <1>10, <2>1 DEF FreeSound
      <4>2. ASSUME NEW c \in Elems(free_list'[e])
            PROVE  arena'[c.page] # NULL /\ arena'[c.page].desc = e /\ c \in Slots(e, c.page)
        <5>1. CASE c \in Elems(free_list[e])
          BY <1>16, <2>2, <5>1 DEF FreeSound
        <5>2. CASE e = d /\ c = b
          BY <1>0, <1>4, <1>9, <2>1, <5>2
        <5>3. QED
          BY <1>10, <2>1, <4>2, <5>1, <5>2
      <4>3. QED
        BY <4>1, <4>2
    <3>2. QED
      BY <3>1 DEF FreeSound, Slots
  <2>4. OwnSound'
    <3>1. ASSUME NEW u \in Thread, NEW c \in owner'[u]
          PROVE  /\ arena'[c.page] # NULL
                 /\ IF arena'[c.page].desc = NULL THEN c.idx = -1
                    ELSE /\ c \in Slots(arena'[c.page].desc, c.page)
                         /\ c \notin Elems(free_list'[arena'[c.page].desc])
      <4>1. c \in owner[u] /\ c # b /\ c.page \in Page
        BY <1>11, <1>17
      <4>2. arena[c.page] # NULL => arena[c.page].desc \in Desc \cup {NULL}
        BY <4>1 DEF MemoryTypes, Header
      <4>3. \A e \in Desc : c \in Elems(free_list'[e]) => c \in Elems(free_list[e])
        BY <1>10, <2>1, <4>1
      <4>4. QED
        BY <2>2, <4>1, <4>2, <4>3 DEF OwnSound
    <3>2. ASSUME NEW u \in Thread, NEW w \in Thread, NEW c \in owner'[u], c \in owner'[w]
          PROVE  u = w
      BY <1>11, <3>2 DEF OwnSound
    <3>3. QED
      BY <3>1, <3>2 DEF OwnSound, Slots
  <2>5. AllThere'
    <3>1. ASSUME NEW q \in Page, arena'[q] # NULL, arena'[q].desc # NULL
          PROVE  /\ \A c \in Slots(arena'[q].desc, q) :
                      c \in Elems(free_list'[arena'[q].desc]) \/ \E u \in Thread : c \in owner'[u]
                 /\ arena'[q].free_cnt =
                      Cardinality({c \in Elems(free_list'[arena'[q].desc]) : c.page = q})
      <4>1. arena[q] # NULL /\ arena'[q].desc = arena[q].desc /\ arena[q].desc \in Desc
        BY <2>2, <3>1 DEF MemoryTypes, Header
      <4>2. ASSUME NEW c \in Slots(arena'[q].desc, q)
            PROVE  c \in Elems(free_list'[arena'[q].desc]) \/ \E u \in Thread : c \in owner'[u]
        <5>1. CASE c = b
          <6>1. c.page = q
            BY DEF Slots
          <6>2. QED
            BY <1>0, <2>1, <4>1, <5>1, <6>1
        <5>2. CASE c # b /\ c \in Elems(free_list[arena[q].desc])
          BY <1>10, <2>1, <4>1, <5>2
        <5>3. CASE c # b /\ \E u \in Thread : c \in owner[u]
          BY <1>10, <5>3
        <5>4. QED
          BY <3>1, <4>1, <5>1, <5>2, <5>3 DEF AllThere
      <4>3. CASE q = p
        <5>1. {c \in Elems(free_list'[d]) : c.page = p} = Free(d, p) \cup {b}
          BY <1>0, <2>1 DEF Free
        <5>2. QED
          BY <1>0, <1>8, <1>9, <2>1, <4>1, <4>2, <4>3, <5>1
      <4>4. CASE q # p
        <5>1. {c \in Elems(free_list'[arena'[q].desc]) : c.page = q} = Free(arena[q].desc, q)
          BY <1>0, <1>10, <2>1, <4>1, <4>4 DEF Free
        <5>2. QED
          BY <1>10, <3>1, <4>1, <4>2, <4>4, <5>1 DEF AllThere
      <4>5. QED
        BY <4>3, <4>4
    <3>2. QED
      BY <3>1 DEF AllThere, Page, Slots, Free
  <2>6. QED
    BY <1>12, <1>13, <1>14, <1>15, <2>3, <2>4, <2>5
<1>20. CASE full
  <2>1. /\ arena'[p] = NULL /\ free_list'[d] = rest
        /\ Elems(free_list'[d]) = {c \in Elems(free_list[d]) : c.page # p}
    BY <1>7, <1>10, <1>20
  <2>2. Free(d, p) \cup {b} = Slots(d, p)
    <3>1. IsFiniteSet(Slots(d, p)) /\ Cardinality(Slots(d, p)) = n
      BY <1>0, <1>2, <1>3, SlotsCount
    <3>2. /\ Cardinality(Free(d, p) \cup {b}) <= Cardinality(Slots(d, p))
          /\ (Cardinality(Free(d, p) \cup {b}) = Cardinality(Slots(d, p)) =>
                Free(d, p) \cup {b} = Slots(d, p))
      BY <1>8, <3>1, FS_Subset
    <3>3. QED
      BY <1>3, <1>8, <1>20, <3>1, <3>2
  <2>3. \A u \in Thread : \A c \in owner'[u] : c.page \in Page \ {p}
    <3>1. SUFFICES ASSUME NEW u \in Thread, NEW c \in owner'[u], c.page = p PROVE FALSE
      BY <1>11, <1>17
    <3>2. c \in owner[u] /\ c # b
      BY <1>11
    <3>3. c \in Slots(d, p) /\ c \notin Elems(free_list[d])
      BY <1>0, <1>1, <3>1, <3>2 DEF OwnSound
    <3>4. QED
      BY <2>2, <3>2, <3>3 DEF Free
  <2>4. \A e \in Desc : \A c \in Elems(free_list'[e]) :
           c \in Elems(free_list[e]) /\ c.page \in Page \ {p}
    BY <1>10, <1>16, <1>18, <2>1
  <2>5. \A e \in Desc : \A c \in Elems(free_list[e]) : c.page # p => c \in Elems(free_list'[e])
    BY <1>10, <2>1
  <2>6. FreeSound'
    <3>1. \A e \in Desc : Distinct(free_list'[e])
      BY <1>7, <1>10, <2>1 DEF FreeSound
    <3>2. \A e \in Desc : \A c \in Elems(free_list'[e]) :
            arena'[c.page] # NULL /\ arena'[c.page].desc = e /\ c \in Slots(e, c.page)
      BY <1>10, <2>4 DEF FreeSound
    <3>3. QED
      BY <3>1, <3>2 DEF FreeSound, Slots
  <2>7. OwnSound'
    <3>1. ASSUME NEW u \in Thread, NEW c \in owner'[u]
          PROVE  /\ arena'[c.page] # NULL
                 /\ IF arena'[c.page].desc = NULL THEN c.idx = -1
                    ELSE /\ c \in Slots(arena'[c.page].desc, c.page)
                         /\ c \notin Elems(free_list'[arena'[c.page].desc])
      <4>1. c \in owner[u] /\ c.page \in Page /\ arena'[c.page] = arena[c.page]
        BY <1>10, <1>11, <2>3
      <4>2. arena[c.page] # NULL => arena[c.page].desc \in Desc \cup {NULL}
        BY <4>1 DEF MemoryTypes, Header
      <4>3. QED
        BY <2>4, <4>1, <4>2 DEF OwnSound
    <3>2. ASSUME NEW u \in Thread, NEW w \in Thread, NEW c \in owner'[u], c \in owner'[w]
          PROVE  u = w
      BY <1>11, <3>2 DEF OwnSound
    <3>3. QED
      BY <3>1, <3>2 DEF OwnSound, Slots
  <2>8. AllThere'
    <3>1. ASSUME NEW q \in Page, arena'[q] # NULL, arena'[q].desc # NULL
          PROVE  /\ \A c \in Slots(arena'[q].desc, q) :
                      c \in Elems(free_list'[arena'[q].desc]) \/ \E u \in Thread : c \in owner'[u]
                 /\ arena'[q].free_cnt =
                      Cardinality({c \in Elems(free_list'[arena'[q].desc]) : c.page = q})
      <4>1. q # p /\ arena'[q] = arena[q]
        BY <1>10, <2>1, <3>1
      <4>2. arena[q].desc \in Desc
        BY <3>1, <4>1 DEF MemoryTypes, Header
      <4>3. {c \in Elems(free_list'[arena'[q].desc]) : c.page = q} = Free(arena[q].desc, q)
        BY <2>4, <2>5, <4>1, <4>2 DEF Free
      <4>4. \A c \in Slots(arena[q].desc, q) : c.page = q /\ c # b
        BY <1>0, <4>1 DEF Slots
      <4>5. \A c \in Slots(arena[q].desc, q) :
              c \in Elems(free_list'[arena[q].desc]) \/ \E u \in Thread : c \in owner'[u]
        BY <1>10, <2>5, <3>1, <4>1, <4>2, <4>4 DEF AllThere
      <4>6. QED
        BY <3>1, <4>1, <4>3, <4>5 DEF AllThere
    <3>2. QED
      BY <3>1 DEF AllThere, Page, Slots, Free
  <2>9. QED
    BY <1>12, <1>13, <1>14, <1>15, <2>6, <2>7, <2>8
<1>21. QED
  BY <1>19, <1>20

LEMMA MemoryInitInv ==
  ASSUME MemoryAssumption, Init
  PROVE  MemoryInv
<1>1. PICK g \in SUBSET Bit :
        used_map = bitmap_create(PAGE_CNT, [e \in 0..(elem_cnt(PAGE_CNT) - 1) |-> g])
  BY DEF Init
<1> DEFINE m == [bit_cnt |-> PAGE_CNT, bits |-> [e \in 0..(elem_cnt(PAGE_CNT) - 1) |-> g]]
<1>2. IsBitmap(m, PAGE_CNT)
  BY DEF IsBitmap
<1>3. used_map = bitmap_set_multiple(m, 0, PAGE_CNT, FALSE)
  BY <1>1 DEF bitmap_create
<1> HIDE DEF m
<1>4. IsBitmap(used_map, PAGE_CNT) /\ \A q \in Page : ~ bitmap_test(used_map, q)
  <2>1. /\ PAGE_CNT \in Nat /\ ELEM_BITS \in Nat \ {0} /\ 0 \in Nat /\ FALSE \in BOOLEAN
        /\ 0 + PAGE_CNT <= PAGE_CNT
    BY DEF MemoryAssumption
  <2>2. /\ IsBitmap(used_map, PAGE_CNT)
        /\ \A j \in 0..(PAGE_CNT - 1) : bitmap_test(used_map, j) <=>
             IF j \in 0..(0 + PAGE_CNT - 1) THEN FALSE ELSE bitmap_test(m, j)
    BY <1>2, <1>3, <2>1, SetMany
  <2>3. \A q \in Page : q \in 0..(PAGE_CNT - 1) /\ q \in 0..(0 + PAGE_CNT - 1)
    BY <2>1 DEF Page
  <2>4. QED
    BY <2>2, <2>3
<1>5. /\ pool_lock = NULL
      /\ desc_lock = [d \in Desc |-> NULL]
      /\ arena = [p \in Page |-> NULL]
      /\ free_list = [d \in Desc |-> <<>>]
      /\ pc = [t \in Thread |-> "idle"]
      /\ req = [t \in Thread |-> NULL]
      /\ idx = [t \in Thread |-> BITMAP_ERROR]
      /\ owner = [t \in Thread |-> {}]
  BY DEF Init
<1>6. MemoryTypes
  <2>1. free_list \in [Desc -> Seq(Block)]
    <3>1. <<>> \in Seq(Block)
      OBVIOUS
    <3>2. QED
      BY <1>5, <3>1
  <2>2. QED
    BY <1>4, <1>5, <2>1 DEF MemoryTypes
<1>7. LocksHeld /\ Scanned /\ PopReady
  BY <1>5 DEF LocksHeld, Scanned, PopReady
<1>8. PagesInv
  BY <1>4, <1>5 DEF PagesInv, Held, Taken
<1>9. FreeSound /\ OwnSound /\ AllThere
  <2>1. \A d \in Desc : Elems(free_list[d]) = {} /\ Distinct(free_list[d])
    BY <1>5 DEF Elems, Distinct
  <2>2. QED
    BY <1>5, <2>1 DEF FreeSound, OwnSound, AllThere
<1>10. QED
  BY <1>6, <1>7, <1>8, <1>9 DEF MemoryInv

LEMMA MemoryNextInv ==
  ASSUME MemoryAssumption, MemoryInv, [Next]_vars
  PROVE  MemoryInv'
<1>1. CASE UNCHANGED vars
  <2> USE <1>1 DEF vars, MemoryInv
  <2>1. MemoryTypes'
    BY DEF MemoryTypes, Page, IsBitmap, elem_cnt, Bit, Block, Header, BITMAP_ERROR
  <2>2. LocksHeld' /\ PopReady'
    BY DEF LocksHeld, PopReady, Request
  <2>3. Scanned'
    BY DEF Scanned, Group, PagesOf, bitmap_test, elem_idx, bit_mask, Page
  <2>4. \A u \in Thread : Taken(u)' = Taken(u)
    BY DEF Taken, PagesOf, BITMAP_ERROR
  <2>5. PagesInv'
    BY <2>4, SameHeld, KeepPages
  <2>6. QED
    BY <2>1, <2>2, <2>3, <2>5, KeepBlocks
<1>2. ASSUME NEW t \in Thread, Malloc(t) PROVE MemoryInv'
  BY <1>2, MallocInv
<1>3. ASSUME NEW t \in Thread, PoolScan(t) PROVE MemoryInv'
  BY <1>3, PoolScanInv
<1>4. ASSUME NEW t \in Thread, PoolFlip(t) PROVE MemoryInv'
  BY <1>4, PoolFlipInv
<1>5. ASSUME NEW t \in Thread, MallocLock(t) PROVE MemoryInv'
  BY <1>5, MallocLockInv
<1>6. ASSUME NEW t \in Thread, MallocFails(t) PROVE MemoryInv'
  BY <1>6, MallocFailsInv
<1>7. ASSUME NEW t \in Thread, MallocBig(t) PROVE MemoryInv'
  BY <1>7, MallocBigInv
<1>8. ASSUME NEW t \in Thread, MallocArena(t) PROVE MemoryInv'
  BY <1>8, MallocArenaInv
<1>9. ASSUME NEW t \in Thread, MallocPop(t) PROVE MemoryInv'
  BY <1>9, MallocPopInv
<1>10. ASSUME NEW t \in Thread, NEW b \in owner[t], FreeBig(t, b) PROVE MemoryInv'
  BY <1>10, FreeBigInv
<1>11. ASSUME NEW t \in Thread, NEW b \in owner[t], FreeBlock(t, b) PROVE MemoryInv'
  BY <1>11, FreeBlockInv
<1>12. QED
  BY <1>1, <1>2, <1>3, <1>4, <1>5, <1>6, <1>7, <1>8, <1>9, <1>10, <1>11 DEF Next

\* What the invariant says of the pages and of the blocks.
LEMMA PagesApart ==
  ASSUME MemoryInv
  PROVE  PagesExclusive
<1>1. PagesInv
  BY DEF MemoryInv
<1>2. {p \in Page : bitmap_test(used_map, p)} =
        (UNION {Held(p) : p \in Page}) \cup (UNION {Taken(t) : t \in Thread})
  BY <1>1 DEF PagesInv
<1>3. \A p, q \in Page : p # q => Held(p) \cap Held(q) = {}
  BY <1>1 DEF PagesInv
<1>4. \A t \in Thread : /\ \A p \in Page : Taken(t) \cap Held(p) = {}
                        /\ \A u \in Thread \ {t} : Taken(t) \cap Taken(u) = {}
  BY <1>1 DEF PagesInv
<1>5. QED
  BY <1>2, <1>3, <1>4 DEF PagesExclusive

LEMMA BlocksCounted ==
  ASSUME MemoryAssumption, MemoryInv
  PROVE  BlocksAccounted
<1> USE DEF MemoryInv
<1>1. ASSUME NEW p \in Page, arena[p] # NULL, arena[p].desc # NULL
      PROVE  LET d    == arena[p].desc
                 free == {i \in DOMAIN free_list[d] : free_list[d][i].page = p}
                 ours == {b \in UNION {owner[t] : t \in Thread} : b.page = p}
             IN /\ arena[p].free_cnt = Cardinality(free)
                /\ Cardinality({free_list[d][i] : i \in free}) = Cardinality(free)
                /\ Cardinality(free) + Cardinality(ours) = blocks_per_arena[d]
                /\ \A i \in free : free_list[d][i] \notin ours
                /\ \A t, u \in Thread : t # u => owner[t] \cap owner[u] = {}
  <2> DEFINE d == arena[p].desc
             q == free_list[d]
             free == {i \in DOMAIN q : q[i].page = p}
             there == {q[i] : i \in free}
             ours == {b \in UNION {owner[t] : t \in Thread} : b.page = p}
  <2>1. d \in Desc
    BY <1>1 DEF MemoryTypes, Header
  <2>2. q \in Seq(Block) /\ Distinct(q)
    BY <2>1 DEF MemoryTypes, FreeSound
  <2>3. there = Free(d, p)
    <3>1. DOMAIN q = 1..Len(q)
      BY <2>2
    <3>2. QED
      BY <3>1 DEF Free, Elems
  <2>4. IsFiniteSet(there) /\ Cardinality(there) \in Nat /\ there \subseteq Slots(d, p)
    BY <2>1, <2>3, FreeFinite
  <2>5. IsFiniteSet(free) /\ Cardinality(free) = Cardinality(there)
    <3>1. free \in SUBSET (1..Len(q)) /\ Len(q) \in Nat
      BY <2>2
    <3>2. IsFiniteSet(free)
      BY <3>1, PositionsFinite
    <3> DEFINE f == [i \in free |-> q[i]]
    <3>3. f \in Bijection(free, there)
      <4>1. \A i, j \in free : q[i] = q[j] => i = j
        BY <2>2, <3>1 DEF Distinct
      <4>2. f \in [free -> there] /\ (\A i \in free : f[i] = q[i])
        OBVIOUS
      <4>3. \A x \in there : \E i \in free : f[i] = x
        OBVIOUS
      <4> HIDE DEF f, free, there
      <4>4. QED
        BY <4>1, <4>2, <4>3 DEF Bijection, Injection, Surjection, IsInjective
    <3>4. ExistsBijection(free, there)
      BY <3>3 DEF ExistsBijection
    <3> HIDE DEF free, there
    <3>5. QED
      BY <3>2, <3>4, FS_Bijection
  <2>6. arena[p].free_cnt = Cardinality(there)
    BY <1>1, <2>3 DEF AllThere
  <2>7. ours = Slots(d, p) \ there
    <3>1. ASSUME NEW b \in ours PROVE b \in Slots(d, p) /\ b \notin there
      <4>1. PICK t \in Thread : b \in owner[t]
        OBVIOUS
      <4>2. b \in Slots(d, p) /\ b \notin Elems(q)
        BY <1>1, <4>1 DEF OwnSound
      <4>3. QED
        BY <2>3, <4>2 DEF Free
    <3>2. ASSUME NEW b \in Slots(d, p), b \notin there PROVE b \in ours
      <4>1. b.page = p
        BY DEF Slots
      <4>2. b \notin Elems(q)
        BY <2>3, <3>2, <4>1 DEF Free
      <4>3. PICK t \in Thread : b \in owner[t]
        BY <1>1, <4>2 DEF AllThere
      <4>4. QED
        BY <4>1, <4>3
    <3> HIDE DEF ours, there
    <3>3. QED
      BY <3>1, <3>2
  <2>8. Cardinality(ours) = blocks_per_arena[d] - Cardinality(there) /\ blocks_per_arena[d] \in Nat
    <3>1. /\ IsFiniteSet(Slots(d, p)) /\ Cardinality(Slots(d, p)) = blocks_per_arena[d]
          /\ blocks_per_arena[d] \in Nat
      BY <2>1, SlotsCount
    <3> HIDE DEF ours, there
    <3>2. Slots(d, p) \cap there = there
      BY <2>4
    <3>3. Cardinality(Slots(d, p) \ there) =
            Cardinality(Slots(d, p)) - Cardinality(Slots(d, p) \cap there)
      BY <2>4, <3>1, FS_Difference
    <3>4. QED
      BY <2>7, <3>1, <3>2, <3>3
  <2>9. \A i \in free : q[i] \notin ours
    <3>1. \A i \in free : q[i] \in there
      OBVIOUS
    <3>2. QED
      BY <2>7, <3>1
  <2>10. \A t, u \in Thread : t # u => owner[t] \cap owner[u] = {}
    BY DEF OwnSound
  <2>11. Cardinality(free) + Cardinality(ours) = blocks_per_arena[d]
    <3> HIDE DEF ours, there, free
    <3>1. QED
      BY <2>4, <2>5, <2>8
  <2>12. QED
    BY <2>5, <2>6, <2>9, <2>10, <2>11
<1>2. QED
  BY <1>1 DEF BlocksAccounted

\* palloc.c and malloc.c, with any number of threads, pages and block sizes: the
\* bitmap marks exactly the pages in use although palloc_free_multiple() clears
\* bits without the pool's lock, no page has two owners, and every block of an
\* arena is on the free list once or with one owner, as free_cnt says.
THEOREM MemoryIsSound ==
  ASSUME MemoryAssumption
  PROVE  Spec => []MemorySound
<1>1. Init => MemoryInv
  BY MemoryInitInv
<1>2. MemoryInv /\ [Next]_vars => MemoryInv'
  BY MemoryNextInv
<1>3. MemoryInv => MemorySound
  BY PagesApart, BlocksCounted DEF MemorySound
<1>4. QED
  BY <1>1, <1>2, <1>3, PTL DEF Spec

-----------------------------------------------------------------------------
(***************************************************************************)
(* Loading an executable.                                                  *)
(***************************************************************************)

Phdr == [type : {"PT_NULL", "PT_INTERP", "PT_LOAD"}, offset : 0 .. 2 ^ W - 1,
         vaddr : 0 .. 2 ^ W - 1, filesz : 0 .. 2 ^ W - 1, memsz : 0 .. 2 ^ W - 1]

\* The constants: user memory is at least two whole pages, and a page fits
\* between it and the end of the address space.  Program headers are any words.
LoaderAssumption ==
  /\ 2 ^ W \in Nat /\ PGSIZE \in Nat \ {0}
  /\ PHYS_BASE \in Nat /\ PHYS_BASE % PGSIZE = 0
  /\ 2 * PGSIZE <= PHYS_BASE /\ PHYS_BASE + PGSIZE <= 2 ^ W
  /\ FLEN \in Nat /\ USER_PAGES \in Nat /\ KERNEL_PAGES \in Nat
  /\ Image \subseteq Seq(Phdr)

\* The address of page p.
Pages(p) == p * PGSIZE

LEMMA PageSplit ==
    ASSUME LoaderAssumption, NEW a \in Nat
    PROVE  PageOf(a) \in Nat /\ Ofs(a) \in 0 .. PGSIZE - 1 /\ a = Pages(PageOf(a)) + Ofs(a)
  BY DEF LoaderAssumption, PageOf, Ofs, Pages

LEMMA PagesAdd ==
    ASSUME LoaderAssumption, NEW p \in Nat, NEW q \in Nat
    PROVE  Pages(p) \in Nat /\ Pages(p + q) = Pages(p) + Pages(q)
  BY DEF LoaderAssumption, Pages

LEMMA PagesNext ==
    ASSUME LoaderAssumption, NEW p \in Nat
    PROVE  Pages(p + 1) = Pages(p) + PGSIZE /\ Pages(0) = 0 /\ Pages(1) = PGSIZE
  BY DEF LoaderAssumption, Pages

LEMMA PagesMono ==
    ASSUME LoaderAssumption, NEW p \in Nat, NEW q \in Nat, p < q
    PROVE  Pages(p) + PGSIZE <= Pages(q)
<1>1. q - p - 1 \in Nat /\ q = p + 1 + (q - p - 1)
  OBVIOUS
<1>2. Pages(q) = Pages(p + 1) + Pages(q - p - 1)
  BY <1>1, PagesAdd
<1>3. Pages(p + 1) = Pages(p) + PGSIZE /\ Pages(p) \in Nat /\ PGSIZE \in Nat
  BY PagesNext, PagesAdd DEF LoaderAssumption
<1>4. Pages(q - p - 1) \in Nat
  BY <1>1, PagesAdd
<1>5. QED
  BY <1>2, <1>3, <1>4

LEMMA PagesWhole ==
    ASSUME LoaderAssumption, NEW p \in Nat
    PROVE  Pages(p) % PGSIZE = 0 /\ PageOf(Pages(p)) = p
  BY DEF LoaderAssumption, Pages, PageOf

\* The pages and the bytes of the file a program header asks for.
Start(h) == PageOf(h.vaddr)
Count(h) == PageOf(Ofs(h.vaddr) + h.memsz + PGSIZE - 1)
Bytes(h) == IF h.filesz > 0 THEN Ofs(h.vaddr) + h.filesz ELSE 0

\* What is left to read at the header's n-th page, and where in the file.
Rest(h, n) == IF Pages(n) < Bytes(h) THEN Bytes(h) - Pages(n) ELSE 0
From(h, n) == h.offset - Ofs(h.vaddr) + (IF Pages(n) < Bytes(h) THEN Pages(n) ELSE Bytes(h))

\* What its n-th page holds once it is loaded.
PageHas(h, n) ==
  [ofs |-> From(h, n), read |-> IF Rest(h, n) < PGSIZE THEN Rest(h, n) ELSE PGSIZE]

\* A word that does not wrap around is itself.
LEMMA Wraps ==
    ASSUME LoaderAssumption, NEW x \in Nat
    PROVE  /\ U(x) \in Nat /\ (x < 2 ^ W => U(x) = x)
           /\ x >= 2 ^ W /\ x < 2 ^ W + 2 ^ W => U(x) = x - 2 ^ W
<1>1. \A s, y \in Nat : s > 0 => /\ y % s \in Nat /\ (y < s => y % s = y)
                                 /\ y >= s /\ y < s + s => y % s = y - s
  OBVIOUS
<1>2. 2 ^ W \in Nat /\ 2 ^ W > 0
  BY DEF LoaderAssumption
<1>3. QED
  BY <1>1, <1>2 DEF U

\* ROUND_UP() of what fits: the pages that cover it, and no more.
LEMMA RoundsUp ==
    ASSUME LoaderAssumption, NEW x \in Nat, x < PHYS_BASE
    PROVE  /\ PageOf(x + PGSIZE - 1) \in Nat
           /\ ROUND_UP(x) = Pages(PageOf(x + PGSIZE - 1))
           /\ x <= Pages(PageOf(x + PGSIZE - 1))
           /\ Pages(PageOf(x + PGSIZE - 1)) < x + PGSIZE
<1> DEFINE y == x + PGSIZE - 1
           n == PageOf(y)
<1>1. /\ y \in Nat /\ y < 2 ^ W /\ PGSIZE \in Nat /\ 2 ^ W \in Nat
  BY DEF LoaderAssumption
<1>2. n \in Nat /\ Pages(n) \in Nat /\ y = Pages(n) + Ofs(y) /\ Ofs(y) \in 0 .. PGSIZE - 1
  BY <1>1, PageSplit, PagesAdd
<1>3. U(y) = y
  BY <1>1, Wraps
<1>4. ROUND_UP(x) = U(Pages(n))
  BY <1>3 DEF ROUND_UP, Pages, PageOf
<1> HIDE DEF n
<1>5. Pages(n) <= y
  BY <1>1, <1>2
<1>6. U(Pages(n)) = Pages(n)
  <2>1. Pages(n) < 2 ^ W
    BY <1>1, <1>2, <1>5
  <2>2. QED
    BY <1>2, <2>1, Wraps
<1>7. x <= Pages(n) /\ Pages(n) < x + PGSIZE
  BY <1>1, <1>2, <1>5
<1>8. QED
  BY <1>2, <1>4, <1>6, <1>7 DEF n

\* A header validate_segment() lets pass does not wrap around, and its pages
\* are user pages other than page 0.
LEMMA ValidSegment ==
    ASSUME LoaderAssumption, NEW h \in Phdr, validate_segment(h)
    PROVE  /\ Start(h) \in Nat /\ Start(h) > 0 /\ Count(h) \in Nat
           /\ Start(h) + Count(h) <= PageOf(PHYS_BASE)
           /\ Bytes(h) \in Nat /\ Bytes(h) <= Pages(Count(h)) /\ Pages(Count(h)) < 2 ^ W
           /\ Ofs(h.vaddr) \in Nat /\ Ofs(h.vaddr) <= h.offset
           /\ Ofs(h.vaddr) + h.memsz <= Pages(Count(h))
           /\ Segment(h) = [upage |-> Start(h), ofs |-> h.offset - Ofs(h.vaddr),
                            read |-> Bytes(h), zero |-> Pages(Count(h)) - Bytes(h)]
<1> DEFINE v == h.vaddr
           m == h.memsz
           f == h.filesz
           o == Ofs(v)
           s == Start(h)
           n == Count(h)
           b == PageOf(PHYS_BASE)
           M == 2 ^ W
<1>1. /\ v \in Nat /\ v < M /\ m \in Nat /\ m < M /\ f \in Nat /\ f < M
      /\ h.offset \in Nat /\ M \in Nat /\ PGSIZE \in Nat /\ PGSIZE > 0 /\ PHYS_BASE \in Nat
      /\ PHYS_BASE + PGSIZE <= M
  BY DEF Phdr, LoaderAssumption
<1>2. /\ Ofs(h.offset) = o /\ m >= f /\ m # 0 /\ v < PHYS_BASE /\ U(v + m) < PHYS_BASE
      /\ U(v + m) >= v /\ v >= PGSIZE
  <2>1. /\ Ofs(h.offset) = o /\ m >= f /\ m # 0 /\ v < PHYS_BASE /\ U(v + m) < PHYS_BASE
        /\ ~ (U(v + m) < v) /\ ~ (v < PGSIZE)
    BY DEF validate_segment, is_user_vaddr
  <2>2. U(v + m) \in Nat
    BY <1>1, Wraps
  <2>3. QED
    BY <1>1, <2>1, <2>2
<1>3. s \in Nat /\ o \in 0 .. PGSIZE - 1 /\ v = Pages(s) + o /\ Pages(s) \in Nat
  BY <1>1, PageSplit, PagesAdd DEF Start
<1>4. b \in Nat /\ PHYS_BASE = Pages(b)
  <2>1. Ofs(PHYS_BASE) = 0
    BY DEF LoaderAssumption, Ofs
  <2>2. b \in Nat /\ Pages(b) \in Nat /\ PHYS_BASE = Pages(b) + Ofs(PHYS_BASE)
    BY <1>1, PageSplit, PagesAdd
  <2>3. QED
    BY <2>1, <2>2
<1>5. h.offset - Ofs(h.offset) = h.offset - o /\ o <= h.offset
  <2>1. /\ PageOf(h.offset) \in Nat /\ Pages(PageOf(h.offset)) \in Nat
        /\ h.offset = Pages(PageOf(h.offset)) + Ofs(h.offset)
    BY <1>1, PageSplit, PagesAdd
  <2>2. QED
    BY <1>1, <1>2, <1>3, <2>1
<1> HIDE DEF v, m, f, o, s, b, M
<1>6. v + m < PHYS_BASE
  <2>1. v + m < M
    <3>1. SUFFICES ASSUME v + m >= M PROVE FALSE
      BY <1>1
    <3>2. v + m \in Nat /\ v + m < M + M
      BY <1>1
    <3>3. U(v + m) = v + m - M
      <4>1. PICK x \in Nat : x = v + m
        BY <3>2
      <4>2. x >= M /\ x < M + M
        BY <3>1, <3>2, <4>1
      <4>3. U(x) = x - M
        BY <4>2, Wraps DEF M
      <4>4. QED
        BY <1>1, <4>1, <4>3
    <3>4. QED
      BY <1>1, <1>2, <3>3
  <2>2. U(v + m) = v + m
    BY <1>1, <2>1, Wraps DEF M
  <2>3. QED
    BY <1>2, <2>2
<1>7. o + m \in Nat /\ o + m < PHYS_BASE
  BY <1>1, <1>3, <1>6
<1>8. /\ n \in Nat /\ ROUND_UP(o + m) = Pages(n) /\ o + m <= Pages(n) /\ Pages(n) < o + m + PGSIZE
  BY <1>7, RoundsUp DEF Count, o, v, m
<1> HIDE DEF n
<1>9. Pages(n) \in Nat /\ Pages(n) < M
  BY <1>1, <1>7, <1>8, PagesAdd
<1>10. s + n <= b
  <2>1. SUFFICES ASSUME b < s + n PROVE FALSE
    BY <1>3, <1>4, <1>8
  <2>2. Pages(b) + PGSIZE <= Pages(s + n)
    BY <1>3, <1>4, <1>8, <2>1, PagesMono
  <2>3. Pages(s + n) = Pages(s) + Pages(n)
    BY <1>3, <1>8, PagesAdd
  <2>4. QED
    BY <1>1, <1>3, <1>4, <1>6, <1>8, <1>9, <2>2, <2>3
<1>11. s > 0
  <2>1. s # 0
    BY <1>1, <1>2, <1>3, PagesNext
  <2>2. QED
    BY <1>3, <2>1
<1>12. Bytes(h) \in Nat /\ Bytes(h) <= Pages(n) /\ Bytes(h) = IF f > 0 THEN o + f ELSE 0
  <2>1. Bytes(h) = IF f > 0 THEN o + f ELSE 0
    BY DEF Bytes, f, o, v
  <2>2. QED
    BY <1>1, <1>2, <1>3, <1>8, <1>9, <2>1
<1>13. Segment(h) = [upage |-> s, ofs |-> h.offset - o, read |-> Bytes(h), zero |-> Pages(n) - Bytes(h)]
  <2>1. (IF f > 0 THEN U(o + f) ELSE 0) = Bytes(h)
    <3>1. f > 0 => U(o + f) = o + f
      <4>1. o + f \in Nat /\ o + f < M
        BY <1>1, <1>2, <1>3, <1>8, <1>9
      <4>2. QED
        BY <4>1, Wraps DEF M
    <3>2. QED
      BY <1>12, <3>1
  <2>2. U(Pages(n) - Bytes(h)) = Pages(n) - Bytes(h)
    <3>1. Pages(n) - Bytes(h) \in Nat /\ Pages(n) - Bytes(h) < M
      BY <1>9, <1>12, <1>1
    <3>2. QED
      BY <3>1, Wraps DEF M
  <2>3. QED
    BY <1>5, <1>8, <2>1, <2>2 DEF Segment, s, o, m, f, v, Start
<1>14. QED
  BY <1>3, <1>5, <1>8, <1>9, <1>10, <1>11, <1>12, <1>13 DEF n, s, b, o, v, m, M

UserPage == 1 .. PageOf(PHYS_BASE) - 1

LoaderTypes ==
  /\ phdrs \in Image /\ hdr \in 1 .. Len(phdrs) + 1
  /\ lpc \in {"start", "header", "segment", "failed", "loaded", "dead"}
  /\ DOMAIN map \subseteq UserPage /\ IsFiniteSet(DOMAIN map) /\ IsFiniteSet(tables)
  /\ pagedir \in BOOLEAN /\ user_free \in Nat /\ kernel_free \in Nat
  /\ lpc = "start" => hdr = 1 /\ pagedir = FALSE
  /\ lpc = "loaded" => hdr = Len(phdrs) + 1

\* The first n pages of a header's segment are in place in m.
Loaded(m, h, n) ==
  \A k \in 0 .. n - 1 : Start(h) + k \in DOMAIN m /\ m[Start(h) + k] = PageHas(h, k)

\* load_segment() has its n-th page before it.
Reached(s, h, n) ==
  /\ s = [upage |-> Start(h) + n, ofs |-> From(h, n), read |-> Rest(h, n),
          zero |-> Pages(Count(h)) - Pages(n) - Rest(h, n)]
  /\ Pages(n) + Rest(h, n) <= Pages(Count(h))

Segments ==
  /\ lpc \in {"header", "segment", "loaded"} =>
       \A k \in 1 .. hdr - 1 : phdrs[k].type = "PT_LOAD" =>
         validate_segment(phdrs[k]) /\ Loaded(map, phdrs[k], Count(phdrs[k]))
  /\ lpc = "segment" =>
       /\ hdr <= Len(phdrs) /\ phdrs[hdr].type = "PT_LOAD" /\ validate_segment(phdrs[hdr])
       /\ \E n \in 0 .. Count(phdrs[hdr]) : Reached(seg, phdrs[hdr], n) /\ Loaded(map, phdrs[hdr], n)

LoaderInv == LoaderTypes /\ Segments

LEMMA LoadedKept ==
    ASSUME NEW m, NEW d, NEW h, NEW n \in Nat, Loaded(m, h, n),
           \A p \in DOMAIN m : p \in DOMAIN d /\ d[p] = m[p]
    PROVE  Loaded(d, h, n)
  BY DEF Loaded

LEMMA HeaderTypes ==
    ASSUME LoaderAssumption, LoaderTypes
    PROVE  phdrs \in Seq(Phdr) /\ Len(phdrs) \in Nat /\ \A k \in 1 .. Len(phdrs) : phdrs[k] \in Phdr
<1>1. phdrs \in Seq(Phdr)
  BY DEF LoaderAssumption, LoaderTypes
<1>2. QED
  BY <1>1

LEMMA LoaderInitInv == ASSUME LoaderAssumption PROVE LoadInit => LoaderInv
<1>1. SUFFICES ASSUME LoadInit PROVE LoaderInv
  OBVIOUS
<1>2. phdrs \in Image /\ lpc = "start" /\ hdr = 1 /\ map = <<>> /\ pagedir = FALSE /\ tables = {}
      /\ user_free \in Nat /\ kernel_free \in Nat
  BY <1>1 DEF LoadInit, LoaderAssumption
<1>3. DOMAIN map = {}
  BY <1>2
<1>4. hdr \in 1 .. Len(phdrs) + 1
  <2>1. phdrs \in Seq(Phdr)
    BY <1>2 DEF LoaderAssumption
  <2>2. Len(phdrs) \in Nat
    BY <2>1
  <2>3. QED
    BY <1>2, <2>2
<1>5. LoaderTypes
  BY <1>2, <1>3, <1>4, FS_EmptySet DEF LoaderTypes
<1>6. Segments
  BY <1>2 DEF Segments
<1>7. QED
  BY <1>5, <1>6 DEF LoaderInv

\* install_page() adds one page, takes one page of the user pool and at most one
\* of the kernel pool.
LEMMA Installs ==
    ASSUME LoaderTypes, NEW p \in UserPage, NEW c, CanInstall(p), user_free > 0,
           install_page(p, c)
    PROVE  /\ p \notin DOMAIN map /\ DOMAIN map' = DOMAIN map \cup {p} /\ map'[p] = c
           /\ \A q \in DOMAIN map : q \in DOMAIN map' /\ map'[q] = map[q]
           /\ DOMAIN map' \subseteq UserPage /\ IsFiniteSet(DOMAIN map') /\ IsFiniteSet(tables')
           /\ user_free' \in Nat /\ kernel_free' \in Nat
           /\ user_free' + Cardinality(DOMAIN map') = user_free + Cardinality(DOMAIN map)
           /\ kernel_free' + Cardinality(tables') = kernel_free + Cardinality(tables)
<1> DEFINE t == p \div PTES
<1>1. /\ p \notin DOMAIN map /\ (t \in tables \/ kernel_free > 0)
      /\ map' = [q \in DOMAIN map \cup {p} |-> IF q = p THEN c ELSE map[q]]
      /\ tables' = tables \cup {t}
      /\ kernel_free' = (IF t \notin tables THEN kernel_free - 1 ELSE kernel_free)
      /\ user_free' = user_free - 1
  BY DEF CanInstall, install_page
<1> HIDE DEF t
<1>2. IsFiniteSet(DOMAIN map) /\ IsFiniteSet(tables) /\ user_free \in Nat /\ kernel_free \in Nat
      /\ DOMAIN map \subseteq UserPage
  BY DEF LoaderTypes
<1>3. DOMAIN map' = DOMAIN map \cup {p} /\ map'[p] = c
      /\ \A q \in DOMAIN map : q \in DOMAIN map' /\ map'[q] = map[q]
  BY <1>1
<1>4. IsFiniteSet(DOMAIN map') /\ Cardinality(DOMAIN map') = Cardinality(DOMAIN map) + 1
  BY <1>1, <1>2, <1>3, FS_AddElement
<1>5. IsFiniteSet(tables') /\ Cardinality(tables') = Cardinality(tables) + IF t \in tables THEN 0 ELSE 1
  <2>1. CASE t \in tables
    <3>1. tables' = tables /\ Cardinality(tables) \in Nat
      BY <1>1, <1>2, <2>1, FS_CardinalityType
    <3>2. QED
      BY <1>2, <2>1, <3>1
  <2>2. CASE t \notin tables
    BY <1>1, <1>2, <2>2, FS_AddElement
  <2>3. QED
    BY <2>1, <2>2
<1>6. Cardinality(DOMAIN map) \in Nat /\ Cardinality(tables) \in Nat
  BY <1>2, FS_CardinalityType
<1>7. user_free' \in Nat /\ user_free' + Cardinality(DOMAIN map') = user_free + Cardinality(DOMAIN map)
  BY <1>1, <1>2, <1>4, <1>6
<1>8. kernel_free' \in Nat /\ kernel_free' + Cardinality(tables') = kernel_free + Cardinality(tables)
  BY <1>1, <1>2, <1>5, <1>6
<1>9. QED
  BY <1>1, <1>2, <1>3, <1>4, <1>5, <1>7, <1>8

\* The page a page directory takes.
Dir(pd) == IF pd THEN 1 ELSE 0

LEMMA Conserved ==
    ASSUME user_free' + Cardinality(DOMAIN map') = user_free + Cardinality(DOMAIN map),
           kernel_free' + (Cardinality(tables') + Dir(pagedir'))
             = kernel_free + (Cardinality(tables) + Dir(pagedir)),
           lpc' # "dead"
    PROVE  ConservesPages
  BY DEF ConservesPages, Dir

LEMMA CreateInv ==
    ASSUME LoaderAssumption, LoaderInv, pagedir_create
    PROVE  LoaderInv' /\ ConservesPages
<1>1. /\ lpc = "start" /\ pagedir = FALSE /\ kernel_free \in Nat /\ hdr = 1
      /\ UNCHANGED <<phdrs, hdr, seg, map, tables, user_free>>
  BY DEF pagedir_create, LoaderInv, LoaderTypes
<1>2. \/ lpc' = "failed" /\ pagedir' = pagedir /\ kernel_free' = kernel_free
      \/ lpc' = "header" /\ pagedir' = TRUE /\ kernel_free > 0 /\ kernel_free' = kernel_free - 1
  BY <1>1 DEF pagedir_create
<1>3. kernel_free' \in Nat /\ lpc' \in {"failed", "header"}
  BY <1>1, <1>2
<1>4. pagedir' \in BOOLEAN
  BY <1>1, <1>2
<1>5. LoaderTypes'
  BY <1>1, <1>3, <1>4 DEF LoaderInv, LoaderTypes
<1>6. Segments'
  BY <1>1, <1>3 DEF Segments
<1>7. kernel_free' + (Cardinality(tables') + Dir(pagedir'))
        = kernel_free + (Cardinality(tables) + Dir(pagedir))
  <2>1. Cardinality(tables) \in Nat /\ tables' = tables
    BY <1>1, FS_CardinalityType DEF LoaderInv, LoaderTypes
  <2>2. Dir(TRUE) = 1 /\ Dir(FALSE) = 0
    BY DEF Dir
  <2>3. CASE pagedir' = pagedir /\ kernel_free' = kernel_free
    BY <2>1, <2>3
  <2>4. CASE pagedir' = TRUE /\ kernel_free' = kernel_free - 1
    <3>1. Dir(pagedir') = 1 /\ Dir(pagedir) = 0
      BY <1>1, <2>2, <2>4
    <3>2. QED
      BY <1>1, <2>1, <2>4, <3>1
  <2>5. QED
    BY <1>2, <2>3, <2>4
<1>8. ConservesPages
  BY <1>1, <1>3, <1>7, Conserved
<1>9. QED
  BY <1>5, <1>6, <1>8 DEF LoaderInv

LEMMA ProgramHeaderInv ==
    ASSUME LoaderAssumption, LoaderInv, ProgramHeader
    PROVE  LoaderInv' /\ ConservesPages
<1>1. /\ lpc = "header" /\ hdr <= Len(phdrs) /\ lpc' \in {"header", "failed", "segment"}
      /\ UNCHANGED <<phdrs, pagedir, map, tables, user_free, kernel_free>>
  BY DEF ProgramHeader
<1>2. PICK h : h = phdrs[hdr]
  OBVIOUS
<1>3. \/ h.type = "PT_NULL" /\ hdr' = hdr + 1 /\ lpc' = lpc
      \/ lpc' = "failed" /\ hdr' = hdr
      \/ /\ h.type = "PT_LOAD" /\ validate_segment(h) /\ seg' = Segment(h) /\ lpc' = "segment"
         /\ hdr' = hdr
  BY <1>2 DEF ProgramHeader
<1>4. hdr \in Nat /\ hdr >= 1 /\ Len(phdrs) \in Nat /\ h \in Phdr
  BY <1>1, <1>2, HeaderTypes DEF LoaderInv, LoaderTypes
<1>5. LoaderTypes'
  <2>1. hdr' \in 1 .. Len(phdrs) + 1
    BY <1>1, <1>3, <1>4
  <2>2. QED
    BY <1>1, <2>1 DEF LoaderInv, LoaderTypes
<1>6. Segments'
  <2>1. CASE h.type = "PT_NULL" /\ hdr' = hdr + 1 /\ lpc' = lpc
    <3>1. \A k \in 1 .. hdr' - 1 : k \in 1 .. hdr - 1 \/ phdrs[k].type # "PT_LOAD"
      BY <1>2, <1>4, <2>1
    <3>2. QED
      BY <1>1, <2>1, <3>1 DEF LoaderInv, Segments
  <2>2. CASE lpc' = "failed" /\ hdr' = hdr
    BY <2>2 DEF Segments
  <2>3. CASE /\ h.type = "PT_LOAD" /\ validate_segment(h) /\ seg' = Segment(h)
             /\ lpc' = "segment" /\ hdr' = hdr
    <3>1. /\ Start(h) \in Nat /\ Count(h) \in Nat /\ Bytes(h) \in Nat /\ Pages(Count(h)) \in Nat
          /\ Bytes(h) <= Pages(Count(h)) /\ Ofs(h.vaddr) \in Nat
          /\ Segment(h) = [upage |-> Start(h), ofs |-> h.offset - Ofs(h.vaddr),
                           read |-> Bytes(h), zero |-> Pages(Count(h)) - Bytes(h)]
      BY <1>4, <2>3, ValidSegment, PagesAdd
    <3>2. Pages(0) = 0 /\ h.offset \in Nat
      BY <1>4, PagesNext DEF Phdr
    <3>3. Rest(h, 0) = Bytes(h) /\ From(h, 0) = h.offset - Ofs(h.vaddr)
      BY <3>1, <3>2 DEF Rest, From
    <3>4. Reached(seg', h, 0)
      BY <2>3, <3>1, <3>2, <3>3 DEF Reached
    <3>5. Loaded(map', h, 0) /\ 0 \in 0 .. Count(h)
      BY <3>1 DEF Loaded
    <3>6. phdrs'[hdr'] = h
      BY <1>1, <1>2, <2>3
    <3>7. \A k \in 1 .. hdr' - 1 : phdrs'[k].type = "PT_LOAD" =>
            validate_segment(phdrs'[k]) /\ Loaded(map', phdrs'[k], Count(phdrs'[k]))
      BY <1>1, <2>3 DEF LoaderInv, Segments
    <3>8. hdr' <= Len(phdrs')
      BY <1>1, <2>3
    <3>9. QED
      BY <2>3, <3>4, <3>5, <3>6, <3>7, <3>8 DEF Segments
  <2>4. QED
    BY <1>3, <2>1, <2>2, <2>3
<1>7. ConservesPages
  BY <1>1, Conserved
<1>8. QED
  BY <1>5, <1>6, <1>7 DEF LoaderInv

LEMMA SegmentDoneInv ==
    ASSUME LoaderAssumption, LoaderInv, SegmentDone
    PROVE  LoaderInv' /\ ConservesPages
<1>1. /\ lpc = "segment" /\ seg.read = 0 /\ seg.zero = 0 /\ lpc' = "header" /\ hdr' = hdr + 1
      /\ UNCHANGED <<phdrs, pagedir, map, tables, user_free, kernel_free>>
  BY DEF SegmentDone
<1>2. PICK h : h = phdrs[hdr]
  OBVIOUS
<1>3. /\ hdr <= Len(phdrs) /\ h.type = "PT_LOAD" /\ validate_segment(h)
      /\ \E n \in 0 .. Count(h) : Reached(seg, h, n) /\ Loaded(map, h, n)
  BY <1>1, <1>2 DEF LoaderInv, Segments
<1>4. hdr \in Nat /\ hdr >= 1 /\ Len(phdrs) \in Nat /\ h \in Phdr
  <2>1. Len(phdrs) \in Nat /\ \A k \in 1 .. Len(phdrs) : phdrs[k] \in Phdr
    BY HeaderTypes DEF LoaderInv
  <2>2. hdr \in Nat /\ hdr >= 1
    BY <2>1 DEF LoaderInv, LoaderTypes
  <2>3. QED
    BY <1>2, <1>3, <2>1, <2>2
<1>5. Loaded(map, h, Count(h))
  <2>1. PICK n \in 0 .. Count(h) : Reached(seg, h, n) /\ Loaded(map, h, n)
    BY <1>3
  <2>2. Count(h) \in Nat
    BY <1>3, <1>4, ValidSegment
  <2>3. Pages(n) \in Nat /\ Pages(Count(h)) \in Nat /\ n \in Nat
    BY <2>2, PagesAdd
  <2>4. Rest(h, n) = 0 /\ Pages(Count(h)) - Pages(n) - Rest(h, n) = 0
    BY <1>1, <2>1 DEF Reached
  <2>5. ~ (n < Count(h))
    <3>1. SUFFICES ASSUME n < Count(h) PROVE FALSE
      OBVIOUS
    <3>2. Pages(n) + PGSIZE <= Pages(Count(h))
      BY <2>2, <2>3, <3>1, PagesMono
    <3>3. QED
      BY <2>3, <2>4, <3>2 DEF LoaderAssumption
  <2>6. n = Count(h)
    BY <2>2, <2>5
  <2>7. QED
    BY <2>1, <2>6
<1>6. LoaderTypes'
  BY <1>1, <1>3, <1>4 DEF LoaderInv, LoaderTypes
<1>7. Segments'
  <2>1. \A k \in 1 .. hdr' - 1 : k \in 1 .. hdr - 1 \/ k = hdr
    BY <1>1, <1>4
  <2>2. QED
    BY <1>1, <1>2, <1>3, <1>5, <2>1 DEF LoaderInv, Segments
<1>8. ConservesPages
  BY <1>1, Conserved
<1>9. QED
  BY <1>6, <1>7, <1>8 DEF LoaderInv

\* A page that is added leaves the segments loaded before as they are.
LEMMA DoneKept ==
    ASSUME LoaderAssumption, LoaderInv, lpc \in {"header", "segment"},
           \A q \in DOMAIN map : q \in DOMAIN map' /\ map'[q] = map[q]
    PROVE  \A k \in 1 .. hdr - 1 : phdrs[k].type = "PT_LOAD" =>
             validate_segment(phdrs[k]) /\ Loaded(map', phdrs[k], Count(phdrs[k]))
<1>1. SUFFICES ASSUME NEW k \in 1 .. hdr - 1, phdrs[k].type = "PT_LOAD"
      PROVE  validate_segment(phdrs[k]) /\ Loaded(map', phdrs[k], Count(phdrs[k]))
  OBVIOUS
<1>2. PICK g : g = phdrs[k]
  OBVIOUS
<1>3. validate_segment(g) /\ Loaded(map, g, Count(g))
  BY <1>1, <1>2 DEF LoaderInv, Segments
<1>4. g \in Phdr
  <2>1. Len(phdrs) \in Nat /\ \A m \in 1 .. Len(phdrs) : phdrs[m] \in Phdr
    BY HeaderTypes DEF LoaderInv
  <2>2. hdr \in 1 .. Len(phdrs) + 1
    BY DEF LoaderInv, LoaderTypes
  <2>3. QED
    BY <1>2, <2>1, <2>2
<1>5. Count(g) \in Nat
  BY <1>3, <1>4, ValidSegment
<1>6. Loaded(map', g, Count(g))
  BY <1>3, <1>5, LoadedKept
<1>7. QED
  BY <1>2, <1>3, <1>6

LEMMA InstallConserves ==
    ASSUME LoaderTypes, pagedir' = pagedir, IsFiniteSet(tables'), kernel_free' \in Nat,
           user_free' + Cardinality(DOMAIN map') = user_free + Cardinality(DOMAIN map),
           kernel_free' + Cardinality(tables') = kernel_free + Cardinality(tables),
           lpc' # "dead"
    PROVE  ConservesPages
<1>1. PICK d : d = Dir(pagedir)
  OBVIOUS
<1>2. d \in Nat /\ Dir(pagedir') = d
  BY <1>1 DEF Dir
<1>3. Cardinality(tables) \in Nat /\ Cardinality(tables') \in Nat /\ kernel_free \in Nat
  BY FS_CardinalityType DEF LoaderTypes
<1>4. kernel_free' + (Cardinality(tables') + d) = kernel_free + (Cardinality(tables) + d)
  BY <1>2, <1>3
<1>5. QED
  BY <1>1, <1>2, <1>4, Conserved

\* One turn of load_segment()'s loop fills the n-th page as the header asks and
\* gets to the next; the sizes do not wrap around.
LEMMA PageTurn ==
    ASSUME LoaderAssumption, NEW h \in Phdr, validate_segment(h), NEW n \in 0 .. Count(h),
           NEW s, Reached(s, h, n), s.read > 0 \/ s.zero > 0
    PROVE  LET r == IF s.read < PGSIZE THEN s.read ELSE PGSIZE IN
           /\ n < Count(h) /\ s.upage = Start(h) + n /\ s.upage \in UserPage
           /\ [ofs |-> s.ofs, read |-> r] = PageHas(h, n)
           /\ Reached([upage |-> s.upage + 1, ofs |-> s.ofs + r, read |-> s.read - r,
                       zero |-> U(s.zero - (PGSIZE - r))], h, n + 1)
<1> DEFINE r == IF s.read < PGSIZE THEN s.read ELSE PGSIZE
           c == Count(h)
           b == Bytes(h)
           all == Pages(c)
           p == Pages(n)
           base == h.offset - Ofs(h.vaddr)
           z == s.zero - (PGSIZE - r)
<1>1. /\ c \in Nat /\ b \in Nat /\ b <= all /\ all < 2 ^ W /\ Start(h) \in Nat /\ Start(h) > 0
      /\ Start(h) + c <= PageOf(PHYS_BASE) /\ base \in Nat
  <2>1. /\ c \in Nat /\ b \in Nat /\ b <= all /\ all < 2 ^ W /\ Start(h) \in Nat /\ Start(h) > 0
        /\ Start(h) + c <= PageOf(PHYS_BASE) /\ Ofs(h.vaddr) \in Nat /\ Ofs(h.vaddr) <= h.offset
    BY ValidSegment
  <2>2. h.offset \in Nat
    BY DEF Phdr, LoaderAssumption
  <2>3. QED
    BY <2>1, <2>2
<1>2. n \in Nat /\ n <= c /\ p \in Nat /\ all \in Nat /\ Pages(n + 1) = p + PGSIZE
      /\ PGSIZE \in Nat /\ PGSIZE > 0 /\ 2 ^ W \in Nat /\ PageOf(PHYS_BASE) \in Nat
  <2>1. n \in Nat /\ n <= c
    BY <1>1
  <2>2. p \in Nat /\ all \in Nat /\ Pages(n + 1) = p + PGSIZE
    BY <1>1, <2>1, PagesAdd, PagesNext
  <2>3. PGSIZE \in Nat /\ PGSIZE > 0 /\ 2 ^ W \in Nat /\ PHYS_BASE \in Nat
    BY DEF LoaderAssumption
  <2>4. PageOf(PHYS_BASE) \in Nat
    BY <2>3, PageSplit
  <2>5. QED
    BY <2>1, <2>2, <2>3, <2>4
<1>3. /\ s.upage = Start(h) + n /\ s.ofs = From(h, n) /\ s.read = Rest(h, n)
      /\ s.zero = all - p - Rest(h, n) /\ p + Rest(h, n) <= all
  BY DEF Reached
<1>4. /\ Rest(h, n) = (IF p < b THEN b - p ELSE 0)
      /\ From(h, n) = base + (IF p < b THEN p ELSE b)
      /\ Rest(h, n + 1) = (IF p + PGSIZE < b THEN b - (p + PGSIZE) ELSE 0)
      /\ From(h, n + 1) = base + (IF p + PGSIZE < b THEN p + PGSIZE ELSE b)
  BY <1>2 DEF Rest, From
<1>5. PageHas(h, n) = [ofs |-> s.ofs, read |-> r]
  BY <1>3 DEF PageHas
<1> HIDE DEF c, b, all, p, base
<1>6. n < c
  <2>1. SUFFICES ASSUME n = c PROVE FALSE
    BY <1>1, <1>2
  <2>2. p = all
    BY <2>1 DEF p, all
  <2>3. QED
    BY <1>1, <1>2, <1>3, <1>4, <2>2
<1>7. p + PGSIZE <= all
  BY <1>1, <1>2, <1>6, PagesMono DEF p, all
<1>8. s.upage \in UserPage
  BY <1>1, <1>2, <1>3, <1>6 DEF UserPage
<1>9. /\ s.read - r = Rest(h, n + 1) /\ s.ofs + r = From(h, n + 1)
      /\ z = all - (p + PGSIZE) - Rest(h, n + 1)
      /\ (p + PGSIZE) + Rest(h, n + 1) <= all /\ Rest(h, n + 1) \in Nat
  BY <1>1, <1>2, <1>3, <1>4, <1>7
<1>10. U(z) = z
  <2>1. z \in Nat /\ z < 2 ^ W
    BY <1>1, <1>2, <1>9
  <2>2. QED
    BY <2>1, Wraps
<1>11. s.upage + 1 = Start(h) + (n + 1)
  BY <1>1, <1>2, <1>3
<1>12. Reached([upage |-> s.upage + 1, ofs |-> s.ofs + r, read |-> s.read - r,
                zero |-> U(z)], h, n + 1)
  <2>1. Pages(n + 1) = p + PGSIZE /\ Pages(Count(h)) = all
    BY <1>2 DEF all, c
  <2>2. U(z) = Pages(Count(h)) - Pages(n + 1) - Rest(h, n + 1)
    BY <1>9, <1>10, <2>1
  <2>3. Pages(n + 1) + Rest(h, n + 1) <= Pages(Count(h))
    BY <1>9, <2>1
  <2>4. QED
    BY <1>9, <1>11, <2>2, <2>3 DEF Reached
<1>13. QED
  BY <1>3, <1>5, <1>6, <1>8, <1>12 DEF c

LEMMA LoadPageInv ==
    ASSUME LoaderAssumption, LoaderInv, LoadPage
    PROVE  LoaderInv' /\ ConservesPages
<1>1. lpc = "segment" /\ (seg.read > 0 \/ seg.zero > 0) /\ UNCHANGED <<phdrs, pagedir, hdr>>
  BY DEF LoadPage
<1>2. PICK h : h = phdrs[hdr]
  OBVIOUS
<1>3. /\ hdr <= Len(phdrs) /\ h.type = "PT_LOAD" /\ validate_segment(h)
      /\ \E n \in 0 .. Count(h) : Reached(seg, h, n) /\ Loaded(map, h, n)
  BY <1>1, <1>2 DEF LoaderInv, Segments
<1>4. hdr \in Nat /\ hdr >= 1 /\ Len(phdrs) \in Nat /\ h \in Phdr
      /\ \A k \in 1 .. Len(phdrs) : phdrs[k] \in Phdr
  <2>1. Len(phdrs) \in Nat /\ \A k \in 1 .. Len(phdrs) : phdrs[k] \in Phdr
    BY HeaderTypes DEF LoaderInv
  <2>2. hdr \in Nat /\ hdr >= 1
    BY <2>1 DEF LoaderInv, LoaderTypes
  <2>3. QED
    BY <1>2, <1>3, <2>1, <2>2
<1>5. PICK n \in 0 .. Count(h) : Reached(seg, h, n) /\ Loaded(map, h, n)
  BY <1>3
<1>6. PICK s : s = seg
  OBVIOUS
<1>7. PICK r : r = IF s.read < PGSIZE THEN s.read ELSE PGSIZE
  OBVIOUS
<1>8. PICK next : next = [upage |-> s.upage + 1, ofs |-> s.ofs + r, read |-> s.read - r,
                          zero |-> U(s.zero - (PGSIZE - r))]
  OBVIOUS
<1>9. /\ n < Count(h) /\ s.upage = Start(h) + n /\ s.upage \in UserPage
      /\ [ofs |-> s.ofs, read |-> r] = PageHas(h, n) /\ Reached(next, h, n + 1)
  BY <1>1, <1>3, <1>4, <1>5, <1>6, <1>7, <1>8, PageTurn
<1>10. \/ lpc' = "failed" /\ UNCHANGED <<seg, map, tables, user_free, kernel_free>>
       \/ /\ user_free > 0 /\ CanInstall(s.upage)
          /\ install_page(s.upage, [ofs |-> s.ofs, read |-> r])
          /\ seg' = next /\ lpc' = lpc
  BY <1>6, <1>7, <1>8 DEF LoadPage
<1>11. CASE lpc' = "failed" /\ UNCHANGED <<seg, map, tables, user_free, kernel_free>>
  <2>1. LoaderTypes'
    BY <1>1, <1>11 DEF LoaderInv, LoaderTypes
  <2>2. Segments'
    BY <1>11 DEF Segments
  <2>3. ConservesPages
    BY <1>1, <1>11, Conserved
  <2>4. QED
    BY <2>1, <2>2, <2>3 DEF LoaderInv
<1>12. CASE /\ user_free > 0 /\ CanInstall(s.upage)
            /\ install_page(s.upage, [ofs |-> s.ofs, read |-> r])
            /\ seg' = next /\ lpc' = lpc
  <2>1. PICK p : p = s.upage
    OBVIOUS
  <2>2. PICK c : c = [ofs |-> s.ofs, read |-> r]
    OBVIOUS
  <2>3. /\ p \notin DOMAIN map /\ DOMAIN map' = DOMAIN map \cup {p} /\ map'[p] = c
        /\ \A q \in DOMAIN map : q \in DOMAIN map' /\ map'[q] = map[q]
        /\ DOMAIN map' \subseteq UserPage /\ IsFiniteSet(DOMAIN map') /\ IsFiniteSet(tables')
        /\ user_free' \in Nat /\ kernel_free' \in Nat
        /\ user_free' + Cardinality(DOMAIN map') = user_free + Cardinality(DOMAIN map)
        /\ kernel_free' + Cardinality(tables') = kernel_free + Cardinality(tables)
    BY <1>9, <1>12, <2>1, <2>2, Installs DEF LoaderInv
  <2>4. LoaderTypes'
    BY <1>1, <1>12, <2>3 DEF LoaderInv, LoaderTypes
  <2>5. Loaded(map', h, n + 1)
    <3>1. \A k \in 0 .. (n + 1) - 1 : k \in 0 .. n - 1 \/ k = n
      OBVIOUS
    <3>2. Loaded(map', h, n)
      BY <1>5, <2>3, LoadedKept
    <3>3. p = Start(h) + n /\ c = PageHas(h, n)
      BY <1>9, <2>1, <2>2
    <3>4. QED
      BY <2>3, <3>1, <3>2, <3>3 DEF Loaded
  <2>6. n + 1 \in 0 .. Count(h)
    <3>1. Count(h) \in Nat
      BY <1>3, <1>4, ValidSegment
    <3>2. QED
      BY <1>9, <3>1
  <2>7. \A k \in 1 .. hdr - 1 : phdrs[k].type = "PT_LOAD" =>
          validate_segment(phdrs[k]) /\ Loaded(map', phdrs[k], Count(phdrs[k]))
    BY <1>1, <2>3, DoneKept
  <2>8. Segments'
    <3>1. phdrs' = phdrs /\ hdr' = hdr /\ phdrs'[hdr'] = h /\ lpc' = "segment" /\ hdr' <= Len(phdrs')
      BY <1>1, <1>2, <1>3, <1>12
    <3>2. Reached(seg', h, n + 1)
      BY <1>9, <1>12
    <3>3. QED
      BY <1>3, <2>5, <2>6, <2>7, <3>1, <3>2 DEF Segments
  <2>9. ConservesPages
    BY <1>1, <1>12, <2>3, InstallConserves DEF LoaderInv
  <2>10. QED
    BY <2>4, <2>8, <2>9 DEF LoaderInv
<1>13. QED
  BY <1>10, <1>11, <1>12

LEMMA StackIsUser == ASSUME LoaderAssumption PROVE StackPage \in UserPage
<1>1. PHYS_BASE \in Nat /\ PGSIZE \in Nat /\ PGSIZE > 0 /\ 2 * PGSIZE <= PHYS_BASE
  BY DEF LoaderAssumption
<1>2. PICK b \in Nat : b = PageOf(PHYS_BASE)
  BY <1>1, PageSplit
<1>3. PHYS_BASE = Pages(b) + Ofs(PHYS_BASE) /\ Ofs(PHYS_BASE) \in 0 .. PGSIZE - 1
  BY <1>1, <1>2, PageSplit
<1>4. Pages(0) = 0 /\ Pages(1) = PGSIZE
  BY PagesNext
<1>5. b # 0 /\ b # 1
  BY <1>1, <1>3, <1>4
<1>6. QED
  BY <1>2, <1>5 DEF StackPage, UserPage

LEMMA SetupStackInv ==
    ASSUME LoaderAssumption, LoaderInv, setup_stack
    PROVE  LoaderInv' /\ ConservesPages
<1>1. lpc = "header" /\ hdr = Len(phdrs) + 1 /\ UNCHANGED <<phdrs, pagedir, hdr, seg>>
  BY DEF setup_stack
<1>2. PICK c : c = [ofs |-> FLEN, read |-> 0]
  OBVIOUS
<1>3. \/ lpc' = "failed" /\ UNCHANGED <<map, tables, user_free, kernel_free>>
      \/ /\ user_free > 0 /\ CanInstall(StackPage) /\ install_page(StackPage, c)
         /\ lpc' \in {"failed", "loaded"}
  BY <1>2 DEF setup_stack
<1>4. CASE lpc' = "failed" /\ UNCHANGED <<map, tables, user_free, kernel_free>>
  <2>1. LoaderTypes'
    BY <1>1, <1>4 DEF LoaderInv, LoaderTypes
  <2>2. Segments'
    BY <1>4 DEF Segments
  <2>3. ConservesPages
    BY <1>1, <1>4, Conserved
  <2>4. QED
    BY <2>1, <2>2, <2>3 DEF LoaderInv
<1>5. CASE /\ user_free > 0 /\ CanInstall(StackPage) /\ install_page(StackPage, c)
           /\ lpc' \in {"failed", "loaded"}
  <2>1. /\ \A q \in DOMAIN map : q \in DOMAIN map' /\ map'[q] = map[q]
        /\ DOMAIN map' \subseteq UserPage /\ IsFiniteSet(DOMAIN map') /\ IsFiniteSet(tables')
        /\ user_free' \in Nat /\ kernel_free' \in Nat
        /\ user_free' + Cardinality(DOMAIN map') = user_free + Cardinality(DOMAIN map)
        /\ kernel_free' + Cardinality(tables') = kernel_free + Cardinality(tables)
    BY <1>5, StackIsUser, Installs DEF LoaderInv
  <2>2. LoaderTypes'
    BY <1>1, <1>5, <2>1 DEF LoaderInv, LoaderTypes
  <2>3. Segments'
    <3>1. \A k \in 1 .. hdr - 1 : phdrs[k].type = "PT_LOAD" =>
            validate_segment(phdrs[k]) /\ Loaded(map', phdrs[k], Count(phdrs[k]))
      BY <1>1, <2>1, DoneKept
    <3>2. QED
      BY <1>1, <1>5, <3>1 DEF Segments
  <2>4. ConservesPages
    BY <1>1, <1>5, <2>1, InstallConserves DEF LoaderInv
  <2>5. QED
    BY <2>2, <2>3, <2>4 DEF LoaderInv
<1>6. QED
  BY <1>3, <1>4, <1>5

LEMMA DestroyInv ==
    ASSUME LoaderAssumption, LoaderInv, pagedir_destroy
    PROVE  LoaderInv' /\ ConservesPages
<1>1. /\ user_free' = user_free + Cardinality(DOMAIN map)
      /\ kernel_free' = kernel_free + Cardinality(tables) + Dir(pagedir)
      /\ pagedir' = FALSE /\ map' = <<>> /\ tables' = {} /\ lpc' = "dead"
      /\ UNCHANGED <<phdrs, hdr, seg>>
  BY DEF pagedir_destroy, Dir
<1>2. DOMAIN map' = {}
  BY <1>1
<1>3. /\ user_free \in Nat /\ kernel_free \in Nat /\ Cardinality(DOMAIN map) \in Nat
      /\ Cardinality(tables) \in Nat
  BY FS_CardinalityType DEF LoaderInv, LoaderTypes
<1>4. Dir(pagedir) \in Nat /\ Dir(pagedir') = 0
  BY <1>1 DEF Dir
<1>5. Cardinality(DOMAIN map') = 0 /\ Cardinality(tables') = 0 /\ IsFiniteSet(DOMAIN map')
      /\ IsFiniteSet(tables')
  BY <1>1, <1>2, FS_EmptySet
<1>6. user_free' \in Nat /\ kernel_free' \in Nat
  BY <1>1, <1>3, <1>4
<1>7. pagedir' \in BOOLEAN
  BY <1>1
<1>8. LoaderTypes'
  BY <1>1, <1>2, <1>5, <1>6, <1>7 DEF LoaderInv, LoaderTypes
<1>9. Segments'
  BY <1>1 DEF Segments
<1>10. ConservesPages
  <2>1. user_free' + Cardinality(DOMAIN map') = user_free + Cardinality(DOMAIN map)
    BY <1>1, <1>3, <1>5
  <2>2. kernel_free' + (Cardinality(tables') + Dir(pagedir'))
          = kernel_free + (Cardinality(tables) + Dir(pagedir))
    BY <1>1, <1>3, <1>4, <1>5
  <2>3. Cardinality(tables') + Dir(pagedir') = 0
    BY <1>4, <1>5
  <2>4. QED
    BY <1>5, <2>1, <2>2, <2>3 DEF ConservesPages, Dir
<1>11. QED
  BY <1>8, <1>9, <1>10 DEF LoaderInv

LEMMA LoaderNextInv ==
    ASSUME LoaderAssumption
    PROVE  /\ LoaderInv /\ [LoadNext]_lvars => LoaderInv'
           /\ LoaderInv /\ LoadNext => ConservesPages
<1>1. LoaderInv /\ LoadNext => LoaderInv' /\ ConservesPages
  BY CreateInv, ProgramHeaderInv, LoadPageInv, SegmentDoneInv, SetupStackInv, DestroyInv
  DEF LoadNext
<1>2. LoaderInv /\ UNCHANGED lvars => LoaderInv'
  BY DEF lvars, LoaderInv, LoaderTypes, Segments
<1>3. QED
  BY <1>1, <1>2

\* Every byte of a segment whose pages are in place.
LEMMA ByteInPlace ==
    ASSUME LoaderAssumption, NEW m, NEW h \in Phdr, validate_segment(h),
           Loaded(m, h, Count(h)), NEW a \in h.vaddr .. h.vaddr + h.memsz - 1
    PROVE  /\ PageOf(a) \in DOMAIN m
           /\ IF a - h.vaddr < h.filesz
                THEN /\ Ofs(a) < m[PageOf(a)].read
                     /\ m[PageOf(a)].ofs + Ofs(a) = h.offset + (a - h.vaddr)
                ELSE Ofs(a) >= m[PageOf(a)].read
<1> DEFINE v == h.vaddr
           o == Ofs(v)
           c == Count(h)
           b == Bytes(h)
           p == PageOf(a)
           s == Start(h)
           k == p - s
<1>1. /\ s \in Nat /\ c \in Nat /\ b \in Nat /\ o \in Nat /\ o <= h.offset /\ o + h.memsz <= Pages(c)
      /\ b = IF h.filesz > 0 THEN o + h.filesz ELSE 0
  BY ValidSegment DEF Bytes
<1>2. /\ v \in Nat /\ h.memsz \in Nat /\ h.filesz \in Nat /\ h.offset \in Nat /\ a \in Nat
      /\ v <= a /\ a < v + h.memsz /\ PGSIZE \in Nat /\ PGSIZE > 0
  BY DEF Phdr, LoaderAssumption
<1>3. v = Pages(s) + o
  BY <1>2, PageSplit DEF Start
<1>4. p \in Nat /\ Ofs(a) \in 0 .. PGSIZE - 1 /\ a = Pages(p) + Ofs(a)
  BY <1>2, PageSplit
<1>5. o \in 0 .. PGSIZE - 1
  BY <1>2, PageSplit
<1> HIDE DEF v, o, c, b, p, s
<1>6. Pages(s) \in Nat /\ Pages(c) \in Nat /\ Pages(p) \in Nat /\ Pages(s + c) = Pages(s) + Pages(c)
  BY <1>1, <1>4, PagesAdd
<1>7. ~ (p < s)
  <2>1. SUFFICES ASSUME p < s PROVE FALSE
    OBVIOUS
  <2>2. Pages(p) + PGSIZE <= Pages(s)
    BY <1>1, <1>4, <2>1, PagesMono
  <2>3. QED
    BY <1>1, <1>2, <1>3, <1>4, <1>6, <2>2
<1>8. p < s + c
  <2>1. SUFFICES ASSUME s + c <= p PROVE FALSE
    BY <1>1, <1>4
  <2>2. Pages(s + c) <= Pages(p)
    <3>1. CASE s + c = p
      BY <1>6, <3>1
    <3>2. CASE s + c < p
      <4>1. s + c \in Nat
        BY <1>1
      <4>2. Pages(s + c) + PGSIZE <= Pages(p)
        BY <1>4, <3>2, <4>1, PagesMono
      <4>3. QED
        BY <1>2, <1>6, <4>2
    <3>3. QED
      BY <1>1, <1>4, <2>1, <3>1, <3>2
  <2>3. QED
    BY <1>1, <1>2, <1>3, <1>4, <1>6, <2>2
<1>9. k \in 0 .. c - 1 /\ p = s + k /\ k \in Nat
  BY <1>1, <1>4, <1>7, <1>8
<1> HIDE DEF k
<1>10. Pages(p) = Pages(s) + Pages(k) /\ Pages(k) \in Nat
  BY <1>1, <1>9, PagesAdd
<1>11. p \in DOMAIN m /\ m[p] = PageHas(h, k)
  BY <1>9 DEF Loaded, s, c
<1>12. /\ m[p].ofs = (h.offset - o) + (IF Pages(k) < b THEN Pages(k) ELSE b)
       /\ m[p].read = LET q == IF Pages(k) < b THEN b - Pages(k) ELSE 0 IN
                      IF q < PGSIZE THEN q ELSE PGSIZE
  BY <1>11 DEF PageHas, From, Rest, o, v, b
<1>13. a - v = Pages(k) + Ofs(a) - o
  BY <1>1, <1>2, <1>3, <1>4, <1>6, <1>10
<1>14. CASE a - v < h.filesz
  <2>1. h.filesz > 0 /\ b = o + h.filesz
    BY <1>1, <1>2, <1>14
  <2>2. Pages(k) + Ofs(a) < b
    BY <1>1, <1>2, <1>4, <1>10, <1>13, <1>14, <2>1
  <2>3. Pages(k) < b
    BY <1>1, <1>4, <1>10, <2>2
  <2>4. Ofs(a) < m[p].read
    BY <1>1, <1>2, <1>4, <1>10, <1>12, <2>2, <2>3
  <2>5. m[p].ofs + Ofs(a) = h.offset + (a - v)
    BY <1>1, <1>2, <1>4, <1>10, <1>12, <1>13, <2>3
  <2>6. QED
    BY <1>11, <1>14, <2>4, <2>5 DEF p, v
<1>15. CASE ~ (a - v < h.filesz)
  <2>1. Pages(k) + Ofs(a) >= b
    BY <1>1, <1>2, <1>4, <1>10, <1>13, <1>15
  <2>2. Ofs(a) >= m[p].read
    BY <1>1, <1>2, <1>4, <1>10, <1>12, <2>1
  <2>3. QED
    BY <1>11, <1>15, <2>2 DEF p, v
<1>16. QED
  BY <1>14, <1>15

LEMMA LoaderInvSound == ASSUME LoaderAssumption, LoaderInv PROVE ImageSound
<1>1. Len(phdrs) \in Nat /\ \A k \in 1 .. Len(phdrs) : phdrs[k] \in Phdr
  BY HeaderTypes DEF LoaderInv
<1>2. ImageExact
  <2>1. SUFFICES ASSUME lpc = "loaded", NEW k \in 1 .. Len(phdrs), phdrs[k].type = "PT_LOAD",
                        NEW a \in phdrs[k].vaddr .. phdrs[k].vaddr + phdrs[k].memsz - 1
        PROVE  /\ PageOf(a) \in DOMAIN map
               /\ IF a - phdrs[k].vaddr < phdrs[k].filesz
                    THEN /\ Ofs(a) < map[PageOf(a)].read
                         /\ map[PageOf(a)].ofs + Ofs(a) = phdrs[k].offset + (a - phdrs[k].vaddr)
                    ELSE Ofs(a) >= map[PageOf(a)].read
    BY DEF ImageExact
  <2>2. k \in 1 .. hdr - 1
    BY <1>1, <2>1 DEF LoaderInv, LoaderTypes
  <2>3. phdrs[k] \in Phdr /\ validate_segment(phdrs[k]) /\ Loaded(map, phdrs[k], Count(phdrs[k]))
    BY <1>1, <2>1, <2>2 DEF LoaderInv, Segments
  <2>4. QED
    BY <2>3, ByteInPlace
<1>3. \A p \in DOMAIN map : p # 0 /\ is_user_vaddr(p * PGSIZE)
  <2>1. SUFFICES ASSUME NEW p \in DOMAIN map PROVE p # 0 /\ is_user_vaddr(p * PGSIZE)
    OBVIOUS
  <2>2. PHYS_BASE \in Nat /\ PGSIZE \in Nat /\ PGSIZE > 0 /\ Ofs(PHYS_BASE) = 0
    BY DEF LoaderAssumption, Ofs
  <2>3. PICK b \in Nat : b = PageOf(PHYS_BASE)
    BY <2>2, PageSplit
  <2>4. PHYS_BASE = Pages(b) /\ Pages(b) \in Nat
    BY <2>2, <2>3, PageSplit, PagesAdd
  <2>5. p \in Nat /\ p # 0 /\ p < b
    BY <2>3 DEF LoaderInv, LoaderTypes, UserPage
  <2>6. Pages(p) + PGSIZE <= Pages(b) /\ Pages(p) \in Nat
    BY <2>5, PagesMono, PagesAdd
  <2>7. Pages(p) < PHYS_BASE
    BY <2>2, <2>4, <2>6
  <2>8. QED
    BY <2>5, <2>7 DEF is_user_vaddr, Pages
<1>4. ASSUME lpc = "segment" PROVE U(seg.read + seg.zero) % PGSIZE = 0
  <2>1. PICK h : h = phdrs[hdr]
    OBVIOUS
  <2>2. /\ hdr <= Len(phdrs) /\ validate_segment(h)
        /\ \E n \in 0 .. Count(h) : Reached(seg, h, n) /\ Loaded(map, h, n)
    BY <1>4, <2>1 DEF LoaderInv, Segments
  <2>3. h \in Phdr
    BY <1>1, <2>1, <2>2 DEF LoaderInv, LoaderTypes
  <2>4. PICK n \in 0 .. Count(h) : Reached(seg, h, n)
    BY <2>2
  <2>5. Count(h) \in Nat /\ Pages(Count(h)) < 2 ^ W /\ Bytes(h) \in Nat
    BY <2>2, <2>3, ValidSegment
  <2>6. PICK k \in Nat : Count(h) = n + k /\ n \in Nat
    <3>1. n \in Nat /\ Count(h) - n \in Nat /\ Count(h) = n + (Count(h) - n)
      BY <2>5
    <3>2. QED
      BY <3>1
  <2>7. Pages(Count(h)) = Pages(n) + Pages(k) /\ Pages(n) \in Nat /\ Pages(k) \in Nat
    BY <2>6, PagesAdd
  <2>8. Rest(h, n) \in Nat
    BY <2>5, <2>7 DEF Rest
  <2>9. seg.read + seg.zero = Pages(k)
    BY <2>4, <2>7, <2>8 DEF Reached
  <2>10. Pages(k) < 2 ^ W
    BY <2>5, <2>7 DEF LoaderAssumption
  <2>11. U(Pages(k)) = Pages(k)
    BY <2>7, <2>10, Wraps
  <2>12. Pages(k) % PGSIZE = 0
    BY PagesWhole
  <2>13. QED
    BY <2>9, <2>11, <2>12
<1>5. QED
  BY <1>2, <1>3, <1>4 DEF ImageSound, UserPagesOnly

\* process.c, for any address width and page size, any program headers and any
\* amount of free memory: a process that load() lets run sees at every address
\* of a segment the file's byte or zero, page 0 and the kernel are never mapped,
\* and what load_segment() has left is whole pages.
THEOREM LoaderIsSound ==
    ASSUME LoaderAssumption
    PROVE  LoadSpec => []ImageSound
<1>1. LoadInit => LoaderInv
  BY LoaderInitInv
<1>2. LoaderInv /\ [LoadNext]_lvars => LoaderInv'
  BY LoaderNextInv
<1>3. LoaderInv => ImageSound
  BY LoaderInvSound
<1>4. QED
  BY <1>1, <1>2, <1>3, PTL DEF LoadSpec

\* pagedir.c and process.c: no step of loading or of exiting loses or doubles a
\* page of either pool, wherever loading stops.
THEOREM LoaderConserves ==
    ASSUME LoaderAssumption
    PROVE  LoadSpec => PagesConserved
<1>1. LoadInit => LoaderInv
  BY LoaderInitInv
<1>2. LoaderInv /\ [LoadNext]_lvars => LoaderInv'
  BY LoaderNextInv
<1>3. LoaderInv /\ [LoadNext]_lvars => [ConservesPages]_lvars
  BY LoaderNextInv
<1>4. QED
  BY <1>1, <1>2, <1>3, PTL DEF LoadSpec, PagesConserved

-----------------------------------------------------------------------------
(***************************************************************************)
(* The index of an inode.                                                  *)
(***************************************************************************)

\* A place that names a sector: a slot of the inode, of a table the inode names,
\* or of a table the double indirect block names; -1 stands for no slot.
Place1 == {<<x, -1, -1>> : x \in 0..DBL_INDIRECT_IDX}
Place2 == {<<x, y, -1>> : x \in {INDIRECT_IDX, DBL_INDIRECT_IDX}, y \in Offset}
Place3 == {<<DBL_INDIRECT_IDX, y, z>> : y, z \in Offset}

Up1(p) == <<p[1], -1, -1>>
Up2(p) == <<p[1], p[2], -1>>

At1(d, p) == d.sectors[p[1]]
At2(d, tab, p) == tab[At1(d, p)][p[2]]
At3(d, tab, p) == tab[At2(d, tab, p)][p[3]]
SectorAt(d, tab, p) ==
  IF p[2] = -1 THEN At1(d, p) ELSE IF p[3] = -1 THEN At2(d, tab, p) ELSE At3(d, tab, p)

\* The places of Q name different sectors of the free map, none of them in F.
Sound(d, tab, u, Q, F) ==
  /\ F \subseteq u /\ u \subseteq DataSector
  /\ Q \subseteq Place1 \cup Place2 \cup Place3
  /\ \A p \in Q : /\ SectorAt(d, tab, p) \in u /\ SectorAt(d, tab, p) \notin F
                  /\ Up1(p) \in Q /\ (p[3] # -1 => Up2(p) \in Q)
  /\ \A p, q \in Q : SectorAt(d, tab, p) = SectorAt(d, tab, q) => p = q

Tables == [DataSector -> [Offset -> Int]]
Inodes == [exists : BOOLEAN, length : Int, sectors : [0..DBL_INDIRECT_IDX -> Int]]

\* What a write to a free place leaves alone.
Keeps(d, tab, e, tac, Q, F) ==
  /\ \A q \in Q : SectorAt(e, tac, q) = SectorAt(d, tab, q) /\ At1(e, q) = At1(d, q)
  /\ \A s \in F : tac[s] = tab[s]

LEMMA PlaceShapes ==
  /\ \A p \in Place1 : p = <<p[1], -1, -1>> /\ p[1] \in 0..DBL_INDIRECT_IDX
  /\ \A p \in Place2 : p = <<p[1], p[2], -1>> /\ p[1] \in 0..DBL_INDIRECT_IDX
                       /\ p[2] \in Offset /\ p[2] # -1
  /\ \A p \in Place3 : p = <<p[1], p[2], p[3]>> /\ p[1] \in 0..DBL_INDIRECT_IDX
                       /\ p[2] \in Offset /\ p[3] \in Offset /\ p[2] # -1 /\ p[3] # -1
BY InodeAssumption DEF Place1, Place2, Place3, INDIRECT_IDX, DBL_INDIRECT_IDX, Offset

\* What is at a place depends on what is at the places above it.
LEMMA Shape ==
  ASSUME NEW p \in Place1 \cup Place2 \cup Place3, NEW d, NEW tab
  PROVE  /\ SectorAt(d, tab, Up1(p)) = At1(d, p)
         /\ p \in Place1 => p = Up1(p) /\ SectorAt(d, tab, p) = At1(d, p)
         /\ p \in Place2 => p = Up2(p) /\ SectorAt(d, tab, p) = At2(d, tab, p)
         /\ p \in Place3 => SectorAt(d, tab, p) = At3(d, tab, p)
                            /\ SectorAt(d, tab, Up2(p)) = At2(d, tab, p)
<1>1. SectorAt(d, tab, Up1(p)) = At1(d, p)
  BY DEF SectorAt, Up1, At1
<1>2. ASSUME p \in Place1 PROVE p = Up1(p) /\ SectorAt(d, tab, p) = At1(d, p)
  BY <1>2, PlaceShapes DEF SectorAt, Up1
<1>3. ASSUME p \in Place2 PROVE p = Up2(p) /\ SectorAt(d, tab, p) = At2(d, tab, p)
  BY <1>3, PlaceShapes DEF SectorAt, Up2
<1>4. ASSUME p \in Place3
      PROVE  SectorAt(d, tab, p) = At3(d, tab, p) /\ SectorAt(d, tab, Up2(p)) = At2(d, tab, p)
  <2>1. p[2] # -1 /\ p[3] # -1
    BY <1>4, PlaceShapes
  <2>2. SectorAt(d, tab, p) = At3(d, tab, p)
    BY <2>1 DEF SectorAt
  <2>3. SectorAt(d, tab, Up2(p)) = At2(d, tab, p)
    BY <2>1 DEF SectorAt, Up2, At1, At2
  <2>4. QED
    BY <2>2, <2>3
<1>5. QED
  BY <1>1, <1>2, <1>3, <1>4

\* A sector the file does not have yet, put at a place it does not have yet.
LEMMA AddPlace ==
  ASSUME NEW d, NEW tab, NEW e, NEW tac, NEW u, NEW v, NEW Q, NEW F, NEW p, NEW s,
         Sound(d, tab, u, Q, F), p \notin Q,
         p \in Place1 \cup Place2 \cup Place3,
         u \subseteq v, v \subseteq DataSector, s \in v, s \notin F,
         \A q \in Q : SectorAt(d, tab, q) # s,
         p \notin Place1 => Up1(p) \in Q, p[3] # -1 => Up2(p) \in Q,
         SectorAt(e, tac, p) = s,
         Keeps(d, tab, e, tac, Q, F)
  PROVE  Sound(e, tac, v, Q \cup {p}, F)
<1> DEFINE R == Q \cup {p}
<1>1. F \subseteq v /\ R \subseteq Place1 \cup Place2 \cup Place3
  BY DEF Sound
<1>2. ASSUME NEW q \in R
      PROVE  SectorAt(e, tac, q) \in v /\ SectorAt(e, tac, q) \notin F
             /\ Up1(q) \in R /\ (q[3] # -1 => Up2(q) \in R)
  <2>1. CASE q = p
    <3>1. p \in Place1 => Up1(p) = p
      BY Shape
    <3>2. QED
      BY <2>1, <3>1
  <2>2. CASE q \in Q
    BY <2>2 DEF Sound, Keeps
  <2>3. QED
    BY <2>1, <2>2
<1>3. ASSUME NEW q \in R, NEW r \in R, SectorAt(e, tac, q) = SectorAt(e, tac, r) PROVE q = r
  BY <1>3 DEF Sound, Keeps
<1>4. QED
  BY <1>1, <1>2, <1>3 DEF Sound

LEMMA PutInode ==
  ASSUME NEW d \in Inodes, NEW tab, NEW u, NEW Q, NEW F, NEW p \in Place1, NEW s \in Int,
         Sound(d, tab, u, Q, F), p \notin Q
  PROVE  LET e == [d EXCEPT !.sectors[p[1]] = s] IN
         SectorAt(e, tab, p) = s /\ Keeps(d, tab, e, tab, Q, F)
<1> DEFINE e == [d EXCEPT !.sectors[p[1]] = s]
<1>1. p[1] \in 0..DBL_INDIRECT_IDX
  BY PlaceShapes
<1>2. e.sectors[p[1]] = s /\ \A x : x \in 0..DBL_INDIRECT_IDX /\ x # p[1] => e.sectors[x] = d.sectors[x]
  BY <1>1 DEF Inodes
<1>3. SectorAt(e, tab, p) = s
  BY <1>2, Shape DEF At1
<1>4. ASSUME NEW q \in Q
      PROVE  SectorAt(e, tab, q) = SectorAt(d, tab, q) /\ At1(e, q) = At1(d, q)
  <2>1. q \in Place1 \cup Place2 \cup Place3 /\ Up1(q) \in Q
    BY DEF Sound
  <2>2. q[1] \in 0..DBL_INDIRECT_IDX
    BY <2>1, PlaceShapes
  <2>3. q[1] # p[1]
    <3>1. p = Up1(p)
      BY Shape
    <3>2. QED
      BY <2>1, <3>1 DEF Up1
  <2>4. e.sectors[q[1]] = d.sectors[q[1]]
    BY <1>2, <2>2, <2>3
  <2> HIDE DEF e
  <2>5. QED
    BY <2>4 DEF SectorAt, At1, At2, At3
<1>5. QED
  BY <1>3, <1>4 DEF Keeps

\* A write to slot x of the table in sector t, where t is not in F.
RowPut(tab, tac, t, x, s) ==
  /\ tac \in Tables /\ tac[t][x] = s
  /\ \A y \in Offset : y # x => tac[t][y] = tab[t][y]
  /\ \A r \in DataSector : r # t => tac[r] = tab[r]

LEMMA PutRow ==
  ASSUME NEW tab \in Tables, NEW t, NEW x, NEW s \in Int,
         NEW tac, tac = [tab EXCEPT ![t][x] = s]
  PROVE  t \in DataSector /\ x \in Offset => RowPut(tab, tac, t, x, s)
BY DEF Tables, RowPut

LEMMA PutTable ==
  ASSUME NEW d \in Inodes, NEW tab \in Tables, NEW u, NEW Q, NEW F,
         NEW p \in Place2 \cup Place3, NEW s \in Int, NEW t, NEW x,
         Sound(d, tab, u, Q, F), p \notin Q, Up1(p) \in Q,
         p \in Place3 => Up2(p) \in Q,
         p \in Place2 => t = At1(d, p) /\ x = p[2],
         p \in Place3 => t = At2(d, tab, p) /\ x = p[3],
         NEW tac, t \in DataSector /\ x \in Offset => RowPut(tab, tac, t, x, s)
  PROVE  tac \in Tables /\ SectorAt(d, tac, p) = s /\ Keeps(d, tab, d, tac, Q, F)
<1>1. x \in Offset
  BY PlaceShapes
<1>2. PICK r \in Q : t = SectorAt(d, tab, r) /\ r = (IF p \in Place3 THEN Up2(p) ELSE Up1(p))
  BY Shape
<1>3. t \in DataSector /\ t \notin F /\ F \subseteq DataSector
  BY <1>2 DEF Sound
<1>4. /\ tac \in Tables /\ tac[t][x] = s
      /\ \A y \in Offset : y # x => tac[t][y] = tab[t][y]
      /\ \A w \in DataSector : w # t => tac[w] = tab[w]
  BY <1>1, <1>3 DEF RowPut
<1>5. ASSUME NEW q \in Q PROVE SectorAt(d, tac, q) = SectorAt(d, tab, q)
  <2>1. q \in Place1 \cup Place2 \cup Place3 /\ Up1(q) \in Q /\ (q[3] # -1 => Up2(q) \in Q)
    BY DEF Sound
  <2>2. CASE q \in Place1
    BY <2>2, Shape
  <2>3. ASSUME NEW z \in Place2, z \in Q PROVE At2(d, tac, z) = At2(d, tab, z)
    <3>1. At1(d, z) \in DataSector /\ SectorAt(d, tab, Up1(z)) = At1(d, z) /\ Up1(z) \in Q
      BY <2>3, Shape DEF Sound
    <3>2. CASE At1(d, z) # t
      BY <1>4, <3>1, <3>2 DEF At2
    <3>3. CASE At1(d, z) = t
      <4>1. Up1(z) = r
        BY <1>2, <3>1, <3>3 DEF Sound
      <4>2. p \in Place2 /\ p \notin Place3
        BY <1>2, <4>1, PlaceShapes DEF Up1, Up2
      <4>3. z[1] = p[1]
        BY <1>2, <4>1, <4>2 DEF Up1
      <4>4. z[2] # p[2] /\ z[2] \in Offset
        BY <2>3, <4>2, <4>3, PlaceShapes
      <4>5. QED
        BY <1>4, <3>3, <4>2, <4>4 DEF At2
    <3>4. QED
      BY <3>2, <3>3
  <2>4. CASE q \in Place2
    BY <2>3, <2>4, Shape
  <2>5. CASE q \in Place3
    <3>1. Up2(q) \in Q /\ Up2(q) \in Place2
      BY <2>1, <2>5, PlaceShapes DEF Up2, Place2, Place3
    <3>2. At2(d, tac, Up2(q)) = At2(d, tab, Up2(q))
      BY <2>3, <3>1
    <3>3. At2(d, tac, q) = At2(d, tab, q)
      BY <3>2 DEF At2, At1, Up2
    <3>4. At2(d, tab, q) \in DataSector /\ SectorAt(d, tab, Up2(q)) = At2(d, tab, q)
      BY <2>5, <3>1, Shape DEF Sound
    <3>5. CASE At2(d, tab, q) # t
      BY <1>4, <2>5, <3>3, <3>4, <3>5, Shape DEF At3
    <3>6. CASE At2(d, tab, q) = t
      <4>1. Up2(q) = r
        BY <1>2, <3>1, <3>4, <3>6 DEF Sound
      <4>2. p \in Place3
        BY <1>2, <3>1, <4>1, PlaceShapes DEF Up1
      <4>3. q[1] = p[1] /\ q[2] = p[2]
        BY <1>2, <4>1, <4>2 DEF Up2
      <4>4. q[3] # p[3] /\ q[3] \in Offset
        BY <2>5, <4>2, <4>3, PlaceShapes
      <4>5. p \notin Place2
        BY <4>2, PlaceShapes
      <4>6. QED
        BY <1>4, <2>5, <3>3, <3>6, <4>2, <4>4, Shape DEF At3
    <3>7. QED
      BY <3>5, <3>6
  <2>6. QED
    BY <2>1, <2>2, <2>4, <2>5
<1>6. SectorAt(d, tac, p) = s
  <2>1. CASE p \in Place2
    BY <1>4, <2>1, Shape DEF At2
  <2>2. CASE p \in Place3
    <3>1. SectorAt(d, tac, Up2(p)) = At2(d, tac, p) /\ SectorAt(d, tab, Up2(p)) = At2(d, tab, p)
      BY <2>2, Shape
    <3>2. At2(d, tac, p) = t
      BY <1>5, <2>2, <3>1
    <3>3. QED
      BY <1>4, <2>2, <3>2, Shape DEF At3
  <2>3. QED
    BY <2>1, <2>2
<1>7. \A w \in F : tac[w] = tab[w]
  BY <1>3, <1>4
<1>8. QED
  BY <1>4, <1>5, <1>6, <1>7 DEF Keeps

-----------------------------------------------------------------------------
(* Which places n sectors need.                                            *)

AllPlaces == Place1 \cup Place2 \cup Place3

\* The first sector that needs the place.
Slot(y) == IF y = -1 THEN 0 ELSE y
First(p) ==
  IF p[1] < INDIRECT_IDX THEN p[1]
  ELSE IF p[1] = INDIRECT_IDX THEN DIRECT_CNT + Slot(p[2])
  ELSE DIRECT_CNT + PTRS_PER_SECTOR + PTRS_PER_SECTOR * Slot(p[2]) + Slot(p[3])
Needed(n) == {p \in AllPlaces : First(p) < n}

\* The places on the way to sector n.
Way1(o) == <<o[1], -1, -1>>
Way2(o) == <<o[1], o[2], -1>>
Way3(o) == <<o[1], o[2], o[3]>>

LEMMA Splits ==
  ASSUME NEW rel \in Nat, rel < PTRS_PER_SECTOR * PTRS_PER_SECTOR
  PROVE  /\ rel \div PTRS_PER_SECTOR \in Offset /\ rel % PTRS_PER_SECTOR \in Offset
         /\ rel = PTRS_PER_SECTOR * (rel \div PTRS_PER_SECTOR) + (rel % PTRS_PER_SECTOR)
<1>1. PICK P \in Nat : P = PTRS_PER_SECTOR /\ P > 0
  BY InodeAssumption
<1>2. PICK a, b : a = rel \div P /\ b = rel % P
  OBVIOUS
<1>3. a \in Nat /\ b \in Nat /\ b < P /\ rel = P * a + b
  BY <1>1, <1>2
<1>4. a < P
  <2>1. SUFFICES ASSUME a >= P PROVE FALSE
    BY <1>1, <1>3
  <2>2. P * a >= P * P
    BY <1>1, <1>3, <2>1
  <2>3. QED
    BY <1>1, <1>3, <2>2
<1>5. QED
  BY <1>1, <1>2, <1>3, <1>4 DEF Offset

LEMMA SplitsOnce ==
  ASSUME NEW a \in Offset, NEW b \in Offset, NEW c \in Offset, NEW e \in Offset,
         PTRS_PER_SECTOR * a + b = PTRS_PER_SECTOR * c + e
  PROVE  a = c /\ b = e
<1>1. PICK P \in Nat : P = PTRS_PER_SECTOR /\ P > 0
  BY InodeAssumption
<1>2. /\ a \in Nat /\ b \in Nat /\ c \in Nat /\ e \in Nat /\ b < P /\ e < P
      /\ P * a + b = P * c + e
  BY <1>1 DEF Offset
<1>3. ~ a < c
  <2>1. SUFFICES ASSUME a < c PROVE FALSE
    OBVIOUS
  <2>2. P * (a + 1) <= P * c
    BY <1>1, <1>2, <2>1
  <2>3. P * (a + 1) = P * a + P
    BY <1>1, <1>2
  <2>4. P * a \in Nat /\ P * c \in Nat
    BY <1>1, <1>2
  <2>5. QED
    BY <1>1, <1>2, <2>2, <2>3, <2>4
<1>4. ~ c < a
  <2>1. SUFFICES ASSUME c < a PROVE FALSE
    OBVIOUS
  <2>2. P * (c + 1) <= P * a
    BY <1>1, <1>2, <2>1
  <2>3. P * (c + 1) = P * c + P
    BY <1>1, <1>2
  <2>4. P * a \in Nat /\ P * c \in Nat
    BY <1>1, <1>2
  <2>5. QED
    BY <1>1, <1>2, <2>2, <2>3, <2>4
<1>5. a = c
  BY <1>2, <1>3, <1>4
<1>6. QED
  BY <1>1, <1>2, <1>5

LEMMA FirstNat == ASSUME NEW p \in AllPlaces PROVE First(p) \in Nat
<1>1. p[1] \in Nat /\ Slot(p[2]) \in Nat /\ Slot(p[3]) \in Nat
  BY InodeAssumption, PlaceShapes DEF AllPlaces, Slot, Offset, DBL_INDIRECT_IDX, Place1, Place2, Place3
<1>2. PICK P \in Nat : P = PTRS_PER_SECTOR
  BY InodeAssumption
<1>3. P * Slot(p[2]) \in Nat
  BY <1>1, <1>2
<1>4. QED
  BY InodeAssumption, <1>1, <1>2, <1>3 DEF First

\* The sectors a file has need the places above theirs too.
LEMMA NeededClosed ==
  ASSUME NEW n \in Nat, NEW p \in Needed(n)
  PROVE  Up1(p) \in Needed(n) /\ (p[3] # -1 => Up2(p) \in Needed(n))
<1> USE InodeAssumption
<1>1. p \in AllPlaces /\ First(p) < n /\ First(p) \in Nat
  BY FirstNat DEF Needed
<1>2. p[1] \in 0..DBL_INDIRECT_IDX /\ Slot(p[2]) \in Nat /\ Slot(p[3]) \in Nat
  BY <1>1, PlaceShapes DEF AllPlaces, Slot, Offset, Place1, Place2, Place3
<1>3. PTRS_PER_SECTOR * Slot(p[2]) \in Nat
  BY <1>2
<1>4. Up1(p) \in AllPlaces
  BY <1>2 DEF AllPlaces, Place1, Up1
<1>5. First(Up1(p)) <= First(p)
  <2>1. Up1(p)[1] = p[1] /\ Slot(Up1(p)[2]) = 0 /\ Slot(Up1(p)[3]) = 0
    BY DEF Up1, Slot
  <2>2. PTRS_PER_SECTOR * Slot(Up1(p)[2]) = 0
    BY <2>1
  <2>3. QED
    BY <1>2, <1>3, <2>1, <2>2 DEF First, INDIRECT_IDX, DBL_INDIRECT_IDX
<1>6. Up1(p) \in Needed(n)
  BY <1>1, <1>4, <1>5, FirstNat DEF Needed
<1>7. ASSUME p[3] # -1 PROVE Up2(p) \in Needed(n)
  <2>1. p \in Place3
    BY <1>1, <1>7, PlaceShapes DEF AllPlaces, Place1, Place2
  <2>2. Up2(p) \in AllPlaces
    BY <2>1, PlaceShapes DEF AllPlaces, Place2, Place3, Up2
  <2>3. Up2(p)[1] = p[1] /\ Up2(p)[2] = p[2] /\ Slot(Up2(p)[3]) = 0
    BY DEF Up2, Slot
  <2>4. First(Up2(p)) <= First(p)
    BY <1>2, <1>3, <2>3 DEF First, INDIRECT_IDX, DBL_INDIRECT_IDX
  <2>5. QED
    BY <1>1, <2>2, <2>4, FirstNat DEF Needed
<1>8. QED
  BY <1>6, <1>7

\* calculate_indices(), case by case: the places that sector n is the first to
\* need, from the inode down.
LEMMA NewPlaces ==
  ASSUME NEW n \in Nat, n < SPAN, NEW o, o = calculate_indices(n)
  PROVE  /\ o \in Seq(Nat) /\ Len(o) \in 1..3 /\ o[1] \in 0..DBL_INDIRECT_IDX
         /\ \A i \in 2..Len(o) : o[i] \in Offset
         /\ Len(o) = 1 => /\ {p \in AllPlaces : First(p) = n} = {Way1(o)}
                          /\ Way1(o) \in Place1
         /\ Len(o) = 2 => /\ Way1(o) \in Place1 /\ Way2(o) \in Place2
                          /\ {p \in AllPlaces : First(p) = n} =
                               {Way2(o)} \cup (IF o[2] = 0 THEN {Way1(o)} ELSE {})
         /\ Len(o) = 3 => /\ Way1(o) \in Place1 /\ Way2(o) \in Place2 /\ Way3(o) \in Place3
                          /\ {p \in AllPlaces : First(p) = n} =
                               {Way3(o)} \cup (IF o[3] = 0 THEN {Way2(o)} ELSE {})
                                \cup (IF o[2] = 0 /\ o[3] = 0 THEN {Way1(o)} ELSE {})
<1> USE InodeAssumption
<1> DEFINE New == {p \in AllPlaces : First(p) = n}
           rel == n - DIRECT_CNT - PTRS_PER_SECTOR
<1>1. \A p \in AllPlaces : /\ p[1] \in 0..DBL_INDIRECT_IDX
                           /\ Slot(p[2]) \in Offset /\ Slot(p[3]) \in Offset
                           /\ PTRS_PER_SECTOR * Slot(p[2]) \in Nat
  <2>1. 0 \in Offset
    BY DEF Offset
  <2>2. \A p \in AllPlaces : /\ p[1] \in 0..DBL_INDIRECT_IDX
                             /\ Slot(p[2]) \in Offset /\ Slot(p[3]) \in Offset
    BY <2>1, PlaceShapes DEF AllPlaces, Slot, Place1, Place2, Place3
  <2>3. QED
    BY <2>2 DEF Offset
<1>2. CASE n < DIRECT_CNT
  <2>1. o = <<n>>
    BY <1>2 DEF calculate_indices
  <2>2. n \in 0..DBL_INDIRECT_IDX /\ Way1(o) \in Place1 /\ Way1(o) = <<n, -1, -1>>
    BY <1>2, <2>1 DEF Place1, Way1, DBL_INDIRECT_IDX
  <2>3. First(Way1(o)) = n
    BY <1>2, <2>2 DEF First, INDIRECT_IDX
  <2>4. ASSUME NEW p \in AllPlaces, First(p) = n PROVE p = Way1(o)
    <3>1. p[1] = n
      BY <1>1, <1>2, <2>4 DEF First, INDIRECT_IDX, DBL_INDIRECT_IDX, Offset
    <3>2. p \in Place1
      BY <1>2, <3>1, PlaceShapes DEF AllPlaces, Place2, Place3, INDIRECT_IDX, DBL_INDIRECT_IDX
    <3>3. QED
      BY <2>2, <3>1, <3>2, PlaceShapes
  <2>5. New = {Way1(o)}
    BY <2>2, <2>3, <2>4 DEF AllPlaces
  <2>6. QED
    BY <2>1, <2>2, <2>5
<1>3. CASE n >= DIRECT_CNT /\ rel < 0
  <2>1. o = <<INDIRECT_IDX, n - DIRECT_CNT>>
    BY <1>3 DEF calculate_indices
  <2>2. n - DIRECT_CNT \in Offset /\ INDIRECT_IDX \in 0..DBL_INDIRECT_IDX /\ INDIRECT_IDX \in Nat
    BY <1>3 DEF Offset, INDIRECT_IDX, DBL_INDIRECT_IDX
  <2>3. /\ Way1(o) = <<INDIRECT_IDX, -1, -1>> /\ Way2(o) = <<INDIRECT_IDX, n - DIRECT_CNT, -1>>
        /\ Way1(o) \in Place1 /\ Way2(o) \in Place2
    BY <2>1, <2>2 DEF Place1, Place2, Way1, Way2
  <2>4. /\ o \in Seq(Nat) /\ Len(o) = 2 /\ o[1] = INDIRECT_IDX /\ o[2] = n - DIRECT_CNT
        /\ o[1] \in 0..DBL_INDIRECT_IDX
    BY <2>1, <2>2 DEF Offset
  <2>5. First(Way2(o)) = n /\ (o[2] = 0 => First(Way1(o)) = n)
    BY <1>3, <2>2, <2>3, <2>4 DEF First, Slot, INDIRECT_IDX, Offset
  <2>6. ASSUME NEW p \in AllPlaces, First(p) = n
        PROVE  p = Way2(o) \/ (o[2] = 0 /\ p = Way1(o))
    <3>1. p[1] = INDIRECT_IDX /\ Slot(p[2]) = n - DIRECT_CNT
      BY <1>1, <1>3, <2>6 DEF First, INDIRECT_IDX, DBL_INDIRECT_IDX, Offset
    <3>2. p \in Place1 \cup Place2
      BY <3>1 DEF AllPlaces, Place3, INDIRECT_IDX, DBL_INDIRECT_IDX
    <3>3. QED
      BY <2>3, <2>4, <3>1, <3>2, PlaceShapes DEF Slot, Place1, Place2
  <2>7. New = {Way2(o)} \cup (IF o[2] = 0 THEN {Way1(o)} ELSE {})
    BY <2>3, <2>5, <2>6 DEF AllPlaces
  <2>8. \A i \in 2..Len(o) : o[i] \in Offset
    BY <2>2, <2>4
  <2>9. QED
    BY <2>3, <2>4, <2>7, <2>8
<1>4. CASE n >= DIRECT_CNT /\ rel >= 0
  <2>1. rel \in Nat /\ rel < PTRS_PER_SECTOR * PTRS_PER_SECTOR
    BY <1>4 DEF SPAN
  <2>2. PICK a, b : a = rel \div PTRS_PER_SECTOR /\ b = rel % PTRS_PER_SECTOR
    OBVIOUS
  <2>3. a \in Offset /\ b \in Offset /\ rel = PTRS_PER_SECTOR * a + b
    BY <2>1, <2>2, Splits
  <2>4. o = <<DBL_INDIRECT_IDX, a, b>>
    BY <1>4, <2>2 DEF calculate_indices
  <2>5. DBL_INDIRECT_IDX \in 0..DBL_INDIRECT_IDX /\ DBL_INDIRECT_IDX \in Nat /\ a \in Nat /\ b \in Nat
    BY <2>3 DEF DBL_INDIRECT_IDX, Offset
  <2>6. /\ o \in Seq(Nat) /\ Len(o) = 3 /\ o[1] = DBL_INDIRECT_IDX /\ o[2] = a /\ o[3] = b
        /\ o[1] \in 0..DBL_INDIRECT_IDX
    BY <2>4, <2>5
  <2>7. /\ Way1(o) = <<DBL_INDIRECT_IDX, -1, -1>> /\ Way2(o) = <<DBL_INDIRECT_IDX, a, -1>>
        /\ Way3(o) = <<DBL_INDIRECT_IDX, a, b>>
        /\ Way1(o) \in Place1 /\ Way2(o) \in Place2 /\ Way3(o) \in Place3
    BY <2>3, <2>5, <2>6 DEF Place1, Place2, Place3, Way1, Way2, Way3
  <2>8. n = DIRECT_CNT + PTRS_PER_SECTOR + PTRS_PER_SECTOR * a + b /\ PTRS_PER_SECTOR * a \in Nat
    BY <2>3, <2>5
  <2>9. /\ First(Way3(o)) = n /\ (b = 0 => First(Way2(o)) = n)
        /\ (a = 0 /\ b = 0 => First(Way1(o)) = n)
    <3>1. \A p : p[1] = DBL_INDIRECT_IDX => First(p) =
            DIRECT_CNT + PTRS_PER_SECTOR + PTRS_PER_SECTOR * Slot(p[2]) + Slot(p[3])
      BY DEF First, INDIRECT_IDX, DBL_INDIRECT_IDX
    <3>2. Slot(-1) = 0 /\ Slot(a) = a /\ Slot(b) = b
      BY <2>5 DEF Slot
    <3>3. QED
      BY <2>5, <2>7, <2>8, <3>1, <3>2
  <2>10. ASSUME NEW p \in AllPlaces, First(p) = n
         PROVE  \/ p = Way3(o) \/ (b = 0 /\ p = Way2(o))
                \/ (a = 0 /\ b = 0 /\ p = Way1(o))
    <3>1. p[1] = DBL_INDIRECT_IDX
      BY <1>1, <1>4, <2>10 DEF First, INDIRECT_IDX, DBL_INDIRECT_IDX, Offset
    <3>2. PTRS_PER_SECTOR * Slot(p[2]) + Slot(p[3]) = PTRS_PER_SECTOR * a + b
      <4>1. First(p) = DIRECT_CNT + PTRS_PER_SECTOR + PTRS_PER_SECTOR * Slot(p[2]) + Slot(p[3])
        BY <3>1 DEF First, INDIRECT_IDX, DBL_INDIRECT_IDX
      <4>2. QED
        BY <1>1, <2>5, <2>8, <2>10, <4>1 DEF Offset
    <3>3. Slot(p[2]) = a /\ Slot(p[3]) = b
      BY <1>1, <2>3, <3>2, SplitsOnce
    <3>4. CASE p \in Place1
      <4>1. p[2] = -1 /\ p[3] = -1 /\ p = <<p[1], -1, -1>>
        BY <3>4, PlaceShapes DEF Place1
      <4>2. QED
        BY <2>7, <3>1, <3>3, <4>1 DEF Slot
    <3>5. CASE p \in Place2
      <4>1. p[2] # -1 /\ p[3] = -1 /\ p = <<p[1], p[2], -1>>
        BY <3>5, PlaceShapes DEF Place2
      <4>2. QED
        BY <2>7, <3>1, <3>3, <4>1 DEF Slot
    <3>6. CASE p \in Place3
      <4>1. p[2] # -1 /\ p[3] # -1 /\ p = <<p[1], p[2], p[3]>>
        BY <3>6, PlaceShapes
      <4>2. QED
        BY <2>7, <3>1, <3>3, <4>1 DEF Slot
    <3>7. QED
      BY <3>4, <3>5, <3>6 DEF AllPlaces
  <2>11. New = {Way3(o)} \cup (IF o[3] = 0 THEN {Way2(o)} ELSE {})
                 \cup (IF o[2] = 0 /\ o[3] = 0 THEN {Way1(o)} ELSE {})
    <3>1. Way1(o) \in AllPlaces /\ Way2(o) \in AllPlaces /\ Way3(o) \in AllPlaces
      BY <2>7 DEF AllPlaces
    <3> HIDE DEF rel
    <3>2. QED
      BY <2>6, <2>9, <2>10, <3>1
  <2>12. \A i \in 2..Len(o) : o[i] \in Offset
    <3>1. \A i \in 2..3 : i = 2 \/ i = 3
      OBVIOUS
    <3>2. QED
      BY <2>3, <2>6, <3>1
  <2>13. QED
    BY <2>6, <2>7, <2>11, <2>12
<1>5. QED
  BY <1>2, <1>3, <1>4

-----------------------------------------------------------------------------
(* extend_file(), one sector at a time.                                    *)

Growths ==
  [d : Inodes, table : Tables, data : [DataSector -> [0..(BLOCK_SECTOR_SIZE - 1) -> Byte \cup {0}]],
   used : SUBSET DataSector, new : Int, block : Int, ok : BOOLEAN]

\* From base on, what the file had at Q and the sectors of others, F, are as
\* they were; what is in use stays in use.
Grew(base, st, Q, F) ==
  /\ st \in Growths /\ base.used \subseteq st.used
  /\ Keeps(base.d, base.table, st.d, st.table, Q, F)
  /\ st.d.exists = base.d.exists /\ st.d.length = base.d.length

\* The sector for the data is allocated and not named yet.
Pending(st, Q, F) ==
  /\ st.block \in st.used /\ st.block \notin F
  /\ \A q \in Q : SectorAt(st.d, st.table, q) # st.block

LEMMA KeepsTrans ==
  ASSUME NEW d, NEW t, NEW d1, NEW t1, NEW d2, NEW t2, NEW Q, NEW R, NEW F, Q \subseteq R,
         Keeps(d, t, d1, t1, Q, F), Keeps(d1, t1, d2, t2, R, F)
  PROVE  Keeps(d, t, d2, t2, Q, F)
BY DEF Keeps

LEMMA Allocates ==
  ASSUME NEW st \in Growths, NEW r, r = free_map_allocate(st)
  PROVE  /\ r \in Growths /\ r.d = st.d /\ r.table = st.table /\ r.data = st.data
         /\ r.block = st.block /\ st.used \subseteq r.used
         /\ r.ok => st.ok /\ r.new \in r.used /\ r.new \notin st.used
         /\ ~ st.ok => r = st
<1> DEFINE left == DataSector \ st.used
<1>1. CASE ~ st.ok \/ left = {}
  <2>1. r = [st EXCEPT !.ok = FALSE]
    BY <1>1 DEF free_map_allocate
  <2>2. QED
    BY <2>1 DEF Growths
<1>2. CASE st.ok /\ left # {}
  <2>1. left \in SUBSET Nat
    BY InodeAssumption
  <2>2. least(left) \in left
    <3>1. \E m \in left : \A k \in left : m <= k
      <4> HIDE DEF left
      <4>1. QED
        BY <1>2, <2>1, LeastNat
    <3>2. QED
      BY <3>1 DEF least
  <2>3. PICK s \in left : s = least(left)
    BY <2>2
  <2>4. r = [st EXCEPT !.used = st.used \cup {s}, !.new = s]
    BY <1>2, <2>3 DEF free_map_allocate
  <2>5. s \in Int /\ s \in DataSector /\ s \notin st.used
    BY <2>1, <2>3
  <2>6. QED
    BY <1>2, <2>4, <2>5 DEF Growths
<1>3. QED
  BY <1>1, <1>2 DEF Growths

\* A new table, named by the inode.
LEMMA TopStep ==
  ASSUME NEW base \in Growths, NEW st, NEW Q, NEW R, NEW F,
         Grew(base, st, Q, F), Q \subseteq R,
         st.ok => Sound(st.d, st.table, st.used, R, F) /\ Pending(st, R, F),
         NEW o, Way1(o) \in Place1, Way1(o) \notin R,
         NEW r, r = NameTable(free_map_allocate(st), o)
  PROVE  /\ Grew(base, r, Q, F)
         /\ r.ok => st.ok /\ Sound(r.d, r.table, r.used, R \cup {Way1(o)}, F)
                    /\ Pending(r, R \cup {Way1(o)}, F)
<1> DEFINE p == Way1(o)
<1>1. PICK a : a = free_map_allocate(st)
  OBVIOUS
<1>2. st \in Growths
  BY DEF Grew
<1>3. /\ a \in Growths /\ a.d = st.d /\ a.table = st.table /\ a.data = st.data
      /\ a.block = st.block /\ st.used \subseteq a.used
      /\ a.ok => st.ok /\ a.new \in a.used /\ a.new \notin st.used
  BY <1>1, <1>2, Allocates
<1>4. CASE ~ a.ok
  <2>1. r = a
    BY <1>1, <1>4 DEF NameTable
  <2>2. QED
    BY <1>3, <1>4, <2>1 DEF Grew
<1>5. CASE a.ok
  <2>1. r = [a EXCEPT !.d.sectors[o[1]] = a.new]
    BY <1>1, <1>5 DEF NameTable
  <2>2. a.d \in Inodes /\ a.new \in Int /\ p[1] = o[1]
    BY <1>3 DEF Growths, Way1
  <2>3. PICK e : e = [st.d EXCEPT !.sectors[p[1]] = a.new]
    OBVIOUS
  <2>4. e \in Inodes /\ e.exists = st.d.exists /\ e.length = st.d.length
    BY <1>3, <2>2, <2>3 DEF Inodes
  <2>5. r = [a EXCEPT !.d = e]
    BY <1>3, <2>1, <2>2, <2>3 DEF Growths
  <2>6. /\ r \in Growths /\ r.d = e /\ r.table = st.table /\ r.used = a.used
        /\ r.block = st.block
    BY <1>3, <2>4, <2>5 DEF Growths
  <2>7. Sound(st.d, st.table, st.used, R, F) /\ Pending(st, R, F)
    BY <1>3, <1>5
  <2>8. SectorAt(e, st.table, p) = a.new /\ Keeps(st.d, st.table, e, st.table, R, F)
    BY <1>3, <2>2, <2>3, <2>7, PutInode
  <2>9. Keeps(base.d, base.table, e, st.table, Q, F)
    BY <2>8, KeepsTrans DEF Grew
  <2>10. Sound(e, st.table, a.used, R \cup {p}, F)
    <3>1. a.used \subseteq DataSector
      BY <1>3 DEF Growths
    <3>2. a.new \notin F /\ \A q \in R : SectorAt(st.d, st.table, q) # a.new
      BY <1>3, <1>5, <2>7 DEF Sound
    <3>3. p[3] = -1
      BY DEF Way1
    <3>4. QED
      BY <1>3, <1>5, <2>7, <2>8, <3>1, <3>2, <3>3, AddPlace
  <2>11. Pending(r, R \cup {p}, F)
    BY <1>3, <1>5, <2>6, <2>7, <2>8 DEF Pending, Keeps
  <2>12. base.used \subseteq a.used
    BY <1>3 DEF Grew
  <2>13. QED
    BY <1>3, <1>5, <2>4, <2>6, <2>9, <2>10, <2>11, <2>12 DEF Grew
<1>6. QED
  BY <1>3, <1>4, <1>5 DEF Growths

\* A new table, named by the double indirect block.
LEMMA SubStep ==
  ASSUME NEW base \in Growths, NEW st, NEW Q, NEW R, NEW F,
         Grew(base, st, Q, F), Q \subseteq R,
         st.ok => Sound(st.d, st.table, st.used, R, F) /\ Pending(st, R, F),
         NEW o, Way2(o) \in Place2, Way2(o) \notin R, st.ok => Way1(o) \in R,
         NEW r, r = NameSubTable(free_map_allocate(st), o)
  PROVE  /\ Grew(base, r, Q, F)
         /\ r.ok => st.ok /\ Sound(r.d, r.table, r.used, R \cup {Way2(o)}, F)
                    /\ Pending(r, R \cup {Way2(o)}, F)
<1> DEFINE p == Way2(o)
<1>1. PICK a : a = free_map_allocate(st)
  OBVIOUS
<1>2. st \in Growths
  BY DEF Grew
<1>3. /\ a \in Growths /\ a.d = st.d /\ a.table = st.table /\ a.data = st.data
      /\ a.block = st.block /\ st.used \subseteq a.used
      /\ a.ok => st.ok /\ a.new \in a.used /\ a.new \notin st.used
  BY <1>1, <1>2, Allocates
<1>4. CASE ~ a.ok
  <2>1. r = a
    BY <1>1, <1>4 DEF NameSubTable
  <2>2. QED
    BY <1>3, <1>4, <2>1 DEF Grew
<1>5. CASE a.ok
  <2>1. r = [a EXCEPT !.table[a.d.sectors[o[1]]][o[2]] = a.new]
    BY <1>1, <1>5 DEF NameSubTable
  <2>2. /\ a.d \in Inodes /\ a.table \in Tables /\ a.new \in Int
        /\ p[1] = o[1] /\ p[2] = o[2] /\ Up1(p) = Way1(o)
    BY <1>3 DEF Growths, Way1, Way2, Up1
  <2>3. PICK t : t = At1(st.d, p)
    OBVIOUS
  <2>4. PICK tac : tac = [st.table EXCEPT ![t][p[2]] = a.new]
    OBVIOUS
  <2>5. r = [a EXCEPT !.table = tac]
    BY <1>3, <2>1, <2>2, <2>3, <2>4 DEF Growths, At1
  <2>6. Sound(st.d, st.table, st.used, R, F) /\ Pending(st, R, F)
    BY <1>3, <1>5
  <2>7. p \notin Place3
    BY PlaceShapes
  <2>8. tac \in Tables /\ SectorAt(st.d, tac, p) = a.new /\ Keeps(st.d, st.table, st.d, tac, R, F)
    <3>1. p \in Place2 \cup Place3 /\ p \notin R /\ Up1(p) \in R
      BY <1>3, <1>5, <2>2
    <3>2. st.d \in Inodes /\ st.table \in Tables
      BY <1>3, <2>2
    <3>3. Sound(st.d, st.table, st.used, R, F) /\ a.new \in Int
      BY <2>2, <2>6
    <3> HIDE DEF p
    <3>4. QED
      <4>1. t \in DataSector /\ p[2] \in Offset => RowPut(st.table, tac, t, p[2], a.new)
        BY <2>4, <3>2, <3>3, PutRow
      <4>2. QED
        BY <2>3, <2>7, <3>1, <3>2, <3>3, <4>1, PutTable
  <2>9. /\ r \in Growths /\ r.d = st.d /\ r.table = tac /\ r.used = a.used
        /\ r.block = st.block
    BY <1>3, <2>5, <2>8 DEF Growths
  <2>10. Keeps(base.d, base.table, st.d, tac, Q, F)
    BY <2>8, KeepsTrans DEF Grew
  <2>11. Sound(st.d, tac, a.used, R \cup {p}, F)
    <3>1. a.used \subseteq DataSector
      BY <1>3 DEF Growths
    <3>2. a.new \notin F /\ \A q \in R : SectorAt(st.d, st.table, q) # a.new
      BY <1>3, <1>5, <2>6 DEF Sound
    <3>3. p[3] = -1
      BY DEF Way2
    <3>4. QED
      BY <1>3, <1>5, <2>2, <2>6, <2>8, <3>1, <3>2, <3>3, AddPlace
  <2>12. Pending(r, R \cup {p}, F)
    BY <1>3, <1>5, <2>6, <2>8, <2>9 DEF Pending, Keeps
  <2>13. base.used \subseteq a.used
    BY <1>3 DEF Grew
  <2>14. QED
    BY <1>3, <1>5, <2>9, <2>10, <2>11, <2>12, <2>13 DEF Grew
<1>6. QED
  BY <1>3, <1>4, <1>5 DEF Growths

\* The data sector, named by the last slot on its way.
LastWay(o) == IF Len(o) = 1 THEN Way1(o) ELSE IF Len(o) = 2 THEN Way2(o) ELSE Way3(o)

LEMMA DataStep ==
  ASSUME NEW base \in Growths, NEW st, NEW Q, NEW R, NEW F,
         Grew(base, st, Q, F), Q \subseteq R,
         st.ok => Sound(st.d, st.table, st.used, R, F) /\ Pending(st, R, F),
         NEW o, Len(o) \in 1..3, LastWay(o) \notin R,
         Len(o) = 1 => Way1(o) \in Place1,
         Len(o) = 2 => Way2(o) \in Place2 /\ (st.ok => Way1(o) \in R),
         Len(o) = 3 => Way3(o) \in Place3 /\ (st.ok => Way1(o) \in R /\ Way2(o) \in R),
         NEW r, r = NameData(st, o)
  PROVE  /\ Grew(base, r, Q, F)
         /\ r.ok => st.ok /\ Sound(r.d, r.table, r.used, R \cup {LastWay(o)}, F)
<1> DEFINE p == LastWay(o)
<1>1. st \in Growths /\ st.d \in Inodes /\ st.table \in Tables /\ st.block \in Int
      /\ st.used \subseteq DataSector
  BY DEF Grew, Growths
<1>2. CASE ~ st.ok
  BY <1>2 DEF NameData
<1>3. ASSUME st.ok, NEW e \in Inodes, NEW tac \in Tables, r = [st EXCEPT !.d = e, !.table = tac],
             e.exists = st.d.exists, e.length = st.d.length,
             SectorAt(e, tac, p) = st.block, Keeps(st.d, st.table, e, tac, R, F),
             p \in Place1 \cup Place2 \cup Place3,
             p \notin Place1 => Up1(p) \in R, p[3] # -1 => Up2(p) \in R
      PROVE  Grew(base, r, Q, F) /\ Sound(r.d, r.table, r.used, R \cup {p}, F)
  <2>1. r \in Growths /\ r.d = e /\ r.table = tac /\ r.used = st.used
    BY <1>1, <1>3 DEF Growths
  <2>2. Keeps(base.d, base.table, e, tac, Q, F)
    BY <1>3, KeepsTrans DEF Grew
  <2>3. Sound(st.d, st.table, st.used, R, F) /\ Pending(st, R, F)
    BY <1>3
  <2>4. Sound(e, tac, st.used, R \cup {p}, F)
    <3>1. st.block \in st.used /\ st.block \notin F
          /\ \A q \in R : SectorAt(st.d, st.table, q) # st.block
      BY <2>3 DEF Pending
    <3>2. p \notin R
      OBVIOUS
    <3> HIDE DEF p
    <3>3. QED
      BY <1>1, <1>3, <2>3, <3>1, <3>2, AddPlace
  <2>5. QED
    BY <1>3, <2>1, <2>2, <2>4 DEF Grew
<1>4. CASE st.ok /\ Len(o) = 1
  <2>1. r = [st EXCEPT !.d.sectors[o[1]] = st.block]
    BY <1>4 DEF NameData
  <2>2. p = Way1(o) /\ p \in Place1 /\ p[1] = o[1] /\ p[3] = -1
    BY <1>4 DEF LastWay, Way1
  <2>3. PICK e : e = [st.d EXCEPT !.sectors[p[1]] = st.block]
    OBVIOUS
  <2>4. e \in Inodes /\ e.exists = st.d.exists /\ e.length = st.d.length
    BY <1>1, <2>3 DEF Inodes
  <2>5. r = [st EXCEPT !.d = e, !.table = st.table]
    BY <1>1, <2>1, <2>2, <2>3 DEF Growths
  <2>6. SectorAt(e, st.table, p) = st.block /\ Keeps(st.d, st.table, e, st.table, R, F)
    <3>1. p \notin R
      OBVIOUS
    <3> HIDE DEF p
    <3>2. QED
      BY <1>1, <1>4, <2>2, <2>3, <3>1, PutInode
  <2> HIDE DEF p
  <2>7. QED
    BY <1>1, <1>3, <1>4, <2>2, <2>4, <2>5, <2>6 DEF p
<1>5. ASSUME st.ok, Len(o) # 1, NEW t, NEW x,
             r = [st EXCEPT !.table[t][x] = st.block],
             p \in Place2 \cup Place3, Up1(p) \in R, p \in Place3 => Up2(p) \in R,
             p \in Place2 => t = At1(st.d, p) /\ x = p[2],
             p \in Place3 => t = At2(st.d, st.table, p) /\ x = p[3]
      PROVE  Grew(base, r, Q, F) /\ Sound(r.d, r.table, r.used, R \cup {p}, F)
  <2>1. PICK tac : tac = [st.table EXCEPT ![t][x] = st.block]
    OBVIOUS
  <2>2. /\ tac \in Tables /\ SectorAt(st.d, tac, p) = st.block
        /\ Keeps(st.d, st.table, st.d, tac, R, F)
    <3>1. p \notin R
      OBVIOUS
    <3> HIDE DEF p
    <3>2. QED
      <4>1. Sound(st.d, st.table, st.used, R, F)
        BY <1>5
      <4>2. t \in DataSector /\ x \in Offset => RowPut(st.table, tac, t, x, st.block)
        BY <1>1, <2>1, PutRow
      <4>3. QED
        BY <1>1, <1>5, <3>1, <4>1, <4>2, PutTable
  <2>3. r = [st EXCEPT !.d = st.d, !.table = tac]
    BY <1>1, <1>5, <2>1 DEF Growths
  <2>4. p[3] # -1 => Up2(p) \in R
    <3> HIDE DEF p
    <3>1. p \in Place2 => p[3] = -1
      BY DEF Place2
    <3>2. QED
      BY <1>5, <3>1
  <2> HIDE DEF p
  <2>5. QED
    BY <1>1, <1>3, <1>5, <2>2, <2>3, <2>4
<1>6. CASE st.ok /\ Len(o) = 2
  <2>1. r = [st EXCEPT !.table[st.d.sectors[o[1]]][o[2]] = st.block]
    BY <1>6 DEF NameData
  <2>2. p = Way2(o) /\ p \in Place2 /\ Up1(p) = Way1(o) /\ p[1] = o[1] /\ p[2] = o[2]
    BY <1>6 DEF LastWay, Way1, Way2, Up1
  <2>3. p \notin Place3
    BY <2>2, PlaceShapes DEF Way2
  <2>4. st.d.sectors[o[1]] = At1(st.d, p)
    BY <2>2 DEF At1
  <2> HIDE DEF p
  <2>5. QED
    BY <1>5, <1>6, <2>1, <2>2, <2>3, <2>4 DEF p
<1>7. CASE st.ok /\ Len(o) = 3
  <2>1. r = [st EXCEPT !.table[st.table[st.d.sectors[o[1]]][o[2]]][o[3]] = st.block]
    <3>1. st.ok /\ Len(o) # 1 /\ Len(o) # 2
      BY <1>7
    <3>2. QED
      BY <3>1, Zenon DEF NameData
  <2>2. /\ p = Way3(o) /\ p \in Place3 /\ Up1(p) = Way1(o) /\ Up2(p) = Way2(o)
        /\ p[1] = o[1] /\ p[2] = o[2] /\ p[3] = o[3]
    BY <1>7 DEF LastWay, Way1, Way2, Way3, Up1, Up2
  <2>3. p \notin Place2
    BY <2>2, PlaceShapes
  <2>4. PICK t : t = st.table[st.d.sectors[o[1]]][o[2]]
    OBVIOUS
  <2>5. t = At2(st.d, st.table, p) /\ r = [st EXCEPT !.table[t][o[3]] = st.block]
    BY <2>1, <2>2, <2>4 DEF At1, At2
  <2>6. Len(o) # 1 /\ Up1(p) \in R /\ Up2(p) \in R
    BY <1>7, <2>2
  <2> HIDE DEF p
  <2>7. Grew(base, r, Q, F) /\ Sound(r.d, r.table, r.used, R \cup {p}, F)
    BY <1>5, <1>7, <2>2, <2>3, <2>5, <2>6
  <2>8. QED
    BY <1>7, <2>7 DEF p
<1>8. Len(o) = 1 \/ Len(o) = 2 \/ Len(o) = 3
  OBVIOUS
<1>9. QED
  BY <1>2, <1>4, <1>6, <1>7, <1>8

\* extend_file() makes the places that sector n is the first to need, a table
\* before what it holds.
NeedsTop(o) == Len(o) > 1 /\ \A i \in 2..Len(o) : o[i] = 0
NeedsSub(o) == Len(o) = 3 /\ o[3] = 0
WithTop(n, o) == Needed(n) \cup (IF NeedsTop(o) THEN {Way1(o)} ELSE {})
WithSub(n, o) == WithTop(n, o) \cup (IF NeedsSub(o) THEN {Way2(o)} ELSE {})

LEMMA Ways ==
  ASSUME NEW n \in Nat, n < SPAN, NEW o, o = calculate_indices(n)
  PROVE  /\ Len(o) \in 1..3
         /\ NeedsTop(o) => Way1(o) \in Place1 /\ Way1(o) \notin Needed(n)
         /\ NeedsSub(o) => Way2(o) \in Place2 /\ Way2(o) \notin WithTop(n, o) /\ Way1(o) \in WithTop(n, o)
         /\ LastWay(o) \notin WithSub(n, o)
         /\ Len(o) = 1 => Way1(o) \in Place1
         /\ Len(o) = 2 => Way2(o) \in Place2 /\ Way1(o) \in WithSub(n, o)
         /\ Len(o) = 3 => Way3(o) \in Place3 /\ Way1(o) \in WithSub(n, o) /\ Way2(o) \in WithSub(n, o)
         /\ WithSub(n, o) \cup {LastWay(o)} = Needed(n + 1)
<1> DEFINE New == {p \in AllPlaces : First(p) = n}
<1>1. Needed(n + 1) = Needed(n) \cup New /\ \A p \in New : p \notin Needed(n)
  BY FirstNat DEF Needed
<1>2. o \in Seq(Nat) /\ Len(o) \in 1..3 /\ \A i \in 2..Len(o) : o[i] \in Offset
  BY NewPlaces
<1>3. Len(o) = 1 => New = {Way1(o)} /\ Way1(o) \in Place1
  BY NewPlaces
<1>4. Len(o) = 2 => /\ Way1(o) \in Place1 /\ Way2(o) \in Place2
                    /\ New = {Way2(o)} \cup (IF o[2] = 0 THEN {Way1(o)} ELSE {})
  BY NewPlaces
<1>5. Len(o) = 3 => /\ Way1(o) \in Place1 /\ Way2(o) \in Place2 /\ Way3(o) \in Place3
                    /\ New = {Way3(o)} \cup (IF o[3] = 0 THEN {Way2(o)} ELSE {})
                               \cup (IF o[2] = 0 /\ o[3] = 0 THEN {Way1(o)} ELSE {})
  BY NewPlaces
<1>6. /\ Len(o) > 1 => o[2] # -1 /\ Way1(o) # Way2(o)
      /\ Len(o) = 3 => o[3] # -1 /\ Way1(o) # Way3(o) /\ Way2(o) # Way3(o)
  <2>1. Len(o) > 1 => o[2] \in Offset
    BY <1>2
  <2>2. Len(o) = 3 => o[3] \in Offset
    BY <1>2
  <2>3. QED
    BY InodeAssumption, <2>1, <2>2 DEF Offset, Way1, Way2, Way3
<1> HIDE DEF New
<1>7. CASE Len(o) = 1
  <2>1. ~ NeedsTop(o) /\ ~ NeedsSub(o) /\ LastWay(o) = Way1(o)
    BY <1>7 DEF NeedsTop, NeedsSub, LastWay
  <2>2. WithTop(n, o) = Needed(n) /\ WithSub(n, o) = Needed(n)
    BY <2>1 DEF WithTop, WithSub
  <2>3. QED
    BY <1>1, <1>2, <1>3, <1>7, <2>1, <2>2
<1>8. CASE Len(o) = 2
  <2>1. (NeedsTop(o) <=> o[2] = 0) /\ ~ NeedsSub(o) /\ LastWay(o) = Way2(o)
    BY <1>8 DEF NeedsTop, NeedsSub, LastWay
  <2>2. Way1(o) \in Needed(n + 1)
    <3>1. Way2(o) \in Needed(n + 1) /\ Up1(Way2(o)) = Way1(o)
      BY <1>1, <1>4, <1>8 DEF Up1, Way1, Way2
    <3>2. QED
      BY <3>1, NeededClosed
  <2>3. WithSub(n, o) = WithTop(n, o) /\ WithTop(n, o) = Needed(n) \cup (IF o[2] = 0 THEN {Way1(o)} ELSE {})
    BY <2>1 DEF WithTop, WithSub
  <2>4. QED
    BY <1>1, <1>2, <1>4, <1>6, <1>8, <2>1, <2>2, <2>3
<1>9. CASE Len(o) = 3
  <2>1. (NeedsTop(o) <=> o[2] = 0 /\ o[3] = 0) /\ (NeedsSub(o) <=> o[3] = 0) /\ LastWay(o) = Way3(o)
    BY <1>9 DEF NeedsTop, NeedsSub, LastWay
  <2>2. Way1(o) \in Needed(n + 1) /\ Way2(o) \in Needed(n + 1)
    <3>1. Way3(o) \in Needed(n + 1) /\ Up1(Way3(o)) = Way1(o) /\ Up2(Way3(o)) = Way2(o) /\ Way3(o)[3] # -1
      BY <1>1, <1>5, <1>6, <1>9 DEF Up1, Up2, Way1, Way2, Way3
    <3>2. QED
      BY <3>1, NeededClosed
  <2>3. /\ WithTop(n, o) = Needed(n) \cup (IF o[2] = 0 /\ o[3] = 0 THEN {Way1(o)} ELSE {})
        /\ WithSub(n, o) = WithTop(n, o) \cup (IF o[3] = 0 THEN {Way2(o)} ELSE {})
    BY <2>1 DEF WithTop, WithSub
  <2>4. QED
    BY <1>1, <1>2, <1>5, <1>6, <1>9, <2>1, <2>2, <2>3
<1>10. QED
  BY <1>2, <1>7, <1>8, <1>9

LEMMA AddStep ==
  ASSUME NEW base \in Growths, NEW st, NEW Q, NEW F, NEW n \in Nat, n < SPAN,
         Grew(base, st, Q, F), Q \subseteq Needed(n),
         st.ok => Sound(st.d, st.table, st.used, Needed(n), F),
         NEW r, r = AddSector(st, n)
  PROVE  /\ Grew(base, r, Q, F)
         /\ r.ok => Sound(r.d, r.table, r.used, Needed(n + 1), F)
<1>1. PICK o : o = calculate_indices(n)
  OBVIOUS
<1>2. PICK a : a = free_map_allocate(st)
  OBVIOUS
<1>3. PICK z : z = ZeroData(a)
  OBVIOUS
<1>4. PICK y : y = TopTable(z, o)
  OBVIOUS
<1>5. PICK x : x = SubTable(y, o)
  OBVIOUS
<1>6. r = NameData(x, o)
  BY <1>1, <1>2, <1>3, <1>4, <1>5 DEF AddSector, Place
<1>7. /\ a \in Growths /\ a.d = st.d /\ a.table = st.table /\ a.data = st.data
      /\ a.block = st.block /\ st.used \subseteq a.used
      /\ a.ok => st.ok /\ a.new \in a.used /\ a.new \notin st.used
  BY <1>2, Allocates DEF Grew
<1>8. /\ z \in Growths /\ z.d = a.d /\ z.table = a.table /\ z.used = a.used /\ z.ok = a.ok
      /\ z.ok => z.block = a.new
  <2>1. CASE ~ a.ok
    BY <1>3, <1>7, <2>1 DEF ZeroData
  <2>2. CASE a.ok
    <3>1. z = [a EXCEPT !.data[a.new] = Zeroed, !.block = a.new]
      BY <1>3, <2>2 DEF ZeroData
    <3>2. Zeroed \in [0..(BLOCK_SECTOR_SIZE - 1) -> Byte \cup {0}]
      BY DEF Zeroed
    <3>3. PICK w : w = [a.data EXCEPT ![a.new] = Zeroed]
      OBVIOUS
    <3>4. w \in [DataSector -> [0..(BLOCK_SECTOR_SIZE - 1) -> Byte \cup {0}]]
      BY <1>7, <3>2, <3>3 DEF Growths
    <3>5. z = [a EXCEPT !.data = w, !.block = a.new]
      BY <1>7, <3>1, <3>3 DEF Growths
    <3>6. QED
      BY <1>7, <3>4, <3>5 DEF Growths
  <2>3. QED
    BY <2>1, <2>2
<1>9. Grew(base, z, Q, F)
  BY <1>7, <1>8 DEF Grew
<1>10. z.ok => Sound(z.d, z.table, z.used, Needed(n), F) /\ Pending(z, Needed(n), F)
  <2>1. SUFFICES ASSUME z.ok PROVE Sound(z.d, z.table, z.used, Needed(n), F) /\ Pending(z, Needed(n), F)
    OBVIOUS
  <2>2. Sound(st.d, st.table, st.used, Needed(n), F)
    BY <1>7, <1>8, <2>1
  <2>3. z.used \subseteq DataSector
    BY <1>8 DEF Growths
  <2>4. Sound(z.d, z.table, z.used, Needed(n), F)
    BY <1>7, <1>8, <2>2, <2>3 DEF Sound
  <2>5. Pending(z, Needed(n), F)
    BY <1>7, <1>8, <2>1, <2>2 DEF Sound, Pending
  <2>6. QED
    BY <2>4, <2>5
<1>11. /\ Grew(base, y, Q, F)
       /\ y.ok => Sound(y.d, y.table, y.used, WithTop(n, o), F) /\ Pending(y, WithTop(n, o), F)
  <2>1. CASE NeedsTop(o)
    <3>1. y = NameTable(free_map_allocate(z), o)
      BY <1>4, <2>1 DEF TopTable, NeedsTop
    <3>2. WithTop(n, o) = Needed(n) \cup {Way1(o)}
      BY <2>1 DEF WithTop
    <3>3. Way1(o) \in Place1 /\ Way1(o) \notin Needed(n)
      BY <1>1, <2>1, Ways
    <3>4. QED
      BY <1>9, <1>10, <3>1, <3>2, <3>3, TopStep
  <2>2. CASE ~ NeedsTop(o)
    <3>1. y = z
      BY <1>4, <2>2 DEF TopTable, NeedsTop
    <3>2. WithTop(n, o) = Needed(n)
      BY <2>2 DEF WithTop
    <3>3. QED
      BY <1>9, <1>10, <3>1, <3>2
  <2>3. QED
    BY <2>1, <2>2
<1>12. /\ Grew(base, x, Q, F)
       /\ x.ok => Sound(x.d, x.table, x.used, WithSub(n, o), F) /\ Pending(x, WithSub(n, o), F)
  <2>1. CASE NeedsSub(o)
    <3>1. x = NameSubTable(free_map_allocate(y), o)
      BY <1>5, <2>1 DEF SubTable, NeedsSub
    <3>2. WithSub(n, o) = WithTop(n, o) \cup {Way2(o)}
      BY <2>1 DEF WithSub
    <3>3. Way2(o) \in Place2 /\ Way2(o) \notin WithTop(n, o) /\ Way1(o) \in WithTop(n, o)
      BY <1>1, <2>1, Ways
    <3>4. Q \subseteq WithTop(n, o)
      BY DEF WithTop
    <3>5. PICK R : R = WithTop(n, o)
      OBVIOUS
    <3>6. /\ Grew(base, y, Q, F) /\ Q \subseteq R
          /\ y.ok => Sound(y.d, y.table, y.used, R, F) /\ Pending(y, R, F)
          /\ Way2(o) \in Place2 /\ Way2(o) \notin R /\ Way1(o) \in R
      BY <1>11, <3>3, <3>4, <3>5
    <3>7. /\ Grew(base, x, Q, F)
          /\ x.ok => Sound(x.d, x.table, x.used, R \cup {Way2(o)}, F) /\ Pending(x, R \cup {Way2(o)}, F)
      BY <3>1, <3>6, SubStep
    <3>8. QED
      BY <3>2, <3>5, <3>7
  <2>2. CASE ~ NeedsSub(o)
    <3>1. x = y
      BY <1>5, <2>2 DEF SubTable, NeedsSub
    <3>2. WithSub(n, o) = WithTop(n, o)
      BY <2>2 DEF WithSub
    <3>3. QED
      BY <1>11, <3>1, <3>2
  <2>3. QED
    BY <2>1, <2>2
<1>13. /\ Grew(base, r, Q, F)
       /\ r.ok => Sound(r.d, r.table, r.used, WithSub(n, o) \cup {LastWay(o)}, F)
  <2>1. Q \subseteq WithSub(n, o)
    BY DEF WithSub, WithTop
  <2>2. /\ Len(o) \in 1..3 /\ LastWay(o) \notin WithSub(n, o)
        /\ Len(o) = 1 => Way1(o) \in Place1
        /\ Len(o) = 2 => Way2(o) \in Place2 /\ Way1(o) \in WithSub(n, o)
        /\ Len(o) = 3 => Way3(o) \in Place3 /\ Way1(o) \in WithSub(n, o) /\ Way2(o) \in WithSub(n, o)
    BY <1>1, Ways
  <2>3. QED
    BY <1>6, <1>12, <2>1, <2>2, DataStep
<1>14. WithSub(n, o) \cup {LastWay(o)} = Needed(n + 1)
  BY <1>1, Ways
<1>15. QED
  BY <1>13, <1>14

\* After i turns from the state base, whose file has n sectors.
Turned(base, st, n, i, F) ==
  /\ Grew(base, st, Needed(n), F)
  /\ st.ok => Sound(st.d, st.table, st.used, Needed(n + i), F)

LEMMA NeededGrows ==
  ASSUME NEW m \in Nat, NEW n \in Nat, m <= n PROVE Needed(m) \subseteq Needed(n)
BY FirstNat DEF Needed

LEMMA TurnsGood ==
  ASSUME NEW base \in Growths, NEW n \in Nat, NEW cnt \in Nat, n + cnt <= SPAN,
         NEW F, NEW g, g[0] = base, Turned(base, base, n, 0, F),
         \A i \in 1..cnt : Turned(base, g[i - 1], n, i - 1, F) => g[i] = AddSector(g[i - 1], n + i - 1)
  PROVE  \A i \in 0..cnt : Turned(base, g[i], n, i, F)
<1> DEFINE bad == {i \in 0..cnt : ~ Turned(base, g[i], n, i, F)}
<1>1. SUFFICES ASSUME bad # {} PROVE FALSE
  OBVIOUS
<1>2. PICK i \in bad : \A k \in bad : i <= k
  <2>1. bad \in SUBSET Nat
    OBVIOUS
  <2> HIDE DEF bad
  <2>2. QED
    BY <1>1, <2>1, LeastNat
<1>3. i \in 0..cnt /\ ~ Turned(base, g[i], n, i, F)
  OBVIOUS
<1>4. CASE i = 0
  BY <1>3, <1>4
<1>5. CASE i # 0
  <2>1. i \in 1..cnt /\ i - 1 \in 0..cnt /\ ~ (i <= i - 1)
    BY <1>3, <1>5
  <2>2. Turned(base, g[i - 1], n, i - 1, F)
    BY <1>2, <2>1
  <2>3. PICK st, r : st = g[i - 1] /\ r = g[i]
    OBVIOUS
  <2>4. PICK m \in Nat : m = n + i - 1 /\ m = n + (i - 1) /\ m + 1 = n + i /\ m < SPAN
    BY InodeAssumption, <2>1 DEF SPAN
  <2>5. r = AddSector(st, m)
    BY <2>1, <2>2, <2>3, <2>4
  <2>6. Needed(n) \subseteq Needed(m)
    BY <2>1, <2>4, NeededGrows
  <2>7. Grew(base, st, Needed(n), F) /\ (st.ok => Sound(st.d, st.table, st.used, Needed(m), F))
    BY <2>2, <2>3, <2>4 DEF Turned
  <2>8. Grew(base, r, Needed(n), F) /\ (r.ok => Sound(r.d, r.table, r.used, Needed(m + 1), F))
    BY <2>4, <2>5, <2>6, <2>7, AddStep
  <2>9. Turned(base, g[i], n, i, F)
    BY <2>3, <2>4, <2>8 DEF Turned
  <2>10. QED
    BY <1>3, <2>9
<1>6. QED
  BY <1>4, <1>5

\* The loop of extend_file().
LEMMA LoopGrows ==
  ASSUME NEW base \in Growths, NEW n \in Nat, NEW cnt \in Nat, n + cnt <= SPAN,
         NEW F, Turned(base, base, n, 0, F)
  PROVE  LET Steps(f) == f = [i \in 0..cnt |-> IF i = 0 THEN base
                                              ELSE AddSector(f[i - 1], n + i - 1)]
         IN  Turned(base, (CHOOSE f : Steps(f))[cnt], n, cnt, F)
<1> DEFINE Steps(f) == f = [i \in 0..cnt |-> IF i = 0 THEN base
                                            ELSE AddSector(f[i - 1], n + i - 1)]
           Good(st, i) == Turned(base, st, n, i, F)
           add(st, i) == AddSector(st, n + i - 1)
           G == [z \in Growths \X Nat |->
                   IF z[2] \in 1..cnt /\ Good(z[1], z[2] - 1) THEN add(z[1], z[2]) ELSE z[1]]
<1>1. ASSUME NEW st, NEW i \in 1..cnt, Good(st, i - 1) PROVE add(st, i) \in Growths
  <2>1. PICK m \in Nat : m = n + i - 1 /\ m = n + (i - 1) /\ m < SPAN /\ n <= m
    BY InodeAssumption DEF SPAN
  <2>2. Needed(n) \subseteq Needed(m)
    BY <2>1, NeededGrows
  <2>3. PICK r : r = AddSector(st, m)
    OBVIOUS
  <2>4. Grew(base, r, Needed(n), F)
    BY <1>1, <2>1, <2>2, <2>3, AddStep DEF Turned
  <2>5. QED
    BY <2>1, <2>3, <2>4 DEF Grew
<1> HIDE DEF add, Good
<1>2. G \in [Growths \X Nat -> Growths]
  BY <1>1
<1>3. PICK f : /\ f \in [0..cnt -> Growths]
               /\ f = [i \in 0..cnt |-> IF i = 0 THEN base ELSE G[<<f[i - 1], i>>]]
  <2> HIDE DEF G
  <2>1. \E h : Loops(h, Growths, base, G, cnt)
    BY <1>2, LoopExists
  <2>2. QED
    BY <2>1 DEF Loops
<1>4. f[0] = base /\ \A i \in 1..cnt : f[i] = G[<<f[i - 1], i>>]
  <2>1. 0 \in 0..cnt /\ \A i \in 1..cnt : i \in 0..cnt /\ i # 0
    OBVIOUS
  <2> HIDE DEF G
  <2>2. QED
    BY <1>3, <2>1
<1>5. ASSUME NEW i \in 1..cnt, Good(f[i - 1], i - 1) PROVE f[i] = add(f[i - 1], i)
  <2>1. f[i - 1] \in Growths /\ i \in Nat /\ <<f[i - 1], i>> \in Growths \X Nat
    <3>1. f \in [0..cnt -> Growths]
      BY <1>3
    <3>2. i - 1 \in 0..cnt /\ i \in Nat
      OBVIOUS
    <3>3. QED
      BY <3>1, <3>2
  <2>2. QED
    BY <1>4, <1>5, <2>1
<1>6. \A i \in 0..cnt : Good(f[i], i)
  <2>1. \A i \in 1..cnt : Turned(base, f[i - 1], n, i - 1, F) => f[i] = AddSector(f[i - 1], n + i - 1)
    BY <1>5 DEF Good, add
  <2>2. QED
    BY <1>4, <2>1, TurnsGood DEF Good
<1>7. Steps(f)
  <2>1. \A i \in 0..cnt : i # 0 => i \in 1..cnt /\ i - 1 \in 0..cnt
    OBVIOUS
  <2>2. ASSUME NEW i \in 0..cnt, i # 0 PROVE f[i] = AddSector(f[i - 1], n + i - 1)
    BY <1>5, <1>6, <2>1, <2>2 DEF add
  <2>3. f = [i \in 0..cnt |-> f[i]]
    BY <1>3
  <2>4. [i \in 0..cnt |-> f[i]] =
        [i \in 0..cnt |-> IF i = 0 THEN base ELSE AddSector(f[i - 1], n + i - 1)]
    BY <1>4, <2>2
  <2>5. QED
    BY <2>3, <2>4
<1>8. PICK g : g = (CHOOSE h : Steps(h)) /\ Steps(g)
  BY <1>7
<1>9. g[0] = base /\ \A i \in 1..cnt : g[i] = AddSector(g[i - 1], n + i - 1)
  <2>1. g = [i \in 0..cnt |-> IF i = 0 THEN base ELSE AddSector(g[i - 1], n + i - 1)]
    BY <1>8
  <2>2. 0 \in 0..cnt /\ \A i \in 1..cnt : i \in 0..cnt /\ i # 0
    OBVIOUS
  <2>3. QED
    BY <2>1, <2>2
<1>10. Turned(base, g[cnt], n, cnt, F)
  BY <1>9, TurnsGood
<1>11. QED
  BY <1>8, <1>10

LEMMA LastInSpan ==
  ASSUME NEW length \in Nat
  PROVE  /\ LastSector(length) \in Nat
         /\ length <= INODE_SPAN => LastSector(length) < SPAN
<1>1. PICK B \in Nat : B = BLOCK_SECTOR_SIZE /\ B > 0
  BY InodeAssumption
<1>2. PICK S \in Nat : S = SPAN /\ S > 0
  <2>1. PTRS_PER_SECTOR * PTRS_PER_SECTOR \in Nat
    BY InodeAssumption
  <2>2. QED
    BY InodeAssumption, <2>1 DEF SPAN
<1>3. CASE length < 1
  BY <1>2, <1>3 DEF LastSector
<1>4. CASE length >= 1
  <2>1. PICK q, m : q = (length - 1) \div B /\ m = (length - 1) % B
    OBVIOUS
  <2>2. q \in Nat /\ m \in Nat /\ m < B /\ length - 1 = B * q + m
    BY <1>1, <1>4, <2>1
  <2>3. LastSector(length) = q
    BY <1>1, <1>4, <2>1 DEF LastSector
  <2>4. ASSUME length <= S * B PROVE q < S
    <3>1. SUFFICES ASSUME q >= S PROVE FALSE
      BY <1>2, <2>2
    <3>2. B * q >= B * S
      BY <1>1, <1>2, <2>2, <3>1
    <3>3. B * S = S * B /\ B * q \in Nat /\ S * B \in Nat
      BY <1>1, <1>2, <2>2
    <3>4. QED
      BY <1>1, <1>4, <2>2, <2>4, <3>2, <3>3
  <2>5. QED
    BY <1>1, <1>2, <2>2, <2>3, <2>4 DEF INODE_SPAN
<1>5. QED
  BY <1>3, <1>4

\* What extend_file() leaves, whether or not it got all the sectors it wanted.
SectorCount(d) == IF d.length = -1 THEN 0 ELSE LastSector(d.length) + 1

Extended(d, r, n, F) ==
  /\ r.d \in Inodes /\ r.table \in Tables /\ r.used \subseteq DataSector /\ used \subseteq r.used
  /\ r.data \in [DataSector -> [0..(BLOCK_SECTOR_SIZE - 1) -> Byte \cup {0}]]
  /\ Keeps(d, table, r.d, r.table, Needed(n), F)
  /\ r.ok => /\ r.d.exists = d.exists /\ r.d.length \in 0..INODE_SPAN
             /\ Sound(r.d, r.table, r.used, Needed(SectorCount(r.d)), F)

LEMMA SameSectors ==
  ASSUME NEW d, NEW e, e.sectors = d.sectors, NEW tab, NEW u, NEW Q, NEW F
  PROVE  /\ Keeps(d, tab, e, tab, Q, F)
         /\ Sound(d, tab, u, Q, F) => Sound(e, tab, u, Q, F)
<1>1. \A p : SectorAt(e, tab, p) = SectorAt(d, tab, p) /\ At1(e, p) = At1(d, p)
  BY DEF SectorAt, At1, At2, At3
<1>2. Keeps(d, tab, e, tab, Q, F)
  BY <1>1 DEF Keeps
<1>3. ASSUME Sound(d, tab, u, Q, F) PROVE Sound(e, tab, u, Q, F)
  BY <1>1, <1>3 DEF Sound
<1>4. QED
  BY <1>2, <1>3

LEMMA Extends ==
  ASSUME NEW d \in Inodes, d.length \in {-1} \cup 0..INODE_SPAN, NEW length \in Nat,
         table \in Tables, used \subseteq DataSector,
         data \in [DataSector -> [0..(BLOCK_SECTOR_SIZE - 1) -> Byte \cup {0}]],
         NEW F, Sound(d, table, used, Needed(SectorCount(d)), F)
  PROVE  Extended(d, extend_file(d, length), SectorCount(d), F)
<1> DEFINE now == [d |-> d, table |-> table, data |-> data, used |-> used, new |-> 0,
                   block |-> 0, ok |-> TRUE]
           n == IF d.length = -1 THEN 0 ELSE LastSector(d.length) + 1
           to == LastSector(length)
           Steps(f) == f = [i \in 0..(to + 1 - n) |-> IF i = 0 THEN now
                                               ELSE AddSector(f[i - 1], n + i - 1)]
           all == (CHOOSE f : Steps(f))[to + 1 - n]
<1>1. extend_file(d, length) =
        IF length > INODE_SPAN THEN [now EXCEPT !.ok = FALSE]
        ELSE IF to < n
          THEN IF to = LastSector(d.length) /\ d.length < length
                 THEN [now EXCEPT !.d.length = length] ELSE now
        ELSE IF all.ok THEN [all EXCEPT !.d.length = length] ELSE all
  BY DEF extend_file
<1> HIDE DEF all
<1>2. n = SectorCount(d) /\ to \in Nat /\ n \in Nat
  BY LastInSpan DEF SectorCount
<1>3. now \in Growths
  BY DEF Growths
<1>4. now.d = d /\ now.table = table /\ now.data = data /\ now.used = used /\ now.ok = TRUE
  OBVIOUS
<1> HIDE DEF now
<1>5. Keeps(d, table, d, table, Needed(n), F)
  BY DEF Keeps
<1> HIDE DEF n, to
<1>6. PICK r : r = extend_file(d, length)
  OBVIOUS
<1>7. CASE length > INODE_SPAN
  <2>1. r = [now EXCEPT !.ok = FALSE]
    BY <1>1, <1>6, <1>7
  <2>2. r.d = d /\ r.table = table /\ r.data = data /\ r.used = used /\ r.ok = FALSE
    BY <1>3, <1>4, <2>1 DEF Growths
  <2>3. QED
    BY <1>2, <1>5, <1>6, <2>2 DEF Extended
<1>8. CASE ~ length > INODE_SPAN /\ to < n
  <2>1. d.length # -1 /\ d.length \in 0..INODE_SPAN /\ n = LastSector(d.length) + 1
    BY <1>2, <1>8 DEF n
  <2>2. INODE_SPAN \in Nat
    <3>1. PTRS_PER_SECTOR * PTRS_PER_SECTOR \in Nat
      BY InodeAssumption
    <3>2. SPAN \in Nat
      BY InodeAssumption, <3>1 DEF SPAN
    <3>3. QED
      BY InodeAssumption, <3>2 DEF INODE_SPAN
  <2>3. CASE to = LastSector(d.length) /\ d.length < length
    <3>1. r = [now EXCEPT !.d.length = length]
      BY <1>1, <1>6, <1>8, <2>3
    <3>2. PICK e : e = [d EXCEPT !.length = length]
      OBVIOUS
    <3>3. e \in Inodes /\ e.sectors = d.sectors /\ e.exists = d.exists /\ e.length = length
      BY <3>2 DEF Inodes
    <3>4. r = [now EXCEPT !.d = e]
      BY <1>3, <1>4, <3>1, <3>2 DEF Growths
    <3>5. r.d = e /\ r.table = table /\ r.data = data /\ r.used = used
      BY <1>3, <1>4, <3>4 DEF Growths
    <3>6. length \in 0..INODE_SPAN /\ length # -1 /\ SectorCount(e) = n
      BY <1>8, <2>1, <2>2, <2>3, <3>3 DEF SectorCount, to
    <3>7. Keeps(d, table, e, table, Needed(n), F) /\ Sound(e, table, used, Needed(n), F)
      BY <1>2, <3>3, SameSectors
    <3>8. QED
      BY <1>2, <1>6, <3>3, <3>5, <3>6, <3>7 DEF Extended
  <2>4. CASE ~ (to = LastSector(d.length) /\ d.length < length)
    <3>1. r = now
      BY <1>1, <1>6, <1>8, <2>4
    <3>2. QED
      BY <1>2, <1>4, <1>5, <1>6, <2>1, <3>1 DEF Extended
  <2>5. QED
    BY <2>3, <2>4
<1>9. CASE ~ length > INODE_SPAN /\ ~ to < n
  <2>1. PICK cnt \in Nat : cnt = to + 1 - n
    BY <1>2, <1>9
  <2>2. INODE_SPAN \in Nat /\ SPAN \in Nat
    <3>1. PTRS_PER_SECTOR * PTRS_PER_SECTOR \in Nat
      BY InodeAssumption
    <3>2. SPAN \in Nat
      BY InodeAssumption, <3>1 DEF SPAN
    <3>3. QED
      BY InodeAssumption, <3>2 DEF INODE_SPAN
  <2>3. length <= INODE_SPAN /\ to < SPAN /\ n + cnt = to + 1 /\ n + cnt <= SPAN
    <3>1. length <= INODE_SPAN
      BY <1>9, <2>2
    <3>2. to < SPAN
      BY <3>1, LastInSpan DEF to
    <3>3. QED
      BY <1>2, <2>1, <2>2, <3>1, <3>2
  <2>4. Turned(now, now, n, 0, F)
    BY <1>2, <1>3, <1>4, <1>5 DEF Turned, Grew
  <2>5. Turned(now, all, n, cnt, F)
    <3>1. PICK last : last = (CHOOSE f : f = [i \in 0..cnt |-> IF i = 0 THEN now
                                              ELSE AddSector(f[i - 1], n + i - 1)])[cnt]
      OBVIOUS
    <3>2. all = last
      BY <2>1, <3>1 DEF all
    <3>3. Turned(now, last, n, cnt, F)
      BY <1>2, <1>3, <2>1, <2>3, <2>4, <3>1, LoopGrows
    <3>4. QED
      BY <3>2, <3>3
  <2>6. /\ all \in Growths /\ used \subseteq all.used
        /\ Keeps(d, table, all.d, all.table, Needed(n), F)
        /\ all.d.exists = d.exists
        /\ all.ok => Sound(all.d, all.table, all.used, Needed(to + 1), F)
    BY <1>4, <2>3, <2>5 DEF Turned, Grew
  <2>7. all.d \in Inodes /\ all.table \in Tables /\ all.used \subseteq DataSector
        /\ all.data \in [DataSector -> [0..(BLOCK_SECTOR_SIZE - 1) -> Byte \cup {0}]]
    BY <2>6 DEF Growths
  <2>8. CASE ~ all.ok
    <3>1. r = all
      BY <1>1, <1>6, <1>9, <2>8
    <3>2. QED
      BY <1>2, <1>6, <2>6, <2>7, <2>8, <3>1 DEF Extended
  <2>9. CASE all.ok
    <3>1. r = [all EXCEPT !.d.length = length]
      BY <1>1, <1>6, <1>9, <2>9
    <3>2. PICK e : e = [all.d EXCEPT !.length = length]
      OBVIOUS
    <3>3. e \in Inodes /\ e.sectors = all.d.sectors /\ e.exists = d.exists /\ e.length = length
      BY <2>6, <2>7, <3>2 DEF Inodes
    <3>4. r = [all EXCEPT !.d = e]
      BY <2>6, <3>1, <3>2 DEF Growths
    <3>5. r.d = e /\ r.table = all.table /\ r.data = all.data /\ r.used = all.used
      BY <2>6, <3>4 DEF Growths
    <3>6. length \in 0..INODE_SPAN /\ SectorCount(e) = to + 1
      BY <2>2, <2>3, <3>3 DEF SectorCount, to
    <3>7. /\ Keeps(all.d, all.table, e, all.table, Needed(n), F)
          /\ Sound(e, all.table, all.used, Needed(to + 1), F)
      BY <2>6, <2>9, <3>3, SameSectors
    <3>8. Keeps(d, table, e, all.table, Needed(n), F)
      BY <2>6, <3>7, KeepsTrans
    <3>9. QED
      BY <1>2, <1>6, <2>6, <2>7, <3>3, <3>5, <3>6, <3>7, <3>8 DEF Extended
  <2>10. QED
    BY <2>8, <2>9
<1>10. QED
  BY <1>7, <1>8, <1>9

-----------------------------------------------------------------------------
(* The invariant: files apart.                                             *)

Owned(d, tab) == {SectorAt(d, tab, p) : p \in Needed(SectorCount(d))}
OtherFiles(ino, f) == {g \in File \ {f} : ino[g].exists}
Foreign(ino, tab, f) == UNION {Owned(ino[g], tab) : g \in OtherFiles(ino, f)}

Datas == [DataSector -> [0..(BLOCK_SECTOR_SIZE - 1) -> Byte \cup {0}]]

\* Every file has the places its length needs, each with a sector of its own
\* that no other file has.
FilesApart(ino, tab, u) ==
  \A f \in File : ino[f].exists =>
    /\ ino[f].length \in 0..INODE_SPAN
    /\ Sound(ino[f], tab, u, Needed(SectorCount(ino[f])), Foreign(ino, tab, f))

IndexInv ==
  stopped = "no" =>
    /\ inode \in [File -> Inodes] /\ table \in Tables /\ used \subseteq DataSector /\ data \in Datas
    /\ FilesApart(inode, table, used)
    /\ \A f \in File : ~ inode[f].exists => inode[f].length = 0

LEMMA CountNat ==
  ASSUME NEW d, d.length \in {-1} \cup 0..INODE_SPAN
  PROVE  SectorCount(d) \in Nat /\ SectorCount(d) <= SPAN
<1>1. PTRS_PER_SECTOR * PTRS_PER_SECTOR \in Nat
  BY InodeAssumption
<1>2. SPAN \in Nat
  BY InodeAssumption, <1>1 DEF SPAN
<1>3. INODE_SPAN \in Nat
  BY InodeAssumption, <1>2 DEF INODE_SPAN
<1>4. CASE d.length = -1
  BY <1>2, <1>4 DEF SectorCount
<1>5. CASE d.length # -1
  <2>1. d.length \in Nat /\ d.length <= INODE_SPAN
    BY <1>3, <1>5
  <2>2. LastSector(d.length) \in Nat /\ LastSector(d.length) < SPAN
    BY <2>1, LastInSpan
  <2>3. QED
    BY <1>2, <1>5, <2>2 DEF SectorCount
<1>6. QED
  BY <1>4, <1>5

\* A file keeps its sectors when no table it has changes.
LEMMA Framed ==
  ASSUME NEW d, NEW tab, NEW tac, NEW n \in Nat,
         \A p \in Needed(n) : tac[SectorAt(d, tab, p)] = tab[SectorAt(d, tab, p)]
  PROVE  \A p \in Needed(n) : SectorAt(d, tac, p) = SectorAt(d, tab, p)
<1>1. SUFFICES ASSUME NEW p \in Needed(n) PROVE SectorAt(d, tac, p) = SectorAt(d, tab, p)
  OBVIOUS
<1>2. p \in Place1 \cup Place2 \cup Place3
  BY DEF Needed, AllPlaces
<1>3. Up1(p) \in Needed(n) /\ SectorAt(d, tab, Up1(p)) = At1(d, p)
  BY <1>2, NeededClosed, Shape
<1>4. At2(d, tac, p) = At2(d, tab, p)
  BY <1>3 DEF At2
<1>5. CASE p \in Place1
  BY <1>2, <1>5, Shape
<1>6. CASE p \in Place2
  BY <1>2, <1>4, <1>6, Shape
<1>7. CASE p \in Place3
  <2>1. Up2(p) \in Needed(n)
    BY <1>7, NeededClosed, PlaceShapes
  <2>2. SectorAt(d, tab, Up2(p)) = At2(d, tab, p)
    BY <1>2, <1>7, Shape
  <2>3. At3(d, tac, p) = At3(d, tab, p)
    BY <1>4, <2>1, <2>2 DEF At3
  <2>4. QED
    BY <1>2, <1>7, <2>3, Shape
<1>8. QED
  BY <1>2, <1>5, <1>6, <1>7

\* One file changes, and touches no table of the others.
LEMMA OneChanges ==
  ASSUME NEW ino \in [File -> Inodes], NEW tab, NEW u, FilesApart(ino, tab, u),
         NEW f \in File, NEW d \in Inodes, NEW tac, NEW v, v \subseteq DataSector,
         \A s \in Foreign(ino, tab, f) : s \in v /\ tac[s] = tab[s],
         d.exists => /\ d.length \in 0..INODE_SPAN
                     /\ Sound(d, tac, v, Needed(SectorCount(d)), Foreign(ino, tab, f)),
         NEW inp, inp = [ino EXCEPT ![f] = d]
  PROVE  FilesApart(inp, tac, v)
<1>1. inp[f] = d /\ \A g \in File : g # f => inp[g] = ino[g]
  OBVIOUS
<1>2. ASSUME NEW g \in File, g # f, ino[g].exists
      PROVE  /\ \A p \in Needed(SectorCount(ino[g])) :
                  /\ SectorAt(ino[g], tac, p) = SectorAt(ino[g], tab, p)
                  /\ SectorAt(ino[g], tab, p) \in Foreign(ino, tab, f)
             /\ Owned(ino[g], tac) = Owned(ino[g], tab)
  <2>1. ino[g].length \in 0..INODE_SPAN /\ SectorCount(ino[g]) \in Nat
    BY <1>2, CountNat DEF FilesApart
  <2>2. g \in OtherFiles(ino, f)
    BY <1>2 DEF OtherFiles
  <2>3. \A p \in Needed(SectorCount(ino[g])) : SectorAt(ino[g], tab, p) \in Foreign(ino, tab, f)
    BY <2>2 DEF Foreign, Owned
  <2>4. \A p \in Needed(SectorCount(ino[g])) : SectorAt(ino[g], tac, p) = SectorAt(ino[g], tab, p)
    BY <2>1, <2>3, Framed
  <2>5. QED
    BY <2>3, <2>4 DEF Owned
<1>3. Foreign(inp, tac, f) = Foreign(ino, tab, f)
  <2>1. OtherFiles(inp, f) = OtherFiles(ino, f)
    BY <1>1 DEF OtherFiles
  <2>2. \A g \in OtherFiles(ino, f) : Owned(inp[g], tac) = Owned(ino[g], tab)
    BY <1>1, <1>2 DEF OtherFiles
  <2>3. QED
    BY <2>1, <2>2 DEF Foreign
<1>4. ASSUME NEW g \in File, inp[g].exists
      PROVE  /\ inp[g].length \in 0..INODE_SPAN
             /\ Sound(inp[g], tac, v, Needed(SectorCount(inp[g])), Foreign(inp, tac, g))
  <2>1. CASE g = f
    BY <1>1, <1>3, <1>4, <2>1
  <2>2. CASE g # f
    <3>1. inp[g] = ino[g] /\ ino[g].exists
      BY <1>1, <1>4, <2>2
    <3>2. PICK Q : Q = Needed(SectorCount(ino[g]))
      OBVIOUS
    <3>3. ino[g].length \in 0..INODE_SPAN /\ Sound(ino[g], tab, u, Q, Foreign(ino, tab, g))
      BY <3>1, <3>2 DEF FilesApart
    <3>4. \A p \in Q : /\ SectorAt(ino[g], tac, p) = SectorAt(ino[g], tab, p)
                       /\ SectorAt(ino[g], tab, p) \in Foreign(ino, tab, f)
      BY <1>2, <2>2, <3>1, <3>2
    <3>5. ASSUME NEW s \in Foreign(inp, tac, g)
          PROVE  s \in v /\ \A p \in Q : SectorAt(ino[g], tab, p) # s
      <4>1. PICK h \in OtherFiles(inp, g) : s \in Owned(inp[h], tac)
        BY DEF Foreign
      <4>2. h \in File /\ h # g /\ inp[h].exists
        BY <4>1 DEF OtherFiles
      <4>3. CASE h = f
        <5>1. PICK q \in Needed(SectorCount(d)) : s = SectorAt(d, tac, q)
          BY <1>1, <4>1, <4>3 DEF Owned
        <5>2. s \in v /\ s \notin Foreign(ino, tab, f)
          BY <1>1, <4>2, <4>3, <5>1 DEF Sound
        <5>3. QED
          BY <3>4, <5>2
      <4>4. CASE h # f
        <5>1. inp[h] = ino[h] /\ ino[h].exists
          BY <1>1, <4>2, <4>4
        <5>2. s \in Owned(ino[h], tab)
          BY <1>2, <4>1, <4>2, <4>4, <5>1
        <5>3. s \in Foreign(ino, tab, g)
          BY <4>2, <5>1, <5>2 DEF Foreign, OtherFiles
        <5>4. s \in Foreign(ino, tab, f)
          BY <4>2, <4>4, <5>1, <5>2 DEF Foreign, OtherFiles
        <5>5. QED
          BY <3>3, <5>3, <5>4 DEF Sound
      <4>5. QED
        BY <4>3, <4>4
    <3>6. Sound(ino[g], tac, v, Q, Foreign(inp, tac, g))
      <4>1. /\ Q \subseteq Place1 \cup Place2 \cup Place3
            /\ \A p \in Q : Up1(p) \in Q /\ (p[3] # -1 => Up2(p) \in Q)
            /\ \A p, q \in Q : SectorAt(ino[g], tab, p) = SectorAt(ino[g], tab, q) => p = q
        BY <3>3 DEF Sound
      <4>2. \A p \in Q : SectorAt(ino[g], tac, p) \in v /\ SectorAt(ino[g], tac, p) \notin Foreign(inp, tac, g)
        BY <3>4, <3>5
      <4>3. Foreign(inp, tac, g) \subseteq v
        BY <3>5
      <4>4. QED
        BY <3>4, <4>1, <4>2, <4>3 DEF Sound
    <3>7. QED
      BY <3>1, <3>2, <3>3, <3>6
  <2>3. QED
    BY <2>1, <2>2
<1>5. QED
  BY <1>4 DEF FilesApart

LEMMA ForeignUsed ==
  ASSUME NEW ino, NEW tab, NEW u, FilesApart(ino, tab, u), NEW f \in File
  PROVE  \A s \in Foreign(ino, tab, f) : s \in u
<1>1. SUFFICES ASSUME NEW s \in Foreign(ino, tab, f) PROVE s \in u
  OBVIOUS
<1>2. PICK g \in OtherFiles(ino, f) : s \in Owned(ino[g], tab)
  BY DEF Foreign
<1>3. g \in File /\ ino[g].exists
  BY DEF OtherFiles
<1>4. Sound(ino[g], tab, u, Needed(SectorCount(ino[g])), Foreign(ino, tab, g))
  BY <1>3 DEF FilesApart
<1>5. QED
  BY <1>2, <1>4 DEF Owned, Sound

LEMMA NoneNeeded == Needed(0) = {}
BY FirstNat DEF Needed

LEMMA NoInodeType ==
  /\ NoInode \in Inodes /\ NoInode.exists = FALSE /\ NoInode.length = 0
  /\ [NoInode EXCEPT !.exists = TRUE, !.length = -1] \in Inodes
  /\ [NoInode EXCEPT !.exists = TRUE, !.length = -1].length = -1
  /\ [NoInode EXCEPT !.exists = TRUE, !.length = -1].exists = TRUE
<1>1. [i \in 0..DBL_INDIRECT_IDX |-> 0] \in [0..DBL_INDIRECT_IDX -> Int]
  OBVIOUS
<1>2. PICK m : m = [i \in 0..DBL_INDIRECT_IDX |-> 0] /\ m \in [0..DBL_INDIRECT_IDX -> Int]
  BY <1>1
<1>3. NoInode = [exists |-> FALSE, length |-> 0, sectors |-> m]
  BY <1>2 DEF NoInode
<1>4. NoInode \in Inodes /\ NoInode.exists = FALSE /\ NoInode.length = 0
  BY <1>2, <1>3 DEF Inodes
<1>5. -1 \in Int
  OBVIOUS
<1>6. PICK x \in Int : x = -1
  BY <1>5
<1>7. /\ [NoInode EXCEPT !.exists = TRUE, !.length = x] \in Inodes
      /\ [NoInode EXCEPT !.exists = TRUE, !.length = x].length = x
      /\ [NoInode EXCEPT !.exists = TRUE, !.length = x].exists = TRUE
  BY <1>4 DEF Inodes
<1>8. QED
  BY <1>4, <1>6, <1>7

LEMMA IndexInitInv == InodeInit => IndexInv
<1>1. SUFFICES ASSUME InodeInit PROVE IndexInv
  OBVIOUS
<1>2. inode \in [File -> Inodes] /\ \A f \in File : ~ inode[f].exists /\ inode[f].length = 0
  BY <1>1, NoInodeType DEF InodeInit
<1>3. table \in Tables
  BY <1>1 DEF InodeInit, Tables, JUNK
<1>4. data \in Datas /\ used \subseteq DataSector
  BY <1>1 DEF InodeInit, Datas, Zeroed
<1>5. QED
  BY <1>2, <1>3, <1>4 DEF IndexInv, FilesApart

LEMMA CreateKeeps ==
  ASSUME IndexInv, NEW f \in File, NEW length \in Length, inode_create(f, length)
  PROVE  IndexInv'
<1>1. PICK d : d = [NoInode EXCEPT !.exists = TRUE, !.length = -1]
  OBVIOUS
<1>2. PICK r : r = extend_file(d, length)
  OBVIOUS
<1>3. /\ stopped = "no" /\ table' = r.table /\ data' = r.data /\ used' = r.used
      /\ \/ r.ok /\ inode' = [inode EXCEPT ![f] = r.d]
         \/ ~ r.ok /\ stopped' = "panic"
  BY <1>1, <1>2 DEF inode_create
<1>4. CASE ~ r.ok
  BY <1>3, <1>4 DEF IndexInv
<1>5. CASE r.ok
  <2>1. /\ inode \in [File -> Inodes] /\ table \in Tables /\ used \subseteq DataSector
        /\ data \in Datas /\ FilesApart(inode, table, used)
        /\ \A g \in File : ~ inode[g].exists => inode[g].length = 0
    BY <1>3 DEF IndexInv
  <2>2. PICK F : F = Foreign(inode, table, f)
    OBVIOUS
  <2>3. \A s \in F : s \in used
    BY <2>1, <2>2, ForeignUsed
  <2>4. d \in Inodes /\ d.length = -1 /\ d.exists
    BY <1>1, NoInodeType
  <2>5. SectorCount(d) = 0 /\ Needed(SectorCount(d)) = {}
    BY <2>4, NoneNeeded DEF SectorCount
  <2>6. Sound(d, table, used, Needed(SectorCount(d)), F)
    BY <2>1, <2>3, <2>5 DEF Sound
  <2>7. length \in Nat
    BY InodeAssumption
  <2>8. Extended(d, r, SectorCount(d), F)
    BY <1>2, <2>1, <2>4, <2>6, <2>7, Extends DEF Datas
  <2>9. /\ r.d \in Inodes /\ r.table \in Tables /\ r.used \subseteq DataSector /\ r.data \in Datas
        /\ r.d.exists /\ r.d.length \in 0..INODE_SPAN
        /\ Sound(r.d, r.table, r.used, Needed(SectorCount(r.d)), F)
        /\ \A s \in F : s \in r.used /\ r.table[s] = table[s]
    BY <1>5, <2>3, <2>4, <2>8 DEF Extended, Keeps, Datas
  <2>10. inode' = [inode EXCEPT ![f] = r.d]
    BY <1>3, <1>5
  <2>11. FilesApart(inode', r.table, r.used)
    BY <2>1, <2>2, <2>9, <2>10, OneChanges
  <2>12. /\ inode' \in [File -> Inodes]
         /\ \A g \in File : ~ inode'[g].exists => inode'[g].length = 0
    BY <2>1, <2>9, <2>10
  <2>13. QED
    BY <1>3, <2>9, <2>11, <2>12 DEF IndexInv
<1>6. QED
  BY <1>4, <1>5

\* After a growth that failed the old inode still has its sectors.
LEMMA FailureKeeps ==
  ASSUME NEW d, NEW tab, NEW u, NEW e, NEW tac, NEW v, NEW Q, NEW F,
         Sound(d, tab, u, Q, F), Keeps(d, tab, e, tac, Q, F), u \subseteq v, v \subseteq DataSector
  PROVE  Sound(d, tac, v, Q, F)
<1>1. ASSUME NEW q \in Q PROVE SectorAt(d, tac, q) = SectorAt(d, tab, q)
  <2>1. At1(e, q) = At1(d, q) /\ SectorAt(e, tac, q) = SectorAt(d, tab, q)
    BY DEF Keeps
  <2>2. SectorAt(e, tac, q) = SectorAt(d, tac, q)
    BY <2>1 DEF SectorAt, At2, At3
  <2>3. QED
    BY <2>1, <2>2
<1>2. QED
  BY <1>1 DEF Sound

LEMMA WriteKeeps ==
  ASSUME IndexInv, NEW f \in File, NEW size \in Size, NEW v \in Byte,
         NEW offset \in Offsets(f), inode_write_at(f, offset, size, v)
  PROVE  IndexInv'
<1>1. PICK r : r = extend_file(inode[f], offset + size)
  OBVIOUS
<1>2. PICK d : d = IF r.ok THEN r.d ELSE inode[f]
  OBVIOUS
<1>3. /\ stopped = "no" /\ inode[f].exists /\ inode' = [inode EXCEPT ![f] = d]
      /\ table' = r.table /\ used' = r.used
  BY <1>1, <1>2 DEF inode_write_at
<1>4. /\ inode \in [File -> Inodes] /\ table \in Tables /\ used \subseteq DataSector
      /\ data \in Datas /\ FilesApart(inode, table, used)
      /\ \A g \in File : ~ inode[g].exists => inode[g].length = 0
  BY <1>3 DEF IndexInv
<1>5. PICK F : F = Foreign(inode, table, f)
  OBVIOUS
<1>6. \A s \in F : s \in used
  BY <1>4, <1>5, ForeignUsed
<1>7. PICK c \in Inodes : c = inode[f]
  BY <1>4
<1>8. /\ c.exists /\ c.length \in 0..INODE_SPAN
      /\ Sound(c, table, used, Needed(SectorCount(c)), F)
  BY <1>3, <1>4, <1>5, <1>7 DEF FilesApart
<1>9. offset + size \in Nat
  <2>1. offset \in Nat /\ size \in Nat
    BY InodeAssumption, <1>7, <1>8 DEF Offsets
  <2>2. QED
    BY <2>1
<1>10. Extended(c, r, SectorCount(c), F)
  BY <1>1, <1>4, <1>7, <1>8, <1>9, Extends DEF Datas
<1>11. /\ r.d \in Inodes /\ r.table \in Tables /\ r.used \subseteq DataSector /\ r.data \in Datas
       /\ used \subseteq r.used /\ Keeps(c, table, r.d, r.table, Needed(SectorCount(c)), F)
       /\ \A s \in F : s \in r.used /\ r.table[s] = table[s]
  BY <1>6, <1>10 DEF Extended, Keeps, Datas
<1>12. /\ d \in Inodes /\ d.exists /\ d.length \in 0..INODE_SPAN
       /\ Sound(d, r.table, r.used, Needed(SectorCount(d)), F)
  <2>1. CASE r.ok
    BY <1>2, <1>8, <1>10, <1>11, <2>1 DEF Extended
  <2>2. CASE ~ r.ok
    <3>1. d = c
      BY <1>2, <1>7, <2>2
    <3>2. Sound(c, r.table, r.used, Needed(SectorCount(c)), F)
      BY <1>8, <1>11, FailureKeeps
    <3>3. QED
      BY <1>8, <3>1, <3>2
  <2>3. QED
    BY <2>1, <2>2
<1>13. FilesApart(inode', r.table, r.used)
  BY <1>3, <1>4, <1>5, <1>11, <1>12, OneChanges
<1>14. /\ inode' \in [File -> Inodes]
       /\ \A g \in File : ~ inode'[g].exists => inode'[g].length = 0
  BY <1>3, <1>4, <1>7, <1>8, <1>12
<1>15. data' \in Datas
  <2>1. DOMAIN Zeroed = 0..(BLOCK_SECTOR_SIZE - 1)
    BY DEF Zeroed
  <2>2. PICK B : data' = [s \in DataSector |-> [o \in DOMAIN Zeroed |->
                            IF <<s, o>> \in B THEN v ELSE r.data[s][o]]]
    <3> DEFINE bytes == offset..(least({offset + size, INODE_SPAN}) - 1)
               Hit(s, o) == \E b \in bytes :
                 /\ get_data_block(d, r.table, b \div BLOCK_SECTOR_SIZE) = s
                 /\ b % BLOCK_SECTOR_SIZE = o
    <3>1. data' = [s \in DataSector |-> [o \in DOMAIN Zeroed |->
                     IF Hit(s, o) THEN v ELSE r.data[s][o]]]
      BY <1>1, <1>2 DEF inode_write_at
    <3> HIDE DEF Hit
    <3> DEFINE B == {z \in DataSector \X DOMAIN Zeroed : Hit(z[1], z[2])}
    <3>2. \A s \in DataSector, o \in DOMAIN Zeroed : <<s, o>> \in B <=> Hit(s, o)
      OBVIOUS
    <3> HIDE DEF B
    <3>3. data' = [s \in DataSector |-> [o \in DOMAIN Zeroed |->
                     IF <<s, o>> \in B THEN v ELSE r.data[s][o]]]
      BY <3>1, <3>2
    <3>4. QED
      BY <3>3
  <2>3. QED
    BY <1>11, <2>1, <2>2 DEF Datas
<1>16. QED
  BY <1>3, <1>11, <1>13, <1>14, <1>15 DEF IndexInv

\* What PathOf() follows: the places on the way, down to the data.
WayAt(o, k) == <<o[1], IF k > 1 THEN o[2] ELSE -1, IF k > 2 THEN o[3] ELSE -1>>

LEMMA Paths ==
  ASSUME NEW d, NEW tab, NEW u, NEW F, NEW n \in Nat, n <= SPAN,
         Sound(d, tab, u, Needed(n), F), NEW i \in Nat, i < n,
         NEW o, o = calculate_indices(i), NEW p, p = PathOf(d, tab, i)
  PROVE  /\ Len(o) \in 1..3 /\ Len(p) = Len(o)
         /\ \A k \in 1..Len(o) : WayAt(o, k) \in Needed(n) /\ p[k] = SectorAt(d, tab, WayAt(o, k))
         /\ get_data_block(d, tab, i) = SectorAt(d, tab, WayAt(o, Len(o)))
<1>1. i < SPAN
  <2>1. PTRS_PER_SECTOR * PTRS_PER_SECTOR \in Nat
    BY InodeAssumption
  <2>2. SPAN \in Nat
    BY InodeAssumption, <2>1 DEF SPAN
  <2>3. QED
    BY <2>2
<1>2. /\ Len(o) \in 1..3 /\ LastWay(o) \in Needed(n)
  <2>1. Len(o) \in 1..3 /\ LastWay(o) \in Needed(i + 1)
    BY <1>1, Ways
  <2>2. Needed(i + 1) \subseteq Needed(n)
    BY NeededGrows
  <2>3. QED
    BY <2>1, <2>2
<1>3. /\ Len(o) > 1 => o[2] \in Offset /\ o[2] # -1
      /\ Len(o) = 3 => o[3] \in Offset /\ o[3] # -1
  <2>1. \A j \in 2..Len(o) : o[j] \in Offset
    BY <1>1, NewPlaces
  <2>2. (Len(o) > 1 => 2 \in 2..Len(o)) /\ (Len(o) = 3 => 3 \in 2..Len(o))
    <3>1. PICK l \in 1..3 : l = Len(o)
      BY <1>2
    <3>2. (l > 1 => 2 \in 2..l) /\ (l = 3 => 3 \in 2..l)
      OBVIOUS
    <3>3. QED
      BY <3>1, <3>2
  <2>3. \A x \in Offset : x # -1
    BY InodeAssumption DEF Offset
  <2>4. QED
    BY <2>1, <2>2, <2>3
<1> DEFINE first == d.sectors[o[1]]
           second == tab[first][o[2]]
<1>4. SectorAt(d, tab, Way1(o)) = first
  BY DEF SectorAt, Way1, At1
<1>5. Len(o) > 1 => SectorAt(d, tab, Way2(o)) = second
  BY <1>3 DEF SectorAt, Way2, At1, At2
<1>6. Len(o) = 3 => SectorAt(d, tab, Way3(o)) = tab[second][o[3]]
  <2>1. SUFFICES ASSUME Len(o) = 3 PROVE SectorAt(d, tab, Way3(o)) = tab[second][o[3]]
    OBVIOUS
  <2>2. o[2] # -1 /\ o[3] # -1
    BY <1>3, <2>1
  <2>3. QED
    BY <2>2 DEF SectorAt, Way3, At1, At2, At3
<1>7. \A q \in Needed(n) : SectorAt(d, tab, q) \in DataSector
  BY DEF Sound
<1>8. CASE Len(o) = 1
  <2>1. LastWay(o) = Way1(o)
    BY <1>8 DEF LastWay
  <2>2. p = <<first>>
    BY <1>8 DEF PathOf
  <2>3. \A k \in 1..Len(o) : k = 1
    BY <1>8
  <2>4. WayAt(o, 1) = Way1(o)
    BY DEF WayAt, Way1
  <2>5. get_data_block(d, tab, i) = first
    BY <2>2 DEF get_data_block
  <2>6. QED
    BY <1>2, <1>4, <1>8, <2>1, <2>2, <2>3, <2>4, <2>5
<1>9. CASE Len(o) = 2
  <2>1. LastWay(o) = Way2(o)
    BY <1>9 DEF LastWay
  <2>2. Way1(o) \in Needed(n)
    <3>1. Up1(Way2(o)) = Way1(o)
      BY DEF Up1, Way1, Way2
    <3>2. QED
      BY <1>2, <2>1, <3>1, NeededClosed
  <2>3. first \in DataSector
    BY <1>4, <1>7, <2>2
  <2>4. p = <<first, second>>
    BY <1>9, <2>3 DEF PathOf
  <2>5. \A k \in 1..Len(o) : k = 1 \/ k = 2
    BY <1>9
  <2>6. WayAt(o, 1) = Way1(o) /\ WayAt(o, 2) = Way2(o)
    BY DEF WayAt, Way1, Way2
  <2>7. get_data_block(d, tab, i) = second
    BY <2>4 DEF get_data_block
  <2>8. Len(p) = 2 /\ p[1] = first /\ p[2] = second
    BY <2>4
  <2>9. SectorAt(d, tab, Way2(o)) = second
    BY <1>5, <1>9
  <2> HIDE DEF first, second
  <2>10. QED
    BY <1>2, <1>4, <1>9, <2>1, <2>2, <2>5, <2>6, <2>7, <2>8, <2>9
<1>10. CASE Len(o) = 3
  <2>1. LastWay(o) = Way3(o)
    BY <1>10 DEF LastWay
  <2>2. Way1(o) \in Needed(n) /\ Way2(o) \in Needed(n)
    <3>1. Up1(Way3(o)) = Way1(o) /\ Up2(Way3(o)) = Way2(o) /\ Way3(o)[3] = o[3]
      BY DEF Up1, Up2, Way1, Way2, Way3
    <3>2. QED
      BY <1>2, <1>3, <1>10, <2>1, <3>1, NeededClosed
  <2>3. first \in DataSector /\ second \in DataSector
    BY <1>4, <1>5, <1>7, <1>10, <2>2
  <2>4. p = <<first, second, tab[second][o[3]]>>
    BY <1>10, <2>3 DEF PathOf
  <2>5. \A k \in 1..Len(o) : k = 1 \/ k = 2 \/ k = 3
    BY <1>10
  <2>6. WayAt(o, 1) = Way1(o) /\ WayAt(o, 2) = Way2(o) /\ WayAt(o, 3) = Way3(o)
    BY DEF WayAt, Way1, Way2, Way3
  <2>7. get_data_block(d, tab, i) = tab[second][o[3]]
    BY <2>4 DEF get_data_block
  <2>8. Len(p) = 3 /\ p[1] = first /\ p[2] = second /\ p[3] = tab[second][o[3]]
    BY <2>4
  <2>9. SectorAt(d, tab, Way2(o)) = second /\ SectorAt(d, tab, Way3(o)) = tab[second][o[3]]
    BY <1>5, <1>6, <1>10
  <2> HIDE DEF first, second
  <2>10. QED
    BY <1>2, <1>4, <1>10, <2>1, <2>2, <2>5, <2>6, <2>7, <2>8, <2>9
<1>11. QED
  BY <1>2, <1>8, <1>9, <1>10

\* The sectors of a file, and how many there are.
LEMMA SectorsCounted ==
  ASSUME NEW d, d.length \in 0..INODE_SPAN
  PROVE  /\ \A i \in SectorsOf(d) : i \in Nat /\ i < SectorCount(d)
         /\ d.length # 0 => SectorsOf(d) = 0..(SectorCount(d) - 1)
<1>1. PTRS_PER_SECTOR * PTRS_PER_SECTOR \in Nat
  BY InodeAssumption
<1>2. SPAN \in Nat
  BY InodeAssumption, <1>1 DEF SPAN
<1>3. INODE_SPAN \in Nat
  BY InodeAssumption, <1>2 DEF INODE_SPAN
<1>4. d.length \in Nat /\ d.length # -1
  BY <1>3
<1>5. LastSector(d.length) \in Nat
  BY <1>4, LastInSpan
<1>6. PICK last \in Nat : last = LastSector(d.length)
  BY <1>5
<1>7. SectorCount(d) = last + 1
  BY <1>4, <1>6 DEF SectorCount
<1>8. SectorsOf(d) = IF d.length = 0 THEN {} ELSE 0..last
  BY <1>6 DEF SectorsOf
<1>9. last + 1 - 1 = last /\ \A i \in 0..last : i \in Nat /\ i < last + 1
  OBVIOUS
<1>10. QED
  BY <1>7, <1>8, <1>9

LEMMA RemoveKeeps ==
  ASSUME IndexInv, NEW f \in File, deallocate_inode(f)
  PROVE  IndexInv'
<1>1. PICK d : d = inode[f]
  OBVIOUS
<1>2. PICK n : n = Cardinality(SectorsOf(d))
  OBVIOUS
<1>3. PICK gone : gone = {get_data_block(d, table, i) : i \in {j \in SectorsOf(d) : j <= DIRECT_CNT}}
                         \cup IF n > DIRECT_CNT THEN {d.sectors[INDIRECT_IDX]} ELSE {}
  OBVIOUS
<1>4. /\ stopped = "no" /\ d.exists /\ table' = table /\ data' = data
      /\ \/ stopped' = "panic"
         \/ used' = used \ gone /\ inode' = [inode EXCEPT ![f] = NoInode]
  BY <1>1, <1>2, <1>3 DEF deallocate_inode
<1>5. CASE stopped' = "panic"
  BY <1>5 DEF IndexInv
<1>6. CASE used' = used \ gone /\ inode' = [inode EXCEPT ![f] = NoInode]
  <2>1. /\ inode \in [File -> Inodes] /\ table \in Tables /\ used \subseteq DataSector
        /\ data \in Datas /\ FilesApart(inode, table, used)
        /\ \A g \in File : ~ inode[g].exists => inode[g].length = 0
    BY <1>4 DEF IndexInv
  <2>2. PICK F : F = Foreign(inode, table, f)
    OBVIOUS
  <2>3. PICK cnt : cnt = SectorCount(d)
    OBVIOUS
  <2>4. d.length \in 0..INODE_SPAN /\ Sound(d, table, used, Needed(cnt), F)
    BY <1>1, <1>4, <2>1, <2>2, <2>3 DEF FilesApart
  <2>5. cnt \in Nat /\ cnt <= SPAN
    BY <2>3, <2>4, CountNat
  <2>6. \A i \in SectorsOf(d) : i \in Nat /\ i < cnt
    BY <2>3, <2>4, SectorsCounted
  <2>7. n > DIRECT_CNT => n = cnt
    <3>1. CASE d.length = 0
      <4>1. n = 0
        BY <1>2, <3>1, FS_EmptySet DEF SectorsOf
      <4>2. QED
        BY InodeAssumption, <4>1
    <3>2. CASE d.length # 0
      <4>1. SectorsOf(d) = 0..(cnt - 1)
        BY <2>3, <2>4, <3>2, SectorsCounted
      <4>2. cnt - 1 \in Int /\ 0 \in Int
        BY <2>5
      <4>3. Cardinality(0..(cnt - 1)) = IF 0 > cnt - 1 THEN 0 ELSE cnt - 1 - 0 + 1
        BY <4>2, FS_Interval
      <4>4. QED
        BY <1>2, <2>5, <4>1, <4>3
    <3>3. QED
      BY <3>1, <3>2
  <2>8. ASSUME NEW s \in gone PROVE s \notin F
    <3>1. CASE \E i \in SectorsOf(d) : s = get_data_block(d, table, i)
      <4>1. PICK i \in SectorsOf(d) : s = get_data_block(d, table, i)
        BY <3>1
      <4>2. i \in Nat /\ i < cnt
        BY <2>6
      <4>3. PICK o, p : o = calculate_indices(i) /\ p = PathOf(d, table, i)
        OBVIOUS
      <4>4. Len(o) \in 1..Len(o) /\ WayAt(o, Len(o)) \in Needed(cnt) /\ s = SectorAt(d, table, WayAt(o, Len(o)))
        <5>1. /\ Len(o) \in 1..3 /\ \A k \in 1..Len(o) : WayAt(o, k) \in Needed(cnt)
              /\ s = SectorAt(d, table, WayAt(o, Len(o)))
          BY <2>4, <2>5, <4>1, <4>2, <4>3, Paths
        <5>2. QED
          BY <5>1
      <4>5. QED
        BY <2>4, <4>4 DEF Sound
    <3>2. CASE n > DIRECT_CNT /\ s = d.sectors[INDIRECT_IDX]
      <4>1. PICK q : q = <<INDIRECT_IDX, -1, -1>>
        OBVIOUS
      <4>2. q \in AllPlaces
        BY InodeAssumption, <4>1 DEF AllPlaces, Place1, INDIRECT_IDX, DBL_INDIRECT_IDX
      <4>3. First(q) = DIRECT_CNT
        BY InodeAssumption, <4>1 DEF First, Slot, INDIRECT_IDX
      <4>4. q \in Needed(cnt)
        BY InodeAssumption, <2>5, <2>7, <3>2, <4>2, <4>3 DEF Needed
      <4>5. SectorAt(d, table, q) = s
        BY <3>2, <4>1 DEF SectorAt, At1
      <4>6. QED
        BY <2>4, <4>4, <4>5 DEF Sound
    <3>3. QED
      BY <1>3, <3>1, <3>2
  <2>9. \A s \in F : s \in used
    BY <2>1, <2>2, ForeignUsed
  <2>10. \A s \in F : s \in used \ gone
    BY <2>8, <2>9
  <2>11. NoInode \in Inodes /\ NoInode.exists = FALSE /\ NoInode.length = 0
    BY NoInodeType
  <2>12. used \ gone \subseteq DataSector
    BY <2>1
  <2>13. FilesApart(inode', table, used \ gone)
    BY <1>6, <2>1, <2>2, <2>10, <2>11, <2>12, OneChanges
  <2>14. /\ inode' \in [File -> Inodes]
         /\ \A g \in File : ~ inode'[g].exists => inode'[g].length = 0
    BY <1>6, <2>1, <2>11
  <2>15. QED
    BY <1>4, <1>6, <2>1, <2>12, <2>13, <2>14 DEF IndexInv
<1>7. QED
  BY <1>4, <1>5, <1>6

LEMMA IndexNextInv ==
  ASSUME IndexInv, [InodeNext]_ivars
  PROVE  IndexInv'
<1>1. CASE UNCHANGED ivars
  BY <1>1 DEF ivars, IndexInv
<1>2. CASE InodeNext
  <2>1. PICK f \in File :
          \/ \E length \in Length : inode_create(f, length)
          \/ \E size \in Size, v \in Byte : \E offset \in Offsets(f) : inode_write_at(f, offset, size, v)
          \/ deallocate_inode(f)
    BY <1>2 DEF InodeNext
  <2>2. CASE \E length \in Length : inode_create(f, length)
    BY <2>2, CreateKeeps
  <2>3. CASE \E size \in Size, v \in Byte : \E offset \in Offsets(f) : inode_write_at(f, offset, size, v)
    BY <2>3, WriteKeeps
  <2>4. CASE deallocate_inode(f)
    BY <2>4, RemoveKeeps
  <2>5. QED
    BY <2>1, <2>2, <2>3, <2>4
<1>3. QED
  BY <1>1, <1>2

\* A place tells which slots lead to it.
LEMMA WaysApart ==
  ASSUME NEW i \in Nat, i < SPAN, NEW j \in Nat, j < SPAN,
         NEW o, o = calculate_indices(i), NEW q, q = calculate_indices(j),
         NEW k \in 1..Len(o), NEW l \in 1..Len(q), WayAt(o, k) = WayAt(q, l)
  PROVE  SubSeq(o, 1, k) = SubSeq(q, 1, l)
<1>1. /\ o \in Seq(Nat) /\ Len(o) \in 1..3 /\ \A m \in 2..Len(o) : o[m] \in Offset
      /\ q \in Seq(Nat) /\ Len(q) \in 1..3 /\ \A m \in 2..Len(q) : q[m] \in Offset
  BY NewPlaces
<1>2. \A m \in Offset : m # -1
  BY InodeAssumption DEF Offset
<1>3. /\ k \in 1..3 /\ \A m \in 2..k : o[m] # -1
      /\ l \in 1..3 /\ \A m \in 2..l : q[m] # -1
  <2>1. PICK x, y : x = Len(o) /\ y = Len(q)
    OBVIOUS
  <2>2. x \in 1..3 /\ k \in 1..x /\ y \in 1..3 /\ l \in 1..y
    BY <1>1, <2>1
  <2>3. k \in 1..3 /\ l \in 1..3 /\ (\A m \in 2..k : m \in 2..x) /\ (\A m \in 2..l : m \in 2..y)
    BY <2>2
  <2>4. QED
    BY <1>1, <1>2, <2>1, <2>3
<1>5. /\ o[1] = q[1]
      /\ (IF k > 1 THEN o[2] ELSE -1) = (IF l > 1 THEN q[2] ELSE -1)
      /\ (IF k > 2 THEN o[3] ELSE -1) = (IF l > 2 THEN q[3] ELSE -1)
  BY DEF WayAt
<1>6. k = l /\ (k > 1 => o[2] = q[2]) /\ (k > 2 => o[3] = q[3])
  BY <1>3, <1>5
<1>7. \A m \in 1..k : o[m] = q[m]
  <2>1. \A m \in 1..k : m = 1 \/ (m = 2 /\ k > 1) \/ (m = 3 /\ k > 2)
    BY <1>3
  <2>2. QED
    BY <1>5, <1>6, <2>1
<1>8. /\ \A m \in 1..k : o[m] \in Nat /\ q[m] \in Nat
  <2>1. \A m \in 1..k : m \in 1..Len(o) /\ m \in 1..Len(q)
    BY <1>1, <1>6
  <2>2. \A m \in 1..Len(o) : o[m] \in Nat
    BY <1>1, ElementOfSeq
  <2>3. \A m \in 1..Len(q) : q[m] \in Nat
    BY <1>1, ElementOfSeq
  <2>4. QED
    BY <2>1, <2>2, <2>3
<1>9. SubSeq(o, 1, k) = [m \in 1..k |-> o[m]] /\ SubSeq(q, 1, k) = [m \in 1..k |-> q[m]]
  BY <1>1, <1>3, <1>6, <1>8
<1>10. QED
  BY <1>6, <1>7, <1>9

LEMMA IndexInvSound == ASSUME IndexInv PROVE IndexSound
<1>1. SUFFICES ASSUME stopped = "no"
               PROVE  LET all == UNION {Places(f) : f \in File} IN
                      /\ \A p \in all : p[3] \in used
                      /\ \A p, q \in all : p[3] = q[3] => p = q
  BY DEF IndexSound
<1>2. FilesApart(inode, table, used) /\ \A f \in File : ~ inode[f].exists => inode[f].length = 0
  BY <1>1 DEF IndexInv
<1> DEFINE At(f, i, k, p) ==
             /\ i \in Nat /\ i < SectorCount(inode[f]) /\ i < SPAN /\ k \in 1..Len(calculate_indices(i))
             /\ inode[f].exists
             /\ WayAt(calculate_indices(i), k) \in Needed(SectorCount(inode[f]))
             /\ p = <<f, SubSeq(calculate_indices(i), 1, k),
                      SectorAt(inode[f], table, WayAt(calculate_indices(i), k))>>
<1>3. ASSUME NEW f \in File, NEW p \in Places(f) PROVE \E i, k : At(f, i, k, p)
  <2>1. PICK i \in SectorsOf(inode[f]) :
          p \in LET y == PathOf(inode[f], table, i) IN
                {<<f, SubSeq(calculate_indices(i), 1, k), y[k]>> : k \in 1..Len(y)}
    BY <1>3 DEF Places
  <2>2. PICK o, y : o = calculate_indices(i) /\ y = PathOf(inode[f], table, i)
    OBVIOUS
  <2>3. PICK k \in 1..Len(y) : p = <<f, SubSeq(o, 1, k), y[k]>>
    BY <2>1, <2>2
  <2>4. inode[f].exists /\ inode[f].length # 0
    BY <1>2, <2>1 DEF SectorsOf
  <2>5. PICK cnt : cnt = SectorCount(inode[f])
    OBVIOUS
  <2>6. /\ inode[f].length \in 0..INODE_SPAN
        /\ Sound(inode[f], table, used, Needed(cnt), Foreign(inode, table, f))
    BY <1>2, <2>4, <2>5 DEF FilesApart
  <2>7. cnt \in Nat /\ cnt <= SPAN
    BY <2>5, <2>6, CountNat
  <2>8. i \in Nat /\ i < cnt
    BY <2>1, <2>5, <2>6, SectorsCounted
  <2>9. /\ Len(o) \in 1..3 /\ Len(y) = Len(o)
        /\ \A m \in 1..Len(o) : WayAt(o, m) \in Needed(cnt) /\ y[m] = SectorAt(inode[f], table, WayAt(o, m))
    BY <2>2, <2>6, <2>7, <2>8, Paths
  <2>10. i < SPAN
    <3>1. PTRS_PER_SECTOR * PTRS_PER_SECTOR \in Nat
      BY InodeAssumption
    <3>2. SPAN \in Nat
      BY InodeAssumption, <3>1 DEF SPAN
    <3>3. QED
      BY <2>7, <2>8, <3>2
  <2>11. At(f, i, k, p)
    BY <2>2, <2>3, <2>4, <2>5, <2>8, <2>9, <2>10
  <2>12. QED
    BY <2>11
<1>4. ASSUME NEW f \in File, NEW p \in Places(f) PROVE p[3] \in used
  <2>1. PICK i, k : At(f, i, k, p)
    BY <1>3
  <2>2. Sound(inode[f], table, used, Needed(SectorCount(inode[f])), Foreign(inode, table, f))
    BY <1>2, <2>1 DEF FilesApart
  <2>3. QED
    BY <2>1, <2>2 DEF Sound
<1>5. ASSUME NEW f \in File, NEW p \in Places(f), NEW g \in File, NEW q \in Places(g), p[3] = q[3]
      PROVE  p = q
  <2>1. PICK i, k : At(f, i, k, p)
    BY <1>3
  <2>2. PICK j, l : At(g, j, l, q)
    BY <1>3
  <2>3. PICK a, b : a = calculate_indices(i) /\ b = calculate_indices(j)
    OBVIOUS
  <2>4. SectorAt(inode[f], table, WayAt(a, k)) = SectorAt(inode[g], table, WayAt(b, l))
    BY <1>5, <2>1, <2>2, <2>3
  <2>5. Sound(inode[f], table, used, Needed(SectorCount(inode[f])), Foreign(inode, table, f))
    BY <1>2, <2>1 DEF FilesApart
  <2>6. f = g
    <3>1. SUFFICES ASSUME f # g PROVE FALSE
      OBVIOUS
    <3>2. g \in OtherFiles(inode, f)
      BY <2>2, <3>1 DEF OtherFiles
    <3>3. SectorAt(inode[g], table, WayAt(b, l)) \in Owned(inode[g], table)
      BY <2>2, <2>3 DEF Owned
    <3>4. SectorAt(inode[f], table, WayAt(a, k)) \in Foreign(inode, table, f)
      BY <2>4, <3>2, <3>3 DEF Foreign
    <3>5. QED
      BY <2>1, <2>3, <2>5, <3>4 DEF Sound
  <2>7. WayAt(a, k) = WayAt(b, l)
    BY <2>1, <2>2, <2>3, <2>4, <2>5, <2>6 DEF Sound
  <2>8. SubSeq(a, 1, k) = SubSeq(b, 1, l)
    BY <2>1, <2>2, <2>3, <2>7, WaysApart
  <2>9. QED
    BY <2>1, <2>2, <2>3, <2>4, <2>6, <2>8
<1> HIDE DEF At
<1>6. QED
  BY <1>4, <1>5

\* inode.c and free-map.c, for any number of files, any disk and any shape of the
\* index, through every growth, failed growth, removal and reuse: every sector of
\* a file, its tables included, is in use in the free map and is named by one
\* place of one file only.
THEOREM IndexIsSound ==
  InodeSpec => []IndexSound
<1>1. InodeInit => IndexInv
  BY IndexInitInv
<1>2. IndexInv /\ [InodeNext]_ivars => IndexInv'
  BY IndexNextInv
<1>3. IndexInv => IndexSound
  BY IndexInvSound
<1>4. QED
  BY <1>1, <1>2, <1>3, PTL DEF InodeSpec
=============================================================================
