------------------------------- MODULE Bitmap -------------------------------
(***************************************************************************)
(* lib/kernel/bitmap.c: an array of bits kept in an array of elements of   *)
(* ELEM_BITS bits.  A bitmap is a record of its length and its elements,   *)
(* numbered from 0; an element is the set of its bits that are 1, which is *)
(* all that OR, AND, XOR and shifts see of it.                             *)
(***************************************************************************)
EXTENDS ListOps

CONSTANT ELEM_BITS, BITMAP_ERROR

Bit == 0..(ELEM_BITS - 1)

elem_idx(i) == i \div ELEM_BITS
bit_mask(i) == {i % ELEM_BITS}
elem_cnt(n) == (n + ELEM_BITS - 1) \div ELEM_BITS

\* The bits of the last element that are used.
last_mask(b) == LET n == b.bit_cnt % ELEM_BITS
                IN  IF n # 0 THEN 0..(n - 1) ELSE Bit

bitmap_test(b, i) == b.bits[elem_idx(i)] \cap bit_mask(i) # {}

bitmap_mark(b, i) == [b EXCEPT !.bits[elem_idx(i)] = @ \cup bit_mask(i)]
bitmap_reset(b, i) == [b EXCEPT !.bits[elem_idx(i)] = @ \ bit_mask(i)]
bitmap_flip(b, i) == [b EXCEPT !.bits[elem_idx(i)] = (@ \ bit_mask(i)) \cup (bit_mask(i) \ @)]
bitmap_set(b, i, v) == IF v THEN bitmap_mark(b, i) ELSE bitmap_reset(b, i)

bitmap_set_multiple(b, start, cnt, v) ==
  LET loop[i \in 0..cnt] ==
        IF i = 0 THEN b ELSE bitmap_set(loop[i - 1], start + i - 1, v)
  IN  loop[cnt]

\* Fresh storage holds anything: bitmap_set_all() clears the bits in use.
bitmap_create(n, garbage) ==
  bitmap_set_multiple([bit_cnt |-> n, bits |-> garbage], 0, n, FALSE)

bitmap_count(b, start, cnt, v) ==
  LET loop[i \in 0..cnt] ==
        IF i = 0 THEN 0
        ELSE loop[i - 1] + IF bitmap_test(b, start + i - 1) = v THEN 1 ELSE 0
  IN  loop[cnt]

bitmap_contains(b, start, cnt, v) ==
  \E i \in start..(start + cnt - 1) : bitmap_test(b, i) = v

bitmap_all(b, start, cnt) == ~ bitmap_contains(b, start, cnt, FALSE)

\* The first start of a group; the loop runs while i <= bit_cnt - cnt.
bitmap_scan(b, start, cnt, v) ==
  LET found == {i \in start..(b.bit_cnt - cnt) : ~ bitmap_contains(b, i, cnt, ~v)}
  IN  IF cnt > b.bit_cnt \/ found = {} THEN BITMAP_ERROR ELSE least(found)

bitmap_scan_and_flip(b, start, cnt, v) ==
  LET i == bitmap_scan(b, start, cnt, v)
  IN  IF i = BITMAP_ERROR THEN b ELSE bitmap_set_multiple(b, i, cnt, ~v)

\* bitmap_read(): the elements in the file, with the unused bits cleared.
bitmap_read(b, file) ==
  [b EXCEPT !.bits = [e \in DOMAIN b.bits |->
     IF e = elem_cnt(b.bit_cnt) - 1 THEN file[e] \cap last_mask(b)
                                    ELSE file[e]]]
-----------------------------------------------------------------------------
Marked(b) == {i \in 0..(b.bit_cnt - 1) : bitmap_test(b, i)}

\* The operations see the elements, one word of ELEM_BITS bits each, as the set
\* of bits that are marked: counting, testing and finding a group, also across
\* elements, empty, at the end, or with garbage in the unused bits; a change
\* touches no other bit, and reading back the file that was written restores
\* the set.
ActsAsSet(b) ==
  /\ \A start \in 0..b.bit_cnt, v \in BOOLEAN : \A cnt \in 0..(b.bit_cnt - start) :
       LET Group(s) == s..(s + cnt - 1)
           same == {i \in Group(start) : (i \in Marked(b)) = v}
           fits == {s \in start..(b.bit_cnt - cnt) :
                      \A i \in Group(s) : (i \in Marked(b)) = v}
           group == IF fits = {} THEN {} ELSE Group(least(fits))
           after == Marked(bitmap_scan_and_flip(b, start, cnt, v))
       IN /\ bitmap_count(b, start, cnt, v) = Cardinality(same)
          /\ bitmap_contains(b, start, cnt, v) = (same # {})
          /\ v => bitmap_all(b, start, cnt) = (same = Group(start))
          /\ after = IF v THEN Marked(b) \ group ELSE Marked(b) \cup group
  /\ \A i \in 0..(b.bit_cnt - 1) :
       Marked(bitmap_flip(b, i)) = (Marked(b) \ {i}) \cup ({i} \ Marked(b))
  /\ Marked(bitmap_read(bitmap_create(b.bit_cnt, b.bits), b.bits)) = Marked(b)
=============================================================================
