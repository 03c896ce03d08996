-------------------------------- MODULE Hash --------------------------------
(***************************************************************************)
(* The kernel's hash table (lib/kernel/hash.c): buckets of elements, their *)
(* number a power of two that follows the number of elements, and malloc() *)
(* that may refuse the new buckets.  The bucket lists are sequences here;  *)
(* module List is about their pointers.                                    *)
(***************************************************************************)
EXTENDS Naturals, Sequences, SequencesExt

CONSTANTS
  HKey,         \* keys: natural numbers, their own hash value
  Copy,         \* elements with equal keys
  MIN_BUCKETS   \* the 4 of hash_init() and rehash()

VARIABLES buckets, hash_elem_cnt

hvars == <<buckets, hash_elem_cnt>>

HashElem == [key : HKey, copy : Copy]
BEST_ELEMS_PER_BUCKET == 2
bucket_cnt == Len(buckets)
EmptyBuckets(n) == [i \in 1..n |-> <<>>]

HashInit == hash_elem_cnt = 0 /\ buckets = EmptyBuckets(MIN_BUCKETS)

\* hash & (bucket_cnt - 1), which is the remainder for a power of two.
BucketIn(n, e) == (e.key % n) + 1
find_bucket(e) == BucketIn(bucket_cnt, e)

\* The elements of a bucket equal to e; find_elem() returns the first.
Equal(b, e) == SelectSeq(b, LAMBDA x : x.key = e.key)
find_elem(e) == Equal(buckets[find_bucket(e)], e)

\* rehash()'s loop clears low bits: what is left is the largest power of two.
is_power_of_2(n) == \E k \in 0..n : n = 2 ^ k
NewBucketCnt(cnt) ==
  LET n == cnt \div BEST_ELEMS_PER_BUCKET
      m == IF n < MIN_BUCKETS THEN MIN_BUCKETS ELSE n
  IN CHOOSE p \in 1..m : is_power_of_2(p) /\ 2 * p > m

\* Moving every old bucket's elements, in order, to the front of new ones.
Move(old, n) ==
  FoldLeft(LAMBDA new, e : [new EXCEPT ![BucketIn(n, e)] = <<e>> \o @],
          EmptyBuckets(n), FlattenSeq(old))

\* The table after rehash(), with or without memory for it.
rehash(b, cnt) ==
  LET n == NewBucketCnt(cnt) IN IF n = Len(b) THEN {b} ELSE {b, Move(b, n)}

\* insert_elem() and remove_elem()
With(b, e) == [b EXCEPT ![BucketIn(Len(b), e)] = <<e>> \o @]
Without(b, e) == [b EXCEPT ![BucketIn(Len(b), e)] = SelectSeq(@, LAMBDA x : x # e)]

hash_insert(e) ==
  IF find_elem(e) # <<>>
    THEN /\ buckets' \in rehash(buckets, hash_elem_cnt)
         /\ UNCHANGED hash_elem_cnt
    ELSE /\ hash_elem_cnt' = hash_elem_cnt + 1
         /\ buckets' \in rehash(With(buckets, e), hash_elem_cnt + 1)

hash_replace(e) ==
  IF find_elem(e) # <<>>
    THEN /\ buckets' \in rehash(With(Without(buckets, find_elem(e)[1]), e), hash_elem_cnt)
         /\ UNCHANGED hash_elem_cnt
    ELSE hash_insert(e)

hash_delete(e) ==
  /\ find_elem(e) # <<>>
  /\ hash_elem_cnt' = hash_elem_cnt - 1
  /\ buckets' \in rehash(Without(buckets, find_elem(e)[1]), hash_elem_cnt - 1)

hash_clear == hash_elem_cnt' = 0 /\ buckets' = EmptyBuckets(bucket_cnt)

\* hash_apply() and the iterator visit the buckets one after the other.
hash_next == FlattenSeq(buckets)

HashNext ==
  \/ \E e \in HashElem : hash_insert(e) \/ hash_replace(e) \/ hash_delete(e)
  \/ hash_clear

HashSpec == HashInit /\ [][HashNext]_hvars

-----------------------------------------------------------------------------
(* Properties.                                                             *)

\* After any sequence of insertions, deletions and rehashes, some of which found
\* no memory, each element is found by its key, no two have the same key, and
\* the count and the number of buckets are what the next rehash() relies on.
TableSound ==
  /\ is_power_of_2(bucket_cnt)
  /\ hash_elem_cnt = Len(hash_next)
  /\ \A i, j \in DOMAIN hash_next : hash_next[i].key = hash_next[j].key => i = j
  /\ \A e \in ToSet(hash_next) : find_elem(e) = <<e>>

\* A step changes what the table holds for at most one key, or empties it: a
\* rehash neither loses nor invents an element.
OneKeyStep ==
     \/ hash_next' = <<>>
     \/ \E k \in HKey : \A e \in HashElem :
          e.key # k => (e \in ToSet(hash_next) <=> e \in ToSet(hash_next'))
OneKeyAtATime == [][OneKeyStep]_hvars
=============================================================================
