-------------------------------- MODULE List --------------------------------
(***************************************************************************)
(* The kernel's doubly linked lists (lib/kernel/list.c), as the pointers   *)
(* they are: every element, head and tail has a prev and a next, and an    *)
(* operation is the assignments it makes to them (module Links has the     *)
(* three that all others use).  `contents` holds the sequence each list    *)
(* should be; nothing in the code reads it.                                *)
(***************************************************************************)
EXTENDS Naturals, Sequences, SequencesExt, Links

CONSTANTS
  ListId,       \* the lists
  Item,         \* the elements that move between them
  Key           \* [Item -> Nat]: what the callers' LESS compares

VARIABLES
  heap,         \* [prev, next]: the two pointers of every node
  contents      \* [ListId -> Seq(Item)]

listvars == <<heap, contents>>

Nil == [node |-> "NULL"]
ElemNode(e) == [node |-> "elem", of |-> e]
HeadOf(l) == [node |-> "head", of |-> l]
TailOf(l) == [node |-> "tail", of |-> l]
Nodes == {ElemNode(e) : e \in Item} \cup {HeadOf(l) : l \in ListId} \cup {TailOf(l) : l \in ListId}

list_init(h, l) ==
  [prev |-> [h.prev EXCEPT ![HeadOf(l)] = Nil, ![TailOf(l)] = HeadOf(l)],
   next |-> [h.next EXCEPT ![HeadOf(l)] = TailOf(l), ![TailOf(l)] = Nil]]

list_begin(h, l) == h.next[HeadOf(l)]
list_end(l) == TailOf(l)
list_empty(h, l) == list_begin(h, l) = list_end(l)

-----------------------------------------------------------------------------
(* Operations that walk a list.                                            *)

Less(a, b) == Key[a.of] < Key[b.of]

\* list_reverse(): swap the pointers of each element, going back by the new
\* prev; then the ends of the list, through two double swaps.
RECURSIVE SwapAll(_, _, _)
SwapAll(h, e, l) ==
  IF e = list_end(l) THEN h
  ELSE LET s == SetNext(SetPrev(h, e, h.next[e]), e, h.prev[e])
       IN SwapAll(s, s.prev[e], l)

list_reverse(h, l) ==
  LET s == SwapAll(h, list_begin(h, l), l)
      f == s.prev[TailOf(l)]
      b == s.next[HeadOf(l)]
      t == SetPrev(SetNext(s, HeadOf(l), f), TailOf(l), b)
      p == t.prev[f]
      n == t.next[b]
  IN IF list_empty(h, l) THEN h ELSE SetNext(SetPrev(t, f, n), b, p)

RECURSIVE find_end_of_run(_, _, _)
find_end_of_run(h, a, b) ==
  LET n == h.next[a]
  IN IF n = b \/ Less(n, h.prev[n]) THEN n ELSE find_end_of_run(h, n, b)

RECURSIVE inplace_merge(_, _, _, _)
inplace_merge(h, a0, a1b0, b1) ==
  IF a0 = a1b0 \/ a1b0 = b1 THEN h
  ELSE IF ~ Less(a1b0, a0) THEN inplace_merge(h, h.next[a0], a1b0, b1)
  ELSE LET n == h.next[a1b0]
       IN inplace_merge(list_splice(h, a0, h.prev[n], n), a0, n, b1)

\* One pass over the list: merge runs two by two, and count the runs written.
RECURSIVE Pass(_, _, _, _)
Pass(h, a0, l, runs) ==
  IF a0 = list_end(l) THEN <<h, runs>>
  ELSE LET a1b0 == find_end_of_run(h, a0, list_end(l))
           b1 == find_end_of_run(h, a1b0, list_end(l))
       IN IF a1b0 = list_end(l) THEN <<h, runs + 1>>
          ELSE Pass(inplace_merge(h, a0, a1b0, b1), b1, l, runs + 1)

RECURSIVE list_sort(_, _)
list_sort(h, l) ==
  LET p == Pass(h, list_begin(h, l), l, 0)
  IN IF p[2] > 1 THEN list_sort(p[1], l) ELSE p[1]

RECURSIVE FirstGreater(_, _, _, _)
FirstGreater(h, e, elem, l) ==
  IF e = list_end(l) \/ Less(elem, e) THEN e ELSE FirstGreater(h, h.next[e], elem, l)

list_insert_ordered(h, l, elem) ==
  list_insert(h, FirstGreater(h, list_begin(h, l), elem, l), elem)

RECURSIVE Uniq(_, _, _, _)
Uniq(h, e, l, dup) ==
  LET n == h.next[e]
  IN IF n = list_end(l) THEN h
     ELSE IF ~ Less(e, n) /\ ~ Less(n, e)
          THEN Uniq(list_insert(list_remove(h, n), list_end(dup), n), e, l, dup)
          ELSE Uniq(h, n, l, dup)

list_unique(h, l, dup) == IF list_empty(h, l) THEN h ELSE Uniq(h, list_begin(h, l), l, dup)

\* list_max() and list_min(): the first of the greatest, or of the least.
RECURSIVE Best(_, _, _, _, _)
Best(h, best, e, l, max) ==
  LET better == IF max THEN Less(best, e) ELSE Less(e, best)
  IN IF e = list_end(l) THEN best
     ELSE Best(h, IF better THEN e ELSE best, h.next[e], l, max)

list_max(h, l) == Best(h, list_begin(h, l), list_begin(h, l), l, TRUE)
list_min(h, l) == Best(h, list_begin(h, l), list_begin(h, l), l, FALSE)

-----------------------------------------------------------------------------
(* The same operations on sequences, and the steps.                        *)

Free == Item \ UNION {ToSet(contents[l]) : l \in ListId}
Spot(l, i) == IF i > Len(contents[l]) THEN TailOf(l) ELSE ElemNode(contents[l][i])
Spots(l) == 1..(Len(contents[l]) + 1)
InOrder(s) == \A i \in 1..(Len(s) - 1) : Key[s[i]] <= Key[s[i + 1]]

\* The stable order: by key, and equal keys as they were.
At(s, e) == CHOOSE p \in 1..Len(s) : s[p] = e
Stable(s) == SetToSortSeq(ToSet(s), LAMBDA a, b :
  Key[a] < Key[b] \/ (Key[a] = Key[b] /\ At(s, a) < At(s, b)))

KeptAt(s, i) == i = 1 \/ Key[s[i - 1]] # Key[s[i]]
Pick(s, Keep(_)) ==
  LET at == SetToSortSeq({i \in 1..Len(s) : Keep(i)}, <)
  IN [n \in 1..Len(at) |-> s[at[n]]]

ListInit ==
  /\ contents = [l \in ListId |-> <<>>]
  /\ heap = LET none == [n \in Nodes |-> Nil]
            IN FoldSet(LAMBDA l, h : list_init(h, l), [prev |-> none, next |-> none], ListId)

Insert(e, l, i) ==
  /\ heap' = list_insert(heap, Spot(l, i), ElemNode(e))
  /\ contents' = [contents EXCEPT ![l] = InsertAt(@, i, e)]

InsertOrdered(e, l) ==
  /\ InOrder(contents[l])
  /\ heap' = list_insert_ordered(heap, l, ElemNode(e))
  /\ contents' = [contents EXCEPT ![l] = Stable(Append(@, e))]

Removed(l, i) ==
  /\ heap' = list_remove(heap, ElemNode(contents[l][i]))
  /\ contents' = [contents EXCEPT ![l] = RemoveAt(@, i)]

\* Elements i to j - 1 of list l go before element k of another list.
Splice(l, i, j, m, k) ==
  /\ heap' = list_splice(heap, Spot(m, k), Spot(l, i), Spot(l, j))
  /\ contents' = [contents EXCEPT
       ![l] = SubSeq(@, 1, i - 1) \o SubSeq(@, j, Len(@)),
       ![m] = SubSeq(@, 1, k - 1) \o SubSeq(contents[l], i, j - 1) \o SubSeq(@, k, Len(@))]

Reversed(l) ==
  /\ heap' = list_reverse(heap, l)
  /\ contents' = [contents EXCEPT ![l] = Reverse(@)]

Sorted(l) ==
  /\ heap' = list_sort(heap, l)
  /\ contents' = [contents EXCEPT ![l] = Stable(@)]

Unique(l, dup) ==
  LET s == contents[l]
  IN /\ heap' = list_unique(heap, l, dup)
     /\ contents' = [contents EXCEPT ![l] = Pick(s, LAMBDA i : KeptAt(s, i)),
                                     ![dup] = @ \o Pick(s, LAMBDA i : ~ KeptAt(s, i))]

ListNext ==
  \E l \in ListId :
    \/ \E e \in Free : InsertOrdered(e, l) \/ \E i \in Spots(l) : Insert(e, l, i)
    \/ \E i \in DOMAIN contents[l] : Removed(l, i)
    \/ Reversed(l) \/ Sorted(l)
    \/ \E m \in ListId \ {l} :
         \/ Unique(l, m)
         \/ \E i, j \in Spots(l), k \in Spots(m) : i <= j /\ Splice(l, i, j, m, k)

ListSpec == ListInit /\ [][ListNext]_listvars

-----------------------------------------------------------------------------
(* Properties.                                                             *)

\* Walking a list from either end, by next or by prev, meets exactly the
\* elements it should hold, in order, after any sequence of inserts, removals,
\* splices, reversals, sorts and removals of duplicates; list_max() and
\* list_min() then return an extreme element, the first of them.
Linked(l) ==
  LET s == contents[l]
      node == <<HeadOf(l)>> \o [i \in 1..Len(s) |-> ElemNode(s[i])] \o <<TailOf(l)>>
      IsFirst(e, Rel(_, _)) == \A i \in 1..Len(s) : Rel(Key[s[i]], Key[e.of]) =>
        \E j \in 1..i : s[j] = e.of
  IN /\ \A i \in 1..(Len(node) - 1) :
          heap.next[node[i]] = node[i + 1] /\ heap.prev[node[i + 1]] = node[i]
     /\ s # <<>> => /\ IsFirst(list_max(heap, l), LAMBDA x, y : x >= y)
                    /\ IsFirst(list_min(heap, l), LAMBDA x, y : x <= y)

ListsLinked == \A l \in ListId : Linked(l)
=============================================================================
