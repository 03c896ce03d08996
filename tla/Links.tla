-------------------------------- MODULE Links -------------------------------
(***************************************************************************)
(* The pointers of list.c: h.next and h.prev, functions on nodes, and the  *)
(* three operations all others are made of.                                *)
(***************************************************************************)

\* a->next = b and a->prev = b
SetNext(h, a, b) == [h EXCEPT !.next[a] = b]
SetPrev(h, a, b) == [h EXCEPT !.prev[a] = b]

list_insert(h, before, elem) ==
  LET a == SetNext(SetPrev(h, elem, h.prev[before]), elem, before)
      b == SetNext(a, a.prev[before], elem)
  IN SetPrev(b, before, elem)

list_remove(h, elem) ==
  LET a == SetNext(h, h.prev[elem], h.next[elem])
  IN SetPrev(a, a.next[elem], a.prev[elem])

\* Mutant: BEFORE does not point back to the last element.
list_splice_oneway(h, before, first, end) ==
  LET last == h.prev[end]
      a == SetNext(h, h.prev[first], h.next[last])
      b == SetPrev(a, a.next[last], a.prev[first])
      c == SetNext(SetPrev(b, first, b.prev[before]), last, before)
  IN IF first = end THEN h ELSE SetNext(c, c.prev[before], first)

list_splice(h, before, first, end) ==
  LET last == h.prev[end]
      a == SetNext(h, h.prev[first], h.next[last])
      b == SetPrev(a, a.next[last], a.prev[first])
      c == SetNext(SetPrev(b, first, b.prev[before]), last, before)
      d == SetNext(c, c.prev[before], first)
  IN IF first = end THEN h ELSE SetPrev(d, before, last)
=============================================================================
