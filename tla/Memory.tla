------------------------------- MODULE Memory -------------------------------
(***************************************************************************)
(* The kernel's page pool (threads/palloc.c) and the block allocator built *)
(* on it (threads/malloc.c).  A page holds an arena of equal blocks, or    *)
(* starts a big block of whole pages.  The bitmap of used pages is scanned *)
(* and set in two steps under the pool's lock; palloc_free_multiple()      *)
(* clears bits without that lock, and malloc() calls the page allocator    *)
(* with its descriptor's lock held.                                        *)
(***************************************************************************)
EXTENDS ListOps, Null

CONSTANTS
  Thread,
  PAGE_CNT,          \* pages of the pool
  Desc,              \* malloc() descriptors, one for each block size
  blocks_per_arena,  \* [Desc -> Nat]
  BigPages,          \* page counts of the requests too big for a descriptor
  ELEM_BITS          \* width of an element of the bitmap

BITMAP_ERROR == -1
INSTANCE Bitmap

VARIABLES
  used_map,    \* bitmap of used pages
  pool_lock,   \* holder of pool->lock, or NULL
  desc_lock,   \* [Desc -> holder of d->lock, or NULL]
  arena,       \* [page -> header of the arena that starts there, or NULL]
  free_list,   \* [Desc -> sequence of free blocks]
  pc, req, idx,\* each thread's place, request and result of bitmap_scan()
  owner        \* what each thread was given and has not freed

vars == <<used_map, pool_lock, desc_lock, arena, free_list, pc, req, idx, owner>>
Page == 0..(PAGE_CNT - 1)

\* A block is its page and its index in the arena; index -1 is a big block.
Block == [page : Page, idx : Nat \cup {-1}]

Init ==
  /\ \E g \in SUBSET Bit :
       used_map = bitmap_create(PAGE_CNT, [e \in 0..(elem_cnt(PAGE_CNT) - 1) |-> g])
  /\ pool_lock = NULL
  /\ desc_lock = [d \in Desc |-> NULL]
  /\ arena = [p \in Page |-> NULL]
  /\ free_list = [d \in Desc |-> <<>>]
  /\ pc = [t \in Thread |-> "idle"]
  /\ req = [t \in Thread |-> NULL]
  /\ idx = [t \in Thread |-> BITMAP_ERROR]
  /\ owner = [t \in Thread |-> {}]

-----------------------------------------------------------------------------
(* palloc_get_multiple() for the pages the request needs.                  *)

PagesOf(r) == IF r.desc = NULL THEN r.pages ELSE 1

PoolScan(t) ==
  /\ pc[t] = "get" /\ pool_lock = NULL
  /\ pool_lock' = t
  /\ idx' = [idx EXCEPT ![t] = bitmap_scan(used_map, 0, PagesOf(req[t]), FALSE)]
  /\ pc' = [pc EXCEPT ![t] = "flip"]
  /\ UNCHANGED <<used_map, desc_lock, arena, free_list, req, owner>>

PoolFlip(t) ==
  /\ pc[t] = "flip"
  /\ used_map' = IF idx[t] = BITMAP_ERROR THEN used_map
                 ELSE bitmap_set_multiple(used_map, idx[t], PagesOf(req[t]), TRUE)
  /\ pool_lock' = NULL
  /\ pc' = [pc EXCEPT ![t] = "got"]
  /\ UNCHANGED <<desc_lock, arena, free_list, req, idx, owner>>

palloc_free_multiple(p, cnt) ==
  used_map' = bitmap_set_multiple(used_map, p, cnt, FALSE)

-----------------------------------------------------------------------------
(* malloc().                                                               *)

Return(t) ==
  /\ pc' = [pc EXCEPT ![t] = "idle"]
  /\ req' = [req EXCEPT ![t] = NULL]
  /\ idx' = [idx EXCEPT ![t] = BITMAP_ERROR]

Malloc(t) ==
  /\ pc[t] = "idle"
  /\ \E d \in Desc \cup {NULL}, n \in BigPages :
       /\ req' = [req EXCEPT ![t] = [desc |-> d, pages |-> n]]
       /\ pc' = [pc EXCEPT ![t] = IF d = NULL THEN "get" ELSE "lock"]
  /\ UNCHANGED <<used_map, pool_lock, desc_lock, arena, free_list, idx, owner>>

\* Takes d->lock and looks at the free list.
MallocLock(t) ==
  LET d == req[t].desc IN
  /\ pc[t] = "lock" /\ desc_lock[d] = NULL
  /\ desc_lock' = [desc_lock EXCEPT ![d] = t]
  /\ pc' = [pc EXCEPT ![t] = IF free_list[d] = <<>> THEN "get" ELSE "pop"]
  /\ UNCHANGED <<used_map, pool_lock, arena, free_list, req, idx, owner>>

\* No page: a null pointer, with d->lock released.
MallocFails(t) ==
  LET d == req[t].desc IN
  /\ pc[t] = "got" /\ idx[t] = BITMAP_ERROR
  /\ desc_lock' = IF d = NULL THEN desc_lock ELSE [desc_lock EXCEPT ![d] = NULL]
  /\ Return(t)
  /\ UNCHANGED <<used_map, pool_lock, arena, free_list, owner>>

\* The pages of a big block: the header counts the pages.
MallocBig(t) ==
  /\ pc[t] = "got" /\ idx[t] # BITMAP_ERROR /\ req[t].desc = NULL
  /\ arena' = [arena EXCEPT ![idx[t]] = [desc |-> NULL, free_cnt |-> req[t].pages]]
  /\ owner' = [owner EXCEPT ![t] = @ \cup {[page |-> idx[t], idx |-> -1]}]
  /\ Return(t)
  /\ UNCHANGED <<used_map, pool_lock, desc_lock, free_list>>

\* A new arena: all its blocks go on the free list.
MallocArena(t) ==
  LET d == req[t].desc IN
  /\ pc[t] = "got" /\ idx[t] # BITMAP_ERROR /\ d # NULL
  /\ arena' = [arena EXCEPT ![idx[t]] = [desc |-> d, free_cnt |-> blocks_per_arena[d]]]
  /\ free_list' = [free_list EXCEPT ![d] = @ \o
       [i \in 1..blocks_per_arena[d] |-> [page |-> idx[t], idx |-> i - 1]]]
  /\ pc' = [pc EXCEPT ![t] = "pop"]
  /\ UNCHANGED <<used_map, pool_lock, desc_lock, req, idx, owner>>

MallocPop(t) ==
  LET d == req[t].desc
      b == Head(free_list[d])
  IN
  /\ pc[t] = "pop"
  /\ free_list' = [free_list EXCEPT ![d] = Tail(@)]
  /\ arena' = [arena EXCEPT ![b.page].free_cnt = @ - 1]
  /\ desc_lock' = [desc_lock EXCEPT ![d] = NULL]
  /\ owner' = [owner EXCEPT ![t] = @ \cup {b}]
  /\ Return(t)
  /\ UNCHANGED <<used_map, pool_lock>>

-----------------------------------------------------------------------------
(* free().                                                                 *)

\* Mutant: one page is given back, whatever the header counts.
FreeBig_one(t, b) ==
  /\ pc[t] = "idle" /\ b \in owner[t] /\ arena[b.page].desc = NULL
  /\ owner' = [owner EXCEPT ![t] = @ \ {b}]
  /\ palloc_free_multiple(b.page, 1)
  /\ arena' = [arena EXCEPT ![b.page] = NULL]
  /\ UNCHANGED <<pool_lock, desc_lock, free_list, pc, req, idx>>

FreeBig(t, b) ==
  /\ pc[t] = "idle" /\ b \in owner[t] /\ arena[b.page].desc = NULL
  /\ owner' = [owner EXCEPT ![t] = @ \ {b}]
  /\ palloc_free_multiple(b.page, arena[b.page].free_cnt)
  /\ arena' = [arena EXCEPT ![b.page] = NULL]
  /\ UNCHANGED <<pool_lock, desc_lock, free_list, pc, req, idx>>

\* Under d->lock: the block goes on the free list, and an arena that is unused
\* again has its blocks taken off and its page freed.
FreeBlock(t, b) ==
  LET a == arena[b.page]
      d == a.desc
      full == a.free_cnt + 1 >= blocks_per_arena[d]
      list == <<b>> \o free_list[d]
  IN
  /\ pc[t] = "idle" /\ b \in owner[t] /\ d # NULL /\ desc_lock[d] = NULL
  /\ owner' = [owner EXCEPT ![t] = @ \ {b}]
  /\ free_list' = [free_list EXCEPT ![d] =
       IF full THEN list_without(list, {c \in Elems(list) : c.page = b.page}) ELSE list]
  /\ arena' = [arena EXCEPT ![b.page] =
       IF full THEN NULL ELSE [a EXCEPT !.free_cnt = @ + 1]]
  /\ IF full THEN palloc_free_multiple(b.page, 1) ELSE UNCHANGED used_map
  /\ UNCHANGED <<pool_lock, desc_lock, pc, req, idx>>

Next == \E t \in Thread :
  \/ Malloc(t) \/ PoolScan(t) \/ PoolFlip(t) \/ MallocLock(t) \/ MallocFails(t)
  \/ MallocBig(t) \/ MallocArena(t) \/ MallocPop(t)
  \/ \E b \in owner[t] : FreeBig(t, b) \/ FreeBlock(t, b)

Spec == Init /\ [][Next]_vars

-----------------------------------------------------------------------------
(* Properties.                                                             *)

\* The pages of an arena or big block, and those between bitmap_scan_and_flip()
\* and the header.
Held(p) == IF arena[p] = NULL THEN {}
           ELSE IF arena[p].desc = NULL THEN p..(p + arena[p].free_cnt - 1) ELSE {p}
Taken(t) == IF pc[t] = "got" /\ idx[t] # BITMAP_ERROR
            THEN idx[t]..(idx[t] + PagesOf(req[t]) - 1) ELSE {}

\* The bitmap marks exactly the pages that are in use, and no page is in use
\* twice: the unlocked palloc_free_multiple() never races with a scan into
\* giving a page to two owners or losing one.
PagesExclusive ==
  /\ {p \in Page : bitmap_test(used_map, p)} =
       (UNION {Held(p) : p \in Page}) \cup (UNION {Taken(t) : t \in Thread})
  /\ \A p, q \in Page : p # q => Held(p) \cap Held(q) = {}
  /\ \A t \in Thread : /\ \A p \in Page : Taken(t) \cap Held(p) = {}
                       /\ \A u \in Thread \ {t} : Taken(t) \cap Taken(u) = {}

\* Every block of an arena is either on the free list, once, or with exactly one
\* owner; free_cnt counts the free ones, so the ASSERT in free() holds and an
\* arena is given back only when nobody has a block in it.
BlocksAccounted ==
  \A p \in Page : arena[p] # NULL /\ arena[p].desc # NULL =>
    LET d    == arena[p].desc
        free == {i \in DOMAIN free_list[d] : free_list[d][i].page = p}
        ours == {b \in UNION {owner[t] : t \in Thread} : b.page = p}
    IN /\ arena[p].free_cnt = Cardinality(free)
       /\ Cardinality({free_list[d][i] : i \in free}) = Cardinality(free)
       /\ Cardinality(free) + Cardinality(ours) = blocks_per_arena[d]
       /\ \A i \in free : free_list[d][i] \notin ours
       /\ \A t, u \in Thread : t # u => owner[t] \cap owner[u] = {}

MemorySound == PagesExclusive /\ BlocksAccounted
=============================================================================
