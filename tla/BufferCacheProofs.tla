-------------------------- MODULE BufferCacheProofs --------------------------
(***************************************************************************)
(* Proofs about module BufferCache: its types, who holds which lock, and   *)
(* that the counts of a block are the clients that use it, from which the  *)
(* safety of eviction follows; that cache_lock() finds a block without     *)
(* sleeping when there are as many blocks as clients; and that the cache   *)
(* is transparent to an only client.                                       *)
(***************************************************************************)
EXTENDS BufferCache, FiniteSetTheorems, TLAPS

Readers(b) == Users(b) \ Writers(b)

\* The clients that use a block can be counted.
LEMMA UsersFinite ==
    ASSUME NEW b
    PROVE  /\ IsFiniteSet(Users(b)) /\ IsFiniteSet(Writers(b)) /\ IsFiniteSet(Readers(b))
           /\ Cardinality(Users(b)) \in Nat
           /\ Cardinality(Writers(b)) \in Nat
           /\ Cardinality(Readers(b)) \in Nat
           /\ Writers(b) \subseteq Users(b) /\ Users(b) \subseteq Client
<1>1. /\ Users(b) \subseteq Client /\ Writers(b) \subseteq Client /\ Readers(b) \subseteq Client
      /\ Writers(b) \subseteq Users(b)
  BY DEF Users, Writers, Readers
<1>2. IsFiniteSet(Client)
  BY CacheAssumption
<1>3. IsFiniteSet(Users(b)) /\ IsFiniteSet(Writers(b)) /\ IsFiniteSet(Readers(b))
  BY <1>1, <1>2, FS_Subset
<1>4. QED
  BY <1>1, <1>3, FS_CardinalityType

(***************************************************************************)
(* A block changes users by one client at a time: what that does to its    *)
(* counts.  Kept: nobody gets or gives up a block.                         *)
(***************************************************************************)
SameUser(c) == blk'[c] = blk[c] /\ (blk[c] # NULL => req'[c].type = req[c].type)

\* The users of a block stay the same if nobody gets it or gives it up.
LEMMA UsersKept ==
    ASSUME NEW b \in Block, \A c \in Client : SameUser(c)
    PROVE  Users(b)' = Users(b) /\ Writers(b)' = Writers(b) /\ Readers(b)' = Readers(b)
<1>1. b # NULL
  BY CacheAssumption
<1>2. Users(b)' = Users(b)
  BY DEF SameUser, Users
<1>3. \A c \in Users(b) : req'[c].type = req[c].type
  BY <1>1 DEF SameUser, Users
<1>4. QED
  BY <1>2, <1>3 DEF Writers, Readers

\* CountsMatch holds on if neither users nor counts change.
LEMMA CountsKept ==
    ASSUME CountsMatch, \A c \in Client : SameUser(c),
           \A b \in Block : /\ cache'[b].readers = cache[b].readers
                            /\ cache'[b].writers = cache[b].writers
    PROVE  CountsMatch'
<1> SUFFICES ASSUME NEW b \in Block
             PROVE  /\ cache'[b].writers = Cardinality(Writers(b)')
                    /\ cache'[b].readers = Cardinality((Users(b) \ Writers(b))')
  BY DEF CountsMatch
<1>1. Writers(b)' = Writers(b) /\ (Users(b) \ Writers(b))' = Users(b) \ Writers(b)
  BY UsersKept DEF Readers
<1>2. QED
  BY <1>1 DEF CountsMatch

\* A client that gets block b counts as a writer or as a reader of it.
LEMMA UserAdded ==
    ASSUME CountsMatch, NEW c \in Client, NEW b \in Block, NEW type \in Type,
           blk[c] = NULL, blk'[c] = b, req'[c].type = type,
           \A d \in Client \ {c} : SameUser(d),
           cache'[b].writers = IF type = "EXCLUSIVE" THEN cache[b].writers + 1
                               ELSE cache[b].writers,
           cache'[b].readers = IF type = "EXCLUSIVE" THEN cache[b].readers
                               ELSE cache[b].readers + 1,
           \A a \in Block \ {b} : /\ cache'[a].readers = cache[a].readers
                                  /\ cache'[a].writers = cache[a].writers
    PROVE  CountsMatch'
<1>0. \A a \in Block : a # NULL
  BY CacheAssumption
<1>1. ASSUME NEW a \in Block, a # b
      PROVE  /\ cache'[a].writers = Cardinality(Writers(a)')
             /\ cache'[a].readers = Cardinality((Users(a) \ Writers(a))')
  <2>1. Users(a)' = Users(a)
    BY <1>0, <1>1 DEF SameUser, Users
  <2>2. \A d \in Users(a) : req'[d].type = req[d].type
    BY <1>0 DEF SameUser, Users
  <2>3. Writers(a)' = Writers(a)
    BY <2>1, <2>2 DEF Writers
  <2>4. QED
    BY <1>1, <2>1, <2>3 DEF CountsMatch
<1>2. Users(b)' = Users(b) \cup {c} /\ c \notin Users(b)
  BY <1>0 DEF SameUser, Users
<1>3. \A d \in Users(b) : req'[d].type = req[d].type
  BY <1>0 DEF SameUser, Users
<1>4. CASE type = "EXCLUSIVE"
  <2>1. Writers(b)' = Writers(b) \cup {c} /\ c \notin Writers(b)
    BY <1>2, <1>3, <1>4 DEF Writers
  <2>2. (Users(b) \ Writers(b))' = Users(b) \ Writers(b)
    BY <1>2, <2>1
  <2>3. Cardinality(Writers(b)') = Cardinality(Writers(b)) + 1
    <3>1. IsFiniteSet(Writers(b))
      BY UsersFinite
    <3>2. Cardinality(Writers(b) \cup {c}) = Cardinality(Writers(b)) + 1
      BY <2>1, <3>1, FS_AddElement
    <3>3. QED
      BY <2>1, <3>2
  <2>4. /\ cache'[b].writers = Cardinality(Writers(b)')
        /\ cache'[b].readers = Cardinality((Users(b) \ Writers(b))')
    BY <1>4, <2>2, <2>3 DEF CountsMatch
  <2>5. QED
    BY <1>1, <2>4 DEF CountsMatch
<1>5. CASE type # "EXCLUSIVE"
  <2>1. Writers(b)' = Writers(b) /\ c \notin Writers(b)
    BY <1>2, <1>3, <1>5 DEF Writers
  <2>2. (Users(b) \ Writers(b))' = (Users(b) \ Writers(b)) \cup {c}
    BY <1>2, <2>1
  <2> DEFINE R == Users(b) \ Writers(b)
  <2>a. IsFiniteSet(R) /\ c \notin R
    BY <1>2, UsersFinite DEF Readers
  <2>b. Cardinality(R \cup {c}) = Cardinality(R) + 1
    <3> HIDE DEF R
    <3> QED BY <2>a, FS_AddElement
  <2>3. Cardinality((Users(b) \ Writers(b))') = Cardinality(Users(b) \ Writers(b)) + 1
    BY <2>2, <2>b
  <2>4. /\ cache'[b].writers = Cardinality(Writers(b)')
        /\ cache'[b].readers = Cardinality((Users(b) \ Writers(b))')
    BY <1>5, <2>1, <2>3 DEF CountsMatch
  <2>5. QED
    BY <1>1, <2>4 DEF CountsMatch
<1>6. QED
  BY <1>4, <1>5

\* A client that gives up block b is uncounted, and was counted before.
LEMMA UserRemoved ==
    ASSUME CountsMatch, NEW c \in Client, NEW b \in Block,
           blk[c] = b, blk'[c] = NULL,
           \A d \in Client \ {c} : SameUser(d),
           cache'[b].writers = IF req[c].type = "EXCLUSIVE" THEN cache[b].writers - 1
                               ELSE cache[b].writers,
           cache'[b].readers = IF req[c].type = "EXCLUSIVE" THEN cache[b].readers
                               ELSE cache[b].readers - 1,
           \A a \in Block \ {b} : /\ cache'[a].readers = cache[a].readers
                                  /\ cache'[a].writers = cache[a].writers
    PROVE  CountsMatch'
<1>0. \A a \in Block : a # NULL
  BY CacheAssumption
<1>1. ASSUME NEW a \in Block, a # b
      PROVE  /\ cache'[a].writers = Cardinality(Writers(a)')
             /\ cache'[a].readers = Cardinality((Users(a) \ Writers(a))')
  <2>1. Users(a)' = Users(a)
    BY <1>0, <1>1 DEF SameUser, Users
  <2>2. \A d \in Users(a) : req'[d].type = req[d].type
    BY <1>0, <1>1 DEF SameUser, Users
  <2>3. Writers(a)' = Writers(a)
    BY <2>1, <2>2 DEF Writers
  <2>4. QED
    BY <1>1, <2>1, <2>3 DEF CountsMatch
<1>2. Users(b)' = Users(b) \ {c} /\ c \in Users(b)
  BY <1>0 DEF SameUser, Users
<1>3. \A d \in Users(b) \ {c} : req'[d].type = req[d].type
  BY <1>0 DEF SameUser, Users
<1>4. CASE req[c].type = "EXCLUSIVE"
  <2>1. Writers(b)' = Writers(b) \ {c} /\ c \in Writers(b)
    BY <1>2, <1>3, <1>4 DEF Writers
  <2>2. (Users(b) \ Writers(b))' = Users(b) \ Writers(b)
    BY <1>2, <2>1
  <2>3. Cardinality(Writers(b)') = Cardinality(Writers(b)) - 1
    <3>1. IsFiniteSet(Writers(b))
      BY UsersFinite
    <3>2. Cardinality(Writers(b) \ {c}) = Cardinality(Writers(b)) - 1
      BY <2>1, <3>1, FS_RemoveElement
    <3>3. QED
      BY <2>1, <3>2
  <2>4. /\ cache'[b].writers = Cardinality(Writers(b)')
        /\ cache'[b].readers = Cardinality((Users(b) \ Writers(b))')
    BY <1>4, <2>2, <2>3 DEF CountsMatch
  <2>5. QED
    BY <1>1, <2>4 DEF CountsMatch
<1>5. CASE req[c].type # "EXCLUSIVE"
  <2>1. Writers(b)' = Writers(b) /\ c \notin Writers(b)
    BY <1>2, <1>3, <1>5 DEF Writers
  <2>2. (Users(b) \ Writers(b))' = (Users(b) \ Writers(b)) \ {c}
    BY <1>2, <2>1
  <2> DEFINE R == Users(b) \ Writers(b)
  <2>a. IsFiniteSet(R) /\ c \in R
    BY <1>2, <2>1, UsersFinite DEF Readers
  <2>b. Cardinality(R \ {c}) = Cardinality(R) - 1
    <3> HIDE DEF R
    <3> QED BY <2>a, FS_RemoveElement
  <2>3. Cardinality((Users(b) \ Writers(b))') = Cardinality(Users(b) \ Writers(b)) - 1
    BY <2>2, <2>b
  <2>4. /\ cache'[b].writers = Cardinality(Writers(b)')
        /\ cache'[b].readers = Cardinality((Users(b) \ Writers(b))')
    BY <1>5, <2>1, <2>3 DEF CountsMatch
  <2>5. QED
    BY <1>1, <2>4 DEF CountsMatch
<1>6. QED
  BY <1>4, <1>5

(***************************************************************************)
(* The inductive invariant and its preservation.                           *)
(***************************************************************************)
IInv == TypeOK /\ CallInv /\ BlockLockInv /\ CountsMatch

Counts(cb) == <<cb.readers, cb.writers>>

\* Steps in which no client gets or gives up a block, a request or a lock.
Moved == /\ UNCHANGED <<blk, block_lock>>
         /\ \A d \in Client : /\ req'[d] # NULL <=> pc'[d] \in Calling
                              /\ pc'[d] \in HasBlock <=> pc[d] \in HasBlock
                              /\ pc'[d] = "leaving" <=> pc[d] = "leaving"
                              /\ blk[d] # NULL => req'[d].type = req[d].type
         /\ \A b \in Block : Counts(cache'[b]) = Counts(cache[b])

\* Such steps keep the invariant.
LEMMA MovedKeeps ==
    ASSUME IInv, TypeOK', Moved
    PROVE  IInv'
<1>1. CallInv'
  BY DEF IInv, CallInv, Moved, HasBlock
<1>2. ASSUME NEW b \in Block, NEW c \in Client
      PROVE  block_lock'[b] = c <=> /\ blk'[c] = b
                                    /\ req'[c].type = "EXCLUSIVE" \/ pc'[c] = "leaving"
  <2>1. b # NULL
    BY CacheAssumption
  <2>2. blk'[c] = blk[c] /\ block_lock'[b] = block_lock[b]
    BY DEF Moved
  <2>3. CASE blk[c] = b
    BY <2>1, <2>2, <2>3 DEF IInv, BlockLockInv, Moved
  <2>4. CASE blk[c] # b
    BY <2>2, <2>4 DEF IInv, BlockLockInv
  <2>5. QED
    BY <2>3, <2>4
<1>3. \A c \in Client : SameUser(c)
  BY DEF Moved, SameUser
<1>4. CountsMatch'
  BY <1>3, CountsKept DEF IInv, Moved, Counts
<1>5. QED
  BY <1>1, <1>2, <1>4 DEF IInv, BlockLockInv

\* The operations on one block leave a well-typed block with the same counts.
LEMMA BlockOps ==
    ASSUME NEW cb \in cache_block
    PROVE  /\ clear_block(cb) \in cache_block /\ Counts(clear_block(cb)) = Counts(cb)
           /\ flush_block(cb) \in cache_block /\ Counts(flush_block(cb)) = Counts(cb)
<1>1. clear_block(cb) \in cache_block /\ Counts(clear_block(cb)) = Counts(cb)
  BY DEF clear_block, cache_block, Counts
<1>2. QED
  BY <1>1 DEF flush_block

\* Writing a block back leaves a well-typed disk.
LEMMA DiskType ==
    ASSUME disk \in [Sector -> Content], NEW cb \in cache_block
    PROVE  written(cb) \in [Sector -> Content]
  BY DEF written, must_write, cache_block

\* cache_lock() hands out a block whose block_lock is free: the client becomes
\* its writer, and keeps block_lock, or one of its readers.
LEMMA GrantKeeps ==
    ASSUME IInv, NEW c \in Client, NEW b \in Block, NEW cb \in cache_block,
           pc[c] \in Calling \ HasBlock, block_lock[b] = NULL,
           Counts(cb) = Counts(cache[b]), grant(c, b, cb),
           disk' \in [Sector -> Content], hand' \in 0 .. CACHE_CNT
    PROVE  IInv'
<1> DEFINE r == req[c]
           nb == add_lock([cb EXCEPT !.sector = r.sector], r.type)
<1>0. /\ b # NULL /\ c # NULL /\ c \in Thread /\ 0 \in 0 .. CACHE_CNT
      /\ \A d \in Client : d # NULL
  BY CacheAssumption DEF Thread
<1>1. r \in Request /\ blk[c] = NULL /\ r.type \in Type /\ r.sector \in Sector
  BY DEF IInv, CallInv, TypeOK, Request
<1>2. /\ cache' = [cache EXCEPT ![b] = nb]
      /\ block_lock' = [block_lock EXCEPT ![b] = IF r.type = "EXCLUSIVE" THEN c ELSE NULL]
      /\ cache_sync' = NULL /\ UNCHANGED <<req, buffer, panicked>>
      /\ blk' = [blk EXCEPT ![c] = b]
      /\ i' = [i EXCEPT ![c] = 0]
      /\ pc' = [pc EXCEPT ![c] = "locked"]
  BY DEF grant, goto, call_vars
<1>3. /\ nb \in cache_block
      /\ nb.writers = IF r.type = "EXCLUSIVE" THEN cache[b].writers + 1 ELSE cache[b].writers
      /\ nb.readers = IF r.type = "EXCLUSIVE" THEN cache[b].readers ELSE cache[b].readers + 1
  <2> DEFINE sb == [cb EXCEPT !.sector = r.sector]
  <2>1. sb \in cache_block /\ sb.readers = cb.readers /\ sb.writers = cb.writers
    BY <1>1 DEF cache_block
  <2>2. cb.readers = cache[b].readers /\ cb.writers = cache[b].writers
    BY DEF Counts
  <2> HIDE DEF sb
  <2>3. /\ add_lock(sb, r.type) \in cache_block
        /\ add_lock(sb, r.type).writers = IF r.type = "EXCLUSIVE" THEN sb.writers + 1
                                          ELSE sb.writers
        /\ add_lock(sb, r.type).readers = IF r.type = "EXCLUSIVE" THEN sb.readers
                                          ELSE sb.readers + 1
    BY <2>1 DEF add_lock, cache_block
  <2>4. QED
    BY <2>1, <2>2, <2>3 DEF sb
<1> HIDE DEF nb
<1>4. TypeOK'
  BY <1>0, <1>1, <1>2, <1>3 DEF IInv, TypeOK, PC
<1>5. CallInv'
  BY <1>0, <1>1, <1>2 DEF IInv, CallInv, TypeOK, HasBlock, Calling
<1>6. BlockLockInv'
  <2> SUFFICES ASSUME NEW a \in Block, NEW d \in Client
               PROVE  block_lock'[a] = d <=> /\ blk'[d] = a
                                             /\ req'[d].type = "EXCLUSIVE" \/ pc'[d] = "leaving"
    BY DEF BlockLockInv
  <2>1. \A e \in Client : block_lock[a] = e <=> /\ blk[e] = a
                                                /\ req[e].type = "EXCLUSIVE" \/ pc[e] = "leaving"
    BY DEF IInv, BlockLockInv
  <2>t. /\ block_lock \in [Block -> Client \cup {NULL}]
        /\ blk \in [Client -> Block \cup {NULL}]
        /\ pc \in [Thread -> PC]
        /\ d \in Thread
    BY DEF IInv, TypeOK, Thread
  <2>2. /\ block_lock'[a] = IF a = b THEN (IF r.type = "EXCLUSIVE" THEN c ELSE NULL)
                            ELSE block_lock[a]
        /\ blk'[d] = IF d = c THEN b ELSE blk[d]
        /\ pc'[d] = IF d = c THEN "locked" ELSE pc[d]
        /\ req' = req
    BY <1>0, <1>2, <2>t
  <2>3. a # NULL
    BY CacheAssumption
  <2>4. CASE d = c
    BY <1>0, <1>1, <2>1, <2>2, <2>3, <2>4
  <2>5. CASE d # c
    BY <1>0, <2>1, <2>2, <2>5
  <2>6. QED
    BY <2>4, <2>5
<1>7. \A d \in Client \ {c} : SameUser(d)
  BY <1>2 DEF SameUser, IInv, TypeOK
<1>8. CountsMatch'
  <2>1. blk'[c] = b /\ req'[c].type = r.type /\ r.type \in Type
    BY <1>1, <1>2 DEF IInv, TypeOK
  <2>2. cache'[b] = nb /\ \A a \in Block \ {b} : cache'[a] = cache[a]
    BY <1>2 DEF IInv, TypeOK
  <2>3. QED
    BY <1>1, <1>3, <1>7, <2>1, <2>2, UserAdded DEF IInv
<1>9. QED
  BY <1>4, <1>5, <1>6, <1>8 DEF IInv

\* cache_unlock() gives a block up: a client that held block_lock as its writer
\* or to uncount itself releases it.
LEMMA ReturnKeeps ==
    ASSUME IInv, NEW c \in Client, pc[c] \in {"unlock", "leaving"},
           block_lock[blk[c]] = c, return(c),
           \/ pc[c] = "unlock" /\ cache' = [cache EXCEPT ![blk[c]].writers = @ - 1]
           \/ pc[c] = "leaving" /\ cache' = [cache EXCEPT ![blk[c]].readers = @ - 1]
    PROVE  IInv'
<1> DEFINE b == blk[c]
           ex == req[c].type = "EXCLUSIVE"
<1>0. c # NULL /\ c \in Thread /\ \A a \in Block : a # NULL
  BY CacheAssumption DEF Thread
<1>1. b \in Block /\ req[c] \in Request
  BY DEF IInv, CallInv, TypeOK, HasBlock, Calling
<1>2. ex <=> pc[c] = "unlock"
  BY <1>1 DEF IInv, CallInv, BlockLockInv
<1>3. c \in Users(b) /\ (ex => c \in Writers(b)) /\ (~ex => c \in Readers(b))
  BY DEF Users, Writers, Readers
<1>4. /\ ex => cache[b].writers - 1 \in Nat
      /\ ~ex => cache[b].readers - 1 \in Nat
  <2>1. /\ cache[b].writers = Cardinality(Writers(b)) /\ cache[b].writers \in Nat
        /\ cache[b].readers = Cardinality(Readers(b)) /\ cache[b].readers \in Nat
    BY <1>1, UsersFinite DEF IInv, CountsMatch, Readers
  <2>2. ex => cache[b].writers # 0
    BY <1>3, <2>1, UsersFinite, FS_EmptySet
  <2>3. ~ex => cache[b].readers # 0
    BY <1>3, <2>1, UsersFinite, FS_EmptySet
  <2>4. QED
    BY <2>1, <2>2, <2>3
<1>5. /\ block_lock' = [block_lock EXCEPT ![b] = NULL]
      /\ blk' = [blk EXCEPT ![c] = NULL]
      /\ req' = [req EXCEPT ![c] = NULL]
      /\ pc' = [pc EXCEPT ![c] = "idle"]
      /\ buffer' = [buffer EXCEPT ![c] = [p \in Part |-> Zero]]
      /\ UNCHANGED <<cache_sync, hand, disk, i, panicked>>
  BY DEF return, goto
<1>6. /\ cache' \in [Block -> cache_block]
      /\ \A a \in Block \ {b} : cache'[a] = cache[a]
      /\ cache'[b].writers = IF ex THEN cache[b].writers - 1 ELSE cache[b].writers
      /\ cache'[b].readers = IF ex THEN cache[b].readers ELSE cache[b].readers - 1
  <2>1. cache \in [Block -> cache_block] /\ cache[b] \in cache_block
    BY <1>1 DEF IInv, TypeOK
  <2>2. CASE ex
    <3>1. cache' = [cache EXCEPT ![b].writers = @ - 1]
      BY <1>2, <2>2
    <3>2. QED
      BY <1>1, <1>4, <2>1, <2>2, <3>1 DEF cache_block
  <2>3. CASE ~ex
    <3>1. cache' = [cache EXCEPT ![b].readers = @ - 1]
      BY <1>2, <2>3
    <3>2. QED
      BY <1>1, <1>4, <2>1, <2>3, <3>1 DEF cache_block
  <2>4. QED
    BY <2>2, <2>3
<1>7. TypeOK'
  BY <1>0, <1>1, <1>5, <1>6, CacheAssumption DEF IInv, TypeOK, PC, Content
<1>8. CallInv'
  BY <1>0, <1>5 DEF IInv, CallInv, TypeOK, HasBlock, Calling
<1>9. BlockLockInv'
  <2> SUFFICES ASSUME NEW a \in Block, NEW d \in Client
               PROVE  block_lock'[a] = d <=> /\ blk'[d] = a
                                             /\ req'[d].type = "EXCLUSIVE" \/ pc'[d] = "leaving"
    BY DEF BlockLockInv
  <2>1. \A e \in Client : block_lock[a] = e <=> /\ blk[e] = a
                                                /\ req[e].type = "EXCLUSIVE" \/ pc[e] = "leaving"
    BY DEF IInv, BlockLockInv
  <2>2. /\ block_lock \in [Block -> Client \cup {NULL}]
        /\ blk \in [Client -> Block \cup {NULL}]
        /\ pc \in [Thread -> PC] /\ req \in [Client -> Request \cup {NULL}]
        /\ d \in Thread /\ d # NULL /\ a # NULL
    BY <1>0, CacheAssumption DEF IInv, TypeOK, Thread
  <2>3. CASE d = c
    <3>1. blk'[d] = NULL /\ block_lock'[a] = (IF a = b THEN NULL ELSE block_lock[a])
      BY <1>1, <1>5, <2>2, <2>3
    <3>2. QED
      BY <2>1, <2>2, <2>3, <3>1
  <2>4. CASE d # c
    <3>1. /\ blk'[d] = blk[d] /\ req'[d] = req[d] /\ pc'[d] = pc[d]
          /\ block_lock'[a] = IF a = b THEN NULL ELSE block_lock[a]
      BY <1>1, <1>5, <2>2, <2>4
    <3>2. a = b => block_lock[a] = c
      OBVIOUS
    <3>3. QED
      BY <2>1, <2>2, <2>4, <3>1, <3>2
  <2>5. QED
    BY <2>3, <2>4
<1>10. \A d \in Client \ {c} : SameUser(d)
  BY <1>5 DEF SameUser, IInv, TypeOK
<1>11. CountsMatch'
  <2>1. blk'[c] = NULL
    BY <1>5 DEF IInv, TypeOK
  <2>2. QED
    BY <1>1, <1>6, <1>10, <2>1, UserRemoved DEF IInv
<1>12. QED
  BY <1>7, <1>8, <1>9, <1>11 DEF IInv

\* The ordinary case of Moved: thread t goes on within the same part of the
\* code and no request changes.
LEMMA GoesOn ==
    ASSUME IInv, NEW t \in Thread, NEW p \in PC, pc' = [pc EXCEPT ![t] = p],
           UNCHANGED <<blk, block_lock, req>>,
           \/ pc[t] \in HasBlock \ {"leaving"} /\ p \in HasBlock \ {"leaving"}
           \/ pc[t] \in Calling \ HasBlock /\ p \in Calling \ HasBlock
           \/ pc[t] \notin Calling /\ p \notin Calling,
           \A b \in Block : Counts(cache'[b]) = Counts(cache[b])
    PROVE  Moved
<1>1. ASSUME NEW d \in Client
      PROVE  /\ pc'[d] \in Calling <=> pc[d] \in Calling
             /\ pc'[d] \in HasBlock <=> pc[d] \in HasBlock
             /\ pc'[d] = "leaving" <=> pc[d] = "leaving"
  BY DEF IInv, TypeOK, Thread, HasBlock, Calling
<1>2. QED
  BY <1>1 DEF Moved, IInv, CallInv

\* The same for a step in which client t transfers parts of its request.
LEMMA Transfers ==
    ASSUME IInv, NEW c \in Client, NEW p \in HasBlock \ {"leaving"}, NEW r \in Request,
           pc[c] = "data", pc' = [pc EXCEPT ![c] = p],
           req' = [req EXCEPT ![c] = r], r.type = req[c].type,
           UNCHANGED <<blk, block_lock>>,
           \A b \in Block : Counts(cache'[b]) = Counts(cache[b])
    PROVE  Moved
<1>1. ASSUME NEW d \in Client
      PROVE  /\ pc'[d] \in Calling <=> pc[d] \in Calling
             /\ pc'[d] \in HasBlock <=> pc[d] \in HasBlock
             /\ pc'[d] = "leaving" <=> pc[d] = "leaving"
  BY DEF IInv, TypeOK, Thread, HasBlock, Calling
<1>2. ASSUME NEW d \in Client
      PROVE  /\ req'[d] # NULL <=> req[d] # NULL
             /\ blk[d] # NULL => req'[d].type = req[d].type
  <2>1. NULL \notin Request /\ req[c] # NULL
    BY CacheAssumption DEF IInv, CallInv, HasBlock, Calling
  <2>2. QED
    BY <2>1 DEF IInv, TypeOK
<1>3. QED
  BY <1>1, <1>2 DEF Moved, IInv, CallInv

\* The scans of in_cache() and find_empty().
LEMMA ScanKeeps ==
    ASSUME IInv, NEW c \in Client, NEW s, NEW next \in {"find_empty", "evict"},
           pc[c] \in {"in_cache", "find_empty"}, scan(c, s, next)
    PROVE  IInv'
<1>0. /\ c \in Thread /\ i[c] \in 0 .. CACHE_CNT /\ CACHE_CNT \in Nat
      /\ pc[c] \in Calling \ HasBlock
  BY CacheAssumption DEF IInv, TypeOK, Thread, Calling, HasBlock
<1>1. CASE /\ i[c] < CACHE_CNT
           /\ block_lock[i[c]] = NULL /\ cache[i[c]].sector = s
           /\ grant(c, i[c], cache[i[c]])
           /\ UNCHANGED hand
  <2>1. i[c] \in Block /\ cache[i[c]] \in cache_block
    BY <1>0, <1>1 DEF IInv, TypeOK, Block
  <2>2. disk' \in [Sector -> Content] /\ hand' \in 0 .. CACHE_CNT
    BY <1>1 DEF scan, IInv, TypeOK
  <2>3. QED
    BY <1>0, <1>1, <2>1, <2>2, GrantKeeps
<1>2. CASE /\ i[c] < CACHE_CNT
           /\ i' = [i EXCEPT ![c] = @ + 1]
           /\ UNCHANGED <<cache, lock_vars, pc, blk, call_vars, panicked>>
  <2>1. TypeOK'
    BY <1>0, <1>2 DEF scan, IInv, TypeOK, lock_vars, call_vars
  <2>2. Moved
    BY <1>2 DEF Moved, lock_vars, call_vars, IInv, CallInv
  <2>3. QED
    BY <2>1, <2>2, MovedKeeps
<1>3. CASE /\ i[c] = CACHE_CNT
           /\ i' = [i EXCEPT ![c] = IF next = "evict" THEN hand ELSE 0]
           /\ goto(c, next)
           /\ UNCHANGED <<cache, lock_vars, blk, call_vars, panicked>>
  <2>1. TypeOK'
    BY <1>0, <1>3 DEF scan, IInv, TypeOK, lock_vars, call_vars, goto, PC
  <2>2. Moved
    BY <1>0, <1>3, GoesOn DEF goto, lock_vars, call_vars, PC, Calling, HasBlock
  <2>3. QED
    BY <2>1, <2>2, MovedKeeps
<1>4. QED
  BY <1>1, <1>2, <1>3 DEF scan

\* One turn of a loop of try_to_empty() under the hand.
LEMMA EvictKeeps ==
    ASSUME IInv, NEW c \in Client, pc[c] \in {"evict", "evict_wrap"},
           hand < CACHE_CNT, evict(c)
    PROVE  IInv'
<1>0. hand \in Block /\ hand \in 0 .. CACHE_CNT /\ CACHE_CNT \in Nat
  BY CacheAssumption DEF IInv, TypeOK, Block
<1>1. CASE /\ evictable(hand)
           /\ disk' = written(cache[hand])
           /\ grant(c, hand, [flush_block(cache[hand]) EXCEPT !.up_to_date = FALSE])
           /\ UNCHANGED hand
  <2> DEFINE fb == flush_block(cache[hand])
  <2>1. cache[hand] \in cache_block /\ disk \in [Sector -> Content]
    BY <1>0 DEF IInv, TypeOK
  <2>2. fb \in cache_block /\ Counts(fb) = Counts(cache[hand])
    BY <2>1, BlockOps
  <2>3. disk' \in [Sector -> Content]
    BY <1>1, <2>1, DiskType
  <2>4. pc[c] \in Calling \ HasBlock /\ block_lock[hand] = NULL
    BY <1>1 DEF evictable, Calling, HasBlock
  <2>5. grant(c, hand, [fb EXCEPT !.up_to_date = FALSE])
    BY <1>1
  <2> HIDE DEF fb
  <2>6. /\ [fb EXCEPT !.up_to_date = FALSE] \in cache_block
        /\ Counts([fb EXCEPT !.up_to_date = FALSE]) = Counts(cache[hand])
    BY <2>2 DEF cache_block, Counts
  <2>7. QED
    BY <1>0, <1>1, <2>3, <2>4, <2>5, <2>6, GrantKeeps
<1>2. CASE /\ hand' = hand + 1
           /\ UNCHANGED <<cache, block_lock, cache_sync, disk, pc, blk, i, call_vars, panicked>>
  <2>1. TypeOK'
    BY <1>0, <1>2 DEF IInv, TypeOK, call_vars
  <2>2. Moved
    BY <1>2 DEF Moved, call_vars, IInv, CallInv
  <2>3. QED
    BY <2>1, <2>2, MovedKeeps
<1>3. QED
  BY <1>1, <1>2 DEF evict

\* Every step keeps the invariant.
LEMMA IInvStep == IInv /\ [Next]_vars => IInv'
<1> SUFFICES ASSUME IInv, [Next]_vars PROVE IInv'
  OBVIOUS
<1>0. CACHE_CNT \in Nat \ {0} /\ Client \subseteq Thread /\ 0 \in 0 .. CACHE_CNT
  BY CacheAssumption DEF Thread
<1>1. ASSUME NEW c \in Client, NEW r \in Request, FullIO(c, r) PROVE IInv'
  <2>1. TypeOK'
    BY <1>0, <1>1 DEF FullIO, goto, IInv, TypeOK, lock_vars, PC
  <2>2. r # NULL
    BY CacheAssumption
  <2>3. ASSUME NEW d \in Client
        PROVE  /\ req'[d] # NULL <=> pc'[d] \in Calling
               /\ pc'[d] \in HasBlock <=> pc[d] \in HasBlock
               /\ pc'[d] = "leaving" <=> pc[d] = "leaving"
               /\ blk[d] # NULL => req'[d].type = req[d].type
    BY <1>0, <1>1, <2>2 DEF FullIO, goto, IInv, TypeOK, CallInv, Calling, HasBlock
  <2>4. Moved
    BY <1>1, <2>3 DEF Moved, FullIO, lock_vars
  <2>5. QED
    BY <2>1, <2>4, MovedKeeps
<1>2. ASSUME NEW c \in Client, CacheSync(c) PROVE IInv'
  <2>1. TypeOK'
    BY <1>0, <1>2 DEF CacheSync, goto, IInv, TypeOK, call_vars, PC
  <2>2. Moved
    BY <1>0, <1>2, GoesOn DEF CacheSync, goto, call_vars, PC, Calling, HasBlock
  <2>3. QED
    BY <2>1, <2>2, MovedKeeps
<1>3. ASSUME NEW c \in Client, InCache(c) \/ FindEmpty(c) PROVE IInv'
  BY <1>3, ScanKeeps DEF InCache, FindEmpty
<1>4. ASSUME NEW c \in Client, TryToEmpty(c) PROVE IInv'
  <2>1. CASE hand < CACHE_CNT /\ evict(c)
    BY <1>4, <2>1, EvictKeeps DEF TryToEmpty
  <2>2. CASE /\ hand' = 0
             /\ goto(c, "evict_wrap")
             /\ UNCHANGED <<cache, block_lock, cache_sync, disk, blk, i, call_vars, panicked>>
    <3>1. TypeOK'
      BY <1>0, <2>2 DEF goto, IInv, TypeOK, call_vars, PC
    <3>2. Moved
      BY <1>0, <1>4, <2>2, GoesOn DEF TryToEmpty, goto, call_vars, PC, Calling, HasBlock
    <3>3. QED
      BY <3>1, <3>2, MovedKeeps
  <2>3. QED
    BY <1>4, <2>1, <2>2 DEF TryToEmpty
<1>5. ASSUME NEW c \in Client, TryToEmptyWrap(c) PROVE IInv'
  <2>1. CASE hand < i[c] /\ evict(c)
    <3>1. hand < CACHE_CNT
      BY <1>0, <2>1 DEF IInv, TypeOK
    <3>2. QED
      BY <1>5, <2>1, <3>1, EvictKeeps DEF TryToEmptyWrap
  <2>2. CASE /\ cache_sync' = NULL
             /\ i' = [i EXCEPT ![c] = 0]
             /\ goto(c, "sync")
             /\ UNCHANGED <<cache, block_lock, hand, disk, blk, call_vars, panicked>>
    <3>1. TypeOK'
      BY <1>0, <2>2 DEF goto, IInv, TypeOK, call_vars, PC
    <3>2. Moved
      BY <1>0, <1>5, <2>2, GoesOn DEF TryToEmptyWrap, goto, call_vars, PC, Calling, HasBlock
    <3>3. QED
      BY <3>1, <3>2, MovedKeeps
  <2>3. QED
    BY <1>5, <2>1, <2>2 DEF TryToEmptyWrap
<1>6. ASSUME NEW c \in Client, CacheRead(c) PROVE IInv'
  <2> DEFINE b == blk[c]
  <2>1. b \in Block /\ cache[b] \in cache_block /\ cache \in [Block -> cache_block]
    BY <1>6 DEF CacheRead, IInv, CallInv, TypeOK, HasBlock
  <2>2. /\ cache' \in [Block -> cache_block]
        /\ \A a \in Block : Counts(cache'[a]) = Counts(cache[a])
        /\ panicked' \in BOOLEAN
    <3>1. CASE UNCHANGED <<cache, panicked>>
      BY <2>1, <3>1 DEF IInv, TypeOK
    <3>2. CASE panicked' = TRUE /\ UNCHANGED cache
      BY <2>1, <3>2
    <3>3. CASE /\ cache[b].sector # INVALID_SECTOR
               /\ cache' = [cache EXCEPT ![b].up_to_date = TRUE,
                                         ![b].data = disk[cache[b].sector]]
               /\ UNCHANGED panicked
      <4>1. disk[cache[b].sector] \in Content
        BY <2>1, <3>3 DEF IInv, TypeOK, cache_block
      <4>2. QED
        BY <2>1, <3>3, <4>1 DEF IInv, TypeOK, cache_block, Counts
    <3>4. QED
      BY <1>6, <3>1, <3>2, <3>3 DEF CacheRead
  <2>3. TypeOK'
    BY <1>0, <1>6, <2>2 DEF CacheRead, goto, IInv, TypeOK, lock_vars, call_vars, PC
  <2>4. Moved
    BY <1>0, <1>6, <2>2, GoesOn DEF CacheRead, goto, lock_vars, call_vars, PC, Calling, HasBlock
  <2>5. QED
    BY <2>3, <2>4, MovedKeeps
<1>7. ASSUME NEW c \in Client, NEW p \in Part, Copy(c, p) PROVE IInv'
  <2> DEFINE r == [req[c] EXCEPT !.parts = @ \ {p}]
             n == IF req[c].parts = {p} THEN "unlock" ELSE "data"
  <2>1. blk[c] \in Block /\ cache[blk[c]].data \in Content /\ req[c] \in Request
    BY <1>7 DEF Copy, IInv, CallInv, TypeOK, HasBlock, Calling, cache_block
  <2>2. r \in Request /\ r.type = req[c].type
    BY <2>1 DEF Request
  <2>3. req' = [req EXCEPT ![c] = r] /\ pc' = [pc EXCEPT ![c] = n]
    BY <1>7 DEF Copy, goto, IInv, TypeOK
  <2>4. n \in HasBlock \ {"leaving"} /\ n \in PC
    BY DEF HasBlock, PC
  <2>5. buffer' \in [Client -> Content]
    BY <1>7, <2>1 DEF Copy, IInv, TypeOK, Content
  <2> HIDE DEF r, n
  <2>6. TypeOK'
    <3>1. UNCHANGED <<cache, block_lock, cache_sync, hand, disk, blk, i, panicked>>
      BY <1>7 DEF Copy, lock_vars
    <3>2. pc' \in [Thread -> PC] /\ req' \in [Client -> Request \cup {NULL}]
      BY <2>2, <2>3, <2>4 DEF IInv, TypeOK
    <3>3. QED
      BY <2>5, <3>1, <3>2 DEF IInv, TypeOK
  <2>7. Moved
    BY <1>7, <2>2, <2>3, <2>4, Transfers DEF Copy, lock_vars
  <2>8. QED
    BY <2>6, <2>7, MovedKeeps
<1>8. ASSUME NEW c \in Client, CacheWrite(c) PROVE IInv'
  <2> DEFINE b == blk[c]
             r == [req[c] EXCEPT !.parts = {}]
             d == Overwrite(cache[b].data, req[c].parts, req[c].value)
  <2>1. /\ b \in Block /\ cache[b] \in cache_block /\ cache \in [Block -> cache_block]
        /\ req[c] \in Request
    BY <1>8 DEF CacheWrite, IInv, CallInv, TypeOK, HasBlock, Calling
  <2>2. r \in Request /\ r.type = req[c].type
    BY <2>1 DEF Request
  <2>3. d \in Content
    BY <2>1 DEF Overwrite, Content, cache_block, Request
  <2>4. req' = [req EXCEPT ![c] = r] /\ pc' = [pc EXCEPT ![c] = "unlock"]
    BY <1>8 DEF CacheWrite, goto, IInv, TypeOK
  <2>5. cache' = [cache EXCEPT ![b].up_to_date = TRUE, ![b].dirty = TRUE, ![b].data = d]
    BY <1>8, <2>1 DEF CacheWrite
  <2> HIDE DEF r, d
  <2>6. /\ cache' \in [Block -> cache_block]
        /\ \A a \in Block : Counts(cache'[a]) = Counts(cache[a])
    BY <2>1, <2>3, <2>5 DEF cache_block, Counts
  <2>7. TypeOK'
    <3>1. UNCHANGED <<block_lock, cache_sync, hand, disk, blk, i, buffer, panicked>>
      BY <1>8 DEF CacheWrite, lock_vars
    <3>2. pc' \in [Thread -> PC] /\ req' \in [Client -> Request \cup {NULL}]
      BY <2>2, <2>4 DEF IInv, TypeOK, PC
    <3>3. QED
      BY <2>6, <3>1, <3>2 DEF IInv, TypeOK
  <2>8. "unlock" \in HasBlock \ {"leaving"}
    BY DEF HasBlock
  <2>9. Moved
    BY <1>8, <2>2, <2>4, <2>6, <2>8, Transfers DEF CacheWrite, lock_vars
  <2>10. QED
    BY <2>7, <2>9, MovedKeeps
<1>9. ASSUME NEW c \in Client, UnlockExclusive(c) PROVE IInv'
  BY <1>9, ReturnKeeps DEF UnlockExclusive
<1>10. ASSUME NEW c \in Client, Leave(c) PROVE IInv'
  <2>1. block_lock[blk[c]] = c
    BY <1>10 DEF Leave, IInv, BlockLockInv, CallInv, TypeOK, HasBlock
  <2>2. QED
    BY <1>10, <2>1, ReturnKeeps DEF Leave

<1>11. ASSUME NEW c \in Client, UnlockNonExclusive(c) PROVE IInv'
  <2> DEFINE b == blk[c]
  <2>1. b \in Block /\ c \in Thread /\ c # NULL /\ b # NULL
    BY <1>0, <1>11, CacheAssumption DEF UnlockNonExclusive, IInv, CallInv, TypeOK, HasBlock
  <2>2. /\ block_lock' = [block_lock EXCEPT ![b] = c] /\ block_lock[b] = NULL
        /\ pc' = [pc EXCEPT ![c] = "leaving"] /\ pc[c] = "unlock"
        /\ UNCHANGED <<cache, cache_sync, hand, disk, req, buffer, blk, i, panicked>>
    BY <1>11 DEF UnlockNonExclusive, goto, call_vars
  <2>3. req[c].type = "NON_EXCLUSIVE"
    <3>1. req[c] \in Request
      BY <2>2 DEF IInv, CallInv, TypeOK, HasBlock, Calling
    <3>2. req[c].type # "EXCLUSIVE"
      BY <2>1, <2>2 DEF IInv, BlockLockInv
    <3>3. QED
      BY <3>1, <3>2 DEF Request, Type
  <2>4. TypeOK'
    BY <2>1, <2>2 DEF IInv, TypeOK, PC
  <2>5. CallInv'
    BY <1>0, <2>2, <2>3 DEF IInv, TypeOK, CallInv, Calling, HasBlock
  <2>6. BlockLockInv'
    <3> SUFFICES ASSUME NEW a \in Block, NEW d \in Client
                 PROVE  block_lock'[a] = d <=> /\ blk'[d] = a
                                               /\ \/ req'[d].type = "EXCLUSIVE"
                                                  \/ pc'[d] = "leaving"
      BY DEF BlockLockInv
    <3>1. block_lock[a] = d <=> /\ blk[d] = a
                                /\ req[d].type = "EXCLUSIVE" \/ pc[d] = "leaving"
      BY DEF IInv, BlockLockInv
    <3>2. /\ block_lock'[a] = IF a = b THEN c ELSE block_lock[a]
          /\ pc'[d] = IF d = c THEN "leaving" ELSE pc[d]
          /\ blk'[d] = blk[d] /\ req'[d] = req[d] /\ d # NULL
      BY <1>0, <2>1, <2>2, CacheAssumption DEF IInv, TypeOK
    <3>3. CASE d = c
      BY <2>1, <2>2, <2>3, <3>1, <3>2, <3>3
    <3>4. CASE d # c
      BY <2>1, <2>2, <3>1, <3>2, <3>4
    <3>5. QED
      BY <3>3, <3>4
  <2>7. CountsMatch'
    BY <2>2, CountsKept DEF IInv, SameUser
  <2>8. QED
    BY <2>4, <2>5, <2>6, <2>7 DEF IInv
<1>12. ASSUME NEW t \in Thread, CacheFlush(t) \/ FlushSync(t) \/ FlushEnd(t) PROVE IInv'
  <2>1. TypeOK'
    BY <1>0, <1>12 DEF CacheFlush, FlushSync, FlushEnd, goto, IInv, TypeOK,
                       lock_vars, call_vars, PC
  <2>2. /\ UNCHANGED <<blk, block_lock, req, cache>>
        /\ \E p \in PC \ Calling : pc' = [pc EXCEPT ![t] = p]
        /\ pc[t] \notin Calling
    BY <1>12 DEF CacheFlush, FlushSync, FlushEnd, goto, lock_vars, call_vars,
                 PC, Calling, HasBlock
  <2>3. PICK p \in PC \ Calling : pc' = [pc EXCEPT ![t] = p]
    BY <2>2
  <2>4. Moved
    BY <2>2, <2>3, GoesOn
  <2>5. QED
    BY <2>1, <2>4, MovedKeeps
<1>13. ASSUME NEW t \in Thread, FlushBlock(t) PROVE IInv'
  <2> DEFINE fb == flush_block(cache[i[t]])
  <2>1. i[t] \in Block /\ i[t] + 1 \in 0 .. CACHE_CNT
    BY <1>0, <1>13 DEF FlushBlock, IInv, TypeOK, Block
  <2>2. cache \in [Block -> cache_block] /\ cache[i[t]] \in cache_block
    BY <2>1 DEF IInv, TypeOK
  <2>3. fb \in cache_block /\ Counts(fb) = Counts(cache[i[t]])
    BY <2>2, BlockOps
  <2>4. disk' \in [Sector -> Content]
    BY <1>13, <2>2, DiskType DEF FlushBlock, IInv, TypeOK
  <2>5. cache' = [cache EXCEPT ![i[t]] = fb]
    BY <1>13 DEF FlushBlock
  <2> HIDE DEF fb
  <2>6. /\ cache' \in [Block -> cache_block]
        /\ \A b \in Block : Counts(cache'[b]) = Counts(cache[b])
    BY <2>1, <2>2, <2>3, <2>5
  <2>7. TypeOK'
    BY <1>13, <2>1, <2>4, <2>6 DEF FlushBlock, IInv, TypeOK, lock_vars, call_vars
  <2>8. Moved
    BY <1>13, <2>6 DEF FlushBlock, Moved, lock_vars, call_vars, IInv, CallInv
  <2>9. QED
    BY <2>7, <2>8, MovedKeeps
<1>14. CASE UNCHANGED vars
  <2>1. TypeOK'
    BY <1>14 DEF vars, lock_vars, call_vars, IInv, TypeOK
  <2>2. Moved
    BY <1>14 DEF vars, lock_vars, call_vars, Moved, IInv, CallInv
  <2>3. QED
    BY <2>1, <2>2, MovedKeeps
<1>15. QED
  BY <1>1, <1>2, <1>3, <1>4, <1>5, <1>6, <1>7, <1>8, <1>9, <1>10, <1>11, <1>12, <1>13, <1>14
  DEF Next, CacheLock, Transfer, Unlock, Flush, Panic

\* cache_init() establishes the invariant.
LEMMA IInvInit == Init => IInv
<1> SUFFICES ASSUME Init PROVE IInv
  OBVIOUS
<1>0. /\ CACHE_CNT \in Nat \ {0} /\ Zero \in Value
      /\ \A b \in Block : b # NULL
      /\ \A c \in Client : c # NULL /\ c \in Thread
  BY CacheAssumption DEF Thread
<1>1. TypeOK
  <2>1. [p \in Part |-> Zero] \in Content
    BY <1>0 DEF Content
  <2>2. cache \in [Block -> cache_block]
    BY <2>1 DEF Init, cache_block
  <2>3. pc \in [Thread -> PC] /\ i \in [Thread -> 0 .. CACHE_CNT] /\ hand \in 0 .. CACHE_CNT
    BY <1>0 DEF Init, PC
  <2>4. QED
    BY <2>1, <2>2, <2>3 DEF Init, TypeOK
<1>2. CallInv
  BY <1>0 DEF Init, CallInv, Calling, HasBlock
<1>3. BlockLockInv
  BY <1>0 DEF Init, BlockLockInv
<1>4. CountsMatch
  <2> SUFFICES ASSUME NEW b \in Block
               PROVE  /\ cache[b].writers = Cardinality(Writers(b))
                      /\ cache[b].readers = Cardinality(Users(b) \ Writers(b))
    BY DEF CountsMatch
  <2>1. Users(b) = {}
    BY <1>0 DEF Init, Users
  <2>2. Writers(b) = {} /\ Users(b) \ Writers(b) = {}
    BY <2>1 DEF Writers
  <2>3. QED
    BY <2>2, FS_EmptySet DEF Init
<1>5. QED
  BY <1>1, <1>2, <1>3, <1>4 DEF IInv

\* The inductive invariant holds in every reachable state of the cache.
THEOREM CacheInvariant == Spec => []IInv
  BY IInvInit, IInvStep, PTL DEF Spec

\* Type correctness: in particular the unsigned counts never go below zero,
\* and the hand and the scans never leave the array of blocks.
THEOREM CacheTypeCorrect == Spec => []TypeOK
<1>1. IInv => TypeOK
  BY DEF IInv
<1>2. QED
  BY <1>1, CacheInvariant, PTL

\* However users lock and unlock blocks and flushes pass, a block's counts are
\* the clients that have it locked.
THEOREM CountsCorrect == Spec => []CountsMatch
<1>1. IInv => CountsMatch
  BY DEF IInv
<1>2. QED
  BY <1>1, CacheInvariant, PTL

\* Two clients never have the same block locked EXCLUSIVE: each of them would
\* hold its block_lock.
THEOREM WritersExclude == Spec => []OneWriter
<1>1. IInv => OneWriter
  <2> SUFFICES ASSUME IInv, NEW b \in Block PROVE Cardinality(Writers(b)) <= 1
    BY DEF OneWriter
  <2>1. Writers(b) \subseteq {block_lock[b]}
    BY DEF Writers, Users, IInv, BlockLockInv
  <2>2. Writers(b) = {} \/ Writers(b) = {block_lock[b]}
    BY <2>1
  <2>3. Cardinality({}) = 0 /\ Cardinality({block_lock[b]}) = 1
    BY FS_EmptySet, FS_Singleton
  <2>4. QED
    BY <2>2, <2>3
<1>2. QED
  BY <1>1, CacheInvariant, PTL

\* What a step may do to the sector a block is labelled with.
Relabels(b) == \/ cache[b].sector = INVALID_SECTOR
               \/ cache'[b].sector \in {cache[b].sector, INVALID_SECTOR}
               \/ Users(b) = {}

\* A block without readers and writers has no users: the counts are right.
LEMMA UncountedUnused ==
    ASSUME IInv, NEW b \in Block, evictable(b)
    PROVE  Users(b) = {}
<1>1. /\ Cardinality(Writers(b)) = 0 /\ Cardinality(Readers(b)) = 0
  BY DEF IInv, CountsMatch, evictable, Readers
<1>2. Writers(b) = {} /\ Readers(b) = {}
  BY <1>1, UsersFinite, FS_EmptySet
<1>3. QED
  BY <1>2, UsersFinite DEF Readers

\* A turn of a loop of try_to_empty() only takes a block without users.
LEMMA EvictRelabels ==
    ASSUME IInv, NEW c \in Client, hand < CACHE_CNT, evict(c), NEW b \in Block
    PROVE  Relabels(b)
<1>0. hand \in Block /\ cache \in [Block -> cache_block]
  BY CacheAssumption DEF IInv, TypeOK, Block
<1>1. CASE UNCHANGED cache
  BY <1>1 DEF Relabels
<1>2. CASE /\ evictable(hand)
           /\ grant(c, hand, [flush_block(cache[hand]) EXCEPT !.up_to_date = FALSE])
  <2>1. Users(hand) = {}
    BY <1>0, <1>2, UncountedUnused
  <2>2. b # hand => cache'[b] = cache[b]
    BY <1>0, <1>2 DEF grant
  <2>3. QED
    BY <2>1, <2>2 DEF Relabels
<1>3. QED
  BY <1>1, <1>2 DEF evict

\* The scans only hand out a block of the sector asked for, or an empty one.
LEMMA ScanRelabels ==
    ASSUME IInv, NEW c \in Client, NEW s \in {req[c].sector, INVALID_SECTOR},
           NEW next, scan(c, s, next), pc[c] \in Calling, NEW b \in Block
    PROVE  Relabels(b)
<1>0. i[c] \in 0 .. CACHE_CNT /\ CACHE_CNT \in Nat /\ cache \in [Block -> cache_block]
  BY CacheAssumption DEF IInv, TypeOK, Thread
<1>1. CASE UNCHANGED cache
  BY <1>1 DEF Relabels
<1>2. CASE /\ i[c] < CACHE_CNT /\ cache[i[c]].sector = s
           /\ grant(c, i[c], cache[i[c]])
  <2> DEFINE a == i[c]
             sb == [cache[a] EXCEPT !.sector = req[c].sector]
  <2>1. a \in Block /\ cache[a] \in cache_block
    BY <1>0, <1>2 DEF Block
  <2>2. cache' = [cache EXCEPT ![a] = add_lock(sb, req[c].type)]
    BY <1>2 DEF grant
  <2>3. add_lock(sb, req[c].type).sector = req[c].sector
    BY <2>1 DEF add_lock, cache_block
  <2>4. CASE b = a
    BY <1>0, <1>2, <2>1, <2>2, <2>3, <2>4 DEF Relabels
  <2>5. CASE b # a
    BY <1>0, <2>1, <2>2, <2>5 DEF Relabels
  <2>6. QED
    BY <2>4, <2>5
<1>3. QED
  BY <1>1, <1>2 DEF scan

\* The actions that store to a field of a block but its sector.
LEMMA FieldsRelabel ==
    ASSUME IInv, NEW c \in Client, NEW b \in Block,
           CacheRead(c) \/ CacheWrite(c) \/ UnlockExclusive(c) \/ Leave(c)
    PROVE  Relabels(b)
<1>1. /\ blk[c] \in Block /\ cache \in [Block -> cache_block]
      /\ cache[b] \in cache_block /\ cache[blk[c]] \in cache_block
  BY DEF CacheRead, CacheWrite, UnlockExclusive, Leave, IInv, CallInv, TypeOK, HasBlock
<1>2. CASE CacheRead(c)
  BY <1>1, <1>2 DEF CacheRead, Relabels, cache_block
<1>3. CASE CacheWrite(c)
  BY <1>1, <1>3 DEF CacheWrite, Relabels, cache_block
<1>4. CASE UnlockExclusive(c)
  BY <1>1, <1>4 DEF UnlockExclusive, Relabels, cache_block
<1>5. CASE Leave(c)
  BY <1>1, <1>5 DEF Leave, Relabels, cache_block
<1>6. QED
  BY <1>2, <1>3, <1>4, <1>5

\* The flush labels blocks INVALID_SECTOR, also used ones, and nothing else.
LEMMA FlushRelabels ==
    ASSUME IInv, NEW t \in Thread, NEW b \in Block, FlushBlock(t)
    PROVE  Relabels(b)
<1>1. i[t] \in Block /\ cache \in [Block -> cache_block] /\ cache[i[t]] \in cache_block
  BY CacheAssumption DEF FlushBlock, IInv, TypeOK, Block
<1>2. flush_block(cache[i[t]]).sector \in {cache[i[t]].sector, INVALID_SECTOR}
  BY <1>1 DEF flush_block, clear_block, cache_block
<1>3. cache' = [cache EXCEPT ![i[t]] = flush_block(cache[i[t]])]
  BY DEF FlushBlock
<1>4. QED
  BY <1>1, <1>2, <1>3 DEF Relabels

\* try_to_empty() never takes a block from under a client that has it locked,
\* for any number of blocks, clients and flushes.
THEOREM EvictionSafe == Spec => EvictsUnused
<1>1. ASSUME IInv, [Next]_vars, NEW b \in Block
      PROVE  Relabels(b)
  <2>1. ASSUME NEW c \in Client, CacheLock(c) PROVE Relabels(b)
    <3>1. CASE CacheSync(c)
      BY <3>1 DEF CacheSync, Relabels
    <3>2. CASE InCache(c)
      BY <1>1, <3>2, ScanRelabels DEF InCache, Calling
    <3>3. CASE FindEmpty(c)
      BY <1>1, <3>3, ScanRelabels DEF FindEmpty, Calling
    <3>4. CASE TryToEmpty(c)
      <4>1. CASE hand < CACHE_CNT /\ evict(c)
        BY <1>1, <4>1, EvictRelabels
      <4>2. CASE UNCHANGED cache
        BY <4>2 DEF Relabels
      <4>3. QED
        BY <3>4, <4>1, <4>2 DEF TryToEmpty
    <3>5. CASE TryToEmptyWrap(c)
      <4>1. CASE hand < i[c] /\ evict(c)
        <5>1. hand < CACHE_CNT
          BY <1>1, <4>1, CacheAssumption DEF IInv, TypeOK, Thread
        <5>2. QED
          BY <1>1, <4>1, <5>1, EvictRelabels
      <4>2. CASE UNCHANGED cache
        BY <4>2 DEF Relabels
      <4>3. QED
        BY <3>5, <4>1, <4>2 DEF TryToEmptyWrap
    <3>6. QED
      BY <2>1, <3>1, <3>2, <3>3, <3>4, <3>5 DEF CacheLock
  <2>2. ASSUME NEW c \in Client, Transfer(c) \/ Unlock(c) PROVE Relabels(b)
    <3>1. CASE UNCHANGED cache
      BY <3>1 DEF Relabels
    <3>2. CASE CacheRead(c) \/ CacheWrite(c) \/ UnlockExclusive(c) \/ Leave(c)
      BY <1>1, <3>2, FieldsRelabel
    <3>3. QED
      BY <2>2, <3>1, <3>2 DEF Transfer, Unlock, Copy, UnlockNonExclusive
  <2>3. ASSUME NEW t \in Thread, CacheFlush(t) \/ Flush(t) PROVE Relabels(b)
    <3>1. CASE UNCHANGED cache
      BY <3>1 DEF Relabels
    <3>2. CASE FlushBlock(t)
      BY <1>1, <3>2, FlushRelabels
    <3>3. QED
      BY <2>3, <3>1, <3>2 DEF CacheFlush, Flush, FlushSync, FlushEnd
  <2>4. CASE UNCHANGED cache
    BY <2>4 DEF Relabels
  <2>5. QED
    BY <1>1, <2>1, <2>2, <2>3, <2>4 DEF Next, FullIO, Panic, vars
<1>2. IInv /\ [Next]_vars =>
        [\A b \in Block : /\ cache[b].sector # INVALID_SECTOR
                          /\ cache'[b].sector \notin {cache[b].sector, INVALID_SECTOR}
                          => Users(b) = {}]_vars
  BY <1>1 DEF Relabels
<1>3. QED
  BY <1>2, CacheInvariant, PTL DEF Spec, EvictsUnused
-----------------------------------------------------------------------------
(***************************************************************************)
(* Eviction without contention.  As far as a scan of try_to_empty() can    *)
(* tell, a step is one of five.                                            *)
(***************************************************************************)
Evicting == {"evict", "evict_wrap"}

\* No scan moves and nobody gets a block.
Quiet ==
    /\ hand' = hand
    /\ \A d \in Client : pc'[d] \in Evicting => pc'[d] = pc[d] /\ i'[d] = i[d]
    /\ \A d \in Client : blk'[d] \in {blk[d], NULL}

\* No scan goes on.
NoScan == \A d \in Client : pc'[d] \notin Evicting

\* c is the only client that scans.
Alone(c) == \A d \in Client : d # c => pc'[d] \notin Evicting

Starts(c) ==
    /\ blk[c] = NULL /\ pc'[c] = "evict" /\ i'[c] = hand
    /\ hand' = hand /\ Alone(c) /\ UNCHANGED blk

Passes(c) ==
    /\ pc[c] \in Evicting /\ pc'[c] = pc[c] /\ i'[c] = i[c]
    /\ hand < IF pc[c] = "evict" THEN CACHE_CNT ELSE i[c]
    /\ ~ evictable(hand) /\ hand' = hand + 1
    /\ Alone(c) /\ UNCHANGED blk

Wraps(c) ==
    /\ pc[c] = "evict" /\ pc'[c] = "evict_wrap" /\ i'[c] = i[c]
    /\ hand = CACHE_CNT /\ hand' = 0
    /\ Alone(c) /\ UNCHANGED blk

ScanKind == Quiet \/ NoScan \/ \E c \in Client : Starts(c) \/ Passes(c) \/ Wraps(c)

\* A client that holds cache_sync scans alone.
LEMMA ScansAlone ==
    ASSUME IInv, SyncInv, NEW c \in Client,
           pc[c] \in {"in_cache", "find_empty", "evict", "evict_wrap"},
           \A d \in Thread : d # c => pc'[d] = pc[d]
    PROVE  /\ Alone(c) /\ (pc'[c] \notin Evicting => NoScan)
           /\ \A d \in Thread : pc'[d] \in Evicting => d = c \/ d \notin Client
<1>1. c \in Thread /\ Client \subseteq Thread
  BY DEF Thread
<1>2. \A d \in Client : d # c => pc[d] \notin Evicting
  BY <1>1 DEF SyncInv, Evicting
<1>3. QED
  BY <1>1, <1>2 DEF Alone, NoScan

\* The steps of cache_lock() after it took cache_sync.
LEMMA LockScan ==
    ASSUME IInv, SyncInv, NEW c \in Client,
           InCache(c) \/ FindEmpty(c) \/ TryToEmpty(c) \/ TryToEmptyWrap(c)
    PROVE  ScanKind
<1>0. /\ c \in Thread /\ c \in Client /\ pc \in [Thread -> PC] /\ i \in [Thread -> 0 .. CACHE_CNT]
      /\ pc[c] \in {"in_cache", "find_empty", "evict", "evict_wrap"}
      /\ blk[c] = NULL
  BY DEF Thread, InCache, FindEmpty, TryToEmpty, TryToEmptyWrap, IInv, TypeOK, CallInv, HasBlock
<1>a. ASSUME NEW p, pc' = [pc EXCEPT ![c] = p], p \notin Evicting PROVE ScanKind
  <2>1. pc'[c] = p /\ \A d \in Thread : d # c => pc'[d] = pc[d]
    BY <1>0, <1>a
  <2>2. NoScan
    BY <1>0, <1>a, <2>1, ScansAlone
  <2>3. QED
    BY <2>2 DEF ScanKind
<1>b. ASSUME NEW b, NEW cb, grant(c, b, cb) PROVE ScanKind
  <2>1. pc' = [pc EXCEPT ![c] = "locked"]
    BY <1>b DEF grant, goto
  <2>2. "locked" \notin Evicting
    BY DEF Evicting
  <2>3. QED
    BY <1>a, <2>1, <2>2
<1>1. ASSUME NEW s, NEW next \in {"find_empty", "evict"}, scan(c, s, next),
             pc[c] \in {"in_cache", "find_empty"}
      PROVE  ScanKind
  <2>1. CASE grant(c, i[c], cache[i[c]])
    BY <1>b, <2>1
  <2>2. CASE /\ i' = [i EXCEPT ![c] = @ + 1]
             /\ UNCHANGED <<cache, lock_vars, pc, blk, call_vars, panicked>>
    <3>1. /\ hand' = hand /\ pc' = pc /\ blk' = blk
          /\ \A d \in Thread : d # c => i'[d] = i[d]
      BY <1>0, <2>2 DEF lock_vars
    <3>2. Quiet
      BY <1>1, <3>1 DEF Quiet, Evicting, Thread
    <3>3. QED
      BY <3>2 DEF ScanKind
  <2>3. CASE /\ i' = [i EXCEPT ![c] = IF next = "evict" THEN hand ELSE 0]
             /\ goto(c, next)
             /\ UNCHANGED <<cache, lock_vars, blk, call_vars, panicked>>
    <3>1. CASE next = "find_empty"
      BY <1>a, <2>3, <3>1 DEF goto, Evicting
    <3>2. CASE next = "evict"
      <4>1. /\ hand' = hand /\ blk' = blk /\ pc'[c] = "evict" /\ i'[c] = hand
            /\ \A d \in Thread : d # c => pc'[d] = pc[d]
        BY <1>0, <2>3, <3>2 DEF lock_vars, goto
      <4>2. Alone(c)
        BY <1>0, <4>1, ScansAlone
      <4>3. Starts(c)
        BY <1>0, <4>1, <4>2 DEF Starts
      <4>4. QED
        BY <4>3 DEF ScanKind
    <3>3. QED
      BY <3>1, <3>2
  <2>4. QED
    BY <1>1, <2>1, <2>2, <2>3 DEF scan
<1>2. ASSUME evict(c), pc[c] \in Evicting,
             hand < IF pc[c] = "evict" THEN CACHE_CNT ELSE i[c]
      PROVE  ScanKind
  <2>1. CASE \E cb : grant(c, hand, cb)
    BY <1>b, <2>1
  <2>2. CASE /\ ~ evictable(hand)
             /\ hand' = hand + 1
             /\ UNCHANGED <<cache, block_lock, cache_sync, disk, pc, blk, i, call_vars, panicked>>
    <3>1. Alone(c)
      BY <1>0, <2>2, ScansAlone
    <3>2. Passes(c)
      BY <1>2, <2>2, <3>1 DEF Passes
    <3>3. QED
      BY <3>2 DEF ScanKind
  <2>3. QED
    BY <1>2, <2>1, <2>2 DEF evict
<1>3. CASE InCache(c)
  BY <1>1, <1>3 DEF InCache
<1>4. CASE FindEmpty(c)
  BY <1>1, <1>4 DEF FindEmpty
<1>5. CASE TryToEmpty(c)
  <2>1. CASE hand < CACHE_CNT /\ evict(c)
    BY <1>2, <1>5, <2>1 DEF TryToEmpty, Evicting
  <2>2. CASE /\ hand = CACHE_CNT
             /\ hand' = 0
             /\ goto(c, "evict_wrap")
             /\ UNCHANGED <<cache, block_lock, cache_sync, disk, blk, i, call_vars, panicked>>
    <3>1. /\ pc'[c] = "evict_wrap" /\ i'[c] = i[c] /\ blk' = blk
          /\ \A d \in Thread : d # c => pc'[d] = pc[d]
      BY <1>0, <2>2 DEF goto
    <3>2. Alone(c)
      BY <1>0, <3>1, ScansAlone
    <3>3. Wraps(c)
      BY <1>5, <2>2, <3>1, <3>2 DEF Wraps, TryToEmpty
    <3>4. QED
      BY <3>3 DEF ScanKind
  <2>3. QED
    BY <1>5, <2>1, <2>2 DEF TryToEmpty
<1>6. CASE TryToEmptyWrap(c)
  <2>1. CASE hand < i[c] /\ evict(c)
    BY <1>2, <1>6, <2>1 DEF TryToEmptyWrap, Evicting
  <2>2. CASE goto(c, "sync")
    <3>1. pc' = [pc EXCEPT ![c] = "sync"]
      BY <2>2 DEF goto
    <3>2. "sync" \notin Evicting
      BY DEF Evicting
    <3>3. QED
      BY <1>a, <3>1, <3>2
  <2>3. QED
    BY <1>6, <2>1, <2>2 DEF TryToEmptyWrap
<1>7. QED
  BY <1>3, <1>4, <1>5, <1>6

\* Every step is one of the five.
LEMMA ScanSteps ==
    IInv /\ SyncInv /\ [Next]_vars => ScanKind
<1> SUFFICES ASSUME IInv, SyncInv, [Next]_vars PROVE ScanKind
  OBVIOUS
<1>0. /\ pc \in [Thread -> PC] /\ i \in [Thread -> 0 .. CACHE_CNT] /\ Client \subseteq Thread
      /\ blk \in [Client -> Block \cup {NULL}]
  BY DEF IInv, TypeOK, Thread
<1>a. ASSUME NEW t \in Thread, NEW p, pc' = [pc EXCEPT ![t] = p], p \notin Evicting,
             hand' = hand, \A d \in Thread : d # t => i'[d] = i[d],
             \A d \in Client : blk'[d] \in {blk[d], NULL}
      PROVE  ScanKind
  <2>1. pc'[t] = p /\ \A d \in Thread : d # t => pc'[d] = pc[d]
    BY <1>0, <1>a
  <2>2. Quiet
    BY <1>0, <1>a, <2>1 DEF Quiet
  <2>3. QED
    BY <2>2 DEF ScanKind
<1>1. ASSUME NEW c \in Client, NEW r \in Request, FullIO(c, r) PROVE ScanKind
  <2>1. pc' = [pc EXCEPT ![c] = "sync"] /\ UNCHANGED <<hand, i, blk>>
    BY <1>1 DEF FullIO, goto, lock_vars
  <2>2. "sync" \notin Evicting /\ c \in Thread
    BY <1>0 DEF Evicting
  <2>3. QED
    BY <1>a, <2>1, <2>2
<1>2. ASSUME NEW c \in Client, CacheSync(c) PROVE ScanKind
  <2>1. /\ pc' = [pc EXCEPT ![c] = "in_cache"] /\ i' = [i EXCEPT ![c] = 0]
        /\ UNCHANGED <<hand, blk>>
    BY <1>2 DEF CacheSync, goto
  <2>2. "in_cache" \notin Evicting /\ c \in Thread /\ \A d \in Thread : d # c => i'[d] = i[d]
    BY <1>0, <2>1 DEF Evicting
  <2>3. QED
    BY <1>a, <2>1, <2>2
<1>3. ASSUME NEW c \in Client, CacheRead(c) PROVE ScanKind
  <2>1. pc' = [pc EXCEPT ![c] = "data"] /\ UNCHANGED <<hand, i, blk>>
    BY <1>3 DEF CacheRead, goto, lock_vars
  <2>2. "data" \notin Evicting /\ c \in Thread
    BY <1>0 DEF Evicting
  <2>3. QED
    BY <1>a, <2>1, <2>2
<1>4. ASSUME NEW c \in Client, CacheWrite(c) PROVE ScanKind
  <2>1. pc' = [pc EXCEPT ![c] = "unlock"] /\ UNCHANGED <<hand, i, blk>>
    BY <1>4 DEF CacheWrite, goto, lock_vars
  <2>2. "unlock" \notin Evicting /\ c \in Thread
    BY <1>0 DEF Evicting
  <2>3. QED
    BY <1>a, <2>1, <2>2
<1>5. ASSUME NEW c \in Client, NEW p \in Part, Copy(c, p) PROVE ScanKind
  <2>1. PICK n \in {"unlock", "data"} : pc' = [pc EXCEPT ![c] = n]
    BY <1>5 DEF Copy, goto
  <2>2. UNCHANGED <<hand, i, blk>> /\ n \notin Evicting
    BY <1>5 DEF Copy, lock_vars, Evicting
  <2>3. QED
    BY <1>0, <1>a, <2>1, <2>2
<1>6. ASSUME NEW c \in Client, UnlockExclusive(c) \/ Leave(c) PROVE ScanKind
  <2>1. /\ blk' = [blk EXCEPT ![c] = NULL] /\ pc' = [pc EXCEPT ![c] = "idle"]
        /\ UNCHANGED <<hand, i>>
    BY <1>6 DEF UnlockExclusive, Leave, return, goto
  <2>2. \A d \in Client : blk'[d] \in {blk[d], NULL}
    BY <1>0, <2>1
  <2>3. "idle" \notin Evicting
    BY DEF Evicting
  <2>4. QED
    BY <1>0, <1>a, <2>1, <2>2, <2>3
<1>7. ASSUME NEW c \in Client, UnlockNonExclusive(c) PROVE ScanKind
  <2>1. pc' = [pc EXCEPT ![c] = "leaving"] /\ UNCHANGED <<hand, i, blk>>
    BY <1>7 DEF UnlockNonExclusive, goto
  <2>2. "leaving" \notin Evicting /\ c \in Thread
    BY <1>0 DEF Evicting
  <2>3. QED
    BY <1>a, <2>1, <2>2
<1>8. ASSUME NEW t \in Thread, CacheFlush(t) PROVE ScanKind
  <2>1. pc' = [pc EXCEPT ![t] = "flush_sync"] /\ UNCHANGED <<hand, i, blk>>
    BY <1>8 DEF CacheFlush, goto, lock_vars
  <2>2. "flush_sync" \notin Evicting /\ t \in Thread
    BY <1>0 DEF Evicting
  <2>3. QED
    BY <1>a, <2>1, <2>2
<1>9. ASSUME NEW t \in Thread, FlushSync(t) PROVE ScanKind
  <2>1. pc' = [pc EXCEPT ![t] = "flush"] /\ UNCHANGED <<hand, i, blk>>
    BY <1>9 DEF FlushSync, goto
  <2>2. "flush" \notin Evicting /\ t \in Thread
    BY <1>0 DEF Evicting
  <2>3. QED
    BY <1>a, <2>1, <2>2
<1>10. ASSUME NEW t \in Thread, FlushEnd(t) PROVE ScanKind
  <2>1. /\ pc' = [pc EXCEPT ![t] = "idle"] /\ i' = [i EXCEPT ![t] = 0]
        /\ UNCHANGED <<hand, blk>>
    BY <1>10 DEF FlushEnd, goto
  <2>2. "idle" \notin Evicting /\ \A d \in Thread : d # t => i'[d] = i[d]
    BY <1>0, <2>1 DEF Evicting
  <2>3. QED
    BY <1>a, <2>1, <2>2
<1>11. ASSUME NEW t \in Thread, FlushBlock(t) PROVE ScanKind
  <2>1. /\ UNCHANGED <<hand, pc, blk>> /\ pc[t] = "flush"
        /\ \A d \in Thread : d # t => i'[d] = i[d]
    BY <1>0, <1>11 DEF FlushBlock, lock_vars
  <2>2. Quiet
    BY <1>0, <2>1 DEF Quiet, Evicting
  <2>3. QED
    BY <2>2 DEF ScanKind
<1>12. CASE UNCHANGED vars
  <2>1. Quiet
    BY <1>12 DEF vars, lock_vars, Quiet
  <2>2. QED
    BY <2>1 DEF ScanKind
<1>13. QED
  BY <1>1, <1>2, <1>3, <1>4, <1>5, <1>6, <1>7, <1>8, <1>9, <1>10, <1>11, <1>12, LockScan
     DEF Next, CacheLock, Transfer, Unlock, Flush, Panic

\* cache_sync is taken by one thread at a time and kept through the scans.
LEMMA SyncStep ==
    IInv /\ SyncInv /\ [Next]_vars => SyncInv'
<1> DEFINE Scanning == {"in_cache", "find_empty", "evict", "evict_wrap", "flush"}
<1> SUFFICES ASSUME IInv, SyncInv, [Next]_vars PROVE SyncInv'
  OBVIOUS
<1>0. /\ pc \in [Thread -> PC] /\ Client \subseteq Thread /\ NULL \notin Thread
  BY CacheAssumption DEF IInv, TypeOK, Thread
<1>s. \A t \in Thread : pc[t] \in Scanning => cache_sync = t
  BY DEF SyncInv
<1>g. SUFFICES \A t \in Thread : pc'[t] \in Scanning => cache_sync' = t
  BY DEF SyncInv
<1> HIDE DEF Scanning
\* A thread that moves outside the scans.
<1>a. ASSUME NEW t \in Thread, NEW p, pc' = [pc EXCEPT ![t] = p], p \notin Scanning,
             cache_sync' = cache_sync
      PROVE  \A d \in Thread : pc'[d] \in Scanning => cache_sync' = d
  BY <1>0, <1>a, <1>s
\* One that takes cache_sync, or keeps it.
<1>b. ASSUME NEW t \in Thread, NEW p, pc' = [pc EXCEPT ![t] = p], cache_sync' = t,
             cache_sync \in {NULL, t}
      PROVE  \A d \in Thread : pc'[d] \in Scanning => cache_sync' = d
  BY <1>0, <1>b, <1>s
\* One that releases it.
<1>c. ASSUME NEW t \in Thread, NEW p, pc' = [pc EXCEPT ![t] = p], p \notin Scanning,
             pc[t] \in Scanning
      PROVE  \A d \in Thread : pc'[d] \in Scanning => cache_sync' = d
  BY <1>0, <1>c, <1>s
<1>d. ASSUME UNCHANGED <<pc, cache_sync>>
      PROVE  \A d \in Thread : pc'[d] \in Scanning => cache_sync' = d
  BY <1>d, <1>s
<1>e. /\ {"idle", "sync", "locked", "data", "unlock", "leaving", "flush_sync"} \cap Scanning = {}
      /\ {"in_cache", "find_empty", "evict", "evict_wrap", "flush"} \subseteq Scanning
  BY DEF Scanning
<1>f. ASSUME NEW c \in Client, NEW b, NEW cb, grant(c, b, cb), pc[c] \in Scanning
      PROVE  \A d \in Thread : pc'[d] \in Scanning => cache_sync' = d
  <2>1. pc' = [pc EXCEPT ![c] = "locked"]
    BY <1>f DEF grant, goto
  <2>2. QED
    BY <1>0, <1>c, <1>e, <1>f, <2>1
<1>1. ASSUME NEW c \in Client, NEW r \in Request, FullIO(c, r)
      PROVE  \A d \in Thread : pc'[d] \in Scanning => cache_sync' = d
  <2>1. pc' = [pc EXCEPT ![c] = "sync"] /\ cache_sync' = cache_sync
    BY <1>1 DEF FullIO, goto, lock_vars
  <2>2. QED
    BY <1>0, <1>a, <1>e, <2>1
<1>2. ASSUME NEW c \in Client, CacheSync(c)
      PROVE  \A d \in Thread : pc'[d] \in Scanning => cache_sync' = d
  <2>1. pc' = [pc EXCEPT ![c] = "in_cache"] /\ cache_sync' = c /\ cache_sync = NULL
    BY <1>2 DEF CacheSync, goto
  <2>2. QED
    BY <1>0, <1>b, <2>1
<1>3. ASSUME NEW c \in Client, NEW s, NEW next, scan(c, s, next), pc[c] \in Scanning
      PROVE  \A d \in Thread : pc'[d] \in Scanning => cache_sync' = d
  <2>1. CASE grant(c, i[c], cache[i[c]])
    BY <1>3, <1>f, <2>1
  <2>2. CASE UNCHANGED <<cache, lock_vars, pc, blk, call_vars, panicked>>
    BY <1>d, <2>2 DEF lock_vars
  <2>3. CASE goto(c, next) /\ UNCHANGED <<cache, lock_vars, blk, call_vars, panicked>>
    <3>1. pc' = [pc EXCEPT ![c] = next] /\ cache_sync' = c /\ cache_sync = c
      BY <1>0, <1>3, <1>s, <2>3 DEF goto, lock_vars
    <3>2. QED
      BY <1>0, <1>b, <3>1
  <2>4. QED
    BY <1>3, <2>1, <2>2, <2>3 DEF scan
<1>4. ASSUME NEW c \in Client, evict(c), pc[c] \in Scanning
      PROVE  \A d \in Thread : pc'[d] \in Scanning => cache_sync' = d
  <2>1. CASE \E cb : grant(c, hand, cb)
    BY <1>4, <1>f, <2>1
  <2>2. CASE UNCHANGED <<cache, block_lock, cache_sync, disk, pc, blk, i, call_vars, panicked>>
    BY <1>d, <2>2
  <2>3. QED
    BY <1>4, <2>1, <2>2 DEF evict
<1>5. ASSUME NEW c \in Client, InCache(c) \/ FindEmpty(c)
      PROVE  \A d \in Thread : pc'[d] \in Scanning => cache_sync' = d
  BY <1>3, <1>5, <1>e DEF InCache, FindEmpty
<1>6. ASSUME NEW c \in Client, TryToEmpty(c)
      PROVE  \A d \in Thread : pc'[d] \in Scanning => cache_sync' = d
  <2>0. pc[c] = "evict" /\ pc[c] \in Scanning
    BY <1>6, <1>e DEF TryToEmpty
  <2>1. CASE evict(c)
    BY <1>4, <2>0, <2>1
  <2>2. CASE goto(c, "evict_wrap") /\ cache_sync' = cache_sync
    <3>1. pc' = [pc EXCEPT ![c] = "evict_wrap"] /\ cache_sync' = c /\ cache_sync = c
      BY <1>0, <1>s, <2>0, <2>2 DEF goto
    <3>2. QED
      BY <1>0, <1>b, <3>1
  <2>3. QED
    BY <1>6, <2>1, <2>2 DEF TryToEmpty
<1>7. ASSUME NEW c \in Client, TryToEmptyWrap(c)
      PROVE  \A d \in Thread : pc'[d] \in Scanning => cache_sync' = d
  <2>0. pc[c] = "evict_wrap" /\ pc[c] \in Scanning
    BY <1>7, <1>e DEF TryToEmptyWrap
  <2>1. CASE evict(c)
    BY <1>4, <2>0, <2>1
  <2>2. CASE goto(c, "sync")
    <3>1. pc' = [pc EXCEPT ![c] = "sync"]
      BY <2>2 DEF goto
    <3>2. QED
      BY <1>0, <1>c, <1>e, <2>0, <3>1
  <2>3. QED
    BY <1>7, <2>1, <2>2 DEF TryToEmptyWrap
<1>8. ASSUME NEW c \in Client, Transfer(c) \/ Unlock(c)
      PROVE  \A d \in Thread : pc'[d] \in Scanning => cache_sync' = d
  <2>1. cache_sync' = cache_sync
    BY <1>8 DEF Transfer, CacheRead, CacheWrite, Copy, Unlock, UnlockExclusive,
                UnlockNonExclusive, Leave, return, lock_vars
  <2>2. PICK p \in {"data", "unlock", "leaving", "idle"} : pc' = [pc EXCEPT ![c] = p]
    BY <1>8 DEF Transfer, CacheRead, CacheWrite, Copy, Unlock, UnlockExclusive,
                UnlockNonExclusive, Leave, return, goto
  <2>3. QED
    BY <1>0, <1>a, <1>e, <2>1, <2>2
<1>9. ASSUME NEW t \in Thread, CacheFlush(t)
      PROVE  \A d \in Thread : pc'[d] \in Scanning => cache_sync' = d
  <2>1. pc' = [pc EXCEPT ![t] = "flush_sync"] /\ cache_sync' = cache_sync
    BY <1>9 DEF CacheFlush, goto, lock_vars
  <2>2. QED
    BY <1>0, <1>a, <1>e, <2>1
<1>10. ASSUME NEW t \in Thread, FlushSync(t)
      PROVE  \A d \in Thread : pc'[d] \in Scanning => cache_sync' = d
  <2>1. pc' = [pc EXCEPT ![t] = "flush"] /\ cache_sync' = t /\ cache_sync = NULL
    BY <1>10 DEF FlushSync, goto
  <2>2. QED
    BY <1>0, <1>b, <2>1
<1>11. ASSUME NEW t \in Thread, FlushBlock(t)
      PROVE  \A d \in Thread : pc'[d] \in Scanning => cache_sync' = d
  BY <1>d, <1>11 DEF FlushBlock, lock_vars
<1>12. ASSUME NEW t \in Thread, FlushEnd(t)
      PROVE  \A d \in Thread : pc'[d] \in Scanning => cache_sync' = d
  <2>1. pc' = [pc EXCEPT ![t] = "idle"] /\ pc[t] = "flush"
    BY <1>12 DEF FlushEnd, goto
  <2>2. QED
    BY <1>0, <1>c, <1>e, <2>1
<1>13. CASE UNCHANGED vars
  BY <1>d, <1>13 DEF vars, lock_vars
<1>14. QED
  BY <1>1, <1>2, <1>5, <1>6, <1>7, <1>8, <1>9, <1>10, <1>11, <1>12, <1>13
     DEF Next, CacheLock, Flush, Panic

\* A block that try_to_empty() passes is in use.
LEMMA PassedInUse ==
    ASSUME IInv, NEW b \in Block, ~ evictable(b)
    PROVE  \E d \in Client : blk[d] = b
<1>1. block_lock[b] \in Client \cup {NULL}
  BY DEF IInv, TypeOK
<1>2. CASE block_lock[b] # NULL
  BY <1>1, <1>2 DEF IInv, BlockLockInv
<1>3. CASE block_lock[b] = NULL
  <2>1. cache[b].readers # 0 \/ cache[b].writers # 0
    BY <1>3 DEF evictable
  <2>2. Cardinality(Users(b) \ Writers(b)) # 0 \/ Cardinality(Writers(b)) # 0
    BY <2>1 DEF IInv, CountsMatch
  <2>3. Users(b) \ Writers(b) # {} \/ Writers(b) # {}
    BY <2>2, FS_EmptySet
  <2>4. QED
    BY <2>3 DEF Users, Writers
<1>4. QED
  BY <1>2, <1>3

\* Two sets of clients.
LEMMA FewerClients ==
    ASSUME NEW S \in SUBSET Client, NEW T \in SUBSET S
    PROVE  /\ Cardinality(T) \in Nat /\ Cardinality(S) \in Nat
           /\ Cardinality(Client) \in Nat
           /\ Cardinality(T) <= Cardinality(S) /\ Cardinality(S) <= Cardinality(Client)
           /\ S # T => Cardinality(T) < Cardinality(S)
           /\ S # Client => Cardinality(S) < Cardinality(Client)
<1>1. IsFiniteSet(Client)
  BY CacheAssumption
<1>2. IsFiniteSet(S)
  BY <1>1, FS_Subset
<1>3. IsFiniteSet(T)
  BY <1>2, FS_Subset
<1>4. Cardinality(T) <= Cardinality(S) /\ Cardinality(S) <= Cardinality(Client)
  BY <1>1, <1>2, FS_Subset
<1>5. /\ S # T => Cardinality(T) # Cardinality(S)
      /\ S # Client => Cardinality(S) # Cardinality(Client)
  BY <1>1, <1>2, FS_Subset
<1>6. Cardinality(T) \in Nat /\ Cardinality(S) \in Nat /\ Cardinality(Client) \in Nat
  BY <1>1, <1>2, <1>3, FS_CardinalityType
<1>7. QED
  BY <1>4, <1>5, <1>6

\* The clients with a block that c's scan has still to try.
InTheWay(c) == {d \in Client : blk[d] \in Ahead(c)}

\* What EvictInv says of one client.
ScanInv(c) ==
    pc[c] \in Evicting =>
        /\ IF pc[c] = "evict" THEN i[c] <= hand ELSE hand <= i[c]
        /\ Passed(c) + Cardinality(InTheWay(c)) < Cardinality(Client)

LEMMA EvictStep ==
    ASSUME IInv, IInv', EvictInv, ScanKind PROVE EvictInv'
<1>0. /\ \A d \in Client : ScanInv(d)
      /\ hand \in 0 .. CACHE_CNT /\ hand' \in 0 .. CACHE_CNT /\ CACHE_CNT \in Nat
      /\ \A d \in Client : i[d] \in 0 .. CACHE_CNT /\ i'[d] \in 0 .. CACHE_CNT
      /\ \A d \in Client : blk[d] \in Block \cup {NULL} /\ blk'[d] \in Block \cup {NULL}
      /\ NULL \notin Block
  BY CacheAssumption DEF EvictInv, ScanInv, InTheWay, Evicting, IInv, TypeOK, Thread
<1>g. SUFFICES ASSUME NEW c \in Client PROVE ScanInv(c)'
  BY DEF EvictInv, ScanInv, InTheWay, Evicting
<1>h. SUFFICES ASSUME pc'[c] \in Evicting
               PROVE  /\ IF pc'[c] = "evict" THEN i'[c] <= hand' ELSE hand' <= i'[c]
                      /\ Passed(c)' + Cardinality(InTheWay(c)') < Cardinality(Client)
  BY DEF ScanInv
<1>n. NULL \notin Ahead(c)
  BY <1>0 DEF Ahead, Block
<1>w. InTheWay(c) \in SUBSET Client /\ InTheWay(c)' \in SUBSET Client
  BY DEF InTheWay
<1>p. /\ pc[c] \in Evicting => Passed(c) \in Int
      /\ Passed(c)' \in Int
  BY <1>0 DEF Passed
<1>1. CASE Quiet
  <2>1. pc'[c] = pc[c] /\ i'[c] = i[c] /\ hand' = hand
    BY <1>1, <1>h DEF Quiet
  <2>2. Passed(c)' = Passed(c) /\ Ahead(c)' = Ahead(c)
    BY <2>1 DEF Passed, Ahead
  <2>3. InTheWay(c)' \subseteq InTheWay(c)
    BY <1>1, <1>n, <2>2 DEF Quiet, InTheWay
  <2>4. Cardinality(InTheWay(c)') <= Cardinality(InTheWay(c))
    BY <1>w, <2>3, FewerClients
  <2>5. /\ IF pc[c] = "evict" THEN i[c] <= hand ELSE hand <= i[c]
        /\ Passed(c) + Cardinality(InTheWay(c)) < Cardinality(Client)
    BY <1>0, <1>h, <2>1 DEF ScanInv
  <2>6. /\ Cardinality(InTheWay(c)') \in Nat /\ Cardinality(InTheWay(c)) \in Nat
        /\ Cardinality(Client) \in Nat
    BY <1>w, FewerClients
  <2>7. Passed(c)' + Cardinality(InTheWay(c)') < Cardinality(Client)
    BY <1>h, <1>p, <2>1, <2>2, <2>4, <2>5, <2>6
  <2>8. QED
    BY <2>1, <2>5, <2>7
<1>2. CASE NoScan
  BY <1>2, <1>h DEF NoScan
<1>3. ASSUME NEW d \in Client, Starts(d)
      PROVE  /\ IF pc'[c] = "evict" THEN i'[c] <= hand' ELSE hand' <= i'[c]
             /\ Passed(c)' + Cardinality(InTheWay(c)') < Cardinality(Client)
  <2>1. d = c
    BY <1>3, <1>h DEF Starts, Alone
  <2>2. pc'[c] = "evict" /\ i'[c] = hand /\ hand' = hand /\ blk'[c] = NULL
    BY <1>3, <2>1 DEF Starts
  <2>3. Passed(c)' = 0
    BY <1>0, <2>2 DEF Passed
  <2>4. c \notin InTheWay(c)'
    BY <1>0, <2>2 DEF InTheWay, Ahead, Block
  <2>5. Cardinality(InTheWay(c)') < Cardinality(Client) /\ Cardinality(InTheWay(c)') \in Nat
    BY <1>w, <2>4, FewerClients
  <2>6. QED
    BY <1>0, <2>2, <2>3, <2>5
<1>4. ASSUME NEW d \in Client, Passes(d)
      PROVE  /\ IF pc'[c] = "evict" THEN i'[c] <= hand' ELSE hand' <= i'[c]
             /\ Passed(c)' + Cardinality(InTheWay(c)') < Cardinality(Client)
  <2>1. d = c
    BY <1>4, <1>h DEF Passes, Alone
  <2>2. /\ pc[c] \in Evicting /\ pc'[c] = pc[c] /\ i'[c] = i[c]
        /\ hand < IF pc[c] = "evict" THEN CACHE_CNT ELSE i[c]
        /\ ~ evictable(hand) /\ hand' = hand + 1 /\ blk' = blk
    BY <1>4, <2>1 DEF Passes
  <2>3. /\ IF pc[c] = "evict" THEN i[c] <= hand ELSE hand <= i[c]
        /\ Passed(c) + Cardinality(InTheWay(c)) < Cardinality(Client)
    BY <1>0, <2>2 DEF ScanInv
  <2>4. Passed(c)' = Passed(c) + 1
    BY <1>0, <2>2 DEF Passed
  <2>5. hand \in Ahead(c) /\ hand \notin Ahead(c)' /\ Ahead(c)' \subseteq Ahead(c)
    BY <1>0, <2>2, <2>3 DEF Ahead
  <2>6. hand \in Block
    BY <1>0, <2>2 DEF Block
  <2>7. PICK e \in Client : blk[e] = hand
    BY <2>2, <2>6, PassedInUse
  <2>8. InTheWay(c)' \subseteq InTheWay(c) /\ e \in InTheWay(c) /\ e \notin InTheWay(c)'
    BY <2>2, <2>5, <2>7 DEF InTheWay
  <2>9. /\ Cardinality(InTheWay(c)') < Cardinality(InTheWay(c))
        /\ Cardinality(InTheWay(c)') \in Nat /\ Cardinality(InTheWay(c)) \in Nat
        /\ Cardinality(Client) \in Nat
    BY <1>w, <2>8, FewerClients
  <2>10. Passed(c)' + Cardinality(InTheWay(c)') < Cardinality(Client)
    BY <1>p, <2>2, <2>3, <2>4, <2>9
  <2>11. QED
    BY <1>0, <2>2, <2>3, <2>10
<1>5. ASSUME NEW d \in Client, Wraps(d)
      PROVE  /\ IF pc'[c] = "evict" THEN i'[c] <= hand' ELSE hand' <= i'[c]
             /\ Passed(c)' + Cardinality(InTheWay(c)') < Cardinality(Client)
  <2>1. d = c
    BY <1>5, <1>h DEF Wraps, Alone
  <2>2. /\ pc[c] = "evict" /\ pc'[c] = "evict_wrap" /\ i'[c] = i[c]
        /\ hand = CACHE_CNT /\ hand' = 0 /\ blk' = blk
    BY <1>5, <2>1 DEF Wraps
  <2>3. Passed(c) + Cardinality(InTheWay(c)) < Cardinality(Client)
    BY <1>0, <2>2 DEF ScanInv, Evicting
  <2>4. Passed(c)' = Passed(c) /\ Ahead(c)' = Ahead(c)
    BY <1>0, <2>2 DEF Passed, Ahead
  <2>5. InTheWay(c)' = InTheWay(c)
    BY <2>2, <2>4 DEF InTheWay
  <2>6. QED
    BY <1>0, <2>2, <2>3, <2>4, <2>5
<1>6. QED
  BY <1>1, <1>2, <1>3, <1>4, <1>5 DEF ScanKind

\* With at least as many blocks as clients, cache_lock() never sleeps for
\* want of a block, although blocks are passed while others are unlocked
\* behind the hand: a scan that came round has passed CACHE_CNT blocks, each
\* in use by another client than the one that scans.
THEOREM NeverContended == Spec => []NoContention
<1> DEFINE All == IInv /\ SyncInv /\ EvictInv
<1>1. Init => All
  <2>1. Init => \A t \in Thread : pc[t] = "idle"
    BY DEF Init
  <2>2. Init => SyncInv
    BY <2>1 DEF SyncInv
  <2>3. Init => EvictInv
    BY <2>1 DEF EvictInv, Thread
  <2>4. QED
    BY <2>2, <2>3, IInvInit
<1>2. All /\ [Next]_vars => All'
  BY IInvStep, SyncStep, ScanSteps, EvictStep
<1>3. All => NoContention
  <2> SUFFICES ASSUME All, Cardinality(Client) <= CACHE_CNT, NEW c \in Client,
                      pc[c] = "evict_wrap", hand >= i[c]
               PROVE  FALSE
    BY DEF NoContention
  <2>1. hand \in 0 .. CACHE_CNT /\ i[c] \in 0 .. CACHE_CNT /\ CACHE_CNT \in Nat
    BY CacheAssumption DEF IInv, TypeOK, Thread
  <2>2. /\ hand <= i[c]
        /\ (CACHE_CNT - i[c]) + hand + Cardinality(InTheWay(c)) < Cardinality(Client)
    BY DEF EvictInv, Passed, InTheWay
  <2>3. Cardinality(InTheWay(c)) \in Nat /\ Cardinality(Client) \in Nat
    BY FewerClients DEF InTheWay
  <2>4. QED
    BY <2>1, <2>2, <2>3
<1>4. QED
  BY <1>1, <1>2, <1>3, PTL DEF Spec
-----------------------------------------------------------------------------
(***************************************************************************)
(* The cache is transparent to its only client.  First what one changed    *)
(* block means for the contents seen through the blocks C and the disk D.  *)
(***************************************************************************)
Holds(C, b, s) == C[b].sector = s /\ C[b].up_to_date
Seen(C, D) == [s \in Sector |->
                 IF \E b \in Block : Holds(C, b, s)
                   THEN C[CHOOSE b \in Block : Holds(C, b, s)].data
                   ELSE D[s]]

Once(C) == \A a, b \in Block : a # b /\ C[a].sector = C[b].sector
                               => C[a].sector = INVALID_SECTOR

\* What MediaInv says of one block.
Sound(x, D) ==
    /\ x.sector = INVALID_SECTOR => x.up_to_date = FALSE
    /\ x.dirty = TRUE => x.up_to_date = TRUE
    /\ x.up_to_date = TRUE /\ x.dirty = FALSE => x.data = D[x.sector]
Media(C, D) == Once(C) /\ \A b \in Block : Sound(C[b], D)

Same(x, y) == /\ x.sector = y.sector /\ x.up_to_date = y.up_to_date
              /\ x.dirty = y.dirty /\ x.data = y.data

LEMMA SeenHeld ==
    ASSUME NEW C, NEW D, Once(C), NEW b \in Block, NEW s \in Sector, Holds(C, b, s)
    PROVE  Seen(C, D)[s] = C[b].data
<1>1. s # INVALID_SECTOR
  BY CacheAssumption
<1>2. \A a \in Block : Holds(C, a, s) => a = b
  BY <1>1, Zenon DEF Holds, Once
<1>3. (CHOOSE a \in Block : Holds(C, a, s)) = b
  BY <1>2
<1>4. QED
  BY <1>3 DEF Seen

LEMMA SeenFree ==
    ASSUME NEW C, NEW D, NEW s \in Sector, \A b \in Block : ~ Holds(C, b, s)
    PROVE  Seen(C, D)[s] = D[s]
  BY DEF Seen

\* Where only block b changes, a sector is seen as before if another block
\* holds it, or if b and the disk show it as before.
Shows(C, D, b, s) == IF Holds(C, b, s) THEN C[b].data ELSE D[s]

LEMMA OneChanges ==
    ASSUME NEW C, NEW D, NEW C2, NEW D2, Once(C), Once(C2),
           NEW b \in Block, \A a \in Block : a # b => Same(C2[a], C[a]),
           NEW s \in Sector
    PROVE  \/ Seen(C2, D2)[s] = Seen(C, D)[s] /\ \E a \in Block : a # b /\ Holds(C, a, s)
           \/ /\ \A a \in Block : a # b => ~ Holds(C, a, s)
              /\ Seen(C2, D2)[s] = Shows(C2, D2, b, s)
              /\ Seen(C, D)[s] = Shows(C, D, b, s)
<1>0. \A a \in Block : a # b => (Holds(C2, a, s) <=> Holds(C, a, s)) /\ C2[a].data = C[a].data
  BY Zenon DEF Same, Holds
<1>1. CASE \E a \in Block : a # b /\ Holds(C, a, s)
  <2>1. PICK a \in Block : a # b /\ Holds(C, a, s)
    BY <1>1
  <2>2. Seen(C, D)[s] = C[a].data
    BY <2>1, SeenHeld
  <2>3. Seen(C2, D2)[s] = C2[a].data
    BY <1>0, <2>1, SeenHeld
  <2>4. QED
    BY <1>0, <1>1, <2>1, <2>2, <2>3
<1>2. CASE \A a \in Block : a # b => ~ Holds(C, a, s)
  <2>1. Seen(C, D)[s] = Shows(C, D, b, s)
    <3>1. CASE Holds(C, b, s)
      BY <3>1, SeenHeld DEF Shows
    <3>2. CASE ~ Holds(C, b, s)
      BY <1>2, <3>2, SeenFree DEF Shows
    <3>3. QED
      BY <3>1, <3>2
  <2>2. Seen(C2, D2)[s] = Shows(C2, D2, b, s)
    <3>1. CASE Holds(C2, b, s)
      BY <3>1, SeenHeld DEF Shows
    <3>2. CASE ~ Holds(C2, b, s)
      BY <1>0, <1>2, <3>2, SeenFree DEF Shows
    <3>3. QED
      BY <3>1, <3>2
  <2>3. QED
    BY <1>2, <2>1, <2>2
<1>3. QED
  BY <1>1, <1>2

\* Nothing changes but counts.
LEMMA Unchanging ==
    ASSUME NEW C, NEW D, NEW C2, Media(C, D), \A a \in Block : Same(C2[a], C[a])
    PROVE  Media(C2, D) /\ Seen(C2, D) = Seen(C, D)
<1>1. Once(C2)
  <2>1. \A a \in Block : C2[a].sector = C[a].sector
    BY Zenon DEF Same
  <2>2. QED
    BY <2>1 DEF Media, Once
<1>2. \A b \in Block : Sound(C2[b], D)
  BY Zenon DEF Media, Sound, Same
<1>3. ASSUME NEW s \in Sector PROVE Seen(C2, D)[s] = Seen(C, D)[s]
  <2>0. \A a \in Block : (Holds(C2, a, s) <=> Holds(C, a, s)) /\ C2[a].data = C[a].data
    BY Zenon DEF Same, Holds
  <2>1. CASE \E a \in Block : Holds(C, a, s)
    BY <1>1, <2>0, <2>1, SeenHeld DEF Media
  <2>2. CASE \A a \in Block : ~ Holds(C, a, s)
    BY <2>0, <2>2, SeenFree
  <2>3. QED
    BY <2>1, <2>2
<1>4. Seen(C2, D) = Seen(C, D)
  BY <1>3 DEF Seen
<1>5. QED
  BY <1>1, <1>2, <1>4 DEF Media

\* A block is written back if it must be, and then labelled with no sector or
\* with one that no block has.
Emptied(C, D, C2, D2, b) ==
    /\ \A a \in Block : a # b => Same(C2[a], C[a])
    /\ C2[b].up_to_date = FALSE /\ C2[b].dirty = FALSE
    /\ C2[b].sector # INVALID_SECTOR => \A a \in Block : C[a].sector # C2[b].sector
    /\ D2 = IF C[b].dirty = TRUE /\ C[b].sector # INVALID_SECTOR
              THEN [D EXCEPT ![C[b].sector] = C[b].data]
              ELSE D

LEMMA Empties ==
    ASSUME NEW C \in [Block -> cache_block], NEW D \in [Sector -> Content], NEW C2, NEW D2,
           Media(C, D), NEW b \in Block, Emptied(C, D, C2, D2, b)
    PROVE  Media(C2, D2) /\ Seen(C2, D2) = Seen(C, D)
<1>0. /\ C[b].up_to_date \in BOOLEAN /\ C[b].dirty \in BOOLEAN
      /\ \A a \in Block : C[a].sector \in Sector \cup {INVALID_SECTOR}
      /\ INVALID_SECTOR \notin Sector
  BY CacheAssumption DEF cache_block
<1>1. Once(C2)
  <2>1. SUFFICES ASSUME NEW a \in Block, NEW e \in Block, a # e, C2[a].sector = C2[e].sector
                 PROVE  C2[a].sector = INVALID_SECTOR
    BY DEF Once
  <2>2. /\ \A d \in Block : d # b => C2[d].sector = C[d].sector
        /\ C2[b].sector # INVALID_SECTOR => \A d \in Block : C[d].sector # C2[b].sector
    BY DEF Emptied, Same
  <2>3. CASE a # b /\ e # b
    BY <2>1, <2>2, <2>3 DEF Media, Once
  <2>4. CASE a = b \/ e = b
    BY <2>1, <2>2, <2>4
  <2>5. QED
    BY <2>3, <2>4
<1>2. \A s \in Sector : s # C[b].sector => D2[s] = D[s]
  <2>1. CASE D2 = [D EXCEPT ![C[b].sector] = C[b].data]
    BY <2>1
  <2>2. QED
    BY <2>1 DEF Emptied
<1>3. C[b].sector \in Sector =>
        D2[C[b].sector] = IF C[b].dirty = TRUE THEN C[b].data ELSE D[C[b].sector]
  BY <1>0 DEF Emptied
<1>4. ASSUME NEW a \in Block PROVE Sound(C2[a], D2)
  <2>1. CASE a = b
    BY <2>1 DEF Emptied, Sound
  <2>2. CASE a # b
    <3>1. Same(C2[a], C[a]) /\ Sound(C[a], D)
      BY <2>2 DEF Emptied, Media
    <3>2. C[a].sector # INVALID_SECTOR => D2[C[a].sector] = D[C[a].sector]
      BY <1>0, <1>2, <2>2 DEF Media, Once
    <3>3. QED
      BY <3>1, <3>2, Zenon DEF Same, Sound
  <2>3. QED
    BY <2>1, <2>2
<1>5. ASSUME NEW s \in Sector PROVE Shows(C2, D2, b, s) = Shows(C, D, b, s)
  <2>1. Shows(C2, D2, b, s) = D2[s]
    BY Zenon DEF Emptied, Shows, Holds
  <2>2. CASE C[b].sector # s
    BY <1>2, <2>1, <2>2 DEF Shows, Holds
  <2>3. CASE C[b].sector = s /\ C[b].dirty = TRUE
    <3>1. Holds(C, b, s)
      BY <2>3, Zenon DEF Holds, Media, Sound
    <3>2. QED
      BY <1>3, <2>1, <2>3, <3>1 DEF Shows
  <2>4. CASE C[b].sector = s /\ C[b].dirty = FALSE
    <3>1. D2[s] = D[s]
      BY <1>3, <2>4
    <3>2. Holds(C, b, s) => C[b].data = D[s]
      BY <2>4, Zenon DEF Holds, Media, Sound
    <3>3. QED
      BY <2>1, <3>1, <3>2 DEF Shows
  <2>5. QED
    BY <1>0, <2>2, <2>3, <2>4
<1>6. \A s \in Sector : Seen(C2, D2)[s] = Seen(C, D)[s]
  <2>1. Once(C) /\ \A a \in Block : a # b => Same(C2[a], C[a])
    BY DEF Emptied, Media
  <2>2. QED
    BY <1>1, <1>5, <2>1, OneChanges
<1>7. Seen(C2, D2) = Seen(C, D)
  BY <1>6 DEF Seen
<1>8. QED
  BY <1>1, <1>4, <1>7 DEF Media

\* An empty block is filled with the sector that it is labelled with.
LEMMA Fills ==
    ASSUME NEW C \in [Block -> cache_block], NEW D, NEW C2, Media(C, D), NEW b \in Block,
           \A a \in Block : a # b => Same(C2[a], C[a]),
           C[b].up_to_date = FALSE, C[b].sector # INVALID_SECTOR,
           C2[b].sector = C[b].sector, C2[b].up_to_date = TRUE, C2[b].dirty = C[b].dirty,
           C2[b].data = D[C[b].sector]
    PROVE  Media(C2, D) /\ Seen(C2, D) = Seen(C, D)
<1>1. Once(C2)
  <2>1. \A a \in Block : C2[a].sector = C[a].sector
    BY Zenon DEF Same
  <2>2. QED
    BY <2>1 DEF Media, Once
<1>2. ASSUME NEW a \in Block PROVE Sound(C2[a], D)
  <2>1. CASE a = b
    BY <2>1 DEF Sound
  <2>2. CASE a # b
    <3>1. Same(C2[a], C[a]) /\ Sound(C[a], D)
      BY <2>2 DEF Media
    <3>2. QED
      BY <3>1, Zenon DEF Same, Sound
  <2>3. QED
    BY <2>1, <2>2
<1>3. ASSUME NEW s \in Sector PROVE Shows(C2, D, b, s) = Shows(C, D, b, s)
  BY <1>3 DEF Shows, Holds
<1>4. \A s \in Sector : Seen(C2, D)[s] = Seen(C, D)[s]
  BY <1>1, <1>3, OneChanges DEF Media
<1>5. Seen(C2, D) = Seen(C, D)
  BY <1>4 DEF Seen
<1>6. QED
  BY <1>1, <1>2, <1>5 DEF Media

\* A block is written to.
Stored(C, C2, b) ==
    /\ \A a \in Block : a # b => Same(C2[a], C[a])
    /\ C[b].sector \in Sector /\ C2[b].sector = C[b].sector
    /\ C2[b].up_to_date = TRUE /\ C2[b].dirty = TRUE

LEMMA Stores ==
    ASSUME NEW C, NEW D, NEW C2, Media(C, D), NEW b \in Block, Stored(C, C2, b)
    PROVE  /\ Media(C2, D)
           /\ Seen(C2, D) = [Seen(C, D) EXCEPT ![C[b].sector] = C2[b].data]
<1>0. /\ \A a \in Block : a # b => Same(C2[a], C[a])
      /\ C[b].sector \in Sector /\ C2[b].sector = C[b].sector
      /\ C2[b].up_to_date = TRUE /\ C2[b].dirty = TRUE
  BY DEF Stored
<1>1. Once(C2)
  <2>1. \A a \in Block : C2[a].sector = C[a].sector
    BY <1>0, Zenon DEF Same
  <2>2. QED
    BY <2>1 DEF Media, Once
<1>2. ASSUME NEW a \in Block PROVE Sound(C2[a], D)
  <2>0. C2[b].sector # INVALID_SECTOR
    BY <1>0, CacheAssumption
  <2>1. CASE a = b
    <3>1. C2[b].dirty # FALSE
      BY <1>0
    <3>2. QED
      BY <1>0, <2>0, <2>1, <3>1, Zenon DEF Sound
  <2>2. CASE a # b
    <3>1. Same(C2[a], C[a]) /\ Sound(C[a], D)
      BY <1>0, <2>2 DEF Media
    <3>2. QED
      BY <3>1, Zenon DEF Same, Sound
  <2>3. QED
    BY <2>1, <2>2
<1>3. ASSUME NEW s \in Sector, s # C[b].sector PROVE Shows(C2, D, b, s) = Shows(C, D, b, s)
  BY <1>0, <1>3 DEF Shows, Holds
<1>4. \A s \in Sector : s # C[b].sector => Seen(C2, D)[s] = Seen(C, D)[s]
  BY <1>0, <1>1, <1>3, OneChanges DEF Media
<1>5. Seen(C2, D)[C[b].sector] = C2[b].data
  <2>1. Holds(C2, b, C[b].sector)
    BY <1>0, Zenon DEF Holds
  <2>2. QED
    BY <1>0, <1>1, <2>1, SeenHeld
<1>6. Seen(C2, D) = [Seen(C, D) EXCEPT ![C[b].sector] = C2[b].data]
  BY <1>0, <1>4, <1>5 DEF Seen
<1>7. QED
  BY <1>1, <1>2, <1>6 DEF Media

(***************************************************************************)
(* The invariant of an only client m, and no flushd: what each scan has    *)
(* found so far, and that the block it has is the one it wants.            *)
(***************************************************************************)
Own(m) ==
    /\ pc[m] = "in_cache" => \A b \in Block : b < i[m] => cache[b].sector # req[m].sector
    /\ pc[m] \in {"find_empty", "evict", "evict_wrap"} =>
          \A b \in Block : cache[b].sector # req[m].sector
    /\ pc[m] = "flush" => \A b \in Block : b < i[m] => cache[b].dirty = FALSE
    /\ pc[m] \in {"idle", "flush_sync", "locked", "data", "unlock", "leaving"} => i[m] = 0
    /\ blk[m] # NULL => cache[blk[m]].sector = req[m].sector
    /\ pc[m] = "data" /\ reads(req[m]) => cache[blk[m]].up_to_date = TRUE
    /\ req[m] # NULL => (req[m].parts = {} <=> pc[m] \in {"unlock", "leaving"})

OneInv(m) == IInv /\ Media(cache, disk) /\ Own(m)

\* The step of the store that a step of the cache is.
StoreStep == [Store!Next]_<<content, req, buffer>>

LEMMA ContentSeen ==
    content = Seen(cache, disk) /\ content' = Seen(cache', disk')
  BY DEF content, Seen, Holds, Cached

\* The types the steps below need.
LEMMA OneTypes ==
    ASSUME NEW m, Client = {m}, IInv
    PROVE  /\ cache \in [Block -> cache_block] /\ disk \in [Sector -> Content]
           /\ hand \in 0 .. CACHE_CNT /\ i[m] \in 0 .. CACHE_CNT /\ CACHE_CNT \in Nat
           /\ pc \in [Thread -> PC] /\ m \in Thread /\ req \in [Client -> Request \cup {NULL}]
           /\ blk \in [Client -> Block \cup {NULL}] /\ NULL \notin Block /\ NULL \notin Request
           /\ i \in [Thread -> 0 .. CACHE_CNT] /\ buffer \in [Client -> Content]
           /\ req[m] # NULL <=> pc[m] \in Calling
           /\ blk[m] # NULL <=> pc[m] \in HasBlock
           /\ pc[m] \in Calling => req[m].sector \in Sector /\ req[m] \in Request
           /\ INVALID_SECTOR \notin Sector
<1>1. m \in Client /\ m \in Thread
  BY DEF Thread
<1>2. TypeOK
  BY DEF IInv
<1>3. /\ req[m] # NULL <=> pc[m] \in Calling
      /\ blk[m] # NULL <=> pc[m] \in HasBlock
  BY <1>1 DEF IInv, CallInv
<1>4. /\ cache \in [Block -> cache_block] /\ disk \in [Sector -> Content]
      /\ hand \in 0 .. CACHE_CNT /\ i \in [Thread -> 0 .. CACHE_CNT]
      /\ pc \in [Thread -> PC] /\ req \in [Client -> Request \cup {NULL}]
      /\ blk \in [Client -> Block \cup {NULL}] /\ buffer \in [Client -> Content]
  BY <1>2 DEF TypeOK
<1>5. pc[m] \in Calling => req[m] \in Request
  BY <1>1, <1>3, <1>4
<1>6. pc[m] \in Calling => req[m].sector \in Sector
  BY <1>5 DEF Request
<1>7. i[m] \in 0 .. CACHE_CNT
  BY <1>1, <1>4
<1>8. QED
  BY <1>1, <1>3, <1>4, <1>5, <1>6, <1>7, CacheAssumption

\* While the only client scans, no block is locked.
LEMMA AllUnlocked ==
    ASSUME NEW m, Client = {m}, IInv, blk[m] = NULL, NEW b \in Block
    PROVE  block_lock[b] = NULL
<1>1. block_lock[b] \in Client \cup {NULL} /\ m \in Client /\ b # NULL
  BY CacheAssumption DEF IInv, TypeOK
<1>2. block_lock[b] # m
  BY <1>1 DEF IInv, BlockLockInv
<1>3. QED
  BY <1>1, <1>2

\* What cache_lock() hands out.
LEMMA GrantFields ==
    ASSUME NEW cb \in cache_block, NEW s \in Sector, NEW type
    PROVE  LET y == add_lock([cb EXCEPT !.sector = s], type)
           IN  /\ y.sector = s /\ y.up_to_date = cb.up_to_date
               /\ y.dirty = cb.dirty /\ y.data = cb.data
  BY DEF add_lock, cache_block

\* The block after try_to_empty() or cache_flush() wrote it back.
LEMMA FlushFields ==
    ASSUME NEW cb \in cache_block
    PROVE  /\ must_write(cb) => /\ flush_block(cb).sector = INVALID_SECTOR
                                /\ flush_block(cb).up_to_date = FALSE
                                /\ flush_block(cb).dirty = FALSE
           /\ ~ must_write(cb) => flush_block(cb) = cb
           /\ must_write(cb) <=> cb.dirty = TRUE /\ cb.sector # INVALID_SECTOR
<1>1. cb.dirty \in BOOLEAN
  BY DEF cache_block
<1>2. must_write(cb) <=> cb.dirty = TRUE /\ cb.sector # INVALID_SECTOR
  BY <1>1, Zenon DEF must_write
<1>3. must_write(cb) => flush_block(cb) = clear_block(cb)
  BY DEF flush_block
<1>4. /\ clear_block(cb).sector = INVALID_SECTOR /\ clear_block(cb).up_to_date = FALSE
      /\ clear_block(cb).dirty = FALSE
  BY DEF clear_block, cache_block
<1>5. ~ must_write(cb) => flush_block(cb) = cb
  BY DEF flush_block
<1>6. QED
  BY <1>2, <1>3, <1>4, <1>5

\* Only counts change, or nothing: the store stutters.
LEMMA StillStep ==
    ASSUME Media(cache, disk), disk' = disk, \A a \in Block : Same(cache'[a], cache[a])
    PROVE  Media(cache', disk') /\ content' = content
  BY Unchanging, ContentSeen

\* The block of client m is granted.
LEMMA GrantOwn ==
    ASSUME NEW m, Client = {m}, OneInv(m), IInv', NEW b \in Block, NEW cb \in cache_block,
           pc[m] \in {"in_cache", "find_empty", "evict", "evict_wrap"}, grant(m, b, cb)
    PROVE  /\ Own(m)' /\ UNCHANGED <<req, buffer>>
           /\ \A a \in Block : a # b => cache'[a] = cache[a]
           /\ cache'[b].sector = req[m].sector /\ cache'[b].up_to_date = cb.up_to_date
           /\ cache'[b].dirty = cb.dirty /\ cache'[b].data = cb.data
<1>0. /\ cache \in [Block -> cache_block] /\ pc \in [Thread -> PC] /\ m \in Thread
      /\ blk \in [Client -> Block \cup {NULL}] /\ m \in Client
      /\ pc[m] \in Calling /\ req[m].sector \in Sector /\ req[m] # NULL
      /\ i \in [Thread -> 0 .. CACHE_CNT]
  BY OneTypes DEF OneInv, Calling
<1>1. /\ cache' = [cache EXCEPT ![b] = add_lock([cb EXCEPT !.sector = req[m].sector],
                                                req[m].type)]
      /\ blk' = [blk EXCEPT ![m] = b] /\ i' = [i EXCEPT ![m] = 0]
      /\ pc' = [pc EXCEPT ![m] = "locked"] /\ req' = req /\ buffer' = buffer
  BY DEF grant, goto, call_vars
<1>2. /\ blk'[m] = b /\ i'[m] = 0 /\ pc'[m] = "locked"
      /\ \A a \in Block : a # b => cache'[a] = cache[a]
      /\ cache'[b] = add_lock([cb EXCEPT !.sector = req[m].sector], req[m].type)
  BY <1>0, <1>1
<1>3. /\ cache'[b].sector = req[m].sector /\ cache'[b].up_to_date = cb.up_to_date
      /\ cache'[b].dirty = cb.dirty /\ cache'[b].data = cb.data
  BY <1>0, <1>2, GrantFields
<1>4. req[m].parts # {}
  BY <1>0 DEF OneInv, Own
<1>5. Own(m)'
  BY <1>1, <1>2, <1>3, <1>4 DEF Own
<1>6. QED
  BY <1>1, <1>2, <1>3, <1>5

\* What every step of the only client comes to.
Serves(m) == Media(cache', disk') /\ Own(m)' /\ StoreStep

\* A grant after which every block but b is as before.
LEMMA GrantServes ==
    ASSUME NEW m, Client = {m}, OneInv(m), IInv', NEW b \in Block, NEW cb \in cache_block,
           pc[m] \in {"in_cache", "find_empty", "evict", "evict_wrap"}, grant(m, b, cb),
           \/ /\ disk' = disk /\ cb = cache[b] /\ cb.sector = req[m].sector
           \/ /\ cb.up_to_date = FALSE /\ cb.dirty = FALSE
              /\ \A a \in Block : cache[a].sector # req[m].sector
              /\ disk' = written(cache[b])
    PROVE  Serves(m)
<1>0. /\ cache \in [Block -> cache_block] /\ disk \in [Sector -> Content]
      /\ Media(cache, disk)
  BY OneTypes DEF OneInv
<1>1. /\ Own(m)' /\ UNCHANGED <<req, buffer>>
      /\ \A a \in Block : a # b => cache'[a] = cache[a]
      /\ cache'[b].sector = req[m].sector /\ cache'[b].up_to_date = cb.up_to_date
      /\ cache'[b].dirty = cb.dirty /\ cache'[b].data = cb.data
  BY GrantOwn
<1>2. \A a \in Block : a # b => Same(cache'[a], cache[a])
  BY <1>1 DEF Same
<1>3. CASE disk' = disk /\ cb = cache[b] /\ cb.sector = req[m].sector
  <2>1. Same(cache'[b], cache[b])
    BY <1>1, <1>3 DEF Same
  <2>2. Media(cache', disk') /\ content' = content
    BY <1>0, <1>2, <1>3, <2>1, StillStep
  <2>3. QED
    BY <1>1, <2>2 DEF Serves, StoreStep
<1>4. CASE /\ cb.up_to_date = FALSE /\ cb.dirty = FALSE
           /\ \A a \in Block : cache[a].sector # req[m].sector
           /\ disk' = written(cache[b])
  <2>1. disk' = IF cache[b].dirty = TRUE /\ cache[b].sector # INVALID_SECTOR
                  THEN [disk EXCEPT ![cache[b].sector] = cache[b].data]
                  ELSE disk
    <3>1. must_write(cache[b]) <=> cache[b].dirty = TRUE /\ cache[b].sector # INVALID_SECTOR
      BY <1>0, FlushFields
    <3>2. QED
      BY <1>4, <3>1 DEF written
  <2>2. Emptied(cache, disk, cache', disk', b)
    BY <1>1, <1>2, <1>4, <2>1 DEF Emptied
  <2>3. Media(cache', disk') /\ Seen(cache', disk') = Seen(cache, disk)
    BY <1>0, <2>2, Empties
  <2>4. QED
    BY <1>1, <2>3, ContentSeen DEF Serves, StoreStep
<1>5. QED
  BY <1>3, <1>4

\* A step that leaves the blocks, the disk, the call and its buffer alone.
LEMMA QuietServes ==
    ASSUME NEW m, OneInv(m), UNCHANGED <<cache, disk, req, buffer>>, Own(m)'
    PROVE  Serves(m)
<1>1. content' = content
  BY ContentSeen
<1>2. QED
  BY <1>1 DEF Serves, StoreStep, OneInv

LEMMA InCacheServes ==
    ASSUME NEW m, Client = {m}, OneInv(m), IInv', InCache(m)
    PROVE  Serves(m)
<1>0. /\ pc[m] = "in_cache" /\ scan(m, req[m].sector, "find_empty")
      /\ disk' = disk
  BY DEF InCache, scan
<1>1. /\ cache \in [Block -> cache_block] /\ i[m] \in 0 .. CACHE_CNT /\ CACHE_CNT \in Nat
      /\ pc \in [Thread -> PC] /\ i \in [Thread -> 0 .. CACHE_CNT] /\ m \in Thread
      /\ blk[m] = NULL /\ req[m] # NULL
  BY <1>0, OneTypes DEF OneInv, Calling, HasBlock
<1>2. /\ \A b \in Block : b < i[m] => cache[b].sector # req[m].sector
      /\ req[m].parts # {}
  BY <1>0, <1>1 DEF OneInv, Own
<1>3. CASE /\ i[m] < CACHE_CNT /\ cache[i[m]].sector = req[m].sector
           /\ grant(m, i[m], cache[i[m]])
  <2>1. i[m] \in Block /\ cache[i[m]] \in cache_block
    BY <1>1, <1>3 DEF Block
  <2>2. QED
    BY <1>0, <1>3, <2>1, GrantServes
<1>4. CASE /\ i[m] < CACHE_CNT
           /\ ~(block_lock[i[m]] = NULL /\ cache[i[m]].sector = req[m].sector)
           /\ i' = [i EXCEPT ![m] = @ + 1]
           /\ UNCHANGED <<cache, lock_vars, pc, blk, call_vars, panicked>>
  <2>1. i[m] \in Block
    BY <1>1, <1>4 DEF Block
  <2>2. cache[i[m]].sector # req[m].sector
    BY <1>1, <1>4, <2>1, AllUnlocked DEF OneInv
  <2>3. i'[m] = i[m] + 1 /\ UNCHANGED <<cache, disk, req, buffer, pc, blk>>
    BY <1>0, <1>1, <1>4 DEF call_vars
  <2>4. \A b \in Block : b < i'[m] => cache'[b].sector # req'[m].sector
    BY <1>1, <1>2, <2>2, <2>3 DEF Block
  <2>5. Own(m)'
    BY <1>0, <1>1, <1>2, <2>3, <2>4 DEF Own
  <2>6. QED
    BY <2>3, <2>5, QuietServes
<1>5. CASE /\ i[m] = CACHE_CNT
           /\ i' = [i EXCEPT ![m] = IF "find_empty" = "evict" THEN hand ELSE 0]
           /\ goto(m, "find_empty")
           /\ UNCHANGED <<cache, lock_vars, blk, call_vars, panicked>>
  <2>1. pc'[m] = "find_empty" /\ UNCHANGED <<cache, disk, req, buffer, blk>>
    BY <1>0, <1>1, <1>5 DEF goto, call_vars
  <2>2. \A b \in Block : cache'[b].sector # req'[m].sector
    BY <1>1, <1>2, <1>5, <2>1 DEF Block
  <2>3. Own(m)'
    BY <1>1, <1>2, <2>1, <2>2 DEF Own
  <2>4. QED
    BY <2>1, <2>3, QuietServes
<1>6. QED
  BY <1>0, <1>3, <1>4, <1>5 DEF scan

LEMMA FindEmptyServes ==
    ASSUME NEW m, Client = {m}, OneInv(m), IInv', FindEmpty(m)
    PROVE  Serves(m)
<1>0. /\ pc[m] = "find_empty" /\ scan(m, INVALID_SECTOR, "evict")
      /\ disk' = disk
  BY DEF FindEmpty, scan
<1>1. /\ cache \in [Block -> cache_block] /\ i[m] \in 0 .. CACHE_CNT /\ CACHE_CNT \in Nat
      /\ pc \in [Thread -> PC] /\ i \in [Thread -> 0 .. CACHE_CNT] /\ m \in Thread
      /\ blk[m] = NULL /\ req[m] # NULL
  BY <1>0, OneTypes DEF OneInv, Calling, HasBlock
<1>2. /\ \A b \in Block : cache[b].sector # req[m].sector
      /\ req[m].parts # {}
  BY <1>0, <1>1 DEF OneInv, Own
<1>3. CASE /\ i[m] < CACHE_CNT /\ cache[i[m]].sector = INVALID_SECTOR
           /\ grant(m, i[m], cache[i[m]])
  <2>1. i[m] \in Block /\ cache[i[m]] \in cache_block
    BY <1>1, <1>3 DEF Block
  <2>2. Sound(cache[i[m]], disk)
    BY <2>1 DEF OneInv, Media
  <2>3. cache[i[m]].up_to_date = FALSE
    BY <1>3, <2>2 DEF Sound
  <2>4. cache[i[m]].dirty \in BOOLEAN
    BY <2>1 DEF cache_block
  <2>5. cache[i[m]].dirty = FALSE
    BY <2>2, <2>3, <2>4 DEF Sound
  <2>6. disk' = written(cache[i[m]])
    BY <1>0, <1>3 DEF written, must_write
  <2>7. QED
    BY <1>0, <1>2, <1>3, <2>1, <2>3, <2>5, <2>6, GrantServes
<1>4. CASE /\ i' = [i EXCEPT ![m] = @ + 1]
           /\ UNCHANGED <<cache, lock_vars, pc, blk, call_vars, panicked>>
  <2>1. UNCHANGED <<cache, disk, req, buffer, pc, blk>>
    BY <1>0, <1>4 DEF call_vars
  <2>2. Own(m)'
    BY <1>0, <1>1, <1>2, <2>1 DEF Own
  <2>3. QED
    BY <2>1, <2>2, QuietServes
<1>5. CASE /\ goto(m, "evict")
           /\ UNCHANGED <<cache, lock_vars, blk, call_vars, panicked>>
  <2>1. pc'[m] = "evict" /\ UNCHANGED <<cache, disk, req, buffer, blk>>
    BY <1>0, <1>1, <1>5 DEF goto, call_vars
  <2>2. Own(m)'
    BY <1>1, <1>2, <2>1 DEF Own
  <2>3. QED
    BY <2>1, <2>2, QuietServes
<1>6. QED
  BY <1>0, <1>3, <1>4, <1>5 DEF scan

LEMMA TryToEmptyServes ==
    ASSUME NEW m, Client = {m}, OneInv(m), IInv', TryToEmpty(m) \/ TryToEmptyWrap(m)
    PROVE  Serves(m)
<1>0. pc[m] \in {"evict", "evict_wrap"}
  BY DEF TryToEmpty, TryToEmptyWrap
<1>1. /\ cache \in [Block -> cache_block] /\ i[m] \in 0 .. CACHE_CNT /\ CACHE_CNT \in Nat
      /\ hand \in 0 .. CACHE_CNT /\ pc \in [Thread -> PC] /\ m \in Thread
      /\ blk[m] = NULL /\ req[m] # NULL
  BY <1>0, OneTypes DEF OneInv, Calling, HasBlock
<1>2. /\ \A b \in Block : cache[b].sector # req[m].sector
      /\ req[m].parts # {}
  BY <1>0, <1>1 DEF OneInv, Own
<1>3. ASSUME hand < CACHE_CNT, evict(m) PROVE Serves(m)
  <2>1. CASE /\ disk' = written(cache[hand])
             /\ grant(m, hand, [flush_block(cache[hand]) EXCEPT !.up_to_date = FALSE])
    <3> DEFINE cb == [flush_block(cache[hand]) EXCEPT !.up_to_date = FALSE]
    <3>1. hand \in Block /\ cache[hand] \in cache_block
      BY <1>1, <1>3 DEF Block
    <3>2. flush_block(cache[hand]) \in cache_block
      BY <3>1, BlockOps
    <3>3. cb \in cache_block /\ cb.up_to_date = FALSE /\ cb.dirty = flush_block(cache[hand]).dirty
      BY <3>2 DEF cache_block
    <3>4. flush_block(cache[hand]).dirty = FALSE
      <4>1. CASE must_write(cache[hand])
        BY <3>1, <4>1, FlushFields
      <4>2. CASE ~ must_write(cache[hand])
        <5>1. flush_block(cache[hand]) = cache[hand]
          BY <3>1, <4>2, FlushFields
        <5>2. ~(cache[hand].dirty = TRUE /\ cache[hand].sector # INVALID_SECTOR)
          BY <3>1, <4>2, FlushFields
        <5>3. cache[hand].dirty \in BOOLEAN /\ Sound(cache[hand], disk)
          BY <3>1 DEF cache_block, OneInv, Media
        <5>4. cache[hand].dirty = FALSE
          BY <5>2, <5>3 DEF Sound
        <5>5. QED
          BY <5>1, <5>4
      <4>3. QED
        BY <4>1, <4>2
    <3> HIDE DEF cb
    <3>5. cb.up_to_date = FALSE /\ cb.dirty = FALSE /\ grant(m, hand, cb)
      BY <2>1, <3>3, <3>4 DEF cb
    <3>6. QED
      BY <1>0, <1>2, <2>1, <3>1, <3>3, <3>5, GrantServes
  <2>2. CASE UNCHANGED <<cache, block_lock, cache_sync, disk, pc, blk, i, call_vars, panicked>>
    <3>1. UNCHANGED <<cache, disk, req, buffer, pc, blk>>
      BY <2>2 DEF call_vars
    <3>2. Own(m)'
      BY <1>0, <1>1, <1>2, <3>1 DEF Own
    <3>3. QED
      BY <3>1, <3>2, QuietServes
  <2>3. QED
    BY <1>3, <2>1, <2>2 DEF evict
<1>4. ASSUME NEW p \in {"evict_wrap", "sync"}, goto(m, p),
             UNCHANGED <<cache, disk, blk, call_vars>>
      PROVE  Serves(m)
  <2>1. pc'[m] = p /\ UNCHANGED <<cache, disk, req, buffer, blk>>
    BY <1>1, <1>4 DEF goto, call_vars
  <2>2. Own(m)'
    BY <1>1, <1>2, <2>1 DEF Own
  <2>3. QED
    BY <2>1, <2>2, QuietServes
<1>5. CASE TryToEmpty(m)
  BY <1>3, <1>4, <1>5 DEF TryToEmpty
<1>6. CASE TryToEmptyWrap(m)
  <2>1. hand < i[m] => hand < CACHE_CNT
    BY <1>1
  <2>2. QED
    BY <1>3, <1>4, <1>6, <2>1 DEF TryToEmptyWrap
<1>7. QED
  BY <1>5, <1>6

LEMMA CallServes ==
    ASSUME NEW m, Client = {m}, OneInv(m), NEW r \in Request, FullIO(m, r)
    PROVE  Serves(m)
<1>0. /\ pc \in [Thread -> PC] /\ m \in Thread /\ m \in Client
      /\ req \in [Client -> Request \cup {NULL}] /\ r # NULL
      /\ req[m] # NULL <=> pc[m] \in Calling
      /\ blk[m] # NULL <=> pc[m] \in HasBlock
  BY OneTypes DEF OneInv
<1>1. /\ pc[m] = "idle" /\ r.parts # {} /\ pc' = [pc EXCEPT ![m] = "sync"]
      /\ req' = [req EXCEPT ![m] = r]
      /\ UNCHANGED <<cache, disk, blk, buffer>>
  BY DEF FullIO, goto
<1>2. /\ req[m] = NULL /\ blk[m] = NULL /\ pc'[m] = "sync" /\ req'[m] = r
  BY <1>0, <1>1 DEF Calling, HasBlock
<1>3. content' = content
  BY <1>1, ContentSeen
<1>4. Store!Call(m, r)
  BY <1>1, <1>2, <1>3 DEF Store!Call
<1>5. r \in Store!Request
  BY DEF Request, Type, Store!Request
<1>6. StoreStep
  BY <1>0, <1>4, <1>5 DEF StoreStep, Store!Next
<1>7. Own(m)'
  BY <1>1, <1>2 DEF Own
<1>8. QED
  BY <1>1, <1>6, <1>7 DEF Serves, OneInv

LEMMA SyncServes ==
    ASSUME NEW m, Client = {m}, OneInv(m), CacheSync(m)
    PROVE  Serves(m)
<1>0. /\ pc \in [Thread -> PC] /\ m \in Thread /\ i \in [Thread -> 0 .. CACHE_CNT]
      /\ req[m] # NULL <=> pc[m] \in Calling
      /\ blk[m] # NULL <=> pc[m] \in HasBlock
  BY OneTypes DEF OneInv
<1>1. /\ pc[m] = "sync" /\ pc' = [pc EXCEPT ![m] = "in_cache"] /\ i' = [i EXCEPT ![m] = 0]
      /\ UNCHANGED <<cache, disk, blk, req, buffer>>
  BY DEF CacheSync, goto, call_vars
<1>2. pc'[m] = "in_cache" /\ i'[m] = 0 /\ blk[m] = NULL /\ req[m] # NULL
  BY <1>0, <1>1 DEF Calling, HasBlock
<1>3. req[m].parts # {}
  BY <1>1, <1>2 DEF OneInv, Own
<1>4. \A b \in Block : ~(b < 0)
  BY DEF Block
<1>5. Own(m)'
  BY <1>1, <1>2, <1>3, <1>4 DEF Own
<1>6. QED
  BY <1>1, <1>5, QuietServes

\* The steps of the transfer have the block of the sector asked for.
LEMMA HasTheSector ==
    ASSUME NEW m, Client = {m}, OneInv(m), pc[m] \in HasBlock
    PROVE  /\ blk[m] \in Block /\ cache[blk[m]] \in cache_block
           /\ cache[blk[m]].sector = req[m].sector /\ req[m].sector \in Sector
           /\ req[m] \in Request /\ req[m] # NULL /\ blk[m] # NULL
           /\ Sound(cache[blk[m]], disk)
<1>1. /\ cache \in [Block -> cache_block] /\ m \in Client
      /\ req[m] # NULL <=> pc[m] \in Calling
      /\ blk[m] # NULL <=> pc[m] \in HasBlock
      /\ pc[m] \in Calling => req[m].sector \in Sector /\ req[m] \in Request
      /\ blk \in [Client -> Block \cup {NULL}]
  BY OneTypes DEF OneInv
<1>2. pc[m] \in Calling
  BY DEF Calling
<1>3. blk[m] \in Block
  BY <1>1
<1>4. cache[blk[m]].sector = req[m].sector
  BY <1>1 DEF OneInv, Own
<1>5. Sound(cache[blk[m]], disk)
  BY <1>3 DEF OneInv, Media
<1>6. QED
  BY <1>1, <1>2, <1>3, <1>4, <1>5

LEMMA CacheReadServes ==
    ASSUME NEW m, Client = {m}, OneInv(m), CacheRead(m)
    PROVE  Serves(m)
<1> DEFINE b == blk[m]
<1>0. pc[m] = "locked" /\ pc[m] \in HasBlock
  BY DEF CacheRead, HasBlock
<1>1. /\ b \in Block /\ cache[b] \in cache_block
      /\ cache[b].sector = req[m].sector /\ req[m].sector \in Sector
      /\ req[m] # NULL /\ b # NULL
  BY <1>0, HasTheSector
<1>2. /\ pc \in [Thread -> PC] /\ m \in Thread /\ cache \in [Block -> cache_block]
      /\ cache[b].sector # INVALID_SECTOR
  BY <1>1, OneTypes DEF OneInv
<1>3. /\ pc'[m] = "data" /\ UNCHANGED <<disk, req, buffer, blk, i>>
  BY <1>2 DEF CacheRead, goto, call_vars
<1>4. req[m].parts # {} /\ i[m] = 0
  BY <1>0, <1>1 DEF OneInv, Own
<1>5. cache[b].up_to_date \in BOOLEAN
  BY <1>1 DEF cache_block
<1> HIDE DEF b
<1>6. CASE (~ reads(req[m]) \/ cache[b].up_to_date) /\ UNCHANGED cache
  <2>1. reads(req[m]) => cache[b].up_to_date = TRUE
    BY <1>5, <1>6
  <2>2. Own(m)'
    <3>1. blk'[m] = b /\ req'[m] = req[m] /\ cache' = cache
      BY <1>3, <1>6 DEF b
    <3>2. QED
      BY <1>1, <1>3, <1>4, <2>1, <3>1 DEF Own
  <2>3. QED
    BY <1>3, <1>6, <2>2, QuietServes
<1>7. CASE /\ ~ cache[b].up_to_date
           /\ cache' = [cache EXCEPT ![b].up_to_date = TRUE,
                                     ![b].data = disk[cache[b].sector]]
  <2>1. /\ \A a \in Block : a # b => cache'[a] = cache[a]
        /\ cache'[b] = [cache[b] EXCEPT !.up_to_date = TRUE, !.data = disk[cache[b].sector]]
    BY <1>1, <1>2, <1>7
  <2>2. /\ cache'[b].sector = cache[b].sector /\ cache'[b].up_to_date = TRUE
        /\ cache'[b].dirty = cache[b].dirty /\ cache'[b].data = disk[cache[b].sector]
    BY <1>1, <2>1 DEF cache_block
  <2>3. \A a \in Block : a # b => Same(cache'[a], cache[a])
    BY <2>1 DEF Same
  <2>4. cache[b].up_to_date = FALSE
    BY <1>5, <1>7
  <2>5. Media(cache', disk) /\ Seen(cache', disk) = Seen(cache, disk)
    BY <1>1, <1>2, <2>2, <2>3, <2>4, Fills DEF OneInv
  <2>6. StoreStep
    BY <1>3, <2>5, ContentSeen DEF StoreStep
  <2>7. Own(m)'
    <3>1. blk'[m] = b /\ req'[m] = req[m]
      BY <1>3 DEF b
    <3>2. QED
      BY <1>1, <1>3, <1>4, <2>2, <3>1 DEF Own
  <2>8. QED
    BY <1>3, <2>5, <2>6, <2>7 DEF Serves
<1>8. QED
  BY <1>2, <1>6, <1>7 DEF CacheRead, b

LEMMA CopyServes ==
    ASSUME NEW m, Client = {m}, OneInv(m), NEW p \in Part, Copy(m, p)
    PROVE  Serves(m)
<1> DEFINE b == blk[m]
           r == req[m]
           after == IF r.parts = {p} THEN "unlock" ELSE "data"
<1>0. /\ pc[m] = "data" /\ pc[m] \in HasBlock
      /\ r.type = "NON_EXCLUSIVE" /\ p \in r.parts
  BY DEF Copy, HasBlock
<1>1. /\ b \in Block /\ cache[b] \in cache_block /\ r \in Request
      /\ cache[b].sector = r.sector /\ r.sector \in Sector
      /\ r # NULL /\ b # NULL
  BY <1>0, HasTheSector
<1>2. /\ pc \in [Thread -> PC] /\ m \in Thread /\ m \in Client
      /\ req \in [Client -> Request \cup {NULL}]
  BY OneTypes DEF OneInv
<1>3. /\ buffer' = [buffer EXCEPT ![m][p] = cache[b].data[p]]
      /\ req' = [req EXCEPT ![m].parts = @ \ {p}]
      /\ pc' = [pc EXCEPT ![m] = after]
      /\ UNCHANGED <<cache, disk, blk, i>>
  BY DEF Copy, goto
<1>4. cache[b].up_to_date = TRUE /\ i[m] = 0
  BY <1>0 DEF OneInv, Own, reads
<1>5. content' = content
  BY <1>3, ContentSeen
<1>6. content[r.sector] = cache[b].data
  <2>1. Holds(cache, b, r.sector)
    BY <1>1, <1>4 DEF Holds
  <2>2. Once(cache)
    BY DEF OneInv, Media
  <2>3. QED
    BY <1>1, <2>1, <2>2, SeenHeld, ContentSeen
<1>7. buffer' = [buffer EXCEPT ![m][p] = content[req[m].sector][p]]
  BY <1>3, <1>6
<1>8. Store!Read(m, p)
  BY <1>0, <1>1, <1>3, <1>5, <1>7 DEF Store!Read
<1>9. StoreStep
  BY <1>2, <1>8 DEF StoreStep, Store!Next
<1>10. /\ req'[m] = [r EXCEPT !.parts = @ \ {p}] /\ pc'[m] = after /\ blk'[m] = b
  BY <1>2, <1>3
<1>11. /\ req'[m].sector = r.sector /\ req'[m].type = r.type
       /\ req'[m].parts = r.parts \ {p}
  BY <1>1, <1>10 DEF Request
<1>12. req'[m].parts = {} <=> pc'[m] = "unlock"
  BY <1>0, <1>10, <1>11
<1>13. pc'[m] \in {"unlock", "data"}
  BY <1>10
<1> HIDE DEF b, r, after
<1>14. Own(m)'
  <2>1. /\ cache'[blk'[m]].sector = req'[m].sector
        /\ cache'[blk'[m]].up_to_date = TRUE
    BY <1>1, <1>3, <1>4, <1>10, <1>11
  <2>2. req'[m].parts = {} <=> pc'[m] \in {"unlock", "leaving"}
    BY <1>12, <1>13
  <2>3. QED
    BY <1>3, <1>4, <1>13, <2>1, <2>2 DEF Own
<1>15. QED
  BY <1>3, <1>9, <1>14 DEF Serves, OneInv

\* A write of every part does not depend on what was there.
LEMMA OverwriteAll ==
    ASSUME NEW d, NEW e, NEW parts, NEW v, parts = Part \/ d = e
    PROVE  Overwrite(d, parts, v) = Overwrite(e, parts, v)
  BY DEF Overwrite

LEMMA CacheWriteServes ==
    ASSUME NEW m, Client = {m}, OneInv(m), CacheWrite(m)
    PROVE  Serves(m)
<1> DEFINE b == blk[m]
           r == req[m]
           new == Overwrite(cache[b].data, r.parts, r.value)
<1>0. /\ pc[m] = "data" /\ pc[m] \in HasBlock /\ r.type = "EXCLUSIVE"
  BY DEF CacheWrite, HasBlock
<1>1. /\ b \in Block /\ cache[b] \in cache_block /\ r \in Request
      /\ cache[b].sector = r.sector /\ r.sector \in Sector
      /\ r # NULL /\ b # NULL
  BY <1>0, HasTheSector
<1>2. /\ pc \in [Thread -> PC] /\ m \in Thread /\ m \in Client
      /\ req \in [Client -> Request \cup {NULL}] /\ cache \in [Block -> cache_block]
  BY OneTypes DEF OneInv
<1>3. /\ cache' = [cache EXCEPT ![b].up_to_date = TRUE, ![b].dirty = TRUE,
                                ![b].data = Overwrite(@, r.parts, r.value)]
      /\ req' = [req EXCEPT ![m].parts = {}]
      /\ pc' = [pc EXCEPT ![m] = "unlock"]
      /\ UNCHANGED <<disk, blk, buffer, i>>
  BY DEF CacheWrite, goto
<1>4. /\ \A a \in Block : a # b => cache'[a] = cache[a]
      /\ cache'[b] = [cache[b] EXCEPT !.up_to_date = TRUE, !.dirty = TRUE, !.data = new]
  <2>1. cache'[b] = [cache[b] EXCEPT !.up_to_date = TRUE, !.dirty = TRUE,
                                     !.data = Overwrite(@, r.parts, r.value)]
    BY <1>1, <1>2, <1>3
  <2>2. QED
    BY <1>1, <1>2, <1>3, <2>1 DEF cache_block
<1>5. req[m].parts # {} /\ i[m] = 0
  BY <1>0, <1>1 DEF OneInv, Own
<1>6. /\ pc'[m] = "unlock" /\ blk'[m] = b /\ req'[m] = [r EXCEPT !.parts = {}]
  BY <1>2, <1>3
<1>7. req'[m].parts = {} /\ req'[m].sector = r.sector
  BY <1>1, <1>6 DEF Request
<1> HIDE DEF new
<1>8. /\ cache'[b].sector = cache[b].sector /\ cache'[b].up_to_date = TRUE
      /\ cache'[b].dirty = TRUE /\ cache'[b].data = new
  BY <1>1, <1>4 DEF cache_block
<1>9. \A a \in Block : a # b => Same(cache'[a], cache[a])
  BY <1>4 DEF Same
<1>10. /\ Media(cache', disk)
       /\ Seen(cache', disk) = [Seen(cache, disk) EXCEPT ![cache[b].sector] = cache'[b].data]
  <2>1. Media(cache, disk) /\ Stored(cache, cache', b)
    BY <1>1, <1>8, <1>9 DEF OneInv, Stored
  <2>2. QED
    BY <1>1, <2>1, Stores
<1>11. new = Overwrite(content[r.sector], r.parts, r.value)
  <2>1. CASE r.parts = Part
    BY <2>1, OverwriteAll DEF new
  <2>2. CASE r.parts # Part
    <3>1. cache[b].up_to_date = TRUE
      BY <1>0, <2>2 DEF OneInv, Own, reads
    <3>2. Holds(cache, b, r.sector)
      BY <1>1, <3>1 DEF Holds
    <3>3. content[r.sector] = cache[b].data
      BY <1>1, <3>2, SeenHeld, ContentSeen DEF OneInv, Media
    <3>4. QED
      BY <3>3 DEF new
  <2>3. QED
    BY <2>1, <2>2
<1>12. content' = [content EXCEPT ![req[m].sector] =
                     Overwrite(@, req[m].parts, req[m].value)]
  <2>1. content' = [content EXCEPT ![r.sector] = new]
    BY <1>1, <1>3, <1>8, <1>10, ContentSeen
  <2>2. QED
    BY <1>11, <2>1
<1>13. Store!Overwrite(content[req[m].sector], req[m].parts, req[m].value)
          = Overwrite(content[req[m].sector], req[m].parts, req[m].value)
  BY DEF Overwrite, Store!Overwrite
<1>14. Store!Write(m)
  BY <1>0, <1>1, <1>3, <1>5, <1>12, <1>13 DEF Store!Write
<1>15. StoreStep
  BY <1>2, <1>14 DEF StoreStep, Store!Next
<1> HIDE DEF b, r
<1>16. Own(m)'
  <2>1. cache'[blk'[m]].sector = req'[m].sector
    BY <1>1, <1>6, <1>7, <1>8
  <2>2. QED
    BY <1>3, <1>5, <1>6, <1>7, <2>1 DEF Own
<1>17. QED
  BY <1>3, <1>10, <1>15, <1>16 DEF Serves

LEMMA UnlockServes ==
    ASSUME NEW m, Client = {m}, OneInv(m), Unlock(m)
    PROVE  Serves(m)
<1> DEFINE b == blk[m]
<1>0. pc[m] \in {"unlock", "leaving"} /\ pc[m] \in HasBlock
  BY DEF Unlock, UnlockExclusive, UnlockNonExclusive, Leave, HasBlock
<1>1. /\ b \in Block /\ cache[b] \in cache_block /\ req[m] # NULL
      /\ cache[b].sector = req[m].sector
  BY <1>0, HasTheSector
<1>2. /\ pc \in [Thread -> PC] /\ m \in Thread /\ m \in Client
      /\ req \in [Client -> Request \cup {NULL}] /\ cache \in [Block -> cache_block]
      /\ blk \in [Client -> Block \cup {NULL}] /\ i \in [Thread -> 0 .. CACHE_CNT]
  BY OneTypes DEF OneInv
<1>3. req[m].parts = {} /\ i[m] = 0 /\ Media(cache, disk)
  BY <1>0, <1>1 DEF OneInv, Own
<1>4. CASE UnlockNonExclusive(m)
  <2>1. /\ pc' = [pc EXCEPT ![m] = "leaving"] /\ UNCHANGED <<cache, disk, req, buffer, blk, i>>
    BY <1>4 DEF UnlockNonExclusive, goto, call_vars
  <2>2. pc'[m] = "leaving"
    BY <1>2, <2>1
  <2>3. Own(m)'
    BY <1>1, <1>3, <2>1, <2>2 DEF Own
  <2>4. QED
    BY <2>1, <2>3, QuietServes
<1>5. CASE UnlockExclusive(m) \/ Leave(m)
  <2>1. /\ return(m) /\ \A a \in Block : a # b => cache'[a] = cache[a]
        /\ \/ cache' = [cache EXCEPT ![b].writers = @ - 1]
           \/ cache' = [cache EXCEPT ![b].readers = @ - 1]
    BY <1>1, <1>2, <1>5 DEF UnlockExclusive, Leave
  <2>2. Same(cache'[b], cache[b])
    BY <1>1, <1>2, <2>1 DEF cache_block, Same
  <2>3. \A a \in Block : Same(cache'[a], cache[a])
    BY <2>1, <2>2 DEF Same
  <2>4. /\ blk' = [blk EXCEPT ![m] = NULL] /\ req' = [req EXCEPT ![m] = NULL]
        /\ buffer' = [buffer EXCEPT ![m] = [p \in Part |-> Zero]]
        /\ pc' = [pc EXCEPT ![m] = "idle"] /\ UNCHANGED <<disk, i>>
    BY <2>1 DEF return, goto
  <2>5. Media(cache', disk') /\ content' = content
    BY <1>3, <2>3, <2>4, StillStep
  <2>6. Store!Return(m)
    BY <1>1, <1>3, <2>4, <2>5 DEF Store!Return
  <2>7. StoreStep
    BY <1>2, <2>6 DEF StoreStep, Store!Next
  <2>8. pc'[m] = "idle" /\ req'[m] = NULL /\ blk'[m] = NULL /\ i'[m] = i[m]
    BY <1>2, <2>4
  <2>9. Own(m)'
    BY <1>3, <2>8 DEF Own
  <2>10. QED
    BY <2>5, <2>7, <2>9 DEF Serves
<1>6. QED
  BY <1>4, <1>5 DEF Unlock

LEMMA FlushServes ==
    ASSUME NEW m, Client = {m}, OneInv(m), CacheFlush(m) \/ Flush(m)
    PROVE  Serves(m)
<1>0. /\ pc \in [Thread -> PC] /\ m \in Thread /\ cache \in [Block -> cache_block]
      /\ i \in [Thread -> 0 .. CACHE_CNT] /\ CACHE_CNT \in Nat /\ i[m] \in 0 .. CACHE_CNT
      /\ req[m] # NULL <=> pc[m] \in Calling
      /\ blk[m] # NULL <=> pc[m] \in HasBlock
      /\ disk \in [Sector -> Content]
  BY OneTypes DEF OneInv
<1>1. pc[m] \in {"idle", "flush_sync", "flush"}
  BY DEF CacheFlush, Flush, FlushSync, FlushBlock, FlushEnd
<1>2. req[m] = NULL /\ blk[m] = NULL
  BY <1>0, <1>1 DEF Calling, HasBlock
<1>3. CASE CacheFlush(m)
  <2>1. /\ pc[m] = "idle" /\ pc' = [pc EXCEPT ![m] = "flush_sync"]
        /\ UNCHANGED <<cache, disk, req, buffer, blk, i>>
    BY <1>3 DEF CacheFlush, goto, call_vars
  <2>2. pc'[m] = "flush_sync" /\ i'[m] = 0
    BY <1>0, <2>1 DEF OneInv, Own
  <2>3. Own(m)'
    BY <1>2, <2>1, <2>2 DEF Own
  <2>4. QED
    BY <2>1, <2>3, QuietServes
<1>4. CASE FlushSync(m)
  <2>1. /\ pc[m] = "flush_sync" /\ pc' = [pc EXCEPT ![m] = "flush"]
        /\ UNCHANGED <<cache, disk, req, buffer, blk, i>>
    BY <1>4 DEF FlushSync, goto, call_vars
  <2>2. pc'[m] = "flush" /\ i'[m] = 0
    BY <1>0, <2>1 DEF OneInv, Own
  <2>3. \A b \in Block : ~(b < 0)
    BY DEF Block
  <2>4. Own(m)'
    BY <1>2, <2>1, <2>2, <2>3 DEF Own
  <2>5. QED
    BY <2>1, <2>4, QuietServes
<1>5. CASE FlushEnd(m)
  <2>1. /\ pc' = [pc EXCEPT ![m] = "idle"] /\ i' = [i EXCEPT ![m] = 0]
        /\ UNCHANGED <<cache, disk, req, buffer, blk>>
    BY <1>5 DEF FlushEnd, goto, call_vars
  <2>2. pc'[m] = "idle" /\ i'[m] = 0
    BY <1>0, <2>1
  <2>3. Own(m)'
    BY <1>2, <2>1, <2>2 DEF Own
  <2>4. QED
    BY <2>1, <2>3, QuietServes
<1>6. CASE FlushBlock(m)
  <2> DEFINE b == i[m]
  <2>1. /\ pc[m] = "flush" /\ i[m] < CACHE_CNT
        /\ disk' = written(cache[b]) /\ cache' = [cache EXCEPT ![b] = flush_block(@)]
        /\ i' = [i EXCEPT ![m] = @ + 1] /\ UNCHANGED <<pc, req, buffer, blk>>
    BY <1>6 DEF FlushBlock, call_vars
  <2>2. b \in Block /\ cache[b] \in cache_block /\ i'[m] = b + 1 /\ pc'[m] = "flush"
    BY <1>0, <2>1 DEF Block
  <2>3. /\ \A a \in Block : a # b => cache'[a] = cache[a]
        /\ cache'[b] = flush_block(cache[b])
    BY <1>0, <2>1, <2>2
  <2>4. /\ \A a \in Block : a < b => cache[a].dirty = FALSE
        /\ Media(cache, disk) /\ Sound(cache[b], disk)
    BY <2>1, <2>2 DEF OneInv, Own, Media
  <2> HIDE DEF b
  <2>5. cache'[b].dirty = FALSE /\ Media(cache', disk') /\ Seen(cache', disk') = Seen(cache, disk)
    <3>1. CASE must_write(cache[b])
      <4>1. /\ cache'[b].sector = INVALID_SECTOR /\ cache'[b].up_to_date = FALSE
            /\ cache'[b].dirty = FALSE
            /\ cache[b].dirty = TRUE /\ cache[b].sector # INVALID_SECTOR
        <5>1. cache'[b] = flush_block(cache[b])
          BY <2>3
        <5>2. /\ flush_block(cache[b]).sector = INVALID_SECTOR
              /\ flush_block(cache[b]).up_to_date = FALSE
              /\ flush_block(cache[b]).dirty = FALSE
              /\ cache[b].dirty = TRUE /\ cache[b].sector # INVALID_SECTOR
          BY <2>2, <3>1, FlushFields
        <5>3. QED
          BY <5>1, <5>2
      <4>2. disk' = [disk EXCEPT ![cache[b].sector] = cache[b].data]
        BY <2>1, <3>1 DEF written
      <4>3. \A a \in Block : a # b => Same(cache'[a], cache[a])
        BY <2>3 DEF Same
      <4>4. Emptied(cache, disk, cache', disk', b)
        BY <4>1, <4>2, <4>3 DEF Emptied
      <4>5. QED
        BY <1>0, <2>2, <2>4, <4>1, <4>4, Empties
    <3>2. CASE ~ must_write(cache[b])
      <4>1. cache'[b] = cache[b] /\ disk' = disk
        BY <2>1, <2>2, <2>3, <3>2, FlushFields DEF written
      <4>2. \A a \in Block : Same(cache'[a], cache[a])
        BY <2>3, <4>1 DEF Same
      <4>3. cache[b].dirty \in BOOLEAN
        BY <2>2 DEF cache_block
      <4>4. ~(cache[b].dirty = TRUE /\ cache[b].sector # INVALID_SECTOR)
        BY <2>2, <3>2, FlushFields
      <4>5. cache[b].dirty = FALSE
        BY <2>4, <4>3, <4>4 DEF Sound
      <4>6. Media(cache', disk') /\ Seen(cache', disk') = Seen(cache, disk)
        BY <2>4, <4>1, <4>2, Unchanging
      <4>7. QED
        BY <4>1, <4>5, <4>6
    <3>3. QED
      BY <3>1, <3>2
  <2>6. \A a \in Block : a < i'[m] => cache'[a].dirty = FALSE
    <3>1. \A a \in Block : a < i'[m] => a = b \/ a < b
      BY <2>2 DEF Block
    <3>2. QED
      BY <2>3, <2>4, <2>5, <3>1
  <2>7. Own(m)'
    BY <1>2, <2>1, <2>2, <2>6 DEF Own
  <2>8. StoreStep
    BY <2>1, <2>5, ContentSeen DEF StoreStep
  <2>9. QED
    BY <2>5, <2>7, <2>8 DEF Serves
<1>7. QED
  BY <1>3, <1>4, <1>5, <1>6 DEF Flush

\* Every step of the only client keeps the invariant and is one of the store.
LEMMA OneStep ==
    ASSUME NEW m, Client = {m}, Flushd = {}, OneInv(m), [Next]_vars
    PROVE  OneInv(m)' /\ StoreStep
<1>1. IInv'
  BY IInvStep DEF OneInv
<1>2. ASSUME UNCHANGED vars PROVE Serves(m)
  <2>1. UNCHANGED <<cache, disk, pc, req, buffer, blk, i>>
    BY <1>2 DEF vars, call_vars
  <2>2. Own(m)'
    BY <2>1 DEF OneInv, Own, reads
  <2>3. QED
    BY <2>1, <2>2, QuietServes
<1>3. ASSUME NEW c \in Client, CacheLock(c) PROVE Serves(m)
  BY <1>1, <1>3, SyncServes, InCacheServes, FindEmptyServes, TryToEmptyServes DEF CacheLock
<1>4. ASSUME NEW c \in Client, Transfer(c) PROVE Serves(m)
  BY <1>4, CacheReadServes, CacheWriteServes, CopyServes DEF Transfer
<1>5. ASSUME NEW c \in Client, Unlock(c) PROVE Serves(m)
  BY <1>5, UnlockServes
<1>6. ASSUME NEW t \in Thread, CacheFlush(t) \/ Flush(t) PROVE Serves(m)
  <2>1. t = m
    BY DEF Thread
  <2>2. QED
    BY <1>6, <2>1, FlushServes
<1>7. ASSUME NEW c \in Client, NEW r \in Request, FullIO(c, r) PROVE Serves(m)
  BY <1>7, CallServes
<1>8. Serves(m)
  BY <1>2, <1>3, <1>4, <1>5, <1>6, <1>7 DEF Next, Panic
<1>9. QED
  BY <1>1, <1>8 DEF Serves, OneInv

LEMMA OneInit ==
    ASSUME NEW m, Client = {m}, Init
    PROVE  OneInv(m) /\ Store!Init
<1>1. m \in Client /\ m \in Thread /\ INVALID_SECTOR \notin Sector
  BY CacheAssumption DEF Thread
<1>2. \A b \in Block : /\ cache[b].sector = INVALID_SECTOR /\ cache[b].up_to_date = FALSE
                       /\ cache[b].dirty = FALSE
  BY DEF Init
<1>3. Media(cache, disk)
  BY <1>2 DEF Media, Once, Sound
<1>4. pc[m] = "idle" /\ i[m] = 0 /\ blk[m] = NULL /\ req[m] = NULL
  BY <1>1 DEF Init
<1>5. Own(m)
  BY <1>4 DEF Own
<1>6. \A s \in Sector : Seen(cache, disk)[s] = disk[s]
  <2>1. \A b \in Block, s \in Sector : ~ Holds(cache, b, s)
    BY <1>1, <1>2 DEF Holds
  <2>2. QED
    BY <2>1, SeenFree
<1>7. disk \in [Sector -> Content]
  BY DEF Init
<1>8. Seen(cache, disk) = [s \in Sector |-> Seen(cache, disk)[s]]
  BY DEF Seen
<1>9. content \in [Sector -> Store!Content]
  <2>1. content = [s \in Sector |-> Seen(cache, disk)[s]]
    BY <1>8, ContentSeen
  <2>2. Store!Content = Content
    BY DEF Store!Content, Content
  <2>3. QED
    BY <1>6, <1>7, <2>1, <2>2
<1>10. Store!Init
  BY <1>9 DEF Init, Store!Init
<1>11. QED
  BY <1>3, <1>5, <1>10, IInvInit DEF OneInv

\* Through hits, misses, evictions, whole and partial writes and flushes, an
\* only client of full_read() and full_write() sees the sectors as if there
\* were no cache, for any number of blocks, sectors, parts and values.
THEOREM CacheTransparent ==
    ASSUME NEW m, Client = {m}, Flushd = {}
    PROVE  Spec => ImplementsStore
<1>1. Init => OneInv(m) /\ Store!Init
  BY OneInit
<1>2. OneInv(m) /\ [Next]_vars => OneInv(m)' /\ StoreStep
  BY OneStep
<1>3. QED
  BY <1>1, <1>2, PTL DEF Spec, ImplementsStore, Store!Spec, StoreStep

\* And when its cache_flush() returns, the disk holds what it wrote: no block
\* is dirty, since nobody else wrote to one that the flush had passed.
THEOREM FlushComplete ==
    ASSUME NEW m, Client = {m}, Flushd = {}
    PROVE  Spec => FlushSaves
<1>1. Init => OneInv(m)
  BY OneInit
<1>2. OneInv(m) /\ [Next]_vars => OneInv(m)'
  BY OneStep
<1>3. OneInv(m) => \A t \in Thread : FlushEnd(t) => disk = content
  <2> SUFFICES ASSUME OneInv(m), NEW t \in Thread, FlushEnd(t) PROVE disk = content
    OBVIOUS
  <2>1. t = m /\ pc[m] = "flush" /\ i[m] = CACHE_CNT
    BY DEF Thread, FlushEnd
  <2>2. /\ disk \in [Sector -> Content] /\ cache \in [Block -> cache_block]
        /\ CACHE_CNT \in Nat
    BY OneTypes DEF OneInv
  <2>3. \A b \in Block : cache[b].dirty = FALSE
    BY <2>1, <2>2 DEF OneInv, Own, Block
  <2>4. ASSUME NEW s \in Sector PROVE Seen(cache, disk)[s] = disk[s]
    <3>1. CASE \E b \in Block : Holds(cache, b, s)
      <4>1. PICK b \in Block : Holds(cache, b, s)
        BY <3>1
      <4>2. Seen(cache, disk)[s] = cache[b].data
        BY <4>1, SeenHeld DEF OneInv, Media
      <4>3. cache[b].up_to_date = TRUE /\ cache[b].sector = s
        <5>1. cache[b].up_to_date \in BOOLEAN
          BY <2>2 DEF cache_block
        <5>2. QED
          BY <4>1, <5>1 DEF Holds
      <4>4. Sound(cache[b], disk)
        BY DEF OneInv, Media
      <4>5. cache[b].data = disk[s]
        BY <2>3, <4>3, <4>4 DEF Sound
      <4>6. QED
        BY <4>2, <4>5
    <3>2. CASE \A b \in Block : ~ Holds(cache, b, s)
      BY <3>2, SeenFree
    <3>3. QED
      BY <3>1, <3>2
  <2>5. Seen(cache, disk) = disk
    <3>1. Seen(cache, disk) = [s \in Sector |-> Seen(cache, disk)[s]]
      BY DEF Seen
    <3>2. QED
      BY <2>2, <2>4, <3>1
  <2>6. QED
    BY <2>5, ContentSeen
<1>4. QED
  BY <1>1, <1>2, <1>3, PTL DEF Spec, FlushSaves
=============================================================================
