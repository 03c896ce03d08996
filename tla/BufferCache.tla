----------------------------- MODULE BufferCache -----------------------------
(***************************************************************************)
(* The buffer cache of filesys/cache.c: CACHE_CNT blocks, found, filled    *)
(* and evicted under cache_sync, each with a block_lock that an exclusive  *)
(* user keeps, counts of its users, and the contents of one sector.        *)
(*                                                                         *)
(* Clients call full_read() and full_write(), main() also cache_flush();   *)
(* flushd only calls cache_flush().  The scans of cache_lock() and         *)
(* cache_flush() take a step per block, because users unlock blocks        *)
(* without cache_sync; what happens to one block under its block_lock or   *)
(* its data_lock is one step.  No caller holds a block_lock when it enters *)
(* cache_lock(), so lock_held_by_current_thread() is false in the scans.   *)
(***************************************************************************)
EXTENDS Integers, FiniteSets

CONSTANTS
    Client,      \* threads in the file system, main() among them
    Flushd,      \* {flushd}, or {} where its half minute has not passed
    CACHE_CNT,
    Sector,
    Part,        \* the ranges of a sector that a call may transfer
    Value,
    Zero,        \* what static memory holds
    INVALID_SECTOR,
    NULL

Thread  == Client \cup Flushd
Block   == 0 .. CACHE_CNT - 1
Content == [Part -> Value]
Type    == {"NON_EXCLUSIVE", "EXCLUSIVE"}
Request == [type : Type, sector : Sector, parts : SUBSET Part, value : Value]

ASSUME CacheAssumption ==
    /\ CACHE_CNT \in Nat \ {0}
    /\ IsFiniteSet(Client)
    /\ Client \cap Flushd = {}
    /\ NULL \notin Thread \cup Block \cup Request
    /\ INVALID_SECTOR \notin Sector
    /\ Zero \in Value


VARIABLES
    cache,       \* the blocks
    block_lock,  \* the thread that holds each block's lock, or NULL
    cache_sync,  \* the thread that holds the cache's lock, or NULL
    hand,
    disk,
    pc,
    req,         \* the call a client is in; parts are those still to do
    blk,         \* the block cache_lock() returned to it
    i,           \* the index of the scan it is in, or hand_start
    buffer,      \* what its full_read() has copied so far
    panicked

lock_vars == <<block_lock, cache_sync, hand>>
call_vars == <<req, buffer>>
vars == <<cache, lock_vars, disk, pc, call_vars, blk, i, panicked>>

cache_block == [sector : Sector \cup {INVALID_SECTOR}, up_to_date : BOOLEAN,
                dirty : BOOLEAN, data : Content, readers : Nat, writers : Nat]

PC == {"idle", "sync", "in_cache", "find_empty", "evict", "evict_wrap",
       "locked", "data", "unlock", "leaving", "flush_sync", "flush"}

TypeOK ==
    /\ cache \in [Block -> cache_block]
    /\ block_lock \in [Block -> Client \cup {NULL}]
    /\ cache_sync \in Thread \cup {NULL}
    /\ hand \in 0 .. CACHE_CNT
    /\ disk \in [Sector -> Content]
    /\ pc \in [Thread -> PC]
    /\ req \in [Client -> Request \cup {NULL}]
    /\ blk \in [Client -> Block \cup {NULL}]
    /\ i \in [Thread -> 0 .. CACHE_CNT]
    /\ buffer \in [Client -> Content]
    /\ panicked \in BOOLEAN

goto(t, p) == pc' = [pc EXCEPT ![t] = p]

(***************************************************************************)
(* Operations on one block.                                                *)
(***************************************************************************)
\* Mutant: the stale contents still count as up to date.
clear_block_stale(cb) == [cb EXCEPT !.sector = INVALID_SECTOR, !.dirty = FALSE]

clear_block(cb) ==
    [cb EXCEPT !.sector = INVALID_SECTOR, !.up_to_date = FALSE, !.dirty = FALSE]

must_write(cb) == cb.dirty /\ cb.sector # INVALID_SECTOR
flush_block(cb) == IF must_write(cb) THEN clear_block(cb) ELSE cb
written(cb) == IF must_write(cb) THEN [disk EXCEPT ![cb.sector] = cb.data] ELSE disk

add_lock(cb, type) ==
    IF type = "EXCLUSIVE" THEN [cb EXCEPT !.writers = @ + 1]
                          ELSE [cb EXCEPT !.readers = @ + 1]

(***************************************************************************)
(* cache_lock(): under cache_sync look for the sector, then for an empty   *)
(* block, then for one to evict from the hand on; else sleep and retry.    *)
(***************************************************************************)

\* full_read() and full_write() up to the call of cache_lock().
FullIO(c, r) ==
    /\ pc[c] = "idle"
    /\ r.parts # {} /\ (r.type = "NON_EXCLUSIVE" => r.value = Zero)
    /\ req' = [req EXCEPT ![c] = r]
    /\ goto(c, "sync")
    /\ UNCHANGED <<cache, lock_vars, disk, blk, i, buffer, panicked>>

CacheSync(c) ==
    /\ pc[c] = "sync"
    /\ cache_sync = NULL
    /\ cache_sync' = c
    /\ i' = [i EXCEPT ![c] = 0]
    /\ goto(c, "in_cache")
    /\ UNCHANGED <<cache, block_lock, hand, disk, call_vars, blk, panicked>>

\* Mutant: block_lock is released for every kind of lock.
grant_shared(c, b, cb) ==
    /\ cache' = [cache EXCEPT ![b] = add_lock([cb EXCEPT !.sector = req[c].sector],
                                              req[c].type)]
    /\ cache_sync' = NULL
    /\ blk' = [blk EXCEPT ![c] = b]
    /\ i' = [i EXCEPT ![c] = 0]
    /\ goto(c, "locked")
    /\ UNCHANGED <<block_lock, call_vars, panicked>>

\* cache_lock() returns block b, as cb, with the lock the caller wants.
grant(c, b, cb) ==
    /\ cache' = [cache EXCEPT ![b] = add_lock([cb EXCEPT !.sector = req[c].sector],
                                              req[c].type)]
    /\ block_lock' = [block_lock EXCEPT ![b] =
                        IF req[c].type = "EXCLUSIVE" THEN c ELSE NULL]
    /\ cache_sync' = NULL
    /\ blk' = [blk EXCEPT ![c] = b]
    /\ i' = [i EXCEPT ![c] = 0]
    /\ goto(c, "locked")
    /\ UNCHANGED <<call_vars, panicked>>

\* The loop of in_cache() and of find_empty(): the first block whose
\* block_lock is free and that caches s, or else on to phase next.
scan(c, s, next) ==
    /\ \/ /\ i[c] < CACHE_CNT
          /\ block_lock[i[c]] = NULL /\ cache[i[c]].sector = s
          /\ grant(c, i[c], cache[i[c]])
          /\ UNCHANGED hand
       \/ /\ i[c] < CACHE_CNT
          /\ ~(block_lock[i[c]] = NULL /\ cache[i[c]].sector = s)
          /\ i' = [i EXCEPT ![c] = @ + 1]
          /\ UNCHANGED <<cache, lock_vars, pc, blk, call_vars, panicked>>
       \/ /\ i[c] = CACHE_CNT
          /\ i' = [i EXCEPT ![c] = IF next = "evict" THEN hand ELSE 0]
          /\ goto(c, next)
          /\ UNCHANGED <<cache, lock_vars, blk, call_vars, panicked>>
    /\ UNCHANGED disk

InCache(c)   == pc[c] = "in_cache" /\ scan(c, req[c].sector, "find_empty")
FindEmpty(c) == pc[c] = "find_empty" /\ scan(c, INVALID_SECTOR, "evict")

\* Mutant: readers do not keep a block from being evicted.
evictable_read(b) == block_lock[b] = NULL /\ cache[b].writers = 0

evictable(b) ==
    block_lock[b] = NULL /\ cache[b].readers = 0 /\ cache[b].writers = 0

\* One turn of a loop of try_to_empty(): the hand stays on its victim.
evict(c) ==
    \/ /\ evictable(hand)
       /\ disk' = written(cache[hand])
       /\ grant(c, hand, [flush_block(cache[hand]) EXCEPT !.up_to_date = FALSE])
       /\ UNCHANGED hand
    \/ /\ ~evictable(hand)
       /\ hand' = hand + 1
       /\ UNCHANGED <<cache, block_lock, cache_sync, disk, pc, blk, i, call_vars, panicked>>

\* Mutant: the hand is not reset between the loops.
TryToEmpty_nowrap(c) ==
    /\ pc[c] = "evict"
    /\ \/ hand < CACHE_CNT /\ evict(c)
       \/ /\ hand = CACHE_CNT
          /\ goto(c, "evict_wrap")
          /\ UNCHANGED <<cache, lock_vars, disk, blk, i, call_vars, panicked>>

TryToEmpty(c) ==
    /\ pc[c] = "evict"
    /\ \/ hand < CACHE_CNT /\ evict(c)
       \/ /\ hand = CACHE_CNT
          /\ hand' = 0
          /\ goto(c, "evict_wrap")
          /\ UNCHANGED <<cache, block_lock, cache_sync, disk, blk, i, call_vars, panicked>>

\* The second loop; when it fails too, cache_lock() sleeps and tries again.
TryToEmptyWrap(c) ==
    /\ pc[c] = "evict_wrap"
    /\ \/ hand < i[c] /\ evict(c)
       \/ /\ hand >= i[c]
          /\ cache_sync' = NULL
          /\ i' = [i EXCEPT ![c] = 0]
          /\ goto(c, "sync")
          /\ UNCHANGED <<cache, block_lock, hand, disk, blk, call_vars, panicked>>

(***************************************************************************)
(* The rest of full_read() and full_write().                               *)
(***************************************************************************)

\* A write of the whole sector does not read it first.
reads(r) == r.type = "NON_EXCLUSIVE" \/ r.parts # Part

CacheRead(c) ==
    LET b == blk[c]
    IN  /\ pc[c] = "locked"
        /\ goto(c, "data")
        /\ \/ /\ ~reads(req[c]) \/ cache[b].up_to_date
              /\ UNCHANGED <<cache, panicked>>
           \/ /\ reads(req[c]) /\ ~cache[b].up_to_date
              /\ IF cache[b].sector = INVALID_SECTOR
                   THEN panicked' = TRUE /\ UNCHANGED cache
                   ELSE /\ cache' = [cache EXCEPT ![b].up_to_date = TRUE,
                                                  ![b].data = disk[cache[b].sector]]
                        /\ UNCHANGED panicked
        /\ UNCHANGED <<lock_vars, disk, call_vars, blk, i>>

\* full_read() copies from the block without its data_lock.
Copy(c, p) ==
    /\ pc[c] = "data"
    /\ req[c].type = "NON_EXCLUSIVE"
    /\ p \in req[c].parts
    /\ buffer' = [buffer EXCEPT ![c][p] = cache[blk[c]].data[p]]
    /\ req' = [req EXCEPT ![c].parts = @ \ {p}]
    /\ goto(c, IF req[c].parts = {p} THEN "unlock" ELSE "data")
    /\ UNCHANGED <<cache, lock_vars, disk, blk, i, panicked>>

Overwrite(d, parts, v) == [p \in Part |-> IF p \in parts THEN v ELSE d[p]]

CacheWrite(c) ==
    /\ pc[c] = "data"
    /\ req[c].type = "EXCLUSIVE"
    /\ cache' = [cache EXCEPT ![blk[c]].up_to_date = TRUE,
                              ![blk[c]].dirty = TRUE,
                              ![blk[c]].data = Overwrite(@, req[c].parts, req[c].value)]
    /\ req' = [req EXCEPT ![c].parts = {}]
    /\ goto(c, "unlock")
    /\ UNCHANGED <<lock_vars, disk, blk, i, buffer, panicked>>

\* The call returns.
return(c) ==
    /\ block_lock' = [block_lock EXCEPT ![blk[c]] = NULL]
    /\ blk' = [blk EXCEPT ![c] = NULL]
    /\ req' = [req EXCEPT ![c] = NULL]
    /\ buffer' = [buffer EXCEPT ![c] = [p \in Part |-> Zero]]
    /\ goto(c, "idle")
    /\ UNCHANGED <<cache_sync, hand, disk, i, panicked>>

\* Mutant: an exclusive lock is uncounted as a reader.
UnlockExclusive_reader(c) ==
    /\ pc[c] = "unlock"
    /\ block_lock[blk[c]] = c
    /\ cache' = [cache EXCEPT ![blk[c]].readers = @ - 1]
    /\ return(c)

\* cache_unlock() of an exclusive lock, whose holder has block_lock.
UnlockExclusive(c) ==
    /\ pc[c] = "unlock"
    /\ block_lock[blk[c]] = c
    /\ cache' = [cache EXCEPT ![blk[c]].writers = @ - 1]
    /\ return(c)

\* Of a non-exclusive one: take block_lock, count down, release it.
UnlockNonExclusive(c) ==
    /\ pc[c] = "unlock"
    /\ block_lock[blk[c]] = NULL
    /\ block_lock' = [block_lock EXCEPT ![blk[c]] = c]
    /\ goto(c, "leaving")
    /\ UNCHANGED <<cache, cache_sync, hand, disk, call_vars, blk, i, panicked>>

\* Mutant: the reader is not uncounted.
Leave_counted(c) ==
    /\ pc[c] = "leaving"
    /\ return(c)
    /\ UNCHANGED cache

Leave(c) ==
    /\ pc[c] = "leaving"
    /\ cache' = [cache EXCEPT ![blk[c]].readers = @ - 1]
    /\ return(c)

(***************************************************************************)
(* cache_flush(), by main() or by flushd.                                  *)
(***************************************************************************)
CacheFlush(t) ==
    /\ pc[t] = "idle"
    /\ goto(t, "flush_sync")
    /\ UNCHANGED <<cache, lock_vars, disk, call_vars, blk, i, panicked>>

FlushSync(t) ==
    /\ pc[t] = "flush_sync"
    /\ cache_sync = NULL
    /\ cache_sync' = t
    /\ goto(t, "flush")
    /\ UNCHANGED <<cache, block_lock, hand, disk, call_vars, blk, i, panicked>>

\* Mutant: the flush stops after one block.
FlushBlock_first(t) ==
    /\ pc[t] = "flush"
    /\ i[t] < CACHE_CNT
    /\ disk' = written(cache[i[t]])
    /\ cache' = [cache EXCEPT ![i[t]] = flush_block(@)]
    /\ i' = [i EXCEPT ![t] = CACHE_CNT]
    /\ UNCHANGED <<lock_vars, pc, call_vars, blk, panicked>>

FlushBlock(t) ==
    /\ pc[t] = "flush"
    /\ i[t] < CACHE_CNT
    /\ disk' = written(cache[i[t]])
    /\ cache' = [cache EXCEPT ![i[t]] = flush_block(@)]
    /\ i' = [i EXCEPT ![t] = @ + 1]
    /\ UNCHANGED <<lock_vars, pc, call_vars, blk, panicked>>

FlushEnd(t) ==
    /\ pc[t] = "flush"
    /\ i[t] = CACHE_CNT
    /\ cache_sync' = NULL
    /\ i' = [i EXCEPT ![t] = 0]
    /\ goto(t, "idle")
    /\ UNCHANGED <<cache, block_lock, hand, disk, call_vars, blk, panicked>>

\* cache_init()
Init ==
    /\ cache = [b \in Block |-> [sector |-> INVALID_SECTOR, up_to_date |-> FALSE,
                                 dirty |-> FALSE, data |-> [p \in Part |-> Zero],
                                 readers |-> 0, writers |-> 0]]
    /\ block_lock = [b \in Block |-> NULL]
    /\ cache_sync = NULL
    /\ hand = 0
    /\ disk \in [Sector -> Content]
    /\ pc = [t \in Thread |-> "idle"]
    /\ req = [c \in Client |-> NULL]
    /\ blk = [c \in Client |-> NULL]
    /\ i = [t \in Thread |-> 0]
    /\ buffer = [c \in Client |-> [p \in Part |-> Zero]]
    /\ panicked = FALSE

CacheLock(c) == \/ CacheSync(c) \/ InCache(c) \/ FindEmpty(c)
                \/ TryToEmpty(c) \/ TryToEmptyWrap(c)
Transfer(c)  == CacheRead(c) \/ CacheWrite(c) \/ \E p \in Part : Copy(c, p)
Unlock(c)    == UnlockExclusive(c) \/ UnlockNonExclusive(c) \/ Leave(c)
Flush(t)     == FlushSync(t) \/ FlushBlock(t) \/ FlushEnd(t)

\* PANIC() leaves the machine in an endless loop.
Panic == panicked /\ UNCHANGED vars

Next ==
    \/ /\ ~panicked
       /\ \/ \E c \in Client, r \in Request : FullIO(c, r)
          \/ \E c \in Client : CacheLock(c) \/ Transfer(c) \/ Unlock(c)
          \/ \E t \in Thread : CacheFlush(t) \/ Flush(t)
    \/ Panic

Spec == Init /\ [][Next]_vars

\* A thread inside a call runs on, as the scheduler and the timer ensure.
FairSpec ==
    /\ Spec
    /\ \A c \in Client : WF_vars(~panicked /\ (CacheLock(c) \/ Transfer(c) \/ Unlock(c)))
    /\ \A t \in Thread : WF_vars(~panicked /\ Flush(t))

-----------------------------------------------------------------------------
Users(b) == {c \in Client : blk[c] = b}
Writers(b) == {c \in Users(b) : req[c].type = "EXCLUSIVE"}

\* The counts of a block are the clients that have it locked, although they
\* count down without cache_sync and flushes pass over it.
CountsMatch ==
    \A b \in Block : /\ cache[b].writers = Cardinality(Writers(b))
                     /\ cache[b].readers = Cardinality(Users(b) \ Writers(b))

\* Readers may share a block, also with a writer, but two writers never do.
OneWriter == \A b \in Block : Cardinality(Writers(b)) <= 1

\* A block is reused for another sector only when nobody has it locked.
EvictsUnused ==
    [][\A b \in Block : /\ cache[b].sector # INVALID_SECTOR
                        /\ cache'[b].sector \notin {cache[b].sector, INVALID_SECTOR}
                        => Users(b) = {}]_vars

\* Clients take one block each, so with at least as many blocks as clients
\* cache_lock() never has to sleep.
NoContention ==
    Cardinality(Client) <= CACHE_CNT =>
        \A c \in Client : ~(pc[c] = "evict_wrap" /\ hand >= i[c])

\* A client that sleeps in cache_lock() because every block is in use gets one
\* once the others have left the cache: they leave no block locked or counted.
Served ==
    \A c \in Client :
        <>[](\A d \in Thread \ {c} : pc[d] = "idle")
            => (pc[c] = "sync" ~> pc[c] = "locked" \/ panicked)

(***************************************************************************)
(* What the sectors hold, as seen through the cache.                       *)
(***************************************************************************)
Cached(b, s) == cache[b].sector = s /\ cache[b].up_to_date
content == [s \in Sector |->
              IF \E b \in Block : Cached(b, s)
                THEN cache[CHOOSE b \in Block : Cached(b, s)].data
                ELSE disk[s]]
Store == INSTANCE SectorStore

\* With one client the cache is transparent: reads return what was last
\* written, through hits, misses, evictions, partial writes and flushes.
ImplementsStore == Store!Spec

\* When cache_flush() returns to its only client, the disk holds everything.
FlushSaves == [][\A t \in Thread : FlushEnd(t) => disk = content]_vars

\* "If TYPE is EXCLUSIVE, then the block returned will be locked only by the
\* caller" (cache_lock).
ExclusiveAlone == \A b \in Block : Writers(b) # {} => Cardinality(Users(b)) = 1

\* "Not in cache.  Find empty slot." (cache_lock): in_cache() misses only
\* sectors that no block caches.
MissMeansAbsent ==
    \A c \in Client : pc[c] \in {"find_empty", "evict", "evict_wrap"} =>
        \A b \in Block : cache[b].sector # req[c].sector

\* "Locks the given SECTOR into the cache" (cache_lock): it stays in the block
\* while the client that locked it still has data to transfer.
LockedStays ==
    \A c \in Client :
        blk[c] # NULL /\ req[c].parts # {} => cache[blk[c]].sector = req[c].sector

-----------------------------------------------------------------------------
(***************************************************************************)
(* The parts of the inductive invariant besides TypeOK and CountsMatch.    *)
(***************************************************************************)
HasBlock == {"locked", "data", "unlock", "leaving"}
Calling  == {"sync", "in_cache", "find_empty", "evict", "evict_wrap"} \cup HasBlock

\* A client has a request while it is in full_read() or full_write(), and a
\* block from the return of cache_lock() to the end of cache_unlock().
CallInv ==
    \A c \in Client : /\ req[c] # NULL <=> pc[c] \in Calling
                      /\ blk[c] # NULL <=> pc[c] \in HasBlock
                      /\ pc[c] = "leaving" => req[c].type = "NON_EXCLUSIVE"

\* block_lock is kept by exclusive users, and by others while they uncount
\* themselves.
BlockLockInv ==
    \A b \in Block, c \in Client :
        block_lock[b] = c <=> /\ blk[c] = b
                              /\ req[c].type = "EXCLUSIVE" \/ pc[c] = "leaving"

\* cache_sync is held during the scans of cache_lock() and cache_flush().
SyncInv ==
    \A t \in Thread :
        pc[t] \in {"in_cache", "find_empty", "evict", "evict_wrap", "flush"} => cache_sync = t

\* The blocks try_to_empty() has still to try, and the number it has passed.
Ahead(c) == IF pc[c] = "evict" THEN (hand .. CACHE_CNT - 1) \cup (0 .. i[c] - 1)
                               ELSE hand .. i[c] - 1
Passed(c) == IF pc[c] = "evict" THEN hand - i[c] ELSE (CACHE_CNT - i[c]) + hand

\* Each block that try_to_empty() passed was in use, by a client that can get
\* no other while the scan has cache_sync: those passed and the clients with a
\* block ahead are together fewer than the clients.
EvictInv ==
    \A c \in Client : pc[c] \in {"evict", "evict_wrap"} =>
        /\ IF pc[c] = "evict" THEN i[c] <= hand ELSE hand <= i[c]
        /\ Passed(c) + Cardinality({d \in Client : blk[d] \in Ahead(c)}) < Cardinality(Client)
=============================================================================
