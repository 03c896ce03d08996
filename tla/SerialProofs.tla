---------------------------- MODULE SerialProofs ----------------------------
(***************************************************************************)
(* Proofs about module Serial: its types, that no thread sleeps in a queue *)
(* it could use, that the interrupt enable register follows the queues,    *)
(* and that each ring buffer implements a bounded queue, for any buffer    *)
(* size and any numbers of readers and writers.                            *)
(***************************************************************************)
EXTENDS Serial, SequenceTheorems, TLAPS

SleepInv == SleepsForCause /\ HasLock /\ WaiterWaits /\ LockWaitersSleep
IInv == TypeOK /\ SleepInv /\ IerTracksQueues

\* Positions stay inside the buffer.
LEMMA NextPos ==
    ASSUME NEW pos \in Pos
    PROVE  next(pos) \in Pos
  BY SerialAssumption DEF next, Pos

\* A thread uses one queue.
LEMMA QueueOf ==
    ASSUME NEW t \in Thread
    PROVE  queue(t) \in Queue /\ t # NULL
  BY SerialAssumption DEF queue, Queue

(***************************************************************************)
(* The list of a queue's lock.                                             *)
(***************************************************************************)

\* It stays right if it does not change and nobody on it is woken.
LEMMA ListKept ==
    ASSUME TypeOK, LockWaitersSleep, lock_waiters' = lock_waiters,
           \A t \in Thread : pc[t] = "lock_sleep" => pc'[t] = "lock_sleep"
    PROVE  LockWaitersSleep'
<1> SUFFICES ASSUME NEW q \in Queue, NEW m \in 1 .. Len(lock_waiters[q])
             PROVE  /\ pc'[lock_waiters[q][m]] = "lock_sleep"
                    /\ queue(lock_waiters[q][m]) = q
                    /\ \A n \in 1 .. Len(lock_waiters[q]) :
                          lock_waiters[q][m] = lock_waiters[q][n] => m = n
  BY DEF LockWaitersSleep
<1>1. lock_waiters[q][m] \in Thread
  BY DEF TypeOK
<1>2. QED
  BY <1>1 DEF LockWaitersSleep

\* lock_acquire() adds its caller.
LEMMA ListPushed ==
    ASSUME TypeOK, LockWaitersSleep, NEW t \in Thread, pc[t] # "lock_sleep",
           lock_waiters' = [lock_waiters EXCEPT ![queue(t)] = Append(@, t)],
           pc' = [pc EXCEPT ![t] = "lock_sleep"]
    PROVE  LockWaitersSleep'
<1> SUFFICES ASSUME NEW q \in Queue, NEW m \in 1 .. Len(lock_waiters'[q])
             PROVE  /\ pc'[lock_waiters'[q][m]] = "lock_sleep"
                    /\ queue(lock_waiters'[q][m]) = q
                    /\ \A n \in 1 .. Len(lock_waiters'[q]) :
                          lock_waiters'[q][m] = lock_waiters'[q][n] => m = n
  BY DEF LockWaitersSleep
<1> DEFINE l == lock_waiters[q]
<1>1. /\ l \in Seq(Thread) /\ queue(t) \in Queue
      /\ \A k \in 1 .. Len(l) : l[k] \in Thread
  BY QueueOf DEF TypeOK
<1>2. \A k \in 1 .. Len(l) : /\ pc[l[k]] = "lock_sleep" /\ queue(l[k]) = q /\ l[k] # t
                             /\ pc'[l[k]] = "lock_sleep"
                             /\ \A n \in 1 .. Len(l) : l[k] = l[n] => k = n
  BY <1>1 DEF LockWaitersSleep, TypeOK
<1>3. CASE queue(t) = q
  <2>1. lock_waiters'[q] = Append(l, t)
    BY <1>1, <1>3 DEF TypeOK
  <2>2. pc'[t] = "lock_sleep"
    BY DEF TypeOK
  <2> HIDE DEF l
  <2>3. /\ Len(Append(l, t)) = Len(l) + 1 /\ Append(l, t)[Len(l) + 1] = t
        /\ \A k \in 1 .. Len(l) : Append(l, t)[k] = l[k]
        /\ Len(l) \in Nat
    BY <1>1
  <2> DEFINE a == Append(l, t)
  <2>4. \A k \in 1 .. Len(a) : \/ k \in 1 .. Len(l) /\ a[k] = l[k]
                               \/ k = Len(l) + 1 /\ a[k] = t
    BY <2>3
  <2> HIDE DEF a
  <2>5. \A k \in 1 .. Len(a) : pc'[a[k]] = "lock_sleep" /\ queue(a[k]) = q
    BY <1>2, <1>3, <2>2, <2>4
  <2>6. \A k, n \in 1 .. Len(a) : a[k] = a[n] => k = n
    BY <1>2, <2>4
  <2>7. QED
    BY <2>1, <2>5, <2>6 DEF a
<1>4. CASE queue(t) # q
  <2>1. lock_waiters'[q] = l
    BY <1>1, <1>4 DEF TypeOK
  <2>2. QED
    BY <1>2, <2>1
<1>5. QED
  BY <1>3, <1>4

\* lock_release() removes the thread it wakes.
LEMMA ListPopped ==
    ASSUME TypeOK, LockWaitersSleep, NEW q \in Queue,
           lock_waiters' = [lock_waiters EXCEPT ![q] = IF @ = <<>> THEN @ ELSE Tail(@)],
           \A u \in Thread : /\ pc[u] = "lock_sleep"
                             /\ lock_waiters[q] # <<>> => u # Head(lock_waiters[q])
                             => pc'[u] = "lock_sleep"
    PROVE  LockWaitersSleep'
<1> SUFFICES ASSUME NEW r \in Queue, NEW m \in 1 .. Len(lock_waiters'[r])
             PROVE  /\ pc'[lock_waiters'[r][m]] = "lock_sleep"
                    /\ queue(lock_waiters'[r][m]) = r
                    /\ \A n \in 1 .. Len(lock_waiters'[r]) :
                          lock_waiters'[r][m] = lock_waiters'[r][n] => m = n
  BY DEF LockWaitersSleep
<1> DEFINE l == lock_waiters[r]
           lq == lock_waiters[q]
<1>1. /\ l \in Seq(Thread) /\ lq \in Seq(Thread)
      /\ \A k \in 1 .. Len(l) : l[k] \in Thread
  BY DEF TypeOK
<1>2. \A k \in 1 .. Len(l) : /\ pc[l[k]] = "lock_sleep" /\ queue(l[k]) = r
                             /\ \A n \in 1 .. Len(l) : l[k] = l[n] => k = n
  BY DEF LockWaitersSleep
<1>3. CASE r = q /\ l # <<>>
  <2>1. lock_waiters'[r] = Tail(l)
    BY <1>3 DEF TypeOK
  <2> HIDE DEF l
  <2>2. /\ Len(l) \in Nat \ {0} /\ Len(Tail(l)) = Len(l) - 1 /\ Head(l) = l[1]
        /\ \A k \in 1 .. Len(Tail(l)) : Tail(l)[k] = l[k + 1]
    BY <1>1, <1>3
  <2>3. ASSUME NEW k \in 1 .. Len(Tail(l)) PROVE k + 1 \in 1 .. Len(l) /\ l[k + 1] # l[1]
    BY <1>2, <2>2
  <2>4. ASSUME NEW k \in 1 .. Len(Tail(l))
        PROVE  pc'[Tail(l)[k]] = "lock_sleep" /\ queue(Tail(l)[k]) = r
    <3>1. /\ Tail(l)[k] = l[k + 1] /\ l[k + 1] \in Thread /\ pc[l[k + 1]] = "lock_sleep"
          /\ queue(l[k + 1]) = r /\ l[k + 1] # Head(l)
      BY <1>1, <1>2, <2>2, <2>3
    <3>2. pc'[l[k + 1]] = "lock_sleep"
      BY <1>3, <3>1 DEF l
    <3>3. QED
      BY <3>1, <3>2
  <2>5. ASSUME NEW k \in 1 .. Len(Tail(l)), NEW n \in 1 .. Len(Tail(l)), Tail(l)[k] = Tail(l)[n]
        PROVE  k = n
    <3>1. k + 1 \in 1 .. Len(l) /\ n + 1 \in 1 .. Len(l) /\ l[k + 1] = l[n + 1]
      BY <2>2, <2>3, <2>5
    <3>2. k + 1 = n + 1
      BY <1>2, <3>1
    <3>3. QED
      BY <3>2
  <2>6. QED
    BY <2>1, <2>4, <2>5
<1>4. CASE r = q /\ l = <<>>
  BY <1>4 DEF TypeOK
<1>5. CASE r # q
  <2>1. lock_waiters'[r] = l
    BY <1>5 DEF TypeOK
  <2>2. ASSUME NEW k \in 1 .. Len(l), lq # <<>> PROVE l[k] # Head(lq)
    <3> HIDE DEF l, lq
    <3>1. Head(lq) = lq[1] /\ 1 \in 1 .. Len(lq)
      BY <1>1, <2>2
    <3>2. queue(lq[1]) = q
      BY <3>1 DEF LockWaitersSleep, lq
    <3>3. QED
      BY <1>2, <1>5, <3>1, <3>2
  <2>3. QED
    BY <1>1, <1>2, <2>1, <2>2
<1>6. QED
  BY <1>3, <1>4, <1>5

(***************************************************************************)
(* The steps, by what they do to the threads of one queue.                 *)
(***************************************************************************)

\* What a step must leave true of queue q.
Sound(q) ==
    /\ \A u \in Thread : queue(u) = q =>
          /\ pc'[u] = "wait" => waiter'[q] = u /\ must_wait(q)'
          /\ pc'[u] \in {"wait", "woken"} => lock'[q] = u
    /\ waiter'[q] # NULL => queue(waiter'[q]) = q /\ pc'[waiter'[q]] = "wait"

\* What it is to leave the other queues alone.
Spares(q) ==
    \A r \in Queue \ {q} :
        /\ must_wait(r)' = must_wait(r) /\ lock'[r] = lock[r] /\ waiter'[r] = waiter[r]
        /\ \A u \in Thread : queue(u) = r =>
              /\ pc'[u] = "wait" <=> pc[u] = "wait"
              /\ pc'[u] = "woken" <=> pc[u] = "woken"

\* A step that concerns one queue has to be right about that queue only.
LEMMA OneQueue ==
    ASSUME TypeOK, SleepInv, NEW q \in Queue, Sound(q), Spares(q)
    PROVE  SleepsForCause' /\ HasLock' /\ WaiterWaits'
<1>1. ASSUME NEW u \in Thread, pc'[u] \in {"wait", "woken"}
      PROVE  /\ lock'[queue(u)] = u
             /\ pc'[u] = "wait" => waiter'[queue(u)] = u /\ must_wait(queue(u))'
  <2>1. CASE queue(u) = q
    BY <1>1, <2>1 DEF Sound
  <2>2. CASE queue(u) # q
    <3>1. queue(u) \in Queue \ {q}
      BY <2>2, QueueOf
    <3>2. QED
      BY <1>1, <3>1 DEF Spares, SleepInv, HasLock, SleepsForCause
  <2>3. QED
    BY <2>1, <2>2
<1>2. ASSUME NEW r \in Queue, waiter'[r] # NULL
      PROVE  queue(waiter'[r]) = r /\ pc'[waiter'[r]] = "wait"
  <2>1. CASE r = q
    BY <1>2, <2>1 DEF Sound
  <2>2. CASE r # q
    <3>1. waiter'[r] = waiter[r] /\ waiter[r] \in Thread
      BY <1>2, <2>2 DEF Spares, TypeOK
    <3>2. queue(waiter[r]) = r /\ pc[waiter[r]] = "wait"
      BY <1>2, <3>1 DEF SleepInv, WaiterWaits
    <3>3. QED
      BY <2>2, <3>1, <3>2 DEF Spares
  <2>3. QED
    BY <2>1, <2>2
<1>3. QED
  BY <1>1, <1>2 DEF SleepsForCause, HasLock, WaiterWaits

\* While a queue can be used nobody waits for it.
LEMMA NobodyWaits ==
    ASSUME TypeOK, SleepInv, NEW q \in Queue, ~must_wait(q)
    PROVE  waiter[q] = NULL /\ \A u \in Thread : queue(u) = q => pc[u] # "wait"
<1>1. \A u \in Thread : queue(u) = q => pc[u] # "wait"
  BY DEF SleepInv, SleepsForCause
<1>2. waiter[q] \in Thread \cup {NULL}
  BY DEF TypeOK
<1>3. QED
  BY <1>1, <1>2 DEF SleepInv, WaiterWaits

\* Only the holder of its lock is in wait() of a queue or leaves it.
LEMMA OnlyHolder ==
    ASSUME TypeOK, SleepInv, NEW q \in Queue, NEW t, lock[q] = t \/ lock[q] = NULL,
           NEW u \in Thread, queue(u) = q, u # t
    PROVE  pc[u] \notin {"wait", "woken"}
  BY QueueOf DEF SleepInv, HasLock

\* Where a queue's indices do not change, neither does its condition.
LEMMA SameCondition ==
    ASSUME NEW r \in Queue, head'[r] = head[r], tail'[r] = tail[r]
    PROVE  must_wait(r)' = must_wait(r)
  BY DEF must_wait, intq_empty, intq_full

\* take() and store() of one queue.
LEMMA TakeType ==
    ASSUME TypeOK, NEW q \in Queue, take(q)
    PROVE  /\ last' \in [Queue -> Byte] /\ tail' \in [Queue -> Pos]
           /\ \A r \in Queue \ {q} : tail'[r] = tail[r]
  BY NextPos DEF TypeOK, take

LEMMA StoreType ==
    ASSUME TypeOK, NEW q \in Queue, NEW b \in Byte, store(q, b)
    PROVE  /\ buf' \in [Queue -> [Pos -> Byte]] /\ head' \in [Queue -> Pos]
           /\ \A r \in Queue \ {q} : head'[r] = head[r]
  BY NextPos DEF TypeOK, store

\* write_ier() makes the register follow the queues.
LEMMA IerWritten ==
    ASSUME write_ier
    PROVE  IerTracksQueues' /\ ier' \in [xmit : BOOLEAN, recv : BOOLEAN]
<1>1. ier' = [xmit |-> ~(head'["txq"] = tail'["txq"]),
              recv |-> ~(next(head'["buffer"]) = tail'["buffer"])]
  BY DEF write_ier
<1>2. QED
  BY <1>1 DEF IerTracksQueues, intq_empty, intq_full

PCs == {"idle", "lock_sleep", "lock", "wait", "woken"}

\* A call that takes or stores its byte and returns.
LEMMA FinishKeeps ==
    ASSUME IInv, NEW t \in Thread, NEW p \in [Thread -> PCs], finish(t, p)
    PROVE  /\ IerTracksQueues' /\ ier' \in [xmit : BOOLEAN, recv : BOOLEAN]
           /\ buf' \in [Queue -> [Pos -> Byte]] /\ head' \in [Queue -> Pos]
           /\ tail' \in [Queue -> Pos] /\ last' \in [Queue -> Byte]
           /\ pc' = [p EXCEPT ![t] = "idle"] /\ pc' \in [Thread -> PCs]
           /\ console_lock' \in Writer \cup {NULL}
           /\ waiter' = waiter /\ panicked' = panicked
           /\ \A r \in Queue \ {queue(t)} : must_wait(r)' = must_wait(r)
<1>1. IerTracksQueues' /\ ier' \in [xmit : BOOLEAN, recv : BOOLEAN]
  BY IerWritten DEF finish
<1>2. /\ buf' \in [Queue -> [Pos -> Byte]] /\ head' \in [Queue -> Pos]
      /\ tail' \in [Queue -> Pos] /\ last' \in [Queue -> Byte]
      /\ \A r \in Queue \ {queue(t)} : head'[r] = head[r] /\ tail'[r] = tail[r]
  <2>1. CASE t \in Reader
    <3>1. take("buffer") /\ UNCHANGED <<buf, head>> /\ queue(t) = "buffer"
      BY <2>1 DEF finish, queue
    <3>2. QED
      BY <3>1, TakeType DEF IInv, TypeOK, Queue
  <2>2. CASE t \notin Reader
    <3>1. /\ store("txq", byte[t]) /\ UNCHANGED <<last, tail>> /\ queue(t) = "txq"
          /\ byte[t] \in Byte
      BY <2>2 DEF finish, queue, IInv, TypeOK, Thread
    <3>2. QED
      BY <3>1, StoreType DEF IInv, TypeOK, Queue
  <2>3. QED
    BY <2>1, <2>2
<1>3. /\ pc' = [p EXCEPT ![t] = "idle"] /\ waiter' = waiter /\ panicked' = panicked
      /\ console_lock' \in Writer \cup {NULL}
  BY DEF finish, IInv, TypeOK
<1>4. pc' \in [Thread -> PCs]
  BY <1>3 DEF PCs
<1>5. \A r \in Queue \ {queue(t)} : must_wait(r)' = must_wait(r)
  BY <1>2, SameCondition
<1>6. QED
  BY <1>1, <1>2, <1>3, <1>4, <1>5

\* A thread that gets or keeps its queue's lock and goes to sleep in wait().
LEMMA WaitKeeps ==
    ASSUME IInv, NEW t \in Thread, NEW p \in [Thread -> PCs], wait(t, p),
           must_wait(queue(t)), lock[queue(t)] \in {NULL, t},
           lock' = [lock EXCEPT ![queue(t)] = t],
           \A u \in Thread \ {t} : /\ p[u] = "wait" <=> pc[u] = "wait"
                                   /\ p[u] = "woken" <=> pc[u] = "woken"
    PROVE  /\ SleepsForCause' /\ HasLock' /\ WaiterWaits' /\ IerTracksQueues'
           /\ pc' = [p EXCEPT ![t] = "wait"] /\ pc' \in [Thread -> PCs]
           /\ waiter' \in [Queue -> Thread \cup {NULL}]
           /\ lock' \in [Queue -> Thread \cup {NULL}]
           /\ UNCHANGED <<buf, head, tail, last, ier, panicked>>
<1> DEFINE q == queue(t)
<1>0. q \in Queue /\ t # NULL
  BY QueueOf
<1>1. /\ UNCHANGED <<buf, head, tail, last, ier, panicked>>
      /\ pc' = [p EXCEPT ![t] = "wait"]
      /\ waiter' = [waiter EXCEPT ![q] = t]
  BY DEF wait, queue_vars
<1>2. /\ pc' \in [Thread -> PCs] /\ waiter' \in [Queue -> Thread \cup {NULL}]
      /\ lock' \in [Queue -> Thread \cup {NULL}]
  BY <1>0, <1>1 DEF IInv, TypeOK, PCs
<1>3. /\ waiter'[q] = t /\ lock'[q] = t /\ pc'[t] = "wait"
      /\ \A r \in Queue \ {q} : waiter'[r] = waiter[r] /\ lock'[r] = lock[r]
      /\ \A u \in Thread \ {t} : pc'[u] = p[u]
  BY <1>0, <1>1 DEF IInv, TypeOK
<1>4. \A r \in Queue : must_wait(r)' = must_wait(r)
  BY <1>1, SameCondition
<1>5. Sound(q)
  <2>1. \A u \in Thread \ {t} : queue(u) = q => pc'[u] \notin {"wait", "woken"}
    BY <1>0, <1>3, OnlyHolder DEF IInv
  <2>2. QED
    BY <1>0, <1>3, <1>4, <2>1 DEF Sound
<1>6. Spares(q)
  BY <1>3, <1>4 DEF Spares
<1>7. SleepsForCause' /\ HasLock' /\ WaiterWaits'
  BY <1>0, <1>5, <1>6, OneQueue DEF IInv
<1>8. IerTracksQueues'
  BY <1>1 DEF IInv, IerTracksQueues, intq_empty, intq_full
<1>9. QED
  BY <1>1, <1>2, <1>7, <1>8

\* A thread that has to sleep in lock_acquire().
LEMMA LockSleepKeeps ==
    ASSUME IInv, NEW t \in Thread, pc[t] \in {"idle", "lock"}, lock_sleep(t),
           UNCHANGED <<console_lock, byte>>
    PROVE  IInv'
<1> DEFINE q == queue(t)
<1>0. q \in Queue
  BY QueueOf
<1>1. /\ UNCHANGED <<buf, head, tail, last, waiter, lock, ier, panicked>>
      /\ pc' = [pc EXCEPT ![t] = "lock_sleep"]
      /\ lock_waiters' = [lock_waiters EXCEPT ![q] = Append(@, t)]
  BY DEF lock_sleep, queue_vars
<1>2. lock_waiters' \in [Queue -> Seq(Thread)]
  BY <1>0, <1>1 DEF IInv, TypeOK
<1>3. TypeOK'
  BY <1>1, <1>2 DEF IInv, TypeOK
<1>4. \A u \in Thread : /\ pc'[u] = "wait" <=> pc[u] = "wait"
                        /\ pc'[u] = "woken" <=> pc[u] = "woken"
  BY <1>1 DEF IInv, TypeOK
<1>5. \A r \in Queue : must_wait(r)' = must_wait(r)
  BY <1>1, SameCondition
<1>6. Sound(q)
  BY <1>0, <1>1, <1>4, <1>5, QueueOf DEF Sound, IInv, SleepInv, SleepsForCause, HasLock,
                                         WaiterWaits, TypeOK
<1>7. Spares(q)
  BY <1>1, <1>4, <1>5 DEF Spares
<1>8. SleepsForCause' /\ HasLock' /\ WaiterWaits'
  BY <1>0, <1>6, <1>7, OneQueue DEF IInv
<1>9. LockWaitersSleep'
  BY <1>1, ListPushed DEF IInv, SleepInv
<1>10. IerTracksQueues'
  BY <1>1 DEF IInv, IerTracksQueues, intq_empty, intq_full
<1>11. QED
  BY <1>3, <1>8, <1>9, <1>10 DEF IInv, SleepInv

\* The loop of a call whose thread does not have the queue's lock.
LEMMA LoopKeeps ==
    ASSUME IInv, NEW t \in Thread, pc[t] = "idle", loop(t), UNCHANGED byte
    PROVE  IInv'
<1> DEFINE q == queue(t)
<1>0. q \in Queue /\ pc \in [Thread -> PCs]
  BY QueueOf DEF IInv, TypeOK, PCs
<1>1. CASE ~must_wait(q) /\ finish(t, pc) /\ UNCHANGED lock_vars
  <2>1. lock' = lock /\ lock_waiters' = lock_waiters
    BY <1>1 DEF lock_vars
  <2>2. /\ IerTracksQueues' /\ ier' \in [xmit : BOOLEAN, recv : BOOLEAN]
        /\ buf' \in [Queue -> [Pos -> Byte]] /\ head' \in [Queue -> Pos]
        /\ tail' \in [Queue -> Pos] /\ last' \in [Queue -> Byte]
        /\ pc' = [pc EXCEPT ![t] = "idle"] /\ pc' \in [Thread -> PCs]
        /\ console_lock' \in Writer \cup {NULL}
        /\ waiter' = waiter /\ panicked' = panicked
        /\ \A r \in Queue \ {q} : must_wait(r)' = must_wait(r)
    BY <1>0, <1>1, FinishKeeps
  <2>3. TypeOK'
    BY <2>1, <2>2 DEF IInv, TypeOK, PCs
  <2>4. pc' = pc
    BY <1>0, <2>2
  <2>5. Sound(q)
    BY <1>0, <1>1, <2>1, <2>2, <2>4, NobodyWaits DEF Sound, IInv, SleepInv, HasLock
  <2>6. Spares(q)
    BY <2>1, <2>2, <2>4 DEF Spares
  <2>7. LockWaitersSleep'
    BY <2>1, <2>4, ListKept DEF IInv, SleepInv
  <2>8. QED
    BY <1>0, <2>2, <2>3, <2>5, <2>6, <2>7, OneQueue DEF IInv, SleepInv
<1>2. CASE /\ must_wait(q) /\ lock[q] = NULL
           /\ lock' = [lock EXCEPT ![q] = t]
           /\ wait(t, pc)
           /\ UNCHANGED <<lock_waiters, console_lock>>
  <2>1. /\ SleepsForCause' /\ HasLock' /\ WaiterWaits' /\ IerTracksQueues'
        /\ pc' = [pc EXCEPT ![t] = "wait"] /\ pc' \in [Thread -> PCs]
        /\ waiter' \in [Queue -> Thread \cup {NULL}]
        /\ lock' \in [Queue -> Thread \cup {NULL}]
        /\ UNCHANGED <<buf, head, tail, last, ier, panicked>>
    BY <1>0, <1>2, WaitKeeps
  <2>2. TypeOK'
    BY <1>2, <2>1 DEF IInv, TypeOK, PCs
  <2>3. LockWaitersSleep'
    BY <1>0, <1>2, <2>1, ListKept DEF IInv, SleepInv
  <2>4. QED
    BY <2>1, <2>2, <2>3 DEF IInv, SleepInv
<1>3. CASE must_wait(q) /\ lock[q] # NULL /\ lock_sleep(t) /\ UNCHANGED console_lock
  BY <1>3, LockSleepKeeps
<1>4. QED
  BY <1>1, <1>2, <1>3 DEF loop

\* A thread woken in lock_acquire().
LEMMA LockAcquireKeeps ==
    ASSUME IInv, NEW t \in Thread, LockAcquire(t)
    PROVE  IInv'
<1> DEFINE q == queue(t)
<1>0. /\ q \in Queue /\ pc \in [Thread -> PCs] /\ pc[t] = "lock"
      /\ UNCHANGED <<console_lock, byte>>
  BY QueueOf DEF IInv, TypeOK, PCs, LockAcquire
<1>1. CASE lock[q] # NULL /\ lock_sleep(t)
  BY <1>0, <1>1, LockSleepKeeps
<1>2. CASE /\ lock[q] = NULL /\ must_wait(q)
           /\ lock' = [lock EXCEPT ![q] = t]
           /\ wait(t, pc)
           /\ UNCHANGED lock_waiters
  <2>1. /\ SleepsForCause' /\ HasLock' /\ WaiterWaits' /\ IerTracksQueues'
        /\ pc' = [pc EXCEPT ![t] = "wait"] /\ pc' \in [Thread -> PCs]
        /\ waiter' \in [Queue -> Thread \cup {NULL}]
        /\ lock' \in [Queue -> Thread \cup {NULL}]
        /\ UNCHANGED <<buf, head, tail, last, ier, panicked>>
    BY <1>0, <1>2, WaitKeeps
  <2>2. TypeOK'
    BY <1>0, <1>2, <2>1 DEF IInv, TypeOK, PCs
  <2>3. LockWaitersSleep'
    BY <1>0, <1>2, <2>1, ListKept DEF IInv, SleepInv
  <2>4. QED
    BY <2>1, <2>2, <2>3 DEF IInv, SleepInv
<1>3. CASE /\ panicked' = TRUE
           /\ UNCHANGED <<queue_vars, waiter, lock_vars, ier, pc>>
  BY <1>0, <1>3 DEF queue_vars, lock_vars, IInv, TypeOK, SleepInv, SleepsForCause, HasLock,
                    WaiterWaits, LockWaitersSleep, IerTracksQueues, must_wait,
                    intq_empty, intq_full
<1>4. QED
  BY <1>1, <1>2, <1>3 DEF LockAcquire

\* The thread that lock_release() wakes was not in wait().
LEMMA WokenNext ==
    ASSUME IInv, NEW q \in Queue
    PROVE  /\ woken_next(q) \in [Thread -> PCs]
           /\ \A u \in Thread : /\ woken_next(q)[u] = "wait" <=> pc[u] = "wait"
                                /\ woken_next(q)[u] = "woken" <=> pc[u] = "woken"
                                /\ /\ pc[u] = "lock_sleep"
                                   /\ lock_waiters[q] # <<>> => u # Head(lock_waiters[q])
                                   => woken_next(q)[u] = "lock_sleep"
<1> DEFINE l == lock_waiters[q]
<1>0. l \in Seq(Thread) /\ pc \in [Thread -> PCs]
  BY DEF IInv, TypeOK, PCs
<1>1. CASE l = <<>>
  BY <1>0, <1>1 DEF woken_next
<1>2. CASE l # <<>>
  <2>1. Head(l) = l[1] /\ 1 \in 1 .. Len(l) /\ l[1] \in Thread
    <3> HIDE DEF l
    <3> QED BY <1>0, <1>2
  <2>2. pc[l[1]] = "lock_sleep"
    BY <2>1 DEF IInv, SleepInv, LockWaitersSleep
  <2>3. woken_next(q) = [pc EXCEPT ![l[1]] = "lock"]
    BY <1>2, <2>1 DEF woken_next
  <2>4. QED
    BY <1>0, <2>1, <2>2, <2>3 DEF PCs
<1>3. QED
  BY <1>1, <1>2

\* lock_release() leaves a well-typed lock.
LEMMA ReleaseType ==
    ASSUME TypeOK, NEW q \in Queue, NEW h \in Thread \cup {NULL}, release(q, h)
    PROVE  /\ lock' = [lock EXCEPT ![q] = h] /\ lock' \in [Queue -> Thread \cup {NULL}]
           /\ lock_waiters' = [lock_waiters EXCEPT ![q] = IF @ = <<>> THEN @ ELSE Tail(@)]
           /\ lock_waiters' \in [Queue -> Seq(Thread)]
<1>1. lock' = [lock EXCEPT ![q] = h] /\ lock' \in [Queue -> Thread \cup {NULL}]
  BY DEF release, TypeOK
<1>2. lock_waiters' = [lock_waiters EXCEPT ![q] = IF @ = <<>> THEN @ ELSE Tail(@)]
  BY DEF release
<1>3. (IF lock_waiters[q] = <<>> THEN lock_waiters[q] ELSE Tail(lock_waiters[q])) \in Seq(Thread)
  BY DEF TypeOK
<1>4. QED
  BY <1>1, <1>2, <1>3 DEF TypeOK

\* A thread woken in wait().
LEMMA WokenKeeps ==
    ASSUME IInv, NEW t \in Thread, Woken(t)
    PROVE  IInv'
<1> DEFINE q == queue(t)
           p == woken_next(q)
<1>0. q \in Queue /\ pc[t] = "woken" /\ lock[q] = t /\ t # NULL /\ UNCHANGED byte
  BY QueueOf DEF IInv, SleepInv, HasLock, Woken
<1>1. /\ p \in [Thread -> PCs]
      /\ \A u \in Thread : /\ p[u] = "wait" <=> pc[u] = "wait"
                           /\ p[u] = "woken" <=> pc[u] = "woken"
                           /\ /\ pc[u] = "lock_sleep"
                              /\ lock_waiters[q] # <<>> => u # Head(lock_waiters[q])
                              => p[u] = "lock_sleep"
  BY <1>0, WokenNext
<1> HIDE DEF p
<1>2. CASE ~must_wait(q) /\ release(q, NULL) /\ finish(t, p)
  <2>1. /\ lock' = [lock EXCEPT ![q] = NULL] /\ lock' \in [Queue -> Thread \cup {NULL}]
        /\ lock_waiters' = [lock_waiters EXCEPT ![q] = IF @ = <<>> THEN @ ELSE Tail(@)]
        /\ lock_waiters' \in [Queue -> Seq(Thread)]
    BY <1>0, <1>2, ReleaseType DEF IInv
  <2>2. /\ IerTracksQueues' /\ ier' \in [xmit : BOOLEAN, recv : BOOLEAN]
        /\ buf' \in [Queue -> [Pos -> Byte]] /\ head' \in [Queue -> Pos]
        /\ tail' \in [Queue -> Pos] /\ last' \in [Queue -> Byte]
        /\ pc' = [p EXCEPT ![t] = "idle"] /\ pc' \in [Thread -> PCs]
        /\ console_lock' \in Writer \cup {NULL}
        /\ waiter' = waiter /\ panicked' = panicked
        /\ \A r \in Queue \ {q} : must_wait(r)' = must_wait(r)
    BY <1>1, <1>2, FinishKeeps
  <2>3. TypeOK'
    BY <1>0, <2>1, <2>2 DEF IInv, TypeOK, PCs
  <2>4. pc'[t] = "idle" /\ \A u \in Thread \ {t} : pc'[u] = p[u]
    BY <1>1, <2>2
  <2>5. Sound(q)
    <3>1. waiter'[q] = NULL
      BY <1>0, <1>2, <2>2, NobodyWaits DEF IInv
    <3>2. \A u \in Thread \ {t} : queue(u) = q => pc'[u] \notin {"wait", "woken"}
      BY <1>0, <1>1, <2>4, OnlyHolder DEF IInv
    <3>3. QED
      BY <2>4, <3>1, <3>2 DEF Sound
  <2>6. Spares(q)
    <3>1. \A r \in Queue \ {q} : lock'[r] = lock[r]
      BY <1>0, <2>1 DEF IInv, TypeOK
    <3>2. QED
      BY <1>1, <2>2, <2>4, <3>1 DEF Spares
  <2>7. LockWaitersSleep'
    <3>1. \A u \in Thread : pc[u] = "lock_sleep" => u # t
      BY <1>0
    <3>2. QED
      BY <1>0, <1>1, <2>1, <2>4, <3>1, ListPopped DEF IInv, SleepInv
  <2>8. QED
    BY <1>0, <2>2, <2>3, <2>5, <2>6, <2>7, OneQueue DEF IInv, SleepInv
<1>3. CASE must_wait(q) /\ release(q, t) /\ wait(t, p) /\ UNCHANGED console_lock
  <2>1. /\ lock' = [lock EXCEPT ![q] = t]
        /\ lock_waiters' = [lock_waiters EXCEPT ![q] = IF @ = <<>> THEN @ ELSE Tail(@)]
        /\ lock_waiters' \in [Queue -> Seq(Thread)]
    BY <1>0, <1>3, ReleaseType DEF IInv
  <2>2. /\ SleepsForCause' /\ HasLock' /\ WaiterWaits' /\ IerTracksQueues'
        /\ pc' = [p EXCEPT ![t] = "wait"] /\ pc' \in [Thread -> PCs]
        /\ waiter' \in [Queue -> Thread \cup {NULL}]
        /\ lock' \in [Queue -> Thread \cup {NULL}]
        /\ UNCHANGED <<buf, head, tail, last, ier, panicked>>
    BY <1>0, <1>1, <1>3, <2>1, WaitKeeps
  <2>3. TypeOK'
    BY <1>0, <1>3, <2>1, <2>2 DEF IInv, TypeOK, PCs
  <2>4. LockWaitersSleep'
    <3>1. \A u \in Thread \ {t} : pc'[u] = p[u]
      BY <1>1, <2>2
    <3>2. \A u \in Thread : pc[u] = "lock_sleep" => u # t
      BY <1>0
    <3>3. QED
      BY <1>0, <1>1, <2>1, <3>1, <3>2, ListPopped DEF IInv, SleepInv
  <2>5. QED
    BY <2>2, <2>3, <2>4 DEF IInv, SleepInv
<1>4. QED
  BY <1>2, <1>3 DEF Woken, p

\* A handler or polling code puts or takes a byte and signals the queue.
LEMMA SignalKeeps ==
    ASSUME IInv, NEW q \in Queue, signal(q, pc), write_ier,
           buf' \in [Queue -> [Pos -> Byte]], head' \in [Queue -> Pos],
           tail' \in [Queue -> Pos], last' \in [Queue -> Byte],
           \A r \in Queue \ {q} : head'[r] = head[r] /\ tail'[r] = tail[r],
           UNCHANGED <<lock, lock_waiters, console_lock, byte, panicked>>
    PROVE  IInv'
<1>1. waiter' = [waiter EXCEPT ![q] = NULL] /\ waiter' \in [Queue -> Thread \cup {NULL}]
  BY DEF signal, IInv, TypeOK
<1>2. pc \in [Thread -> PCs] /\ waiter[q] \in Thread \cup {NULL} /\ waiter \in [Queue -> Thread \cup {NULL}]
  BY DEF IInv, TypeOK, PCs
<1>3. ASSUME waiter[q] # NULL
      PROVE  /\ waiter[q] \in Thread /\ queue(waiter[q]) = q /\ pc[waiter[q]] = "wait"
             /\ pc' = [pc EXCEPT ![waiter[q]] = "woken"]
  BY <1>2, <1>3 DEF signal, IInv, SleepInv, WaiterWaits
<1>4. waiter[q] = NULL => pc' = pc
  BY DEF signal
<1>5. pc' \in [Thread -> PCs]
  BY <1>2, <1>3, <1>4 DEF PCs
<1>6. TypeOK' /\ IerTracksQueues'
  BY <1>1, <1>5, IerWritten DEF IInv, TypeOK, PCs
<1>7. \A u \in Thread : pc'[u] = IF u = waiter[q] THEN "woken" ELSE pc[u]
  BY <1>2, <1>3, <1>4, QueueOf
<1>8. Sound(q)
  <2>1. waiter'[q] = NULL
    BY <1>1, <1>2
  <2>2. ASSUME NEW u \in Thread, queue(u) = q
        PROVE  pc'[u] # "wait" /\ (pc'[u] = "woken" => lock'[q] = u)
    BY <1>3, <1>7, <2>2, QueueOf DEF IInv, SleepInv, SleepsForCause, HasLock
  <2>3. QED
    BY <2>1, <2>2 DEF Sound
<1>9. Spares(q)
  <2>1. \A r \in Queue \ {q} : must_wait(r)' = must_wait(r) /\ waiter'[r] = waiter[r]
    BY <1>1, <1>2, SameCondition
  <2>2. \A u \in Thread : queue(u) # q => pc'[u] = pc[u]
    BY <1>3, <1>7, QueueOf
  <2>3. QED
    BY <2>1, <2>2 DEF Spares
<1>10. LockWaitersSleep'
  <2>1. \A u \in Thread : pc[u] = "lock_sleep" => pc'[u] = "lock_sleep"
    BY <1>3, <1>7, QueueOf
  <2>2. QED
    BY <2>1, ListKept DEF IInv, SleepInv
<1>11. QED
  BY <1>6, <1>8, <1>9, <1>10, OneQueue DEF IInv, SleepInv

\* Every step keeps the invariant.
LEMMA IInvStep == IInv /\ [Next]_vars => IInv'
<1> SUFFICES ASSUME IInv, [Next]_vars PROVE IInv'
  OBVIOUS
<1>0. "buffer" \in Queue /\ "txq" \in Queue
  BY DEF Queue
<1>1. ASSUME NEW r \in Reader, InputGetc(r) PROVE IInv'
  BY <1>1, LoopKeeps DEF InputGetc, Thread
<1>2. ASSUME NEW w \in Writer, SerialPutc(w) PROVE IInv'
  BY <1>2, LoopKeeps DEF SerialPutc, Thread
<1>3. ASSUME NEW w \in Writer, NEW b \in Byte, AcquireConsole(w, b) PROVE IInv'
  <2>1. TypeOK'
    BY <1>3 DEF AcquireConsole, IInv, TypeOK, queue_vars, lock_vars
  <2>2. UNCHANGED <<head, tail, waiter, lock, lock_waiters, ier, pc>>
    BY <1>3 DEF AcquireConsole, queue_vars, lock_vars
  <2>3. SleepInv' /\ IerTracksQueues'
    BY <2>2 DEF IInv, SleepInv, SleepsForCause, HasLock, WaiterWaits, LockWaitersSleep,
                IerTracksQueues, must_wait, intq_empty, intq_full
  <2>4. QED
    BY <2>1, <2>3 DEF IInv
<1>4. ASSUME NEW t \in Thread, Run(t) PROVE IInv'
  BY <1>4, LockAcquireKeeps, WokenKeeps DEF Run
<1>5. ASSUME NEW b \in Byte, KbdInterrupt(b) \/ SerialReceive(b) PROVE IInv'
  <2>1. /\ store("buffer", b) /\ signal("buffer", pc) /\ write_ier
        /\ UNCHANGED <<tail, last, lock, lock_waiters, console_lock, byte, panicked>>
    BY <1>5 DEF KbdInterrupt, SerialReceive, lock_vars
  <2>2. /\ buf' \in [Queue -> [Pos -> Byte]] /\ head' \in [Queue -> Pos]
        /\ tail' \in [Queue -> Pos] /\ last' \in [Queue -> Byte]
        /\ \A r \in Queue \ {"buffer"} : head'[r] = head[r] /\ tail'[r] = tail[r]
    BY <1>0, <2>1, StoreType DEF IInv, TypeOK
  <2>3. QED
    BY <1>0, <2>1, <2>2, SignalKeeps
<1>6. ASSUME SerialTransmit PROVE IInv'
  <2>1. /\ take("txq") /\ signal("txq", pc) /\ write_ier
        /\ UNCHANGED <<buf, head, lock, lock_waiters, console_lock, byte, panicked>>
    BY <1>6 DEF SerialTransmit, lock_vars
  <2>2. /\ buf' \in [Queue -> [Pos -> Byte]] /\ head' \in [Queue -> Pos]
        /\ tail' \in [Queue -> Pos] /\ last' \in [Queue -> Byte]
        /\ \A r \in Queue \ {"txq"} : head'[r] = head[r] /\ tail'[r] = tail[r]
    BY <1>0, <2>1, TakeType DEF IInv, TypeOK
  <2>3. QED
    BY <1>0, <2>1, <2>2, SignalKeeps
<1>7. ASSUME NEW b \in Byte, PutcIntrOff(b) PROVE IInv'
  <2>1. /\ store("txq", b) /\ write_ier
        /\ UNCHANGED <<lock, lock_waiters, console_lock, byte, panicked>>
    BY <1>7 DEF PutcIntrOff, lock_vars
  <2>2. /\ buf' \in [Queue -> [Pos -> Byte]] /\ head' \in [Queue -> Pos]
        /\ \A r \in Queue \ {"txq"} : head'[r] = head[r]
    BY <1>0, <2>1, StoreType DEF IInv
  <2>3. CASE intq_full("txq")
    <3>1. take("txq") /\ signal("txq", pc)
      BY <1>7, <2>3 DEF PutcIntrOff
    <3>2. /\ tail' \in [Queue -> Pos] /\ last' \in [Queue -> Byte]
          /\ \A r \in Queue \ {"txq"} : tail'[r] = tail[r]
      BY <1>0, <3>1, TakeType DEF IInv
    <3>3. QED
      BY <1>0, <2>1, <2>2, <3>1, <3>2, SignalKeeps
  <2>4. CASE ~intq_full("txq")
    <3>1. UNCHANGED <<tail, last, waiter, pc>>
      BY <1>7, <2>4 DEF PutcIntrOff
    <3>2. waiter["txq"] = NULL
      BY <1>0, <2>4, NobodyWaits DEF IInv, must_wait
    <3>3. signal("txq", pc)
      BY <1>0, <3>1, <3>2 DEF signal, IInv, TypeOK
    <3>4. tail' \in [Queue -> Pos] /\ last' \in [Queue -> Byte]
      BY <3>1 DEF IInv, TypeOK
    <3>5. QED
      BY <1>0, <2>1, <2>2, <3>1, <3>3, <3>4, SignalKeeps
  <2>5. QED
    BY <2>3, <2>4
<1>8. CASE UNCHANGED vars
  BY <1>8 DEF vars, queue_vars, lock_vars, IInv, TypeOK, SleepInv, SleepsForCause, HasLock,
              WaiterWaits, LockWaitersSleep, IerTracksQueues, must_wait, intq_empty, intq_full
<1>9. QED
  BY <1>1, <1>2, <1>3, <1>4, <1>5, <1>6, <1>7, <1>8 DEF Next, Interrupt, Panic

\* The queues start empty, with nobody waiting.
LEMMA IInvInit == Init => IInv
<1> SUFFICES ASSUME Init PROVE IInv
  OBVIOUS
<1>0. INTQ_BUFSIZE \in Nat \ {0, 1} /\ 0 \in Pos /\ NULL \notin Thread
  BY SerialAssumption DEF Pos
<1>1. TypeOK
  <2>1. PICK b \in Byte : /\ buf = [q \in Queue |-> [n \in Pos |-> b]]
                          /\ byte = [w \in Writer |-> b]
                          /\ last = [q \in Queue |-> b]
    BY DEF Init
  <2>2. <<>> \in Seq(Thread)
    OBVIOUS
  <2>3. QED
    BY <1>0, <2>1, <2>2 DEF Init, TypeOK
<1>2. SleepInv
  BY <1>0 DEF Init, SleepInv, SleepsForCause, HasLock, WaiterWaits, LockWaitersSleep
<1>3. IerTracksQueues
  <2>1. next(0) # 0
    BY <1>0 DEF next
  <2>2. QED
    BY <2>1 DEF Init, IerTracksQueues, intq_empty, intq_full, Queue
<1>4. QED
  BY <1>1, <1>2, <1>3 DEF IInv

\* The inductive invariant holds in every reachable state.
THEOREM SerialInvariant == Spec => []IInv
  BY IInvInit, IInvStep, PTL DEF Spec

\* Type correctness: head and tail never leave the buffer.
THEOREM SerialTypeCorrect == Spec => []TypeOK
<1>1. IInv => TypeOK
  BY DEF IInv
<1>2. QED
  BY <1>1, SerialInvariant, PTL

\* signal() never misses a thread: whoever sleeps in wait() has to.
THEOREM NoMissedSignal == Spec => []SleepsForCause
<1>1. IInv => SleepsForCause
  BY DEF IInv, SleepInv
<1>2. QED
  BY <1>1, SerialInvariant, PTL

\* Whatever path a byte takes, write_ier() has been told of it.
THEOREM IerCorrect == Spec => []IerTracksQueues
<1>1. IInv => IerTracksQueues
  BY DEF IInv
<1>2. QED
  BY <1>1, SerialInvariant, PTL
-----------------------------------------------------------------------------
(***************************************************************************)
(* The ring buffer is a queue.  First the ring as a sequence, from the     *)
(* contents B, the head h and the tail t.                                  *)
(***************************************************************************)
N == INTQ_BUFSIZE
Count(h, t) == (h + N - t) % N
At(t, k)    == (t + k - 1) % N
Ring(B, h, t) == [k \in 1 .. Count(h, t) |-> B[At(t, k)]]

\* The remainders that occur, without division.
LEMMA Below ==
    ASSUME NEW n \in Nat \ {0}, NEW x \in Nat, x < n
    PROVE  x % n = x
  OBVIOUS

LEMMA Above ==
    ASSUME NEW n \in Nat \ {0}, NEW x \in Nat, n <= x, x < 2 * n
    PROVE  x % n = x - n
  OBVIOUS

LEMMA NextIs ==
    ASSUME NEW h \in Pos
    PROVE  next(h) = IF h = N - 1 THEN 0 ELSE h + 1
<1>1. N \in Nat \ {0, 1} /\ h \in Nat /\ h <= N - 1
  BY SerialAssumption DEF N, Pos
<1>2. CASE h = N - 1
  BY <1>1, <1>2, Above DEF next, N
<1>3. CASE h # N - 1
  BY <1>1, <1>3, Below DEF next, N
<1>4. QED
  BY <1>2, <1>3

LEMMA CountIs ==
    ASSUME NEW h \in Pos, NEW t \in Pos
    PROVE  Count(h, t) = IF t <= h THEN h - t ELSE h + N - t
<1>1. N \in Nat \ {0, 1} /\ h \in Nat /\ h <= N - 1 /\ t \in Nat /\ t <= N - 1
  BY SerialAssumption DEF N, Pos
<1>2. CASE t <= h
  <2> DEFINE x == h + N - t
  <2>1. x \in Nat /\ N <= x /\ x < 2 * N /\ x - N = h - t
    BY <1>1, <1>2
  <2> HIDE DEF x
  <2>2. x % N = h - t
    BY <1>1, <2>1, Above
  <2>3. QED
    BY <1>2, <2>2 DEF Count, x
<1>3. CASE ~(t <= h)
  <2> DEFINE x == h + N - t
  <2>1. x \in Nat /\ x < N
    BY <1>1, <1>3
  <2> HIDE DEF x
  <2>2. x % N = x
    BY <1>1, <2>1, Below
  <2>3. QED
    BY <1>3, <2>2 DEF Count, x
<1>4. QED
  BY <1>2, <1>3

LEMMA AtIs ==
    ASSUME NEW t \in Pos, NEW k \in 1 .. N
    PROVE  At(t, k) = IF t + k - 1 < N THEN t + k - 1 ELSE t + k - 1 - N
<1>1. N \in Nat \ {0, 1} /\ t \in Nat /\ t <= N - 1 /\ k \in Nat /\ k >= 1 /\ k <= N
  BY SerialAssumption DEF N, Pos
<1>2. CASE t + k - 1 < N
  <2> DEFINE x == t + k - 1
  <2>1. x \in Nat /\ x < N
    BY <1>1, <1>2
  <2> HIDE DEF x
  <2>2. x % N = x
    BY <1>1, <2>1, Below
  <2>3. QED
    BY <1>2, <2>2 DEF At, x
<1>3. CASE ~(t + k - 1 < N)
  <2> DEFINE x == t + k - 1
  <2>1. x \in Nat /\ N <= x /\ x < 2 * N
    BY <1>1, <1>3
  <2> HIDE DEF x
  <2>2. x % N = x - N
    BY <1>1, <2>1, Above
  <2>3. At(t, k) = x - N
    BY <2>2 DEF At, x
  <2>4. QED
    BY <1>1, <1>3, <2>3 DEF x
<1>4. QED
  BY <1>2, <1>3

LEMMA RingIs ==
    ASSUME NEW B \in [Pos -> Byte], NEW h \in Pos, NEW t \in Pos
    PROVE  /\ Ring(B, h, t) \in Seq(Byte) /\ Len(Ring(B, h, t)) = Count(h, t)
           /\ Count(h, t) \in 0 .. N - 1
           /\ \A k \in 1 .. Count(h, t) : Ring(B, h, t)[k] = B[At(t, k)] /\ At(t, k) \in Pos
           /\ Count(h, t) = 0 <=> h = t
           /\ Count(h, t) = N - 1 <=> next(h) = t
           /\ Ring(B, h, t) = <<>> <=> h = t
<1>1. N \in Nat \ {0, 1} /\ h \in 0 .. N - 1 /\ t \in 0 .. N - 1
  BY SerialAssumption DEF N, Pos
<1>2. /\ Count(h, t) \in 0 .. N - 1
      /\ Count(h, t) = 0 <=> h = t
      /\ Count(h, t) = N - 1 <=> next(h) = t
  <2>1. Count(h, t) = IF t <= h THEN h - t ELSE h + N - t
    BY CountIs
  <2>2. next(h) = IF h = N - 1 THEN 0 ELSE h + 1
    BY NextIs
  <2>3. QED
    BY <1>1, <2>1, <2>2
<1>3. \A k \in 1 .. Count(h, t) : At(t, k) \in Pos
  <2> SUFFICES ASSUME NEW k \in 1 .. Count(h, t) PROVE At(t, k) \in Pos
    OBVIOUS
  <2>1. k \in 1 .. N
    BY <1>1, <1>2
  <2>2. At(t, k) \in 0 .. N - 1
    BY <1>1, <2>1, AtIs
  <2>3. QED
    BY <2>2 DEF N, Pos
<1>4. Ring(B, h, t) \in [1 .. Count(h, t) -> Byte]
  BY <1>3 DEF Ring
<1>5. Ring(B, h, t) \in Seq(Byte) /\ Len(Ring(B, h, t)) = Count(h, t)
  BY <1>2, <1>4
<1>6. \A k \in 1 .. Count(h, t) : Ring(B, h, t)[k] = B[At(t, k)]
  BY DEF Ring
<1>7. Ring(B, h, t) = <<>> <=> h = t
  BY <1>2, <1>5
<1>8. QED
  BY <1>2, <1>3, <1>5, <1>6, <1>7

\* store() into a queue that is not full.
LEMMA RingPut ==
    ASSUME NEW B \in [Pos -> Byte], NEW h \in Pos, NEW t \in Pos, NEW b \in Byte,
           next(h) # t
    PROVE  /\ Ring([B EXCEPT ![h] = b], next(h), t) = Append(Ring(B, h, t), b)
           /\ Len(Ring(B, h, t)) < N - 1
<1> DEFINE B2 == [B EXCEPT ![h] = b]
           r == Ring(B, h, t)
           r2 == Ring(B2, next(h), t)
           a == Append(r, b)
<1>1. N \in Nat \ {0, 1} /\ h \in 0 .. N - 1 /\ t \in 0 .. N - 1 /\ Pos = 0 .. N - 1
  BY SerialAssumption DEF N, Pos
<1>2. B2 \in [Pos -> Byte] /\ next(h) \in Pos
  BY NextPos
<1>3. /\ r \in Seq(Byte) /\ Len(r) = Count(h, t) /\ Count(h, t) \in 0 .. N - 1
      /\ \A k \in 1 .. Count(h, t) : r[k] = B[At(t, k)] /\ At(t, k) \in Pos
      /\ Count(h, t) # N - 1
  BY RingIs
<1>4. /\ r2 \in Seq(Byte) /\ Len(r2) = Count(next(h), t)
      /\ \A k \in 1 .. Count(next(h), t) : r2[k] = B2[At(t, k)] /\ At(t, k) \in Pos
  <2> HIDE DEF B2
  <2>1. QED
    BY <1>2, RingIs
<1>c. Count(h, t) = IF t <= h THEN h - t ELSE h + N - t
  BY CountIs
<1>5. Count(next(h), t) = Count(h, t) + 1
  <2>1. Count(next(h), t) = IF t <= next(h) THEN next(h) - t ELSE next(h) + N - t
    BY <1>2, CountIs
  <2>2. next(h) = IF h = N - 1 THEN 0 ELSE h + 1
    BY NextIs
  <2>3. QED
    BY <1>1, <1>c, <2>1, <2>2
<1>6. \A k \in 1 .. Count(h, t) : At(t, k) # h
  <2> SUFFICES ASSUME NEW k \in 1 .. Count(h, t) PROVE At(t, k) # h
    OBVIOUS
  <2>1. k \in 1 .. N
    BY <1>1, <1>3
  <2>2. At(t, k) = IF t + k - 1 < N THEN t + k - 1 ELSE t + k - 1 - N
    BY <2>1, AtIs
  <2>3. QED
    BY <1>1, <1>c, <2>1, <2>2
<1>7. At(t, Count(h, t) + 1) = h
  <2> DEFINE k == Count(h, t) + 1
  <2>1. k \in 1 .. N
    BY <1>1, <1>3
  <2>2. At(t, k) = IF t + k - 1 < N THEN t + k - 1 ELSE t + k - 1 - N
    BY <2>1, AtIs
  <2>3. QED
    BY <1>1, <1>c, <2>1, <2>2
<1> HIDE DEF r, r2, a, B2
<1>8. /\ a \in Seq(Byte) /\ Len(a) = Len(r) + 1 /\ a[Len(r) + 1] = b
      /\ \A k \in 1 .. Len(r) : a[k] = r[k]
  BY <1>3, AppendProperties DEF a
<1>9. ASSUME NEW k \in 1 .. Len(r2) PROVE r2[k] = a[k]
  <2>1. CASE k \in 1 .. Count(h, t)
    <3>1. r2[k] = B2[At(t, k)] /\ At(t, k) \in Pos /\ At(t, k) # h
      BY <1>4, <1>6, <1>9, <2>1
    <3>2. QED
      BY <1>3, <1>8, <2>1, <3>1 DEF B2
  <2>2. CASE k = Count(h, t) + 1
    BY <1>3, <1>4, <1>5, <1>7, <1>8, <1>9, <2>2 DEF B2
  <2>3. QED
    BY <1>3, <1>4, <1>5, <1>9, <2>1, <2>2
<1>10. r2 = a
  BY <1>3, <1>4, <1>5, <1>8, <1>9, SeqEqual
<1>11. Len(r) < N - 1
  BY <1>1, <1>3
<1>12. QED
  BY <1>10, <1>11 DEF r, r2, a, B2

\* take() from a queue that is not empty.
LEMMA RingGet ==
    ASSUME NEW B \in [Pos -> Byte], NEW h \in Pos, NEW t \in Pos, h # t
    PROVE  /\ Ring(B, h, t) # <<>> /\ B[t] = Head(Ring(B, h, t))
           /\ Ring(B, h, next(t)) = Tail(Ring(B, h, t))
<1> DEFINE r == Ring(B, h, t)
           r2 == Ring(B, h, next(t))
           a == Tail(r)
<1>1. N \in Nat \ {0, 1} /\ h \in 0 .. N - 1 /\ t \in 0 .. N - 1 /\ Pos = 0 .. N - 1
  BY SerialAssumption DEF N, Pos
<1>2. next(t) \in Pos
  BY NextPos
<1>3. /\ r \in Seq(Byte) /\ Len(r) = Count(h, t) /\ Count(h, t) \in 0 .. N - 1
      /\ \A k \in 1 .. Count(h, t) : r[k] = B[At(t, k)] /\ At(t, k) \in Pos
      /\ r # <<>> /\ Count(h, t) # 0
  BY RingIs
<1>4. /\ r2 \in Seq(Byte) /\ Len(r2) = Count(h, next(t))
      /\ \A k \in 1 .. Count(h, next(t)) : r2[k] = B[At(next(t), k)]
  BY <1>2, RingIs
<1>5. Count(h, next(t)) = Count(h, t) - 1
  <2>1. Count(h, next(t)) = IF next(t) <= h THEN h - next(t) ELSE h + N - next(t)
    BY <1>2, CountIs
  <2>2. next(t) = IF t = N - 1 THEN 0 ELSE t + 1
    BY NextIs
  <2>3. Count(h, t) = IF t <= h THEN h - t ELSE h + N - t
    BY CountIs
  <2>4. QED
    BY <1>1, <2>1, <2>2, <2>3
<1>6. \A k \in 1 .. Count(h, t) - 1 : At(next(t), k) = At(t, k + 1)
  <2> SUFFICES ASSUME NEW k \in 1 .. Count(h, t) - 1 PROVE At(next(t), k) = At(t, k + 1)
    OBVIOUS
  <2>1. k \in 1 .. N /\ k + 1 \in 1 .. N
    BY <1>1, <1>3
  <2>2. At(next(t), k) = IF next(t) + k - 1 < N THEN next(t) + k - 1 ELSE next(t) + k - 1 - N
    BY <1>2, <2>1, AtIs
  <2>3. At(t, k + 1) = IF t + (k + 1) - 1 < N THEN t + (k + 1) - 1 ELSE t + (k + 1) - 1 - N
    BY <2>1, AtIs
  <2>4. next(t) = IF t = N - 1 THEN 0 ELSE t + 1
    BY NextIs
  <2>5. CASE t = N - 1
    BY <1>1, <2>1, <2>2, <2>3, <2>4, <2>5
  <2>6. CASE t # N - 1
    BY <1>1, <2>1, <2>2, <2>3, <2>4, <2>6
  <2>7. QED
    BY <2>5, <2>6
<1>7. At(t, 1) = t
  BY <1>1, AtIs
<1> HIDE DEF r, r2, a
<1>8. /\ a \in Seq(Byte) /\ Len(a) = Len(r) - 1
      /\ \A k \in 1 .. Len(a) : a[k] = r[k + 1]
  BY <1>3, HeadTailProperties DEF a
<1>9. ASSUME NEW k \in 1 .. Len(r2) PROVE r2[k] = a[k]
  <2>1. k \in 1 .. Count(h, t) - 1 /\ k + 1 \in 1 .. Count(h, t)
    BY <1>3, <1>4, <1>5, <1>9
  <2>2. r2[k] = B[At(t, k + 1)]
    BY <1>4, <1>5, <1>6, <2>1
  <2>3. a[k] = r[k + 1] /\ r[k + 1] = B[At(t, k + 1)]
    BY <1>3, <1>8, <2>1
  <2>4. QED
    BY <2>2, <2>3
<1>10. r2 = a
  BY <1>3, <1>4, <1>5, <1>8, <1>9, SeqEqual
<1>11. Head(r) = r[1] /\ 1 \in 1 .. Count(h, t)
  BY <1>3
<1>12. Head(r) = B[t]
  BY <1>3, <1>7, <1>11
<1>13. QED
  BY <1>3, <1>10, <1>12 DEF r, r2, a

\* PutcIntrOff() of a full queue.
LEMMA RingShift ==
    ASSUME NEW B \in [Pos -> Byte], NEW h \in Pos, NEW t \in Pos, NEW b \in Byte,
           next(h) = t
    PROVE  /\ Ring(B, h, t) # <<>> /\ B[t] = Head(Ring(B, h, t))
           /\ Ring([B EXCEPT ![h] = b], next(h), next(t)) = Append(Tail(Ring(B, h, t)), b)
<1>1. N \in Nat \ {0, 1} /\ h \in 0 .. N - 1 /\ t \in 0 .. N - 1
  BY SerialAssumption DEF N, Pos
<1>2. h # t /\ next(h) # next(t) /\ next(t) \in Pos
  BY <1>1, NextIs, NextPos
<1>3. /\ Ring(B, h, t) # <<>> /\ B[t] = Head(Ring(B, h, t))
      /\ Ring(B, h, next(t)) = Tail(Ring(B, h, t))
  BY <1>2, RingGet
<1>4. Ring([B EXCEPT ![h] = b], next(h), next(t)) = Append(Ring(B, h, next(t)), b)
  BY <1>2, RingPut
<1>5. QED
  BY <1>3, <1>4

(***************************************************************************)
(* What a step does to one queue.                                          *)
(***************************************************************************)
Kept(q) == /\ buf'[q] = buf[q] /\ head'[q] = head[q]
           /\ tail'[q] = tail[q] /\ last'[q] = last[q]

Gets(q) == /\ ~ intq_empty(q)
           /\ last'[q] = buf[q][tail[q]] /\ tail'[q] = next(tail[q])
           /\ buf'[q] = buf[q] /\ head'[q] = head[q]

Puts(q, b) == /\ ~ intq_full(q)
              /\ buf'[q] = [buf[q] EXCEPT ![head[q]] = b] /\ head'[q] = next(head[q])
              /\ tail'[q] = tail[q] /\ last'[q] = last[q]

Shifts(q, b) == /\ intq_full(q)
                /\ buf'[q] = [buf[q] EXCEPT ![head[q]] = b] /\ head'[q] = next(head[q])
                /\ last'[q] = buf[q][tail[q]] /\ tail'[q] = next(tail[q])

QueueStep(q) == Kept(q) \/ Gets(q) \/ \E b \in Byte : Puts(q, b) \/ Shifts(q, b)

LEMMA TakeOne ==
    ASSUME TypeOK, NEW q \in Queue, take(q)
    PROVE  /\ last'[q] = buf[q][tail[q]] /\ tail'[q] = next(tail[q])
           /\ \A r \in Queue \ {q} : last'[r] = last[r] /\ tail'[r] = tail[r]
  BY DEF TypeOK, take

LEMMA StoreOne ==
    ASSUME TypeOK, NEW q \in Queue, NEW b \in Byte, store(q, b)
    PROVE  /\ buf'[q] = [buf[q] EXCEPT ![head[q]] = b] /\ head'[q] = next(head[q])
           /\ \A r \in Queue \ {q} : buf'[r] = buf[r] /\ head'[r] = head[r]
  BY DEF TypeOK, store

\* take() alone, store() alone, and neither.
LEMMA TakeSteps ==
    ASSUME TypeOK, NEW q \in Queue, ~ intq_empty(q), take(q), UNCHANGED <<buf, head>>,
           NEW r \in Queue
    PROVE  QueueStep(r)
<1>1. CASE r = q
  <2>1. Gets(q)
    BY TakeOne DEF Gets
  <2>2. QED
    BY <1>1, <2>1 DEF QueueStep
<1>2. CASE r # q
  <2>1. Kept(r)
    BY <1>2, TakeOne DEF Kept
  <2>2. QED
    BY <2>1 DEF QueueStep
<1>3. QED
  BY <1>1, <1>2

LEMMA StoreSteps ==
    ASSUME TypeOK, NEW q \in Queue, NEW b \in Byte, ~ intq_full(q), store(q, b),
           UNCHANGED <<tail, last>>, NEW r \in Queue
    PROVE  QueueStep(r)
<1>1. CASE r = q
  <2>1. Puts(q, b)
    BY StoreOne DEF Puts
  <2>2. QED
    BY <1>1, <2>1 DEF QueueStep
<1>2. CASE r # q
  <2>1. Kept(r)
    BY <1>2, StoreOne DEF Kept
  <2>2. QED
    BY <2>1 DEF QueueStep
<1>3. QED
  BY <1>1, <1>2

LEMMA IdleSteps ==
    ASSUME UNCHANGED queue_vars, NEW r \in Queue
    PROVE  QueueStep(r)
<1>1. Kept(r)
  BY DEF Kept, queue_vars
<1>2. QED
  BY <1>1 DEF QueueStep

\* The call of a thread that does not have to wait.
LEMMA FinishSteps ==
    ASSUME TypeOK, NEW t \in Thread, NEW p, ~ must_wait(queue(t)), finish(t, p),
           NEW r \in Queue
    PROVE  QueueStep(r)
<1>1. CASE t \in Reader
  <2>1. take("buffer") /\ UNCHANGED <<buf, head>> /\ ~ intq_empty("buffer")
    BY <1>1 DEF finish, must_wait, queue
  <2>2. QED
    BY <2>1, TakeSteps DEF Queue
<1>2. CASE t \notin Reader
  <2>1. /\ store("txq", byte[t]) /\ UNCHANGED <<last, tail>> /\ ~ intq_full("txq")
        /\ byte[t] \in Byte
    BY <1>2 DEF finish, must_wait, queue, TypeOK, Thread
  <2>2. QED
    BY <2>1, StoreSteps DEF Queue
<1>3. QED
  BY <1>1, <1>2

LEMMA LoopSteps ==
    ASSUME TypeOK, NEW t \in Thread, loop(t), NEW r \in Queue
    PROVE  QueueStep(r)
<1>1. CASE ~ must_wait(queue(t)) /\ finish(t, pc)
  BY <1>1, FinishSteps
<1>2. CASE wait(t, pc) \/ lock_sleep(t)
  BY <1>2, IdleSteps DEF wait, lock_sleep
<1>3. QED
  BY <1>1, <1>2 DEF loop

LEMMA PutcSteps ==
    ASSUME TypeOK, NEW b \in Byte, PutcIntrOff(b), NEW r \in Queue
    PROVE  QueueStep(r)
<1>0. "txq" \in Queue /\ store("txq", b)
  BY DEF Queue, PutcIntrOff
<1>1. CASE intq_full("txq")
  <2>1. take("txq")
    BY <1>1 DEF PutcIntrOff
  <2>2. CASE r = "txq"
    <3>1. Shifts("txq", b)
      BY <1>0, <1>1, <2>1, TakeOne, StoreOne DEF Shifts
    <3>2. QED
      BY <2>2, <3>1 DEF QueueStep
  <2>3. CASE r # "txq"
    <3>1. last'[r] = last[r] /\ tail'[r] = tail[r]
      BY <1>0, <2>1, <2>3, TakeOne
    <3>2. buf'[r] = buf[r] /\ head'[r] = head[r]
      BY <1>0, <2>3, StoreOne
    <3>3. QED
      BY <3>1, <3>2 DEF QueueStep, Kept
  <2>4. QED
    BY <2>2, <2>3
<1>2. CASE ~ intq_full("txq")
  <2>1. UNCHANGED <<tail, last>>
    BY <1>2 DEF PutcIntrOff
  <2>2. QED
    BY <1>0, <1>2, <2>1, StoreSteps
<1>3. QED
  BY <1>1, <1>2

\* Every step does one of the four to each queue.
LEMMA QueueSteps ==
    ASSUME IInv, [Next]_vars, NEW r \in Queue
    PROVE  QueueStep(r)
<1>0. TypeOK /\ "buffer" \in Queue /\ "txq" \in Queue
  BY DEF IInv, Queue
<1>1. ASSUME NEW t \in Reader, InputGetc(t) PROVE QueueStep(r)
  BY <1>0, <1>1, LoopSteps DEF InputGetc, Thread
<1>2. ASSUME NEW w \in Writer, SerialPutc(w) PROVE QueueStep(r)
  BY <1>0, <1>2, LoopSteps DEF SerialPutc, Thread
<1>3. ASSUME NEW w \in Writer, NEW b \in Byte, AcquireConsole(w, b) PROVE QueueStep(r)
  BY <1>3, IdleSteps DEF AcquireConsole
<1>4. ASSUME NEW t \in Thread, LockAcquire(t) PROVE QueueStep(r)
  <2>1. UNCHANGED queue_vars
    BY <1>4 DEF LockAcquire, lock_sleep, wait
  <2>2. QED
    BY <2>1, IdleSteps
<1>5. ASSUME NEW t \in Thread, Woken(t) PROVE QueueStep(r)
  <2>1. CASE ~ must_wait(queue(t)) /\ finish(t, woken_next(queue(t)))
    BY <1>0, <2>1, FinishSteps
  <2>2. CASE wait(t, woken_next(queue(t)))
    BY <2>2, IdleSteps DEF wait
  <2>3. QED
    BY <1>5, <2>1, <2>2 DEF Woken
<1>6. ASSUME NEW b \in Byte, PutcIntrOff(b) PROVE QueueStep(r)
  BY <1>0, <1>6, PutcSteps
<1>7. ASSUME NEW b \in Byte, KbdInterrupt(b) \/ SerialReceive(b) PROVE QueueStep(r)
  <2>1. ~ intq_full("buffer") /\ store("buffer", b) /\ UNCHANGED <<tail, last>>
    BY <1>7 DEF KbdInterrupt, SerialReceive
  <2>2. QED
    BY <1>0, <2>1, StoreSteps
<1>8. CASE SerialTransmit
  <2>1. ~ intq_empty("txq") /\ take("txq") /\ UNCHANGED <<buf, head>>
    BY <1>8 DEF SerialTransmit
  <2>2. QED
    BY <1>0, <2>1, TakeSteps
<1>9. CASE UNCHANGED vars
  BY <1>9, IdleSteps DEF vars
<1>10. QED
  BY <1>1, <1>2, <1>3, <1>4, <1>5, <1>6, <1>7, <1>8, <1>9 DEF Next, Run, Interrupt, Panic

LEMMA QueuedIs ==
    ASSUME NEW q \in Queue
    PROVE  /\ queued(q) = Ring(buf[q], head[q], tail[q])
           /\ queued(q)' = Ring(buf'[q], head'[q], tail'[q])
  BY DEF queued, Ring, Count, At, N

\* And that is a step of a bounded queue.
FifoStep(q) ==
    \/ queued(q)' = queued(q) /\ last'[q] = last[q]
    \/ queued(q) # <<>> /\ last'[q] = Head(queued(q)) /\ queued(q)' = Tail(queued(q))
    \/ \E b \in Byte : /\ Len(queued(q)) < INTQ_BUFSIZE - 1
                       /\ queued(q)' = Append(queued(q), b) /\ last'[q] = last[q]
    \/ \E b \in Byte : /\ queued(q) # <<>> /\ last'[q] = Head(queued(q))
                       /\ queued(q)' = Append(Tail(queued(q)), b)

LEMMA FifoSteps ==
    ASSUME TypeOK, NEW q \in Queue, QueueStep(q)
    PROVE  FifoStep(q)
<1>0. buf[q] \in [Pos -> Byte] /\ head[q] \in Pos /\ tail[q] \in Pos
  BY DEF TypeOK
<1>1. CASE Kept(q)
  BY <1>1, QueuedIs DEF Kept, FifoStep
<1>2. CASE Gets(q)
  <2>1. head[q] # tail[q]
    BY <1>2 DEF Gets, intq_empty
  <2>2. /\ Ring(buf[q], head[q], tail[q]) # <<>>
        /\ buf[q][tail[q]] = Head(Ring(buf[q], head[q], tail[q]))
        /\ Ring(buf[q], head[q], next(tail[q])) = Tail(Ring(buf[q], head[q], tail[q]))
    BY <1>0, <2>1, RingGet
  <2>3. /\ queued(q) # <<>> /\ last'[q] = Head(queued(q)) /\ queued(q)' = Tail(queued(q))
    BY <1>2, <2>2, QueuedIs DEF Gets
  <2>4. QED
    BY <2>3 DEF FifoStep
<1>3. ASSUME NEW b \in Byte, Puts(q, b) PROVE FifoStep(q)
  <2>1. next(head[q]) # tail[q]
    BY <1>3 DEF Puts, intq_full
  <2>2. /\ Ring([buf[q] EXCEPT ![head[q]] = b], next(head[q]), tail[q])
             = Append(Ring(buf[q], head[q], tail[q]), b)
        /\ Len(Ring(buf[q], head[q], tail[q])) < N - 1
    BY <1>0, <2>1, RingPut
  <2>3. /\ Len(queued(q)) < INTQ_BUFSIZE - 1
        /\ queued(q)' = Append(queued(q), b) /\ last'[q] = last[q]
    BY <1>3, <2>2, QueuedIs DEF Puts, N
  <2>4. QED
    BY <2>3 DEF FifoStep
<1>4. ASSUME NEW b \in Byte, Shifts(q, b) PROVE FifoStep(q)
  <2>1. next(head[q]) = tail[q]
    BY <1>4 DEF Shifts, intq_full
  <2>2. /\ Ring(buf[q], head[q], tail[q]) # <<>>
        /\ buf[q][tail[q]] = Head(Ring(buf[q], head[q], tail[q]))
        /\ Ring([buf[q] EXCEPT ![head[q]] = b], next(head[q]), next(tail[q]))
             = Append(Tail(Ring(buf[q], head[q], tail[q])), b)
    BY <1>0, <2>1, RingShift
  <2>3. /\ queued(q) # <<>> /\ last'[q] = Head(queued(q))
        /\ queued(q)' = Append(Tail(queued(q)), b)
    BY <1>4, <2>2, QueuedIs DEF Shifts
  <2>4. QED
    BY <2>3 DEF FifoStep
<1>5. QED
  BY <1>1, <1>2, <1>3, <1>4 DEF QueueStep

LEMMA EmptyAtFirst ==
    ASSUME Init, NEW q \in Queue
    PROVE  queued(q) = <<>> /\ last[q] \in Byte
<1>1. TypeOK /\ head[q] = tail[q]
  BY IInvInit DEF IInv, Init
<1>2. buf[q] \in [Pos -> Byte] /\ head[q] \in Pos /\ tail[q] \in Pos /\ last[q] \in Byte
  BY <1>1 DEF TypeOK
<1>3. Ring(buf[q], head[q], tail[q]) = <<>>
  BY <1>1, <1>2, RingIs
<1>4. QED
  BY <1>2, <1>3, QueuedIs

\* The input buffer gives out every byte once and in the order in which the
\* keyboard and the port stored them, whoever reads, and never holds more than
\* INTQ_BUFSIZE - 1, for any buffer size and any readers.
THEOREM InputInOrder == Spec => InputIsFifo
<1>1. Init => InputQueue!Init
  BY EmptyAtFirst DEF InputQueue!Init, Queue
<1>2. IInv /\ [Next]_vars => [InputQueue!Next]_<<queued("buffer"), last["buffer"]>>
  <2>1. ASSUME IInv, [Next]_vars PROVE FifoStep("buffer")
    BY <2>1, QueueSteps, FifoSteps DEF IInv, Queue
  <2>2. QED
    BY <2>1 DEF FifoStep, InputQueue!Next, InputQueue!Get, InputQueue!Put, InputQueue!Shift
<1>3. QED
  BY <1>1, <1>2, SerialInvariant, PTL DEF Spec, InputIsFifo, InputQueue!Spec

\* The port is given every byte once and in the order of serial_putc(),
\* although interrupts, threads and polling take from the same queue.
THEOREM OutputInOrder == Spec => OutputIsFifo
<1>1. Init => OutputQueue!Init
  BY EmptyAtFirst DEF OutputQueue!Init, Queue
<1>2. IInv /\ [Next]_vars => [OutputQueue!Next]_<<queued("txq"), last["txq"]>>
  <2>1. ASSUME IInv, [Next]_vars PROVE FifoStep("txq")
    BY <2>1, QueueSteps, FifoSteps DEF IInv, Queue
  <2>2. QED
    BY <2>1 DEF FifoStep, OutputQueue!Next, OutputQueue!Get, OutputQueue!Put, OutputQueue!Shift
<1>3. QED
  BY <1>1, <1>2, SerialInvariant, PTL DEF Spec, OutputIsFifo, OutputQueue!Spec
=============================================================================
