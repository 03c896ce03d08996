---------------------------- MODULE ThreadsProofs ----------------------------
(***************************************************************************)
(* Proofs about Threads for any threads, locks, semaphores and conditions: *)
(* first the lists, then the synchronization primitives: mutual exclusion, *)
(* unique identifiers, no lost wakeup and no lost signal, and that locks   *)
(* and conditions implement Monitor.                                       *)
(***************************************************************************)
EXTENDS Threads, TLAPS, SequenceTheorems, FiniteSetTheorems

-----------------------------------------------------------------------------
(***************************************************************************)
(* Lists without repetitions.                                              *)
(***************************************************************************)

\* list_push_back() adds the element at the end.
LEMMA PushBack ==
    ASSUME NEW S, NEW q \in Seq(S), NEW x \in S
    PROVE  /\ Append(q, x) \in Seq(S)
           /\ Range(Append(q, x)) = Range(q) \cup {x}
           /\ IsInjective(q) /\ x \notin Range(q) => IsInjective(Append(q, x))
<1> DEFINE r == Append(q, x)
<1>1. /\ r \in Seq(S) /\ Len(r) = Len(q) + 1 /\ Len(q) \in Nat
      /\ \A i \in 1 .. Len(q) : r[i] = q[i]
      /\ r[Len(q) + 1] = x
      /\ DOMAIN q = 1 .. Len(q) /\ DOMAIN r = 1 .. Len(q) + 1
  OBVIOUS
<1>2. Range(r) \subseteq Range(q) \cup {x}
  BY <1>1 DEF Range
<1>3. Range(q) \cup {x} \subseteq Range(r)
  BY <1>1 DEF Range
<1>4. ASSUME IsInjective(q), x \notin Range(q) PROVE IsInjective(r)
  BY <1>1, <1>4 DEF Range, IsInjective
<1>5. QED
  BY <1>1, <1>2, <1>3, <1>4

\* list_pop_front() removes the first element and no other.
LEMMA PopFront ==
    ASSUME NEW S, NEW q \in Seq(S), q # <<>>, IsInjective(q)
    PROVE  /\ Head(q) \in Range(q) /\ Head(q) \in S
           /\ Tail(q) \in Seq(S)
           /\ IsInjective(Tail(q))
           /\ Range(Tail(q)) = Range(q) \ {Head(q)}
<1> DEFINE r == Tail(q)
<1>1. /\ Len(q) \in Nat /\ Len(q) >= 1 /\ DOMAIN q = 1 .. Len(q)
      /\ r \in Seq(S) /\ Len(r) = Len(q) - 1 /\ DOMAIN r = 1 .. Len(q) - 1
      /\ \A i \in 1 .. Len(q) - 1 : r[i] = q[i + 1]
      /\ Head(q) = q[1] /\ Head(q) \in S
  BY EmptySeq, LenProperties, HeadTailProperties
<1>2. Head(q) \in Range(q)
  BY <1>1 DEF Range
<1>3. IsInjective(r)
  BY <1>1 DEF IsInjective
<1>4. ASSUME NEW y \in Range(r) PROVE y \in Range(q) \ {Head(q)}
  <2>1. PICK i \in 1 .. Len(q) - 1 : y = q[i + 1]
    BY <1>1 DEF Range
  <2>2. QED
    BY <1>1, <2>1 DEF Range, IsInjective
<1>5. ASSUME NEW y \in Range(q) \ {Head(q)} PROVE y \in Range(r)
  <2>1. PICK i \in 2 .. Len(q) : y = q[i]
    BY <1>1 DEF Range
  <2>2. i - 1 \in 1 .. Len(q) - 1 /\ r[i - 1] = y
    BY <1>1, <2>1
  <2>3. QED
    BY <1>1, <2>2 DEF Range
<1>6. QED
  BY <1>1, <1>2, <1>3, <1>4, <1>5

\* An empty list has no elements; a list over S has only elements of S.
LEMMA EmptyList ==
    ASSUME NEW S, NEW q \in Seq(S)
    PROVE  /\ IsInjective(<<>>) /\ Range(<<>>) = {}
           /\ q # <<>> <=> Range(q) # {}
           /\ Range(q) \subseteq S
<1>1. IsInjective(<<>>) /\ Range(<<>>) = {}
  BY DEF IsInjective, Range
<1>2. q # <<>> => q[1] \in Range(q)
  BY EmptySeq, LenProperties DEF Range
<1>3. Range(q) \subseteq S
  BY DEF Range
<1>4. QED
  BY <1>1, <1>2, <1>3

-----------------------------------------------------------------------------
(***************************************************************************)
(* Type correctness, with what a thread's place in the code says about its *)
(* calls.                                                                  *)
(***************************************************************************)

\* schedule() picks a thread and leaves a well-typed run queue.
LEMMA ScheduleType ==
    ASSUME NEW st \in [Thread -> Status], NEW q \in Seq(Thread), schedule(st, q)
    PROVE  /\ current' \in Thread
           /\ status' \in [Thread -> Status]
           /\ ready_list' \in Seq(Thread)
           /\ thread_ticks' \in 0 .. TIME_SLICE - 1
  BY ThreadAssumption, BoundAssumption
     DEF schedule, next_thread_to_run, thread_schedule_tail, Status

\* sema_down() leaves the scheduler and the semaphore it is given well typed.
LEMMA SemaDownType ==
    ASSUME TypeOK, NEW s \in Semaphore, sema_down(s)
    PROVE  /\ current' \in Thread
           /\ status' \in [Thread -> Status]
           /\ ready_list' \in Seq(Thread)
           /\ thread_ticks' \in 0 .. TIME_SLICE - 1
           /\ value' \in [Semaphore -> Nat]
           /\ waiters' \in [Semaphore -> Seq(Thread)]
           /\ pc' \in [Thread -> PC]
           /\ sem' \in [Thread -> Semaphore \cup {NULL}]
<1>1. CASE value[s] = 0
  <2>1. /\ thread_block
        /\ waiters' = [waiters EXCEPT ![s] = Append(@, current)]
        /\ pc' = [pc EXCEPT ![current] = "down"]
        /\ sem' = [sem EXCEPT ![current] = s]
        /\ UNCHANGED value
    BY <1>1 DEF sema_down
  <2>2. [status EXCEPT ![current] = "blocked"] \in [Thread -> Status]
    BY DEF TypeOK, Status
  <2>3. /\ current' \in Thread
        /\ status' \in [Thread -> Status]
        /\ ready_list' \in Seq(Thread)
        /\ thread_ticks' \in 0 .. TIME_SLICE - 1
    BY <2>1, <2>2, ScheduleType DEF thread_block, TypeOK
  <2>4. waiters' \in [Semaphore -> Seq(Thread)]
    BY <2>1 DEF TypeOK
  <2>5. pc' \in [Thread -> PC] /\ sem' \in [Thread -> Semaphore \cup {NULL}]
    BY <2>1 DEF TypeOK, PC
  <2>6. QED
    BY <2>1, <2>3, <2>4, <2>5 DEF TypeOK
<1>2. CASE value[s] > 0
  <2>1. /\ value' = [value EXCEPT ![s] = @ - 1]
        /\ \E p \in PC : pc' = [pc EXCEPT ![current] = p]
        /\ \E x \in Semaphore \cup {NULL} : sem' = [sem EXCEPT ![current] = x]
        /\ UNCHANGED <<current, status, ready_list, thread_ticks, waiters>>
    BY <1>2 DEF sema_down, PC, sched_vars
  <2>2. value' \in [Semaphore -> Nat]
    BY <1>2, <2>1 DEF TypeOK
  <2>3. QED
    BY <2>1, <2>2 DEF TypeOK
<1>3. QED
  BY <1>1, <1>2 DEF TypeOK

\* So does sema_up(), which only takes threads from a list of threads.
LEMMA SemaUpType ==
    ASSUME TypeOK, NEW s \in Semaphore, sema_up(s)
    PROVE  /\ current' \in Thread
           /\ status' \in [Thread -> Status]
           /\ ready_list' \in Seq(Thread)
           /\ thread_ticks' \in 0 .. TIME_SLICE - 1
           /\ value' \in [Semaphore -> Nat]
           /\ waiters' \in [Semaphore -> Seq(Thread)]
<1>1. value' \in [Semaphore -> Nat]
  BY DEF sema_up, TypeOK
<1>2. CASE waiters[s] = <<>>
  BY <1>1, <1>2 DEF sema_up, sched_vars, TypeOK
<1>3. CASE waiters[s] # <<>>
  <2>1. /\ waiters' = [waiters EXCEPT ![s] = Tail(@)]
        /\ thread_unblock(Head(waiters[s]))
    BY <1>3 DEF sema_up
  <2>2. Head(waiters[s]) \in Thread /\ Tail(waiters[s]) \in Seq(Thread)
    BY <1>3 DEF TypeOK
  <2>3. waiters' \in [Semaphore -> Seq(Thread)]
    BY <2>1, <2>2 DEF TypeOK
  <2>4. QED
    BY <1>1, <2>1, <2>2, <2>3 DEF thread_unblock, TypeOK, Status
<1>4. QED
  BY <1>2, <1>3

\* A step of thread t changes the call state of no other thread.
LEMMA CallInvStep ==
    ASSUME TypeOK, CallInv, NEW t \in Thread, t # idle_thread,
           NEW p \in PC, NEW s \in Semaphore \cup {NULL},
           NEW f \in Cond \cup Thread \cup {NULL},
           pc' = [pc EXCEPT ![t] = p],
           sem' = [sem EXCEPT ![t] = s],
           frame' = [frame EXCEPT ![t] = f],
           CallsMatch(t)'
    PROVE  CallInv'
<1>1. ASSUME NEW u \in Thread, u # t PROVE CallsMatch(u)'
  <2>1. pc'[u] = pc[u] /\ sem'[u] = sem[u] /\ frame'[u] = frame[u]
    BY <1>1 DEF TypeOK
  <2>2. CallsMatch(u)
    BY DEF CallInv
  <2>3. QED
    BY <2>1, <2>2 DEF CallsMatch
<1>2. pc'[idle_thread] = "free"
  BY ThreadAssumption DEF TypeOK, CallInv
<1>3. QED
  BY <1>1, <1>2 DEF CallInv

\* A thread that calls sema_down() is left at a place that matches its
\* arguments: still in the loop, or past it in the function that called.
LEMMA SemaDownCalls ==
    ASSUME TypeOK, CallInv, NEW s \in Semaphore, current # idle_thread,
           sema_down(s), UNCHANGED frame,
           \/ s = tid_lock /\ frame[current] \in Thread
           \/ s \in Lock \ {tid_lock} /\ frame[current] = NULL
           \/ frame[current] \in Cond /\ s = CondLock[frame[current]]
           \/ s \in Sema /\ frame[current] = NULL
           \/ s = current /\ frame[current] \in Cond
    PROVE  CallInv'
<1> DEFINE t == current
<1>1. t \in Thread /\ frame[t] \in Cond \cup Thread \cup {NULL}
  BY DEF TypeOK
<1>2. frame' = [frame EXCEPT ![t] = frame[t]]
  BY DEF TypeOK
<1>3. CASE value[s] = 0
  <2>1. pc' = [pc EXCEPT ![t] = "down"] /\ sem' = [sem EXCEPT ![t] = s]
    BY <1>3 DEF sema_down
  <2>2. pc'[t] = "down" /\ sem'[t] = s /\ frame'[t] = frame[t]
    BY <1>1, <1>2, <2>1 DEF TypeOK
  <2>3. \A u \in Thread : u = t => CallsMatch(u)'
    BY <2>2, ObjectAssumption DEF CallsMatch
  <2>4. QED
    BY <1>1, <1>2, <2>1, <2>3, CallInvStep DEF PC
<1>4. CASE value[s] > 0 /\ s \in Lock
  <2>1. pc' = [pc EXCEPT ![t] = "acquired"] /\ sem' = [sem EXCEPT ![t] = s]
    BY <1>4 DEF sema_down
  <2>2. pc'[t] = "acquired" /\ sem'[t] = s /\ frame'[t] = frame[t]
    BY <1>1, <1>2, <2>1 DEF TypeOK
  <2>3. \A u \in Thread : u = t => CallsMatch(u)'
    BY <1>1, <1>4, <2>2, ObjectAssumption DEF CallsMatch
  <2>4. QED
    BY <1>1, <1>2, <2>1, <2>3, CallInvStep DEF PC
<1>5. CASE value[s] > 0 /\ s \notin Lock
  <2> DEFINE p == IF s \in Thread THEN "signaled" ELSE "free"
  <2>1. pc' = [pc EXCEPT ![t] = p] /\ sem' = [sem EXCEPT ![t] = NULL]
    BY <1>5 DEF sema_down
  <2>2. pc'[t] = p /\ sem'[t] = NULL /\ frame'[t] = frame[t]
    BY <1>1, <1>2, <2>1 DEF TypeOK
  <2>3. \A u \in Thread : u = t => CallsMatch(u)'
    BY <1>1, <1>5, <2>2, ObjectAssumption DEF CallsMatch
  <2>4. QED
    BY <1>1, <1>2, <2>1, <2>3, CallInvStep DEF PC
<1>6. QED
  BY <1>3, <1>4, <1>5 DEF TypeOK
\* The scheduler's entry points keep its variables in their types.
LEMMA SwitchType ==
    ASSUME TypeOK,
           \/ thread_yield
           \/ thread_block
           \/ schedule([status EXCEPT ![current] = "dying"], ready_list)
    PROVE  /\ current' \in Thread
           /\ status' \in [Thread -> Status]
           /\ ready_list' \in Seq(Thread)
           /\ thread_ticks' \in 0 .. TIME_SLICE - 1
<1>1. \A x \in Status : [status EXCEPT ![current] = x] \in [Thread -> Status]
  BY DEF TypeOK
<1>2. Append(ready_list, current) \in Seq(Thread)
  BY DEF TypeOK
<1>3. CASE thread_yield
  BY <1>1, <1>2, <1>3, ScheduleType DEF thread_yield, TypeOK, Status
<1>4. CASE thread_block
  BY <1>1, <1>4, ScheduleType DEF thread_block, TypeOK, Status
<1>5. CASE schedule([status EXCEPT ![current] = "dying"], ready_list)
  BY <1>1, <1>5, ScheduleType DEF TypeOK, Status
<1>6. QED
  BY <1>3, <1>4, <1>5

\* cond_signal() ups the semaphore of a waiting thread.
LEMMA CondSignalType ==
    ASSUME TypeOK, NEW c \in Cond, cond_signal(c),
           UNCHANGED <<holder, pc, sem, frame, tid, next_tid>>
    PROVE  TypeOK'
<1>1. /\ Head(cond_waiters[c]) \in Semaphore
      /\ cond_waiters' \in [Cond -> Seq(Thread)]
  BY SMTT(30) DEF cond_signal, TypeOK, Semaphore
<1>2. sema_up(Head(cond_waiters[c]))
  BY DEF cond_signal
<1>3. QED
  BY <1>1, <1>2, SemaUpType DEF TypeOK

TypeInv == TypeOK /\ CallInv

\* Every step keeps the variables in their types and each thread's call
\* arguments consistent with its place in the code.
LEMMA TypeInvStep == TypeInv /\ [Next]_vars => TypeInv'
<1> SUFFICES ASSUME TypeInv, [Next]_vars PROVE TypeInv'
  OBVIOUS
<1> USE DEF TypeInv
<1>0. current \in Thread /\ CallsMatch(current)
  BY DEF TypeOK, CallInv
<1>1. ASSUME NEW s \in Sema, SemaDown(s) PROVE TypeInv'
  <2>1. s \in Semaphore /\ sema_down(s) /\ current # idle_thread
    BY <1>0, <1>1, ObjectAssumption DEF SemaDown, At, CallsMatch, Semaphore
  <2>2. UNCHANGED <<holder, cond_waiters, frame, tid, next_tid>>
    BY <1>1 DEF SemaDown, tid_vars
  <2>3. s \in Sema /\ frame[current] = NULL
    BY <1>0, <1>1, ObjectAssumption DEF SemaDown, At, CallsMatch
  <2>4. TypeOK'
    BY <2>1, <2>2, SemaDownType DEF TypeOK
  <2>5. CallInv'
    BY <2>1, <2>2, <2>3, SemaDownCalls
  <2>6. QED
    BY <2>4, <2>5
<1>2. CASE SemaDownLoop
  <2>1. sem[current] \in Semaphore /\ sema_down(sem[current]) /\ current # idle_thread
    BY <1>0, <1>2, ObjectAssumption DEF SemaDownLoop, At, CallsMatch, Semaphore
  <2>2. UNCHANGED <<holder, cond_waiters, frame, tid, next_tid>>
    BY <1>2 DEF SemaDownLoop, tid_vars
  <2>3. \/ sem[current] = tid_lock /\ frame[current] \in Thread
        \/ sem[current] \in Lock \ {tid_lock} /\ frame[current] = NULL
        \/ frame[current] \in Cond /\ sem[current] = CondLock[frame[current]]
        \/ sem[current] \in Sema /\ frame[current] = NULL
        \/ sem[current] = current /\ frame[current] \in Cond
    BY <1>0, <1>2, ObjectAssumption DEF SemaDownLoop, At, CallsMatch
  <2>4. TypeOK'
    BY <2>1, <2>2, SemaDownType DEF TypeOK
  <2>5. CallInv'
    BY <2>1, <2>2, <2>3, SemaDownCalls
  <2>6. QED
    BY <2>4, <2>5
<1>3. ASSUME NEW l \in Lock \ {tid_lock}, LockAcquire(l) PROVE TypeInv'
  <2>1. l \in Semaphore /\ sema_down(l) /\ current # idle_thread
    BY <1>0, <1>3, ObjectAssumption DEF LockAcquire, At, CallsMatch, Semaphore
  <2>2. UNCHANGED <<holder, cond_waiters, frame, tid, next_tid>>
    BY <1>3 DEF LockAcquire, tid_vars
  <2>3. l \in Lock \ {tid_lock} /\ frame[current] = NULL
    BY <1>0, <1>3, ObjectAssumption DEF LockAcquire, At, CallsMatch
  <2>4. TypeOK'
    BY <2>1, <2>2, SemaDownType DEF TypeOK
  <2>5. CallInv'
    BY <2>1, <2>2, <2>3, SemaDownCalls
  <2>6. QED
    BY <2>4, <2>5
<1>4. CASE CondSleep
  <2>1. current \in Semaphore /\ sema_down(current) /\ current # idle_thread
    BY <1>0, <1>4, ObjectAssumption DEF CondSleep, At, CallsMatch, Semaphore
  <2>2. UNCHANGED <<holder, cond_waiters, frame, tid, next_tid>>
    BY <1>4 DEF CondSleep, tid_vars
  <2>3. frame[current] \in Cond
    BY <1>0, <1>4, ObjectAssumption DEF CondSleep, At, CallsMatch
  <2>4. TypeOK'
    BY <2>1, <2>2, SemaDownType DEF TypeOK
  <2>5. CallInv'
    BY <2>1, <2>2, <2>3, SemaDownCalls
  <2>6. QED
    BY <2>4, <2>5
<1>5. CASE CondReacquire
  <2>1. CondLock[frame[current]] \in Semaphore /\ sema_down(CondLock[frame[current]]) /\ current # idle_thread
    BY <1>0, <1>5, ObjectAssumption DEF CondReacquire, At, CallsMatch, Semaphore
  <2>2. UNCHANGED <<holder, cond_waiters, frame, tid, next_tid>>
    BY <1>5 DEF CondReacquire, tid_vars
  <2>3. frame[current] \in Cond
    BY <1>0, <1>5, ObjectAssumption DEF CondReacquire, At, CallsMatch
  <2>4. TypeOK'
    BY <2>1, <2>2, SemaDownType DEF TypeOK
  <2>5. CallInv'
    BY <2>1, <2>2, <2>3, SemaDownCalls
  <2>6. QED
    BY <2>4, <2>5
<1>6. CASE AllocateTid
  <2>1. tid_lock \in Semaphore /\ sema_down(tid_lock) /\ current # idle_thread
    BY <1>0, <1>6, ObjectAssumption DEF AllocateTid, At, CallsMatch, Semaphore
  <2>2. UNCHANGED <<holder, cond_waiters, frame, tid, next_tid>>
    BY <1>6 DEF AllocateTid, tid_vars
  <2>3. frame[current] \in Thread
    BY <1>0, <1>6, ObjectAssumption DEF AllocateTid, At, CallsMatch
  <2>4. TypeOK'
    BY <2>1, <2>2, SemaDownType DEF TypeOK
  <2>5. CallInv'
    BY <2>1, <2>2, <2>3, SemaDownCalls
  <2>6. QED
    BY <2>4, <2>5
<1>7. ASSUME NEW s \in Sema, SemaUp(s) PROVE TypeInv'
  <2>1. s \in Semaphore /\ sema_up(s)
    BY <1>7 DEF SemaUp, Semaphore
  <2>2. UNCHANGED <<holder, cond_waiters, pc, sem, frame, tid, next_tid>>
    BY <1>7 DEF SemaUp, call_vars, tid_vars
  <2>3. TypeOK'
    BY <2>1, <2>2, SemaUpType DEF TypeOK
  <2>4. QED
    BY <2>2, <2>3 DEF CallInv, CallsMatch
<1>8. ASSUME NEW s \in Sema, DeviceInterrupt(s) PROVE TypeInv'
  <2>1. s \in Semaphore /\ sema_up(s)
    BY <1>8 DEF DeviceInterrupt, Semaphore
  <2>2. UNCHANGED <<holder, cond_waiters, pc, sem, frame, tid, next_tid>>
    BY <1>8 DEF DeviceInterrupt, call_vars, tid_vars
  <2>3. TypeOK'
    BY <2>1, <2>2, SemaUpType DEF TypeOK
  <2>4. QED
    BY <2>2, <2>3 DEF CallInv, CallsMatch
<1>9. ASSUME NEW s \in Sema, SemaTryDown(s) PROVE TypeInv'
  <2>1. TypeOK'
    BY <1>9 DEF SemaTryDown, sched_vars, call_vars, tid_vars, TypeOK, Semaphore
  <2>2. QED
    BY <1>9, <2>1 DEF SemaTryDown, call_vars, CallInv, CallsMatch
<1>10. CASE SetHolder
  <2> DEFINE p == IF frame[current] \in Thread THEN "read_tid" ELSE "free"
             x == NULL
             f == IF frame[current] \in Thread THEN frame[current] ELSE NULL
  <2>1. /\ current # idle_thread
        /\ p \in PC /\ x \in Semaphore \cup {NULL}
        /\ f \in Cond \cup Thread \cup {NULL}
    BY <1>0, <1>10, ObjectAssumption DEF SetHolder, At, PC, TypeOK, Semaphore, CallsMatch
  <2>2. /\ pc' = [pc EXCEPT ![current] = p]
        /\ sem' = [sem EXCEPT ![current] = x]
        /\ frame' = [frame EXCEPT ![current] = f]
    BY <1>0, <1>10 DEF SetHolder, At, TypeOK, CallsMatch
  <2>3. TypeOK'
    BY <1>0, <1>10, <2>1, <2>2, ObjectAssumption, SMTT(30)
       DEF SetHolder, At, sched_vars, call_vars, tid_vars, TypeOK, Semaphore, CallsMatch
  <2>4. pc'[current] = p /\ sem'[current] = x /\ frame'[current] = f
    BY <1>0, <2>2 DEF TypeOK
  <2>5. \A u \in Thread : u = current => CallsMatch(u)'
    BY <1>0, <1>10, <2>4, ObjectAssumption DEF SetHolder, At, CallsMatch
  <2>6. QED
    BY <1>0, <2>1, <2>2, <2>3, <2>5, CallInvStep
<1>11. ASSUME NEW l \in Lock \ {tid_lock}, LockTryAcquire(l) PROVE TypeInv'
  <2> DEFINE p == "acquired"
             x == l
             f == NULL
  <2>1. /\ current # idle_thread
        /\ p \in PC /\ x \in Semaphore \cup {NULL}
        /\ f \in Cond \cup Thread \cup {NULL}
    BY <1>0, <1>11, ObjectAssumption DEF LockTryAcquire, At, PC, TypeOK, Semaphore, CallsMatch
  <2>2. /\ pc' = [pc EXCEPT ![current] = p]
        /\ sem' = [sem EXCEPT ![current] = x]
        /\ frame' = [frame EXCEPT ![current] = f]
    BY <1>0, <1>11 DEF LockTryAcquire, At, TypeOK, CallsMatch
  <2>3. TypeOK'
    BY <1>0, <1>11, <2>1, <2>2, ObjectAssumption, SMTT(30)
       DEF LockTryAcquire, At, sched_vars, call_vars, tid_vars, TypeOK, Semaphore
  <2>4. pc'[current] = p /\ sem'[current] = x /\ frame'[current] = f
    BY <1>0, <2>2 DEF TypeOK
  <2>5. \A u \in Thread : u = current => CallsMatch(u)'
    BY <1>0, <1>11, <2>4, ObjectAssumption DEF LockTryAcquire, At, CallsMatch
  <2>6. QED
    BY <1>0, <2>1, <2>2, <2>3, <2>5, CallInvStep
<1>12. ASSUME NEW l \in Lock \ {tid_lock}, LockRelease(l) PROVE TypeInv'
  <2> DEFINE p == "releasing"
             x == l
             f == NULL
  <2>1. /\ current # idle_thread
        /\ p \in PC /\ x \in Semaphore \cup {NULL}
        /\ f \in Cond \cup Thread \cup {NULL}
    BY <1>0, <1>12, ObjectAssumption DEF LockRelease, At, PC, TypeOK, Semaphore, CallsMatch, clear_holder
  <2>2. /\ pc' = [pc EXCEPT ![current] = p]
        /\ sem' = [sem EXCEPT ![current] = x]
        /\ frame' = [frame EXCEPT ![current] = f]
    BY <1>0, <1>12 DEF LockRelease, At, TypeOK, CallsMatch, clear_holder
  <2>3. TypeOK'
    BY <1>0, <1>12, <2>1, <2>2, ObjectAssumption
       DEF LockRelease, At, sched_vars, call_vars, tid_vars, TypeOK, Semaphore, clear_holder
  <2>4. pc'[current] = p /\ sem'[current] = x /\ frame'[current] = f
    BY <1>0, <2>2 DEF TypeOK
  <2>5. \A u \in Thread : u = current => CallsMatch(u)'
    BY <1>0, <1>12, <2>4, ObjectAssumption DEF LockRelease, At, CallsMatch, clear_holder
  <2>6. QED
    BY <1>0, <2>1, <2>2, <2>3, <2>5, CallInvStep
<1>13. CASE ReleaseUp
  <2> DEFINE p == CASE frame[current] \in Cond -> "wait" [] frame[current] \in Thread -> "created" [] OTHER -> "free"
             x == NULL
             f == frame[current]
  <2>1. /\ current # idle_thread
        /\ p \in PC /\ x \in Semaphore \cup {NULL}
        /\ f \in Cond \cup Thread \cup {NULL}
    BY <1>0, <1>13, ObjectAssumption DEF ReleaseUp, At, PC, TypeOK, Semaphore, CallsMatch
  <2>2. /\ pc' = [pc EXCEPT ![current] = p]
        /\ sem' = [sem EXCEPT ![current] = x]
        /\ frame' = [frame EXCEPT ![current] = f]
    BY <1>0, <1>13 DEF ReleaseUp, At, TypeOK, CallsMatch
  <2>3. TypeOK'
    <3>1. sem[current] \in Semaphore /\ sema_up(sem[current])
      BY <1>0, <1>13 DEF ReleaseUp, At, CallsMatch, Semaphore
    <3>2. UNCHANGED <<holder, cond_waiters, tid, next_tid>>
      BY <1>13 DEF ReleaseUp, tid_vars
    <3>3. QED
      BY <1>0, <2>1, <2>2, <3>1, <3>2, SemaUpType DEF TypeOK
  <2>4. pc'[current] = p /\ sem'[current] = x /\ frame'[current] = f
    BY <1>0, <2>2 DEF TypeOK
  <2>5. \A u \in Thread : u = current => CallsMatch(u)'
    BY <1>0, <1>13, <2>4, ObjectAssumption DEF ReleaseUp, At, CallsMatch
  <2>6. QED
    BY <1>0, <2>1, <2>2, <2>3, <2>5, CallInvStep
<1>14. ASSUME NEW c \in Cond, CondWait(c) PROVE TypeInv'
  <2> DEFINE p == "releasing"
             x == CondLock[c]
             f == c
  <2>1. /\ current # idle_thread
        /\ p \in PC /\ x \in Semaphore \cup {NULL}
        /\ f \in Cond \cup Thread \cup {NULL}
    BY <1>0, <1>14, ObjectAssumption DEF CondWait, At, PC, TypeOK, Semaphore, CallsMatch, clear_holder
  <2>2. /\ pc' = [pc EXCEPT ![current] = p]
        /\ sem' = [sem EXCEPT ![current] = x]
        /\ frame' = [frame EXCEPT ![current] = f]
    BY <1>0, <1>14 DEF CondWait, At, TypeOK, CallsMatch, clear_holder
  <2>3. TypeOK'
    <3>1. /\ value' = [value EXCEPT ![current] = 0]
          /\ waiters' = [waiters EXCEPT ![current] = <<>>]
          /\ cond_waiters' = [cond_waiters EXCEPT ![c] = Append(@, current)]
          /\ holder' = [holder EXCEPT ![CondLock[c]] = NULL]
          /\ UNCHANGED <<current, status, ready_list, thread_ticks, tid, next_tid>>
      BY <1>14 DEF CondWait, clear_holder, sched_vars, tid_vars
    <3>2. value' \in [Semaphore -> Nat] /\ waiters' \in [Semaphore -> Seq(Thread)]
      BY <1>0, <3>1 DEF TypeOK, Semaphore
    <3>3. cond_waiters' \in [Cond -> Seq(Thread)]
      BY <1>0, <3>1 DEF TypeOK
    <3>4. QED
      BY <1>0, <2>1, <2>2, <3>1, <3>2, <3>3, ObjectAssumption DEF TypeOK
  <2>4. pc'[current] = p /\ sem'[current] = x /\ frame'[current] = f
    BY <1>0, <2>2 DEF TypeOK
  <2>5. \A u \in Thread : u = current => CallsMatch(u)'
    BY <1>0, <1>14, <2>4, ObjectAssumption DEF CondWait, At, CallsMatch, clear_holder
  <2>6. QED
    BY <1>0, <2>1, <2>2, <2>3, <2>5, CallInvStep
<1>15. ASSUME NEW c \in Cond, CondSignal(c) PROVE TypeInv'
  <2>1. cond_signal(c) /\ UNCHANGED <<holder, pc, sem, frame, tid, next_tid>>
    BY <1>15 DEF CondSignal, call_vars, tid_vars
  <2>2. QED
    BY <2>1, CondSignalType DEF CallInv, CallsMatch
<1>16. ASSUME NEW c \in Cond, CondBroadcast(c) PROVE TypeInv'
  <2> DEFINE p == "broadcast"
             x == NULL
             f == c
  <2>1. /\ current # idle_thread
        /\ p \in PC /\ x \in Semaphore \cup {NULL}
        /\ f \in Cond \cup Thread \cup {NULL}
    BY <1>0, <1>16, ObjectAssumption DEF CondBroadcast, At, PC, TypeOK, Semaphore, CallsMatch
  <2>2. /\ pc' = [pc EXCEPT ![current] = p]
        /\ sem' = [sem EXCEPT ![current] = x]
        /\ frame' = [frame EXCEPT ![current] = f]
    BY <1>0, <1>16 DEF CondBroadcast, At, TypeOK, CallsMatch
  <2>3. TypeOK'
    BY <1>0, <1>16, <2>1, <2>2, ObjectAssumption
       DEF CondBroadcast, At, sched_vars, call_vars, tid_vars, TypeOK, Semaphore
  <2>4. pc'[current] = p /\ sem'[current] = x /\ frame'[current] = f
    BY <1>0, <2>2 DEF TypeOK
  <2>5. \A u \in Thread : u = current => CallsMatch(u)'
    BY <1>0, <1>16, <2>4, ObjectAssumption DEF CondBroadcast, At, CallsMatch
  <2>6. QED
    BY <1>0, <2>1, <2>2, <2>3, <2>5, CallInvStep
<1>17. CASE CondBroadcastLoop
  <2>1. CASE cond_signal(frame[current]) /\ UNCHANGED <<holder, call_vars, tid_vars>>
    <3>1. frame[current] \in Cond
      BY <1>0, <1>17 DEF CondBroadcastLoop, At, CallsMatch
    <3>2. QED
      BY <2>1, <3>1, CondSignalType DEF CallInv, CallsMatch, call_vars, tid_vars
  <2>2. CASE pc' = [pc EXCEPT ![current] = "free"]
    <3>1. /\ current # idle_thread
          /\ sem[current] = NULL
          /\ frame' = [frame EXCEPT ![current] = NULL]
          /\ UNCHANGED <<sched_vars, value, waiters, holder, cond_waiters, sem, tid_vars>>
      BY <1>0, <1>17, <2>2 DEF CondBroadcastLoop, At, CallsMatch, call_vars, TypeOK
    <3>2. TypeOK'
      BY <1>0, <2>2, <3>1 DEF TypeOK, PC, sched_vars, tid_vars
    <3>3. sem' = [sem EXCEPT ![current] = NULL]
      BY <1>0, <3>1 DEF TypeOK
    <3>4. pc'[current] = "free" /\ sem'[current] = NULL /\ frame'[current] = NULL
      BY <1>0, <2>2, <3>1 DEF TypeOK
    <3>5. \A u \in Thread : u = current => CallsMatch(u)'
      BY <3>4 DEF CallsMatch
    <3>6. QED
      BY <1>0, <2>2, <3>1, <3>2, <3>3, <3>5, CallInvStep DEF PC
  <2>3. QED
    BY <1>17, <2>1, <2>2 DEF CondBroadcastLoop
<1>18. ASSUME NEW t \in Thread, ThreadCreate(t) PROVE TypeInv'
  <2> DEFINE p == "create"
             x == NULL
             f == t
  <2>1. /\ current # idle_thread
        /\ p \in PC /\ x \in Semaphore \cup {NULL}
        /\ f \in Cond \cup Thread \cup {NULL}
    BY <1>0, <1>18, ObjectAssumption DEF ThreadCreate, At, PC, TypeOK, Semaphore, CallsMatch
  <2>2. /\ pc' = [pc EXCEPT ![current] = p]
        /\ sem' = [sem EXCEPT ![current] = x]
        /\ frame' = [frame EXCEPT ![current] = f]
    BY <1>0, <1>18 DEF ThreadCreate, At, TypeOK, CallsMatch
  <2>3. TypeOK'
    BY <1>0, <1>18, <2>1, <2>2, ObjectAssumption
       DEF ThreadCreate, At, sched_vars, call_vars, tid_vars, TypeOK, Semaphore, Status
  <2>4. pc'[current] = p /\ sem'[current] = x /\ frame'[current] = f
    BY <1>0, <2>2 DEF TypeOK
  <2>5. \A u \in Thread : u = current => CallsMatch(u)'
    BY <1>0, <1>18, <2>4, ObjectAssumption DEF ThreadCreate, At, CallsMatch
  <2>6. QED
    BY <1>0, <2>1, <2>2, <2>3, <2>5, CallInvStep
<1>19. CASE ReadTid
  <2> DEFINE p == "write_tid"
             x == NULL
             f == frame[current]
  <2>1. /\ current # idle_thread
        /\ p \in PC /\ x \in Semaphore \cup {NULL}
        /\ f \in Cond \cup Thread \cup {NULL}
    BY <1>0, <1>19, ObjectAssumption DEF ReadTid, At, PC, TypeOK, Semaphore, CallsMatch
  <2>2. /\ pc' = [pc EXCEPT ![current] = p]
        /\ sem' = [sem EXCEPT ![current] = x]
        /\ frame' = [frame EXCEPT ![current] = f]
    BY <1>0, <1>19 DEF ReadTid, At, TypeOK, CallsMatch
  <2>3. TypeOK'
    BY <1>0, <1>19, <2>1, <2>2, ObjectAssumption, SMTT(30)
       DEF ReadTid, At, sched_vars, call_vars, tid_vars, TypeOK, Semaphore, CallsMatch
  <2>4. pc'[current] = p /\ sem'[current] = x /\ frame'[current] = f
    BY <1>0, <2>2 DEF TypeOK
  <2>5. \A u \in Thread : u = current => CallsMatch(u)'
    BY <1>0, <1>19, <2>4, ObjectAssumption DEF ReadTid, At, CallsMatch
  <2>6. QED
    BY <1>0, <2>1, <2>2, <2>3, <2>5, CallInvStep
<1>20. CASE WriteTid
  <2> DEFINE p == "releasing"
             x == tid_lock
             f == frame[current]
  <2>1. /\ current # idle_thread
        /\ p \in PC /\ x \in Semaphore \cup {NULL}
        /\ f \in Cond \cup Thread \cup {NULL}
    BY <1>0, <1>20, ObjectAssumption DEF WriteTid, At, PC, TypeOK, Semaphore, CallsMatch, clear_holder
  <2>2. /\ pc' = [pc EXCEPT ![current] = p]
        /\ sem' = [sem EXCEPT ![current] = x]
        /\ frame' = [frame EXCEPT ![current] = f]
    BY <1>0, <1>20 DEF WriteTid, At, TypeOK, CallsMatch, clear_holder
  <2>3. TypeOK'
    BY <1>0, <1>20, <2>1, <2>2, ObjectAssumption, SMTT(30)
       DEF WriteTid, At, sched_vars, call_vars, tid_vars, TypeOK, Semaphore, CallsMatch, clear_holder
  <2>4. pc'[current] = p /\ sem'[current] = x /\ frame'[current] = f
    BY <1>0, <2>2 DEF TypeOK
  <2>5. \A u \in Thread : u = current => CallsMatch(u)'
    BY <1>0, <1>20, <2>4, ObjectAssumption DEF WriteTid, At, CallsMatch, clear_holder
  <2>6. QED
    BY <1>0, <2>1, <2>2, <2>3, <2>5, CallInvStep
<1>21. CASE Created
  <2> DEFINE p == "free"
             x == NULL
             f == NULL
  <2>1. /\ current # idle_thread
        /\ p \in PC /\ x \in Semaphore \cup {NULL}
        /\ f \in Cond \cup Thread \cup {NULL}
    BY <1>0, <1>21, ObjectAssumption DEF Created, At, PC, TypeOK, Semaphore, CallsMatch
  <2>2. /\ pc' = [pc EXCEPT ![current] = p]
        /\ sem' = [sem EXCEPT ![current] = x]
        /\ frame' = [frame EXCEPT ![current] = f]
    BY <1>0, <1>21 DEF Created, At, TypeOK, CallsMatch
  <2>3. TypeOK'
    BY <1>0, <1>21, <2>1, <2>2, ObjectAssumption, SMTT(30)
       DEF Created, At, sched_vars, call_vars, tid_vars, TypeOK, Semaphore, CallsMatch, thread_unblock, Status
  <2>4. pc'[current] = p /\ sem'[current] = x /\ frame'[current] = f
    BY <1>0, <2>2 DEF TypeOK
  <2>5. \A u \in Thread : u = current => CallsMatch(u)'
    BY <1>0, <1>21, <2>4, ObjectAssumption DEF Created, At, CallsMatch
  <2>6. QED
    BY <1>0, <2>1, <2>2, <2>3, <2>5, CallInvStep
<1>22. CASE ThreadYield
  <2>1. /\ thread_yield
        /\ UNCHANGED <<value, waiters, holder, cond_waiters, pc, sem, frame, tid, next_tid>>
    BY <1>22 DEF ThreadYield, call_vars, tid_vars
  <2>2. TypeOK'
    BY <1>0, <2>1, SwitchType DEF TypeOK
  <2>3. QED
    BY <2>1, <2>2 DEF CallInv, CallsMatch
<1>23. CASE ThreadExit
  <2>1. /\ schedule([status EXCEPT ![current] = "dying"], ready_list)
        /\ UNCHANGED <<value, waiters, holder, cond_waiters, pc, sem, frame, tid, next_tid>>
    BY <1>23 DEF ThreadExit, call_vars, tid_vars
  <2>2. TypeOK'
    BY <1>0, <2>1, SwitchType DEF TypeOK
  <2>3. QED
    BY <2>1, <2>2 DEF CallInv, CallsMatch
<1>24. CASE Idle
  <2>1. /\ thread_block
        /\ UNCHANGED <<value, waiters, holder, cond_waiters, pc, sem, frame, tid, next_tid>>
    BY <1>24 DEF Idle, call_vars, tid_vars
  <2>2. TypeOK'
    BY <1>0, <2>1, SwitchType DEF TypeOK
  <2>3. QED
    BY <2>1, <2>2 DEF CallInv, CallsMatch
<1>25. CASE TimerInterrupt
  <2>1. /\ thread_tick
        /\ UNCHANGED <<value, waiters, holder, cond_waiters, pc, sem, frame, tid, next_tid>>
    BY <1>25 DEF TimerInterrupt, call_vars, tid_vars
  <2>2. CASE thread_yield
    BY <2>1, <2>2, SwitchType DEF TypeOK, CallInv, CallsMatch
  <2>3. CASE thread_ticks + 1 < TIME_SLICE /\ thread_ticks' = thread_ticks + 1
    BY <2>1, <2>3, BoundAssumption, SMTT(30) DEF thread_tick, TypeOK, CallInv, CallsMatch
  <2>4. QED
    BY <2>1, <2>2, <2>3, BoundAssumption DEF thread_tick, TypeOK
<1>26. CASE UNCHANGED vars
  BY <1>26 DEF vars, sched_vars, call_vars, tid_vars, TypeOK, CallInv, CallsMatch
<1>27. QED
  BY <1>1, <1>2, <1>3, <1>4, <1>5, <1>6, <1>7, <1>8, <1>9, <1>10, <1>11, <1>12, <1>13, <1>14, <1>15, <1>16, <1>17, <1>18, <1>19, <1>20, <1>21, <1>22, <1>23, <1>24, <1>25, <1>26
     DEF Next, SemaStep, LockStep, CondStep, CreateStep, Interrupt

\* The state in which thread_start() returns to main() is well typed.
LEMMA TypeInvInit == Init => TypeInv
  BY ThreadAssumption, ObjectAssumption, BoundAssumption
     DEF Init, TypeInv, TypeOK, CallInv, CallsMatch, Status, PC, Semaphore

\* Type correctness: every variable keeps its type, and the arguments of the
\* call a thread is in always fit the place where it is.
THEOREM TypeCorrect == Spec => [](TypeOK /\ CallInv)
  BY TypeInvInit, TypeInvStep, PTL DEF Spec, TypeInv

-----------------------------------------------------------------------------
(***************************************************************************)
(* The scheduler's and the semaphores' lists.                              *)
(***************************************************************************)
ListInv == ReadyInv /\ WaitInv

\* Leaving the processor with status x keeps the run queue right, and blocks
\* or kills no thread but the one that leaves.
LEMMA Switch ==
    ASSUME TypeOK, ReadyInv,
           NEW x \in {"ready", "blocked", "dying"}, NEW q,
           x = "dying" => current # idle_thread,
           q = IF x = "ready" /\ current # idle_thread
                 THEN Append(ready_list, current) ELSE ready_list,
           schedule([status EXCEPT ![current] = x], q)
    PROVE  /\ ReadyInv'
           /\ \A t \in Thread \ {idle_thread} :
                status'[t] = "blocked" <=> \/ status[t] = "blocked"
                                           \/ t = current /\ x = "blocked"
           /\ \A t \in Thread : status'[t] \in {"unused", "dying"} =>
                \/ status[t] \in {"unused", "dying"}
                \/ t = current /\ x = "dying"
<1> DEFINE st == [status EXCEPT ![current] = x]
           next == next_thread_to_run(q)
<1>1. /\ q \in Seq(Thread) /\ IsInjective(q)
      /\ Range(q) = {t \in Thread \ {idle_thread} : st[t] = "ready"}
  <2>1. current \notin Range(ready_list) /\ ready_list \in Seq(Thread) /\ current \in Thread
    BY DEF ReadyInv, TypeOK
  <2>2. /\ st \in [Thread -> Status] /\ st[current] = x
        /\ \A t \in Thread : t # current => st[t] = status[t]
    BY DEF TypeOK, Status
  <2>3. CASE x = "ready" /\ current # idle_thread
    <3>1. q = Append(ready_list, current)
      BY <2>3
    <3>2. q \in Seq(Thread) /\ IsInjective(q) /\ Range(q) = Range(ready_list) \cup {current}
      BY <2>1, <3>1, PushBack DEF ReadyInv
    <3>3. QED
      BY <2>1, <2>2, <2>3, <3>2 DEF ReadyInv
  <2>4. CASE ~(x = "ready" /\ current # idle_thread)
    <3>1. q = ready_list
      BY <2>4
    <3>2. QED
      BY <2>1, <2>2, <2>4, <3>1 DEF ReadyInv
  <2>5. QED
    BY <2>3, <2>4
<1>2. /\ current' = next /\ next \in Thread
      /\ ready_list' = IF q = <<>> THEN q ELSE Tail(q)
      /\ status' = [t \in Thread |->
                      IF t = next THEN "running"
                      ELSE IF st[t] = "dying" /\ t # initial_thread THEN "unused"
                      ELSE st[t]]
  BY <1>1, ThreadAssumption DEF schedule, thread_schedule_tail, next_thread_to_run
<1>3. /\ IsInjective(ready_list')
      /\ Range(ready_list') = {t \in Thread \ {idle_thread} : st[t] = "ready"} \ {next}
      /\ next # idle_thread => st[next] = "ready"
  <2>1. CASE q = <<>>
    BY <1>1, <1>2, <2>1, EmptyList DEF next_thread_to_run
  <2>2. CASE q # <<>>
    <3>1. next = Head(q) /\ ready_list' = Tail(q)
      BY <1>2, <2>2 DEF next_thread_to_run
    <3>2. QED
      BY <1>1, <2>2, <3>1, PopFront
  <2>3. QED
    BY <2>1, <2>2
<1>4. /\ current \in Thread /\ st[current] = x
      /\ \A t \in Thread : t # current => st[t] = status[t]
  BY DEF TypeOK
<1>5. Range(ready_list') = {t \in Thread \ {idle_thread} : status'[t] = "ready"}
  BY <1>2, <1>3
<1>6. /\ status'[current'] = "running"
      /\ \A t \in Thread : status'[t] = "running" => t = current'
  BY <1>2, <1>4 DEF ReadyInv
<1>7. /\ \A t \in Thread : status'[t] = "dying" => t = initial_thread
      /\ status'[idle_thread] \notin {"unused", "dying"}
  BY <1>2, <1>4, ThreadAssumption DEF ReadyInv
<1>8. ReadyInv'
  BY <1>3, <1>5, <1>6, <1>7 DEF ReadyInv
<1>9. ASSUME NEW t \in Thread \ {idle_thread}
      PROVE  status'[t] = "blocked" <=> \/ status[t] = "blocked"
                                        \/ t = current /\ x = "blocked"
  BY <1>2, <1>3, <1>4 DEF ReadyInv
<1>10. ASSUME NEW t \in Thread, status'[t] \in {"unused", "dying"}
       PROVE  status[t] \in {"unused", "dying"} \/ (t = current /\ x = "dying")
  BY <1>2, <1>4, <1>10
<1>11. QED
  BY <1>8, <1>9, <1>10

\* sema_up() moves the first waiter, if any, to the run queue.
LEMMA Wake ==
    ASSUME TypeOK, ListInv, NEW s \in Semaphore, sema_up(s)
    PROVE  /\ ReadyInv'
           /\ current' = current
           /\ waiters' = [waiters EXCEPT ![s] = IF @ = <<>> THEN @ ELSE Tail(@)]
           /\ \A t \in Thread :
                IF waiters[s] # <<>> /\ t = Head(waiters[s])
                  THEN status[t] = "blocked" /\ status'[t] = "ready"
                  ELSE status'[t] = status[t]
<1>1. CASE waiters[s] = <<>>
  <2>1. UNCHANGED <<current, status, ready_list, waiters>>
    BY <1>1 DEF sema_up, sched_vars
  <2>2. waiters' = [waiters EXCEPT ![s] = IF @ = <<>> THEN @ ELSE Tail(@)]
    BY <1>1, <2>1 DEF TypeOK
  <2>3. QED
    BY <1>1, <2>1, <2>2 DEF ListInv, ReadyInv
<1>2. CASE waiters[s] # <<>>
  <2> DEFINE h == Head(waiters[s])
  <2>1. /\ waiters' = [waiters EXCEPT ![s] = Tail(@)]
        /\ status' = [status EXCEPT ![h] = "ready"]
        /\ ready_list' = Append(ready_list, h)
        /\ current' = current
    BY <1>2 DEF sema_up, thread_unblock
  <2>2. h \in Thread /\ h # idle_thread /\ status[h] = "blocked"
    BY <1>2, PopFront DEF ListInv, WaitInv, TypeOK
  <2>3. h \notin Range(ready_list)
    BY <2>2 DEF ListInv, ReadyInv
  <2>4. /\ IsInjective(ready_list')
        /\ Range(ready_list') = Range(ready_list) \cup {h}
    BY <2>1, <2>2, <2>3, PushBack DEF ListInv, ReadyInv, TypeOK
  <2>5. status'[h] = "ready" /\ \A t \in Thread : t # h => status'[t] = status[t]
    BY <2>1, <2>2 DEF TypeOK
  <2>6. Range(ready_list') = {t \in Thread \ {idle_thread} : status'[t] = "ready"}
    BY <2>2, <2>4, <2>5 DEF ListInv, ReadyInv
  <2>7. ReadyInv'
    BY <2>1, <2>2, <2>4, <2>5, <2>6, ThreadAssumption DEF ListInv, ReadyInv, TypeOK
  <2>8. QED
    BY <1>2, <2>1, <2>2, <2>5, <2>7
<1>3. QED
  BY <1>1, <1>2

\* The step changes where the running thread is, and no other thread.
OthersKept ==
    \A t \in Thread : t # current =>
        pc'[t] = pc[t] /\ sem'[t] = sem[t] /\ frame'[t] = frame[t]

\* The running thread is on no list and nobody is creating it.
LEMMA RunningFree ==
    ASSUME TypeOK, ListInv
    PROVE  /\ current \in Thread
           /\ \A s \in Semaphore : current \notin Range(waiters[s])
           /\ \A u \in Thread : frame[u] # current
  BY DEF TypeOK, ListInv, ReadyInv, WaitInv

\* A step that moves nobody on or off a semaphore's list.
LEMMA WaitKept ==
    ASSUME TypeOK, ListInv, OthersKept, UNCHANGED waiters,
           \/ frame'[current] = frame[current]
           \/ frame'[current] \notin Thread /\ frame[current] \notin Thread,
           \A t \in Thread \ {idle_thread} :
               status'[t] = "blocked" <=> status[t] = "blocked",
           \A t \in Thread : status'[t] \in {"unused", "dying"} =>
               \/ status[t] \in {"unused", "dying"}
               \/ t = current /\ pc'[t] = "free"
    PROVE  WaitInv'
<1>0. /\ current \in Thread
      /\ \A s \in Semaphore : Range(waiters[s]) \subseteq Thread \ {current, idle_thread}
      /\ \A u \in Thread : frame[u] # current
  BY RunningFree, EmptyList DEF TypeOK, ListInv, WaitInv
<1>1. ASSUME NEW s \in Semaphore
      PROVE  /\ IsInjective(waiters'[s])
             /\ \A t \in Range(waiters'[s]) :
                  /\ t # idle_thread /\ status'[t] = "blocked"
                  /\ pc'[t] = "down" /\ sem'[t] = s
  BY <1>0 DEF ListInv, WaitInv, OthersKept
<1>2. ASSUME NEW t \in Thread \ {idle_thread}, status'[t] = "blocked"
      PROVE  \/ pc'[t] = "down" /\ t \in Range(waiters'[sem'[t]])
             \/ \E u \in Thread : frame'[u] = t
  <2>1. status[t] = "blocked" /\ t # current
    BY <1>2 DEF ListInv, ReadyInv
  <2>2. CASE pc[t] = "down" /\ t \in Range(waiters[sem[t]])
    BY <2>1, <2>2 DEF OthersKept
  <2>3. CASE \E u \in Thread : frame[u] = t
    BY <2>3 DEF OthersKept
  <2>4. QED
    BY <2>1, <2>2, <2>3 DEF ListInv, WaitInv
<1>3. ASSUME NEW u \in Thread, frame'[u] \in Thread
      PROVE  /\ frame'[u] # idle_thread
             /\ status'[frame'[u]] = "blocked"
             /\ pc'[frame'[u]] = "free"
             /\ \A v \in Thread : frame'[v] = frame'[u] => v = u
  <2>1. \A v \in Thread : frame'[v] \in Thread => frame'[v] = frame[v]
    BY DEF OthersKept
  <2>2. frame'[u] = frame[u] /\ frame[u] # current
    BY <1>0, <1>3, <2>1
  <2>3. QED
    BY <1>3, <2>1, <2>2 DEF ListInv, WaitInv, OthersKept
<1>4. ASSUME NEW t \in Thread, status'[t] \in {"unused", "dying"}
      PROVE  pc'[t] = "free"
  BY <1>4 DEF ListInv, ReadyInv, WaitInv, OthersKept
<1>5. QED
  BY <1>1, <1>2, <1>3, <1>4 DEF WaitInv

\* One pass of sema_down().
LEMMA DownLists ==
    ASSUME TypeInv, ListInv, NEW s \in Semaphore, current # idle_thread,
           sema_down(s), UNCHANGED frame
    PROVE  ListInv'
<1> USE DEF TypeInv
<1>0. /\ current \in Thread
      /\ \A r \in Semaphore : current \notin Range(waiters[r])
      /\ \A u \in Thread : frame[u] # current
  BY RunningFree
<1>1. CASE value[s] = 0
  <2>1. /\ thread_block
        /\ waiters' = [waiters EXCEPT ![s] = Append(@, current)]
        /\ pc' = [pc EXCEPT ![current] = "down"]
        /\ sem' = [sem EXCEPT ![current] = s]
    BY <1>1 DEF sema_down
  <2>2. /\ ReadyInv'
        /\ \A t \in Thread \ {idle_thread} :
             status'[t] = "blocked" <=> status[t] = "blocked" \/ t = current
        /\ \A t \in Thread : status'[t] \in {"unused", "dying"} =>
             status[t] \in {"unused", "dying"}
    BY <2>1, Switch DEF thread_block, ListInv
  <2>3. /\ OthersKept
        /\ pc'[current] = "down" /\ sem'[current] = s
    BY <1>0, <2>1 DEF OthersKept, TypeOK
  <2>4. /\ waiters'[s] = Append(waiters[s], current)
        /\ \A r \in Semaphore : r # s => waiters'[r] = waiters[r]
    BY <2>1 DEF TypeOK
  <2>5. /\ IsInjective(waiters'[s])
        /\ Range(waiters'[s]) = Range(waiters[s]) \cup {current}
    BY <1>0, <2>4, PushBack DEF TypeOK, ListInv, WaitInv
  <2>6. \A r \in Semaphore : Range(waiters[r]) \subseteq Thread
    BY EmptyList DEF TypeOK
  <2>7. ASSUME NEW r \in Semaphore
        PROVE  /\ IsInjective(waiters'[r])
               /\ \A t \in Range(waiters'[r]) :
                    /\ t # idle_thread /\ status'[t] = "blocked"
                    /\ pc'[t] = "down" /\ sem'[t] = r
    <3>1. ASSUME NEW t \in Range(waiters[r])
          PROVE  /\ t \in Thread /\ t # idle_thread /\ status'[t] = "blocked"
                 /\ pc'[t] = "down" /\ sem'[t] = r
      BY <1>0, <2>2, <2>3, <2>6 DEF ListInv, WaitInv, OthersKept
    <3>2. CASE r = s
      BY <1>0, <2>2, <2>3, <2>5, <3>1, <3>2
    <3>3. CASE r # s
      BY <2>4, <3>1, <3>3 DEF ListInv, WaitInv
    <3>4. QED
      BY <3>2, <3>3
  <2>8. ASSUME NEW t \in Thread \ {idle_thread}, status'[t] = "blocked"
        PROVE  \/ pc'[t] = "down" /\ t \in Range(waiters'[sem'[t]])
               \/ \E u \in Thread : frame'[u] = t
    <3>1. CASE t = current
      BY <2>3, <2>5, <3>1
    <3>2. CASE t # current /\ pc[t] = "down" /\ t \in Range(waiters[sem[t]])
      <4>1. sem[t] \in Semaphore
        BY <3>2, ObjectAssumption DEF CallInv, CallsMatch, Semaphore
      <4>2. QED
        BY <2>3, <2>4, <2>5, <3>2, <4>1 DEF OthersKept
    <3>3. CASE \E u \in Thread : frame[u] = t
      BY <3>3
    <3>4. QED
      BY <2>2, <2>8, <3>1, <3>2, <3>3 DEF ListInv, WaitInv
  <2>9. ASSUME NEW u \in Thread, frame'[u] \in Thread
        PROVE  /\ frame'[u] # idle_thread
               /\ status'[frame'[u]] = "blocked"
               /\ pc'[frame'[u]] = "free"
               /\ \A v \in Thread : frame'[v] = frame'[u] => v = u
    BY <1>0, <2>2, <2>3, <2>9 DEF ListInv, WaitInv, OthersKept
  <2>10. ASSUME NEW t \in Thread, status'[t] \in {"unused", "dying"}
         PROVE  pc'[t] = "free"
    BY <2>2, <2>3, <2>10 DEF ListInv, ReadyInv, WaitInv, OthersKept
  <2>11. QED
    BY <2>2, <2>7, <2>8, <2>9, <2>10 DEF ListInv, WaitInv
<1>2. CASE value[s] > 0
  <2>1. /\ UNCHANGED <<current, status, ready_list, thread_ticks, waiters>>
        /\ \E p : pc' = [pc EXCEPT ![current] = p]
        /\ \E x : sem' = [sem EXCEPT ![current] = x]
    BY <1>2 DEF sema_down, sched_vars
  <2>2. OthersKept
    BY <2>1 DEF OthersKept, TypeOK
  <2>3. WaitInv'
    BY <1>0, <2>1, <2>2, WaitKept
  <2>4. QED
    BY <2>1, <2>3 DEF ListInv, ReadyInv
<1>3. QED
  BY <1>1, <1>2 DEF TypeOK

\* sema_up(), with the running thread moving on.
LEMMA UpLists ==
    ASSUME TypeInv, ListInv, NEW s \in Semaphore, sema_up(s), OthersKept,
           UNCHANGED frame
    PROVE  ListInv'
<1> USE DEF TypeInv
<1>0. /\ current \in Thread
      /\ \A r \in Semaphore : current \notin Range(waiters[r])
      /\ \A u \in Thread : frame[u] # current
  BY RunningFree
<1>1. /\ ReadyInv'
      /\ waiters' = [waiters EXCEPT ![s] = IF @ = <<>> THEN @ ELSE Tail(@)]
      /\ \A t \in Thread :
           IF waiters[s] # <<>> /\ t = Head(waiters[s])
             THEN status[t] = "blocked" /\ status'[t] = "ready"
             ELSE status'[t] = status[t]
  BY Wake
<1>2. CASE waiters[s] = <<>>
  <2>1. UNCHANGED waiters
    BY <1>1, <1>2 DEF TypeOK
  <2>2. \A t \in Thread : status'[t] = status[t]
    BY <1>1, <1>2
  <2>3. WaitInv'
    BY <2>1, <2>2, WaitKept
  <2>4. QED
    BY <1>1, <2>3 DEF ListInv
<1>3. CASE waiters[s] # <<>>
  <2> DEFINE h == Head(waiters[s])
  <2>1. /\ h \in Range(waiters[s]) /\ h \in Thread
        /\ IsInjective(Tail(waiters[s]))
        /\ Range(Tail(waiters[s])) = Range(waiters[s]) \ {h}
    BY <1>3, PopFront DEF TypeOK, ListInv, WaitInv
  <2>2. pc[h] = "down" /\ sem[h] = s
    BY <2>1 DEF ListInv, WaitInv
  <2>3. /\ waiters'[s] = Tail(waiters[s])
        /\ \A r \in Semaphore : r # s => waiters'[r] = waiters[r]
    BY <1>1, <1>3 DEF TypeOK
  <2>4. /\ status'[h] = "ready"
        /\ \A t \in Thread : t # h => status'[t] = status[t]
    BY <1>1, <1>3, <2>1
  <2>5. \A r \in Semaphore : Range(waiters[r]) \subseteq Thread
    BY EmptyList DEF TypeOK
  <2>6. ASSUME NEW r \in Semaphore
        PROVE  /\ IsInjective(waiters'[r])
               /\ \A t \in Range(waiters'[r]) :
                    /\ t # idle_thread /\ status'[t] = "blocked"
                    /\ pc'[t] = "down" /\ sem'[t] = r
    <3>1. ASSUME NEW t \in Range(waiters[r]), t # h
          PROVE  /\ t # idle_thread /\ status'[t] = "blocked"
                 /\ pc'[t] = "down" /\ sem'[t] = r
      BY <1>0, <2>4, <2>5, <3>1 DEF ListInv, WaitInv, OthersKept
    <3>2. CASE r = s
      BY <2>1, <2>3, <3>1, <3>2
    <3>3. CASE r # s
      <4>1. h \notin Range(waiters[r])
        BY <2>2, <3>3 DEF ListInv, WaitInv
      <4>2. QED
        BY <2>3, <3>1, <3>3, <4>1 DEF ListInv, WaitInv
    <3>4. QED
      BY <3>2, <3>3
  <2>7. ASSUME NEW t \in Thread \ {idle_thread}, status'[t] = "blocked"
        PROVE  \/ pc'[t] = "down" /\ t \in Range(waiters'[sem'[t]])
               \/ \E u \in Thread : frame'[u] = t
    <3>1. t # h /\ status[t] = "blocked" /\ t # current
      BY <2>4, <2>7 DEF ListInv, ReadyInv
    <3>2. CASE pc[t] = "down" /\ t \in Range(waiters[sem[t]])
      <4>1. sem[t] \in Semaphore
        BY <3>2, ObjectAssumption DEF CallInv, CallsMatch, Semaphore
      <4>2. QED
        BY <2>1, <2>3, <3>1, <3>2, <4>1 DEF OthersKept
    <3>3. CASE \E u \in Thread : frame[u] = t
      BY <3>3
    <3>4. QED
      BY <3>1, <3>2, <3>3 DEF ListInv, WaitInv
  <2>8. ASSUME NEW u \in Thread, frame'[u] \in Thread
        PROVE  /\ frame'[u] # idle_thread
               /\ status'[frame'[u]] = "blocked"
               /\ pc'[frame'[u]] = "free"
               /\ \A v \in Thread : frame'[v] = frame'[u] => v = u
    <3>1. frame[u] # h /\ frame[u] # current
      BY <1>0, <2>2, <2>8 DEF ListInv, WaitInv
    <3>2. QED
      BY <2>4, <2>8, <3>1 DEF ListInv, WaitInv, OthersKept
  <2>9. ASSUME NEW t \in Thread, status'[t] \in {"unused", "dying"}
        PROVE  pc'[t] = "free"
    BY <2>4, <2>9 DEF ListInv, ReadyInv, WaitInv, OthersKept
  <2>10. QED
    BY <1>1, <2>6, <2>7, <2>8, <2>9 DEF ListInv, WaitInv
<1>4. QED
  BY <1>2, <1>3

\* Leaving the processor from anywhere outside sema_down().
LEMMA SwitchLists ==
    ASSUME TypeInv, ListInv,
           \/ thread_yield
           \/ thread_block /\ current = idle_thread
           \/ /\ current # idle_thread /\ pc[current] = "free"
              /\ schedule([status EXCEPT ![current] = "dying"], ready_list),
           UNCHANGED <<waiters, pc, sem, frame>>
    PROVE  ListInv'
<1> USE DEF TypeInv
<1>1. /\ ReadyInv'
      /\ \A t \in Thread \ {idle_thread} :
           status'[t] = "blocked" <=> status[t] = "blocked"
      /\ \A t \in Thread : status'[t] \in {"unused", "dying"} =>
           \/ status[t] \in {"unused", "dying"}
           \/ t = current /\ pc[t] = "free"
  <2>1. CASE thread_yield
    BY <2>1, Switch DEF thread_yield, ListInv
  <2>2. CASE thread_block /\ current = idle_thread
    BY <2>2, Switch DEF thread_block, ListInv
  <2>3. CASE /\ current # idle_thread /\ pc[current] = "free"
             /\ schedule([status EXCEPT ![current] = "dying"], ready_list)
    BY <2>3, Switch DEF ListInv
  <2>4. QED
    BY <2>1, <2>2, <2>3
<1>2. OthersKept
  BY DEF OthersKept
<1>3. WaitInv'
  BY <1>1, <1>2, WaitKept
<1>4. QED
  BY <1>1, <1>3 DEF ListInv

\* Nobody else waits for a thread's own semaphore, so its list is empty when
\* cond_wait() initializes it.
LEMMA OwnSemaIdle ==
    ASSUME TypeInv, ListInv, pc[current] = "free"
    PROVE  waiters[current] = <<>>
<1> USE DEF TypeInv
<1>1. current \in Thread
  BY DEF TypeOK
<1>2. ASSUME NEW t \in Range(waiters[current]) PROVE FALSE
  <2>1. t \in Thread /\ pc[t] = "down" /\ sem[t] = current
    BY <1>1, EmptyList DEF ListInv, WaitInv, TypeOK, Semaphore
  <2>2. t = current
    BY <1>1, <2>1, ObjectAssumption DEF CallInv, CallsMatch
  <2>3. QED
    BY <2>1, <2>2
<1>3. QED
  BY <1>1, <1>2, EmptyList DEF TypeOK, Semaphore

\* Every step keeps the lists right.
LEMMA ListInvStep == TypeInv /\ ListInv /\ [Next]_vars => ListInv'
<1> SUFFICES ASSUME TypeInv, ListInv, [Next]_vars PROVE ListInv'
  OBVIOUS
<1> USE DEF TypeInv
<1>0. current \in Thread /\ CallsMatch(current)
  BY DEF TypeOK, CallInv
<1>1. ASSUME NEW s \in Sema, SemaDown(s) PROVE ListInv'
  <2>1. /\ s \in Semaphore /\ sema_down(s)
        /\ current # idle_thread /\ UNCHANGED frame
    BY <1>0, <1>1, ObjectAssumption DEF SemaDown, At, CallsMatch, Semaphore
  <2>2. QED
    BY <2>1, DownLists
<1>2. CASE SemaDownLoop
  <2>1. /\ sem[current] \in Semaphore /\ sema_down(sem[current])
        /\ current # idle_thread /\ UNCHANGED frame
    BY <1>0, <1>2, ObjectAssumption DEF SemaDownLoop, At, CallsMatch, Semaphore
  <2>2. QED
    BY <2>1, DownLists
<1>3. ASSUME NEW l \in Lock \ {tid_lock}, LockAcquire(l) PROVE ListInv'
  <2>1. /\ l \in Semaphore /\ sema_down(l)
        /\ current # idle_thread /\ UNCHANGED frame
    BY <1>0, <1>3, ObjectAssumption DEF LockAcquire, At, CallsMatch, Semaphore
  <2>2. QED
    BY <2>1, DownLists
<1>4. CASE CondSleep
  <2>1. /\ current \in Semaphore /\ sema_down(current)
        /\ current # idle_thread /\ UNCHANGED frame
    BY <1>0, <1>4, ObjectAssumption DEF CondSleep, At, CallsMatch, Semaphore
  <2>2. QED
    BY <2>1, DownLists
<1>5. CASE CondReacquire
  <2>1. /\ CondLock[frame[current]] \in Semaphore /\ sema_down(CondLock[frame[current]])
        /\ current # idle_thread /\ UNCHANGED frame
    BY <1>0, <1>5, ObjectAssumption DEF CondReacquire, At, CallsMatch, Semaphore
  <2>2. QED
    BY <2>1, DownLists
<1>6. CASE AllocateTid
  <2>1. /\ tid_lock \in Semaphore /\ sema_down(tid_lock)
        /\ current # idle_thread /\ UNCHANGED frame
    BY <1>0, <1>6, ObjectAssumption DEF AllocateTid, At, CallsMatch, Semaphore
  <2>2. QED
    BY <2>1, DownLists
<1>7. ASSUME NEW s \in Sema, SemaUp(s) PROVE ListInv'
  <2>1. /\ s \in Semaphore /\ sema_up(s)
        /\ OthersKept /\ UNCHANGED frame
    BY <1>0, <1>7 DEF SemaUp, At, CallsMatch, Semaphore, call_vars, OthersKept, TypeOK
  <2>2. QED
    BY <2>1, UpLists
<1>8. ASSUME NEW s \in Sema, DeviceInterrupt(s) PROVE ListInv'
  <2>1. /\ s \in Semaphore /\ sema_up(s)
        /\ OthersKept /\ UNCHANGED frame
    BY <1>0, <1>8 DEF DeviceInterrupt, At, CallsMatch, Semaphore, call_vars, OthersKept, TypeOK
  <2>2. QED
    BY <2>1, UpLists
<1>9. CASE ReleaseUp
  <2>1. /\ sem[current] \in Semaphore /\ sema_up(sem[current])
        /\ OthersKept /\ UNCHANGED frame
    BY <1>0, <1>9 DEF ReleaseUp, At, CallsMatch, Semaphore, call_vars, OthersKept, TypeOK
  <2>2. QED
    BY <2>1, UpLists
<1>10. ASSUME NEW c \in Cond, CondSignal(c) PROVE ListInv'
  <2>1. /\ Head(cond_waiters[c]) \in Semaphore /\ sema_up(Head(cond_waiters[c]))
        /\ OthersKept /\ UNCHANGED frame
    BY <1>0, <1>10 DEF CondSignal, At, CallsMatch, Semaphore, call_vars, OthersKept, TypeOK, cond_signal
  <2>2. QED
    BY <2>1, UpLists
<1>11. ASSUME NEW s \in Sema, SemaTryDown(s) PROVE ListInv'
  <2>1. /\ OthersKept
        /\ UNCHANGED <<current, status, ready_list, waiters>>
        /\ \/ frame'[current] = frame[current]
           \/ frame'[current] \notin Thread /\ frame[current] \notin Thread
    BY <1>0, <1>11, ObjectAssumption
       DEF SemaTryDown, At, CallsMatch, OthersKept, TypeOK, sched_vars, call_vars, Semaphore
  <2>2. WaitInv'
    BY <2>1, WaitKept
  <2>3. QED
    BY <2>1, <2>2 DEF ListInv, ReadyInv
<1>12. CASE SetHolder
  <2>1. /\ OthersKept
        /\ UNCHANGED <<current, status, ready_list, waiters>>
        /\ \/ frame'[current] = frame[current]
           \/ frame'[current] \notin Thread /\ frame[current] \notin Thread
    BY <1>0, <1>12, ObjectAssumption
       DEF SetHolder, At, CallsMatch, OthersKept, TypeOK, sched_vars, call_vars, Semaphore
  <2>2. WaitInv'
    BY <2>1, WaitKept
  <2>3. QED
    BY <2>1, <2>2 DEF ListInv, ReadyInv
<1>13. ASSUME NEW l \in Lock \ {tid_lock}, LockTryAcquire(l) PROVE ListInv'
  <2>1. /\ OthersKept
        /\ UNCHANGED <<current, status, ready_list, waiters>>
        /\ \/ frame'[current] = frame[current]
           \/ frame'[current] \notin Thread /\ frame[current] \notin Thread
    BY <1>0, <1>13, ObjectAssumption
       DEF LockTryAcquire, At, CallsMatch, OthersKept, TypeOK, sched_vars, call_vars, Semaphore
  <2>2. WaitInv'
    BY <2>1, WaitKept
  <2>3. QED
    BY <2>1, <2>2 DEF ListInv, ReadyInv
<1>14. ASSUME NEW l \in Lock \ {tid_lock}, LockRelease(l) PROVE ListInv'
  <2>1. /\ OthersKept
        /\ UNCHANGED <<current, status, ready_list, waiters>>
        /\ \/ frame'[current] = frame[current]
           \/ frame'[current] \notin Thread /\ frame[current] \notin Thread
    BY <1>0, <1>14, ObjectAssumption
       DEF LockRelease, At, CallsMatch, OthersKept, TypeOK, sched_vars, call_vars, Semaphore, clear_holder
  <2>2. WaitInv'
    BY <2>1, WaitKept
  <2>3. QED
    BY <2>1, <2>2 DEF ListInv, ReadyInv
<1>15. ASSUME NEW c \in Cond, CondWait(c) PROVE ListInv'
  <2>1. waiters[current] = <<>>
    BY <1>15, OwnSemaIdle DEF CondWait, At
  <2>2. UNCHANGED waiters
    BY <1>0, <1>15, <2>1 DEF CondWait, TypeOK, Semaphore
  <2>3. /\ OthersKept
        /\ UNCHANGED <<current, status, ready_list>>
        /\ frame'[current] \notin Thread /\ frame[current] \notin Thread
    BY <1>0, <1>15, ObjectAssumption
       DEF CondWait, At, CallsMatch, OthersKept, TypeOK, sched_vars, clear_holder, Semaphore
  <2>4. WaitInv'
    BY <2>2, <2>3, WaitKept
  <2>5. QED
    BY <2>3, <2>4 DEF ListInv, ReadyInv
<1>16. ASSUME NEW c \in Cond, CondBroadcast(c) PROVE ListInv'
  <2>1. /\ OthersKept
        /\ UNCHANGED <<current, status, ready_list, waiters>>
        /\ \/ frame'[current] = frame[current]
           \/ frame'[current] \notin Thread /\ frame[current] \notin Thread
    BY <1>0, <1>16, ObjectAssumption
       DEF CondBroadcast, At, CallsMatch, OthersKept, TypeOK, sched_vars, call_vars, Semaphore
  <2>2. WaitInv'
    BY <2>1, WaitKept
  <2>3. QED
    BY <2>1, <2>2 DEF ListInv, ReadyInv
<1>17. CASE CondBroadcastLoop
  <2>0. frame[current] \in Cond
    BY <1>0, <1>17 DEF CondBroadcastLoop, At, CallsMatch
  <2>1. CASE cond_signal(frame[current]) /\ UNCHANGED <<holder, call_vars, tid_vars>>
    <3>1. Head(cond_waiters[frame[current]]) \in Semaphore
      BY <2>0, <2>1 DEF cond_signal, TypeOK, Semaphore
    <3>2. QED
      BY <2>1, <3>1, UpLists DEF cond_signal, call_vars, OthersKept
  <2>2. CASE /\ pc' = [pc EXCEPT ![current] = "free"]
             /\ frame' = [frame EXCEPT ![current] = NULL]
             /\ UNCHANGED <<sched_vars, value, waiters, holder, cond_waiters, sem, tid_vars>>
    <3>1. /\ OthersKept
          /\ UNCHANGED <<current, status, ready_list, waiters>>
          /\ frame'[current] \notin Thread /\ frame[current] \notin Thread
      BY <1>0, <2>0, <2>2, ObjectAssumption
         DEF OthersKept, TypeOK, sched_vars, Semaphore
    <3>2. WaitInv'
      BY <3>1, WaitKept
    <3>3. QED
      BY <3>1, <3>2 DEF ListInv, ReadyInv
  <2>3. QED
    BY <1>17, <2>1, <2>2 DEF CondBroadcastLoop
<1>18. ASSUME NEW t \in Thread, ThreadCreate(t) PROVE ListInv'
  <2>1. /\ UNCHANGED <<current, ready_list, waiters, sem>>
        /\ status[t] = "unused" /\ status'[t] = "blocked"
        /\ \A u \in Thread : u # t => status'[u] = status[u]
        /\ pc[current] = "free" /\ pc'[current] = "create"
        /\ frame[current] = NULL /\ frame'[current] = t
        /\ OthersKept
    BY <1>0, <1>18 DEF ThreadCreate, At, CallsMatch, OthersKept, TypeOK
  <2>2. /\ t # current /\ t # idle_thread /\ pc[t] = "free"
        /\ \A s \in Semaphore : t \notin Range(waiters[s])
        /\ \A u \in Thread : frame[u] # t
    BY <2>1 DEF ListInv, ReadyInv, WaitInv
  <2>3. ReadyInv'
    <3>1. Range(ready_list') = {u \in Thread \ {idle_thread} : status'[u] = "ready"}
      BY <2>1 DEF ListInv, ReadyInv
    <3>2. status'[current] = "running" /\ status'[idle_thread] \notin {"unused", "dying"}
      BY <1>0, <2>1, <2>2, ThreadAssumption DEF ListInv, ReadyInv
    <3>3. QED
      BY <2>1, <3>1, <3>2 DEF ListInv, ReadyInv
  <2>4. /\ \A s \in Semaphore : Range(waiters[s]) \subseteq Thread \ {current}
        /\ \A u \in Thread : frame[u] # current
    BY RunningFree, EmptyList DEF TypeOK
  <2>5. ASSUME NEW s \in Semaphore
        PROVE  /\ IsInjective(waiters'[s])
               /\ \A u \in Range(waiters'[s]) :
                    /\ u # idle_thread /\ status'[u] = "blocked"
                    /\ pc'[u] = "down" /\ sem'[u] = s
    BY <2>1, <2>2, <2>4 DEF ListInv, WaitInv, OthersKept
  <2>6. ASSUME NEW u \in Thread \ {idle_thread}, status'[u] = "blocked"
        PROVE  \/ pc'[u] = "down" /\ u \in Range(waiters'[sem'[u]])
               \/ \E v \in Thread : frame'[v] = u
    <3>1. CASE u = t
      BY <1>0, <2>1, <3>1
    <3>2. CASE u # t
      <4>1. status[u] = "blocked" /\ u # current
        BY <2>1, <2>6, <3>2 DEF ListInv, ReadyInv
      <4>2. CASE pc[u] = "down" /\ u \in Range(waiters[sem[u]])
        BY <2>1, <4>1, <4>2 DEF OthersKept
      <4>3. CASE \E v \in Thread : frame[v] = u
        <5>1. PICK v \in Thread : frame[v] = u
          BY <4>3
        <5>2. v # current
          BY <2>1, <5>1, ObjectAssumption DEF Semaphore
        <5>3. QED
          BY <2>1, <5>1, <5>2 DEF OthersKept
      <4>4. QED
        BY <4>1, <4>2, <4>3 DEF ListInv, WaitInv
    <3>3. QED
      BY <3>1, <3>2
  <2>7. ASSUME NEW u \in Thread, frame'[u] \in Thread
        PROVE  /\ frame'[u] # idle_thread
               /\ status'[frame'[u]] = "blocked"
               /\ pc'[frame'[u]] = "free"
               /\ \A v \in Thread : frame'[v] = frame'[u] => v = u
    <3>1. CASE u = current
      BY <2>1, <2>2, <3>1 DEF OthersKept
    <3>2. CASE u # current
      <4>1. frame'[u] = frame[u] /\ frame[u] # t /\ frame[u] # current
        BY <2>1, <2>2, <2>4, <3>2 DEF OthersKept
      <4>2. QED
        BY <2>1, <2>7, <3>2, <4>1 DEF ListInv, WaitInv, OthersKept
    <3>3. QED
      BY <3>1, <3>2
  <2>8. ASSUME NEW u \in Thread, status'[u] \in {"unused", "dying"}
        PROVE  pc'[u] = "free"
    BY <2>1, <2>8 DEF ListInv, ReadyInv, WaitInv, OthersKept
  <2>9. QED
    BY <2>3, <2>5, <2>6, <2>7, <2>8 DEF ListInv, WaitInv
<1>19. CASE ReadTid
  <2>1. /\ OthersKept
        /\ UNCHANGED <<current, status, ready_list, waiters>>
        /\ \/ frame'[current] = frame[current]
           \/ frame'[current] \notin Thread /\ frame[current] \notin Thread
    BY <1>0, <1>19, ObjectAssumption
       DEF ReadTid, At, CallsMatch, OthersKept, TypeOK, sched_vars, call_vars, Semaphore
  <2>2. WaitInv'
    BY <2>1, WaitKept
  <2>3. QED
    BY <2>1, <2>2 DEF ListInv, ReadyInv
<1>20. CASE WriteTid
  <2>1. /\ OthersKept
        /\ UNCHANGED <<current, status, ready_list, waiters>>
        /\ \/ frame'[current] = frame[current]
           \/ frame'[current] \notin Thread /\ frame[current] \notin Thread
    BY <1>0, <1>20, ObjectAssumption
       DEF WriteTid, At, CallsMatch, OthersKept, TypeOK, sched_vars, call_vars, Semaphore, clear_holder
  <2>2. WaitInv'
    BY <2>1, WaitKept
  <2>3. QED
    BY <2>1, <2>2 DEF ListInv, ReadyInv
<1>21. CASE Created
  <2> DEFINE t == frame[current]
  <2>1. t \in Thread /\ pc[current] = "created"
    BY <1>0, <1>21 DEF Created, At, CallsMatch
  <2>2. /\ UNCHANGED <<current, waiters, sem>>
        /\ ready_list' = Append(ready_list, t)
        /\ status'[t] = "ready"
        /\ \A u \in Thread : u # t => status'[u] = status[u]
        /\ pc'[current] = "free" /\ frame'[current] = NULL
        /\ OthersKept
    BY <1>0, <1>21, <2>1 DEF Created, thread_unblock, OthersKept, TypeOK
  <2>3. /\ t # idle_thread /\ status[t] = "blocked" /\ pc[t] = "free"
        /\ \A v \in Thread : frame[v] = t => v = current
    BY <1>0, <2>1 DEF ListInv, WaitInv
  <2>4. /\ t # current /\ t \notin Range(ready_list)
        /\ \A s \in Semaphore : t \notin Range(waiters[s])
    BY <2>3 DEF ListInv, ReadyInv, WaitInv
  <2>5. IsInjective(ready_list') /\ Range(ready_list') = Range(ready_list) \cup {t}
    BY <2>1, <2>2, <2>4, PushBack DEF TypeOK, ListInv, ReadyInv
  <2>6. ReadyInv'
    <3>1. Range(ready_list') = {u \in Thread \ {idle_thread} : status'[u] = "ready"}
      BY <2>1, <2>2, <2>3, <2>5 DEF ListInv, ReadyInv
    <3>2. status'[current] = "running" /\ status'[idle_thread] \notin {"unused", "dying"}
      BY <1>0, <2>2, <2>3, <2>4, ThreadAssumption DEF ListInv, ReadyInv
    <3>3. QED
      BY <2>2, <2>5, <3>1, <3>2 DEF ListInv, ReadyInv
  <2>7. /\ \A s \in Semaphore : Range(waiters[s]) \subseteq Thread \ {current}
        /\ \A u \in Thread : frame[u] # current
    BY RunningFree, EmptyList DEF TypeOK
  <2>8. ASSUME NEW s \in Semaphore
        PROVE  /\ IsInjective(waiters'[s])
               /\ \A u \in Range(waiters'[s]) :
                    /\ u # idle_thread /\ status'[u] = "blocked"
                    /\ pc'[u] = "down" /\ sem'[u] = s
    BY <2>2, <2>4, <2>7 DEF ListInv, WaitInv, OthersKept
  <2>9. ASSUME NEW u \in Thread \ {idle_thread}, status'[u] = "blocked"
        PROVE  \/ pc'[u] = "down" /\ u \in Range(waiters'[sem'[u]])
               \/ \E v \in Thread : frame'[v] = u
    <3>1. u # t /\ status[u] = "blocked" /\ u # current
      BY <2>2, <2>9 DEF ListInv, ReadyInv
    <3>2. CASE pc[u] = "down" /\ u \in Range(waiters[sem[u]])
      BY <2>2, <3>1, <3>2 DEF OthersKept
    <3>3. CASE \E v \in Thread : frame[v] = u
      BY <3>1, <3>3, <2>2 DEF OthersKept
    <3>4. QED
      BY <3>1, <3>2, <3>3 DEF ListInv, WaitInv
  <2>10. ASSUME NEW u \in Thread, frame'[u] \in Thread
        PROVE  /\ frame'[u] # idle_thread
               /\ status'[frame'[u]] = "blocked"
               /\ pc'[frame'[u]] = "free"
               /\ \A v \in Thread : frame'[v] = frame'[u] => v = u
    <3>1. u # current
      BY <2>2, <2>10, ObjectAssumption DEF Semaphore
    <3>2. frame'[u] = frame[u] /\ frame[u] # t /\ frame[u] # current
      BY <2>2, <2>3, <2>7, <3>1 DEF OthersKept
    <3>3. \A v \in Thread : frame'[v] = frame'[u] => v # current
      BY <2>2, <2>10, ObjectAssumption DEF Semaphore
    <3>4. QED
      BY <2>2, <2>10, <3>1, <3>2, <3>3 DEF ListInv, WaitInv, OthersKept
  <2>11. ASSUME NEW u \in Thread, status'[u] \in {"unused", "dying"}
        PROVE  pc'[u] = "free"
    BY <2>2, <2>11 DEF ListInv, ReadyInv, WaitInv, OthersKept
  <2>12. QED
    BY <2>6, <2>8, <2>9, <2>10, <2>11 DEF ListInv, WaitInv
<1>22. CASE ThreadYield
  BY <1>22, SwitchLists DEF ThreadYield, At, call_vars
<1>23. CASE ThreadExit
  BY <1>23, SwitchLists DEF ThreadExit, At, call_vars
<1>24. CASE Idle
  BY <1>24, SwitchLists DEF Idle, At, call_vars
<1>25. CASE TimerInterrupt
  <2>1. thread_tick /\ UNCHANGED <<waiters, pc, sem, frame>>
    BY <1>25 DEF TimerInterrupt, call_vars
  <2>2. CASE thread_yield
    BY <2>1, <2>2, SwitchLists
  <2>3. CASE UNCHANGED <<current, status, ready_list>>
    BY <2>1, <2>3 DEF ListInv, ReadyInv, WaitInv
  <2>4. QED
    BY <2>1, <2>2, <2>3 DEF thread_tick
<1>26. CASE UNCHANGED vars
  BY <1>26 DEF vars, sched_vars, call_vars, tid_vars, ListInv, ReadyInv, WaitInv
<1>27. QED
  BY <1>1, <1>2, <1>3, <1>4, <1>5, <1>6, <1>7, <1>8, <1>9, <1>10, <1>11, <1>12, <1>13, <1>14, <1>15, <1>16, <1>17, <1>18, <1>19, <1>20, <1>21, <1>22, <1>23, <1>24, <1>25, <1>26
     DEF Next, SemaStep, LockStep, CondStep, CreateStep, Interrupt

\* At the start only main() runs and every list is empty.
LEMMA ListInvInit == Init => ListInv
<1> SUFFICES ASSUME Init PROVE ListInv
  OBVIOUS
<1>1. IsInjective(<<>>) /\ Range(<<>>) = {}
  BY DEF IsInjective, Range
<1>2. ReadyInv
  BY <1>1, ThreadAssumption DEF Init, ReadyInv
<1>3. WaitInv
  BY <1>1, ThreadAssumption, ObjectAssumption DEF Init, WaitInv, Semaphore
<1>4. QED
  BY <1>2, <1>3 DEF ListInv

\* A thread's `elem' is on one list at a time, as the comment in thread.h
\* requires: the run queue when it is ready, one semaphore's when it is blocked.
THEOREM ListsCorrect == Spec => []ElemOnOneList
<1>1. Init => TypeInv /\ ListInv
  BY ListInvInit, TypeInvInit
<1>2. TypeInv /\ ListInv /\ [Next]_vars => TypeInv' /\ ListInv'
  BY TypeInvStep, ListInvStep
<1>3. TypeInv /\ ListInv => ElemOnOneList
  <2> SUFFICES ASSUME TypeInv, ListInv PROVE ElemOnOneList
    OBVIOUS
  <2>1. ASSUME NEW t \in Thread, pc[t] = "down" PROVE sem[t] \in Semaphore
    BY <2>1, ObjectAssumption DEF TypeInv, CallInv, CallsMatch, Semaphore
  <2>2. QED
    BY <2>1 DEF ElemOnOneList, ListInv, ReadyInv, WaitInv
<1>4. QED
  BY <1>1, <1>2, <1>3, PTL DEF Spec

-----------------------------------------------------------------------------
(***************************************************************************)
(* Ownership of locks.  As far as a lock can tell, a step is one of five.  *)
(***************************************************************************)
Transit == {"acquired", "releasing"}
TidSection == {"read_tid", "write_tid"}

KeepStep ==
    /\ UNCHANGED holder
    /\ \A l \in Lock : value'[l] = value[l]
    /\ \A t \in Thread :
         /\ pc[t] \in Transit \/ pc'[t] \in Transit => pc'[t] = pc[t] /\ sem'[t] = sem[t]
         /\ pc'[t] \in TidSection => pc[t] \in TidSection

TakeStep(l) ==
    /\ value[l] > 0
    /\ value' = [value EXCEPT ![l] = @ - 1]
    /\ pc[current] \notin Transit
    /\ pc' = [pc EXCEPT ![current] = "acquired"]
    /\ sem' = [sem EXCEPT ![current] = l]
    /\ UNCHANGED holder

ClearStep(l) ==
    /\ \A m \in Lock : value'[m] = value[m]
    /\ holder[l] = current
    /\ pc[current] \notin Transit
    /\ holder' = [holder EXCEPT ![l] = NULL]
    /\ pc' = [pc EXCEPT ![current] = "releasing"]
    /\ sem' = [sem EXCEPT ![current] = l]

UpStep ==
    /\ pc[current] = "releasing"
    /\ value' = [value EXCEPT ![sem[current]] = @ + 1]
    /\ \E p \in PC \ (Transit \cup TidSection) : pc' = [pc EXCEPT ![current] = p]
    /\ sem' = [sem EXCEPT ![current] = NULL]
    /\ UNCHANGED holder

\* sema_down() by a thread that owns nothing in passing makes it the owner of
\* the lock it downs, if it succeeds, and changes no other ownership.
LEMMA DownOwnership ==
    ASSUME TypeInv, NEW s \in Semaphore, sema_down(s), pc[current] \notin Transit,
           UNCHANGED holder
    PROVE  KeepStep \/ (s \in Lock /\ TakeStep(s))
<1> USE DEF TypeInv
<1>1. CASE value[s] = 0
  BY <1>1 DEF sema_down, KeepStep, TypeOK, Transit, TidSection
<1>2. CASE value[s] > 0 /\ s \in Lock
  BY <1>2 DEF sema_down, TakeStep
<1>3. CASE value[s] > 0 /\ s \notin Lock
  <2>1. /\ value' = [value EXCEPT ![s] = @ - 1]
        /\ \E p \in {"signaled", "free"} : pc' = [pc EXCEPT ![current] = p]
        /\ \E x : sem' = [sem EXCEPT ![current] = x]
    BY <1>3 DEF sema_down
  <2>2. \A l \in Lock : value'[l] = value[l]
    BY <1>3, <2>1 DEF TypeOK, Semaphore
  <2>3. QED
    BY <2>1, <2>2 DEF KeepStep, TypeOK, Transit, TidSection
<1>4. QED
  BY <1>1, <1>2, <1>3 DEF TypeOK

\* The up of a semaphore that is not a lock's changes no ownership.
LEMMA UpOwnership ==
    ASSUME TypeInv, NEW s \in Semaphore, s \notin Lock, sema_up(s),
           UNCHANGED <<holder, pc, sem>>
    PROVE  KeepStep
  BY DEF sema_up, KeepStep, TypeInv, TypeOK, Semaphore

\* Every step is one of the five, and only the running thread takes part.
LEMMA Ownership ==
    TypeInv /\ LockInv /\ [Next]_vars =>
        \/ KeepStep
        \/ SetHolder
        \/ UpStep
        \/ \E l \in Lock : TakeStep(l) \/ ClearStep(l)
<1> SUFFICES ASSUME TypeInv, LockInv, [Next]_vars
             PROVE  KeepStep \/ SetHolder \/ UpStep
                      \/ \E l \in Lock : TakeStep(l) \/ ClearStep(l)
  OBVIOUS
<1> USE DEF TypeInv
<1> DEFINE Goal == KeepStep \/ SetHolder \/ UpStep
                     \/ \E l \in Lock : TakeStep(l) \/ ClearStep(l)
<1>0. current \in Thread /\ CallsMatch(current)
  BY DEF TypeOK, CallInv
<1>1. ASSUME NEW s \in Sema, SemaDown(s) PROVE Goal
  <2>1. /\ s \in Semaphore /\ sema_down(s)
        /\ pc[current] \notin Transit /\ UNCHANGED holder
    BY <1>0, <1>1, ObjectAssumption DEF SemaDown, At, CallsMatch, Semaphore, Transit
  <2>2. QED
    BY <2>1, DownOwnership
<1>2. CASE SemaDownLoop
  <2>1. /\ sem[current] \in Semaphore /\ sema_down(sem[current])
        /\ pc[current] \notin Transit /\ UNCHANGED holder
    BY <1>0, <1>2, ObjectAssumption DEF SemaDownLoop, At, CallsMatch, Semaphore, Transit
  <2>2. QED
    BY <2>1, DownOwnership
<1>3. ASSUME NEW l \in Lock \ {tid_lock}, LockAcquire(l) PROVE Goal
  <2>1. /\ l \in Semaphore /\ sema_down(l)
        /\ pc[current] \notin Transit /\ UNCHANGED holder
    BY <1>0, <1>3, ObjectAssumption DEF LockAcquire, At, CallsMatch, Semaphore, Transit
  <2>2. QED
    BY <2>1, DownOwnership
<1>4. CASE CondSleep
  <2>1. /\ current \in Semaphore /\ sema_down(current)
        /\ pc[current] \notin Transit /\ UNCHANGED holder
    BY <1>0, <1>4, ObjectAssumption DEF CondSleep, At, CallsMatch, Semaphore, Transit
  <2>2. QED
    BY <2>1, DownOwnership
<1>5. CASE CondReacquire
  <2>1. /\ CondLock[frame[current]] \in Semaphore /\ sema_down(CondLock[frame[current]])
        /\ pc[current] \notin Transit /\ UNCHANGED holder
    BY <1>0, <1>5, ObjectAssumption DEF CondReacquire, At, CallsMatch, Semaphore, Transit
  <2>2. QED
    BY <2>1, DownOwnership
<1>6. CASE AllocateTid
  <2>1. /\ tid_lock \in Semaphore /\ sema_down(tid_lock)
        /\ pc[current] \notin Transit /\ UNCHANGED holder
    BY <1>0, <1>6, ObjectAssumption DEF AllocateTid, At, CallsMatch, Semaphore, Transit
  <2>2. QED
    BY <2>1, DownOwnership
<1>7. ASSUME NEW s \in Sema, SemaUp(s) PROVE Goal
  <2>1. /\ s \in Semaphore /\ s \notin Lock /\ sema_up(s)
        /\ UNCHANGED <<holder, pc, sem>>
    BY <1>0, <1>7, ObjectAssumption DEF SemaUp, Semaphore, call_vars, TypeOK
  <2>2. QED
    BY <2>1, UpOwnership
<1>8. ASSUME NEW s \in Sema, DeviceInterrupt(s) PROVE Goal
  <2>1. /\ s \in Semaphore /\ s \notin Lock /\ sema_up(s)
        /\ UNCHANGED <<holder, pc, sem>>
    BY <1>0, <1>8, ObjectAssumption DEF DeviceInterrupt, Semaphore, call_vars, TypeOK
  <2>2. QED
    BY <2>1, UpOwnership
<1>9. ASSUME NEW c \in Cond, CondSignal(c) PROVE Goal
  <2>1. /\ Head(cond_waiters[c]) \in Semaphore /\ Head(cond_waiters[c]) \notin Lock /\ sema_up(Head(cond_waiters[c]))
        /\ UNCHANGED <<holder, pc, sem>>
    BY <1>0, <1>9, ObjectAssumption DEF CondSignal, Semaphore, call_vars, TypeOK, cond_signal
  <2>2. QED
    BY <2>1, UpOwnership
<1>10. ASSUME NEW s \in Sema, SemaTryDown(s) PROVE Goal
  BY <1>0, <1>10, ObjectAssumption
     DEF SemaTryDown, At, KeepStep, Transit, TidSection, TypeOK, call_vars, Semaphore
<1>11. CASE SetHolder
  BY <1>11
<1>12. ASSUME NEW l \in Lock \ {tid_lock}, LockTryAcquire(l) PROVE Goal
  BY <1>12 DEF LockTryAcquire, At, TakeStep, Transit
<1>13. ASSUME NEW l \in Lock \ {tid_lock}, LockRelease(l) PROVE Goal
  BY <1>13 DEF LockRelease, At, clear_holder, ClearStep, Transit
<1>14. CASE ReleaseUp
  BY <1>14 DEF ReleaseUp, At, sema_up, UpStep, Transit, TidSection, PC
<1>15. ASSUME NEW c \in Cond, CondWait(c) PROVE Goal
  <2>1. \A m \in Lock : value'[m] = value[m]
    BY <1>0, <1>15, ObjectAssumption DEF CondWait, TypeOK, Semaphore
  <2>2. CondLock[c] \in Lock
    BY ObjectAssumption
  <2>3. ClearStep(CondLock[c])
    BY <1>15, <2>1 DEF CondWait, At, clear_holder, ClearStep, Transit
  <2>4. QED
    BY <2>2, <2>3
<1>16. ASSUME NEW c \in Cond, CondBroadcast(c) PROVE Goal
  BY <1>0, <1>16
     DEF CondBroadcast, At, KeepStep, Transit, TidSection, TypeOK, call_vars, Semaphore
<1>17. CASE CondBroadcastLoop
  <2>0. frame[current] \in Cond
    BY <1>0, <1>17 DEF CondBroadcastLoop, At, CallsMatch
  <2>1. CASE cond_signal(frame[current]) /\ UNCHANGED <<holder, call_vars, tid_vars>>
    <3>1. /\ Head(cond_waiters[frame[current]]) \in Semaphore
          /\ Head(cond_waiters[frame[current]]) \notin Lock
      BY <2>0, <2>1, ObjectAssumption DEF cond_signal, TypeOK, Semaphore
    <3>2. QED
      BY <2>1, <3>1, UpOwnership DEF cond_signal, call_vars
  <2>2. CASE /\ pc' = [pc EXCEPT ![current] = "free"]
             /\ UNCHANGED <<value, holder, sem>>
    BY <1>0, <1>17, <2>2 DEF CondBroadcastLoop, At, KeepStep, Transit, TidSection, TypeOK
  <2>3. QED
    BY <1>17, <2>1, <2>2 DEF CondBroadcastLoop
<1>18. ASSUME NEW t \in Thread, ThreadCreate(t) PROVE Goal
  BY <1>0, <1>18
     DEF ThreadCreate, At, KeepStep, Transit, TidSection, TypeOK, call_vars, Semaphore
<1>19. CASE ReadTid
  BY <1>0, <1>19
     DEF ReadTid, At, KeepStep, Transit, TidSection, TypeOK, call_vars, Semaphore
<1>20. CASE WriteTid
  <2>1. holder[tid_lock] = current
    BY <1>0, <1>20 DEF WriteTid, At, LockInv
  <2>2. ClearStep(tid_lock)
    BY <1>20, <2>1 DEF WriteTid, At, clear_holder, ClearStep, Transit
  <2>3. QED
    BY <2>2, ObjectAssumption
<1>21. CASE Created
  BY <1>0, <1>21
     DEF Created, At, KeepStep, Transit, TidSection, TypeOK, call_vars, Semaphore
<1>22. CASE ThreadYield
  BY <1>22 DEF ThreadYield, KeepStep, call_vars
<1>23. CASE ThreadExit
  BY <1>23 DEF ThreadExit, KeepStep, call_vars
<1>24. CASE Idle
  BY <1>24 DEF Idle, KeepStep, call_vars
<1>25. CASE TimerInterrupt
  BY <1>25 DEF TimerInterrupt, KeepStep, call_vars
<1>26. CASE UNCHANGED vars
  BY <1>26 DEF vars, call_vars, KeepStep
<1>27. QED
  BY <1>1, <1>2, <1>3, <1>4, <1>5, <1>6, <1>7, <1>8, <1>9, <1>10, <1>11, <1>12, <1>13, <1>14, <1>15, <1>16, <1>17, <1>18, <1>19, <1>20, <1>21, <1>22, <1>23, <1>24, <1>25, <1>26
     DEF Next, SemaStep, LockStep, CondStep, CreateStep, Interrupt

\* Every step, also in the windows of lock_acquire() and lock_release() where
\* holder names nobody, keeps one owner for each lock that is down.
LEMMA LockInvStep == TypeInv /\ LockInv /\ [Next]_vars => LockInv'
<1> SUFFICES ASSUME TypeInv, LockInv, [Next]_vars PROVE LockInv'
  OBVIOUS
<1> USE DEF TypeInv, Transit, TidSection
<1>0. /\ current \in Thread /\ CallsMatch(current)
      /\ \A t \in Thread : pc[t] \in Transit => sem[t] \in Lock
      /\ NULL \notin Thread /\ NULL \notin Lock
  BY ObjectAssumption DEF TypeOK, CallInv, CallsMatch, Semaphore
<1>1. CASE KeepStep
  <2>1. \A t \in Thread, l \in Lock : Owns(t, l)' <=> Owns(t, l)
    BY <1>1 DEF KeepStep, Owns
  <2>2. QED
    BY <1>1, <2>1 DEF KeepStep, LockInv
<1>2. CASE SetHolder
  <2>0. PICK k \in Lock : k = sem[current]
    BY <1>0, <1>2 DEF SetHolder, At
  <2>1. /\ pc[current] = "acquired" /\ holder[k] = NULL
        /\ holder'[k] = current /\ \A l \in Lock : l # k => holder'[l] = holder[l]
        /\ pc'[current] \in {"read_tid", "free"} /\ UNCHANGED value
        /\ pc'[current] = "read_tid" => k = tid_lock
        /\ \A t \in Thread : t # current => pc'[t] = pc[t] /\ sem'[t] = sem[t]
    BY <1>0, <1>2, <2>0, ObjectAssumption DEF SetHolder, At, CallsMatch, LockInv, TypeOK
  <2>2. \A t \in Thread : pc[t] \in Transit /\ sem[t] = k => t = current
    BY <1>0, <2>0, <2>1 DEF LockInv, Owns
  <2>3. \A t \in Thread, l \in Lock : Owns(t, l)' <=> Owns(t, l)
    BY <1>0, <2>0, <2>1, <2>2 DEF Owns
  <2>4. ASSUME NEW t \in Thread
        PROVE  /\ pc'[t] \in Transit => holder'[sem'[t]] = NULL
               /\ pc'[t] \in TidSection => holder'[tid_lock] = t
    <3>1. CASE t = current
      BY <2>1, <3>1
    <3>2. CASE t # current
      BY <1>0, <2>0, <2>1, <2>2, <3>2, ObjectAssumption DEF LockInv
    <3>3. QED
      BY <3>1, <3>2
  <2>5. QED
    BY <2>1, <2>3, <2>4 DEF LockInv
<1>3. CASE UpStep
  <2>0. PICK k \in Lock : k = sem[current]
    BY <1>0, <1>3 DEF UpStep
  <2>1. /\ pc[current] = "releasing" /\ holder[k] = NULL
        /\ pc'[current] \notin Transit \cup TidSection /\ UNCHANGED holder
        /\ \A t \in Thread : t # current => pc'[t] = pc[t] /\ sem'[t] = sem[t]
    BY <1>0, <1>3, <2>0 DEF UpStep, LockInv, TypeOK
  <2>2. value'[k] = value[k] + 1 /\ \A l \in Lock : l # k => value'[l] = value[l]
    BY <1>3, <2>0 DEF UpStep, TypeOK, Semaphore
  <2>3. Owns(current, k)
    BY <2>0, <2>1 DEF Owns
  <2>4. value[k] = 0 /\ \A u \in Thread : Owns(u, k) => u = current
    BY <1>0, <2>1, <2>3 DEF LockInv
  <2>5. \A t \in Thread : ~Owns(t, k)'
    BY <1>0, <2>1, <2>4 DEF Owns
  <2>6. \A l \in Lock : l # k => \A t \in Thread : Owns(t, l)' <=> Owns(t, l)
    BY <1>0, <2>0, <2>1 DEF Owns
  <2>7. ASSUME NEW t \in Thread
        PROVE  /\ pc'[t] \in Transit => holder'[sem'[t]] = NULL
               /\ pc'[t] \in TidSection => holder'[tid_lock] = t
    BY <2>1 DEF LockInv
  <2>8. QED
    BY <2>2, <2>4, <2>5, <2>6, <2>7 DEF LockInv
<1>4. ASSUME NEW k \in Lock, TakeStep(k) PROVE LockInv'
  <2>1. /\ pc'[current] = "acquired" /\ sem'[current] = k /\ UNCHANGED holder
        /\ pc[current] \notin Transit
        /\ \A t \in Thread : t # current => pc'[t] = pc[t] /\ sem'[t] = sem[t]
        /\ value[k] > 0
    BY <1>0, <1>4 DEF TakeStep, TypeOK
  <2>2. value[k] = 1 /\ \A t \in Thread : ~Owns(t, k)
    BY <2>1 DEF LockInv
  <2>3. value'[k] = 0 /\ \A l \in Lock : l # k => value'[l] = value[l]
    BY <1>4, <2>2 DEF TakeStep, TypeOK, Semaphore
  <2>4. \A u \in Thread : Owns(u, k)' <=> u = current
    BY <2>1, <2>2 DEF Owns
  <2>5. \A l \in Lock : l # k => \A t \in Thread : Owns(t, l)' <=> Owns(t, l)
    BY <2>1 DEF Owns
  <2>6. holder[k] = NULL
    BY <2>2 DEF Owns, TypeOK
  <2>7. ASSUME NEW t \in Thread
        PROVE  /\ pc'[t] \in Transit => holder'[sem'[t]] = NULL
               /\ pc'[t] \in TidSection => holder'[tid_lock] = t
    BY <2>1, <2>6 DEF LockInv
  <2>8. ASSUME NEW l \in Lock
        PROVE  \/ value'[l] = 1 /\ \A t \in Thread : ~Owns(t, l)'
               \/ value'[l] = 0 /\ \E t \in Thread : \A u \in Thread : Owns(u, l)' <=> u = t
    BY <1>0, <2>3, <2>4, <2>5 DEF LockInv
  <2>9. QED
    BY <2>7, <2>8 DEF LockInv
<1>5. ASSUME NEW k \in Lock, ClearStep(k) PROVE LockInv'
  <2>1. /\ pc'[current] = "releasing" /\ sem'[current] = k
        /\ pc[current] \notin Transit /\ holder[k] = current
        /\ \A t \in Thread : t # current => pc'[t] = pc[t] /\ sem'[t] = sem[t]
        /\ holder'[k] = NULL /\ \A l \in Lock : l # k => holder'[l] = holder[l]
        /\ \A l \in Lock : value'[l] = value[l]
    BY <1>0, <1>5 DEF ClearStep, TypeOK
  <2>2. \A u \in Thread : Owns(u, k) => u = current
    BY <1>0, <2>1 DEF LockInv, Owns
  <2>3. \A t \in Thread, l \in Lock : Owns(t, l)' <=> Owns(t, l)
    BY <1>0, <2>1, <2>2 DEF Owns
  <2>4. ASSUME NEW t \in Thread
        PROVE  /\ pc'[t] \in Transit => holder'[sem'[t]] = NULL
               /\ pc'[t] \in TidSection => holder'[tid_lock] = t
    <3>1. CASE t = current
      BY <2>1, <3>1
    <3>2. CASE t # current
      BY <1>0, <2>1, <3>2, ObjectAssumption DEF LockInv
    <3>3. QED
      BY <3>1, <3>2
  <2>5. QED
    BY <2>1, <2>3, <2>4 DEF LockInv
<1>6. QED
  BY <1>1, <1>2, <1>3, <1>4, <1>5, Ownership

\* At the start every lock is free and its semaphore is up.
LEMMA LockInvInit == Init => LockInv
  BY ObjectAssumption DEF Init, LockInv, Owns, Semaphore

\* Mutual exclusion: a lock's semaphore is down exactly when one thread owns
\* the lock, also between the down and the assignment of holder.
THEOREM MutualExclusion == Spec => []LockExclusion
<1>1. TypeInv /\ LockInv => LockExclusion
  BY DEF LockInv, LockExclusion
<1>2. QED
  BY TypeInvInit, TypeInvStep, LockInvInit, LockInvStep, <1>1, PTL DEF Spec

-----------------------------------------------------------------------------
(***************************************************************************)
(* Thread identifiers.                                                     *)
(***************************************************************************)
TidKept ==
    /\ UNCHANGED <<tid, next_tid>>
    /\ \A u \in Thread : /\ pc'[u] = "write_tid" <=> pc[u] = "write_tid"
                         /\ pc[u] = "write_tid" => frame'[u] = frame[u]

\* sema_down() leaves its caller outside the section of allocate_tid().
LEMMA DownTid ==
    ASSUME TypeOK, NEW s, sema_down(s), pc[current] # "write_tid",
           UNCHANGED <<frame, tid, next_tid>>
    PROVE  TidKept
<1>1. \E p \in {"down", "acquired", "signaled", "free"} :
         pc' = [pc EXCEPT ![current] = p]
  BY DEF sema_down
<1>2. QED
  BY <1>1 DEF TidKept, TypeOK

\* Only init_thread(), the load and the store of allocate_tid() touch
\* identifiers.
LEMMA TidSteps ==
    TypeOK /\ [Next]_vars =>
        TidKept \/ ReadTid \/ WriteTid \/ \E t \in Thread : ThreadCreate(t)
<1> SUFFICES ASSUME TypeOK, [Next]_vars, ~ReadTid, ~WriteTid,
                    ~\E t \in Thread : ThreadCreate(t)
             PROVE  TidKept
  OBVIOUS
<1>1. CASE \/ \E s \in Sema : SemaDown(s)
           \/ SemaDownLoop
           \/ \E l \in Lock : LockAcquire(l)
           \/ CondSleep
           \/ CondReacquire
           \/ AllocateTid
  BY <1>1, DownTid DEF SemaDown, SemaDownLoop, LockAcquire, CondSleep, CondReacquire,
                       AllocateTid, At, tid_vars
<1>2. CASE \/ \E s \in Sema : SemaTryDown(s) \/ SemaUp(s) \/ DeviceInterrupt(s)
           \/ \E c \in Cond : CondSignal(c)
           \/ ThreadYield \/ ThreadExit \/ Idle \/ TimerInterrupt
           \/ UNCHANGED vars
  BY <1>2 DEF SemaTryDown, SemaUp, DeviceInterrupt, CondSignal, ThreadYield, ThreadExit,
              Idle, TimerInterrupt, vars, call_vars, tid_vars, TidKept
<1>3. CASE SetHolder \/ ReleaseUp \/ Created \/ CondBroadcastLoop
  BY <1>3 DEF SetHolder, ReleaseUp, Created, CondBroadcastLoop, At, call_vars, tid_vars,
              TidKept, TypeOK
<1>4. CASE \/ \E l \in Lock : LockTryAcquire(l) \/ LockRelease(l)
           \/ \E c \in Cond : CondWait(c) \/ CondBroadcast(c)
  BY <1>4 DEF LockTryAcquire, LockRelease, CondWait, CondBroadcast, clear_holder, At,
              tid_vars, TidKept, TypeOK
<1>5. QED
  BY <1>1, <1>2, <1>3, <1>4 DEF Next, SemaStep, LockStep, CondStep, CreateStep, Interrupt

\* A step keeps identifiers unique and below next_tid: tid_lock keeps a second
\* creator out between the load and the store.
LEMMA TidInvStep ==
    TypeInv /\ ListInv /\ LockInv /\ TidInv /\ [Next]_vars => TidInv'
<1> SUFFICES ASSUME TypeInv, ListInv, LockInv, TidInv, [Next]_vars PROVE TidInv'
  OBVIOUS
<1> USE DEF TypeInv
<1>0. current \in Thread /\ CallsMatch(current)
  BY DEF TypeOK, CallInv
<1>1. CASE TidKept
  BY <1>1 DEF TidKept, TidInv, TidUnique
<1>2. CASE ReadTid
  <2>1. PICK c \in Thread : c = frame[current]
    BY <1>0, <1>2 DEF ReadTid, At, CallsMatch
  <2>2. /\ tid'[c] = next_tid /\ \A t \in Thread : t # c => tid'[t] = tid[t]
        /\ UNCHANGED <<next_tid, frame>>
        /\ pc'[current] = "write_tid" /\ pc[current] = "read_tid"
        /\ \A t \in Thread : t # current => pc'[t] = pc[t]
    BY <1>0, <1>2, <2>1 DEF ReadTid, At, TypeOK
  <2>3. \A u \in Thread : pc[u] # "write_tid"
    BY <1>0, <2>2 DEF LockInv
  <2>4. \A t \in Thread : tid[t] < next_tid
    BY <2>3 DEF TidInv
  <2>5. TidUnique'
    BY <2>2, <2>4 DEF TidInv, TidUnique, TypeOK
  <2>6. QED
    BY <1>0, <2>1, <2>2, <2>3, <2>4, <2>5 DEF TidInv
<1>3. CASE WriteTid
  <2>1. PICK c \in Thread : c = frame[current]
    BY <1>0, <1>3 DEF WriteTid, At, CallsMatch
  <2>2. /\ next_tid' = tid[c] + 1 /\ UNCHANGED tid
        /\ pc[current] = "write_tid" /\ pc'[current] = "releasing"
        /\ \A t \in Thread : t # current => pc'[t] = pc[t]
    BY <1>0, <1>3, <2>1 DEF WriteTid, clear_holder, At, TypeOK
  <2>3. tid[c] = next_tid
    BY <1>0, <2>1, <2>2 DEF TidInv
  <2>4. \A u \in Thread : pc'[u] # "write_tid"
    BY <1>0, <2>2 DEF LockInv
  <2>5. ASSUME NEW t \in Thread PROVE tid'[t] < next_tid'
    <3>1. tid[t] \in Nat /\ next_tid \in Nat /\ (tid[t] < next_tid \/ tid[t] = next_tid)
      BY DEF TidInv, TypeOK
    <3>2. QED
      BY <2>2, <2>3, <3>1
  <2>6. QED
    BY <2>2, <2>3, <2>4, <2>5 DEF TidInv, TidUnique, TypeOK
<1>4. ASSUME NEW c \in Thread, ThreadCreate(c) PROVE TidInv'
  <2>1. /\ tid'[c] = 0 /\ \A t \in Thread : t # c => tid'[t] = tid[t]
        /\ UNCHANGED next_tid
        /\ pc[current] = "free" /\ pc'[current] = "create"
        /\ \A t \in Thread : t # current => pc'[t] = pc[t] /\ frame'[t] = frame[t]
        /\ status[c] = "unused"
    BY <1>0, <1>4 DEF ThreadCreate, At, TypeOK
  <2>2. \A u \in Thread : frame[u] # c
    BY <2>1 DEF ListInv, WaitInv
  <2>3. TidUnique'
    BY <2>1 DEF TidInv, TidUnique
  <2>4. ASSUME NEW t \in Thread
        PROVE  \/ tid'[t] < next_tid'
               \/ tid'[t] = next_tid' /\ \E u \in Thread : pc'[u] = "write_tid" /\ frame'[u] = t
    <3>1. CASE t = c
      BY <2>1, <3>1 DEF TidInv
    <3>2. CASE t # c /\ tid[t] < next_tid
      BY <2>1, <3>2
    <3>3. ASSUME NEW u \in Thread, pc[u] = "write_tid", frame[u] = t, tid[t] = next_tid,
                 t # c
          PROVE  tid'[t] = next_tid' /\ pc'[u] = "write_tid" /\ frame'[u] = t
      BY <2>1, <3>3
    <3>4. QED
      BY <3>1, <3>2, <3>3 DEF TidInv
  <2>5. ASSUME NEW u \in Thread, pc'[u] = "write_tid" PROVE tid'[frame'[u]] = next_tid'
    <3>1. u # current /\ pc[u] = "write_tid" /\ frame'[u] = frame[u] /\ frame[u] # c
      BY <2>1, <2>2, <2>5
    <3>2. frame[u] \in Thread
      BY <3>1 DEF CallInv, CallsMatch
    <3>3. QED
      BY <2>1, <3>1, <3>2 DEF TidInv
  <2>6. QED
    BY <2>1, <2>3, <2>4, <2>5 DEF TidInv
<1>5. QED
  BY <1>1, <1>2, <1>3, <1>4, TidSteps

\* main() and idle have the first two identifiers.
LEMMA TidInvInit == Init => TidInv
  BY ThreadAssumption DEF Init, TidInv, TidUnique

\* allocate_tid() hands out each identifier once, because the load and the
\* store of next_tid are made by the one owner of tid_lock.
THEOREM TidsUnique == Spec => []TidUnique
<1>1. TidInv => TidUnique
  BY DEF TidInv
<1>2. QED
  BY TypeInvInit, TypeInvStep, ListInvInit, ListInvStep, LockInvInit, LockInvStep,
     TidInvInit, TidInvStep, <1>1, PTL DEF Spec

-----------------------------------------------------------------------------
(***************************************************************************)
(* No lost wakeup.                                                         *)
(***************************************************************************)

\* The step leaves every thread where it is with respect to sema_down().
DownKept ==
    \A t \in Thread : /\ pc'[t] = "down" <=> pc[t] = "down"
                      /\ pc[t] = "down" => sem'[t] = sem[t]

\* The threads woken for a semaphore can be counted.
LEMMA WokenFinite ==
    ASSUME NEW s
    PROVE  /\ IsFiniteSet(Woken(s)) /\ Cardinality(Woken(s)) \in Nat
           /\ IsFiniteSet(Woken(s)') /\ Cardinality(Woken(s)') \in Nat
<1>1. Woken(s) \subseteq Thread /\ Woken(s)' \subseteq Thread
  BY DEF Woken
<1>2. QED
  BY <1>1, ThreadAssumption, FS_Subset, FS_CardinalityType

\* A step that wakes and blocks nobody and raises no value.
LEMMA WakeKept ==
    ASSUME NoLostWakeup, TypeOK, TypeOK', DownKept, UNCHANGED waiters,
           \A s \in Semaphore : value'[s] <= value[s]
    PROVE  NoLostWakeup'
<1> SUFFICES ASSUME NEW s \in Semaphore, waiters'[s] # <<>>
             PROVE  Cardinality(Woken(s)') >= value'[s]
  BY DEF NoLostWakeup
<1>1. Woken(s)' = Woken(s)
  BY DEF Woken, DownKept
<1>2. Cardinality(Woken(s)) >= value[s]
  BY DEF NoLostWakeup
<1>3. value[s] \in Nat /\ value'[s] \in Nat
  BY DEF TypeOK
<1>4. QED
  BY <1>1, <1>2, <1>3, WokenFinite

\* sema_down() keeps NoLostWakeup: a thread that takes the value lowers it by
\* one, and at most one woken thread leaves; one that blocks found it zero.
LEMMA WakeDown ==
    ASSUME TypeInv, ListInv, NoLostWakeup, NEW s \in Semaphore, sema_down(s),
           pc[current] = "down" => sem[current] = s
    PROVE  NoLostWakeup'
<1> USE DEF TypeInv
<1>0. current \in Thread /\ \A r \in Semaphore : current \notin Range(waiters[r])
  BY RunningFree
<1>1. PICK p \in PC, x \in Semaphore \cup {NULL} :
        /\ pc' = [pc EXCEPT ![current] = p] /\ sem' = [sem EXCEPT ![current] = x]
        /\ p = "down" => x = s
  BY DEF sema_down, PC
<1>2. ASSUME NEW r \in Semaphore, r # s
      PROVE  Woken(r)' = Woken(r) /\ waiters'[r] = waiters[r] /\ value'[r] = value[r]
  <2>1. waiters'[r] = waiters[r] /\ value'[r] = value[r]
    BY <1>2 DEF sema_down, TypeOK
  <2>2. QED
    BY <1>0, <1>1, <1>2, <2>1 DEF Woken, TypeOK
<1>3. CASE value[s] = 0
  <2>1. value'[s] = 0
    BY <1>3 DEF sema_down
  <2>2. QED
    <3>1. Cardinality(Woken(s)') >= value'[s]
      BY <2>1, WokenFinite
    <3>2. QED
      BY <1>2, <3>1 DEF NoLostWakeup
<1>4. CASE value[s] > 0
  <2>1. /\ value'[s] = value[s] - 1 /\ UNCHANGED waiters
        /\ pc'[current] # "down"
        /\ \A t \in Thread : t # current => pc'[t] = pc[t] /\ sem'[t] = sem[t]
    BY <1>0, <1>4 DEF sema_down, TypeOK
  <2>2. Woken(s)' = Woken(s) \ {current}
    BY <2>1 DEF Woken
  <2>3. Cardinality(Woken(s)') >= Cardinality(Woken(s)) - 1
    <3>1. Cardinality(Woken(s) \ {current}) =
            IF current \in Woken(s) THEN Cardinality(Woken(s)) - 1 ELSE Cardinality(Woken(s))
      BY WokenFinite, FS_RemoveElement
    <3>2. QED
      BY <2>2, <3>1, WokenFinite
  <2>4. waiters'[s] # <<>> => Cardinality(Woken(s)) >= value[s]
    BY <2>1 DEF NoLostWakeup
  <2>5. waiters'[s] # <<>> => Cardinality(Woken(s)') >= value'[s]
    <3>1. value[s] \in Nat
      BY DEF TypeOK
    <3>2. QED
      BY <2>1, <2>3, <2>4, <3>1, WokenFinite
  <2>6. QED
    BY <1>2, <2>5 DEF NoLostWakeup
<1>5. QED
  BY <1>3, <1>4 DEF TypeOK

\* sema_up() keeps NoLostWakeup: it adds one to the value and, if threads wait,
\* one woken thread.
LEMMA WakeUp ==
    ASSUME TypeInv, ListInv, NoLostWakeup, NEW s \in Semaphore, sema_up(s), DownKept
    PROVE  NoLostWakeup'
<1> USE DEF TypeInv
<1>1. /\ waiters' = [waiters EXCEPT ![s] = IF @ = <<>> THEN @ ELSE Tail(@)]
      /\ value' = [value EXCEPT ![s] = @ + 1]
  BY Wake DEF sema_up
<1>2. ASSUME NEW r \in Semaphore, r # s
      PROVE  Woken(r)' = Woken(r) /\ waiters'[r] = waiters[r] /\ value'[r] = value[r]
  <2>1. waiters'[r] = waiters[r] /\ value'[r] = value[r]
    BY <1>1, <1>2 DEF TypeOK
  <2>2. QED
    BY <2>1 DEF Woken, DownKept
<1>3. waiters'[s] # <<>> => Cardinality(Woken(s)') >= value'[s]
  <2> SUFFICES ASSUME waiters'[s] # <<>> PROVE Cardinality(Woken(s)') >= value'[s]
    OBVIOUS
  <2> DEFINE h == Head(waiters[s])
  <2>1. waiters[s] # <<>> /\ waiters'[s] = Tail(waiters[s]) /\ value'[s] = value[s] + 1
    BY <1>1 DEF TypeOK
  <2>2. /\ h \in Range(waiters[s]) /\ h \in Thread
        /\ Range(waiters'[s]) = Range(waiters[s]) \ {h}
    BY <2>1, PopFront DEF TypeOK, ListInv, WaitInv
  <2>3. pc[h] = "down" /\ sem[h] = s /\ h \notin Woken(s)
    BY <2>2 DEF ListInv, WaitInv, Woken
  <2>4. Woken(s)' = Woken(s) \cup {h}
    BY <2>2, <2>3 DEF Woken, DownKept
  <2>5. Cardinality(Woken(s)') = Cardinality(Woken(s)) + 1
    BY <2>3, <2>4, WokenFinite, FS_AddElement
  <2>6. Cardinality(Woken(s)) >= value[s] /\ value[s] \in Nat
    BY <2>1 DEF NoLostWakeup, TypeOK
  <2>7. QED
    BY <2>1, <2>5, <2>6, WokenFinite
<1>4. QED
  BY <1>2, <1>3 DEF NoLostWakeup

\* Every step keeps NoLostWakeup.
LEMMA WakeStep ==
    TypeInv /\ TypeInv' /\ ListInv /\ NoLostWakeup /\ [Next]_vars => NoLostWakeup'
<1> SUFFICES ASSUME TypeInv, TypeInv', ListInv, NoLostWakeup, [Next]_vars
             PROVE  NoLostWakeup'
  OBVIOUS
<1> USE DEF TypeInv
<1>0. current \in Thread /\ CallsMatch(current)
  BY DEF TypeOK, CallInv
<1>a. \A s \in Semaphore : value[s] \in Nat
  BY DEF TypeOK
<1>1. ASSUME NEW s \in Semaphore, sema_down(s), pc[current] = "down" => sem[current] = s
      PROVE  NoLostWakeup'
  BY <1>1, WakeDown
<1>2. CASE SemaDownLoop
  <2>1. sem[current] \in Semaphore /\ sema_down(sem[current])
    BY <1>0, <1>2, ObjectAssumption DEF SemaDownLoop, At, CallsMatch, Semaphore
  <2>2. QED
    BY <1>1, <2>1
<1>3. CASE \/ \E s \in Sema : SemaDown(s)
           \/ \E l \in Lock : LockAcquire(l)
           \/ CondSleep
           \/ AllocateTid
  BY <1>0, <1>1, <1>3, ObjectAssumption
     DEF SemaDown, LockAcquire, CondSleep, AllocateTid, At, Semaphore
<1>4. CASE CondReacquire
  <2>1. CondLock[frame[current]] \in Semaphore
    BY <1>0, <1>4, ObjectAssumption DEF CondReacquire, At, CallsMatch, Semaphore
  <2>2. QED
    BY <1>1, <1>4, <2>1 DEF CondReacquire, At
<1>5. CASE \E s \in Sema : SemaUp(s) \/ DeviceInterrupt(s)
  <2>1. PICK s \in Sema : sema_up(s) /\ UNCHANGED <<pc, sem>>
    BY <1>5 DEF SemaUp, DeviceInterrupt, call_vars
  <2>2. QED
    BY <2>1, WakeUp DEF DownKept, Semaphore
<1>6. CASE ReleaseUp
  <2>1. sem[current] \in Semaphore /\ sema_up(sem[current])
    BY <1>0, <1>6 DEF ReleaseUp, At, CallsMatch, Semaphore
  <2>2. DownKept
    BY <1>0, <1>6 DEF ReleaseUp, At, DownKept, TypeOK
  <2>3. QED
    BY <2>1, <2>2, WakeUp
<1>7. ASSUME NEW c \in Cond, cond_signal(c), UNCHANGED <<pc, sem>>
      PROVE  NoLostWakeup'
  <2>1. cond_waiters[c] # <<>> /\ sema_up(Head(cond_waiters[c]))
    BY <1>7 DEF cond_signal
  <2>2. cond_waiters[c] \in Seq(Thread)
    BY DEF TypeOK
  <2>3. Head(cond_waiters[c]) \in Semaphore
    BY <2>1, <2>2 DEF Semaphore
  <2>4. QED
    BY <1>7, <2>1, <2>3, WakeUp DEF DownKept
<1>8. CASE \E c \in Cond : CondSignal(c)
  BY <1>7, <1>8 DEF CondSignal, call_vars
<1>9. CASE CondBroadcastLoop
  <2>1. frame[current] \in Cond /\ pc[current] = "broadcast"
    BY <1>0, <1>9 DEF CondBroadcastLoop, At, CallsMatch
  <2>2. CASE cond_signal(frame[current]) /\ UNCHANGED <<pc, sem>>
    BY <1>7, <2>1, <2>2
  <2>3. CASE UNCHANGED <<value, waiters, sem>> /\ pc' = [pc EXCEPT ![current] = "free"]
    <3>1. DownKept
      BY <1>0, <2>1, <2>3 DEF DownKept, TypeOK
    <3>2. \A s \in Semaphore : value'[s] <= value[s]
      BY <2>3 DEF TypeOK
    <3>3. QED
      BY <2>3, <3>1, <3>2, WakeKept
  <2>4. QED
    BY <1>9, <2>2, <2>3 DEF CondBroadcastLoop, call_vars
<1>10. CASE \E s \in Sema : SemaTryDown(s)
  <2>1. DownKept /\ UNCHANGED waiters
    BY <1>10 DEF SemaTryDown, call_vars, DownKept
  <2>2. ASSUME NEW s \in Semaphore PROVE value'[s] <= value[s]
    <3>1. PICK r \in Sema : value' = [value EXCEPT ![r] = @ - 1]
      BY <1>10 DEF SemaTryDown
    <3>2. value[s] \in Nat /\ value \in [Semaphore -> Nat]
      BY DEF TypeOK
    <3>3. value'[s] = value[s] \/ value'[s] = value[s] - 1
      BY <3>1, <3>2
    <3>4. QED
      BY <3>2, <3>3
  <2>3. QED
    BY <2>1, <2>2, WakeKept
<1>11. CASE \E l \in Lock : LockTryAcquire(l) \/ LockRelease(l)
  <2>1. DownKept /\ UNCHANGED waiters
    BY <1>0, <1>11, SMTT(30) DEF LockTryAcquire, LockRelease, clear_holder, At, DownKept, TypeOK
  <2>2. ASSUME NEW s \in Semaphore PROVE value'[s] <= value[s]
    <3>1. PICK l \in Lock : value' = value \/ value' = [value EXCEPT ![l] = @ - 1]
      BY <1>11 DEF LockTryAcquire, LockRelease
    <3>2. value[s] \in Nat /\ value \in [Semaphore -> Nat]
      BY DEF TypeOK
    <3>3. value'[s] = value[s] \/ value'[s] = value[s] - 1
      BY <3>1, <3>2
    <3>4. QED
      BY <3>2, <3>3
  <2>3. QED
    BY <2>1, <2>2, WakeKept
<1>12. ASSUME NEW c \in Cond, CondWait(c) PROVE NoLostWakeup'
  <2>1. UNCHANGED waiters
    BY <1>0, <1>12, OwnSemaIdle DEF CondWait, At, TypeOK
  <2>2. \A s \in Semaphore : value'[s] <= value[s]
    BY <1>0, <1>12, SMTT(30) DEF CondWait, TypeOK, Semaphore
  <2>3. DownKept
    BY <1>0, <1>12 DEF CondWait, clear_holder, At, DownKept, TypeOK
  <2>4. QED
    BY <2>1, <2>2, <2>3, WakeKept
<1>13. CASE \/ SetHolder
            \/ \E c \in Cond : CondBroadcast(c)
            \/ \E t \in Thread : ThreadCreate(t)
            \/ ReadTid
            \/ WriteTid
            \/ Created
  <2>1. UNCHANGED <<value, waiters>>
    BY <1>13 DEF SetHolder, CondBroadcast, ThreadCreate, ReadTid, WriteTid, Created
  <2>2. DownKept
    BY <1>0, <1>13, SMTT(30) DEF SetHolder, CondBroadcast, ThreadCreate, ReadTid, WriteTid, Created,
                       clear_holder, At, DownKept, TypeOK
  <2>3. \A s \in Semaphore : value'[s] <= value[s]
    BY <1>a, <2>1
  <2>4. QED
    BY <2>1, <2>2, <2>3, WakeKept
<1>14. CASE ThreadYield \/ ThreadExit \/ Idle \/ TimerInterrupt \/ UNCHANGED vars
  <2>1. UNCHANGED <<value, waiters, pc, sem>>
    BY <1>14 DEF ThreadYield, ThreadExit, Idle, TimerInterrupt, vars, call_vars
  <2>2. \A s \in Semaphore : value'[s] <= value[s]
    BY <1>a, <2>1
  <2>3. QED
    BY <2>1, <2>2, WakeKept DEF DownKept
<1>15. QED
  BY <1>2, <1>3, <1>4, <1>5, <1>6, <1>8, <1>9, <1>10, <1>11, <1>12, <1>13, <1>14
     DEF Next, SemaStep, LockStep, CondStep, CreateStep, Interrupt

\* At the start nobody waits.
LEMMA WakeInit == Init => NoLostWakeup
  BY DEF Init, NoLostWakeup

\* No sema_up() is lost to a waiter, although the woken thread must still win
\* the value against threads that call sema_down() before it runs.
THEOREM WakeupsKept == Spec => []NoLostWakeup
  BY TypeInvInit, TypeInvStep, ListInvInit, ListInvStep, WakeInit, WakeStep, PTL DEF Spec

-----------------------------------------------------------------------------
(***************************************************************************)
(* Condition variables.  As far as a condition can tell, a step is one of  *)
(* six: a call of cond_wait() enters, leaves the lock, consumes its signal *)
(* and reacquires the lock, another thread signals it, or nothing happens. *)
(***************************************************************************)

\* The thread is in cond_wait(), before it has the lock back.
Inside(t) == frame[t] \in Cond /\ pc[t] \notin {"broadcast", "acquired"}

\* The step leaves t where it is in cond_wait().
SamePlace(t) ==
    /\ AwaitsSignal(t)' <=> AwaitsSignal(t)
    /\ Inside(t)' <=> Inside(t)
    /\ Leaving(t)' <=> Leaving(t)
    /\ Inside(t) => frame'[t] = frame[t]

\* The semaphores that waiters keep on their stacks, but that of one.
SameSignals(u) == \A t \in Thread : t # u => value'[t] = value[t]

CondKeep ==
    /\ UNCHANGED cond_waiters
    /\ SameSignals(NULL)
    /\ \A t \in Thread : SamePlace(t)

EnterStep(u, c) ==
    /\ ~ Inside(u)
    /\ Leaving(u)' /\ frame'[u] = c
    /\ cond_waiters' = [cond_waiters EXCEPT ![c] = Append(@, u)]
    /\ value'[u] = 0 /\ SameSignals(u)
    /\ \A t \in Thread : t # u => SamePlace(t)
    /\ ClearStep(CondLock[c])

LeaveStep(u) ==
    /\ Leaving(u) /\ sem[u] = CondLock[frame[u]]
    /\ AwaitsSignal(u)' /\ ~ Leaving(u)' /\ frame'[u] = frame[u]
    /\ UNCHANGED cond_waiters
    /\ SameSignals(NULL)
    /\ \A t \in Thread : t # u => SamePlace(t)
    /\ UpStep

SignalStep(h, c) ==
    /\ holder[CondLock[c]] = current
    /\ cond_waiters[c] # <<>> /\ h = Head(cond_waiters[c])
    /\ cond_waiters' = [cond_waiters EXCEPT ![c] = Tail(@)]
    /\ value'[h] = value[h] + 1 /\ SameSignals(h)
    /\ \A t \in Thread : SamePlace(t)
    /\ KeepStep

ConsumeStep(u) ==
    /\ AwaitsSignal(u) /\ ~ Leaving(u)
    /\ Inside(u)' /\ ~ AwaitsSignal(u)' /\ frame'[u] = frame[u]
    /\ UNCHANGED cond_waiters
    /\ value[u] > 0 /\ value'[u] = value[u] - 1 /\ SameSignals(u)
    /\ \A t \in Thread : t # u => SamePlace(t)
    /\ KeepStep

ReacquireStep(u) ==
    /\ Inside(u) /\ ~ AwaitsSignal(u)
    /\ ~ Inside(u)' /\ ~ AwaitsSignal(u)'
    /\ UNCHANGED cond_waiters
    /\ SameSignals(NULL)
    /\ \A t \in Thread : t # u => SamePlace(t)
    /\ TakeStep(CondLock[frame[u]])

CondKind ==
    \/ CondKeep
    \/ \E u \in Thread : u = current /\ (LeaveStep(u) \/ ConsumeStep(u) \/ ReacquireStep(u))
    \/ \E u \in Thread, c \in Cond : u = current /\ EnterStep(u, c)
    \/ \E h \in Thread, c \in Cond : SignalStep(h, c)

\* Where the calls of a thread are, by its place in the code.
LEMMA Places ==
    ASSUME TypeInv, NEW t \in Thread
    PROVE  /\ AwaitsSignal(t) => Inside(t)
           /\ Leaving(t) => AwaitsSignal(t) /\ sem[t] = CondLock[frame[t]]
           /\ Inside(t) => pc[t] \in {"releasing", "wait", "signaled", "down"}
           /\ Inside(t) /\ pc[t] = "down" /\ sem[t] # t => sem[t] = CondLock[frame[t]]
<1>1. CallsMatch(t)
  BY DEF TypeInv, CallInv
<1>2. pc[t] \in PC
  BY DEF TypeInv, TypeOK
<1>3. NULL \notin Cond /\ Thread \cap Cond = {}
  BY ObjectAssumption
<1>4. frame[t] \in Cond => pc[t] \in {"releasing", "wait", "signaled", "broadcast", "down", "acquired"}
  BY <1>1, <1>2, <1>3 DEF CallsMatch, PC
<1>5. frame[t] \in Cond /\ pc[t] = "releasing" => sem[t] = CondLock[frame[t]]
  BY <1>1, <1>3 DEF CallsMatch
<1>6. frame[t] \in Cond /\ pc[t] = "down" /\ sem[t] # t => sem[t] = CondLock[frame[t]]
  BY <1>1, <1>3 DEF CallsMatch
<1>7. QED
  BY <1>4, <1>5, <1>6 DEF AwaitsSignal, Inside, Leaving

\* A thread that does not move stays in its place.
LEMMA StandStill ==
    ASSUME NEW t \in Thread, pc'[t] = pc[t], sem'[t] = sem[t], frame'[t] = frame[t]
    PROVE  SamePlace(t)
  BY DEF SamePlace, AwaitsSignal, Inside, Leaving

\* A thread that is not in cond_wait(), before and after the step.
LEMMA StayOutside ==
    ASSUME TypeInv, TypeInv', NEW t \in Thread, ~ Inside(t), ~ Inside(t)'
    PROVE  SamePlace(t)
<1>1. ~ AwaitsSignal(t) /\ ~ Leaving(t)
  BY Places
<1>2. ~ AwaitsSignal(t)' /\ ~ Leaving(t)'
  BY DEF AwaitsSignal, Inside, Leaving
<1>3. QED
  BY <1>1, <1>2 DEF SamePlace

\* The others keep their places when the running thread takes a step.
LEMMA OthersPlaces ==
    ASSUME OthersKept
    PROVE  \A t \in Thread : t # current => SamePlace(t)
  BY StandStill DEF OthersKept

\* sema_down() of a caller that is not in cond_wait().
LEMMA DownOutside ==
    ASSUME TypeInv, TypeInv', NEW s \in Semaphore, s \notin Thread, sema_down(s),
           UNCHANGED <<frame, cond_waiters>>, frame[current] \notin Cond
    PROVE  CondKeep
<1> USE DEF TypeInv
<1>1. PICK u \in Thread : u = current
  BY DEF TypeOK
<1>2. /\ \E p : pc' = [pc EXCEPT ![current] = p]
      /\ \E x : sem' = [sem EXCEPT ![current] = x]
      /\ value' = value \/ value' = [value EXCEPT ![s] = value[s] - 1]
  BY DEF sema_down
<1>3. OthersKept
  BY <1>2 DEF OthersKept, TypeOK
<1>4. ~ Inside(u) /\ ~ Inside(u)'
  BY <1>1 DEF Inside
<1>5. SamePlace(u)
  BY <1>4, StayOutside
<1>6. SameSignals(NULL)
  BY <1>2 DEF SameSignals, TypeOK, Semaphore
<1>7. QED
  BY <1>1, <1>3, <1>5, <1>6, OthersPlaces DEF CondKeep

\* sema_down() of the waiter's own semaphore, in cond_wait().
LEMMA DownSignal ==
    ASSUME TypeInv, TypeInv', sema_down(current), UNCHANGED <<frame, cond_waiters, holder>>,
           frame[current] \in Cond,
           \/ pc[current] = "wait"
           \/ pc[current] = "down" /\ sem[current] = current
    PROVE  CondKind
<1> USE DEF TypeInv
<1>1. PICK u \in Thread : u = current
  BY DEF TypeOK
<1>2. AwaitsSignal(u) /\ ~ Leaving(u) /\ Inside(u) /\ frame'[u] = frame[u]
  BY <1>1 DEF AwaitsSignal, Leaving, Inside
<1>3. CASE value[u] = 0
  <2>1. /\ pc' = [pc EXCEPT ![u] = "down"] /\ sem' = [sem EXCEPT ![u] = u]
        /\ value' = value
    BY <1>1, <1>3 DEF sema_down
  <2>2. OthersKept
    BY <1>1, <2>1 DEF OthersKept, TypeOK
  <2>3. pc'[u] = "down" /\ sem'[u] = u
    BY <2>1 DEF TypeOK
  <2>4. SamePlace(u)
    BY <1>1, <1>2, <2>3 DEF SamePlace, AwaitsSignal, Leaving, Inside
  <2>5. CondKeep
    BY <1>1, <2>1, <2>2, <2>4, OthersPlaces DEF CondKeep, SameSignals
  <2>6. QED
    BY <2>5 DEF CondKind
<1>4. CASE value[u] > 0
  <2>1. /\ pc' = [pc EXCEPT ![u] = "signaled"] /\ sem' = [sem EXCEPT ![u] = NULL]
        /\ value' = [value EXCEPT ![u] = value[u] - 1]
    BY <1>1, <1>4, ObjectAssumption DEF sema_down
  <2>2. OthersKept
    BY <1>1, <2>1 DEF OthersKept, TypeOK
  <2>3. pc'[u] = "signaled"
    BY <2>1 DEF TypeOK
  <2>4. Inside(u)' /\ ~ AwaitsSignal(u)'
    BY <1>1, <1>2, <2>3 DEF AwaitsSignal, Inside
  <2>5. u \in Semaphore /\ u \notin Lock
    BY ObjectAssumption DEF Semaphore
  <2>6. value'[u] = value[u] - 1 /\ SameSignals(u)
    BY <2>1, <2>5 DEF TypeOK, SameSignals, Semaphore
  <2>7. KeepStep
    <3>1. \A l \in Lock : value'[l] = value[l]
      BY <2>1, <2>5 DEF TypeOK, Semaphore
    <3>2. pc[u] \notin Transit
      BY <1>1 DEF Transit
    <3>3. \A t \in Thread : t # u => pc'[t] = pc[t] /\ sem'[t] = sem[t]
      BY <1>1, <2>2 DEF OthersKept
    <3>4. QED
      BY <2>3, <3>1, <3>2, <3>3 DEF KeepStep, Transit, TidSection
  <2>8. ConsumeStep(u)
    BY <1>1, <1>2, <1>4, <2>2, <2>4, <2>6, <2>7, OthersPlaces DEF ConsumeStep
  <2>9. QED
    BY <1>1, <2>8 DEF CondKind
<1>5. QED
  BY <1>1, <1>3, <1>4 DEF TypeOK, Semaphore

\* sema_down() of the lock at the end of cond_wait().
LEMMA DownReacquire ==
    ASSUME TypeInv, TypeInv', frame[current] \in Cond, sema_down(CondLock[frame[current]]),
           UNCHANGED <<frame, cond_waiters, holder>>,
           \/ pc[current] = "signaled"
           \/ pc[current] = "down" /\ sem[current] # current
    PROVE  CondKind
<1> USE DEF TypeInv
<1>1. PICK u \in Thread, l \in Lock : u = current /\ l = CondLock[frame[current]]
  BY ObjectAssumption DEF TypeOK
<1>2. ~ AwaitsSignal(u) /\ ~ Leaving(u) /\ Inside(u) /\ frame'[u] = frame[u]
  BY <1>1 DEF AwaitsSignal, Leaving, Inside
<1>3. l \in Semaphore /\ l \notin Thread
  BY ObjectAssumption DEF Semaphore
<1>4. CASE value[l] = 0
  <2>1. /\ pc' = [pc EXCEPT ![u] = "down"] /\ sem' = [sem EXCEPT ![u] = l]
        /\ value' = value
    BY <1>1, <1>4 DEF sema_down
  <2>2. OthersKept
    BY <1>1, <2>1 DEF OthersKept, TypeOK
  <2>3. pc'[u] = "down" /\ sem'[u] = l /\ l # u
    BY <1>3, <2>1 DEF TypeOK
  <2>4. SamePlace(u)
    BY <1>1, <1>2, <2>3 DEF SamePlace, AwaitsSignal, Leaving, Inside
  <2>5. CondKeep
    BY <1>1, <2>1, <2>2, <2>4, OthersPlaces DEF CondKeep, SameSignals
  <2>6. QED
    BY <2>5 DEF CondKind
<1>5. CASE value[l] > 0
  <2>1. /\ pc' = [pc EXCEPT ![u] = "acquired"] /\ sem' = [sem EXCEPT ![u] = l]
        /\ value' = [value EXCEPT ![l] = value[l] - 1]
    BY <1>1, <1>5 DEF sema_down
  <2>2. OthersKept
    BY <1>1, <2>1 DEF OthersKept, TypeOK
  <2>3. pc'[u] = "acquired"
    BY <2>1 DEF TypeOK
  <2>4. ~ Inside(u)' /\ ~ AwaitsSignal(u)'
    BY <2>3 DEF AwaitsSignal, Inside
  <2>5. SameSignals(NULL)
    BY <1>3, <2>1 DEF TypeOK, SameSignals, Semaphore
  <2>6. TakeStep(l)
    BY <1>1, <1>5, <2>1 DEF TakeStep, Transit
  <2>7. ReacquireStep(u)
    BY <1>1, <1>2, <2>2, <2>4, <2>5, <2>6, OthersPlaces DEF ReacquireStep
  <2>8. QED
    BY <1>1, <2>7 DEF CondKind
<1>6. QED
  BY <1>1, <1>3, <1>4, <1>5 DEF TypeOK

\* sema_up() by a step that moves nobody in cond_wait().
LEMMA UpOutside ==
    ASSUME TypeInv, NEW s \in Semaphore, s \notin Thread, sema_up(s)
    PROVE  SameSignals(NULL)
  BY DEF sema_up, SameSignals, TypeInv, TypeOK, Semaphore

\* cond_signal() ups the semaphore of the first waiter.
LEMMA SignalKind ==
    ASSUME TypeInv, NEW c \in Cond, cond_signal(c), UNCHANGED <<holder, pc, sem, frame>>
    PROVE  CondKind
<1> USE DEF TypeInv
<1> DEFINE h == Head(cond_waiters[c])
<1>1. /\ holder[CondLock[c]] = current /\ cond_waiters[c] # <<>>
      /\ cond_waiters' = [cond_waiters EXCEPT ![c] = Tail(@)] /\ sema_up(h)
  BY DEF cond_signal
<1>2. h \in Thread
  <2>1. cond_waiters[c] \in Seq(Thread)
    BY DEF TypeOK
  <2>2. QED
    BY <1>1, <2>1
<1>3. h \in Semaphore /\ h \notin Lock
  BY <1>2, ObjectAssumption DEF Semaphore
<1>4. KeepStep
  BY <1>1, <1>3, UpOwnership
<1>5. value'[h] = value[h] + 1 /\ SameSignals(h)
  BY <1>1, <1>2, <1>3 DEF sema_up, SameSignals, TypeOK, Semaphore
<1>6. \A t \in Thread : SamePlace(t)
  BY StandStill
<1>7. SignalStep(h, c)
  BY <1>1, <1>4, <1>5, <1>6 DEF SignalStep
<1>8. QED
  BY <1>2, <1>7 DEF CondKind

\* Every step is one of the six.
LEMMA CondSteps ==
    TypeInv /\ TypeInv' /\ ListInv /\ [Next]_vars => CondKind
<1> SUFFICES ASSUME TypeInv, TypeInv', ListInv, [Next]_vars PROVE CondKind
  OBVIOUS
<1> USE DEF TypeInv
<1>0. /\ current \in Thread /\ CallsMatch(current)
      /\ NULL \notin Cond /\ Thread \cap Cond = {} /\ Thread \cap Lock = {} /\ Thread \cap Sema = {}
  BY ObjectAssumption DEF TypeOK, CallInv
<1>a. PICK u \in Thread : u = current
  BY <1>0
<1>b. ASSUME OthersKept, UNCHANGED cond_waiters, SameSignals(NULL), ~ Inside(u), ~ Inside(u)'
      PROVE  CondKind
  <2>1. SamePlace(u)
    BY <1>b, StayOutside
  <2>2. CondKeep
    BY <1>a, <1>b, <2>1, OthersPlaces DEF CondKeep
  <2>3. QED
    BY <2>2 DEF CondKind
<1>c. UNCHANGED value => SameSignals(NULL)
  BY DEF SameSignals
<1>d. pc[current] \in {"free", "create", "read_tid", "write_tid", "created"} =>
        frame[current] \notin Cond /\ ~ Inside(u)
  BY <1>0, <1>a DEF CallsMatch, Inside
<1>1. ASSUME NEW s \in Sema, SemaDown(s) PROVE CondKind
  <2>1. /\ s \in Semaphore /\ s \notin Thread /\ sema_down(s)
        /\ UNCHANGED <<frame, cond_waiters>> /\ frame[current] \notin Cond
    BY <1>0, <1>1, <1>d DEF SemaDown, At, Semaphore
  <2>2. QED
    BY <2>1, DownOutside DEF CondKind
<1>2. CASE SemaDownLoop
  <2>1. /\ pc[current] = "down" /\ sema_down(sem[current])
        /\ UNCHANGED <<frame, cond_waiters, holder>>
    BY <1>2 DEF SemaDownLoop, At
  <2>2. CASE frame[current] \notin Cond
    <3>1. sem[current] \in Semaphore /\ sem[current] \notin Thread
      BY <1>0, <2>1, <2>2, ObjectAssumption DEF CallsMatch, Semaphore
    <3>2. QED
      BY <2>1, <2>2, <3>1, DownOutside DEF CondKind
  <2>3. CASE frame[current] \in Cond /\ sem[current] = current
    BY <2>1, <2>3, DownSignal
  <2>4. CASE frame[current] \in Cond /\ sem[current] # current
    <3>1. sem[current] = CondLock[frame[current]]
      BY <1>0, <2>1, <2>4 DEF CallsMatch
    <3>2. QED
      BY <2>1, <2>4, <3>1, DownReacquire
  <2>5. QED
    BY <2>2, <2>3, <2>4
<1>3. ASSUME NEW l \in Lock \ {tid_lock}, LockAcquire(l) PROVE CondKind
  <2>1. /\ l \in Semaphore /\ l \notin Thread /\ sema_down(l)
        /\ UNCHANGED <<frame, cond_waiters>> /\ frame[current] \notin Cond
    BY <1>0, <1>3, <1>d DEF LockAcquire, At, Semaphore
  <2>2. QED
    BY <2>1, DownOutside DEF CondKind
<1>4. CASE CondSleep
  <2>1. /\ pc[current] = "wait" /\ sema_down(current) /\ frame[current] \in Cond
        /\ UNCHANGED <<frame, cond_waiters, holder>>
    BY <1>0, <1>4 DEF CondSleep, At, CallsMatch
  <2>2. QED
    BY <2>1, DownSignal
<1>5. CASE CondReacquire
  <2>1. /\ pc[current] = "signaled" /\ sema_down(CondLock[frame[current]])
        /\ frame[current] \in Cond /\ UNCHANGED <<frame, cond_waiters, holder>>
    BY <1>0, <1>5 DEF CondReacquire, At, CallsMatch
  <2>2. QED
    BY <2>1, DownReacquire
<1>6. CASE AllocateTid
  <2>1. /\ tid_lock \in Semaphore /\ tid_lock \notin Thread /\ sema_down(tid_lock)
        /\ UNCHANGED <<frame, cond_waiters>> /\ frame[current] \notin Cond
    BY <1>0, <1>6, <1>d, ObjectAssumption DEF AllocateTid, At, Semaphore
  <2>2. QED
    BY <2>1, DownOutside DEF CondKind
<1>7. ASSUME NEW s \in Sema, SemaUp(s) \/ DeviceInterrupt(s) PROVE CondKind
  <2>1. /\ s \in Semaphore /\ s \notin Thread /\ sema_up(s)
        /\ UNCHANGED <<pc, sem, frame, cond_waiters>>
    BY <1>0, <1>7 DEF SemaUp, DeviceInterrupt, Semaphore, call_vars
  <2>2. CondKeep
    BY <2>1, UpOutside, StandStill DEF CondKeep
  <2>3. QED
    BY <2>2 DEF CondKind
<1>8. ASSUME NEW c \in Cond, CondSignal(c) PROVE CondKind
  <2>1. cond_signal(c) /\ UNCHANGED <<holder, pc, sem, frame>>
    BY <1>8 DEF CondSignal, call_vars
  <2>2. QED
    BY <2>1, SignalKind
<1>9. ASSUME NEW s \in Sema, SemaTryDown(s) PROVE CondKind
  <2>1. /\ value' = [value EXCEPT ![s] = value[s] - 1] /\ s \notin Thread
        /\ UNCHANGED <<pc, sem, frame, cond_waiters>>
    BY <1>0, <1>9 DEF SemaTryDown, call_vars
  <2>2. SameSignals(NULL)
    BY <2>1 DEF SameSignals, TypeOK, Semaphore
  <2>3. CondKeep
    BY <2>1, <2>2, StandStill DEF CondKeep
  <2>4. QED
    BY <2>3 DEF CondKind
<1>10. CASE SetHolder
  <2>1. /\ pc[u] = "acquired" /\ UNCHANGED <<value, cond_waiters>>
        /\ pc' = [pc EXCEPT ![u] = IF frame[u] \in Thread THEN "read_tid" ELSE "free"]
        /\ sem' = [sem EXCEPT ![u] = NULL]
        /\ frame' = [frame EXCEPT ![u] = IF frame[u] \in Thread THEN frame[u] ELSE NULL]
    BY <1>10, <1>a DEF SetHolder, At
  <2>2. OthersKept
    BY <1>a, <2>1 DEF OthersKept, TypeOK
  <2>3. ~ Inside(u)
    BY <2>1 DEF Inside
  <2>4. frame'[u] \notin Cond
    BY <1>0, <2>1 DEF TypeOK
  <2>5. QED
    BY <1>b, <1>c, <2>1, <2>2, <2>3, <2>4 DEF Inside
<1>11. ASSUME NEW l \in Lock \ {tid_lock}, LockTryAcquire(l) PROVE CondKind
  <2>1. /\ pc[u] = "free" /\ UNCHANGED <<frame, cond_waiters>>
        /\ value' = [value EXCEPT ![l] = value[l] - 1]
        /\ pc' = [pc EXCEPT ![u] = "acquired"] /\ sem' = [sem EXCEPT ![u] = l]
    BY <1>11, <1>a DEF LockTryAcquire, At
  <2>2. OthersKept
    BY <1>a, <2>1 DEF OthersKept, TypeOK
  <2>3. ~ Inside(u) /\ ~ Inside(u)'
    BY <1>a, <1>d, <2>1 DEF Inside
  <2>4. SameSignals(NULL)
    BY <1>0, <2>1 DEF SameSignals, TypeOK, Semaphore
  <2>5. QED
    BY <1>b, <2>1, <2>2, <2>3, <2>4
<1>12. ASSUME NEW l \in Lock \ {tid_lock}, LockRelease(l) PROVE CondKind
  <2>1. /\ pc[u] = "free" /\ UNCHANGED <<value, cond_waiters>>
        /\ pc' = [pc EXCEPT ![u] = "releasing"] /\ sem' = [sem EXCEPT ![u] = l]
        /\ frame' = [frame EXCEPT ![u] = NULL]
    BY <1>12, <1>a DEF LockRelease, At, clear_holder
  <2>2. OthersKept
    BY <1>a, <2>1 DEF OthersKept, TypeOK
  <2>3. ~ Inside(u) /\ ~ Inside(u)'
    BY <1>0, <1>a, <1>d, <2>1 DEF Inside, TypeOK
  <2>4. QED
    BY <1>b, <1>c, <2>1, <2>2, <2>3
<1>13. CASE ReleaseUp
  <2>1. /\ pc[u] = "releasing" /\ UNCHANGED <<frame, cond_waiters>> /\ sema_up(sem[u])
        /\ pc' = [pc EXCEPT ![u] = CASE frame[u] \in Cond   -> "wait"
                                     [] frame[u] \in Thread -> "created"
                                     [] OTHER               -> "free"]
        /\ sem' = [sem EXCEPT ![u] = NULL]
    BY <1>13, <1>a DEF ReleaseUp, At
  <2>2. OthersKept
    BY <1>a, <2>1 DEF OthersKept, TypeOK
  <2>3. sem[u] \in Semaphore /\ sem[u] \notin Thread
    BY <1>0, <1>a, <2>1 DEF CallsMatch, Semaphore
  <2>4. SameSignals(NULL)
    BY <2>1, <2>3, UpOutside
  <2>5. CASE frame[u] \notin Cond
    BY <1>b, <2>1, <2>2, <2>4, <2>5 DEF Inside
  <2>6. CASE frame[u] \in Cond
    <3>1. pc'[u] = "wait" /\ frame'[u] = frame[u]
      <4>1. frame[u] \notin Thread
        BY <1>0, <2>6
      <4>2. pc' = [pc EXCEPT ![u] = "wait"]
        BY <2>1, <2>6, <4>1
      <4>3. QED
        BY <2>1, <4>2 DEF TypeOK
    <3>2. AwaitsSignal(u)' /\ ~ Leaving(u)' /\ Leaving(u)
      BY <2>1, <2>6, <3>1 DEF AwaitsSignal, Leaving
    <3>3. sem[u] = CondLock[frame[u]]
      BY <3>2, Places
    <3>4. UpStep
      BY <1>13 DEF ReleaseUp, At, sema_up, UpStep, Transit, TidSection, PC
    <3>5. LeaveStep(u)
      BY <1>a, <2>1, <2>2, <2>4, <3>1, <3>2, <3>3, <3>4, OthersPlaces DEF LeaveStep
    <3>6. QED
      BY <1>a, <3>5 DEF CondKind
  <2>7. QED
    BY <2>5, <2>6
<1>14. ASSUME NEW c \in Cond, CondWait(c) PROVE CondKind
  <2>1. /\ pc[u] = "free" /\ holder[CondLock[c]] = u
        /\ value' = [value EXCEPT ![u] = 0]
        /\ cond_waiters' = [cond_waiters EXCEPT ![c] = Append(@, u)]
        /\ holder' = [holder EXCEPT ![CondLock[c]] = NULL]
        /\ pc' = [pc EXCEPT ![u] = "releasing"]
        /\ sem' = [sem EXCEPT ![u] = CondLock[c]]
        /\ frame' = [frame EXCEPT ![u] = c]
    BY <1>14, <1>a DEF CondWait, At, clear_holder
  <2>2. OthersKept
    BY <1>a, <2>1 DEF OthersKept, TypeOK
  <2>3. ~ Inside(u)
    BY <1>a, <1>d, <2>1
  <2>4. pc'[u] = "releasing" /\ frame'[u] = c
    BY <2>1 DEF TypeOK
  <2>5. value'[u] = 0 /\ SameSignals(u) /\ \A m \in Lock : value'[m] = value[m]
    BY <1>0, <2>1 DEF SameSignals, TypeOK, Semaphore
  <2>6. ClearStep(CondLock[c])
    BY <1>a, <2>1, <2>5 DEF ClearStep, Transit
  <2>7. EnterStep(u, c)
    BY <1>a, <2>1, <2>2, <2>3, <2>4, <2>5, <2>6, OthersPlaces DEF EnterStep, Leaving
  <2>8. QED
    BY <1>a, <2>7 DEF CondKind
<1>15. ASSUME NEW c \in Cond, CondBroadcast(c) PROVE CondKind
  <2>1. /\ pc[u] = "free" /\ UNCHANGED <<value, cond_waiters, sem>>
        /\ pc' = [pc EXCEPT ![u] = "broadcast"] /\ frame' = [frame EXCEPT ![u] = c]
    BY <1>15, <1>a DEF CondBroadcast, At
  <2>2. OthersKept
    BY <1>a, <2>1 DEF OthersKept, TypeOK
  <2>3. ~ Inside(u) /\ ~ Inside(u)'
    BY <1>a, <1>d, <2>1 DEF Inside, TypeOK
  <2>4. QED
    BY <1>b, <1>c, <2>1, <2>2, <2>3
<1>16. CASE CondBroadcastLoop
  <2>1. pc[current] = "broadcast" /\ frame[current] \in Cond
    BY <1>0, <1>16 DEF CondBroadcastLoop, At, CallsMatch
  <2>2. CASE cond_signal(frame[current]) /\ UNCHANGED <<holder, call_vars, tid_vars>>
    <3>1. UNCHANGED <<holder, pc, sem, frame>>
      BY <2>2 DEF call_vars
    <3>2. QED
      BY <2>1, <2>2, <3>1, SignalKind
  <2>3. CASE /\ pc' = [pc EXCEPT ![current] = "free"]
             /\ frame' = [frame EXCEPT ![current] = NULL]
             /\ UNCHANGED <<sched_vars, value, waiters, holder, cond_waiters, sem, tid_vars>>
    <3>1. OthersKept /\ UNCHANGED <<value, cond_waiters>>
      BY <1>a, <2>3 DEF OthersKept, TypeOK
    <3>2. ~ Inside(u) /\ frame'[u] \notin Cond
      BY <1>0, <1>a, <2>1, <2>3 DEF Inside, TypeOK
    <3>3. QED
      BY <1>b, <1>c, <3>1, <3>2 DEF Inside
  <2>4. QED
    BY <1>16, <2>2, <2>3 DEF CondBroadcastLoop
<1>17. ASSUME NEW t \in Thread, ThreadCreate(t) PROVE CondKind
  <2>1. /\ pc[u] = "free" /\ UNCHANGED <<value, cond_waiters, sem>>
        /\ pc' = [pc EXCEPT ![u] = "create"] /\ frame' = [frame EXCEPT ![u] = t]
    BY <1>17, <1>a DEF ThreadCreate, At
  <2>2. OthersKept
    BY <1>a, <2>1 DEF OthersKept, TypeOK
  <2>3. ~ Inside(u) /\ ~ Inside(u)'
    BY <1>0, <1>a, <1>d, <2>1 DEF Inside, TypeOK
  <2>4. QED
    BY <1>b, <1>c, <2>1, <2>2, <2>3
<1>18. CASE ReadTid
  <2>1. /\ pc[u] = "read_tid" /\ UNCHANGED <<value, cond_waiters, sem, frame>>
        /\ pc' = [pc EXCEPT ![u] = "write_tid"]
    BY <1>18, <1>a DEF ReadTid, At
  <2>2. OthersKept
    BY <1>a, <2>1 DEF OthersKept, TypeOK
  <2>3. ~ Inside(u) /\ ~ Inside(u)'
    BY <1>a, <1>d, <2>1 DEF Inside
  <2>4. QED
    BY <1>b, <1>c, <2>1, <2>2, <2>3
<1>19. CASE WriteTid
  <2>1. /\ pc[u] = "write_tid" /\ UNCHANGED <<value, cond_waiters>>
        /\ pc' = [pc EXCEPT ![u] = "releasing"] /\ sem' = [sem EXCEPT ![u] = tid_lock]
        /\ frame' = [frame EXCEPT ![u] = frame[u]]
    BY <1>19, <1>a DEF WriteTid, At, clear_holder
  <2>2. OthersKept
    BY <1>a, <2>1 DEF OthersKept, TypeOK
  <2>3. ~ Inside(u) /\ ~ Inside(u)'
    BY <1>a, <1>d, <2>1 DEF Inside, TypeOK
  <2>4. QED
    BY <1>b, <1>c, <2>1, <2>2, <2>3
<1>20. CASE Created
  <2>1. /\ pc[u] = "created" /\ UNCHANGED <<value, cond_waiters, sem>>
        /\ pc' = [pc EXCEPT ![u] = "free"] /\ frame' = [frame EXCEPT ![u] = NULL]
    BY <1>20, <1>a DEF Created, At
  <2>2. OthersKept
    BY <1>a, <2>1 DEF OthersKept, TypeOK
  <2>3. ~ Inside(u) /\ ~ Inside(u)'
    BY <1>0, <1>a, <1>d, <2>1 DEF Inside, TypeOK
  <2>4. QED
    BY <1>b, <1>c, <2>1, <2>2, <2>3
<1>21. CASE ThreadYield \/ ThreadExit \/ Idle \/ TimerInterrupt \/ UNCHANGED vars
  <2>1. UNCHANGED <<value, cond_waiters, pc, sem, frame>>
    BY <1>21 DEF ThreadYield, ThreadExit, Idle, TimerInterrupt, vars, call_vars
  <2>2. CondKeep
    BY <1>c, <2>1, StandStill DEF CondKeep
  <2>3. QED
    BY <2>2 DEF CondKind
<1>22. QED
  BY <1>1, <1>2, <1>3, <1>4, <1>5, <1>6, <1>7, <1>8, <1>9, <1>10, <1>11, <1>12, <1>13,
     <1>14, <1>15, <1>16, <1>17, <1>18, <1>19, <1>20, <1>21
     DEF Next, SemaStep, LockStep, CondStep, CreateStep, Interrupt

\* A step keeps signals: nobody but cond_signal() ups a waiter's semaphore,
\* and it takes the waiter off the list.
LEMMA CondInvStep ==
    TypeInv /\ TypeInv' /\ ListInv /\ LockInv /\ CondInv /\ [Next]_vars => CondInv'
<1> SUFFICES ASSUME TypeInv, TypeInv', ListInv, LockInv, CondInv, [Next]_vars
             PROVE  CondInv'
  OBVIOUS
<1> DEFINE Listed(t, c) == t \in Range(cond_waiters[c])
<1>1. /\ \A t \in Thread :
           /\ value[t] = IF AwaitsSignal(t) /\ ~ Listed(t, frame[t]) THEN 1 ELSE 0
           /\ \A c \in Cond : Listed(t, c) => AwaitsSignal(t) /\ frame[t] = c
           /\ Leaving(t) => Listed(t, frame[t])
      /\ \A c \in Cond : IsInjective(cond_waiters[c]) /\ cond_waiters[c] \in Seq(Thread)
      /\ \A t \in Thread : AwaitsSignal(t) => Inside(t) /\ frame[t] \in Cond
  BY Places DEF CondInv, CondSignalKept, TypeInv, TypeOK, Inside
<1>2. ASSUME \A t \in Thread :
               /\ value'[t] = IF AwaitsSignal(t)' /\ ~ Listed(t, frame[t])' THEN 1 ELSE 0
               /\ \A c \in Cond : Listed(t, c)' => AwaitsSignal(t)' /\ frame'[t] = c
               /\ Leaving(t)' => Listed(t, frame[t])',
             \A c \in Cond : IsInjective(cond_waiters'[c])
      PROVE  CondInv'
  BY <1>2 DEF CondInv, CondSignalKept
<1>n. \A t \in Thread : t # NULL /\ value[t] \in Nat
  BY ObjectAssumption DEF Semaphore, TypeInv, TypeOK
<1>3. CASE CondKeep
  <2>1. /\ cond_waiters' = cond_waiters
        /\ \A t \in Thread : value'[t] = value[t] /\ SamePlace(t)
    BY <1>3, <1>n DEF CondKeep, SameSignals
  <2>2. QED
    BY <1>1, <1>2, <2>1, Places DEF SamePlace
<1>4. ASSUME NEW u \in Thread, LeaveStep(u) PROVE CondInv'
  <2>1. /\ cond_waiters' = cond_waiters /\ frame'[u] = frame[u]
        /\ AwaitsSignal(u) /\ AwaitsSignal(u)' /\ ~ Leaving(u)'
        /\ \A t \in Thread : value'[t] = value[t]
        /\ \A t \in Thread : t # u => SamePlace(t)
    BY <1>4, <1>n, Places DEF LeaveStep, SameSignals
  <2>2. \A t \in Thread : /\ AwaitsSignal(t)' <=> AwaitsSignal(t)
                          /\ Leaving(t)' => Leaving(t)
                          /\ AwaitsSignal(t) => frame'[t] = frame[t]
                          /\ Leaving(t) => AwaitsSignal(t)
    BY <1>1, <2>1, Places DEF SamePlace
  <2>3. QED
    BY <1>1, <1>2, <2>1, <2>2
<1>5. ASSUME NEW u \in Thread, ConsumeStep(u) PROVE CondInv'
  <2>1. /\ cond_waiters' = cond_waiters /\ frame'[u] = frame[u]
        /\ AwaitsSignal(u) /\ ~ AwaitsSignal(u)'
        /\ value[u] > 0 /\ value'[u] = value[u] - 1
        /\ \A t \in Thread : t # u => value'[t] = value[t] /\ SamePlace(t)
    BY <1>5 DEF ConsumeStep, SameSignals
  <2>2. ~ Listed(u, frame[u]) /\ value[u] = 1 /\ value'[u] = 0
    BY <1>1, <2>1
  <2>3. \A c \in Cond : ~ Listed(u, c)
    BY <1>1, <2>2
  <2>4. ~ Leaving(u)'
    BY <2>1 DEF AwaitsSignal, Leaving
  <2>5. \A t \in Thread : t # u => /\ AwaitsSignal(t)' <=> AwaitsSignal(t)
                                   /\ Leaving(t)' <=> Leaving(t)
                                   /\ AwaitsSignal(t) => frame'[t] = frame[t]
                                   /\ Leaving(t) => AwaitsSignal(t)
    BY <1>1, <2>1, Places DEF SamePlace
  <2>6. QED
    BY <1>1, <1>2, <2>1, <2>2, <2>3, <2>4, <2>5
<1>6. ASSUME NEW u \in Thread, ReacquireStep(u) PROVE CondInv'
  <2>1. /\ cond_waiters' = cond_waiters
        /\ ~ AwaitsSignal(u) /\ ~ AwaitsSignal(u)' /\ ~ Inside(u)'
        /\ \A t \in Thread : value'[t] = value[t]
        /\ \A t \in Thread : t # u => SamePlace(t)
    BY <1>6, <1>n DEF ReacquireStep, SameSignals
  <2>2. ~ Leaving(u)'
    BY <2>1 DEF AwaitsSignal, Leaving
  <2>3. \A t \in Thread : t # u => /\ AwaitsSignal(t)' <=> AwaitsSignal(t)
                                   /\ Leaving(t)' <=> Leaving(t)
                                   /\ AwaitsSignal(t) => frame'[t] = frame[t]
                                   /\ Leaving(t) => AwaitsSignal(t)
    BY <1>1, <2>1, Places DEF SamePlace
  <2>4. QED
    BY <1>1, <1>2, <2>1, <2>2, <2>3
<1>7. ASSUME NEW u \in Thread, NEW c \in Cond, EnterStep(u, c) PROVE CondInv'
  <2>1. /\ cond_waiters' = [cond_waiters EXCEPT ![c] = Append(@, u)]
        /\ ~ Inside(u) /\ Leaving(u)' /\ frame'[u] = c /\ value'[u] = 0
        /\ \A t \in Thread : t # u => value'[t] = value[t] /\ SamePlace(t)
    BY <1>7 DEF EnterStep, SameSignals
  <2>2. AwaitsSignal(u)' /\ \A d \in Cond : ~ Listed(u, d)
    BY <1>1, <2>1 DEF AwaitsSignal, Leaving
  <2>3. /\ cond_waiters'[c] = Append(cond_waiters[c], u)
        /\ \A d \in Cond : d # c => cond_waiters'[d] = cond_waiters[d]
    BY <2>1 DEF TypeInv, TypeOK
  <2>4. Range(cond_waiters'[c]) = Range(cond_waiters[c]) \cup {u} /\ IsInjective(cond_waiters'[c])
    BY <1>1, <2>2, <2>3, PushBack
  <2>5. \A t \in Thread, d \in Cond : Listed(t, d)' <=> Listed(t, d) \/ (t = u /\ d = c)
    BY <2>3, <2>4
  <2>6. \A d \in Cond : IsInjective(cond_waiters'[d])
    BY <1>1, <2>3, <2>4
  <2>7. \A t \in Thread : t # u => /\ AwaitsSignal(t)' <=> AwaitsSignal(t)
                                   /\ Leaving(t)' <=> Leaving(t)
                                   /\ AwaitsSignal(t) => frame'[t] = frame[t] /\ frame[t] \in Cond
                                   /\ Leaving(t) => AwaitsSignal(t)
    BY <1>1, <2>1, Places DEF SamePlace
  <2> HIDE DEF Listed
  <2>8. ASSUME NEW t \in Thread
        PROVE  /\ value'[t] = IF AwaitsSignal(t)' /\ ~ Listed(t, frame[t])' THEN 1 ELSE 0
               /\ \A d \in Cond : Listed(t, d)' => AwaitsSignal(t)' /\ frame'[t] = d
               /\ Leaving(t)' => Listed(t, frame[t])'
    <3>1. CASE t = u
      <4>1. Listed(u, frame[u])' /\ \A d \in Cond : Listed(u, d)' => d = c
        BY <2>1, <2>2, <2>5 DEF Listed
      <4>2. QED
        BY <2>1, <2>2, <3>1, <4>1
    <3>2. CASE t # u
      <4>1. \A d \in Cond : Listed(t, d)' <=> Listed(t, d)
        BY <2>5, <3>2
      <4>2. AwaitsSignal(t)' => Listed(t, frame[t])' = Listed(t, frame[t])
        BY <2>7, <3>2, <4>1 DEF Listed
      <4>3. QED
        BY <1>1, <2>1, <2>7, <3>2, <4>1, <4>2
    <3>3. QED
      BY <3>1, <3>2
  <2>9. QED
    BY <1>2, <2>6, <2>8
<1>8. ASSUME NEW h \in Thread, NEW c \in Cond, SignalStep(h, c) PROVE CondInv'
  <2>1. /\ cond_waiters' = [cond_waiters EXCEPT ![c] = Tail(@)]
        /\ cond_waiters[c] # <<>> /\ h = Head(cond_waiters[c])
        /\ value'[h] = value[h] + 1 /\ \A t \in Thread : t # h => value'[t] = value[t]
        /\ \A t \in Thread : SamePlace(t)
        /\ holder[CondLock[c]] = current
    BY <1>8 DEF SignalStep, SameSignals
  <2>2. /\ cond_waiters'[c] = Tail(cond_waiters[c])
        /\ \A d \in Cond : d # c => cond_waiters'[d] = cond_waiters[d]
    BY <2>1 DEF TypeInv, TypeOK
  <2>3. /\ h \in Range(cond_waiters[c]) /\ IsInjective(cond_waiters'[c])
        /\ Range(cond_waiters'[c]) = Range(cond_waiters[c]) \ {h}
    BY <1>1, <2>1, <2>2, PopFront
  <2>4. AwaitsSignal(h) /\ frame[h] = c /\ value[h] = 0
    BY <1>1, <2>3
  <2>5. ~ Leaving(h)
    <3>1. Leaving(h) => sem[h] = CondLock[c] /\ pc[h] = "releasing"
      BY <2>4, Places DEF Leaving
    <3>2. Leaving(h) => holder[CondLock[c]] = NULL
      BY <3>1 DEF LockInv
    <3>3. current # NULL
      BY <1>n DEF TypeInv, TypeOK
    <3>4. QED
      BY <2>1, <3>2, <3>3
  <2>6. \A t \in Thread, d \in Cond : Listed(t, d)' <=> Listed(t, d) /\ ~ (t = h /\ d = c)
    BY <2>2, <2>3
  <2>7. \A d \in Cond : IsInjective(cond_waiters'[d])
    BY <1>1, <2>2, <2>3
  <2>8. \A t \in Thread : /\ AwaitsSignal(t)' <=> AwaitsSignal(t)
                          /\ Leaving(t)' <=> Leaving(t)
                          /\ AwaitsSignal(t) => frame'[t] = frame[t] /\ frame[t] \in Cond
                          /\ Leaving(t) => AwaitsSignal(t)
    BY <1>1, <2>1, Places DEF SamePlace
  <2> HIDE DEF Listed
  <2>9. ASSUME NEW t \in Thread
        PROVE  /\ value'[t] = IF AwaitsSignal(t)' /\ ~ Listed(t, frame[t])' THEN 1 ELSE 0
               /\ \A d \in Cond : Listed(t, d)' => AwaitsSignal(t)' /\ frame'[t] = d
               /\ Leaving(t)' => Listed(t, frame[t])'
    <3>1. CASE t = h
      <4>1. ~ Listed(h, frame[h])' /\ AwaitsSignal(h)' /\ ~ Leaving(h)' /\ value'[h] = 1
        BY <2>1, <2>4, <2>5, <2>6, <2>8 DEF Listed
      <4>2. \A d \in Cond : ~ Listed(h, d)'
        BY <1>1, <2>4, <2>6
      <4>3. QED
        BY <3>1, <4>1, <4>2
    <3>2. CASE t # h
      <4>1. \A d \in Cond : Listed(t, d)' <=> Listed(t, d)
        BY <2>6, <3>2
      <4>2. AwaitsSignal(t)' => Listed(t, frame[t])' = Listed(t, frame[t])
        BY <2>8, <3>2, <4>1 DEF Listed
      <4>3. QED
        BY <1>1, <2>1, <2>8, <3>2, <4>1, <4>2
    <3>3. QED
      BY <3>1, <3>2
  <2>10. QED
    BY <1>2, <2>7, <2>9
<1>9. QED
  BY <1>3, <1>4, <1>5, <1>6, <1>7, <1>8, CondSteps DEF CondKind

\* At the start nobody waits for a condition.
LEMMA CondInvInit == Init => CondInv
<1> SUFFICES ASSUME Init PROVE CondInv
  OBVIOUS
<1>1. IsInjective(<<>>) /\ Range(<<>>) = {}
  BY DEF IsInjective, Range
<1>2. \A c \in Cond : cond_waiters[c] = <<>>
  BY DEF Init
<1>3. \A t \in Thread : value[t] = 0 /\ ~ AwaitsSignal(t) /\ ~ Leaving(t)
  BY ObjectAssumption DEF Init, AwaitsSignal, Leaving, Semaphore
<1>4. QED
  BY <1>1, <1>2, <1>3 DEF CondInv, CondSignalKept

\* The invariant of the synchronization primitives.
SyncInv == TypeInv /\ ListInv /\ LockInv /\ CondInv

LEMMA SyncInvHolds == Spec => []SyncInv
<1>1. Init => SyncInv
  BY TypeInvInit, ListInvInit, LockInvInit, CondInvInit DEF SyncInv
<1>2. SyncInv /\ [Next]_vars => SyncInv'
  BY TypeInvStep, ListInvStep, LockInvStep, CondInvStep DEF SyncInv
<1>3. QED
  BY <1>1, <1>2, PTL DEF Spec

\* No signal is lost and none is invented: from its release of the lock until
\* it consumes its signal, a thread in cond_wait() is on the condition's list
\* or its semaphore is up, and never both.
THEOREM SignalsKept == Spec => []CondSignalKept
<1>1. SyncInv => CondSignalKept
  BY DEF SyncInv, CondInv
<1>2. QED
  BY SyncInvHolds, <1>1, PTL

-----------------------------------------------------------------------------
(***************************************************************************)
(* The monitor.  The owner of a lock is the one thread between the down    *)
(* and the up of its semaphore.                                            *)
(***************************************************************************)

OwnersKept == \A t \in Thread, l \in Lock : Owns(t, l)' <=> Owns(t, l)

\* What the running thread, here u, does to the owners by the kind of step.
LEMMA OwnersStep ==
    ASSUME TypeInv, LockInv, NEW u \in Thread, u = current
    PROVE  /\ KeepStep \/ SetHolder => OwnersKept
           /\ \A k \in Lock : ClearStep(k) => OwnersKept
           /\ \A k \in Lock : TakeStep(k) =>
                /\ \A t \in Thread : ~ Owns(t, k) /\ (Owns(t, k)' <=> t = u)
                /\ \A t \in Thread, l \in Lock : l # k => (Owns(t, l)' <=> Owns(t, l))
           /\ UpStep => \E k \in Lock :
                /\ k = sem[u]
                /\ \A t \in Thread : ~ Owns(t, k)' /\ (Owns(t, k) <=> t = u)
                /\ \A t \in Thread, l \in Lock : l # k => (Owns(t, l)' <=> Owns(t, l))
<1> USE DEF TypeInv, Transit, TidSection
<1>0. /\ CallsMatch(u)
      /\ \A t \in Thread : pc[t] \in Transit => sem[t] \in Lock
      /\ NULL \notin Thread /\ NULL \notin Lock
  BY ObjectAssumption DEF TypeOK, CallInv, CallsMatch, Semaphore
<1>1. KeepStep => OwnersKept
  BY DEF KeepStep, Owns, OwnersKept
<1>2. SetHolder => OwnersKept
  <2> SUFFICES ASSUME SetHolder PROVE OwnersKept
    OBVIOUS
  <2>0. PICK k \in Lock : k = sem[u]
    BY <1>0 DEF SetHolder, At
  <2>1. /\ pc[u] = "acquired" /\ holder[k] = NULL
        /\ holder'[k] = u /\ \A l \in Lock : l # k => holder'[l] = holder[l]
        /\ pc'[u] \in {"read_tid", "free"}
        /\ \A t \in Thread : t # u => pc'[t] = pc[t] /\ sem'[t] = sem[t]
    BY <1>0, <2>0 DEF SetHolder, At, LockInv, TypeOK
  <2>2. \A t \in Thread : pc[t] \in Transit /\ sem[t] = k => t = u
    BY <1>0, <2>0, <2>1 DEF LockInv, Owns
  <2>3. QED
    BY <1>0, <2>0, <2>1, <2>2 DEF Owns, OwnersKept
<1>3. ASSUME NEW k \in Lock, ClearStep(k) PROVE OwnersKept
  <2>1. /\ pc'[u] = "releasing" /\ sem'[u] = k
        /\ pc[u] \notin Transit /\ holder[k] = u
        /\ \A t \in Thread : t # u => pc'[t] = pc[t] /\ sem'[t] = sem[t]
        /\ holder'[k] = NULL /\ \A l \in Lock : l # k => holder'[l] = holder[l]
    BY <1>0, <1>3 DEF ClearStep, TypeOK
  <2>2. \A t \in Thread : Owns(t, k) => t = u
    BY <1>0, <2>1 DEF LockInv, Owns
  <2>3. QED
    BY <1>0, <2>1, <2>2 DEF Owns, OwnersKept
<1>4. ASSUME NEW k \in Lock, TakeStep(k)
      PROVE  /\ \A t \in Thread : ~ Owns(t, k) /\ (Owns(t, k)' <=> t = u)
             /\ \A t \in Thread, l \in Lock : l # k => (Owns(t, l)' <=> Owns(t, l))
  <2>1. /\ pc'[u] = "acquired" /\ sem'[u] = k /\ UNCHANGED holder
        /\ pc[u] \notin Transit /\ value[k] > 0
        /\ \A t \in Thread : t # u => pc'[t] = pc[t] /\ sem'[t] = sem[t]
    BY <1>0, <1>4 DEF TakeStep, TypeOK
  <2>2. \A t \in Thread : ~ Owns(t, k)
    BY <2>1 DEF LockInv
  <2>3. QED
    BY <1>0, <2>1, <2>2 DEF Owns
<1>5. ASSUME UpStep
      PROVE  \E k \in Lock :
               /\ k = sem[u]
               /\ \A t \in Thread : ~ Owns(t, k)' /\ (Owns(t, k) <=> t = u)
               /\ \A t \in Thread, l \in Lock : l # k => (Owns(t, l)' <=> Owns(t, l))
  <2>0. PICK k \in Lock : k = sem[u]
    BY <1>0, <1>5 DEF UpStep
  <2>1. /\ pc[u] = "releasing" /\ holder[k] = NULL
        /\ pc'[u] \notin Transit \cup TidSection /\ UNCHANGED holder
        /\ \A t \in Thread : t # u => pc'[t] = pc[t] /\ sem'[t] = sem[t]
    BY <1>0, <1>5, <2>0 DEF UpStep, LockInv, TypeOK
  <2>2. \A t \in Thread : Owns(t, k) <=> t = u
    BY <1>0, <2>0, <2>1 DEF LockInv, Owns
  <2>3. \A t \in Thread : ~ Owns(t, k)'
    BY <1>0, <2>1, <2>2 DEF Owns
  <2>4. \A t \in Thread, l \in Lock : l # k => (Owns(t, l)' <=> Owns(t, l))
    BY <1>0, <2>0, <2>1 DEF Owns
  <2>5. QED
    BY <2>0, <2>2, <2>3, <2>4
<1>6. QED
  BY <1>1, <1>2, <1>3, <1>4, <1>5

\* The monitor's variables, in terms of the calls in progress.
LEMMA View ==
    ASSUME SyncInv
    PROVE  /\ \A l \in Lock : owner[l] \in Thread \cup {NULL}
           /\ \A l \in Lock, t \in Thread : owner[l] = t <=> Owns(t, l)
           /\ \A c \in Cond, t \in Thread :
                t \in waiting[c] <=> t \in Range(cond_waiters[c]) /\ ~ Leaving(t)
           /\ \A c \in Cond, t \in Thread :
                t \in signaled[c] <=> /\ Inside(t) /\ frame[t] = c
                                      /\ t \notin Range(cond_waiters[c])
           /\ \A c \in Cond : waiting[c] \subseteq Thread /\ signaled[c] \subseteq Thread
<1> USE DEF SyncInv
<1>1. ASSUME NEW l \in Lock
      PROVE  /\ owner[l] \in Thread \cup {NULL}
             /\ \A t \in Thread : owner[l] = t <=> Owns(t, l)
  <2>1. owner[l] = IF \E t \in Thread : Owns(t, l) THEN CHOOSE t \in Thread : Owns(t, l) ELSE NULL
    BY DEF owner
  <2>2. NULL \notin Thread
    BY ObjectAssumption DEF Semaphore
  <2>3. \A t, s \in Thread : Owns(t, l) /\ Owns(s, l) => t = s
    BY DEF LockInv
  <2>4. QED
    BY <2>1, <2>2, <2>3
<1>2. ASSUME NEW c \in Cond
      PROVE  /\ waiting[c] = {t \in Range(cond_waiters[c]) : pc[t] # "releasing"}
             /\ signaled[c] = {t \in Thread : /\ frame[t] = c
                                              /\ pc[t] \notin {"broadcast", "acquired"}
                                              /\ t \notin Range(cond_waiters[c])}
             /\ Range(cond_waiters[c]) \subseteq Thread
             /\ \A t \in Range(cond_waiters[c]) : frame[t] \in Cond
  <2>1. cond_waiters[c] \in Seq(Thread)
    BY DEF TypeInv, TypeOK
  <2>2. Range(cond_waiters[c]) \subseteq Thread
    BY <2>1, EmptyList
  <2>3. QED
    BY <2>2 DEF waiting, signaled, CondInv, CondSignalKept
<1>3. QED
  BY <1>1, <1>2 DEF Leaving, Inside

\* The same after a step.
LEMMA ViewNext ==
    ASSUME SyncInv'
    PROVE  /\ \A l \in Lock : owner'[l] \in Thread \cup {NULL}
           /\ \A l \in Lock, t \in Thread : owner'[l] = t <=> Owns(t, l)'
           /\ \A c \in Cond, t \in Thread :
                t \in waiting'[c] <=> t \in Range(cond_waiters'[c]) /\ ~ Leaving(t)'
           /\ \A c \in Cond, t \in Thread :
                t \in signaled'[c] <=> /\ Inside(t)' /\ frame'[t] = c
                                       /\ t \notin Range(cond_waiters'[c])
           /\ \A c \in Cond : waiting'[c] \subseteq Thread /\ signaled'[c] \subseteq Thread
<1> USE DEF SyncInv
<1>1. ASSUME NEW l \in Lock
      PROVE  /\ owner'[l] \in Thread \cup {NULL}
             /\ \A t \in Thread : owner'[l] = t <=> Owns(t, l)'
  <2>1. owner'[l] = IF \E t \in Thread : Owns(t, l)' THEN CHOOSE t \in Thread : Owns(t, l)' ELSE NULL
    BY DEF owner
  <2>2. NULL \notin Thread
    BY ObjectAssumption DEF Semaphore
  <2>3. \A t, s \in Thread : Owns(t, l)' /\ Owns(s, l)' => t = s
    BY DEF LockInv
  <2>4. QED
    BY <2>1, <2>2, <2>3
<1>2. ASSUME NEW c \in Cond
      PROVE  /\ waiting'[c] = {t \in Range(cond_waiters'[c]) : pc'[t] # "releasing"}
             /\ signaled'[c] = {t \in Thread : /\ frame'[t] = c
                                               /\ pc'[t] \notin {"broadcast", "acquired"}
                                               /\ t \notin Range(cond_waiters'[c])}
             /\ Range(cond_waiters'[c]) \subseteq Thread
             /\ \A t \in Range(cond_waiters'[c]) : frame'[t] \in Cond
  <2>1. cond_waiters'[c] \in Seq(Thread)
    BY DEF TypeInv, TypeOK
  <2>2. Range(cond_waiters'[c]) \subseteq Thread
    BY <2>1, EmptyList
  <2>3. QED
    BY <2>2 DEF waiting, signaled, CondInv, CondSignalKept
<1>3. QED
  BY <1>1, <1>2 DEF Leaving, Inside

\* The types of the monitor's variables.
LEMMA ViewTypes ==
    /\ SyncInv => /\ owner \in [Lock -> Thread \cup {NULL}]
                  /\ waiting \in [Cond -> SUBSET Thread]
                  /\ signaled \in [Cond -> SUBSET Thread]
    /\ SyncInv' => /\ owner' \in [Lock -> Thread \cup {NULL}]
                   /\ waiting' \in [Cond -> SUBSET Thread]
                   /\ signaled' \in [Cond -> SUBSET Thread]
<1>1. /\ owner' = [l \in Lock |-> owner'[l]] /\ owner = [l \in Lock |-> owner[l]]
      /\ waiting' = [c \in Cond |-> waiting'[c]] /\ waiting = [c \in Cond |-> waiting[c]]
      /\ signaled' = [c \in Cond |-> signaled'[c]] /\ signaled = [c \in Cond |-> signaled[c]]
  BY DEF owner, waiting, signaled
<1>2. QED
  BY <1>1, View, ViewNext

\* The sets of a condition, compared thread by thread.
SetsSame(g, f) == \A t \in Thread, d \in Cond : t \in g[d] <=> t \in f[d]
SetsPlus(g, f, c, u) ==
    \A t \in Thread, d \in Cond : t \in g[d] <=> t \in f[d] \/ (t = u /\ d = c)
SetsLess(g, f, c, u) ==
    \A t \in Thread, d \in Cond : t \in g[d] <=> t \in f[d] /\ ~ (t = u /\ d = c)

LEMMA SetsChange ==
    ASSUME NEW f \in [Cond -> SUBSET Thread], NEW g \in [Cond -> SUBSET Thread],
           NEW c \in Cond, NEW u \in Thread
    PROVE  /\ SetsPlus(g, f, c, u) => g = [f EXCEPT ![c] = @ \cup {u}]
           /\ SetsLess(g, f, c, u) => g = [f EXCEPT ![c] = @ \ {u}]
<1>1. /\ f[c] \subseteq Thread /\ g[c] \subseteq Thread
      /\ \A d \in Cond : f[d] \subseteq Thread /\ g[d] \subseteq Thread
  OBVIOUS
<1>2. ASSUME SetsPlus(g, f, c, u) PROVE g = [f EXCEPT ![c] = @ \cup {u}]
  <2>1. g[c] = f[c] \cup {u}
    BY <1>1, <1>2 DEF SetsPlus
  <2>2. \A d \in Cond : d # c => g[d] = f[d]
    BY <1>1, <1>2 DEF SetsPlus
  <2>3. QED
    BY <2>1, <2>2
<1>3. ASSUME SetsLess(g, f, c, u) PROVE g = [f EXCEPT ![c] = @ \ {u}]
  <2>1. g[c] = f[c] \ {u}
    BY <1>1, <1>3 DEF SetsLess
  <2>2. \A d \in Cond : d # c => g[d] = f[d]
    BY <1>1, <1>3 DEF SetsLess
  <2>3. QED
    BY <2>1, <2>2
<1>4. QED
  BY <1>2, <1>3

LEMMA SetsEqual ==
    ASSUME NEW f \in [Cond -> SUBSET Thread], NEW g \in [Cond -> SUBSET Thread],
           SetsSame(g, f)
    PROVE  g = f
<1>1. ASSUME NEW d \in Cond PROVE g[d] = f[d]
  <2>1. f[d] \subseteq Thread /\ g[d] \subseteq Thread
    OBVIOUS
  <2>2. QED
    BY <2>1 DEF SetsSame
<1>2. QED
  BY <1>1

\* A step that moves nobody in the monitor.
LEMMA MonitorStutters ==
    ASSUME SyncInv, SyncInv', OwnersKept,
           \A t \in Thread, c \in Cond :
               /\ t \in waiting'[c] <=> t \in waiting[c]
               /\ t \in signaled'[c] <=> t \in signaled[c]
    PROVE  UNCHANGED <<owner, waiting, signaled>>
<1>1. \A l \in Lock : owner'[l] = owner[l]
  BY View, ViewNext DEF OwnersKept
<1>2. SetsSame(waiting', waiting) /\ SetsSame(signaled', signaled)
  BY DEF SetsSame
<1>3. waiting' = waiting /\ signaled' = signaled
  BY <1>2, ViewTypes, SetsEqual
<1>4. owner' = owner
  BY <1>1, ViewTypes
<1>5. QED
  BY <1>3, <1>4

\* Taking a lock that is free, and giving one up.
LEMMA OwnerChange ==
    ASSUME SyncInv, SyncInv', NEW k \in Lock, NEW u \in Thread
    PROVE  /\ /\ \A t \in Thread : ~ Owns(t, k) /\ (Owns(t, k)' <=> t = u)
              /\ \A t \in Thread, l \in Lock : l # k => (Owns(t, l)' <=> Owns(t, l))
              => owner[k] = NULL /\ owner' = [owner EXCEPT ![k] = u]
           /\ /\ \A t \in Thread : ~ Owns(t, k)' /\ (Owns(t, k) <=> t = u)
              /\ \A t \in Thread, l \in Lock : l # k => (Owns(t, l)' <=> Owns(t, l))
              => owner[k] = u /\ owner' = [owner EXCEPT ![k] = NULL]
<1>1. owner \in [Lock -> Thread \cup {NULL}]
  BY ViewTypes
<1>2. ASSUME NEW l \in Lock, \A t \in Thread : Owns(t, l)' <=> Owns(t, l)
      PROVE  owner'[l] = owner[l]
  BY <1>2, View, ViewNext
<1>3. ASSUME \A t \in Thread : ~ Owns(t, k) /\ (Owns(t, k)' <=> t = u),
             \A t \in Thread, l \in Lock : l # k => (Owns(t, l)' <=> Owns(t, l))
      PROVE  owner[k] = NULL /\ owner' = [owner EXCEPT ![k] = u]
  <2> DEFINE f == [owner EXCEPT ![k] = u]
  <2>1. owner[k] = NULL /\ owner'[k] = u
    BY <1>3, View, ViewNext
  <2>2. f \in [Lock -> Thread \cup {NULL}] /\ f[k] = u /\ \A l \in Lock : l # k => f[l] = owner[l]
    BY <1>1
  <2>3. \A l \in Lock : owner'[l] = f[l]
    BY <1>2, <1>3, <2>1, <2>2
  <2> HIDE DEF f
  <2>4. owner' = f
    BY <2>2, <2>3, ViewTypes
  <2>5. QED
    BY <2>1, <2>4 DEF f
<1>4. ASSUME \A t \in Thread : ~ Owns(t, k)' /\ (Owns(t, k) <=> t = u),
             \A t \in Thread, l \in Lock : l # k => (Owns(t, l)' <=> Owns(t, l))
      PROVE  owner[k] = u /\ owner' = [owner EXCEPT ![k] = NULL]
  <2> DEFINE f == [owner EXCEPT ![k] = NULL]
  <2>1. owner[k] = u /\ owner'[k] = NULL
    BY <1>4, View, ViewNext
  <2>2. f \in [Lock -> Thread \cup {NULL}] /\ f[k] = NULL /\ \A l \in Lock : l # k => f[l] = owner[l]
    BY <1>1
  <2>3. \A l \in Lock : owner'[l] = f[l]
    BY <1>2, <1>4, <2>1, <2>2
  <2> HIDE DEF f
  <2>4. owner' = f
    BY <2>2, <2>3, ViewTypes
  <2>5. QED
    BY <2>1, <2>4 DEF f
<1>5. QED
  BY <1>3, <1>4

\* Every step is a step of the monitor or leaves it alone.
LEMMA MonitorStep ==
    SyncInv /\ SyncInv' /\ [Next]_vars => [M!Next]_<<owner, waiting, signaled>>
<1> SUFFICES ASSUME SyncInv, SyncInv', [Next]_vars
             PROVE  [M!Next]_<<owner, waiting, signaled>>
  OBVIOUS
<1> DEFINE Listed(t, c) == t \in Range(cond_waiters[c])
<1>0. TypeInv /\ TypeInv' /\ ListInv /\ LockInv /\ CondInv
  BY DEF SyncInv
<1>v. /\ \A c \in Cond, t \in Thread : t \in waiting[c] <=> Listed(t, c) /\ ~ Leaving(t)
      /\ \A c \in Cond, t \in Thread :
           t \in signaled[c] <=> Inside(t) /\ frame[t] = c /\ ~ Listed(t, c)
      /\ \A c \in Cond, t \in Thread : t \in waiting'[c] <=> Listed(t, c)' /\ ~ Leaving(t)'
      /\ \A c \in Cond, t \in Thread :
           t \in signaled'[c] <=> Inside(t)' /\ frame'[t] = c /\ ~ Listed(t, c)'
      /\ \A c \in Cond : waiting'[c] \subseteq Thread /\ signaled'[c] \subseteq Thread
  BY View, ViewNext
<1>w. /\ waiting \in [Cond -> SUBSET Thread] /\ signaled \in [Cond -> SUBSET Thread]
      /\ waiting' \in [Cond -> SUBSET Thread] /\ signaled' \in [Cond -> SUBSET Thread]
  BY ViewTypes
<1>l. /\ \A t \in Thread, c \in Cond : Listed(t, c) => AwaitsSignal(t) /\ frame[t] = c
      /\ \A t \in Thread : Leaving(t) => Listed(t, frame[t])
      /\ \A t \in Thread : AwaitsSignal(t) => Inside(t)
      /\ \A t \in Thread : Inside(t) => frame[t] \in Cond
      /\ \A t \in Thread : Leaving(t) => AwaitsSignal(t)
  BY <1>0, Places DEF CondInv, CondSignalKept, Inside
<1>a. PICK u \in Thread : u = current
  BY <1>0 DEF TypeInv, TypeOK
<1>m. ASSUME NEW t \in Thread, SamePlace(t), UNCHANGED cond_waiters, NEW c \in Cond
      PROVE  /\ t \in waiting'[c] <=> t \in waiting[c]
             /\ t \in signaled'[c] <=> t \in signaled[c]
  BY <1>v, <1>m DEF SamePlace
<1>o. ASSUME NEW t \in Thread, ~ Inside(t) PROVE M!Outside(t)
  BY <1>l, <1>o, <1>v DEF M!Outside
<1>1. CASE CondKeep
  <2>1. \A t \in Thread, c \in Cond : /\ t \in waiting'[c] <=> t \in waiting[c]
                                      /\ t \in signaled'[c] <=> t \in signaled[c]
    BY <1>1, <1>m DEF CondKeep
  <2>2. waiting' = waiting /\ signaled' = signaled
    <3>1. SetsSame(waiting', waiting) /\ SetsSame(signaled', signaled)
      BY <2>1 DEF SetsSame
    <3>2. QED
      BY <1>w, <3>1, SetsEqual
  <2>3. CASE KeepStep \/ SetHolder \/ \E k \in Lock : ClearStep(k)
    <3>1. OwnersKept
      BY <1>0, <1>a, <2>3, OwnersStep
    <3>2. QED
      BY <2>1, <3>1, MonitorStutters
  <2>4. ASSUME NEW k \in Lock, TakeStep(k) PROVE M!Next
    <3>1. owner[k] = NULL /\ owner' = [owner EXCEPT ![k] = u]
      BY <1>0, <1>a, <2>4, OwnersStep, OwnerChange
    <3>2. pc'[u] = "acquired"
      BY <1>0, <1>a, <2>4 DEF TakeStep, TypeInv, TypeOK
    <3>3. ~ Inside(u)
      BY <1>1, <3>2 DEF CondKeep, SamePlace, Inside
    <3>4. M!Acquire(u, k)
      BY <1>o, <2>2, <3>1, <3>3 DEF M!Acquire
    <3>5. QED
      BY <3>4 DEF M!Next
  <2>5. ASSUME UpStep PROVE M!Next
    <3>1. PICK k \in Lock : owner[k] = u /\ owner' = [owner EXCEPT ![k] = NULL]
      BY <1>0, <1>a, <2>5, OwnersStep, OwnerChange
    <3>2. M!Release(u, k)
      BY <2>2, <3>1 DEF M!Release
    <3>3. QED
      BY <3>2 DEF M!Next
  <2>6. QED
    BY <1>0, <2>3, <2>4, <2>5, Ownership
<1>2. ASSUME LeaveStep(u) PROVE M!Next
  <2> DEFINE c == frame[u]
  <2>1. /\ Leaving(u) /\ sem[u] = CondLock[c] /\ frame'[u] = c /\ UpStep
        /\ UNCHANGED cond_waiters /\ ~ Leaving(u)'
        /\ \A t \in Thread : t # u => SamePlace(t)
    BY <1>2 DEF LeaveStep
  <2>2. c \in Cond /\ Listed(u, c) /\ Inside(u)
    BY <1>l, <2>1
  <2>3. owner[CondLock[c]] = u /\ owner' = [owner EXCEPT ![CondLock[c]] = NULL]
    BY <1>0, <1>a, <2>1, OwnersStep, OwnerChange
  <2>4. \A d \in Cond : /\ u \notin waiting[d] /\ u \notin signaled[d]
                        /\ u \notin signaled'[d]
                        /\ u \in waiting'[d] <=> d = c
    BY <1>v, <1>l, <2>1, <2>2
  <2>5. \A t \in Thread, d \in Cond :
           /\ t \in waiting'[d] <=> t \in waiting[d] \/ (t = u /\ d = c)
           /\ t \in signaled'[d] <=> t \in signaled[d]
    BY <1>m, <2>1, <2>4
  <2> HIDE DEF c
  <2>6. waiting' = [waiting EXCEPT ![c] = @ \cup {u}] /\ signaled' = signaled
    <3>1. SetsPlus(waiting', waiting, c, u) /\ SetsSame(signaled', signaled)
      BY <2>5 DEF SetsPlus, SetsSame
    <3>2. QED
      BY <1>w, <2>2, <3>1, SetsChange, SetsEqual
  <2>7. M!Outside(u)
    BY <2>4 DEF M!Outside
  <2>8. M!Wait(u, c)
    BY <2>3, <2>6, <2>7 DEF M!Wait
  <2>9. QED
    BY <2>2, <2>8 DEF M!Next
<1>3. ASSUME ConsumeStep(u) PROVE UNCHANGED <<owner, waiting, signaled>>
  <2>1. /\ AwaitsSignal(u) /\ ~ Leaving(u) /\ Inside(u)' /\ ~ AwaitsSignal(u)'
        /\ frame'[u] = frame[u] /\ UNCHANGED cond_waiters /\ KeepStep
        /\ \A t \in Thread : t # u => SamePlace(t)
    BY <1>3 DEF ConsumeStep
  <2>2. ~ Leaving(u)' /\ Inside(u)
    BY <1>l, <2>1 DEF AwaitsSignal, Leaving
  <2>3. \A d \in Cond : /\ u \in waiting'[d] <=> u \in waiting[d]
                        /\ u \in signaled'[d] <=> u \in signaled[d]
    BY <1>v, <2>1, <2>2
  <2>4. \A t \in Thread, d \in Cond : /\ t \in waiting'[d] <=> t \in waiting[d]
                                      /\ t \in signaled'[d] <=> t \in signaled[d]
    BY <1>m, <2>1, <2>3
  <2>5. OwnersKept
    BY <1>0, <1>a, <2>1, OwnersStep
  <2>6. QED
    BY <2>4, <2>5, MonitorStutters
<1>4. ASSUME ReacquireStep(u) PROVE M!Next
  <2> DEFINE c == frame[u]
  <2>1. /\ Inside(u) /\ ~ AwaitsSignal(u) /\ ~ Inside(u)' /\ ~ AwaitsSignal(u)'
        /\ UNCHANGED cond_waiters /\ TakeStep(CondLock[c])
        /\ \A t \in Thread : t # u => SamePlace(t)
    BY <1>4 DEF ReacquireStep
  <2>2. c \in Cond /\ CondLock[c] \in Lock /\ \A d \in Cond : ~ Listed(u, d)
    BY <1>l, <2>1, ObjectAssumption
  <2>3. owner[CondLock[c]] = NULL /\ owner' = [owner EXCEPT ![CondLock[c]] = u]
    BY <1>0, <1>a, <2>1, <2>2, OwnersStep, OwnerChange
  <2>4. \A d \in Cond : /\ u \notin waiting[d] /\ u \notin waiting'[d]
                        /\ u \in signaled[d] <=> d = c
                        /\ u \notin signaled'[d]
    BY <1>v, <2>1, <2>2
  <2>5. \A t \in Thread, d \in Cond :
           /\ t \in waiting'[d] <=> t \in waiting[d]
           /\ t \in signaled'[d] <=> t \in signaled[d] /\ ~ (t = u /\ d = c)
    BY <1>m, <2>1, <2>4
  <2> HIDE DEF c
  <2>6. signaled' = [signaled EXCEPT ![c] = @ \ {u}] /\ waiting' = waiting
    <3>1. SetsLess(signaled', signaled, c, u) /\ SetsSame(waiting', waiting)
      BY <2>5 DEF SetsLess, SetsSame
    <3>2. QED
      BY <1>w, <2>2, <3>1, SetsChange, SetsEqual
  <2>7. M!Reacquire(u, c)
    BY <2>2, <2>3, <2>4, <2>6 DEF M!Reacquire
  <2>8. QED
    BY <2>2, <2>7 DEF M!Next
<1>5. ASSUME NEW c \in Cond, EnterStep(u, c) PROVE UNCHANGED <<owner, waiting, signaled>>
  <2>1. /\ ~ Inside(u) /\ Leaving(u)' /\ frame'[u] = c /\ ClearStep(CondLock[c])
        /\ cond_waiters' = [cond_waiters EXCEPT ![c] = Append(@, u)]
        /\ \A t \in Thread : t # u => SamePlace(t)
    BY <1>5 DEF EnterStep
  <2>2. /\ cond_waiters'[c] = Append(cond_waiters[c], u) /\ cond_waiters[c] \in Seq(Thread)
        /\ \A d \in Cond : d # c => cond_waiters'[d] = cond_waiters[d]
    BY <1>0, <2>1 DEF TypeInv, TypeOK
  <2>3. Range(cond_waiters'[c]) = Range(cond_waiters[c]) \cup {u}
    BY <2>2, PushBack
  <2>4. \A t \in Thread, d \in Cond : Listed(t, d)' <=> Listed(t, d) \/ (t = u /\ d = c)
    BY <2>2, <2>3
  <2>5. \A d \in Cond : /\ u \notin waiting[d] /\ u \notin waiting'[d]
                        /\ u \notin signaled[d] /\ u \notin signaled'[d]
    BY <1>l, <1>v, <2>1, <2>4
  <2>6. ASSUME NEW t \in Thread, t # u, NEW d \in Cond
        PROVE  /\ t \in waiting'[d] <=> t \in waiting[d]
               /\ t \in signaled'[d] <=> t \in signaled[d]
    <3>1. SamePlace(t) /\ (Listed(t, d)' <=> Listed(t, d))
      BY <2>1, <2>4, <2>6
    <3> HIDE DEF Listed
    <3>2. QED
      BY <1>v, <3>1 DEF SamePlace
  <2>7. OwnersKept
    BY <1>0, <1>a, <2>1, OwnersStep, ObjectAssumption
  <2>8. QED
    BY <2>5, <2>6, <2>7, MonitorStutters
<1>6. ASSUME NEW h \in Thread, NEW c \in Cond, SignalStep(h, c) PROVE M!Next
  <2>1. /\ cond_waiters' = [cond_waiters EXCEPT ![c] = Tail(@)]
        /\ cond_waiters[c] # <<>> /\ h = Head(cond_waiters[c])
        /\ \A t \in Thread : SamePlace(t)
        /\ holder[CondLock[c]] = current /\ KeepStep
    BY <1>6 DEF SignalStep
  <2>2. /\ cond_waiters'[c] = Tail(cond_waiters[c]) /\ cond_waiters[c] \in Seq(Thread)
        /\ IsInjective(cond_waiters[c])
        /\ \A d \in Cond : d # c => cond_waiters'[d] = cond_waiters[d]
    BY <1>0, <2>1 DEF TypeInv, TypeOK, CondInv
  <2>3. /\ h \in Range(cond_waiters[c])
        /\ Range(cond_waiters'[c]) = Range(cond_waiters[c]) \ {h}
    BY <2>1, <2>2, PopFront
  <2>4. \A t \in Thread, d \in Cond : Listed(t, d)' <=> Listed(t, d) /\ ~ (t = h /\ d = c)
    BY <2>2, <2>3
  <2>5. Listed(h, c) /\ Inside(h) /\ frame[h] = c
    BY <1>l, <2>3
  <2>6. Owns(u, CondLock[c]) /\ CondLock[c] \in Lock
    BY <1>a, <2>1, ObjectAssumption DEF Owns
  <2>7. ~ Leaving(h)
    <3>1. Leaving(h) => sem[h] = CondLock[c] /\ pc[h] = "releasing"
      BY <1>0, <2>5, Places DEF Leaving
    <3>2. Leaving(h) => holder[CondLock[c]] = NULL
      BY <1>0, <3>1 DEF LockInv
    <3>3. current # NULL
      BY <1>a, ObjectAssumption DEF Semaphore
    <3>4. QED
      BY <2>1, <3>2, <3>3
  <2>8. owner' = owner /\ owner[CondLock[c]] # NULL
    <3>1. \A l \in Lock : owner'[l] = owner[l]
      BY <1>0, <1>a, <2>1, OwnersStep, View, ViewNext DEF OwnersKept
    <3>2. owner[CondLock[c]] = u /\ u # NULL
      BY <2>6, View, ObjectAssumption DEF Semaphore
    <3>3. QED
      BY <3>1, <3>2, ViewTypes
  <2>9. ASSUME NEW t \in Thread, NEW d \in Cond
        PROVE  /\ t \in waiting'[d] <=> t \in waiting[d] /\ ~ (t = h /\ d = c)
               /\ t \in signaled'[d] <=> t \in signaled[d] \/ (t = h /\ d = c)
    <3>1. SamePlace(t) /\ (Listed(t, d)' <=> Listed(t, d) /\ ~ (t = h /\ d = c))
      BY <2>1, <2>4
    <3> HIDE DEF Listed
    <3>2. CASE t = h /\ d = c
      BY <1>v, <2>5, <2>7, <3>1, <3>2 DEF SamePlace
    <3>3. CASE ~ (t = h /\ d = c)
      BY <1>v, <3>1, <3>3 DEF SamePlace
    <3>4. QED
      BY <3>2, <3>3
  <2>10. /\ waiting' = [waiting EXCEPT ![c] = @ \ {h}]
         /\ signaled' = [signaled EXCEPT ![c] = @ \cup {h}]
    <3>1. SetsLess(waiting', waiting, c, h) /\ SetsPlus(signaled', signaled, c, h)
      BY <2>9 DEF SetsLess, SetsPlus
    <3>2. QED
      BY <1>w, <3>1, SetsChange
  <2>11. h \in waiting[c]
    BY <1>v, <2>5, <2>7
  <2>12. M!Signal(h, c)
    BY <2>8, <2>10, <2>11 DEF M!Signal
  <2>13. QED
    BY <2>12 DEF M!Next
<1>7. QED
  BY <1>0, <1>a, <1>1, <1>2, <1>3, <1>4, <1>5, <1>6, CondSteps DEF CondKind

\* At the start every lock is free and nobody waits.
LEMMA MonitorInit == Init => M!Init
<1> SUFFICES ASSUME Init PROVE M!Init
  OBVIOUS
<1>1. Range(<<>>) = {}
  BY DEF Range
<1>2. /\ \A t \in Thread : pc[t] = "free" /\ frame[t] = NULL
      /\ \A l \in Lock : holder[l] = NULL
      /\ \A c \in Cond : Range(cond_waiters[c]) = {}
      /\ NULL \notin Thread /\ NULL \notin Cond
  BY <1>1, ObjectAssumption DEF Init, Semaphore
<1>3. owner = [l \in Lock |-> NULL]
  <2>1. \A l \in Lock : ~ \E t \in Thread : Owns(t, l)
    BY <1>2 DEF Owns
  <2>2. QED
    BY <2>1 DEF owner
<1>4. waiting = [c \in Cond |-> {}] /\ signaled = [c \in Cond |-> {}]
  BY <1>2 DEF waiting, signaled
<1>5. QED
  BY <1>3, <1>4 DEF M!Init

\* Locks and condition variables implement the monitor: whatever the scheduler
\* and the interrupts do, cond_wait() releases and waits in one step, a signal
\* goes to a waiter, and a lock has one owner.
THEOREM MonitorImplemented == Spec => ImplementsMonitor
  BY SyncInvHolds, MonitorInit, MonitorStep, PTL DEF Spec, ImplementsMonitor, M!Spec
=============================================================================
