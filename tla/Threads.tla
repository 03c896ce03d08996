------------------------------- MODULE Threads -------------------------------
(***************************************************************************)
(* The kernel thread system of Pintos: the round-robin scheduler of        *)
(* threads/thread.c and the semaphores, locks and condition variables of   *)
(* threads/synch.c, on one processor with preemption by the timer.         *)
(*                                                                         *)
(* A step is what runs between two points where an interrupt can be taken. *)
(* sema_down(), sema_up(), thread_unblock(), thread_yield() and schedule() *)
(* run with interrupts off and are one step; lock_acquire() (down, then    *)
(* set holder), lock_release() (clear holder, then up), cond_wait() and    *)
(* thread_create() are several.  A thread that blocked in sema_down()      *)
(* resumes inside the while loop with interrupts still off.                *)
(*                                                                         *)
(* A semaphore is named by what contains it: a lock, a caller's semaphore, *)
(* or, for the semaphore_elem that cond_wait() keeps on its caller's       *)
(* stack, the waiting thread itself.                                       *)
(***************************************************************************)
EXTENDS Integers, Sequences, FiniteSets, Functions

CONSTANTS
    Thread,          \* thread pages: a freed page may become another thread
    initial_thread,  \* the thread that runs main()
    idle_thread,
    Lock,
    tid_lock,        \* the lock of allocate_tid()
    Sema,            \* semaphores used directly by callers
    Cond,
    CondLock,        \* the lock each condition variable is used with
    TIME_SLICE,
    MaxValue,        \* bound: callers keep a semaphore's value below this
    MaxTid,          \* bound: no thread is created past this tid
    NULL

Semaphore == Lock \cup Sema \cup Thread

ASSUME ThreadAssumption ==
    /\ IsFiniteSet(Thread)
    /\ initial_thread \in Thread /\ idle_thread \in Thread
    /\ initial_thread # idle_thread
ASSUME ObjectAssumption ==
    /\ tid_lock \in Lock
    /\ CondLock \in [Cond -> Lock \ {tid_lock}]
    /\ Thread \cap Lock = {} /\ Thread \cap Sema = {} /\ Thread \cap Cond = {}
    /\ Lock \cap Sema = {}
    /\ NULL \notin Semaphore \cup Cond
ASSUME BoundAssumption ==
    TIME_SLICE \in Nat \ {0} /\ MaxValue \in Nat \ {0} /\ MaxTid \in Nat

VARIABLES
    current,       \* thread_current()
    status,        \* t->status, or "unused" for a page in the free pool
    ready_list,
    thread_ticks,
    value,         \* sema->value
    waiters,       \* sema->waiters
    holder,        \* lock->holder
    cond_waiters,  \* cond->waiters, by the thread whose stack holds the elem
    pc,            \* where in synch.c or thread.c a thread is
    sem,           \* the semaphore argument of the call it is in
    frame,         \* the condition it waits for, or the thread it creates
    tid,           \* t->tid, 0 until allocated
    next_tid

sched_vars == <<current, status, ready_list, thread_ticks>>
call_vars  == <<pc, sem, frame>>
tid_vars   == <<tid, next_tid>>
vars == <<sched_vars, value, waiters, holder, cond_waiters, call_vars, tid_vars>>

Status == {"unused", "running", "ready", "blocked", "dying"}
PC == {"free", "down", "acquired", "releasing", "wait", "signaled",
       "broadcast", "create", "read_tid", "write_tid", "created"}

TypeOK ==
    /\ current \in Thread
    /\ status \in [Thread -> Status]
    /\ ready_list \in Seq(Thread)
    /\ thread_ticks \in 0 .. TIME_SLICE - 1
    /\ value \in [Semaphore -> Nat]
    /\ waiters \in [Semaphore -> Seq(Thread)]
    /\ holder \in [Lock -> Thread \cup {NULL}]
    /\ cond_waiters \in [Cond -> Seq(Thread)]
    /\ pc \in [Thread -> PC]
    /\ sem \in [Thread -> Semaphore \cup {NULL}]
    /\ frame \in [Thread -> Cond \cup Thread \cup {NULL}]
    /\ tid \in [Thread -> Nat]
    /\ next_tid \in Nat

(***************************************************************************)
(* The scheduler.  schedule(st, q) switches away from a thread after its   *)
(* caller left the statuses st and the run queue q; thread_schedule_tail() *)
(* starts a time slice and frees the page of a thread that died.           *)
(***************************************************************************)
next_thread_to_run(q) == IF q = <<>> THEN idle_thread ELSE Head(q)

thread_schedule_tail(st, next) ==
    /\ status' = [t \in Thread |->
                    IF t = next THEN "running"
                    ELSE IF st[t] = "dying" /\ t # initial_thread THEN "unused"
                    ELSE st[t]]
    /\ thread_ticks' = 0

schedule(st, q) ==
    /\ current' = next_thread_to_run(q)
    /\ ready_list' = IF q = <<>> THEN q ELSE Tail(q)
    /\ thread_schedule_tail(st, next_thread_to_run(q))

thread_block == schedule([status EXCEPT ![current] = "blocked"], ready_list)

thread_unblock(t) ==
    /\ status' = [status EXCEPT ![t] = "ready"]
    /\ ready_list' = Append(ready_list, t)
    /\ UNCHANGED <<current, thread_ticks>>
\* Mutants: idle put on the run queue; a preempted thread put at its front.
thread_yield_idle ==
    schedule([status EXCEPT ![current] = "ready"], Append(ready_list, current))
thread_yield_front ==
    schedule([status EXCEPT ![current] = "ready"],
             IF current = idle_thread THEN ready_list ELSE <<current>> \o ready_list)

thread_yield ==
    schedule([status EXCEPT ![current] = "ready"],
             IF current = idle_thread THEN ready_list
                                      ELSE Append(ready_list, current))

(***************************************************************************)
(* Semaphores.  sema_down(s) is one pass of the while loop: the caller     *)
(* either blocks, to come back to "down" when it is scheduled again, or    *)
(* decrements the value and returns into the function that called it.      *)
(***************************************************************************)
sema_down(s) ==
    \/ /\ value[s] = 0
       /\ waiters' = [waiters EXCEPT ![s] = Append(@, current)]
       /\ pc' = [pc EXCEPT ![current] = "down"]
       /\ sem' = [sem EXCEPT ![current] = s]
       /\ thread_block
       /\ UNCHANGED value
    \/ /\ value[s] > 0
       /\ value' = [value EXCEPT ![s] = @ - 1]
       /\ pc' = [pc EXCEPT ![current] = IF s \in Lock THEN "acquired"
                                        ELSE IF s \in Thread THEN "signaled"
                                        ELSE "free"]
       /\ sem' = [sem EXCEPT ![current] = IF s \in Lock THEN s ELSE NULL]
       /\ UNCHANGED <<sched_vars, waiters>>
\* Mutant: a waiter is woken only when the value was zero.
sema_up_if_zero(s) ==
    /\ IF waiters[s] = <<>> \/ value[s] > 0
         THEN UNCHANGED <<sched_vars, waiters>>
         ELSE /\ waiters' = [waiters EXCEPT ![s] = Tail(@)]
              /\ thread_unblock(Head(waiters[s]))
    /\ value' = [value EXCEPT ![s] = @ + 1]

sema_up(s) ==
    /\ IF waiters[s] = <<>>
         THEN UNCHANGED <<sched_vars, waiters>>
         ELSE /\ waiters' = [waiters EXCEPT ![s] = Tail(@)]
              /\ thread_unblock(Head(waiters[s]))
    /\ value' = [value EXCEPT ![s] = @ + 1]

\* The running thread (never idle, which makes no calls) is at point p.
At(p) == current # idle_thread /\ pc[current] = p

\* Interrupts are off only while a woken thread is back in sema_down()'s loop.
intr_on == pc[current] # "down"

(***************************************************************************)
(* Steps of the running thread: semaphores and locks.                      *)
(***************************************************************************)
SemaDown(s) ==
    /\ At("free")
    /\ sema_down(s)
    /\ UNCHANGED <<holder, cond_waiters, frame, tid_vars>>

SemaDownLoop ==
    /\ At("down")
    /\ sema_down(sem[current])
    /\ UNCHANGED <<holder, cond_waiters, frame, tid_vars>>

SemaTryDown(s) ==
    /\ At("free")
    /\ value[s] > 0
    /\ value' = [value EXCEPT ![s] = @ - 1]
    /\ UNCHANGED <<sched_vars, waiters, holder, cond_waiters, call_vars, tid_vars>>

SemaUp(s) ==
    /\ At("free")
    /\ value[s] < MaxValue
    /\ sema_up(s)
    /\ UNCHANGED <<holder, cond_waiters, call_vars, tid_vars>>

LockAcquire(l) ==
    /\ At("free")
    /\ holder[l] # current
    /\ sema_down(l)
    /\ UNCHANGED <<holder, cond_waiters, frame, tid_vars>>

\* The second half of a successful lock_acquire() or lock_try_acquire():
\* set the holder and return to the caller, cond_wait() or allocate_tid().
SetHolder ==
    /\ At("acquired")
    /\ holder' = [holder EXCEPT ![sem[current]] = current]
    /\ sem' = [sem EXCEPT ![current] = NULL]
    /\ pc' = [pc EXCEPT ![current] =
                IF frame[current] \in Thread THEN "read_tid" ELSE "free"]
    /\ frame' = [frame EXCEPT ![current] = IF @ \in Thread THEN @ ELSE NULL]
    /\ UNCHANGED <<sched_vars, value, waiters, cond_waiters, tid_vars>>
\* Mutant: sema_try_down() tests the value and forgets to decrement it.
LockTryAcquire_test(l) ==
    /\ At("free")
    /\ holder[l] # current
    /\ value[l] > 0
    /\ pc' = [pc EXCEPT ![current] = "acquired"]
    /\ sem' = [sem EXCEPT ![current] = l]
    /\ UNCHANGED <<sched_vars, value, waiters, holder, cond_waiters, frame, tid_vars>>

LockTryAcquire(l) ==
    /\ At("free")
    /\ holder[l] # current
    /\ value[l] > 0
    /\ value' = [value EXCEPT ![l] = @ - 1]
    /\ pc' = [pc EXCEPT ![current] = "acquired"]
    /\ sem' = [sem EXCEPT ![current] = l]
    /\ UNCHANGED <<sched_vars, waiters, holder, cond_waiters, frame, tid_vars>>

\* The first half of lock_release(), on behalf of a caller that keeps f.
clear_holder(l, f) ==
    /\ holder' = [holder EXCEPT ![l] = NULL]
    /\ pc' = [pc EXCEPT ![current] = "releasing"]
    /\ sem' = [sem EXCEPT ![current] = l]
    /\ frame' = [frame EXCEPT ![current] = f]

LockRelease(l) ==
    /\ At("free")
    /\ holder[l] = current
    /\ clear_holder(l, NULL)
    /\ UNCHANGED <<sched_vars, value, waiters, cond_waiters, tid_vars>>

\* The second half of lock_release(), and the return to its caller.
ReleaseUp ==
    /\ At("releasing")
    /\ sema_up(sem[current])
    /\ sem' = [sem EXCEPT ![current] = NULL]
    /\ pc' = [pc EXCEPT ![current] =
                CASE frame[current] \in Cond   -> "wait"
                  [] frame[current] \in Thread -> "created"
                  [] OTHER                     -> "free"]
    /\ UNCHANGED <<holder, cond_waiters, frame, tid_vars>>

(***************************************************************************)
(* Condition variables.  cond_wait() puts a fresh semaphore on the list    *)
(* and releases the lock; both lists are only touched under the lock.      *)
(***************************************************************************)
CondWait(c) ==
    /\ At("free")
    /\ holder[CondLock[c]] = current
    /\ value' = [value EXCEPT ![current] = 0]
    /\ waiters' = [waiters EXCEPT ![current] = <<>>]
    /\ cond_waiters' = [cond_waiters EXCEPT ![c] = Append(@, current)]
    /\ clear_holder(CondLock[c], c)
    /\ UNCHANGED <<sched_vars, tid_vars>>
\* Mutant: the waiter's semaphore is initialized after the lock is released.
CondSleep_late_init ==
    /\ At("wait")
    /\ waiters' = [waiters EXCEPT ![current] = <<current>>]
    /\ value' = [value EXCEPT ![current] = 0]
    /\ pc' = [pc EXCEPT ![current] = "down"]
    /\ sem' = [sem EXCEPT ![current] = current]
    /\ thread_block
    /\ UNCHANGED <<holder, cond_waiters, frame, tid_vars>>

CondSleep ==
    /\ At("wait")
    /\ sema_down(current)
    /\ UNCHANGED <<holder, cond_waiters, frame, tid_vars>>
\* Mutant: cond_wait() returns without the lock.
CondReacquire_none ==
    /\ At("signaled")
    /\ pc' = [pc EXCEPT ![current] = "free"]
    /\ frame' = [frame EXCEPT ![current] = NULL]
    /\ UNCHANGED <<sched_vars, value, waiters, holder, cond_waiters, sem, tid_vars>>

CondReacquire ==
    /\ At("signaled")
    /\ sema_down(CondLock[frame[current]])
    /\ UNCHANGED <<holder, cond_waiters, frame, tid_vars>>

cond_signal(c) ==
    /\ holder[CondLock[c]] = current
    /\ cond_waiters[c] # <<>>
    /\ cond_waiters' = [cond_waiters EXCEPT ![c] = Tail(@)]
    /\ sema_up(Head(cond_waiters[c]))

CondSignal(c) ==
    /\ At("free")
    /\ cond_signal(c)
    /\ UNCHANGED <<holder, call_vars, tid_vars>>

CondBroadcast(c) ==
    /\ At("free")
    /\ holder[CondLock[c]] = current
    /\ pc' = [pc EXCEPT ![current] = "broadcast"]
    /\ frame' = [frame EXCEPT ![current] = c]
    /\ UNCHANGED <<sched_vars, value, waiters, holder, cond_waiters, sem, tid_vars>>

\* One test of cond_broadcast()'s loop.
CondBroadcastLoop ==
    /\ At("broadcast")
    /\ \/ /\ cond_signal(frame[current])
          /\ UNCHANGED <<holder, call_vars, tid_vars>>
       \/ /\ cond_waiters[frame[current]] = <<>>
          /\ pc' = [pc EXCEPT ![current] = "free"]
          /\ frame' = [frame EXCEPT ![current] = NULL]
          /\ UNCHANGED <<sched_vars, value, waiters, holder, cond_waiters, sem, tid_vars>>

(***************************************************************************)
(* Creation and destruction of threads.  `tid = next_tid++' is a load and  *)
(* a store, made under tid_lock.                                           *)
(***************************************************************************)
ThreadCreate(t) ==
    /\ At("free")
    /\ status[t] = "unused"
    /\ next_tid <= MaxTid
    /\ status' = [status EXCEPT ![t] = "blocked"]
    /\ tid' = [tid EXCEPT ![t] = 0]
    /\ pc' = [pc EXCEPT ![current] = "create"]
    /\ frame' = [frame EXCEPT ![current] = t]
    /\ UNCHANGED <<current, ready_list, thread_ticks, value, waiters, holder,
                   cond_waiters, sem, next_tid>>

AllocateTid ==
    /\ At("create")
    /\ sema_down(tid_lock)
    /\ UNCHANGED <<holder, cond_waiters, frame, tid_vars>>

ReadTid ==
    /\ At("read_tid")
    /\ tid' = [tid EXCEPT ![frame[current]] = next_tid]
    /\ pc' = [pc EXCEPT ![current] = "write_tid"]
    /\ UNCHANGED <<sched_vars, value, waiters, holder, cond_waiters, sem, frame, next_tid>>
\* Mutant: the increment is not stored.
WriteTid_lost ==
    /\ At("write_tid")
    /\ next_tid' = tid[frame[current]]
    /\ clear_holder(tid_lock, frame[current])
    /\ UNCHANGED <<sched_vars, value, waiters, cond_waiters, tid>>

WriteTid ==
    /\ At("write_tid")
    /\ next_tid' = tid[frame[current]] + 1
    /\ clear_holder(tid_lock, frame[current])
    /\ UNCHANGED <<sched_vars, value, waiters, cond_waiters, tid>>

Created ==
    /\ At("created")
    /\ thread_unblock(frame[current])
    /\ pc' = [pc EXCEPT ![current] = "free"]
    /\ frame' = [frame EXCEPT ![current] = NULL]
    /\ UNCHANGED <<value, waiters, holder, cond_waiters, sem, tid_vars>>

ThreadYield ==
    /\ At("free")
    /\ thread_yield
    /\ UNCHANGED <<value, waiters, holder, cond_waiters, call_vars, tid_vars>>

ThreadExit ==
    /\ At("free")
    /\ schedule([status EXCEPT ![current] = "dying"], ready_list)
    /\ UNCHANGED <<value, waiters, holder, cond_waiters, call_vars, tid_vars>>

(***************************************************************************)
(* The idle thread and interrupts.  Handlers may up semaphores: a device's *)
(* handler, and timer_interrupt() itself when thread_wake_routine() wakes  *)
(* sleepers (module Alarm) before the handler's return yields; such a tick *)
(* is here DeviceInterrupt steps followed by TimerInterrupt.               *)
(***************************************************************************)
Idle ==
    /\ current = idle_thread
    /\ thread_block
    /\ UNCHANGED <<value, waiters, holder, cond_waiters, call_vars, tid_vars>>
\* Mutant: the slice is one tick too long.
thread_tick_late ==
    IF thread_ticks + 1 > TIME_SLICE
      THEN thread_yield
      ELSE thread_ticks' = thread_ticks + 1 /\ UNCHANGED <<current, status, ready_list>>

thread_tick ==
    IF thread_ticks + 1 >= TIME_SLICE
      THEN thread_yield
      ELSE thread_ticks' = thread_ticks + 1 /\ UNCHANGED <<current, status, ready_list>>

TimerInterrupt ==
    /\ intr_on
    /\ thread_tick
    /\ UNCHANGED <<value, waiters, holder, cond_waiters, call_vars, tid_vars>>

DeviceInterrupt(s) ==
    /\ intr_on
    /\ value[s] < MaxValue
    /\ sema_up(s)
    /\ UNCHANGED <<holder, cond_waiters, call_vars, tid_vars>>

(***************************************************************************)
(* The specification starts when thread_start() returns in main().         *)
(***************************************************************************)
Init ==
    /\ current = initial_thread
    /\ status = [t \in Thread |-> CASE t = initial_thread -> "running"
                                    [] t = idle_thread    -> "blocked"
                                    [] OTHER              -> "unused"]
    /\ ready_list = <<>>
    /\ thread_ticks = 0
    /\ value = [s \in Semaphore |-> IF s \in Lock THEN 1 ELSE 0]
    /\ waiters = [s \in Semaphore |-> <<>>]
    /\ holder = [l \in Lock |-> NULL]
    /\ cond_waiters = [c \in Cond |-> <<>>]
    /\ pc = [t \in Thread |-> "free"]
    /\ sem = [t \in Thread |-> NULL]
    /\ frame = [t \in Thread |-> NULL]
    /\ tid = [t \in Thread |-> CASE t = initial_thread -> 1
                                 [] t = idle_thread    -> 2
                                 [] OTHER              -> 0]
    /\ next_tid = 3

SemaStep == \E s \in Sema : SemaDown(s) \/ SemaTryDown(s) \/ SemaUp(s)
LockStep == \/ \E l \in Lock \ {tid_lock} :
                  LockAcquire(l) \/ LockTryAcquire(l) \/ LockRelease(l)
            \/ SetHolder
            \/ ReleaseUp
CondStep == \/ \E c \in Cond : CondWait(c) \/ CondSignal(c) \/ CondBroadcast(c)
            \/ CondSleep
            \/ CondReacquire
            \/ CondBroadcastLoop
CreateStep == \/ \E t \in Thread : ThreadCreate(t)
              \/ AllocateTid
              \/ ReadTid
              \/ WriteTid
              \/ Created
Interrupt == TimerInterrupt \/ \E s \in Sema : DeviceInterrupt(s)

Next == \/ SemaStep
        \/ SemaDownLoop
        \/ LockStep
        \/ CondStep
        \/ CreateStep
        \/ ThreadYield
        \/ ThreadExit
        \/ Idle
        \/ Interrupt

Spec == Init /\ [][Next]_vars

(***************************************************************************)
(* The timer keeps ticking and a thread with interrupts off gets to the    *)
(* end of the section it is in.                                            *)
(***************************************************************************)
FairSpec == Spec /\ WF_vars(TimerInterrupt) /\ WF_vars(SemaDownLoop)

-----------------------------------------------------------------------------
(***************************************************************************)
(* Properties.                                                             *)
(***************************************************************************)

\* The comment on `elem' in thread.h: a thread is on the run queue exactly
\* when it is ready (idle never is) and on one semaphore's list exactly when it
\* is blocked in sema_down() or still being created; no list has it twice.
ElemOnOneList ==
    /\ IsInjective(ready_list)
    /\ Range(ready_list) = {t \in Thread \ {idle_thread} : status[t] = "ready"}
    /\ status[current] = "running" /\ \A t \in Thread : status[t] = "running" => t = current
    /\ \A s \in Semaphore :
         /\ IsInjective(waiters[s])
         /\ \A t \in Range(waiters[s]) :
              /\ t # idle_thread /\ status[t] = "blocked"
              /\ pc[t] = "down" /\ sem[t] = s
    /\ \A t \in Thread \ {idle_thread} : status[t] = "blocked" =>
         \/ \E s \in Semaphore : t \in Range(waiters[s])
         \/ \E u \in Thread : frame[u] = t

\* The thread is past its down on the lock's semaphore and before its up.
Owns(t, l) == \/ holder[l] = t
              \/ pc[t] \in {"acquired", "releasing"} /\ sem[t] = l

\* "A lock can be held by at most a single thread at any given time"
\* (lock_init): one owner exactly when the semaphore is down, also in the
\* windows where holder does not name it.
LockExclusion ==
    \A l \in Lock :
        /\ value[l] = IF \E t \in Thread : Owns(t, l) THEN 0 ELSE 1
        /\ \A t, u \in Thread : Owns(t, l) /\ Owns(u, l) => t = u

\* Threads taken off s's list by sema_up() that have not run since.
Woken(s) == {t \in Thread : pc[t] = "down" /\ sem[t] = s /\ t \notin Range(waiters[s])}

\* No sema_up() is lost: while threads wait for s, there are at least as many
\* woken threads on their way to it as it has value, however the woken race
\* with threads that take the value first.
NoLostWakeup ==
    \A s \in Semaphore : waiters[s] # <<>> => Cardinality(Woken(s)) >= value[s]

AwaitsSignal(t) == /\ frame[t] \in Cond
                   /\ pc[t] \in {"releasing", "wait"} \/ (pc[t] = "down" /\ sem[t] = t)

\* cond_wait() "atomically releases LOCK and waits": from the release until it
\* consumes its signal a waiter is either on cond->waiters or signaled, never
\* neither, and a thread outside that interval is on no condition's list.
CondSignalKept ==
    \A t \in Thread :
        /\ value[t] = IF AwaitsSignal(t) /\ t \notin Range(cond_waiters[frame[t]])
                      THEN 1 ELSE 0
        /\ \A c \in Cond : t \in Range(cond_waiters[c]) => AwaitsSignal(t) /\ frame[t] = c

\* allocate_tid() gives no two threads the same identifier, although several
\* threads may be in thread_create() at once.
TidUnique == \A t, u \in Thread : t # u /\ tid[t] = tid[u] => tid[t] = 0

\* Round robin: every thread on the run queue is eventually run.
ReadyRuns ==
    \A t \in Thread \ {idle_thread} : status[t] = "ready" ~> current = t

(***************************************************************************)
(* The monitor the synchronization calls implement: a lock is owned from   *)
(* the down to the up of its semaphore, and a thread waits for a condition *)
(* from the up in cond_wait() until cond_signal() takes it off the list.   *)
(***************************************************************************)
owner == [l \in Lock |->
            IF \E t \in Thread : Owns(t, l) THEN CHOOSE t \in Thread : Owns(t, l)
                                            ELSE NULL]
waiting == [c \in Cond |-> {t \in Range(cond_waiters[c]) : pc[t] # "releasing"}]
signaled == [c \in Cond |-> {t \in Thread : /\ frame[t] = c
                                           /\ pc[t] \notin {"broadcast", "acquired"}
                                           /\ t \notin Range(cond_waiters[c])}]
M == INSTANCE Monitor

\* Locks and condition variables implement the monitor: every step of every
\* thread and every interrupt is one step of it, or none.
ImplementsMonitor == M!Spec

-----------------------------------------------------------------------------
(***************************************************************************)
(* The parts of the inductive invariant that the properties need.          *)
(***************************************************************************)

\* What a thread's place in the code says about the arguments of its calls:
\* tid_lock is only downed on behalf of a creator, a condition's lock on
\* behalf of cond_wait() or directly, a thread's own semaphore by cond_wait().
CallsMatch(t) ==
    LET f == frame[t]
        s == sem[t]
        locking == s \in Lock /\ IF s = tid_lock THEN f \in Thread
                                 ELSE f = NULL \/ (f \in Cond /\ s = CondLock[f])
    IN  CASE pc[t] = "free" -> f = NULL /\ s = NULL
          [] pc[t] = "down" -> \/ locking
                               \/ s \in Sema /\ f = NULL
                               \/ s = t /\ f \in Cond
          [] pc[t] \in {"acquired", "releasing"} -> locking
          [] pc[t] \in {"wait", "signaled", "broadcast"} -> f \in Cond /\ s = NULL
          [] OTHER -> f \in Thread /\ s = NULL

CallInv == /\ \A t \in Thread : CallsMatch(t)
           /\ pc[idle_thread] = "free"

\* The scheduler's lists and statuses: ElemOnOneList for the run queue, and who
\* may be dead or idle.
ReadyInv ==
    /\ IsInjective(ready_list)
    /\ Range(ready_list) = {t \in Thread \ {idle_thread} : status[t] = "ready"}
    /\ status[current] = "running"
    /\ \A t \in Thread : status[t] = "running" => t = current
    /\ \A t \in Thread : status[t] = "dying" => t = initial_thread
    /\ status[idle_thread] \notin {"unused", "dying"}

\* The semaphores' lists: ElemOnOneList for them, with the reason each blocked
\* thread is blocked for.
WaitInv ==
    /\ \A s \in Semaphore :
         /\ IsInjective(waiters[s])
         /\ \A t \in Range(waiters[s]) :
              /\ t # idle_thread /\ status[t] = "blocked"
              /\ pc[t] = "down" /\ sem[t] = s
    /\ \A t \in Thread \ {idle_thread} : status[t] = "blocked" =>
         \/ pc[t] = "down" /\ t \in Range(waiters[sem[t]])
         \/ \E u \in Thread : frame[u] = t
    /\ \A u \in Thread : frame[u] \in Thread =>
         /\ frame[u] # idle_thread
         /\ status[frame[u]] = "blocked"
         /\ pc[frame[u]] = "free"
         /\ \A v \in Thread : frame[v] = frame[u] => v = u
    /\ \A t \in Thread : status[t] \in {"unused", "dying"} => pc[t] = "free"

\* Locks: LockExclusion, with the windows in which holder names nobody.
LockInv ==
    /\ \A l \in Lock :
         \/ value[l] = 1 /\ \A t \in Thread : ~Owns(t, l)
         \/ value[l] = 0 /\ \E t \in Thread : \A u \in Thread : Owns(u, l) <=> u = t
    /\ \A t \in Thread :
         /\ pc[t] \in {"acquired", "releasing"} => holder[sem[t]] = NULL
         /\ pc[t] \in {"read_tid", "write_tid"} => holder[tid_lock] = t

\* Identifiers: all are below next_tid, except one that is being stored.
TidInv ==
    /\ TidUnique
    /\ next_tid > 0
    /\ \A t \in Thread :
         \/ tid[t] < next_tid
         \/ tid[t] = next_tid /\ \E u \in Thread : pc[u] = "write_tid" /\ frame[u] = t
    /\ \A u \in Thread : pc[u] = "write_tid" => tid[frame[u]] = next_tid

\* A thread in cond_wait() that has not yet released the lock.
Leaving(t) == pc[t] = "releasing" /\ frame[t] \in Cond

\* Conditions: CondSignalKept, on lists without repetitions, and nobody is
\* signaled before it releases the lock.
CondInv ==
    /\ CondSignalKept
    /\ \A c \in Cond : IsInjective(cond_waiters[c])
    /\ \A t \in Thread : Leaving(t) => t \in Range(cond_waiters[frame[t]])

=============================================================================
