-------------------------------- MODULE Alarm --------------------------------
(***************************************************************************)
(* The alarm clock: timer_sleep() of devices/timer.c, thread_sleep() and   *)
(* thread_wake_routine() of threads/thread.c.                              *)
(*                                                                         *)
(* A sleeping thread is on wait_list, ordered by wakeup_time, and down on  *)
(* its own timer_semaphore, which each timer interrupt ups for the threads *)
(* whose time has come.  Threads interleave at the points where interrupts *)
(* are on (module Threads shows that a ready thread is eventually run).    *)
(* timer_semaphore is zeroed memory until the thread's first sleep: an up  *)
(* on it finds a list that is neither empty nor a list, and list_remove()'s*)
(* ASSERT (is_interior (elem)) panics.                                     *)
(***************************************************************************)
EXTENDS ListOps, Functions

CONSTANTS
    Thread,
    Duration,   \* arguments of timer_sleep()
    MaxTicks    \* bound: ticks stays here; no sleep reaches past it

ASSUME AlarmAssumption == Duration \subseteq Int /\ MaxTicks \in Nat

VARIABLES
    ticks,
    wait_list,
    wakeup_time,   \* t->wakeup_time
    value,         \* t->timer_semaphore.value
    initialized,   \* sema_init() was called on t->timer_semaphore
    pc,            \* where in thread_sleep() a thread is
    panicked

vars == <<ticks, wait_list, wakeup_time, value, initialized, pc, panicked>>

PC == {"awake", "timed", "listed", "down", "blocked", "woken"}

TypeOK ==
    /\ ticks \in 0 .. MaxTicks
    /\ wait_list \in Seq(Thread)
    /\ wakeup_time \in [Thread -> 0 .. MaxTicks]
    /\ value \in [Thread -> 0 .. 1]
    /\ initialized \in [Thread -> BOOLEAN]
    /\ pc \in [Thread -> PC]
    /\ panicked \in BOOLEAN

(***************************************************************************)
(* thread_sleep(), one step per point where an interrupt can come.         *)
(***************************************************************************)

\* timer_sleep(n) up to the assignment of wakeup_time; negative is zero.
TimerSleep(t, n) ==
    LET priv_ticks == IF n < 0 THEN 0 ELSE n
    IN  /\ pc[t] = "awake"
        /\ ticks + priv_ticks < MaxTicks
        /\ wakeup_time' = [wakeup_time EXCEPT ![t] = ticks + priv_ticks]
        /\ pc' = [pc EXCEPT ![t] = "timed"]
        /\ UNCHANGED <<ticks, wait_list, value, initialized, panicked>>

wake_time_compare(t, u) == wakeup_time[t] < wakeup_time[u]

\* Mutant: the list is not kept in order.
list_insert_ordered_push(q, t) == Append(q, t)

\* list_insert_ordered(): before the first element that t is less than.
list_insert_ordered(q, t) ==
    LET k == Cardinality({i \in 1 .. Len(q) :
                            \A j \in 1 .. i : ~wake_time_compare(t, q[j])})
    IN  SubSeq(q, 1, k) \o <<t>> \o SubSeq(q, k + 1, Len(q))

ListInsert(t) ==
    /\ pc[t] = "timed"
    /\ wait_list' = list_insert_ordered(wait_list, t)
    /\ pc' = [pc EXCEPT ![t] = "listed"]
    /\ UNCHANGED <<ticks, wakeup_time, value, initialized, panicked>>

\* Mutant: the semaphore starts up.
SemaInit_one(t) ==
    /\ pc[t] = "listed"
    /\ value' = [value EXCEPT ![t] = 1]
    /\ initialized' = [initialized EXCEPT ![t] = TRUE]
    /\ pc' = [pc EXCEPT ![t] = "down"]
    /\ UNCHANGED <<ticks, wait_list, wakeup_time, panicked>>

SemaInit(t) ==
    /\ pc[t] = "listed"
    /\ value' = [value EXCEPT ![t] = 0]
    /\ initialized' = [initialized EXCEPT ![t] = TRUE]
    /\ pc' = [pc EXCEPT ![t] = "down"]
    /\ UNCHANGED <<ticks, wait_list, wakeup_time, panicked>>

\* sema_down() of timer_semaphore, first and after a wakeup.
SemaDown(t) ==
    /\ pc[t] \in {"down", "woken"}
    /\ IF value[t] > 0
         THEN /\ value' = [value EXCEPT ![t] = @ - 1]
              /\ pc' = [pc EXCEPT ![t] = "awake"]
         ELSE /\ pc' = [pc EXCEPT ![t] = "blocked"]
              /\ UNCHANGED value
    /\ UNCHANGED <<ticks, wait_list, wakeup_time, initialized, panicked>>

(***************************************************************************)
(* timer_interrupt(): count the tick and wake every thread on the list     *)
(* whose wakeup time is past.                                              *)
(***************************************************************************)
\* Mutant: only a thread whose time is exactly now is woken.
due_equal(now, t) == now = wakeup_time[t]

due(now, t) == now > wakeup_time[t]

thread_wake_routine(now) ==
    LET ups == {t \in Range(wait_list) : due(now, t)}
    IN  IF \A t \in ups : initialized[t]
          THEN /\ wait_list' = list_without(wait_list, ups)
               /\ value' = [t \in Thread |-> IF t \in ups THEN value[t] + 1 ELSE value[t]]
               /\ pc' = [t \in Thread |-> IF t \in ups /\ pc[t] = "blocked"
                                          THEN "woken" ELSE pc[t]]
               /\ UNCHANGED panicked
          ELSE panicked' = TRUE /\ UNCHANGED <<wait_list, value, pc>>

TimerInterrupt ==
    LET now == IF ticks < MaxTicks THEN ticks + 1 ELSE ticks
    IN  /\ ticks' = now
        /\ thread_wake_routine(now)
        /\ UNCHANGED <<wakeup_time, initialized>>

Init ==
    /\ ticks = 0
    /\ wait_list = <<>>
    /\ wakeup_time = [t \in Thread |-> 0]
    /\ value = [t \in Thread |-> 0]
    /\ initialized = [t \in Thread |-> FALSE]
    /\ pc = [t \in Thread |-> "awake"]
    /\ panicked = FALSE

ThreadSleep(t) == ListInsert(t) \/ SemaInit(t) \/ SemaDown(t)

Next ==
    /\ ~panicked
    /\ \/ \E t \in Thread, n \in Duration : TimerSleep(t, n)
       \/ \E t \in Thread : ThreadSleep(t)
       \/ TimerInterrupt

Spec == Init /\ [][Next]_vars

\* The timer ticks and every ready thread gets to run.
FairSpec ==
    /\ Spec
    /\ WF_vars(~panicked /\ TimerInterrupt)
    /\ \A t \in Thread : WF_vars(~panicked /\ ThreadSleep(t))

-----------------------------------------------------------------------------

\* timer_sleep(x) "suspends execution of the calling thread until time has
\* advanced by at least x timer ticks": it does not return before that.
NeverEarly ==
    [][\A t \in Thread : pc[t] # "awake" /\ pc'[t] = "awake" => ticks >= wakeup_time[t]]_vars

\* wait_list stays ordered by wakeup time and holds each sleeper once, although
\* a thread may insert a time that is already past.
WaitListSorted ==
    /\ IsInjective(wait_list)
    /\ \A i, j \in 1 .. Len(wait_list) :
         i < j => wakeup_time[wait_list[i]] <= wakeup_time[wait_list[j]]

\* A thread that initialized its semaphore while still on the list wakes up.
SleeperWakes ==
    \A t \in Thread :
        pc[t] = "down" /\ t \in Range(wait_list) ~> pc[t] = "awake" \/ panicked

\* Every sleep ends: the thread is put back on the run queue.
SleepEnds == \A t \in Thread : pc[t] = "timed" ~> pc[t] = "awake" \/ panicked
=============================================================================
