------------------------------- MODULE Monitor -------------------------------
(***************************************************************************)
(* What locks and condition variables promise their callers, as the        *)
(* comments of threads/synch.c state it, without semaphores or a           *)
(* scheduler: a lock has at most one owner, cond_wait() gives up the lock  *)
(* and starts waiting in one step, a signal wakes a waiter of that         *)
(* condition ("Mesa" style: the waiter then competes for the lock), and    *)
(* the lock is held again when cond_wait() returns.                        *)
(***************************************************************************)
CONSTANTS Thread, Lock, Cond, CondLock, NULL

VARIABLES
    owner,     \* the thread that owns each lock, or NULL
    waiting,   \* for each condition, the threads waiting for a signal
    signaled   \* and those signaled that have not reacquired the lock

Outside(t) == \A c \in Cond : t \notin waiting[c] \cup signaled[c]

Acquire(t, l) ==
    /\ owner[l] = NULL
    /\ Outside(t)
    /\ owner' = [owner EXCEPT ![l] = t]
    /\ UNCHANGED <<waiting, signaled>>

Release(t, l) ==
    /\ owner[l] = t
    /\ owner' = [owner EXCEPT ![l] = NULL]
    /\ UNCHANGED <<waiting, signaled>>

Wait(t, c) ==
    /\ owner[CondLock[c]] = t
    /\ Outside(t)
    /\ owner' = [owner EXCEPT ![CondLock[c]] = NULL]
    /\ waiting' = [waiting EXCEPT ![c] = @ \cup {t}]
    /\ UNCHANGED signaled

Signal(t, c) ==
    /\ owner[CondLock[c]] # NULL
    /\ t \in waiting[c]
    /\ waiting' = [waiting EXCEPT ![c] = @ \ {t}]
    /\ signaled' = [signaled EXCEPT ![c] = @ \cup {t}]
    /\ UNCHANGED owner

Reacquire(t, c) ==
    /\ owner[CondLock[c]] = NULL
    /\ t \in signaled[c]
    /\ owner' = [owner EXCEPT ![CondLock[c]] = t]
    /\ signaled' = [signaled EXCEPT ![c] = @ \ {t}]
    /\ UNCHANGED waiting

Init ==
    /\ owner = [l \in Lock |-> NULL]
    /\ waiting = [c \in Cond |-> {}]
    /\ signaled = [c \in Cond |-> {}]

Next == \E t \in Thread :
            \/ \E l \in Lock : Acquire(t, l) \/ Release(t, l)
            \/ \E c \in Cond : Wait(t, c) \/ Signal(t, c) \/ Reacquire(t, c)

Spec == Init /\ [][Next]_<<owner, waiting, signaled>>
=============================================================================
