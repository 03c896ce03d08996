------------------------------- MODULE Serial -------------------------------
(***************************************************************************)
(* The input buffer and the serial port's transmit queue, two interrupt    *)
(* queues of devices/intq.c, with the threads and the handlers that use    *)
(* them (input.c, serial.c, kbd.c) and the port's interrupt enable         *)
(* register.                                                               *)
(*                                                                         *)
(* intq.c runs with interrupts off, so a step goes from one point where    *)
(* the thread sleeps, or the call begins or ends, to the next.  Threads    *)
(* only wait for "buffer" to be not empty and for "txq" to be not full.    *)
(***************************************************************************)
EXTENDS Naturals, Sequences

CONSTANTS
    Reader,        \* threads in sys_read() of descriptor 0
    Writer,        \* threads that print
    INTQ_BUFSIZE,
    Byte,
    NULL

Thread == Reader \cup Writer
Queue  == {"buffer", "txq"}
Pos    == 0 .. INTQ_BUFSIZE - 1

ASSUME SerialAssumption ==
    /\ INTQ_BUFSIZE \in Nat \ {0, 1}
    /\ Reader \cap Writer = {}
    /\ NULL \notin Thread
    /\ Byte # {}

VARIABLES
    buf, head, tail,
    waiter,        \* not_empty of the input buffer, not_full of txq
    lock,          \* the queues' locks: holders, or NULL
    lock_waiters,
    console_lock,
    ier,
    pc,
    byte,          \* what a writer has to send
    last,          \* the last byte taken from each queue
    panicked

queue_vars == <<buf, head, tail, last>>
lock_vars  == <<lock, lock_waiters>>
vars == <<queue_vars, waiter, lock_vars, console_lock, ier, pc, byte, panicked>>

TypeOK ==
    /\ buf \in [Queue -> [Pos -> Byte]]
    /\ head \in [Queue -> Pos]
    /\ tail \in [Queue -> Pos]
    /\ waiter \in [Queue -> Thread \cup {NULL}]
    /\ lock \in [Queue -> Thread \cup {NULL}]
    /\ lock_waiters \in [Queue -> Seq(Thread)]
    /\ console_lock \in Writer \cup {NULL}
    /\ ier \in [xmit : BOOLEAN, recv : BOOLEAN]
    /\ pc \in [Thread -> {"idle", "lock_sleep", "lock", "wait", "woken"}]
    /\ byte \in [Writer -> Byte]
    /\ last \in [Queue -> Byte]
    /\ panicked \in BOOLEAN

queue(t) == IF t \in Reader THEN "buffer" ELSE "txq"

(***************************************************************************)
(* The queue.                                                              *)
(***************************************************************************)
\* Mutant: positions do not wrap around.
next_nowrap(pos) == pos + 1

next(pos) == (pos + 1) % INTQ_BUFSIZE

intq_empty(q) == head[q] = tail[q]
intq_full(q)  == next(head[q]) = tail[q]

\* The condition in which the threads that use q wait.
must_wait(q) == IF q = "buffer" THEN intq_empty(q) ELSE intq_full(q)

\* What remains of intq_getc() and intq_putc() when they do not wait.
take(q) ==
    /\ last' = [last EXCEPT ![q] = buf[q][tail[q]]]
    /\ tail' = [tail EXCEPT ![q] = next(@)]

store(q, b) ==
    /\ buf' = [buf EXCEPT ![q][head[q]] = b]
    /\ head' = [head EXCEPT ![q] = next(@)]

\* Mutant: signal() forgets to unblock the thread.
signal_lost(q, p) ==
    /\ pc' = p
    /\ waiter' = [waiter EXCEPT ![q] = NULL]

\* signal() to the thread that waits for q, given the other changes to pc.
signal(q, p) ==
    /\ pc' = IF waiter[q] = NULL THEN p ELSE [p EXCEPT ![waiter[q]] = "woken"]
    /\ waiter' = [waiter EXCEPT ![q] = NULL]

\* serial_notify() and write_ier(): enabled are the interrupts that have
\* something to send, or room for what they receive.
write_ier ==
    ier' = [xmit |-> head'["txq"] # tail'["txq"],
            recv |-> next(head'["buffer"]) # tail'["buffer"]]

(***************************************************************************)
(* Threads.                                                                *)
(***************************************************************************)

\* Mutant: the interrupt enable register is left as it was.
finish_quiet(t, p) ==
    /\ IF t \in Reader THEN take("buffer") /\ UNCHANGED <<buf, head>>
                       ELSE store("txq", byte[t]) /\ UNCHANGED <<last, tail>>
    /\ pc' = [p EXCEPT ![t] = "idle"]
    /\ console_lock' = IF t \in Writer THEN NULL ELSE console_lock
    /\ UNCHANGED <<waiter, ier, panicked>>

\* The call of thread t takes or stores its byte and returns; p is pc with the
\* other changes of the step.  Nobody waits for the input buffer to be not full
\* or for txq to be not empty.
finish(t, p) ==
    /\ IF t \in Reader THEN take("buffer") /\ UNCHANGED <<buf, head>>
                       ELSE store("txq", byte[t]) /\ UNCHANGED <<last, tail>>
    /\ write_ier
    /\ pc' = [p EXCEPT ![t] = "idle"]
    /\ console_lock' = IF t \in Writer THEN NULL ELSE console_lock
    /\ UNCHANGED <<waiter, panicked>>

\* lock_acquire() has to sleep.
lock_sleep(t) ==
    /\ lock_waiters' = [lock_waiters EXCEPT ![queue(t)] = Append(@, t)]
    /\ pc' = [pc EXCEPT ![t] = "lock_sleep"]
    /\ UNCHANGED <<queue_vars, waiter, lock, ier, panicked>>

\* wait()
wait(t, p) ==
    /\ waiter' = [waiter EXCEPT ![queue(t)] = t]
    /\ pc' = [p EXCEPT ![t] = "wait"]
    /\ UNCHANGED <<queue_vars, ier, panicked>>

\* The loop of intq_getc() or intq_putc() for a thread without the lock.
loop(t) ==
    LET q == queue(t)
    IN  \/ /\ ~must_wait(q)
           /\ finish(t, pc)
           /\ UNCHANGED lock_vars
        \/ /\ must_wait(q) /\ lock[q] = NULL
           /\ lock' = [lock EXCEPT ![q] = t]
           /\ wait(t, pc)
           /\ UNCHANGED <<lock_waiters, console_lock>>
        \/ /\ must_wait(q) /\ lock[q] # NULL
           /\ lock_sleep(t)
           /\ UNCHANGED console_lock

\* input_getc()
InputGetc(r) ==
    /\ pc[r] = "idle"
    /\ loop(r)
    /\ UNCHANGED byte

\* putchar() of a thread up to the queue; no other thread is in serial_putc()
\* while it has the console's lock.
AcquireConsole(w, b) ==
    /\ pc[w] = "idle"
    /\ console_lock = NULL
    /\ console_lock' = w
    /\ byte' = [byte EXCEPT ![w] = b]
    /\ UNCHANGED <<queue_vars, waiter, lock_vars, ier, pc, panicked>>

\* serial_putc() with interrupts on
SerialPutc(w) ==
    /\ pc[w] = "idle"
    /\ console_lock = w
    /\ loop(w)
    /\ UNCHANGED byte

\* A thread that was woken in lock_acquire() tries again.  When it gets the
\* lock, it asserts in wait() that it still has to wait.
LockAcquire(t) ==
    LET q == queue(t)
    IN  /\ pc[t] = "lock"
        /\ \/ /\ lock[q] # NULL
              /\ lock_sleep(t)
           \/ /\ lock[q] = NULL /\ must_wait(q)
              /\ lock' = [lock EXCEPT ![q] = t]
              /\ wait(t, pc)
              /\ UNCHANGED lock_waiters
           \/ /\ lock[q] = NULL /\ ~must_wait(q)
              /\ panicked' = TRUE
              /\ UNCHANGED <<queue_vars, waiter, lock_vars, ier, pc>>
        /\ UNCHANGED <<console_lock, byte>>

\* lock_release() of q wakes the first thread that waits for the lock.
woken_next(q) ==
    IF lock_waiters[q] = <<>> THEN pc
    ELSE [pc EXCEPT ![Head(lock_waiters[q])] = "lock"]

release(q, holder) ==
    /\ lock' = [lock EXCEPT ![q] = holder]
    /\ lock_waiters' = [lock_waiters EXCEPT ![q] = IF @ = <<>> THEN @ ELSE Tail(@)]

\* A thread that was woken in wait() releases the lock, and takes it again at
\* once if another call was faster.
Woken(t) ==
    LET q == queue(t)
    IN  /\ pc[t] = "woken"
        /\ \/ /\ ~must_wait(q)
              /\ release(q, NULL)
              /\ finish(t, woken_next(q))
           \/ /\ must_wait(q)
              /\ release(q, t)
              /\ wait(t, woken_next(q))
              /\ UNCHANGED console_lock
        /\ UNCHANGED byte

(***************************************************************************)
(* Interrupt handlers, and code that prints with interrupts off.           *)
(***************************************************************************)

\* Mutant: a key that does not fit is stored all the same.
KbdInterrupt_overrun(b) ==
    /\ store("buffer", b)
    /\ signal("buffer", pc)
    /\ UNCHANGED <<tail, last, lock_vars, console_lock, byte, panicked>>
    /\ write_ier

\* keyboard_interrupt(); a key that does not fit is dropped.
KbdInterrupt(b) ==
    /\ ~intq_full("buffer")
    /\ store("buffer", b)
    /\ signal("buffer", pc)
    /\ UNCHANGED <<tail, last, lock_vars, console_lock, byte, panicked>>
    /\ write_ier

\* serial_interrupt(), when it receives a byte and when it sends one.  With
\* the port's own FIFO disabled there is one of each at a time, and a byte
\* that comes or goes while the handler runs is the next interrupt.
SerialReceive(b) ==
    /\ ier.recv
    /\ ~intq_full("buffer")
    /\ store("buffer", b)
    /\ signal("buffer", pc)
    /\ UNCHANGED <<tail, last, lock_vars, console_lock, byte, panicked>>
    /\ write_ier

SerialTransmit ==
    /\ ier.xmit
    /\ ~intq_empty("txq")
    /\ take("txq")
    /\ signal("txq", pc)
    /\ UNCHANGED <<buf, head, lock_vars, console_lock, byte, panicked>>
    /\ write_ier

\* Mutant: the new byte is queued although the queue is full.
PutcIntrOff_overrun(b) ==
    /\ store("txq", b)
    /\ UNCHANGED <<tail, last, waiter, pc, lock_vars, console_lock, byte, panicked>>
    /\ write_ier

\* serial_putc() with interrupts off: when the queue is full its first byte is
\* sent by polling.
PutcIntrOff(b) ==
    /\ store("txq", b)
    /\ IF intq_full("txq") THEN take("txq") /\ signal("txq", pc)
                            ELSE UNCHANGED <<tail, last, waiter, pc>>
    /\ UNCHANGED <<lock_vars, console_lock, byte, panicked>>
    /\ write_ier

\* intq_init(), serial_init_queue()
Init ==
    /\ \E b \in Byte : /\ buf = [q \in Queue |-> [n \in Pos |-> b]]
                       /\ byte = [w \in Writer |-> b]
                       /\ last = [q \in Queue |-> b]
    /\ head = [q \in Queue |-> 0] /\ tail = [q \in Queue |-> 0]
    /\ waiter = [q \in Queue |-> NULL]
    /\ lock = [q \in Queue |-> NULL] /\ lock_waiters = [q \in Queue |-> <<>>]
    /\ console_lock = NULL
    /\ ier = [xmit |-> FALSE, recv |-> TRUE]
    /\ pc = [t \in Thread |-> "idle"]
    /\ panicked = FALSE

Interrupt == SerialTransmit \/ \E b \in Byte : KbdInterrupt(b) \/ SerialReceive(b)
Run(t)    == LockAcquire(t) \/ Woken(t)

\* A failed assertion leaves the machine in an endless loop.
Panic == panicked /\ UNCHANGED vars

Next ==
    \/ /\ ~panicked
       /\ \/ \E r \in Reader : InputGetc(r)
          \/ \E w \in Writer : SerialPutc(w) \/ \E b \in Byte : AcquireConsole(w, b)
          \/ \E t \in Thread : Run(t)
          \/ \E b \in Byte : PutcIntrOff(b)
          \/ Interrupt
    \/ Panic

Spec == Init /\ [][Next]_vars

\* The port sends what it is given, and threads that can run do.
FairSpec ==
    /\ Spec
    /\ WF_vars(~panicked /\ SerialTransmit)
    /\ \A t \in Thread : WF_vars(~panicked /\ Run(t))
    /\ \A w \in Writer : WF_vars(~panicked /\ SerialPutc(w))

-----------------------------------------------------------------------------
\* No wakeup is lost: a thread sleeps in wait() only while its condition does
\* not hold, and as the thread that the next signal() wakes.
SleepsForCause ==
    \A t \in Thread : pc[t] = "wait" =>
        waiter[queue(t)] = t /\ must_wait(queue(t)) /\ lock[queue(t)] = t

\* The port interrupts exactly when there is something to send, or room to
\* receive, so neither queue gets stuck.
IerTracksQueues ==
    ier = [xmit |-> ~intq_empty("txq"), recv |-> ~intq_full("buffer")]

\* The bytes of a queue, oldest first.
queued(q) ==
    LET n == (head[q] + INTQ_BUFSIZE - tail[q]) % INTQ_BUFSIZE
    IN  [k \in 1 .. n |-> buf[q][(tail[q] + k - 1) % INTQ_BUFSIZE]]

InputQueue == INSTANCE Fifo
    WITH Capacity <- INTQ_BUFSIZE - 1, items <- queued("buffer"), out <- last["buffer"]
OutputQueue == INSTANCE Fifo
    WITH Capacity <- INTQ_BUFSIZE - 1, items <- queued("txq"), out <- last["txq"]

\* Keys are read once and in the order they came, whoever reads them.
InputIsFifo == InputQueue!Spec

\* Bytes are sent once and in the order they were printed, whether by the
\* interrupt or by polling.
OutputIsFifo == OutputQueue!Spec

\* A thread that prints gets on, if from some time on nothing is printed with
\* interrupts off.
PrintEnds ==
    <>[][\A b \in Byte : ~PutcIntrOff(b)]_vars =>
        \A w \in Writer : console_lock = w ~> console_lock # w \/ panicked

(***************************************************************************)
(* The parts of the inductive invariant besides the ones above.            *)
(***************************************************************************)

\* A thread in wait(), or on its way out of it, has the queue's lock.
HasLock == \A t \in Thread : pc[t] \in {"wait", "woken"} => lock[queue(t)] = t

\* The thread that signal() unblocks is blocked, in wait() of this queue.
WaiterWaits == \A q \in Queue : waiter[q] # NULL =>
                   queue(waiter[q]) = q /\ pc[waiter[q]] = "wait"

\* The lock's list holds, once each, threads blocked in its lock_acquire().
LockWaitersSleep ==
    \A q \in Queue : \A m \in 1 .. Len(lock_waiters[q]) :
        /\ pc[lock_waiters[q][m]] = "lock_sleep"
        /\ queue(lock_waiters[q][m]) = q
        /\ \A n \in 1 .. Len(lock_waiters[q]) :
               lock_waiters[q][m] = lock_waiters[q][n] => m = n

\* "ASSERT ((waiter == &q->not_empty && intq_empty (q)) || ..." (wait)
NoPanic == ~panicked
=============================================================================
