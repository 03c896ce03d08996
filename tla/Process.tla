------------------------------ MODULE Process ------------------------------
(***************************************************************************)
(* Processes: process_execute(), start_process(), process_wait(),          *)
(* process_exit() (userprog/process.c), the array of children kept in      *)
(* struct thread (threads/thread.c) and the exceptions that kill a user    *)
(* process (userprog/exception.c).                                         *)
(*                                                                         *)
(* The scheduler is the round robin of thread.c: one running thread, a     *)
(* FIFO ready_list, preemption wherever interrupts are on.  A process that *)
(* waits for a disk or for the keyboard is blocked and on no ready list.   *)
(* How load() reads an executable is module Loader; here it opens the file *)
(* and then succeeds or fails.                                             *)
(***************************************************************************)
EXTENDS Integers, Sequences, FiniteSets

CONSTANTS
  Proc,       \* user processes, each created at most once; its name is its tid
  init,       \* the first one, which no process created
  NULL,
  CHILD_MAX,  \* length of thread->children (16)
  ExitStatus  \* the arguments of exit()

VARIABLES
  status,       \* thread->status; "none" before thread_create_with_parent()
  ready_list,
  pc,           \* where the process is in the functions modelled
  target,       \* the child the current exec or wait is about
  parent,       \* thread->parent
  retval,       \* thread->retval
  children,     \* thread->children: the whole array, stale slots included
  child_count,
  process_lock, \* its holder, or NULL
  lock_waiters, \* threads blocked on process_lock
  exec_file,    \* the struct file load() opened for the process
  halted        \* "no", "panic", or "stale_file" (a freed file was used)

vars == <<status, ready_list, pc, target, parent, retval, children,
          child_count, process_lock, lock_waiters, exec_file, halted>>
sched == <<status, ready_list>>
lock  == <<process_lock, lock_waiters>>
kin   == <<parent, retval, children, child_count>>

ASSUME ProcessAssumption ==
  /\ init \in Proc /\ NULL \notin Proc
  /\ CHILD_MAX \in Nat \ {0}
  /\ ExitStatus \subseteq Int

Marker == [tid : Proc \cup {NULL}, retval : ExitStatus \cup {-1, 0},
           load_result : {-1, 0, 1}, exec_lock : Proc \cup {NULL}]

TypeOK ==
  /\ status \in [Proc -> {"none", "ready", "running", "blocked", "dying"}]
  /\ ready_list \in Seq(Proc)
  /\ pc \in [Proc -> {"none", "start_acquire", "start_release", "load",
                      "load_read", "loaded", "load_failed", "user",
                      "exec_acquire", "create", "add_child", "spin",
                      "wait", "exit", "destroy", "dead"}]
  /\ target \in [Proc -> Proc \cup {NULL}]
  /\ parent \in [Proc -> Proc \cup {NULL}]
  /\ retval \in [Proc -> ExitStatus \cup {-1, 0}]
  /\ children \in [Proc -> [1..CHILD_MAX -> Marker]]
  /\ child_count \in [Proc -> 0..CHILD_MAX]
  /\ process_lock \in Proc \cup {NULL}
  /\ lock_waiters \in Seq(Proc)
  /\ exec_file \in [Proc -> {"none", "open", "closed"}]
  /\ halted \in {"no", "panic", "stale_file"}

NoMarker == [tid |-> NULL, retval |-> 0, load_result |-> 0, exec_lock |-> NULL]

Init ==
  /\ status = [p \in Proc |-> IF p = init THEN "running" ELSE "none"]
  /\ ready_list = <<>>
  /\ pc = [p \in Proc |-> IF p = init THEN "user" ELSE "none"]
  /\ target = [p \in Proc |-> NULL]
  /\ parent = [p \in Proc |-> NULL]
  /\ retval = [p \in Proc |-> 0]
  /\ children = [p \in Proc |-> [i \in 1..CHILD_MAX |-> NoMarker]]
  /\ child_count = [p \in Proc |-> 0]
  /\ process_lock = NULL
  /\ lock_waiters = <<>>
  /\ exec_file = [p \in Proc |-> "none"]
  /\ halted = "no"

-----------------------------------------------------------------------------
(* Scheduling.                                                             *)

Running(p) == halted = "no" /\ status[p] = "running"

\* schedule() from p, whose status becomes s, with ready list q.
Schedule(p, s, q) ==
  IF q = <<>> THEN /\ status' = [status EXCEPT ![p] = s]
                   /\ ready_list' = q
              ELSE /\ status' = [status EXCEPT ![p] = s, ![Head(q)] = "running"]
                   /\ ready_list' = Tail(q)

thread_yield(p) == Schedule(p, "ready", Append(ready_list, p))

thread_unblock(p) == /\ status' = [status EXCEPT ![p] = "ready"]
                     /\ ready_list' = Append(ready_list, p)

\* get_child() finds the child and returns with interrupts off, so process_wait
\* is never preempted once it is in its loop.
TimerYield(p) ==
  /\ Running(p) /\ pc[p] # "wait"
  /\ thread_yield(p)
  /\ UNCHANGED <<pc, target, kin, lock, exec_file, halted>>

\* The idle thread gives the CPU to the first ready thread.
Dispatch ==
  /\ halted = "no" /\ \A p \in Proc : status[p] # "running"
  /\ ready_list # <<>>
  /\ status' = [status EXCEPT ![Head(ready_list)] = "running"]
  /\ ready_list' = Tail(ready_list)
  /\ UNCHANGED <<pc, target, kin, lock, exec_file, halted>>

\* A system call, load() or the exit message waits for a device or a lock
\* other than process_lock.
BlockIO(p) ==
  /\ Running(p) /\ pc[p] \in {"user", "load", "load_read", "destroy"}
  /\ Schedule(p, "blocked", ready_list)
  /\ UNCHANGED <<pc, target, kin, lock, exec_file, halted>>

CompleteIO(p) ==
  /\ halted = "no" /\ status[p] = "blocked"
  /\ p \notin {lock_waiters[i] : i \in DOMAIN lock_waiters}
  /\ thread_unblock(p)
  /\ UNCHANGED <<pc, target, kin, lock, exec_file, halted>>

-----------------------------------------------------------------------------
(* process_lock.                                                           *)

\* lock_acquire() asserts that the caller does not hold the lock.
AcquireProcessLock(p) ==
  /\ Running(p) /\ pc[p] \in {"exec_acquire", "start_acquire"}
  /\ \/ /\ process_lock = p
        /\ halted' = "panic"
        /\ UNCHANGED <<sched, pc, lock>>
     \/ /\ process_lock = NULL
        /\ process_lock' = p
        /\ pc' = [pc EXCEPT ![p] = IF @ = "exec_acquire" THEN "create"
                                                        ELSE "start_release"]
        /\ UNCHANGED <<sched, lock_waiters, halted>>
     \/ /\ process_lock \notin {p, NULL}
        /\ lock_waiters' = Append(lock_waiters, p)
        /\ Schedule(p, "blocked", ready_list)
        /\ UNCHANGED <<process_lock, pc, halted>>
  /\ UNCHANGED <<target, kin, exec_file>>

lock_release ==
  /\ process_lock' = NULL
  /\ IF lock_waiters = <<>>
       THEN UNCHANGED <<sched, lock_waiters>>
       ELSE /\ thread_unblock(Head(lock_waiters))
            /\ lock_waiters' = Tail(lock_waiters)

-----------------------------------------------------------------------------
(* The array of children.                                                  *)

\* Mutant: the child is taken to be the one added last.
get_child_pointer_parent_last(p, c) == child_count[p]

\* The slot of child c in p's array, 0 for a null pointer.
get_child_pointer_parent(p, c) ==
  LET found == {i \in 1..child_count[p] : children[p][i].tid = c}
  IN  IF found = {} THEN 0 ELSE CHOOSE i \in found : \A j \in found : i <= j

\* The marker of the child that p executes or waits for.
ChildOf(p) == children[p][get_child_pointer_parent(p, target[p])]

\* Mutant: the index is counted up before and after the slot is filled.
add_child_twice(p, c) ==
  LET n == child_count[p] + 1
  IN  /\ child_count' = [child_count EXCEPT ![p] = n + 1]
      /\ children' = [children EXCEPT ![p][n] =
                        [@ EXCEPT !.tid = c, !.retval = 0, !.load_result = 0]]

\* Sets every member of the next slot but exec_lock.
add_child(p, c) ==
  LET n == child_count[p] + 1
  IN  /\ child_count' = [child_count EXCEPT ![p] = n]
      /\ children' = [children EXCEPT ![p][n] =
                        [@ EXCEPT !.tid = c, !.retval = 0, !.load_result = 0]]

\* Moves the children behind c down one slot; the last slot keeps what it held.
\* The code tests every slot for c, which is in at most one (OneSlot).
remove_child(p, c) ==
  LET k == get_child_pointer_parent(p, c)
  IN  IF k = 0 THEN UNCHANGED <<children, child_count>>
      ELSE /\ child_count' = [child_count EXCEPT ![p] = @ - 1]
           /\ children' = [children EXCEPT ![p] =
                [i \in 1..CHILD_MAX |-> IF k <= i /\ i < child_count[p]
                                          THEN @[i + 1] ELSE @[i]]]

\* Mutant: only the first child's slot is searched.
set_child_retval_first(p, c, v) ==
  children' = [children EXCEPT ![p][1].retval =
                 IF children[p][1].tid = c THEN v ELSE @]

set_child_retval(p, c, v) ==
  children' = [children EXCEPT ![p] =
    [i \in 1..CHILD_MAX |-> IF i <= child_count[p] /\ @[i].tid = c
                              THEN [@[i] EXCEPT !.retval = v] ELSE @[i]]]

-----------------------------------------------------------------------------
(* process_execute(), in the parent.                                       *)

\* With no page for the copy of the command line process_execute() returns at
\* once and changes nothing.  Bound of the model: a process has at most
\* CHILD_MAX children (the code does not check).
Exec(p, c) ==
  /\ Running(p) /\ pc[p] = "user"
  /\ status[c] = "none" /\ child_count[p] < CHILD_MAX
  /\ \A q \in Proc \ {p} : target[q] # c
  /\ pc' = [pc EXCEPT ![p] = "exec_acquire"]
  /\ target' = [target EXCEPT ![p] = c]
  /\ UNCHANGED <<sched, kin, lock, exec_file, halted>>

\* thread_create_with_parent() finds no page: process_execute() returns and
\* does not release process_lock.
CreateFails(p) ==
  /\ Running(p) /\ pc[p] = "create"
  /\ pc' = [pc EXCEPT ![p] = "user"]
  /\ target' = [target EXCEPT ![p] = NULL]
  /\ UNCHANGED <<sched, kin, lock, exec_file, halted>>

\* Mutant: the child does not wait for process_lock before it loads.
thread_create_with_parent_early(p) ==
  /\ Running(p) /\ pc[p] = "create"
  /\ LET c == target[p] IN
       /\ parent' = [parent EXCEPT ![c] = p]
       /\ pc' = [pc EXCEPT ![p] = "add_child", ![c] = "load"]
       /\ thread_unblock(c)
  /\ UNCHANGED <<target, retval, children, child_count, lock, exec_file, halted>>

thread_create_with_parent(p) ==
  /\ Running(p) /\ pc[p] = "create"
  /\ LET c == target[p] IN
       /\ parent' = [parent EXCEPT ![c] = p]
       /\ pc' = [pc EXCEPT ![p] = "add_child", ![c] = "start_acquire"]
       /\ thread_unblock(c)
  /\ UNCHANGED <<target, retval, children, child_count, lock, exec_file, halted>>

\* add_child(), the working directory, the pointer to the marker, lock_release():
\* nothing another process reads before the release.
AddChild(p) ==
  /\ Running(p) /\ pc[p] = "add_child"
  /\ add_child(p, target[p])
  /\ lock_release
  /\ pc' = [pc EXCEPT ![p] = "spin"]
  /\ UNCHANGED <<target, parent, retval, exec_file, halted>>

\* The loop on load_result and what follows it.
Spin(p) ==
  /\ Running(p) /\ pc[p] = "spin"
  /\ LET r == ChildOf(p).load_result
     IN \/ /\ r = 0
           /\ thread_yield(p)
           /\ UNCHANGED <<pc, target, children, child_count>>
        \/ /\ r # 0
           /\ pc' = [pc EXCEPT ![p] = "user"]
           /\ target' = [target EXCEPT ![p] = NULL]
           /\ IF r = 1 THEN UNCHANGED <<children, child_count>>
                       ELSE remove_child(p, target[p])
           /\ UNCHANGED sched
  /\ UNCHANGED <<parent, retval, lock, exec_file, halted>>

-----------------------------------------------------------------------------
(* start_process(), in the child.                                          *)

ReleaseStart(p) ==
  /\ Running(p) /\ pc[p] = "start_release"
  /\ lock_release
  /\ pc' = [pc EXCEPT ![p] = "load"]
  /\ UNCHANGED <<target, kin, exec_file, halted>>

\* load() up to file_deny_write(): no page directory or no such file, or the
\* file is open, denied to writers and recorded in the parent's marker.
LoadOpen(p) ==
  /\ Running(p) /\ pc[p] = "load"
  /\ \/ /\ pc' = [pc EXCEPT ![p] = "load_failed"]
        /\ UNCHANGED <<children, exec_file>>
     \/ LET i == get_child_pointer_parent(parent[p], p) IN
        /\ i # 0
        /\ exec_file' = [exec_file EXCEPT ![p] = "open"]
        /\ children' = [children EXCEPT ![parent[p]][i].exec_lock = p]
        /\ pc' = [pc EXCEPT ![p] = "load_read"]
  /\ UNCHANGED <<sched, target, parent, retval, child_count, lock, halted>>

\* The rest of load().
LoadRead(p) ==
  /\ Running(p) /\ pc[p] = "load_read"
  /\ \E r \in {"loaded", "load_failed"} : pc' = [pc EXCEPT ![p] = r]
  /\ UNCHANGED <<sched, target, kin, lock, exec_file, halted>>

\* file_allow_write() and file_close() of f by a caller that found it non-null.
CloseExec(f) ==
  IF f = NULL THEN UNCHANGED <<exec_file, halted>>
  ELSE IF exec_file[f] = "open"
         THEN exec_file' = [exec_file EXCEPT ![f] = "closed"] /\ UNCHANGED halted
         ELSE halted' = "stale_file" /\ UNCHANGED exec_file

\* Mutant: a failed load is not reported to the parent.
ReportLoad_silent(p) ==
  /\ Running(p) /\ pc[p] \in {"loaded", "load_failed"}
  /\ LET q == parent[p]
         i == get_child_pointer_parent(q, p)
     IN \/ /\ pc[p] = "loaded"
           /\ children' = [children EXCEPT ![q][i].load_result = 1]
           /\ pc' = [pc EXCEPT ![p] = "user"]
           /\ UNCHANGED <<retval, exec_file, halted>>
        \/ /\ pc[p] = "load_failed"
           /\ CloseExec(children[q][i].exec_lock)
           /\ children' = [children EXCEPT ![q][i].exec_lock = NULL]
           /\ retval' = [retval EXCEPT ![p] = -1]
           /\ pc' = [pc EXCEPT ![p] = "exit"]
  /\ UNCHANGED <<sched, target, parent, child_count, lock>>

ReportLoad(p) ==
  /\ Running(p) /\ pc[p] \in {"loaded", "load_failed"}
  /\ LET q == parent[p]
         i == get_child_pointer_parent(q, p)
     IN \/ /\ pc[p] = "loaded"
           /\ children' = [children EXCEPT ![q][i].load_result = 1]
           /\ pc' = [pc EXCEPT ![p] = "user"]
           /\ UNCHANGED <<retval, exec_file, halted>>
        \/ /\ pc[p] = "load_failed"
           /\ CloseExec(children[q][i].exec_lock)
           /\ children' = [children EXCEPT ![q][i] =
                [@ EXCEPT !.exec_lock = NULL, !.load_result = -1]]
           /\ retval' = [retval EXCEPT ![p] = -1]
           /\ pc' = [pc EXCEPT ![p] = "exit"]
  /\ UNCHANGED <<sched, target, parent, child_count, lock>>

-----------------------------------------------------------------------------
(* The end of a process.                                                   *)

sys_exit(p) ==
  /\ Running(p) /\ pc[p] = "user"
  /\ \E v \in ExitStatus : retval' = [retval EXCEPT ![p] = v]
  /\ pc' = [pc EXCEPT ![p] = "exit"]
  /\ UNCHANGED <<sched, target, parent, children, child_count, lock, exec_file, halted>>

\* kill(): thread_exit() with retval as it is.
kill(p) ==
  /\ Running(p) /\ pc[p] = "user"
  /\ pc' = [pc EXCEPT ![p] = "exit"]
  /\ UNCHANGED <<sched, target, kin, lock, exec_file, halted>>

\* page_fault() tests `user' before it assigns it: either branch may be taken.
page_fault(p) ==
  \/ kill(p)
  \/ /\ Running(p) /\ pc[p] = "user"
     /\ retval' = [retval EXCEPT ![p] = -1]
     /\ pc' = [pc EXCEPT ![p] = "exit"]
     /\ UNCHANGED <<sched, target, parent, children, child_count, lock,
                    exec_file, halted>>

\* process_exit() passes get_thread_by_tid(parent) to set_child_retval() without
\* a test: a process whose parent is gone reads through a null pointer.
process_exit(p) ==
  /\ Running(p) /\ pc[p] = "exit"
  /\ IF parent[p] = NULL \/ status[parent[p]] = "dying"
       THEN halted' = "panic" /\ UNCHANGED <<pc, children>>
       ELSE /\ set_child_retval(parent[p], p, retval[p])
            /\ pc' = [pc EXCEPT ![p] = "destroy"]
            /\ UNCHANGED halted
  /\ UNCHANGED <<sched, target, parent, retval, child_count, lock, exec_file>>

thread_exit(p) ==
  /\ Running(p) /\ pc[p] = "destroy"
  /\ pc' = [pc EXCEPT ![p] = "dead"]
  /\ Schedule(p, "dying", ready_list)
  /\ UNCHANGED <<target, kin, lock, exec_file, halted>>

-----------------------------------------------------------------------------
(* process_wait().                                                         *)

WaitStart(p, c) ==
  /\ Running(p) /\ pc[p] = "user"
  /\ IF get_child_pointer_parent(p, c) = 0
       THEN UNCHANGED <<pc, target>>
       ELSE /\ pc' = [pc EXCEPT ![p] = "wait"]
            /\ target' = [target EXCEPT ![p] = c]
  /\ UNCHANGED <<sched, kin, lock, exec_file, halted>>

on_ready_list(c) == c \in {ready_list[i] : i \in DOMAIN ready_list}

WaitStep(p) ==
  /\ Running(p) /\ pc[p] = "wait"
  /\ \/ /\ on_ready_list(target[p])
        /\ thread_yield(p)
        /\ UNCHANGED <<pc, target, children, child_count, exec_file, halted>>
     \/ /\ ~ on_ready_list(target[p])
        /\ CloseExec(ChildOf(p).exec_lock)
        /\ remove_child(p, target[p])
        /\ pc' = [pc EXCEPT ![p] = "user"]
        /\ target' = [target EXCEPT ![p] = NULL]
        /\ UNCHANGED sched
  /\ UNCHANGED <<parent, retval, lock>>

-----------------------------------------------------------------------------
Kernel(p) ==
  \/ AcquireProcessLock(p) \/ CreateFails(p) \/ thread_create_with_parent(p)
  \/ AddChild(p) \/ Spin(p) \/ ReleaseStart(p) \/ LoadOpen(p) \/ LoadRead(p)
  \/ ReportLoad(p) \/ process_exit(p) \/ thread_exit(p) \/ WaitStep(p)

User(p) ==
  \/ sys_exit(p) \/ kill(p) \/ page_fault(p)
  \/ \E c \in Proc : Exec(p, c) \/ WaitStart(p, c)

Next ==
  \/ Dispatch
  \/ \E p \in Proc : Kernel(p) \/ User(p) \/ TimerYield(p) \/ BlockIO(p)
                     \/ CompleteIO(p)

Spec == Init /\ [][Next]_vars

\* The timer runs, devices answer, and a thread that gets the CPU again and
\* again makes progress in the kernel between two ticks.
FairSpec ==
  /\ Spec
  /\ WF_vars(Dispatch)
  /\ \A p \in Proc : /\ SF_vars(Kernel(p))
                     /\ WF_vars(TimerYield(p))
                     /\ WF_vars(CompleteIO(p))

-----------------------------------------------------------------------------
(* Properties.                                                             *)

\* A child that is loading finds its marker in its parent's array: the parent
\* has run add_child() and has neither removed the child nor died
\* (get_child_pointer_parent() in load() and start_process() is dereferenced
\* without a test).
MarkerPresent ==
  \A p \in Proc : pc[p] \in {"load", "load_read", "loaded", "load_failed"} =>
    /\ status[parent[p]] # "dying"
    /\ get_child_pointer_parent(parent[p], p) # 0

\* No child is in two slots of its parent's array: remove_child() would drop
\* both, get_child_pointer_parent() always finds the first.
OneSlot ==
  \A p \in Proc : \A i, j \in 1..child_count[p] :
    children[p][i].tid = children[p][j].tid => i = j

\* A running executable is closed, and reopened to writers, only by its parent's
\* wait for it, by the failure of its own load, or (add_child() leaves the
\* exec_lock of the slot's former child) by a sibling whose load fails before
\* it has opened a file of its own.
DeniedUntilWaited ==
  [][\A c \in Proc : exec_file[c] = "open" /\ exec_file'[c] # "open" =>
       \/ pc[c] = "load_failed"
       \/ pc[parent[c]] = "wait" /\ target[parent[c]] = c
       \/ \E p \in Proc : /\ pc[p] = "load_failed" /\ exec_file[p] = "none"
                          /\ parent[p] = parent[c]]_vars

\* exec returns a tid (load_result 1) only for a child whose load succeeded, and
\* a wait for a child that is dead returns the status the child died with.
AnswersTrue ==
  [][\A p \in Proc : LET c == target[p] IN
       /\ pc[p] = "spin" /\ pc'[p] = "user" =>
            (ChildOf(p).load_result = 1 <=> exec_file[c] = "open")
       /\ pc[p] = "wait" /\ pc'[p] = "user" /\ status[c] = "dying" =>
            ChildOf(p).retval = retval[c]]_vars

\* While a child that loaded is in its parent's array its executable is open.
\* It is violated (ProcessDenied.cfg): the sibling of DeniedUntilWaited.
OpenUntilWaited ==
  \A p \in Proc : \A i \in 1..child_count[p] :
    LET m == children[p][i] IN
    m.load_result = 1 => m.exec_lock = m.tid /\ exec_file[m.tid] = "open"

\* process_wait() "waits for thread TID to die": it returns a child's status
\* only when the child is dead.
WaitMeansDead ==
  [][\A p \in Proc : pc[p] = "wait" /\ pc'[p] = "user" =>
       status[target[p]] = "dying"]_vars

\* No file is allowed writers or closed after it was closed: file_allow_write()
\* asserts a file, inode_allow_write() a positive deny_write_cnt.
NoStaleFile == halted # "stale_file"

\* process_lock is free or held inside process_execute() or start_process(),
\* unless a thread could not be created.
LeakedLock == process_lock # NULL /\ pc[process_lock] \notin
                {"create", "add_child", "start_release"}

\* exec returns: its parent leaves the loop on load_result, unless the machine
\* stops or process_lock is never released again.
ExecReturns ==
  \A p \in Proc : pc[p] = "spin" ~>
    (pc[p] # "spin" \/ halted # "no" \/ LeakedLock)
=============================================================================
