--------------------------- MODULE ProcessProofs ---------------------------
(***************************************************************************)
(* Proofs about module Process: a loading child always finds its marker,   *)
(* exec and wait answer with the truth, and who may close an executable.   *)
(*                                                                         *)
(* The argument follows a child through process_execute().  Its parent     *)
(* holds process_lock from before the child exists until its marker is in  *)
(* the array, the child takes process_lock before it loads, and the parent *)
(* then stays in its loop on load_result until the child has reported.  So *)
(* a parent has one loading child at most, the marker cannot move under    *)
(* it, and every other marker of the array is of a child that loaded.      *)
(***************************************************************************)
EXTENDS Process, TLAPS

Starting == {"start_acquire", "start_release"}
Loading  == {"load", "load_read", "loaded", "load_failed"}

\* The queues of the scheduler hold threads in the state their names say, once.
SchedInv ==
  /\ \A i \in 1..Len(ready_list) : status[ready_list[i]] = "ready"
  /\ \A i, j \in 1..Len(ready_list) : ready_list[i] = ready_list[j] => i = j
  /\ \A i \in 1..Len(lock_waiters) : status[lock_waiters[i]] = "blocked"
  /\ \A i, j \in 1..Len(lock_waiters) : lock_waiters[i] = lock_waiters[j] => i = j

\* Before it is created a process has no code to run, after thread_exit() no more.
LifeInv ==
  \A p \in Proc : /\ status[p] = "none" <=> pc[p] = "none"
                  /\ status[p] = "dying" <=> pc[p] = "dead"
                  /\ status[p] = "none" => parent[p] = NULL

\* process_lock is held between its acquisition and its release.
HeldInv ==
  \A p \in Proc : pc[p] \in {"create", "add_child", "start_release"} =>
                    process_lock = p

\* The child that an exec or a wait is about is the caller's own.
TargetInv ==
  \A p \in Proc :
    /\ pc[p] \in {"exec_acquire", "create"} =>
         /\ target[p] \in Proc /\ status[target[p]] = "none"
         /\ \A q \in Proc : target[q] = target[p] => q = p
    /\ pc[p] \in {"add_child", "spin", "wait"} =>
         target[p] \in Proc /\ parent[target[p]] = p
    /\ pc[p] = "add_child" => pc[target[p]] = "start_acquire"
    /\ pc[p] \in {"exec_acquire", "create", "add_child"} =>
         child_count[p] < CHILD_MAX
    /\ pc[p] \in {"spin", "wait"} =>
         \E i \in 1..child_count[p] : children[p][i].tid = target[p]

\* The array of children holds children, each once.
KinInv ==
  /\ \A p \in Proc : \A i \in 1..child_count[p] :
       /\ children[p][i].tid \in Proc
       /\ parent[children[p][i].tid] = p
       /\ pc[p] = "add_child" => children[p][i].tid # target[p]
  /\ OneSlot

\* A child that starts or loads is the target of a parent inside exec, which has
\* run add_child() once the child has had process_lock.
LoadInv ==
  \A c \in Proc : pc[c] \in Starting \cup Loading =>
    /\ parent[c] \in Proc /\ target[parent[c]] = c
    /\ pc[parent[c]] \in {"add_child", "spin"}
    /\ pc[c] # "start_acquire" => pc[parent[c]] = "spin"

\* What a marker says of the load of its child.
ReportAt(p, i) ==
  LET m == children[p][i] IN
  /\ m.load_result # 1 => m.tid = target[p] /\ pc[p] = "spin"
  /\ m.load_result = 0 <=> pc[m.tid] \in Starting \cup Loading
  /\ m.load_result = 1 => exec_file[m.tid] # "none"
  /\ m.load_result = -1 => exec_file[m.tid] # "open"
  /\ m.load_result = 1 /\ m.tid = target[p] /\ pc[p] = "spin" =>
       exec_file[m.tid] = "open"
  /\ exec_file[m.tid] # "none" /\ m.load_result # -1 => m.exec_lock = m.tid
  /\ pc[m.tid] \in {"destroy", "dead"} => m.retval = retval[m.tid]

ReportInv == \A p \in Proc : \A i \in 1..child_count[p] : ReportAt(p, i)

\* Which executables are open, and whose they are.
FileInv ==
  /\ \A p \in Proc : \A i \in 1..CHILD_MAX :
       LET f == children[p][i].exec_lock IN f # NULL => parent[f] = p
  /\ \A c \in Proc : /\ pc[c] \in {"none", "start_acquire", "start_release", "load"} =>
                          exec_file[c] = "none"
                     /\ pc[c] \in {"load_read", "loaded"} => exec_file[c] = "open"
                     /\ pc[c] = "load_failed" => exec_file[c] # "closed"

IInv == /\ TypeOK /\ SchedInv /\ LifeInv /\ HeldInv /\ TargetInv /\ KinInv
        /\ LoadInv /\ ReportInv /\ FileInv

-----------------------------------------------------------------------------
(***************************************************************************)
(* Scheduling.                                                             *)
(***************************************************************************)

States == {"none", "ready", "running", "blocked", "dying"}

\* A step moves threads between the live states only.
SameLife ==
  \A p \in Proc : /\ status'[p] = "none" <=> status[p] = "none"
                  /\ status'[p] = "dying" <=> status[p] = "dying"

\* A list of threads in state s, each once.
Listed(q, st, s) ==
  /\ q \in Seq(Proc)
  /\ \A i \in 1..Len(q) : st[q[i]] = s
  /\ \A i, j \in 1..Len(q) : q[i] = q[j] => i = j

\* What the scheduler may assume of its lists.
SchedType == /\ status \in [Proc -> States]
             /\ Listed(ready_list, status, "ready")
             /\ Listed(lock_waiters, status, "blocked")

LEMMA AppendListed ==
    ASSUME NEW q, NEW st, NEW s, NEW p \in Proc, Listed(q, st, s),
           st[p] # s, st \in [Proc -> States], s \in States
    PROVE  Listed(Append(q, p), [st EXCEPT ![p] = s], s)
  BY DEF Listed

LEMMA TailListed ==
    ASSUME NEW q, NEW st, NEW s, NEW t \in States, Listed(q, st, s), q # <<>>,
           st \in [Proc -> States], s # t
    PROVE  /\ Head(q) \in Proc /\ st[Head(q)] = s
           /\ Listed(Tail(q), [st EXCEPT ![Head(q)] = t], s)
<1>1. Head(q) = q[1] /\ 1 \in 1..Len(q) /\ Len(q) \in Nat
  BY DEF Listed
<1>2. Tail(q) \in Seq(Proc) /\ Len(Tail(q)) = Len(q) - 1
  BY DEF Listed
<1>3. \A i \in 1..Len(Tail(q)) : Tail(q)[i] = q[i + 1] /\ i + 1 \in 1..Len(q)
  BY <1>1, <1>2 DEF Listed
<1>4. \A i \in 1..Len(Tail(q)) : Tail(q)[i] # Head(q) /\ Tail(q)[i] \in Proc
  BY <1>1, <1>2, <1>3 DEF Listed
<1>5. \A i, j \in 1..Len(Tail(q)) : Tail(q)[i] = Tail(q)[j] => i = j
  BY <1>1, <1>3 DEF Listed
<1>6. QED
  BY <1>1, <1>2, <1>3, <1>4, <1>5 DEF Listed

\* A list whose threads' state is left alone stays what it is.
LEMMA StillListed ==
    ASSUME NEW q, NEW st \in [Proc -> States], NEW s, NEW p \in Proc,
           NEW t \in States, Listed(q, st, s), st[p] # s
    PROVE  Listed(q, [st EXCEPT ![p] = t], s)
  BY DEF Listed

\* schedule(): the caller leaves the CPU, the first ready thread gets it.
LEMMA ScheduleKeeps ==
    ASSUME SchedType, NEW p \in Proc, status[p] = "running",
           NEW s \in {"ready", "blocked", "dying"}, NEW q,
           q = IF s = "ready" THEN Append(ready_list, p) ELSE ready_list,
           Schedule(p, s, q)
    PROVE  /\ status' \in [Proc -> States]
           /\ Listed(ready_list', status', "ready")
           /\ Listed(lock_waiters, status', "blocked")
           /\ s # "ready" => status'[p] = s
           /\ \A x \in Proc \ {p} : /\ status'[x] = "none" <=> status[x] = "none"
                                    /\ status'[x] = "dying" <=> status[x] = "dying"
           /\ status'[p] # "none"
           /\ status'[p] = "dying" <=> s = "dying"
<1> DEFINE st == [status EXCEPT ![p] = s]
<1>1. st \in [Proc -> States] /\ s \in States
  BY DEF SchedType, States
<1>2. Listed(q, st, "ready") /\ Listed(lock_waiters, st, "blocked")
  <2>1. Listed(lock_waiters, st, "blocked")
    BY StillListed DEF SchedType, States
  <2>2. CASE s = "ready"
    BY <2>1, <2>2, AppendListed DEF SchedType, States
  <2>3. CASE s # "ready"
    BY <2>1, <2>3, StillListed DEF SchedType, States
  <2>4. QED
    BY <2>2, <2>3, <2>1
<1>3. CASE q = <<>>
  BY <1>1, <1>2, <1>3 DEF Schedule, SchedType, States
<1>4. CASE q # <<>>
  <2> DEFINE h == Head(q)
             su == [st EXCEPT ![h] = "running"]
  <2>1. h \in Proc /\ st[h] = "ready" /\ Listed(Tail(q), su, "ready")
    BY <1>1, <1>2, <1>4, TailListed DEF States
  <2>2. Listed(lock_waiters, su, "blocked")
    BY <1>1, <1>2, <2>1, StillListed DEF States
  <2>3. status' = su /\ ready_list' = Tail(q)
    BY <1>4, <2>1, <1>1 DEF Schedule, SchedType
  <2>4. su \in [Proc -> States]
    BY <1>1 DEF States
  <2>5. /\ s # "ready" => su[p] = s
        /\ \A x \in Proc \ {p} : /\ su[x] = "none" <=> status[x] = "none"
                                 /\ su[x] = "dying" <=> status[x] = "dying"
        /\ su[p] # "none" /\ (su[p] = "dying" <=> s = "dying")
    BY <1>1, <2>1 DEF SchedType, States
  <2>6. QED
    BY <2>1, <2>2, <2>3, <2>4, <2>5
<1>5. QED
  BY <1>3, <1>4

\* thread_unblock() of a thread that is on no list.
LEMMA UnblockKeeps ==
    ASSUME SchedType, NEW p \in Proc, status[p] # "ready",
           \A i \in 1..Len(lock_waiters) : lock_waiters[i] # p,
           thread_unblock(p)
    PROVE  /\ status' \in [Proc -> States]
           /\ Listed(ready_list', status', "ready")
           /\ Listed(lock_waiters, status', "blocked")
           /\ status' = [status EXCEPT ![p] = "ready"]
<1>1. Listed(lock_waiters, [status EXCEPT ![p] = "ready"], "blocked")
  BY DEF Listed, SchedType, States
<1>2. Listed(Append(ready_list, p), [status EXCEPT ![p] = "ready"], "ready")
  BY AppendListed DEF SchedType, States
<1>3. QED
  BY <1>1, <1>2 DEF thread_unblock, SchedType, States

\* lock_release() wakes the first waiter, if there is one.
LEMMA ReleaseKeeps ==
    ASSUME SchedType, lock_release
    PROVE  /\ status' \in [Proc -> States]
           /\ Listed(ready_list', status', "ready")
           /\ Listed(lock_waiters', status', "blocked")
           /\ SameLife /\ process_lock' = NULL
<1>1. CASE lock_waiters = <<>>
  BY <1>1 DEF lock_release, sched, SchedType, SameLife
<1>2. CASE lock_waiters # <<>>
  <2> DEFINE h == Head(lock_waiters)
             st == [status EXCEPT ![h] = "ready"]
  <2>1. /\ h \in Proc /\ status[h] = "blocked"
        /\ Listed(Tail(lock_waiters), st, "blocked")
    BY <1>2, TailListed DEF SchedType, States
  <2>2. Listed(Append(ready_list, h), st, "ready")
    BY <2>1, AppendListed DEF SchedType, States
  <2>3. /\ status' = st /\ ready_list' = Append(ready_list, h)
        /\ lock_waiters' = Tail(lock_waiters) /\ process_lock' = NULL
    BY <1>2 DEF lock_release, thread_unblock
  <2>4. st \in [Proc -> States] /\ \A p \in Proc : /\ st[p] = "none" <=> status[p] = "none"
                                                   /\ st[p] = "dying" <=> status[p] = "dying"
    BY <2>1 DEF SchedType, States
  <2>5. QED
    BY <2>1, <2>2, <2>3, <2>4 DEF SameLife
<1>3. QED
  BY <1>1, <1>2

-----------------------------------------------------------------------------
(***************************************************************************)
(* Every step keeps the invariant.                                         *)
(***************************************************************************)

\* The invariant holds the scheduler's lists together.
LEMMA SchedTypeHolds ==
    ASSUME TypeOK, SchedInv
    PROVE  SchedType
  BY DEF TypeOK, SchedInv, SchedType, Listed, States

\* A step that only schedules keeps the rest.
LEMMA SchedStep ==
    ASSUME IInv, status' \in [Proc -> States],
           Listed(ready_list', status', "ready"),
           Listed(lock_waiters', status', "blocked"), SameLife,
           UNCHANGED <<pc, target, kin, process_lock, exec_file, halted>>
    PROVE  IInv'
<1> USE DEF IInv, kin
<1>1. TypeOK'
  BY DEF TypeOK, Listed, States
<1>2. SchedInv'
  BY DEF SchedInv, Listed
<1>3. LifeInv'
  BY DEF LifeInv, SameLife
<1>4. HeldInv'
  BY DEF HeldInv
<1>5. TargetInv'
  BY DEF TargetInv, SameLife
<1>6. KinInv'
  BY DEF KinInv, OneSlot
<1>7. LoadInv'
  BY DEF LoadInv
<1>8. ReportInv'
  BY DEF ReportInv, ReportAt
<1>9. FileInv'
  BY DEF FileInv
<1>10. QED
  BY <1>1, <1>2, <1>3, <1>4, <1>5, <1>6, <1>7, <1>8, <1>9

LEMMA YieldStep ==
    ASSUME IInv, NEW p \in Proc, status[p] = "running", thread_yield(p),
           UNCHANGED <<pc, target, kin, lock, exec_file, halted>>
    PROVE  IInv'
<1>1. SchedType
  BY SchedTypeHolds DEF IInv
<1>2. /\ status' \in [Proc -> States]
      /\ Listed(ready_list', status', "ready")
      /\ Listed(lock_waiters, status', "blocked")
      /\ \A x \in Proc \ {p} : /\ status'[x] = "none" <=> status[x] = "none"
                               /\ status'[x] = "dying" <=> status[x] = "dying"
      /\ status'[p] # "none" /\ status'[p] # "dying"
  BY <1>1, ScheduleKeeps DEF thread_yield
<1>3. SameLife
  BY <1>2 DEF SameLife
<1>4. QED
  BY <1>2, <1>3, SchedStep DEF lock

LEMMA DispatchStep ==
    ASSUME IInv, Dispatch
    PROVE  IInv'
<1>1. SchedType
  BY SchedTypeHolds DEF IInv
<1> DEFINE h == Head(ready_list)
           st == [status EXCEPT ![h] = "running"]
<1>2. /\ h \in Proc /\ status[h] = "ready" /\ Listed(Tail(ready_list), st, "ready")
  BY <1>1, TailListed DEF Dispatch, SchedType, States
<1>3. Listed(lock_waiters, st, "blocked") /\ st \in [Proc -> States]
  BY <1>1, <1>2, StillListed DEF SchedType, States
<1>4. status' = st /\ ready_list' = Tail(ready_list)
  BY DEF Dispatch
<1>5. SameLife
  BY <1>1, <1>2, <1>4 DEF SameLife, SchedType, States
<1>6. UNCHANGED <<pc, target, kin, lock, exec_file, halted>>
  BY DEF Dispatch
<1>7. QED
  BY <1>2, <1>3, <1>4, <1>5, <1>6, SchedStep DEF lock

LEMMA BlockStep ==
    ASSUME IInv, NEW p \in Proc, BlockIO(p)
    PROVE  IInv'
<1>1. SchedType /\ status[p] = "running"
  BY SchedTypeHolds DEF IInv, BlockIO, Running
<1>2. /\ status' \in [Proc -> States]
      /\ Listed(ready_list', status', "ready")
      /\ Listed(lock_waiters, status', "blocked")
      /\ \A x \in Proc \ {p} : /\ status'[x] = "none" <=> status[x] = "none"
                               /\ status'[x] = "dying" <=> status[x] = "dying"
      /\ status'[p] # "none" /\ status'[p] # "dying"
  BY <1>1, ScheduleKeeps DEF BlockIO
<1>3. SameLife
  BY <1>1, <1>2 DEF SameLife
<1>4. QED
  BY <1>2, <1>3, SchedStep DEF BlockIO, lock

LEMMA CompleteStep ==
    ASSUME IInv, NEW p \in Proc, CompleteIO(p)
    PROVE  IInv'
<1>1. SchedType /\ status[p] = "blocked"
  BY SchedTypeHolds DEF IInv, CompleteIO
<1>2. \A i \in 1..Len(lock_waiters) : lock_waiters[i] # p
  BY <1>1 DEF CompleteIO, SchedType, Listed
<1>3. /\ status' \in [Proc -> States]
      /\ Listed(ready_list', status', "ready")
      /\ Listed(lock_waiters, status', "blocked")
      /\ status' = [status EXCEPT ![p] = "ready"]
  BY <1>1, <1>2, UnblockKeeps DEF CompleteIO
<1>4. SameLife
  BY <1>1, <1>3 DEF SameLife, SchedType
<1>5. QED
  BY <1>3, <1>4, SchedStep DEF CompleteIO, lock

\* A step of a user program that ends it, or of an exec or a wait that starts.
LEMMA EndStep ==
    ASSUME IInv, NEW p \in Proc, sys_exit(p) \/ page_fault(p) \/ kill(p)
    PROVE  IInv'
<1>1. /\ status[p] = "running" /\ pc[p] = "user"
      /\ pc' = [pc EXCEPT ![p] = "exit"]
      /\ UNCHANGED <<sched, target, parent, children, child_count, lock,
                     exec_file, halted>>
      /\ \E v \in ExitStatus \cup {-1, 0} : retval' = [retval EXCEPT ![p] = v]
  BY DEF sys_exit, page_fault, kill, Running, kin, IInv, TypeOK
<1> USE DEF IInv, sched, lock
<1>2. TypeOK'
  BY <1>1 DEF TypeOK
<1>3. SchedInv'
  BY <1>1 DEF SchedInv
<1>4. LifeInv' /\ HeldInv'
  BY <1>1 DEF LifeInv, HeldInv, TypeOK
<1>5. TargetInv'
  BY <1>1 DEF TargetInv, TypeOK
<1>6. KinInv'
  BY <1>1 DEF KinInv, OneSlot, TypeOK
<1>7. LoadInv'
  BY <1>1 DEF LoadInv, Starting, Loading, TypeOK
<1>8. ReportInv'
  BY <1>1 DEF ReportInv, ReportAt, KinInv, Starting, Loading, TypeOK
<1>9. FileInv'
  BY <1>1 DEF FileInv, TypeOK
<1>10. QED
  BY <1>2, <1>3, <1>4, <1>5, <1>6, <1>7, <1>8, <1>9

LEMMA ExecStep ==
    ASSUME IInv, NEW p \in Proc, NEW c \in Proc, Exec(p, c)
    PROVE  IInv'
<1>1. /\ status[p] = "running" /\ pc[p] = "user" /\ status[c] = "none"
      /\ child_count[p] < CHILD_MAX /\ \A q \in Proc \ {p} : target[q] # c
      /\ pc' = [pc EXCEPT ![p] = "exec_acquire"]
      /\ target' = [target EXCEPT ![p] = c]
      /\ UNCHANGED <<sched, kin, lock, exec_file, halted>>
  BY DEF Exec, Running
<1> USE DEF IInv, sched, lock, kin
<1>2. TypeOK'
  BY <1>1 DEF TypeOK
<1>3. SchedInv'
  BY <1>1 DEF SchedInv
<1>4. LifeInv' /\ HeldInv'
  BY <1>1 DEF LifeInv, HeldInv, TypeOK
<1>5. TargetInv'
  BY <1>1 DEF TargetInv, TypeOK
<1>6. KinInv'
  BY <1>1 DEF KinInv, OneSlot, TypeOK
<1>7. LoadInv'
  BY <1>1 DEF LoadInv, Starting, Loading, TypeOK
<1>8. ReportInv'
  BY <1>1 DEF ReportInv, ReportAt, KinInv, Starting, Loading, TypeOK
<1>9. FileInv'
  BY <1>1 DEF FileInv, TypeOK
<1>10. QED
  BY <1>2, <1>3, <1>4, <1>5, <1>6, <1>7, <1>8, <1>9


-----------------------------------------------------------------------------
(***************************************************************************)
(* The array of children.                                                  *)
(***************************************************************************)

\* get_child_pointer_parent() finds the child where it is, or nowhere.
LEMMA SlotOf ==
    ASSUME TypeOK, KinInv, NEW p \in Proc, NEW c
    PROVE  LET k == get_child_pointer_parent(p, c)
           IN  /\ k # 0 => k \in 1..child_count[p] /\ children[p][k].tid = c
               /\ \A i \in 1..child_count[p] : children[p][i].tid = c => k = i
<1> DEFINE found == {i \in 1..child_count[p] : children[p][i].tid = c}
<1>1. CASE found = {}
  BY <1>1 DEF get_child_pointer_parent
<1>2. CASE found # {}
  <2>1. PICK i \in 1..child_count[p] : children[p][i].tid = c
    BY <1>2
  <2>2. found = {i}
    BY <2>1 DEF KinInv, OneSlot
  <2>3. get_child_pointer_parent(p, c) = CHOOSE k \in found : \A j \in found : k <= j
    BY <1>2 DEF get_child_pointer_parent
  <2>4. i <= i /\ i # 0
    BY <2>1 DEF TypeOK
  <2>5. get_child_pointer_parent(p, c) = i
    BY <2>2, <2>3, <2>4
  <2>6. QED
    BY <2>1, <2>2, <2>5
<1>3. QED
  BY <1>1, <1>2

\* remove_child() leaves the other children, and nothing that was not there.
LEMMA Removed ==
    ASSUME TypeOK, KinInv, NEW p \in Proc, NEW c, NEW k \in 1..child_count[p],
           children[p][k].tid = c, remove_child(p, c)
    PROVE  /\ children' \in [Proc -> [1..CHILD_MAX -> Marker]]
           /\ child_count' = [child_count EXCEPT ![p] = @ - 1]
           /\ child_count' \in [Proc -> 0..CHILD_MAX]
           /\ \A q \in Proc \ {p} : children'[q] = children[q]
           /\ \A i \in 1..child_count'[p] :
                \E j \in 1..child_count[p] \ {k} : children'[p][i] = children[p][j]
           /\ \A i, j \in 1..child_count'[p] :
                children'[p][i].tid = children'[p][j].tid => i = j
           /\ \A i \in 1..CHILD_MAX : \E j \in 1..CHILD_MAX :
                children'[p][i] = children[p][j]
<1> DEFINE n == child_count[p]
           src(i) == IF k <= i /\ i < n THEN i + 1 ELSE i
<1>1. get_child_pointer_parent(p, c) = k /\ k # 0
  BY SlotOf DEF TypeOK
<1>2. /\ child_count' = [child_count EXCEPT ![p] = @ - 1]
      /\ children' = [children EXCEPT ![p] =
           [i \in 1..CHILD_MAX |-> IF k <= i /\ i < n
                                     THEN children[p][i + 1] ELSE children[p][i]]]
  BY <1>1 DEF remove_child, TypeOK
<1>3. n \in 1..CHILD_MAX /\ CHILD_MAX \in Nat /\ child_count'[p] = n - 1
      /\ child_count' \in [Proc -> 0..CHILD_MAX]
  BY <1>2, ProcessAssumption DEF TypeOK
<1>4. \A i \in 1..CHILD_MAX : /\ src(i) \in 1..CHILD_MAX
                              /\ children'[p][i] = children[p][src(i)]
  BY <1>2, <1>3 DEF TypeOK
<1>5. \A i \in 1..n - 1 : src(i) \in 1..n /\ src(i) # k
  BY <1>3
<1>6. \A i, j \in 1..n - 1 : src(i) = src(j) => i = j
  BY <1>3
<1>7. \A q \in Proc \ {p} : children'[q] = children[q]
  BY <1>2 DEF TypeOK
<1>8. children' \in [Proc -> [1..CHILD_MAX -> Marker]]
  <2>1. [i \in 1..CHILD_MAX |-> IF k <= i /\ i < n
           THEN children[p][i + 1] ELSE children[p][i]] \in [1..CHILD_MAX -> Marker]
    <3>1. \A i \in 1..CHILD_MAX : children[p][i] \in Marker
      BY DEF TypeOK
    <3>2. \A i \in 1..CHILD_MAX : i < n => i + 1 \in 1..CHILD_MAX
      BY <1>3
    <3>3. QED
      BY <3>1, <3>2
  <2>2. QED
    BY <1>2, <2>1 DEF TypeOK
<1>9. \A i, j \in 1..n - 1 : children'[p][i].tid = children'[p][j].tid => i = j
  <2>1. \A i \in 1..n - 1 : i \in 1..CHILD_MAX
    BY <1>3
  <2>2. \A i, j \in 1..n : children[p][i].tid = children[p][j].tid => i = j
    BY DEF KinInv, OneSlot
  <2>3. QED
    BY <1>4, <1>5, <1>6, <2>1, <2>2
<1>10. \A i \in 1..n - 1 :
         \E j \in 1..n \ {k} : children'[p][i] = children[p][j]
  <2>1. \A i \in 1..n - 1 : i \in 1..CHILD_MAX
    BY <1>3
  <2>2. QED
    BY <1>4, <1>5, <2>1
<1>11. QED
  BY <1>2, <1>3, <1>4, <1>7, <1>8, <1>9, <1>10

LEMMA WaitStartStep ==
    ASSUME IInv, NEW p \in Proc, NEW c \in Proc, WaitStart(p, c)
    PROVE  IInv'
<1> DEFINE k == get_child_pointer_parent(p, c)
<1>0. CASE k = 0
  <2>1. /\ UNCHANGED <<status, ready_list, lock_waiters, process_lock>>
        /\ UNCHANGED <<pc, target, kin, exec_file, halted>>
    BY <1>0 DEF WaitStart, sched, lock
  <2>2. SchedType /\ SameLife
    BY <2>1, SchedTypeHolds DEF IInv, SameLife
  <2>3. QED
    BY <2>1, <2>2, SchedStep DEF SchedType
<1>a. CASE k # 0
  <2>0. /\ k \in 1..child_count[p] /\ children[p][k].tid = c
        /\ parent[c] = p
    BY <1>a, SlotOf DEF IInv, KinInv
  <2>1. /\ status[p] = "running" /\ pc[p] = "user"
        /\ \E i \in 1..child_count[p] : children[p][i].tid = c
        /\ pc' = [pc EXCEPT ![p] = "wait"]
        /\ target' = [target EXCEPT ![p] = c]
        /\ UNCHANGED <<sched, kin, lock, exec_file, halted>>
    BY <1>a, <2>0 DEF WaitStart, Running
  <2> USE DEF IInv, sched, lock, kin
  <2>2. TypeOK'
    BY <2>1 DEF TypeOK
  <2>3. SchedInv'
    BY <2>1 DEF SchedInv
  <2>4. LifeInv'
    BY <2>1 DEF LifeInv, TypeOK
  <2>5. HeldInv'
    BY <2>1 DEF HeldInv, TypeOK
  <2>6. TargetInv'
    <3>1. /\ pc'[p] = "wait" /\ target'[p] = c /\ status[c] # "none"
          /\ \A q \in Proc \ {p} : pc'[q] = pc[q] /\ target'[q] = target[q]
          /\ \A d \in Proc : pc[d] = "start_acquire" => pc'[d] = "start_acquire"
      BY <2>0, <2>1, ProcessAssumption DEF LifeInv, TypeOK
    <3>2. QED
      BY <2>0, <2>1, <3>1 DEF TargetInv
  <2>7. KinInv'
    BY <2>1 DEF KinInv, OneSlot, TypeOK
  <2>8. LoadInv'
    BY <2>1 DEF LoadInv, Starting, Loading, TypeOK
  <2>9. ReportInv'
    BY <2>1 DEF ReportInv, ReportAt, KinInv, Starting, Loading, TypeOK
  <2>10. FileInv'
    BY <2>1 DEF FileInv, TypeOK
  <2>11. QED
    BY <2>2, <2>3, <2>4, <2>5, <2>6, <2>7, <2>8, <2>9, <2>10
<1>b. QED
  BY <1>0, <1>a

-----------------------------------------------------------------------------
(***************************************************************************)
(* process_lock and the creation of a process.                             *)
(***************************************************************************)

LEMMA AcquireStep ==
    ASSUME IInv, NEW p \in Proc, AcquireProcessLock(p)
    PROVE  IInv'
<1>0. /\ SchedType /\ status[p] = "running"
      /\ pc[p] \in {"exec_acquire", "start_acquire"}
      /\ UNCHANGED <<target, kin, exec_file>>
  BY SchedTypeHolds DEF IInv, AcquireProcessLock, Running
<1>1. CASE process_lock = p
  <2>1. UNCHANGED <<sched, pc, lock, target, kin, exec_file>> /\ halted' = "panic"
    BY <1>0, <1>1, ProcessAssumption DEF AcquireProcessLock
  <2> USE DEF IInv, sched, lock, kin
  <2>2. TypeOK'
    BY <2>1 DEF TypeOK
  <2>3. SchedInv'
    BY <2>1 DEF SchedInv
  <2>4. LifeInv'
    BY <2>1 DEF LifeInv, TypeOK
  <2>5. HeldInv'
    BY <2>1 DEF HeldInv, TypeOK
  <2>6. TargetInv'
    BY <2>1 DEF TargetInv, TypeOK
  <2>7. KinInv'
    BY <2>1 DEF KinInv, OneSlot, TypeOK
  <2>8. LoadInv'
    BY <2>1 DEF LoadInv, Starting, Loading, TypeOK
  <2>9. ReportInv'
    BY <2>1 DEF ReportInv, ReportAt, KinInv, Starting, Loading, TypeOK
  <2>10. FileInv'
    BY <2>1 DEF FileInv, TypeOK
  <2>11. QED
    BY <2>2, <2>3, <2>4, <2>5, <2>6, <2>7, <2>8, <2>9, <2>10
<1>2. CASE process_lock = NULL
  <2>1. /\ process_lock' = p
        /\ pc' = [pc EXCEPT ![p] = IF @ = "exec_acquire" THEN "create"
                                                        ELSE "start_release"]
        /\ UNCHANGED <<sched, lock_waiters, halted, target, kin, exec_file>>
    BY <1>0, <1>2, ProcessAssumption DEF AcquireProcessLock
  <2>2. \A x \in Proc : pc[x] \notin {"create", "add_child", "start_release"}
    BY <1>2, ProcessAssumption DEF IInv, HeldInv
  <2> USE DEF IInv, sched, lock, kin
  <2>3. TypeOK'
    BY <1>0, <2>1, <2>2 DEF TypeOK
  <2>4. SchedInv'
    BY <1>0, <2>1, <2>2 DEF SchedInv
  <2>5. LifeInv'
    BY <1>0, <2>1, <2>2 DEF LifeInv, TypeOK
  <2>6. HeldInv'
    BY <1>0, <2>1, <2>2 DEF HeldInv, TypeOK
  <2>7. TargetInv'
    BY <1>0, <2>1, <2>2 DEF TargetInv, TypeOK
  <2>8. KinInv'
    BY <1>0, <2>1, <2>2 DEF KinInv, OneSlot, TypeOK
  <2>9. LoadInv'
    BY <1>0, <2>1, <2>2 DEF LoadInv, Starting, Loading, TypeOK
  <2>10. ReportInv'
    BY <1>0, <2>1, <2>2 DEF ReportInv, ReportAt, KinInv, Starting, Loading, TypeOK
  <2>11. FileInv'
    BY <1>0, <2>1, <2>2 DEF FileInv, TypeOK
  <2>12. QED
    BY <2>3, <2>4, <2>5, <2>6, <2>7, <2>8, <2>9, <2>10, <2>11
<1>3. CASE process_lock \notin {p, NULL}
  <2>1. /\ lock_waiters' = Append(lock_waiters, p)
        /\ Schedule(p, "blocked", ready_list)
        /\ UNCHANGED <<process_lock, pc, halted, target, kin, exec_file>>
    BY <1>0, <1>3, ProcessAssumption DEF AcquireProcessLock
  <2>2. /\ status' \in [Proc -> States]
        /\ Listed(ready_list', status', "ready")
        /\ Listed(lock_waiters, status', "blocked")
        /\ \A x \in Proc \ {p} : /\ status'[x] = "none" <=> status[x] = "none"
                                 /\ status'[x] = "dying" <=> status[x] = "dying"
        /\ status'[p] = "blocked"
    BY <1>0, <2>1, ScheduleKeeps
  <2>3. Listed(lock_waiters', status', "blocked")
    BY <1>0, <2>1, <2>2 DEF Listed, SchedType
  <2>4. SameLife
    BY <1>0, <2>2 DEF SameLife
  <2>5. QED
    BY <2>1, <2>2, <2>3, <2>4, SchedStep
<1>4. QED
  BY <1>1, <1>2, <1>3 DEF AcquireProcessLock

LEMMA CreateFailsStep ==
    ASSUME IInv, NEW p \in Proc, CreateFails(p)
    PROVE  IInv'
<1>1. /\ pc[p] = "create" /\ status[p] = "running"
      /\ pc' = [pc EXCEPT ![p] = "user"]
      /\ target' = [target EXCEPT ![p] = NULL]
      /\ UNCHANGED <<sched, kin, lock, exec_file, halted>>
  BY DEF CreateFails, Running
<1> USE DEF IInv, sched, lock, kin
<1>2. TypeOK'
  BY <1>1, ProcessAssumption DEF TypeOK
<1>3. SchedInv'
  BY <1>1, ProcessAssumption DEF SchedInv
<1>4. LifeInv'
  BY <1>1, ProcessAssumption DEF LifeInv, TypeOK
<1>5. HeldInv'
  BY <1>1, ProcessAssumption DEF HeldInv, TypeOK
<1>6. TargetInv'
  BY <1>1, ProcessAssumption DEF TargetInv, TypeOK
<1>7. KinInv'
  BY <1>1, ProcessAssumption DEF KinInv, OneSlot, TypeOK
<1>8. LoadInv'
  BY <1>1, ProcessAssumption DEF LoadInv, Starting, Loading, TypeOK
<1>9. ReportInv'
  BY <1>1, ProcessAssumption DEF ReportInv, ReportAt, KinInv, Starting, Loading, TypeOK
<1>10. FileInv'
  BY <1>1, ProcessAssumption DEF FileInv, TypeOK
<1>11. QED
  BY <1>2, <1>3, <1>4, <1>5, <1>6, <1>7, <1>8, <1>9, <1>10

LEMMA CreateStep ==
    ASSUME IInv, NEW p \in Proc, thread_create_with_parent(p)
    PROVE  IInv'
<1> DEFINE c == target[p]
<1>1. /\ pc[p] = "create" /\ status[p] = "running" /\ pc[c] = "none"
      /\ c \in Proc /\ status[c] = "none" /\ parent[c] = NULL /\ c # p
      /\ \A q \in Proc : target[q] = c => q = p
      /\ child_count[p] < CHILD_MAX
  BY DEF thread_create_with_parent, Running, IInv, TargetInv, LifeInv
<1>2. /\ parent' = [parent EXCEPT ![c] = p]
      /\ pc' = [pc EXCEPT ![p] = "add_child", ![c] = "start_acquire"]
      /\ thread_unblock(c)
      /\ UNCHANGED <<target, retval, children, child_count, lock, exec_file, halted>>
  BY DEF thread_create_with_parent
<1>3. /\ status' \in [Proc -> States]
      /\ Listed(ready_list', status', "ready")
      /\ Listed(lock_waiters, status', "blocked")
      /\ status' = [status EXCEPT ![c] = "ready"]
  <2>1. SchedType
    BY SchedTypeHolds DEF IInv
  <2>2. \A i \in 1..Len(lock_waiters) : lock_waiters[i] # c
    BY <1>1, <2>1 DEF SchedType, Listed
  <2>3. QED
    BY <1>1, <1>2, <2>1, <2>2, UnblockKeeps
<1>4. pc' \in [Proc -> {"none", "start_acquire", "start_release", "load",
                      "load_read", "loaded", "load_failed", "user",
                      "exec_acquire", "create", "add_child", "spin",
                      "wait", "exit", "destroy", "dead"}]
      /\ pc'[p] = "add_child" /\ pc'[c] = "start_acquire"
      /\ \A q \in Proc \ {p, c} : pc'[q] = pc[q]
  BY <1>1, <1>2 DEF IInv, TypeOK
<1>5. parent' \in [Proc -> Proc \cup {NULL}] /\ parent'[c] = p
      /\ \A q \in Proc \ {c} : parent'[q] = parent[q]
  BY <1>1, <1>2 DEF IInv, TypeOK
<1>6. \A q \in Proc : \A i \in 1..child_count[q] : children[q][i].tid # c
  BY <1>1, ProcessAssumption DEF IInv, KinInv
<1>7. UNCHANGED <<target, retval, children, child_count, process_lock, lock_waiters,
                 exec_file, halted>>
  BY <1>2 DEF lock
<1> USE DEF IInv
<1>8. TypeOK'
  BY <1>1, <1>3, <1>4, <1>5, <1>6, <1>7, ProcessAssumption DEF TypeOK, States, Listed
<1>9. SchedInv'
  BY <1>1, <1>3, <1>4, <1>5, <1>6, <1>7, ProcessAssumption DEF SchedInv, Listed
<1>10. LifeInv'
  BY <1>1, <1>3, <1>4, <1>5, <1>6, <1>7, ProcessAssumption DEF LifeInv, TypeOK
<1>11. HeldInv'
  BY <1>1, <1>3, <1>4, <1>5, <1>6, <1>7, ProcessAssumption DEF HeldInv, TypeOK
<1>12. TargetInv'
  BY <1>1, <1>3, <1>4, <1>5, <1>6, <1>7, ProcessAssumption DEF TargetInv, TypeOK
<1>13. KinInv'
  <2>1. OneSlot'
    BY <1>7 DEF KinInv, OneSlot
  <2>2. ASSUME NEW q \in Proc, NEW i \in 1..child_count[q]
        PROVE  /\ children[q][i].tid \in Proc
               /\ parent'[children[q][i].tid] = q
               /\ pc'[q] = "add_child" => children[q][i].tid # target[q]
    BY <1>1, <1>4, <1>5, <1>6 DEF KinInv
  <2>3. QED
    BY <1>7, <2>1, <2>2 DEF KinInv
<1>14. LoadInv'
  <2>1. ASSUME NEW d \in Proc, pc'[d] \in Starting \cup Loading, d # c
        PROVE  /\ parent'[d] \in Proc /\ target[parent'[d]] = d
               /\ pc'[parent'[d]] \in {"add_child", "spin"}
               /\ pc'[d] # "start_acquire" => pc'[parent'[d]] = "spin"
    <3>1. pc'[d] = pc[d] /\ parent'[d] = parent[d]
      BY <1>4, <1>5, <2>1 DEF Starting, Loading
    <3>2. parent[d] \in Proc \ {p, c} /\ pc'[parent[d]] = pc[parent[d]]
      BY <1>1, <1>4, <2>1, <3>1 DEF LoadInv
    <3>3. QED
      BY <2>1, <3>1, <3>2 DEF LoadInv
  <2>2. QED
    BY <1>1, <1>4, <1>5, <1>7, <2>1 DEF LoadInv
<1>15. ReportInv'
  <2>1. ASSUME NEW q \in Proc, NEW i \in 1..child_count[q]
        PROVE  LET d == children[q][i].tid
               IN  /\ pc'[d] \in Starting \cup Loading <=> pc[d] \in Starting \cup Loading
                   /\ pc'[d] \in {"destroy", "dead"} <=> pc[d] \in {"destroy", "dead"}
                   /\ pc'[q] = "spin" <=> pc[q] = "spin"
    BY <1>1, <1>4, <1>6 DEF KinInv, Starting, Loading
  <2>2. QED
    BY <1>6, <1>7, <2>1 DEF ReportInv, ReportAt
<1>16. FileInv'
  <2>1. \A q \in Proc : \A i \in 1..CHILD_MAX :
          children[q][i].exec_lock \in Proc \cup {NULL}
    BY DEF TypeOK, Marker
  <2>2. QED
    BY <1>1, <1>4, <1>5, <1>7, <2>1, ProcessAssumption DEF FileInv
<1>17. QED
  BY <1>8, <1>9, <1>10, <1>11, <1>12, <1>13, <1>14, <1>15, <1>16


\* add_child(): the marker goes into the first free slot.
LEMMA AddChildStep ==
    ASSUME IInv, NEW p \in Proc, AddChild(p)
    PROVE  IInv'
<1> DEFINE c == target[p]
           n == child_count[p] + 1
           m == [children[p][n] EXCEPT !.tid = c, !.retval = 0, !.load_result = 0]
<1>1. /\ pc[p] = "add_child" /\ status[p] = "running" /\ process_lock = p
      /\ c \in Proc /\ parent[c] = p
      /\ child_count[p] \in Nat /\ n \in 1..CHILD_MAX /\ child_count[p] # n
  BY ProcessAssumption DEF AddChild, Running, IInv, TargetInv, HeldInv, TypeOK
<1>2. /\ child_count' = [child_count EXCEPT ![p] = n]
      /\ children' = [children EXCEPT ![p][n] = m]
      /\ lock_release
      /\ pc' = [pc EXCEPT ![p] = "spin"]
      /\ UNCHANGED <<target, parent, retval, exec_file, halted>>
  BY DEF AddChild, add_child
<1>3. /\ status' \in [Proc -> States]
      /\ Listed(ready_list', status', "ready")
      /\ Listed(lock_waiters', status', "blocked")
      /\ SameLife /\ process_lock' = NULL
  <2>1. SchedType
    BY SchedTypeHolds DEF IInv
  <2>2. QED
    BY <1>2, <2>1, ReleaseKeeps
<1>4. /\ m \in Marker /\ m.tid = c /\ m.retval = 0 /\ m.load_result = 0
      /\ m.exec_lock = children[p][n].exec_lock
  <2>1. children[p][n] \in Marker
    BY <1>1 DEF IInv, TypeOK
  <2>2. QED
    BY <1>1, <2>1 DEF Marker
<1>5. /\ children' \in [Proc -> [1..CHILD_MAX -> Marker]]
      /\ child_count' \in [Proc -> 0..CHILD_MAX]
  BY <1>1, <1>2, <1>4 DEF IInv, TypeOK
<1> HIDE DEF m
<1>6. /\ child_count'[p] = n /\ children'[p][n] = m
      /\ \A i \in 1..n : i # n => i \in 1..child_count[p] /\ children'[p][i] = children[p][i]
      /\ \A i \in 1..CHILD_MAX : i # n => children'[p][i] = children[p][i]
      /\ \A q \in Proc \ {p} : children'[q] = children[q] /\ child_count'[q] = child_count[q]
  <2>1. children[p] \in [1..CHILD_MAX -> Marker] /\ children \in [Proc -> [1..CHILD_MAX -> Marker]]
    BY DEF IInv, TypeOK
  <2>2. /\ children'[p] = [children[p] EXCEPT ![n] = m]
        /\ \A q \in Proc \ {p} : children'[q] = children[q]
    BY <1>2, <2>1
  <2>3. child_count'[p] = n /\ \A q \in Proc \ {p} : child_count'[q] = child_count[q]
    BY <1>2 DEF IInv, TypeOK
  <2>4. \A i \in 1..n : i # n => i \in 1..child_count[p] /\ i \in 1..CHILD_MAX
    BY <1>1, ProcessAssumption
  <2>5. children'[p][n] = m /\ \A i \in 1..CHILD_MAX : i # n => children'[p][i] = children[p][i]
    BY <1>1, <2>1, <2>2
  <2>6. QED
    BY <2>2, <2>3, <2>4, <2>5
<1>7. pc'[p] = "spin" /\ \A q \in Proc \ {p} : pc'[q] = pc[q]
  BY <1>2 DEF IInv, TypeOK
<1>8. \A i \in 1..child_count[p] : children[p][i].tid # c
  BY <1>1 DEF IInv, KinInv
<1>9. \A q \in Proc : pc[q] = "start_release" => FALSE
  BY <1>1 DEF IInv, HeldInv
<1>10. pc[c] = "start_acquire" /\ exec_file[c] = "none" /\ c # p
  BY <1>1 DEF IInv, TargetInv, FileInv
<1>11. pc' \in [Proc -> {"none", "start_acquire", "start_release", "load",
                      "load_read", "loaded", "load_failed", "user",
                      "exec_acquire", "create", "add_child", "spin",
                      "wait", "exit", "destroy", "dead"}]
  BY <1>2 DEF IInv, TypeOK
<1>12. UNCHANGED <<target, parent, retval, exec_file, halted>>
  BY <1>2
<1> USE DEF IInv
<1>13. TypeOK'
  BY <1>3, <1>5, <1>11, <1>12 DEF TypeOK, States, Listed
<1>14. SchedInv'
  BY <1>3 DEF SchedInv, Listed
<1>15. LifeInv'
  BY <1>1, <1>3, <1>6, <1>7, <1>12 DEF LifeInv, SameLife
<1>16. HeldInv'
  BY <1>1, <1>3, <1>7 DEF HeldInv
<1>17. TargetInv'
  <2>1. \E i \in 1..child_count'[p] : children'[p][i].tid = c
    BY <1>1, <1>4, <1>6
  <2>2. QED
    BY <1>1, <1>3, <1>6, <1>7, <1>12, <2>1 DEF TargetInv, SameLife
<1>18. KinInv'
  <2>1. OneSlot'
    BY <1>1, <1>4, <1>6, <1>8 DEF KinInv, OneSlot
  <2>2. ASSUME NEW q \in Proc, NEW i \in 1..child_count'[q]
        PROVE  /\ children'[q][i].tid \in Proc
               /\ parent[children'[q][i].tid] = q
               /\ pc'[q] = "add_child" => children'[q][i].tid # target[q]
    BY <1>1, <1>4, <1>6, <1>7 DEF KinInv
  <2>3. QED
    BY <1>12, <2>1, <2>2 DEF KinInv
<1>19. LoadInv'
  BY <1>1, <1>7, <1>9, <1>12 DEF LoadInv, Starting, Loading
<1>20. ReportInv'
  <2>1. ASSUME NEW q \in Proc, NEW d
        PROVE  /\ pc'[d] \in Starting \cup Loading <=> pc[d] \in Starting \cup Loading
               /\ pc'[d] \in {"destroy", "dead"} <=> pc[d] \in {"destroy", "dead"}
    BY <1>1, <1>2 DEF Starting, Loading, TypeOK
  <2>2. ASSUME NEW q \in Proc \ {p}, NEW i \in 1..child_count'[q]
        PROVE  ReportAt(q, i)'
    BY <1>6, <1>7, <1>12, <2>1, <2>2 DEF ReportInv, ReportAt
  <2>3. ASSUME NEW i \in 1..n, i # n
        PROVE  ReportAt(p, i)'
    BY <1>1, <1>6, <1>7, <1>8, <1>12, <2>1, <2>3 DEF ReportInv, ReportAt
  <2>4. ASSUME NEW i \in 1..CHILD_MAX, i = n
        PROVE  ReportAt(p, i)'
    <3>1. children'[p][i] = m /\ target'[p] = c /\ pc'[p] = "spin"
      BY <1>6, <1>7, <1>12, <2>4
    <3>2. pc'[c] \in Starting \cup Loading /\ exec_file'[c] = "none"
          /\ pc'[c] \notin {"destroy", "dead"}
      BY <1>7, <1>10, <1>12, <1>1 DEF Starting
    <3>3. QED
      BY <1>4, <3>1, <3>2 DEF ReportAt
  <2>5. QED
    BY <1>1, <1>6, <2>2, <2>3, <2>4 DEF ReportInv
<1>21. FileInv'
  BY <1>1, <1>4, <1>6, <1>7, <1>10, <1>12 DEF FileInv
<1>22. QED
  BY <1>13, <1>14, <1>15, <1>16, <1>17, <1>18, <1>19, <1>20, <1>21

-----------------------------------------------------------------------------
(***************************************************************************)
(* The child loads.                                                        *)
(***************************************************************************)

\* A child that loads has its marker, load_result still 0, in the array of a
\* parent that is in its loop.
LEMMA LoadingSlot ==
    ASSUME IInv, NEW p \in Proc, pc[p] \in Loading \cup {"start_release"}
    PROVE  LET q == parent[p]
               k == get_child_pointer_parent(q, p)
           IN  /\ q \in Proc /\ q # p /\ pc[q] = "spin" /\ target[q] = p
               /\ k \in 1..child_count[q] /\ k \in 1..CHILD_MAX
               /\ children[q][k] \in Marker
               /\ children[q][k].tid = p /\ children[q][k].load_result = 0
               /\ \A r \in Proc : \A i \in 1..child_count[r] :
                    children[r][i].tid = p => r = q /\ i = k
<1> DEFINE q == parent[p]
           k == get_child_pointer_parent(q, p)
<1>1. q \in Proc /\ target[q] = p /\ pc[q] = "spin" /\ q # p
  BY DEF IInv, LoadInv, Starting, Loading
<1>2. PICK i \in 1..child_count[q] : children[q][i].tid = p
  BY <1>1 DEF IInv, TargetInv
<1>3. k = i
  BY <1>1, <1>2, SlotOf DEF IInv
<1>4. k \in 1..child_count[q] /\ children[q][k].tid = p
  BY <1>2, <1>3
<1>5. k \in 1..CHILD_MAX /\ children[q][k] \in Marker
  BY <1>1, <1>4, ProcessAssumption DEF IInv, TypeOK
<1>6. children[q][k].load_result = 0
  BY <1>1, <1>4 DEF IInv, ReportInv, ReportAt, Starting
<1>7. \A r \in Proc : \A j \in 1..child_count[r] :
        children[r][j].tid = p => r = q /\ j = k
  BY <1>1, <1>4 DEF IInv, KinInv, OneSlot
<1>8. QED
  BY <1>1, <1>4, <1>5, <1>6, <1>7

LEMMA ReleaseStartStep ==
    ASSUME IInv, NEW p \in Proc, ReleaseStart(p)
    PROVE  IInv'
<1>1. /\ pc[p] = "start_release" /\ process_lock = p
      /\ lock_release
      /\ pc' = [pc EXCEPT ![p] = "load"]
      /\ UNCHANGED <<target, kin, exec_file, halted>>
  BY DEF ReleaseStart, IInv, HeldInv
<1>2. /\ status' \in [Proc -> States]
      /\ Listed(ready_list', status', "ready")
      /\ Listed(lock_waiters', status', "blocked")
      /\ SameLife /\ process_lock' = NULL
  <2>1. SchedType
    BY SchedTypeHolds DEF IInv
  <2>2. QED
    BY <1>1, <2>1, ReleaseKeeps
<1>3. \A q \in Proc : pc[q] \in {"create", "add_child", "start_release"} => q = p
  BY <1>1 DEF IInv, HeldInv
<1> USE DEF IInv, kin
<1>4. TypeOK'
  BY <1>1, <1>2, <1>3 DEF TypeOK, States, Listed
<1>5. SchedInv'
  BY <1>1, <1>2, <1>3 DEF SchedInv, Listed
<1>6. LifeInv'
  BY <1>1, <1>2, <1>3 DEF LifeInv, SameLife, TypeOK
<1>7. HeldInv'
  BY <1>1, <1>2, <1>3 DEF HeldInv, TypeOK
<1>8. TargetInv'
  BY <1>1, <1>2, <1>3 DEF TargetInv, SameLife, TypeOK
<1>9. KinInv'
  BY <1>1, <1>2, <1>3 DEF KinInv, OneSlot, TypeOK
<1>10. LoadInv'
  BY <1>1, <1>2, <1>3 DEF LoadInv, Starting, Loading, TypeOK
<1>11. ReportInv'
  BY <1>1, <1>2, <1>3 DEF ReportInv, ReportAt, KinInv, Starting, Loading, TypeOK
<1>12. FileInv'
  BY <1>1, <1>2, <1>3 DEF FileInv, TypeOK
<1>13. QED
  BY <1>4, <1>5, <1>6, <1>7, <1>8, <1>9, <1>10, <1>11, <1>12

LEMMA LoadReadStep ==
    ASSUME IInv, NEW p \in Proc, LoadRead(p)
    PROVE  IInv'
<1>1. /\ pc[p] = "load_read" /\ status[p] = "running"
      /\ UNCHANGED <<sched, target, kin, lock, exec_file, halted>>
  BY DEF LoadRead, Running
<1>2. PICK r \in {"loaded", "load_failed"} : pc' = [pc EXCEPT ![p] = r]
  BY DEF LoadRead
<1> USE DEF IInv, sched, lock, kin
<1>3. TypeOK'
  BY <1>1, <1>2 DEF TypeOK
<1>4. SchedInv'
  BY <1>1, <1>2 DEF SchedInv
<1>5. LifeInv'
  BY <1>1, <1>2 DEF LifeInv, TypeOK
<1>6. HeldInv'
  BY <1>1, <1>2 DEF HeldInv, TypeOK
<1>7. TargetInv'
  BY <1>1, <1>2 DEF TargetInv, TypeOK
<1>8. KinInv'
  BY <1>1, <1>2 DEF KinInv, OneSlot, TypeOK
<1>9. LoadInv'
  BY <1>1, <1>2 DEF LoadInv, Starting, Loading, TypeOK
<1>10. ReportInv'
  BY <1>1, <1>2 DEF ReportInv, ReportAt, KinInv, Starting, Loading, TypeOK
<1>11. FileInv'
  BY <1>1, <1>2 DEF FileInv, TypeOK
<1>12. QED
  BY <1>3, <1>4, <1>5, <1>6, <1>7, <1>8, <1>9, <1>10, <1>11

\* Slot k of q's array becomes m, and no other slot changes.
OneMarker(q, k, m) ==
  /\ children' \in [Proc -> [1..CHILD_MAX -> Marker]]
  /\ children'[q][k] = m
  /\ \A x \in Proc : \A i \in 1..CHILD_MAX :
       <<x, i>> # <<q, k>> => children'[x][i] = children[x][i]

LEMMA SetMarker ==
    ASSUME children \in [Proc -> [1..CHILD_MAX -> Marker]],
           NEW q \in Proc, NEW k \in 1..CHILD_MAX, NEW m \in Marker,
           children' = [children EXCEPT ![q][k] = m]
    PROVE  OneMarker(q, k, m)
<1> DEFINE f == children[q]
<1>1. f \in [1..CHILD_MAX -> Marker]
  OBVIOUS
<1>2. children' = [children EXCEPT ![q] = [f EXCEPT ![k] = m]]
  OBVIOUS
<1> HIDE DEF f
<1> DEFINE g == [f EXCEPT ![k] = m]
<1>3. /\ g \in [1..CHILD_MAX -> Marker] /\ g[k] = m
      /\ \A i \in 1..CHILD_MAX : i # k => g[i] = f[i]
  BY <1>1
<1> HIDE DEF g
<1>4. /\ children' \in [Proc -> [1..CHILD_MAX -> Marker]]
      /\ children'[q] = g
      /\ \A x \in Proc \ {q} : children'[x] = children[x]
  BY <1>2, <1>3 DEF g
<1>5. QED
  BY <1>3, <1>4 DEF OneMarker, f

\* A step of a loading child p to r, with m the new marker of p.
MarkerChange(p, m, r) ==
  /\ pc[p] \in Loading /\ status[p] = "running" /\ m.tid = p
  /\ OneMarker(parent[p], get_child_pointer_parent(parent[p], p), m)
  /\ pc' = [pc EXCEPT ![p] = r]
  /\ retval' \in [Proc -> ExitStatus \cup {-1, 0}]
  /\ \A c \in Proc \ {p} : retval'[c] = retval[c]
  /\ exec_file' \in [Proc -> {"none", "open", "closed"}]
  /\ \A c \in Proc \ {p} : exec_file'[c] # exec_file[c] =>
       exec_file[c] = "open" /\ exec_file'[c] = "closed" /\ parent[c] = parent[p]
  /\ halted' \in {"no", "panic", "stale_file"}
  /\ UNCHANGED <<sched, target, parent, child_count, lock>>
  /\ m.load_result = 0 <=> r \in Loading
  /\ m.load_result = 1 => exec_file'[p] = "open"
  /\ m.load_result = -1 => exec_file'[p] # "open"
  /\ exec_file'[p] # "none" /\ m.load_result # -1 => m.exec_lock = p
  /\ m.exec_lock # NULL => parent[m.exec_lock] = parent[p]
  /\ r = "load" => exec_file'[p] = "none"
  /\ r \in {"load_read", "loaded"} => exec_file'[p] = "open"
  /\ r = "load_failed" => exec_file'[p] # "closed"

LEMMA MarkerStep ==
    ASSUME IInv, NEW p \in Proc, NEW m \in Marker,
           NEW r \in Loading \cup {"user", "exit"}, MarkerChange(p, m, r)
    PROVE  IInv'
<1> USE DEF MarkerChange
<1> DEFINE q == parent[p]
           k == get_child_pointer_parent(q, p)
<1>1. /\ q \in Proc /\ q # p /\ pc[q] = "spin" /\ target[q] = p
      /\ k \in 1..child_count[q] /\ k \in 1..CHILD_MAX
      /\ children[q][k].tid = p /\ children[q][k].load_result = 0
      /\ \A x \in Proc : \A i \in 1..child_count[x] :
           children[x][i].tid = p => x = q /\ i = k
  BY LoadingSlot
<1>2. /\ children' \in [Proc -> [1..CHILD_MAX -> Marker]]
      /\ children'[q][k] = m
      /\ \A x \in Proc : \A i \in 1..CHILD_MAX :
           <<x, i>> # <<q, k>> => children'[x][i] = children[x][i]
  BY DEF OneMarker
<1> HIDE DEF k
<1>3. pc'[p] = r /\ \A x \in Proc \ {p} : pc'[x] = pc[x]
  BY DEF IInv, TypeOK
<1>4. \A x \in Proc : \A i \in 1..child_count[x] : i \in 1..CHILD_MAX
  BY ProcessAssumption DEF IInv, TypeOK
<1>5. \A x \in Proc : \A i \in 1..CHILD_MAX : children'[x][i].tid = children[x][i].tid
  BY <1>1, <1>2
<1>6. \A x \in Proc \ {p} : pc[x] \in {"none", "load", "load_read", "loaded",
          "load_failed", "start_acquire", "start_release"} => exec_file'[x] = exec_file[x]
  BY <1>1, ProcessAssumption DEF IInv, LoadInv, LifeInv, FileInv, Starting, Loading
<1> USE DEF IInv, sched, lock
<1>7. TypeOK'
  BY <1>2 DEF TypeOK, Loading
<1>8. SchedInv'
  BY <1>2 DEF SchedInv
<1>9. LifeInv'
  BY <1>3 DEF LifeInv, Loading
<1>10. HeldInv'
  BY <1>3 DEF HeldInv, Loading
<1>11. TargetInv'
  BY <1>3, <1>4, <1>5 DEF TargetInv, Loading
<1>12. KinInv'
  <2>1. OneSlot'
    BY <1>4, <1>5 DEF KinInv, OneSlot
  <2>2. ASSUME NEW x \in Proc, NEW i \in 1..child_count[x]
        PROVE  /\ children'[x][i].tid \in Proc
               /\ parent[children'[x][i].tid] = x
               /\ pc'[x] = "add_child" => children'[x][i].tid # target[x]
    <3>1. children'[x][i].tid = children[x][i].tid
      BY <1>4, <1>5
    <3>2. pc'[x] = "add_child" => pc[x] = "add_child"
      BY <1>3 DEF Loading
    <3>3. QED
      BY <3>1, <3>2 DEF KinInv
  <2>3. QED
    BY <2>1, <2>2 DEF KinInv
<1>13. LoadInv'
  BY <1>1, <1>3 DEF LoadInv, Starting, Loading
<1>14. ReportInv'
  <2>1. ASSUME NEW x \in Proc, NEW i \in 1..child_count[x], <<x, i>> # <<q, k>>
        PROVE  ReportAt(x, i)'
    <3> DEFINE c == children[x][i].tid
    <3>1. /\ children'[x][i] = children[x][i] /\ c \in Proc /\ c # p
          /\ parent[c] = x /\ pc'[c] = pc[c] /\ retval'[c] = retval[c]
      BY <1>1, <1>2, <1>3, <1>4, <2>1 DEF KinInv, TypeOK
    <3>2. /\ pc'[x] = "spin" <=> pc[x] = "spin"
          /\ target'[x] = target[x]
      BY <1>3 DEF Loading
    <3>3. exec_file'[c] # exec_file[c] =>
            x = q /\ exec_file[c] = "open" /\ exec_file'[c] = "closed"
      BY <3>1
    <3>4. x = q => c # target[x]
      BY <1>1, <3>1
    <3>5. ReportAt(x, i)
      BY DEF ReportInv
    <3>6. QED
      BY <3>1, <3>2, <3>3, <3>4, <3>5 DEF ReportAt
  <2>2. ASSUME NEW i \in 1..CHILD_MAX, NEW x \in Proc, i = k, x = q
        PROVE  ReportAt(x, i)'
    BY <1>1, <1>2, <1>3, <2>2 DEF ReportAt, Loading, Starting
  <2>3. QED
    BY <1>1, <2>1, <2>2 DEF ReportInv
<1>15. FileInv'
  BY <1>1, <1>2, <1>3, <1>6 DEF FileInv, Loading
<1>16. QED
  BY <1>7, <1>8, <1>9, <1>10, <1>11, <1>12, <1>13, <1>14, <1>15


LEMMA LoadOpenStep ==
    ASSUME IInv, NEW p \in Proc, LoadOpen(p)
    PROVE  IInv'
<1> DEFINE q == parent[p]
           k == get_child_pointer_parent(q, p)
           m == children[q][k]
<1>1. /\ pc[p] = "load" /\ status[p] = "running" /\ pc[p] \in Loading
      /\ UNCHANGED <<sched, target, parent, retval, child_count, lock, halted>>
  BY DEF LoadOpen, Running, Loading
<1>2. /\ q \in Proc /\ k \in 1..CHILD_MAX /\ k \in 1..child_count[q]
      /\ m \in Marker /\ m.tid = p /\ m.load_result = 0
  BY <1>1, LoadingSlot
<1>3. /\ exec_file[p] = "none" /\ exec_file \in [Proc -> {"none", "open", "closed"}]
      /\ m.exec_lock # NULL => parent[m.exec_lock] = parent[p]
      /\ retval \in [Proc -> ExitStatus \cup {-1, 0}]
      /\ halted \in {"no", "panic", "stale_file"}
      /\ children \in [Proc -> [1..CHILD_MAX -> Marker]]
  BY <1>1, <1>2 DEF IInv, FileInv, TypeOK
<1>4. CASE pc' = [pc EXCEPT ![p] = "load_failed"] /\ UNCHANGED <<children, exec_file>>
  <2>1. OneMarker(q, k, m)
    BY <1>2, <1>3, <1>4 DEF OneMarker
  <2>2. /\ "load_failed" \in Loading \cup {"user", "exit"} /\ "load_failed" \in Loading
        /\ exec_file' \in [Proc -> {"none", "open", "closed"}]
        /\ \A c \in Proc \ {p} : exec_file'[c] = exec_file[c]
        /\ exec_file'[p] = "none" /\ halted' \in {"no", "panic", "stale_file"}
    BY <1>1, <1>3, <1>4 DEF Loading
  <2> HIDE DEF m
  <2>3. QED
    <3>1. MarkerChange(p, m, "load_failed")
      BY <1>1, <1>2, <1>3, <1>4, <2>1, <2>2 DEF MarkerChange, sched, lock
    <3>2. QED
      BY <1>2, <1>3, <2>2, <3>1, MarkerStep
<1>5. CASE /\ exec_file' = [exec_file EXCEPT ![p] = "open"]
           /\ children' = [children EXCEPT ![q][k].exec_lock = p]
           /\ pc' = [pc EXCEPT ![p] = "load_read"]
  <2> DEFINE n == [m EXCEPT !.exec_lock = p]
  <2>1. /\ n \in Marker /\ n.tid = p /\ n.load_result = 0 /\ n.exec_lock = p
    BY <1>2 DEF Marker
  <2>2. OneMarker(q, k, n)
    <3>1. children' = [children EXCEPT ![q][k] = n]
      BY <1>5
    <3> HIDE DEF n, k
    <3>2. QED
      BY <1>2, <1>3, <2>1, <3>1, SetMarker
  <2>3. exec_file' \in [Proc -> {"none", "open", "closed"}] /\ exec_file'[p] = "open"
        /\ \A c \in Proc \ {p} : exec_file'[c] = exec_file[c]
    BY <1>3, <1>5
  <2>4. /\ "load_read" \in Loading \cup {"user", "exit"} /\ "load_read" \in Loading
        /\ halted' \in {"no", "panic", "stale_file"}
    BY <1>1, <1>3 DEF Loading
  <2> HIDE DEF n, m
  <2>5. QED
    <3>1. MarkerChange(p, n, "load_read")
      BY <1>1, <1>3, <1>5, <2>1, <2>2, <2>3, <2>4 DEF MarkerChange, sched, lock
    <3>2. QED
      BY <1>3, <2>1, <2>4, <3>1, MarkerStep
<1>6. QED
  BY <1>4, <1>5 DEF LoadOpen

LEMMA ReportLoadStep ==
    ASSUME IInv, NEW p \in Proc, ReportLoad(p)
    PROVE  IInv'
<1> DEFINE q == parent[p]
           k == get_child_pointer_parent(q, p)
           m == children[q][k]
           f == m.exec_lock
<1>1. /\ pc[p] \in {"loaded", "load_failed"} /\ status[p] = "running" /\ pc[p] \in Loading
      /\ UNCHANGED <<sched, target, parent, child_count, lock>>
  BY DEF ReportLoad, Running, Loading
<1>2. /\ q \in Proc /\ k \in 1..CHILD_MAX /\ k \in 1..child_count[q]
      /\ m \in Marker /\ m.tid = p /\ m.load_result = 0
  BY <1>1, LoadingSlot
<1>3. /\ exec_file \in [Proc -> {"none", "open", "closed"}]
      /\ f \in Proc \cup {NULL} /\ (f # NULL => parent[f] = parent[p])
      /\ retval \in [Proc -> ExitStatus \cup {-1, 0}]
      /\ halted \in {"no", "panic", "stale_file"}
      /\ children \in [Proc -> [1..CHILD_MAX -> Marker]]
  BY <1>1, <1>2 DEF IInv, FileInv, TypeOK, Marker
<1>4. /\ exec_file[p] # "none" => f = p
      /\ pc[p] = "loaded" => exec_file[p] = "open"
      /\ exec_file[p] # "closed"
  BY <1>1, <1>2 DEF IInv, FileInv, ReportInv, ReportAt
<1>5. CASE /\ pc[p] = "loaded"
           /\ children' = [children EXCEPT ![q][k].load_result = 1]
           /\ pc' = [pc EXCEPT ![p] = "user"]
           /\ UNCHANGED <<retval, exec_file, halted>>
  <2> DEFINE n == [m EXCEPT !.load_result = 1]
  <2>1. n \in Marker /\ n.tid = p /\ n.load_result = 1 /\ n.exec_lock = f
    BY <1>2 DEF Marker
  <2>2. OneMarker(q, k, n)
    <3>1. children' = [children EXCEPT ![q][k] = n]
      BY <1>5
    <3> HIDE DEF n, k
    <3>2. QED
      BY <1>2, <1>3, <2>1, <3>1, SetMarker
  <2>3. /\ "user" \in Loading \cup {"user", "exit"} /\ "user" \notin Loading
        /\ exec_file' \in [Proc -> {"none", "open", "closed"}]
        /\ \A c \in Proc \ {p} : exec_file'[c] = exec_file[c]
        /\ exec_file'[p] = "open" /\ n.exec_lock = p /\ parent[p] = parent[p]
        /\ halted' \in {"no", "panic", "stale_file"}
    BY <1>1, <1>3, <1>4, <1>5, <2>1 DEF Loading
  <2> HIDE DEF n, f, m
  <2>4. QED
    <3>1. MarkerChange(p, n, "user")
      BY <1>1, <1>3, <1>5, <2>1, <2>2, <2>3 DEF MarkerChange, sched, lock
    <3>2. QED
      BY <1>3, <2>1, <2>3, <3>1, MarkerStep
<1>6. CASE /\ pc[p] = "load_failed" /\ CloseExec(f)
           /\ children' = [children EXCEPT ![q][k] =
                [@ EXCEPT !.exec_lock = NULL, !.load_result = -1]]
           /\ retval' = [retval EXCEPT ![p] = -1]
           /\ pc' = [pc EXCEPT ![p] = "exit"]
  <2> DEFINE n == [m EXCEPT !.exec_lock = NULL, !.load_result = -1]
  <2>1. n \in Marker /\ n.tid = p /\ n.load_result = -1 /\ n.exec_lock = NULL
    BY <1>2 DEF Marker
  <2>2. OneMarker(q, k, n)
    <3>1. children' = [children EXCEPT ![q][k] = n]
      BY <1>6
    <3> HIDE DEF n, k
    <3>2. QED
      BY <1>2, <1>3, <2>1, <3>1, SetMarker
  <2> HIDE DEF n
  <2>3. /\ exec_file' \in [Proc -> {"none", "open", "closed"}] /\ exec_file'[p] # "open"
        /\ \A c \in Proc \ {p} : exec_file'[c] # exec_file[c] =>
             exec_file[c] = "open" /\ exec_file'[c] = "closed" /\ parent[c] = parent[p]
        /\ halted' \in {"no", "panic", "stale_file"}
    <3> HIDE DEF f
    <3>1. CASE f = NULL
      BY <1>3, <1>4, <1>6, <3>1, ProcessAssumption DEF CloseExec
    <3>2. CASE f # NULL /\ exec_file[f] = "open"
      <4>1. exec_file' = [exec_file EXCEPT ![f] = "closed"] /\ UNCHANGED halted
        BY <1>6, <3>2 DEF CloseExec
      <4>2. QED
        BY <1>3, <1>4, <3>2, <4>1
    <3>3. CASE f # NULL /\ exec_file[f] # "open"
      <4>1. halted' = "stale_file" /\ UNCHANGED exec_file
        BY <1>6, <3>3 DEF CloseExec
      <4>2. QED
        BY <1>3, <1>4, <3>3, <4>1
    <3>4. QED
      BY <3>1, <3>2, <3>3
  <2>4. /\ "exit" \in Loading \cup {"user", "exit"} /\ "exit" \notin Loading
        /\ retval' \in [Proc -> ExitStatus \cup {-1, 0}]
        /\ \A c \in Proc \ {p} : retval'[c] = retval[c]
    BY <1>3, <1>6 DEF Loading
  <2>5. QED
    <3>1. MarkerChange(p, n, "exit")
      BY <1>1, <1>3, <1>6, <2>1, <2>2, <2>3, <2>4 DEF MarkerChange, sched, lock
    <3>2. QED
      BY <2>1, <2>4, <3>1, MarkerStep
<1>7. QED
  BY <1>5, <1>6 DEF ReportLoad

-----------------------------------------------------------------------------
(***************************************************************************)
(* The end of a process.                                                   *)
(***************************************************************************)

LEMMA ProcessExitStep ==
    ASSUME IInv, NEW p \in Proc, process_exit(p)
    PROVE  IInv'
<1>1. /\ pc[p] = "exit" /\ status[p] = "running"
      /\ UNCHANGED <<sched, target, parent, retval, child_count, lock, exec_file>>
  BY DEF process_exit, Running
<1>2. CASE parent[p] = NULL \/ status[parent[p]] = "dying"
  <2>1. halted' = "panic" /\ UNCHANGED <<pc, children>>
    BY <1>2 DEF process_exit
  <2> USE DEF IInv, sched, lock, kin
  <2>2. TypeOK'
    BY <1>1, <2>1 DEF TypeOK
  <2>3. SchedInv'
    BY <1>1, <2>1 DEF SchedInv
  <2>4. LifeInv'
    BY <1>1, <2>1 DEF LifeInv, TypeOK
  <2>5. HeldInv'
    BY <1>1, <2>1 DEF HeldInv, TypeOK
  <2>6. TargetInv'
    BY <1>1, <2>1 DEF TargetInv, TypeOK
  <2>7. KinInv'
    BY <1>1, <2>1 DEF KinInv, OneSlot, TypeOK
  <2>8. LoadInv'
    BY <1>1, <2>1 DEF LoadInv, Starting, Loading, TypeOK
  <2>9. ReportInv'
    BY <1>1, <2>1 DEF ReportInv, ReportAt, KinInv, Starting, Loading, TypeOK
  <2>10. FileInv'
    BY <1>1, <2>1 DEF FileInv, TypeOK
  <2>11. QED
    BY <2>2, <2>3, <2>4, <2>5, <2>6, <2>7, <2>8, <2>9, <2>10
<1>3. CASE ~ (parent[p] = NULL \/ status[parent[p]] = "dying")
  <2> DEFINE q == parent[p]
  <2>1. /\ q \in Proc
        /\ children' = [children EXCEPT ![q] =
             [i \in 1..CHILD_MAX |-> IF i <= child_count[q] /\ children[q][i].tid = p
                THEN [children[q][i] EXCEPT !.retval = retval[p]] ELSE children[q][i]]]
        /\ pc' = [pc EXCEPT ![p] = "destroy"] /\ UNCHANGED halted
    BY <1>3 DEF process_exit, set_child_retval, IInv, TypeOK
  <2>2. \A x \in Proc \ {q} : children'[x] = children[x]
    BY <2>1 DEF IInv, TypeOK
  <2>3. \A i \in 1..CHILD_MAX :
          children'[q][i] = IF i <= child_count[q] /\ children[q][i].tid = p
                              THEN [children[q][i] EXCEPT !.retval = retval[p]]
                              ELSE children[q][i]
    BY <2>1 DEF IInv, TypeOK
  <2>4. \A i \in 1..CHILD_MAX : /\ children[q][i] \in Marker
                                /\ [children[q][i] EXCEPT !.retval = retval[p]] \in Marker
    <3>1. retval[p] \in ExitStatus \cup {-1, 0}
      BY DEF IInv, TypeOK
    <3>2. \A i \in 1..CHILD_MAX : children[q][i] \in Marker
      BY <2>1 DEF IInv, TypeOK
    <3>3. QED
      BY <3>1, <3>2 DEF Marker
  <2>5. children' \in [Proc -> [1..CHILD_MAX -> Marker]]
    BY <2>1, <2>4 DEF IInv, TypeOK
  <2>6. \A x \in Proc : \A i \in 1..CHILD_MAX :
          /\ children'[x][i].tid = children[x][i].tid
          /\ children'[x][i].load_result = children[x][i].load_result
          /\ children'[x][i].exec_lock = children[x][i].exec_lock
          /\ children[x][i].tid # p => children'[x][i].retval = children[x][i].retval
    <3>1. \A i \in 1..CHILD_MAX :
          /\ children'[q][i].tid = children[q][i].tid
          /\ children'[q][i].load_result = children[q][i].load_result
          /\ children'[q][i].exec_lock = children[q][i].exec_lock
          /\ children[q][i].tid # p => children'[q][i].retval = children[q][i].retval
      BY <2>3, <2>4 DEF Marker
    <3>2. QED
      BY <2>2, <3>1
  <2>7. \A x \in Proc : \A i \in 1..child_count[x] :
          children[x][i].tid = p => x = q /\ children'[x][i].retval = retval[p]
    <3>1. \A i \in 1..child_count[q] :
            children[q][i].tid = p => children'[q][i].retval = retval[p]
      BY <2>1, <2>3, <2>4, ProcessAssumption DEF Marker, IInv, TypeOK
    <3>2. QED
      BY <3>1 DEF IInv, KinInv
  <2>8. pc'[p] = "destroy" /\ \A x \in Proc \ {p} : pc'[x] = pc[x]
    BY <2>1 DEF IInv, TypeOK
  <2>9. \A x \in Proc : \A i \in 1..child_count[x] : i \in 1..CHILD_MAX
    BY ProcessAssumption DEF IInv, TypeOK
  <2> USE DEF IInv, sched, lock
  <2>10. TypeOK'
    BY <1>1, <2>1, <2>5 DEF TypeOK
  <2>11. SchedInv'
    BY <1>1, <2>1, <2>6, <2>8, <2>9 DEF SchedInv
  <2>12. LifeInv'
    BY <1>1, <2>1, <2>6, <2>8, <2>9 DEF LifeInv, TypeOK
  <2>13. HeldInv'
    BY <1>1, <2>1, <2>6, <2>8, <2>9 DEF HeldInv, TypeOK
  <2>14. TargetInv'
    BY <1>1, <2>6, <2>8, <2>9 DEF TargetInv
  <2>15. KinInv'
    BY <1>1, <2>1, <2>6, <2>8, <2>9 DEF KinInv, OneSlot, TypeOK
  <2>16. LoadInv'
    BY <1>1, <2>1, <2>6, <2>8, <2>9 DEF LoadInv, Starting, Loading, TypeOK
  <2>17. ReportInv'
    <3>1. ASSUME NEW x \in Proc, NEW i \in 1..child_count[x]
          PROVE  ReportAt(x, i)'
      <4> DEFINE c == children[x][i].tid
      <4>1. /\ c \in Proc /\ i \in 1..CHILD_MAX /\ ReportAt(x, i)
            /\ pc'[x] = "spin" <=> pc[x] = "spin"
            /\ pc'[c] \in Starting \cup Loading <=> pc[c] \in Starting \cup Loading
            /\ c # p => pc'[c] = pc[c]
        BY <1>1, <2>8, <2>9 DEF KinInv, ReportInv, Starting, Loading
      <4>2. /\ children'[x][i].tid = c
            /\ children'[x][i].load_result = children[x][i].load_result
            /\ children'[x][i].exec_lock = children[x][i].exec_lock
            /\ children'[x][i].retval = IF c = p THEN retval[c] ELSE children[x][i].retval
        BY <2>6, <2>7, <4>1
      <4>3. QED
        BY <1>1, <4>1, <4>2 DEF ReportAt
    <3>2. QED
      BY <1>1, <3>1 DEF ReportInv
  <2>18. FileInv'
    BY <1>1, <2>1, <2>6, <2>8, <2>9 DEF FileInv, TypeOK
  <2>19. QED
    BY <2>10, <2>11, <2>12, <2>13, <2>14, <2>15, <2>16, <2>17, <2>18
<1>4. QED
  BY <1>2, <1>3

LEMMA ThreadExitStep ==
    ASSUME IInv, NEW p \in Proc, thread_exit(p)
    PROVE  IInv'
<1>1. /\ pc[p] = "destroy" /\ status[p] = "running"
      /\ pc' = [pc EXCEPT ![p] = "dead"]
      /\ Schedule(p, "dying", ready_list)
      /\ UNCHANGED <<target, kin, lock, exec_file, halted>>
  BY DEF thread_exit, Running
<1>2. SchedType
  BY SchedTypeHolds DEF IInv
<1>3. /\ status' \in [Proc -> States]
      /\ Listed(ready_list', status', "ready")
      /\ Listed(lock_waiters, status', "blocked")
      /\ status'[p] = "dying"
      /\ \A x \in Proc \ {p} : /\ status'[x] = "none" <=> status[x] = "none"
                               /\ status'[x] = "dying" <=> status[x] = "dying"
  BY <1>1, <1>2, ScheduleKeeps
<1> USE DEF IInv, kin, lock
<1>4. TypeOK'
  BY <1>1, <1>3 DEF TypeOK, States, Listed
<1>5. SchedInv'
  BY <1>1, <1>3 DEF SchedInv, Listed
<1>6. LifeInv'
  BY <1>1, <1>3 DEF LifeInv, TypeOK
<1>7. HeldInv'
  BY <1>1, <1>3 DEF HeldInv, TypeOK
<1>8. TargetInv'
  BY <1>1, <1>3 DEF TargetInv, TypeOK
<1>9. KinInv'
  BY <1>1, <1>3 DEF KinInv, OneSlot, TypeOK
<1>10. LoadInv'
  BY <1>1, <1>3 DEF LoadInv, Starting, Loading, TypeOK
<1>11. ReportInv'
  BY <1>1, <1>3 DEF ReportInv, ReportAt, KinInv, Starting, Loading, TypeOK
<1>12. FileInv'
  BY <1>1, <1>3 DEF FileInv, TypeOK
<1>13. QED
  BY <1>4, <1>5, <1>6, <1>7, <1>8, <1>9, <1>10, <1>11, <1>12

-----------------------------------------------------------------------------
(***************************************************************************)
(* exec and wait return.                                                   *)
(***************************************************************************)

\* The marker that exec or wait answers from.
LEMMA TargetSlot ==
    ASSUME IInv, NEW p \in Proc, pc[p] \in {"spin", "wait"}
    PROVE  LET c == target[p]
               k == get_child_pointer_parent(p, c)
           IN  /\ c \in Proc /\ parent[c] = p
               /\ k \in 1..child_count[p] /\ k \in 1..CHILD_MAX
               /\ children[p][k].tid = c /\ children[p][k] \in Marker
               /\ ReportAt(p, k) /\ ChildOf(p) = children[p][k]
<1> DEFINE c == target[p]
           k == get_child_pointer_parent(p, c)
<1>1. c \in Proc /\ parent[c] = p
  BY DEF IInv, TargetInv
<1>2. PICK i \in 1..child_count[p] : children[p][i].tid = c
  BY DEF IInv, TargetInv
<1>3. k = i
  BY <1>2, SlotOf DEF IInv
<1>4. k \in 1..child_count[p] /\ children[p][k].tid = c
  BY <1>2, <1>3
<1>5. k \in 1..CHILD_MAX /\ children[p][k] \in Marker
  BY <1>4, ProcessAssumption DEF IInv, TypeOK
<1>6. ReportAt(p, k)
  BY <1>4 DEF IInv, ReportInv
<1>7. QED
  BY <1>1, <1>4, <1>5, <1>6 DEF ChildOf

\* The child leaves the array when its load is over; at most its file is closed.
LEMMA RemoveStep ==
    ASSUME IInv, NEW p \in Proc, pc[p] \in {"spin", "wait"}, status[p] = "running",
           ChildOf(p).load_result # 0,
           NEW c \in Proc, c = target[p], remove_child(p, c),
           pc' = [pc EXCEPT ![p] = "user"], target' = [target EXCEPT ![p] = NULL],
           exec_file' \in [Proc -> {"none", "open", "closed"}],
           \A x \in Proc \ {c} : exec_file'[x] = exec_file[x],
           halted' \in {"no", "panic", "stale_file"},
           UNCHANGED <<sched, parent, retval, lock>>
    PROVE  IInv'
<1> DEFINE k == get_child_pointer_parent(p, c)
           n == child_count[p]
<1>1. /\ parent[c] = p /\ k \in 1..n /\ k \in 1..CHILD_MAX /\ children[p][k].tid = c
      /\ ReportAt(p, k) /\ ChildOf(p) = children[p][k]
  BY TargetSlot
<1> HIDE DEF k
<1>2. /\ children' \in [Proc -> [1..CHILD_MAX -> Marker]]
      /\ child_count' = [child_count EXCEPT ![p] = @ - 1]
      /\ child_count' \in [Proc -> 0..CHILD_MAX]
      /\ \A q \in Proc \ {p} : children'[q] = children[q]
      /\ \A i \in 1..child_count'[p] :
           \E j \in 1..child_count[p] \ {k} : children'[p][i] = children[p][j]
      /\ \A i, j \in 1..child_count'[p] :
           children'[p][i].tid = children'[p][j].tid => i = j
      /\ \A i \in 1..CHILD_MAX : \E j \in 1..CHILD_MAX :
           children'[p][i] = children[p][j]
  BY <1>1, Removed DEF IInv
<1>3. \A q \in Proc \ {p} : child_count'[q] = child_count[q]
  BY <1>2 DEF IInv, TypeOK
<1>4. pc[c] \notin Starting \cup Loading /\ pc[c] # "none"
  BY <1>1, ProcessAssumption DEF IInv, ReportAt, LifeInv
<1>5. /\ pc'[p] = "user" /\ target'[p] = NULL
      /\ \A x \in Proc \ {p} : pc'[x] = pc[x] /\ target'[x] = target[x]
  BY DEF IInv, TypeOK
<1>6. \A x \in Proc : \A i \in 1..child_count'[x] :
        \E j \in 1..child_count[x] : /\ children'[x][i] = children[x][j]
                                    /\ children[x][j].tid # c
  <2>1. ASSUME NEW i \in 1..child_count'[p]
        PROVE  \E j \in 1..child_count[p] : /\ children'[p][i] = children[p][j]
                                          /\ children[p][j].tid # c
    <3>1. PICK j \in 1..child_count[p] \ {k} : children'[p][i] = children[p][j]
      BY <1>2
    <3>2. children[p][j].tid # c
      BY <1>1, <3>1 DEF IInv, KinInv, OneSlot
    <3>3. QED
      BY <3>1, <3>2
  <2>2. ASSUME NEW x \in Proc \ {p}, NEW i \in 1..child_count'[x]
        PROVE  \E j \in 1..child_count[x] : /\ children'[x][i] = children[x][j]
                                          /\ children[x][j].tid # c
    <3>1. i \in 1..child_count[x] /\ children'[x][i] = children[x][i]
      BY <1>2, <1>3
    <3>2. children[x][i].tid # c
      BY <1>1, <3>1 DEF IInv, KinInv
    <3>3. QED
      BY <3>1, <3>2
  <2>3. QED
    BY <2>1, <2>2
<1>7. \A x \in Proc : pc[x] \in {"spin", "wait", "add_child"} /\ x # p => target[x] # c
  BY <1>1 DEF IInv, TargetInv
<1> USE DEF IInv, sched, lock
<1>8. TypeOK'
  BY <1>2, ProcessAssumption DEF TypeOK
<1>9. SchedInv'
  BY <1>2 DEF SchedInv
<1>10. LifeInv'
  BY <1>5 DEF LifeInv
<1>11. HeldInv'
  BY <1>5 DEF HeldInv
<1>12. TargetInv'
  <2>1. \A q \in Proc \ {p} : children'[q] = children[q] /\ child_count'[q] = child_count[q]
    BY <1>2, <1>3
  <2>2. \A d \in Proc : pc[d] = "start_acquire" => pc'[d] = "start_acquire"
    BY <1>5
  <2>3. \A q \in Proc \ {p} : target[q] \in Proc => target[q] # target'[p]
    BY <1>5, ProcessAssumption
  <2>4. QED
    BY <1>5, <2>1, <2>2, <2>3 DEF TargetInv
<1>13. KinInv'
  <2>1. OneSlot'
    BY <1>2, <1>3 DEF KinInv, OneSlot
  <2>2. ASSUME NEW x \in Proc, NEW i \in 1..child_count'[x]
        PROVE  /\ children'[x][i].tid \in Proc
               /\ parent[children'[x][i].tid] = x
               /\ pc'[x] = "add_child" => children'[x][i].tid # target'[x]
    <3>1. PICK j \in 1..child_count[x] : children'[x][i] = children[x][j]
      BY <1>6
    <3>2. QED
      BY <1>5, <3>1 DEF KinInv
  <2>3. QED
    BY <2>1, <2>2 DEF KinInv
<1>14. LoadInv'
  BY <1>1, <1>4, <1>5 DEF LoadInv, Starting, Loading
<1>15. ReportInv'
  <2>1. ASSUME NEW x \in Proc, NEW i \in 1..child_count'[x]
        PROVE  ReportAt(x, i)'
    <3>1. PICK j \in 1..child_count[x] : /\ children'[x][i] = children[x][j]
                                       /\ children[x][j].tid # c
      BY <1>6
    <3> DEFINE d == children[x][j].tid
    <3>2. /\ d \in Proc /\ d # c /\ ReportAt(x, j) /\ exec_file'[d] = exec_file[d]
          /\ pc'[d] \in Starting \cup Loading <=> pc[d] \in Starting \cup Loading
          /\ pc'[d] \in {"destroy", "dead"} <=> pc[d] \in {"destroy", "dead"}
      BY <1>5, <3>1 DEF KinInv, ReportInv, Starting, Loading
    <3>3. CASE x = p
      BY <1>5, <3>1, <3>2, <3>3 DEF ReportAt
    <3>4. CASE x # p
      BY <1>5, <3>1, <3>2, <3>4 DEF ReportAt
    <3>5. QED
      BY <3>3, <3>4
  <2>2. QED
    BY <2>1 DEF ReportInv
<1>16. FileInv'
  <2>1. ASSUME NEW x \in Proc, NEW i \in 1..CHILD_MAX
        PROVE  LET f == children'[x][i].exec_lock IN f # NULL => parent[f] = x
    <3>1. PICK j \in 1..CHILD_MAX : children'[x][i] = children[x][j]
      BY <1>2
    <3>2. QED
      BY <3>1 DEF FileInv
  <2>2. ASSUME NEW d \in Proc
        PROVE  /\ pc'[d] \in {"none", "start_acquire", "start_release", "load"} =>
                    exec_file'[d] = "none"
               /\ pc'[d] \in {"load_read", "loaded"} => exec_file'[d] = "open"
               /\ pc'[d] = "load_failed" => exec_file'[d] # "closed"
    BY <1>4, <1>5 DEF FileInv, Starting, Loading
  <2>3. QED
    BY <2>1, <2>2 DEF FileInv
<1>17. QED
  BY <1>8, <1>9, <1>10, <1>11, <1>12, <1>13, <1>14, <1>15, <1>16

\* A child that is waited for has loaded, and its marker names its executable.
LEMMA WaitedMarker ==
    ASSUME IInv, NEW p \in Proc, pc[p] = "wait"
    PROVE  /\ target[p] \in Proc /\ parent[target[p]] = p
           /\ ChildOf(p).exec_lock = target[p] /\ ChildOf(p).load_result = 1
  BY TargetSlot DEF ReportAt

LEMMA SpinStep ==
    ASSUME IInv, NEW p \in Proc, Spin(p)
    PROVE  IInv'
<1>1. /\ pc[p] = "spin" /\ status[p] = "running"
      /\ UNCHANGED <<parent, retval, lock, exec_file, halted>>
  BY DEF Spin, Running
<1> DEFINE r == ChildOf(p).load_result
           c == target[p]
           k == get_child_pointer_parent(p, c)
<1>2. /\ c \in Proc /\ parent[c] = p /\ k \in 1..child_count[p]
      /\ children[p][k].tid = c /\ ReportAt(p, k) /\ ChildOf(p) = children[p][k]
  BY <1>1, TargetSlot
<1>3. CASE r = 0
  <2>1. thread_yield(p) /\ UNCHANGED <<pc, target, kin, lock, exec_file, halted>>
    BY <1>1, <1>3 DEF Spin, kin
  <2>2. QED
    BY <1>1, <2>1, YieldStep
<1>4. CASE r # 0
  <2>1. /\ pc' = [pc EXCEPT ![p] = "user"] /\ target' = [target EXCEPT ![p] = NULL]
        /\ UNCHANGED sched
    BY <1>4 DEF Spin
  <2>2. CASE r = 1
    <3>1. UNCHANGED <<children, child_count>>
      BY <1>4, <2>2 DEF Spin
    <3>2. pc[c] \notin Starting \cup Loading
      BY <1>2, <2>2 DEF ReportAt
    <3>3. \A i \in 1..child_count[p] : children[p][i].load_result = 1
      BY <1>2, <2>2 DEF IInv, ReportInv, ReportAt, KinInv, OneSlot
    <3>4. pc'[p] = "user" /\ target'[p] = NULL
          /\ \A x \in Proc \ {p} : pc'[x] = pc[x] /\ target'[x] = target[x]
      BY <2>1 DEF IInv, TypeOK
    <3> USE DEF IInv, sched, lock
    <3>5. TypeOK'
      BY <1>1, <2>1, <3>1, ProcessAssumption DEF TypeOK
    <3>6. SchedInv'
      BY <1>1, <2>1, <3>1, <3>4 DEF SchedInv
    <3>7. LifeInv'
      BY <1>1, <2>1, <3>1, <3>4 DEF LifeInv
    <3>8. HeldInv'
      BY <1>1, <2>1, <3>1, <3>4 DEF HeldInv
    <3>9. TargetInv'
      <4>1. \A d \in Proc : pc[d] = "start_acquire" => pc'[d] = "start_acquire"
        BY <1>1, <3>4
      <4>2. \A q \in Proc \ {p} : target[q] \in Proc => target[q] # target'[p]
        BY <3>4, ProcessAssumption
      <4>3. QED
        BY <1>1, <2>1, <3>1, <3>4, <4>1, <4>2 DEF TargetInv
    <3>10. KinInv'
      BY <1>1, <2>1, <3>1, <3>4 DEF KinInv, OneSlot
    <3>11. LoadInv'
      BY <1>1, <3>2, <3>4 DEF LoadInv, Starting, Loading
    <3>12. ReportInv'
      BY <1>1, <3>1, <3>3, <3>4 DEF ReportInv, ReportAt, KinInv, Starting, Loading
    <3>13. FileInv'
      BY <1>1, <2>1, <3>1, <3>4 DEF FileInv
    <3>14. QED
      BY <3>5, <3>6, <3>7, <3>8, <3>9, <3>10, <3>11, <3>12, <3>13
  <2>3. CASE r # 1
    <3>1. remove_child(p, c)
      BY <1>4, <2>3 DEF Spin
    <3>2. QED
      BY <1>1, <1>2, <1>4, <2>1, <3>1, RemoveStep DEF IInv, TypeOK
  <2>4. QED
    BY <2>2, <2>3
<1>5. QED
  BY <1>3, <1>4

LEMMA WaitStepStep ==
    ASSUME IInv, NEW p \in Proc, WaitStep(p)
    PROVE  IInv'
<1>1. /\ pc[p] = "wait" /\ status[p] = "running"
      /\ UNCHANGED <<parent, retval, lock>>
  BY DEF WaitStep, Running
<1>2. CASE on_ready_list(target[p])
  <2>1. thread_yield(p) /\ UNCHANGED <<pc, target, kin, lock, exec_file, halted>>
    BY <1>1, <1>2 DEF WaitStep, kin
  <2>2. QED
    BY <1>1, <2>1, YieldStep
<1>3. CASE ~ on_ready_list(target[p])
  <2> DEFINE c == target[p]
  <2>1. /\ CloseExec(ChildOf(p).exec_lock) /\ remove_child(p, c)
        /\ pc' = [pc EXCEPT ![p] = "user"] /\ target' = [target EXCEPT ![p] = NULL]
        /\ UNCHANGED sched
    BY <1>3 DEF WaitStep
  <2>2. c \in Proc /\ ChildOf(p).exec_lock = c /\ ChildOf(p).load_result = 1
    BY <1>1, WaitedMarker
  <2>3. /\ exec_file' \in [Proc -> {"none", "open", "closed"}]
        /\ \A x \in Proc \ {c} : exec_file'[x] = exec_file[x]
        /\ halted' \in {"no", "panic", "stale_file"}
    BY <2>1, <2>2, ProcessAssumption DEF CloseExec, IInv, TypeOK
  <2>4. ChildOf(p).load_result # 0
    BY <2>2
  <2>5. QED
    BY <1>1, <2>1, <2>2, <2>3, <2>4, RemoveStep
<1>4. QED
  BY <1>2, <1>3

-----------------------------------------------------------------------------
(***************************************************************************)
(* The theorems.                                                           *)
(***************************************************************************)

\* The first process runs alone and has no children.
LEMMA InitIInv == Init => IInv
<1> SUFFICES ASSUME Init PROVE IInv
  OBVIOUS
<1>1. NoMarker \in Marker /\ NoMarker.exec_lock = NULL
  BY ProcessAssumption DEF NoMarker, Marker
<1>2. TypeOK
  BY <1>1, ProcessAssumption DEF Init, TypeOK
<1>3. SchedInv /\ LifeInv /\ HeldInv
  BY DEF Init, SchedInv, LifeInv, HeldInv
<1>4. TargetInv /\ LoadInv
  BY DEF Init, TargetInv, LoadInv, Starting, Loading
<1>5. \A p \in Proc : child_count[p] = 0
  BY DEF Init
<1>6. KinInv /\ ReportInv
  BY <1>5 DEF KinInv, OneSlot, ReportInv
<1>7. FileInv
  BY <1>1 DEF Init, FileInv
<1>8. QED
  BY <1>2, <1>3, <1>4, <1>6, <1>7 DEF IInv

LEMMA NextIInv == IInv /\ [Next]_vars => IInv'
<1> SUFFICES ASSUME IInv, [Next]_vars PROVE IInv'
  OBVIOUS
<1>1. CASE UNCHANGED vars
  BY <1>1 DEF vars, IInv, TypeOK, SchedInv, LifeInv, HeldInv, TargetInv, KinInv,
              OneSlot, LoadInv, ReportInv, ReportAt, FileInv
<1>2. CASE Dispatch
  BY <1>2, DispatchStep
<1>3. ASSUME NEW p \in Proc, Kernel(p)
      PROVE  IInv'
  BY <1>3, AcquireStep, CreateFailsStep, CreateStep, AddChildStep, SpinStep,
     ReleaseStartStep, LoadOpenStep, LoadReadStep, ReportLoadStep,
     ProcessExitStep, ThreadExitStep, WaitStepStep DEF Kernel
<1>4. ASSUME NEW p \in Proc, User(p)
      PROVE  IInv'
  BY <1>4, EndStep, ExecStep, WaitStartStep DEF User
<1>5. ASSUME NEW p \in Proc, TimerYield(p)
      PROVE  IInv'
  BY <1>5, YieldStep DEF TimerYield, Running
<1>6. ASSUME NEW p \in Proc, BlockIO(p) \/ CompleteIO(p)
      PROVE  IInv'
  BY <1>6, BlockStep, CompleteStep
<1>7. QED
  BY <1>1, <1>2, <1>3, <1>4, <1>5, <1>6 DEF Next

\* IInv is an invariant of the processes.
THEOREM ProcessInvariant == Spec => []IInv
<1>1. QED
  BY InitIInv, NextIInv, PTL DEF Spec

\* The state of the processes is always well typed: in particular the number of
\* children never passes the array, given that exec is not called at the limit.
THEOREM TypeCorrect == Spec => []TypeOK
<1>1. IInv => TypeOK
  BY DEF IInv
<1>2. QED
  BY ProcessInvariant, <1>1, PTL

\* load() and start_process() find the marker they dereference: the parent is
\* alive and has the child in its array for as long as the child loads.
THEOREM MarkerAlwaysPresent == Spec => []MarkerPresent
<1>1. IInv => MarkerPresent
  <2> SUFFICES ASSUME IInv, NEW p \in Proc, pc[p] \in Loading
               PROVE  /\ status[parent[p]] # "dying"
                      /\ get_child_pointer_parent(parent[p], p) # 0
    BY DEF MarkerPresent, Loading
  <2> DEFINE q == parent[p]
  <2>1. /\ q \in Proc /\ pc[q] = "spin"
        /\ get_child_pointer_parent(q, p) \in 1..CHILD_MAX
    BY LoadingSlot
  <2>2. status[q] # "dying"
    BY <2>1 DEF IInv, LifeInv
  <2>3. get_child_pointer_parent(q, p) # 0
    BY <2>1, ProcessAssumption
  <2>4. QED
    BY <2>2, <2>3
<1>2. QED
  BY ProcessInvariant, <1>1, PTL

\* No child is in two slots, which is what lets remove_child() be modelled by the
\* slot that get_child_pointer_parent() finds.
THEOREM ChildrenOnce == Spec => []OneSlot
<1>1. IInv => OneSlot
  BY DEF IInv, KinInv
<1>2. QED
  BY ProcessInvariant, <1>1, PTL


\* Only a process's own step takes it out of exec's loop or out of wait.
LEMMA ReturnStep ==
    ASSUME IInv, Next, NEW p \in Proc, pc[p] \in {"spin", "wait"}, pc'[p] # pc[p]
    PROVE  Spin(p) \/ WaitStep(p)
<1> USE DEF IInv, TypeOK
<1>1. ASSUME NEW q \in Proc, CreateFails(q) \/ AddChild(q) \/ ReleaseStart(q)
                              \/ LoadRead(q) \/ thread_exit(q)
      PROVE  FALSE
  BY <1>1 DEF CreateFails, AddChild, ReleaseStart, LoadRead, thread_exit
<1>2. ASSUME NEW q \in Proc, AcquireProcessLock(q)
      PROVE  FALSE
  BY <1>2 DEF AcquireProcessLock
<1>3. ASSUME NEW q \in Proc, thread_create_with_parent(q)
      PROVE  FALSE
  BY <1>3 DEF thread_create_with_parent, TargetInv, LifeInv
<1>4. ASSUME NEW q \in Proc, LoadOpen(q) \/ ReportLoad(q)
      PROVE  FALSE
  <2>1. pc[q] \in Loading /\ \E r : pc' = [pc EXCEPT ![q] = r]
    BY <1>4 DEF LoadOpen, ReportLoad, Loading
  <2>2. QED
    BY <2>1 DEF Loading
<1>5. ASSUME NEW q \in Proc, process_exit(q)
      PROVE  FALSE
  <2>1. pc[q] = "exit" /\ (UNCHANGED pc \/ pc' = [pc EXCEPT ![q] = "destroy"])
    BY <1>5 DEF process_exit
  <2>2. QED
    BY <2>1
<1>6. ASSUME NEW q \in Proc, User(q)
      PROVE  FALSE
  <2>1. pc[q] = "user" /\ (UNCHANGED pc \/ \E r : pc' = [pc EXCEPT ![q] = r])
    BY <1>6 DEF User, sys_exit, kill, page_fault, Exec, WaitStart
  <2>2. QED
    BY <2>1
<1>7. ASSUME NEW q \in Proc, TimerYield(q) \/ BlockIO(q) \/ CompleteIO(q)
      PROVE  FALSE
  BY <1>7 DEF TimerYield, BlockIO, CompleteIO
<1>8. ~ Dispatch
  BY DEF Dispatch
<1>9. ASSUME NEW q \in Proc, Spin(q) \/ WaitStep(q)
      PROVE  q = p
  <2>1. UNCHANGED pc \/ pc' = [pc EXCEPT ![q] = "user"]
    BY <1>9 DEF Spin, WaitStep
  <2>2. QED
    BY <2>1
<1>10. QED
  BY <1>1, <1>2, <1>3, <1>4, <1>5, <1>6, <1>7, <1>8, <1>9 DEF Next, Kernel

\* exec answers with the child's tid if and only if the child loaded, and wait
\* for a dead child with the status the child died with.
THEOREM AnswersAlwaysTrue == Spec => AnswersTrue
<1>1. ASSUME IInv, Next, NEW p \in Proc, pc[p] = "spin", pc'[p] = "user"
      PROVE  ChildOf(p).load_result = 1 <=> exec_file[target[p]] = "open"
  <2>1. Spin(p)
    BY <1>1, ReturnStep DEF WaitStep
  <2>2. ChildOf(p).load_result # 0
    BY <1>1, <2>1 DEF Spin
  <2> DEFINE k == get_child_pointer_parent(p, target[p])
  <2>3. /\ children[p][k].tid = target[p] /\ children[p][k] \in Marker
        /\ ReportAt(p, k) /\ ChildOf(p) = children[p][k]
    BY <1>1, TargetSlot
  <2>4. ChildOf(p).load_result \in {-1, 1}
    BY <2>2, <2>3 DEF Marker
  <2>5. QED
    BY <1>1, <2>3, <2>4 DEF ReportAt
<1>2. ASSUME IInv, NEW p \in Proc, pc[p] = "wait", status[target[p]] = "dying"
      PROVE  ChildOf(p).retval = retval[target[p]]
  <2> DEFINE k == get_child_pointer_parent(p, target[p])
  <2>1. /\ target[p] \in Proc /\ children[p][k].tid = target[p]
        /\ ReportAt(p, k) /\ ChildOf(p) = children[p][k]
    BY <1>2, TargetSlot
  <2>2. pc[target[p]] = "dead"
    BY <1>2, <2>1 DEF IInv, LifeInv
  <2>3. QED
    BY <2>1, <2>2 DEF ReportAt
<1> DEFINE A == \A p \in Proc : LET c == target[p] IN
       /\ pc[p] = "spin" /\ pc'[p] = "user" =>
            (ChildOf(p).load_result = 1 <=> exec_file[c] = "open")
       /\ pc[p] = "wait" /\ pc'[p] = "user" /\ status[c] = "dying" =>
            ChildOf(p).retval = retval[c]
<1>3. IInv /\ [Next]_vars => [A]_vars
  BY <1>1, <1>2
<1>4. [][A]_vars => AnswersTrue
  BY DEF AnswersTrue
<1>5. QED
  BY ProcessInvariant, <1>3, <1>4, PTL DEF Spec

\* An open executable is closed by the wait for its process, by its own failed
\* load, or by the failed load of a sibling that never opened a file.
THEOREM WritersLetInByWait == Spec => DeniedUntilWaited
<1> DEFINE D(c) == \/ pc[c] = "load_failed"
                   \/ pc[parent[c]] = "wait" /\ target[parent[c]] = c
                   \/ \E p \in Proc : /\ pc[p] = "load_failed" /\ exec_file[p] = "none"
                                      /\ parent[p] = parent[c]
           A == \A c \in Proc : exec_file[c] = "open" /\ exec_file'[c] # "open" => D(c)
<1>1. ASSUME IInv, Next, NEW c \in Proc, exec_file[c] = "open", exec_file'[c] # "open"
      PROVE  D(c)
  <2>1. \E p \in Proc : LoadOpen(p) \/ ReportLoad(p) \/ WaitStep(p)
    <3>1. ASSUME NEW p \in Proc, User(p)
          PROVE  UNCHANGED exec_file
      BY <3>1 DEF User, sys_exit, kill, page_fault, Exec, WaitStart
    <3>2. ASSUME NEW p \in Proc,
                 AcquireProcessLock(p) \/ CreateFails(p) \/ thread_create_with_parent(p)
                 \/ AddChild(p) \/ Spin(p) \/ ReleaseStart(p) \/ LoadRead(p)
                 \/ process_exit(p) \/ thread_exit(p)
          PROVE  UNCHANGED exec_file
      BY <3>2 DEF AcquireProcessLock, CreateFails, thread_create_with_parent, AddChild,
                  Spin, ReleaseStart, LoadRead, process_exit, thread_exit
    <3>3. ASSUME NEW p \in Proc, TimerYield(p) \/ BlockIO(p) \/ CompleteIO(p) \/ Dispatch
          PROVE  UNCHANGED exec_file
      BY <3>3 DEF TimerYield, BlockIO, CompleteIO, Dispatch
    <3>4. QED
      BY <1>1, <3>1, <3>2, <3>3, ProcessAssumption DEF Next, Kernel
  <2>2. PICK p \in Proc : LoadOpen(p) \/ ReportLoad(p) \/ WaitStep(p)
    BY <2>1
  <2>3. CASE LoadOpen(p)
    <3>1. UNCHANGED exec_file \/ exec_file' = [exec_file EXCEPT ![p] = "open"]
      BY <2>3 DEF LoadOpen
    <3>2. FALSE
      BY <1>1, <3>1 DEF IInv, TypeOK
    <3>3. QED
      BY <3>2
  <2>4. CASE ReportLoad(p)
    <3> DEFINE q == parent[p]
               k == get_child_pointer_parent(q, p)
               f == children[q][k].exec_lock
    <3>1. /\ q \in Proc /\ k \in 1..child_count[q] /\ k \in 1..CHILD_MAX
          /\ children[q][k] \in Marker /\ children[q][k].tid = p
          /\ children[q][k].load_result = 0
      BY <1>1, <2>4, LoadingSlot DEF ReportLoad, Loading
    <3>2. pc[p] = "load_failed" /\ CloseExec(f)
      BY <1>1, <2>4 DEF ReportLoad
    <3>3. f = c
      BY <1>1, <3>2 DEF CloseExec, IInv, TypeOK
    <3>4. parent[c] = q
      BY <1>1, <3>1, <3>3, ProcessAssumption DEF IInv, FileInv
    <3>5. exec_file[p] # "none" => c = p
      BY <1>1, <3>1, <3>3 DEF IInv, ReportInv, ReportAt
    <3>6. QED
      BY <3>2, <3>4, <3>5
  <2>5. CASE WaitStep(p)
    <3>1. pc[p] = "wait" /\ CloseExec(ChildOf(p).exec_lock)
      BY <1>1, <2>5 DEF WaitStep
    <3>2. ChildOf(p).exec_lock = target[p] /\ parent[target[p]] = p
      BY <1>1, <3>1, WaitedMarker
    <3>3. c = target[p]
      BY <1>1, <3>1, <3>2 DEF CloseExec, IInv, TypeOK
    <3>4. QED
      BY <3>1, <3>2, <3>3
  <2>6. QED
    BY <2>2, <2>3, <2>4, <2>5
<1>2. IInv /\ [Next]_vars => [A]_vars
  BY <1>1 DEF vars
<1>3. [][A]_vars => DeniedUntilWaited
  BY DEF DeniedUntilWaited
<1>4. QED
  BY ProcessInvariant, <1>2, <1>3, PTL DEF Spec

=============================================================================
