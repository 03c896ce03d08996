----------------------------- MODULE DeviceProofs ---------------------------
(***************************************************************************)
(* Proofs about the drivers, for any threads, devices and data: the alarm  *)
(* clock of the timer, the disks of the IDE channel and their partitions,  *)
(* the UHCI controller, the USB core and the disk on USB.                  *)
(***************************************************************************)
EXTENDS Alarm, Devices, ListProofs

-----------------------------------------------------------------------------
(***************************************************************************)
(* Lists.                                                                  *)
(***************************************************************************)

\* A list of threads, each once, ordered by wakeup time.
Ordered(q, w) ==
    /\ q \in Seq(Thread)
    /\ \A i, j \in 1 .. Len(q) : q[i] = q[j] => i = j
    /\ \A i, j \in 1 .. Len(q) : i < j => w[q[i]] <= w[q[j]]

\* list_insert_ordered() adds the thread at its place.
LEMMA InsertOrdered ==
    ASSUME wakeup_time \in [Thread -> Nat], NEW q, Ordered(q, wakeup_time),
           NEW t \in Thread, \A i \in 1 .. Len(q) : q[i] # t
    PROVE  /\ Ordered(list_insert_ordered(q, t), wakeup_time)
           /\ \A i \in 1 .. Len(list_insert_ordered(q, t)) :
                list_insert_ordered(q, t)[i] = t
                \/ \E j \in 1 .. Len(q) : list_insert_ordered(q, t)[i] = q[j]
<1> DEFINE w == wakeup_time
           n == Len(q)
           P == {i \in 1 .. n : \A j \in 1 .. i : ~ wake_time_compare(t, q[j])}
           T == {i \in 1 .. n + 1 : i = n + 1 \/ wake_time_compare(t, q[i])}
<1>1. q \in Seq(Thread) /\ n \in Nat /\ \A i \in 1 .. n : q[i] \in Thread /\ w[q[i]] \in Nat
  BY DEF Ordered
<1>2. PICK m \in T : \A i \in T : m <= i
  <2>1. T \in SUBSET Nat /\ n + 1 \in T
    BY <1>1
  <2> HIDE DEF T
  <2>2. QED
    BY <2>1, LeastNat
<1>3. PICK k \in 0 .. n :
        /\ \A j \in 1 .. k : ~ wake_time_compare(t, q[j])
        /\ k < n => wake_time_compare(t, q[k + 1])
  <2>1. m \in 1 .. n + 1 /\ m - 1 \in 0 .. n /\ (m - 1) + 1 = m
    BY <1>1, <1>2
  <2>2. \A j \in 1 .. m - 1 : j \in 1 .. n + 1 /\ ~ (m <= j)
    BY <1>1, <2>1
  <2>3. \A j \in 1 .. m - 1 : ~ wake_time_compare(t, q[j])
    BY <1>2, <2>2
  <2>4. m - 1 < n => wake_time_compare(t, q[m])
    BY <1>1, <1>2, <2>1
  <2>5. QED
    BY <2>1, <2>3, <2>4
<1>4. P = 1 .. k
  <2>1. ASSUME NEW i \in 1 .. k PROVE i \in P
    <3>1. i \in 1 .. n /\ \A j \in 1 .. i : j \in 1 .. k
      BY <1>1, <1>3
    <3>2. QED
      BY <1>3, <3>1
  <2>2. ASSUME NEW i \in P PROVE i \in 1 .. k
    <3>1. i \in 1 .. n /\ (i > k => k < n /\ k + 1 \in 1 .. i)
      BY <1>1, <1>3
    <3>2. QED
      BY <1>1, <1>3, <3>1
  <2>3. QED
    BY <2>1, <2>2
<1>5. Cardinality(P) = k
  <2>1. Cardinality(1 .. k) = IF 1 > k THEN 0 ELSE k - 1 + 1
    BY FS_Interval
  <2>2. k \in Nat /\ (IF 1 > k THEN 0 ELSE k - 1 + 1) = k
    BY <1>1, <1>3
  <2> HIDE DEF P
  <2>3. QED
    BY <1>4, <2>1, <2>2
<1> DEFINE r == Spread(q, k, t)
<1>6. list_insert_ordered(q, t) = r
  BY <1>5 DEF list_insert_ordered, Spread
<1>7. /\ r \in Seq(Thread) /\ Len(r) = n + 1
      /\ \A i \in 1 .. n + 1 :
           r[i] = IF i <= k THEN q[i] ELSE IF i = k + 1 THEN t ELSE q[i - 1]
  BY <1>1, SpreadAt
<1> HIDE DEF r, P, T
<1> DEFINE old(i) == IF i <= k THEN i ELSE i - 1
<1>8. /\ \A i \in 1 .. n + 1 : i # k + 1 => old(i) \in 1 .. n /\ (old(i) <= k <=> i < k + 1)
      /\ \A i, j \in 1 .. n + 1 : i # k + 1 /\ j # k + 1 /\ i < j => old(i) < old(j)
      /\ \A i, j \in 1 .. n + 1 : i # k + 1 /\ j # k + 1 /\ old(i) = old(j) => i = j
      /\ k + 1 \in 1 .. n + 1
  BY <1>1, <1>3
<1>8a. /\ \A i \in 1 .. n + 1 : i # k + 1 => r[i] = q[old(i)]
       /\ r[k + 1] = t
  <2>1. k + 1 \in 1 .. n + 1 /\ ~ (k + 1 <= k)
    BY <1>1, <1>3
  <2>2. QED
    BY <1>7, <2>1
<1> HIDE DEF old
<1>9. \A i, j \in 1 .. n + 1 : r[i] = r[j] => i = j
  <2>1. \A x, y \in 1 .. n : q[x] = q[y] => x = y
    BY DEF Ordered
  <2>2. \A x \in 1 .. n : q[x] # t
    OBVIOUS
  <2> HIDE DEF n
  <2>3. QED
    BY <1>8, <1>8a, <2>1, <2>2
<1>10. /\ \A i \in 1 .. n : i <= k => w[q[i]] <= w[t]
       /\ \A i \in 1 .. n : i > k => w[t] < w[q[i]]
  <2>1. \A i \in 1 .. n : i <= k => w[q[i]] <= w[t]
    BY <1>1, <1>3 DEF wake_time_compare
  <2>2. ASSUME NEW i \in 1 .. n, i > k PROVE w[t] < w[q[i]]
    <3>1. k < n /\ k + 1 \in 1 .. n /\ w[t] < w[q[k + 1]]
      BY <1>1, <1>3, <2>2 DEF wake_time_compare
    <3>2. w[q[k + 1]] <= w[q[i]]
      BY <1>1, <1>3, <2>2, <3>1 DEF Ordered
    <3>3. w[t] \in Nat /\ w[q[i]] \in Nat /\ w[q[k + 1]] \in Nat
      BY <1>1, <3>1
    <3>4. QED
      BY <3>1, <3>2, <3>3
  <2>3. QED
    BY <2>1, <2>2
<1>11. \A i, j \in 1 .. n + 1 : i < j => w[r[i]] <= w[r[j]]
  <2> SUFFICES ASSUME NEW i \in 1 .. n + 1, NEW j \in 1 .. n + 1, i < j
               PROVE  w[r[i]] <= w[r[j]]
    OBVIOUS
  <2>1. \A x, y \in 1 .. n : x < y => w[q[x]] <= w[q[y]]
    BY DEF Ordered
  <2> HIDE DEF n
  <2>2. CASE j = k + 1
    <3>1. i # k + 1 /\ i < k + 1
      BY <1>1, <1>3, <2>2
    <3>2. old(i) \in 1 .. n /\ old(i) <= k /\ r[i] = q[old(i)] /\ r[j] = t
      BY <1>8, <1>8a, <2>2, <3>1
    <3>3. QED
      BY <1>10, <3>2
  <2>3. CASE i = k + 1
    <3>1. j # k + 1 /\ ~ (j < k + 1)
      BY <1>1, <1>3, <2>3
    <3>2. old(j) \in 1 .. n /\ ~ (old(j) <= k) /\ r[j] = q[old(j)] /\ r[i] = t
      BY <1>8, <1>8a, <2>3, <3>1
    <3>3. old(j) > k
      BY <1>1, <1>3, <3>2
    <3>4. w[t] < w[q[old(j)]] /\ w[t] \in Nat /\ w[q[old(j)]] \in Nat
      BY <1>1, <1>10, <3>2, <3>3
    <3>5. QED
      BY <3>2, <3>4
  <2>4. CASE i # k + 1 /\ j # k + 1
    <3>1. /\ old(i) \in 1 .. n /\ old(j) \in 1 .. n /\ old(i) < old(j)
          /\ r[i] = q[old(i)] /\ r[j] = q[old(j)]
      BY <1>8, <1>8a, <2>4
    <3>2. QED
      BY <2>1, <3>1
  <2>5. QED
    BY <2>2, <2>3, <2>4
<1>12. \A i \in 1 .. n + 1 : r[i] = t \/ \E j \in 1 .. n : r[i] = q[j]
  BY <1>8, <1>8a
<1>13. QED
  BY <1>6, <1>7, <1>9, <1>11, <1>12 DEF Ordered

\* An ordered list is ordered still when some of its threads are removed.
LEMMA WithoutOrdered ==
    ASSUME NEW w \in [Thread -> Nat], NEW q, Ordered(q, w), NEW gone
    PROVE  /\ Ordered(list_without(q, gone), w)
           /\ \A i \in 1 .. Len(list_without(q, gone)) :
                /\ list_without(q, gone)[i] \notin gone
                /\ \E j \in 1 .. Len(q) : list_without(q, gone)[i] = q[j]
<1> DEFINE r == list_without(q, gone)
           n == Len(q)
           c == Len(r)
<1>1. q \in Seq(Thread) /\ n \in Nat
  BY DEF Ordered
<1>2. PICK e \in [1 .. c -> 1 .. n] :
        /\ Increasing(e, c)
        /\ \A i \in 1 .. c : r[i] = q[e[i]] /\ q[e[i]] \notin gone
  <2>1. KeptOf(list_without(q, gone), q, gone)
    BY <1>1, WithoutKeeps
  <2>2. QED
    BY <2>1 DEF KeptOf
<1>3. r \in Seq(Thread) /\ c \in Nat
  BY <1>1, WithoutKeeps
<1> HIDE DEF r, n, c
<1>4. /\ \A i \in 1 .. c : e[i] \in 1 .. n
      /\ \A i, j \in 1 .. c : i < j => e[i] < e[j]
  BY <1>2 DEF Increasing
<1>5. \A i, j \in 1 .. c : e[i] = e[j] => i = j
  <2>1. ASSUME NEW i \in 1 .. c, NEW j \in 1 .. c, e[i] = e[j]
        PROVE  i = j
    <3>1. e[i] \in Nat /\ ~ (i < j) /\ ~ (j < i)
      BY <1>1, <1>4, <2>1
    <3>2. QED
      BY <1>3, <3>1
  <2>2. QED
    BY <2>1
<1>6. \A i, j \in 1 .. c : r[i] = r[j] => i = j
  BY <1>2, <1>4, <1>5 DEF Ordered, n
<1>7. \A i, j \in 1 .. c : i < j => w[r[i]] <= w[r[j]]
  <2>1. \A x, y \in 1 .. n : x < y => w[q[x]] <= w[q[y]]
    BY DEF Ordered, n
  <2>2. QED
    BY <1>2, <1>4, <2>1
<1>8. QED
  BY <1>2, <1>3, <1>4, <1>6, <1>7 DEF Ordered, r, n, c

-----------------------------------------------------------------------------
(***************************************************************************)
(* The inductive invariant.                                                *)
(***************************************************************************)

\* A thread on the list is going to sleep or asleep, and was not upped.
ListInv ==
    \A i \in 1 .. Len(wait_list) :
        /\ pc[wait_list[i]] \in {"listed", "down", "blocked"}
        /\ value[wait_list[i]] = 0

\* A semaphore that is up belongs to a thread that is not awake, and whose
\* time is past.
SemInv ==
    \A t \in Thread : value[t] = 1 => /\ pc[t] \notin {"awake", "timed"}
                                      /\ ticks > wakeup_time[t]

IInv ==
    /\ TypeOK
    /\ Ordered(wait_list, wakeup_time)
    /\ ListInv
    /\ SemInv

LEMMA InitInv ==
    Init => IInv
<1> SUFFICES ASSUME Init PROVE IInv
  OBVIOUS
<1>1. wait_list \in Seq(Thread) /\ Len(wait_list) = 0
  BY DEF Init
<1>2. TypeOK
  <2>1. 0 \in 0 .. MaxTicks /\ 0 \in 0 .. 1
    BY AlarmAssumption
  <2>2. initialized \in [Thread -> BOOLEAN] /\ panicked \in BOOLEAN
    BY Zenon DEF Init
  <2>3. QED
    BY <1>1, <2>1, <2>2 DEF Init, TypeOK, PC
<1>3. Ordered(wait_list, wakeup_time) /\ ListInv
  BY <1>1 DEF Ordered, ListInv
<1>4. SemInv
  BY DEF Init, SemInv
<1>5. QED
  BY <1>2, <1>3, <1>4 DEF IInv

\* Changing the time of a thread that is not on the list.
LEMMA TimerSleepInv ==
    ASSUME IInv, NEW t \in Thread, NEW n \in Duration, TimerSleep(t, n)
    PROVE  IInv'
<1> DEFINE p == IF n < 0 THEN 0 ELSE n
<1>1. /\ TypeOK /\ Ordered(wait_list, wakeup_time) /\ ListInv /\ SemInv
  BY DEF IInv
<1>2. p \in Nat /\ MaxTicks \in Nat
  BY AlarmAssumption
<1>3. /\ pc[t] = "awake" /\ ticks + p < MaxTicks
      /\ wakeup_time' = [wakeup_time EXCEPT ![t] = ticks + p]
      /\ pc' = [pc EXCEPT ![t] = "timed"]
      /\ ticks' = ticks /\ wait_list' = wait_list /\ value' = value
      /\ initialized' = initialized /\ panicked' = panicked
  BY DEF TimerSleep
<1> HIDE DEF p
<1>4. TypeOK'
  <2>1. ticks + p \in 0 .. MaxTicks
    BY <1>1, <1>2, <1>3 DEF TypeOK
  <2>2. QED
    BY <1>1, <1>3, <2>1 DEF TypeOK, PC
<1>5. \A i \in 1 .. Len(wait_list) : /\ wait_list[i] \in Thread /\ wait_list[i] # t
                                     /\ wakeup_time'[wait_list[i]] = wakeup_time[wait_list[i]]
                                     /\ pc'[wait_list[i]] = pc[wait_list[i]]
  <2>1. \A i \in 1 .. Len(wait_list) : wait_list[i] \in Thread
    BY <1>1 DEF TypeOK
  <2>2. \A i \in 1 .. Len(wait_list) : wait_list[i] # t
    BY <1>1, <1>3 DEF ListInv
  <2>3. QED
    BY <1>1, <1>3, <2>1, <2>2 DEF TypeOK
<1>6. Ordered(wait_list, wakeup_time)'
  BY <1>1, <1>3, <1>5 DEF Ordered
<1>7. ListInv'
  BY <1>1, <1>3, <1>5 DEF ListInv
<1>8. SemInv'
  BY <1>1, <1>3 DEF SemInv, TypeOK
<1>9. QED
  BY <1>4, <1>6, <1>7, <1>8 DEF IInv

LEMMA ListInsertInv ==
    ASSUME IInv, NEW t \in Thread, ListInsert(t)
    PROVE  IInv'
<1> DEFINE r == list_insert_ordered(wait_list, t)
<1>1. /\ TypeOK /\ Ordered(wait_list, wakeup_time) /\ ListInv /\ SemInv
  BY DEF IInv
<1>2. /\ pc[t] = "timed" /\ wait_list' = r
      /\ pc' = [pc EXCEPT ![t] = "listed"]
      /\ ticks' = ticks /\ wakeup_time' = wakeup_time /\ value' = value
      /\ initialized' = initialized /\ panicked' = panicked
  BY DEF ListInsert
<1>3. wakeup_time \in [Thread -> Nat]
  BY <1>1, AlarmAssumption DEF TypeOK
<1>4. \A i \in 1 .. Len(wait_list) : wait_list[i] # t
  BY <1>1, <1>2 DEF ListInv
<1>5. /\ Ordered(r, wakeup_time)
      /\ \A i \in 1 .. Len(r) : r[i] = t \/ \E j \in 1 .. Len(wait_list) : r[i] = wait_list[j]
  BY <1>1, <1>3, <1>4, InsertOrdered
<1> HIDE DEF r
<1>6. TypeOK'
  BY <1>1, <1>2, <1>5 DEF TypeOK, PC, Ordered
<1>7. value[t] = 0
  BY <1>1, <1>2 DEF TypeOK, SemInv
<1>8. ListInv'
  <2> SUFFICES ASSUME NEW i \in 1 .. Len(r)
               PROVE  pc'[r[i]] \in {"listed", "down", "blocked"} /\ value[r[i]] = 0
    BY <1>2 DEF ListInv
  <2>1. CASE r[i] = t
    BY <1>1, <1>2, <1>7, <2>1 DEF TypeOK
  <2>2. CASE r[i] # t
    <3>1. PICK j \in 1 .. Len(wait_list) : r[i] = wait_list[j]
      BY <1>5, <2>2
    <3>2. r[i] \in Thread
      BY <1>1, <3>1 DEF TypeOK
    <3>3. pc'[r[i]] = pc[r[i]]
      BY <1>1, <1>2, <2>2, <3>2 DEF TypeOK
    <3>4. QED
      BY <1>1, <3>1, <3>3 DEF ListInv
  <2>3. QED
    BY <2>1, <2>2
<1>9. SemInv'
  BY <1>1, <1>2 DEF SemInv, TypeOK
<1>10. QED
  BY <1>2, <1>5, <1>6, <1>8, <1>9 DEF IInv

LEMMA SemaInitInv ==
    ASSUME IInv, NEW t \in Thread, SemaInit(t)
    PROVE  IInv'
<1>1. /\ TypeOK /\ Ordered(wait_list, wakeup_time) /\ ListInv /\ SemInv
  BY DEF IInv
<1>2. /\ pc[t] = "listed" /\ wait_list' = wait_list
      /\ pc' = [pc EXCEPT ![t] = "down"]
      /\ value' = [value EXCEPT ![t] = 0]
      /\ initialized' = [initialized EXCEPT ![t] = TRUE]
      /\ ticks' = ticks /\ wakeup_time' = wakeup_time /\ panicked' = panicked
  BY DEF SemaInit
<1>3. TypeOK'
  BY <1>1, <1>2 DEF TypeOK, PC
<1>4. \A i \in 1 .. Len(wait_list) : wait_list[i] \in Thread
  BY <1>1 DEF TypeOK
<1>5. ListInv'
  BY <1>1, <1>2, <1>4 DEF ListInv, TypeOK
<1>6. SemInv'
  BY <1>1, <1>2 DEF SemInv, TypeOK
<1>7. QED
  BY <1>1, <1>2, <1>3, <1>5, <1>6 DEF IInv

LEMMA SemaDownInv ==
    ASSUME IInv, NEW t \in Thread, SemaDown(t)
    PROVE  IInv'
<1>1. /\ TypeOK /\ Ordered(wait_list, wakeup_time) /\ ListInv /\ SemInv
  BY DEF IInv
<1>2. /\ pc[t] \in {"down", "woken"} /\ wait_list' = wait_list
      /\ initialized' = initialized
      /\ ticks' = ticks /\ wakeup_time' = wakeup_time /\ panicked' = panicked
  BY DEF SemaDown
<1>3. \A i \in 1 .. Len(wait_list) : wait_list[i] \in Thread
  BY <1>1 DEF TypeOK
<1>4. CASE value[t] > 0
  <2>1. value' = [value EXCEPT ![t] = value[t] - 1] /\ pc' = [pc EXCEPT ![t] = "awake"]
    BY <1>4 DEF SemaDown
  <2>2. value[t] = 1
    BY <1>1, <1>4 DEF TypeOK
  <2>3. value' = [value EXCEPT ![t] = 0]
    BY <2>1, <2>2
  <2>4. TypeOK'
    BY <1>1, <1>2, <2>1, <2>3 DEF TypeOK, PC
  <2>5. ListInv'
    BY <1>1, <1>2, <1>3, <2>1, <2>2, <2>3 DEF ListInv, TypeOK
  <2>6. SemInv'
    BY <1>1, <1>2, <2>1, <2>3 DEF SemInv, TypeOK
  <2>7. QED
    BY <1>1, <1>2, <2>4, <2>5, <2>6 DEF IInv
<1>5. CASE ~ (value[t] > 0)
  <2>1. value' = value /\ pc' = [pc EXCEPT ![t] = "blocked"]
    BY <1>5 DEF SemaDown
  <2>2. TypeOK'
    BY <1>1, <1>2, <2>1 DEF TypeOK, PC
  <2>3. ListInv'
    BY <1>1, <1>2, <1>3, <2>1 DEF ListInv, TypeOK
  <2>4. SemInv'
    BY <1>1, <1>2, <2>1 DEF SemInv, TypeOK
  <2>5. QED
    BY <1>1, <1>2, <2>2, <2>3, <2>4 DEF IInv
<1>6. QED
  BY <1>4, <1>5

LEMMA TimerInterruptInv ==
    ASSUME IInv, TimerInterrupt
    PROVE  IInv'
<1> DEFINE now == IF ticks < MaxTicks THEN ticks + 1 ELSE ticks
           ups == {t \in Range(wait_list) : due(now, t)}
           r == list_without(wait_list, ups)
<1>1. /\ TypeOK /\ Ordered(wait_list, wakeup_time) /\ ListInv /\ SemInv
  BY DEF IInv
<1>2. /\ ticks' = now /\ thread_wake_routine(now)
      /\ wakeup_time' = wakeup_time /\ initialized' = initialized
  BY DEF TimerInterrupt
<1>3. now \in 0 .. MaxTicks /\ now >= ticks /\ ticks \in Nat
  BY <1>1, AlarmAssumption DEF TypeOK
<1>4. wakeup_time \in [Thread -> Nat]
  BY <1>1, AlarmAssumption DEF TypeOK
<1>5. /\ \A i \in 1 .. Len(wait_list) : wait_list[i] \in Thread
      /\ \A t : t \in Range(wait_list) <=> \E i \in 1 .. Len(wait_list) : t = wait_list[i]
  BY <1>1 DEF TypeOK, Range
<1> HIDE DEF now
<1>6. \A i \in 1 .. Len(wait_list) : wait_list[i] \in ups <=> now > wakeup_time[wait_list[i]]
  BY <1>5 DEF due
<1>7. \A t \in ups : /\ t \in Thread /\ value[t] = 0 /\ now > wakeup_time[t]
                     /\ pc[t] \in {"listed", "down", "blocked"}
  BY <1>1, <1>5 DEF due, ListInv
<1> HIDE DEF ups
<1>8. CASE \A t \in ups : initialized[t]
  <2>1. /\ wait_list' = r
        /\ value' = [t \in Thread |-> IF t \in ups THEN value[t] + 1 ELSE value[t]]
        /\ pc' = [t \in Thread |-> IF t \in ups /\ pc[t] = "blocked"
                                   THEN "woken" ELSE pc[t]]
        /\ panicked' = panicked
    BY <1>2, <1>8 DEF thread_wake_routine, ups
  <2>2. /\ Ordered(r, wakeup_time)
        /\ \A i \in 1 .. Len(r) : /\ r[i] \notin ups
                                   /\ \E j \in 1 .. Len(wait_list) : r[i] = wait_list[j]
    BY <1>1, <1>4, WithoutOrdered
  <2> HIDE DEF r
  <2>3. \A t \in Thread : value'[t] = IF t \in ups THEN 1 ELSE value[t]
    BY <1>7, <2>1
  <2>4. \A t \in Thread : pc'[t] = IF t \in ups /\ pc[t] = "blocked" THEN "woken" ELSE pc[t]
    BY <2>1
  <2>5. TypeOK'
    <3>1. value' \in [Thread -> 0 .. 1]
      <4>1. \A t \in Thread : value'[t] \in 0 .. 1
        BY <1>1, <2>3 DEF TypeOK
      <4>2. QED
        BY <2>1, <4>1
    <3>2. pc' \in [Thread -> PC]
      BY <1>1, <2>1 DEF TypeOK, PC
    <3>3. QED
      BY <1>1, <1>2, <1>3, <2>1, <2>2, <3>1, <3>2 DEF TypeOK, Ordered
  <2>6. ListInv'
    <3> SUFFICES ASSUME NEW i \in 1 .. Len(r)
                 PROVE  pc'[r[i]] \in {"listed", "down", "blocked"} /\ value'[r[i]] = 0
      BY <2>1 DEF ListInv
    <3>1. PICK j \in 1 .. Len(wait_list) : r[i] = wait_list[j]
      BY <2>2
    <3>2. r[i] \in Thread /\ r[i] \notin ups
      BY <1>5, <2>2, <3>1
    <3>3. QED
      BY <1>1, <2>3, <2>4, <3>1, <3>2 DEF ListInv
  <2>7. SemInv'
    <3> SUFFICES ASSUME NEW t \in Thread, value'[t] = 1
                 PROVE  pc'[t] \notin {"awake", "timed"} /\ now > wakeup_time[t]
      BY <1>2 DEF SemInv
    <3>1. CASE t \in ups
      BY <1>7, <2>4, <3>1
    <3>2. CASE t \notin ups
      <4>1. value[t] = 1 /\ pc'[t] = pc[t]
        BY <2>3, <2>4, <3>2
      <4>2. pc[t] \notin {"awake", "timed"} /\ ticks > wakeup_time[t]
        BY <1>1, <4>1 DEF SemInv
      <4>3. wakeup_time[t] \in Nat /\ now \in Nat
        BY <1>3, <1>4
      <4>4. QED
        BY <1>3, <4>1, <4>2, <4>3
    <3>3. QED
      BY <3>1, <3>2
  <2>8. QED
    BY <1>2, <2>1, <2>2, <2>5, <2>6, <2>7 DEF IInv
<1>9. CASE ~ (\A t \in ups : initialized[t])
  <2>1. wait_list' = wait_list /\ value' = value /\ pc' = pc /\ panicked' = TRUE
    BY <1>2, <1>9 DEF thread_wake_routine, ups
  <2>2. TypeOK'
    BY <1>1, <1>2, <1>3, <2>1 DEF TypeOK
  <2>3. SemInv'
    <3>1. \A t \in Thread : ticks > wakeup_time[t] => now > wakeup_time[t]
      BY <1>3, <1>4
    <3>2. QED
      BY <1>1, <1>2, <2>1, <3>1 DEF SemInv
  <2>4. QED
    BY <1>1, <1>2, <2>1, <2>2, <2>3 DEF IInv, ListInv
<1>10. QED
  BY <1>8, <1>9

LEMMA NextInv ==
    IInv /\ [Next]_vars => IInv'
<1> SUFFICES ASSUME IInv, [Next]_vars PROVE IInv'
  OBVIOUS
<1>1. CASE \E t \in Thread, n \in Duration : TimerSleep(t, n)
  BY <1>1, TimerSleepInv
<1>2. CASE \E t \in Thread : ThreadSleep(t)
  BY <1>2, ListInsertInv, SemaInitInv, SemaDownInv DEF ThreadSleep
<1>3. CASE TimerInterrupt
  BY <1>3, TimerInterruptInv
<1>4. CASE UNCHANGED vars
  BY <1>4 DEF vars, IInv, TypeOK, Ordered, ListInv, SemInv
<1>5. QED
  BY <1>1, <1>2, <1>3, <1>4 DEF Next

\* The invariant of the alarm clock: a thread on wait_list is upped by no one
\* before timer_interrupt() takes it off, once its time is past.
THEOREM AlarmInvariant ==
    Spec => []IInv
<1>1. QED
  BY InitInv, NextInv, PTL DEF Spec

\* The variables have their types; no semaphore counts past 1, although every
\* sleep of a thread uses the same one.
THEOREM TypeCorrect ==
    Spec => []TypeOK
<1>1. IInv => TypeOK
  BY DEF IInv
<1>2. QED
  BY AlarmInvariant, <1>1, PTL

\* list_insert_ordered() and the interrupt's list_remove() keep wait_list
\* ordered by wakeup time, with each sleeper once.
THEOREM WaitListAlwaysSorted ==
    Spec => []WaitListSorted
<1>1. IInv => WaitListSorted
  BY DEF IInv, Ordered, WaitListSorted, IsInjective
<1>2. QED
  BY AlarmInvariant, <1>1, PTL

\* timer_sleep() does not return before the thread's time has come.
THEOREM SleepsLongEnough ==
    Spec => NeverEarly
<1> DEFINE A == \A t \in Thread :
                  pc[t] # "awake" /\ pc'[t] = "awake" => ticks >= wakeup_time[t]
<1>1. IInv /\ [Next]_vars => [A]_vars
  <2> SUFFICES ASSUME IInv, Next, NEW t \in Thread, pc[t] # "awake", pc'[t] = "awake"
               PROVE  ticks >= wakeup_time[t]
    OBVIOUS
  <2>1. TypeOK /\ SemInv
    BY DEF IInv
  <2>2. value[t] = 1 => ticks >= wakeup_time[t]
    BY <2>1, AlarmAssumption DEF TypeOK, SemInv
  <2>3. CASE \E u \in Thread, n \in Duration : TimerSleep(u, n)
    BY <2>1, <2>3 DEF TimerSleep, TypeOK
  <2>4. CASE \E u \in Thread : ListInsert(u) \/ SemaInit(u)
    BY <2>1, <2>4 DEF ListInsert, SemaInit, TypeOK
  <2>5. CASE \E u \in Thread : SemaDown(u)
    <3>1. PICK u \in Thread : SemaDown(u)
      BY <2>5
    <3>2. value[u] > 0 /\ u = t
      BY <2>1, <3>1 DEF SemaDown, TypeOK
    <3>3. value[t] = 1
      BY <2>1, <3>2 DEF TypeOK
    <3>4. QED
      BY <2>2, <3>3
  <2>6. CASE TimerInterrupt
    BY <2>1, <2>6 DEF TimerInterrupt, thread_wake_routine, TypeOK
  <2>7. QED
    BY <2>3, <2>4, <2>5, <2>6 DEF Next, ThreadSleep
<1>2. QED
  BY AlarmInvariant, <1>1, PTL DEF NeverEarly, Spec

-----------------------------------------------------------------------------
(***************************************************************************)
(* The IDE channel (module Ide).                                           *)
(***************************************************************************)

Transfers == [drive : Drive, sector : Sector, data : Word, write : BOOLEAN]
InCall == {"select", "issue", "sleep", "busy", "done", "panic"}
Phases == {"idle", "getting", "reading", "data in", "data out", "writing", "failed"}

IdeType ==
  /\ ipc \in [User -> {"idle", "lock"} \cup InCall]
  /\ io \in [User -> Transfers \cup {NULL}]
  /\ got \in [User -> Word]
  /\ completion_wait \in Nat /\ irq \in BOOLEAN /\ expecting_interrupt \in BOOLEAN
  /\ drive \in [Drive -> [phase : Phases, sector : Sector \cup {NULL}]]
  /\ \A d \in Drive : drive[d].phase # "idle" => drive[d].sector \in Sector
  /\ port \in Word /\ platter \in [Drive \X Sector -> Word]

\* A thread in the driver holds the channel's lock and knows its transfer.
Locked ==
  \A u \in User : /\ ipc[u] \in InCall => chan_lock = u
                  /\ ipc[u] # "idle" => io[u] \in Transfers

\* No interrupt that the driver would count is pending or counted.
Quiet == completion_wait = 0 /\ (irq => ~ expecting_interrupt)
AllIdle == \A d \in Drive : drive[d].phase = "idle"

\* Exactly one completion, pending or counted; or none.
OneDone == \/ irq /\ expecting_interrupt /\ completion_wait = 0
           \/ ~ irq /\ completion_wait = 1
NoneDone == ~ irq /\ completion_wait = 0

\* How far the disk may be, for each place of the thread that uses it.
Selecting(u) == ipc[u] = "select" => AllIdle /\ Quiet

Issuing(u) ==
  ipc[u] = "issue" => AllIdle /\ NoneDone /\ selected = <<io[u].drive, io[u].sector>>

OthersIdle(u) ==
  ipc[u] \in {"sleep", "busy"} =>
    /\ expecting_interrupt
    /\ \A e \in Drive : e # io[u].drive => drive[e].phase = "idle"

Reading(u) ==
  LET d == drive[io[u].drive] IN
  ipc[u] = "sleep" /\ ~ io[u].write =>
    /\ d.sector = io[u].sector
    /\ \/ d.phase = "reading" /\ NoneDone
       \/ d.phase = "failed" /\ OneDone
       \/ d.phase = "data in" /\ OneDone /\ port = platter[<<io[u].drive, io[u].sector>>]

Fetching(u) ==
  LET d == drive[io[u].drive] IN
  ipc[u] = "busy" /\ ~ io[u].write =>
    /\ d.phase \in {"failed", "data in"} /\ NoneDone
    /\ d.phase = "data in" => port = platter[<<io[u].drive, io[u].sector>>]

Sending(u) ==
  LET d == drive[io[u].drive] IN
  ipc[u] = "busy" /\ io[u].write =>
    d.sector = io[u].sector /\ d.phase \in {"getting", "data out"} /\ NoneDone

Storing(u) ==
  LET d == drive[io[u].drive] IN
  ipc[u] = "sleep" /\ io[u].write =>
    \/ /\ d.phase = "writing" /\ d.sector = io[u].sector
       /\ NoneDone /\ port = io[u].data
    \/ /\ d.phase = "idle" /\ OneDone
       /\ platter[<<io[u].drive, io[u].sector>>] = io[u].data

Finished(u) ==
  ipc[u] = "done" =>
    /\ AllIdle /\ NoneDone
    /\ io[u].write => platter[<<io[u].drive, io[u].sector>>] = io[u].data
    /\ ~ io[u].write => platter[<<io[u].drive, io[u].sector>>] = got[u]

Disks(u) == /\ Selecting(u) /\ Issuing(u) /\ OthersIdle(u) /\ Reading(u)
            /\ Fetching(u) /\ Sending(u) /\ Storing(u) /\ Finished(u)

Free == chan_lock = NULL => AllIdle /\ Quiet

IdeInv == IdeType /\ Locked /\ Free /\ \A u \in User : Disks(u)

-----------------------------------------------------------------------------
\* The invariant holds after the channel's reset, with or without an interrupt
\* pending from it (reset_channel()).
LEMMA IdeStarts == ASSUME NULL \notin User, IdeInit PROVE IdeInv
<1> USE DEF IdeInit, InCall, Phases
<1>1. Ready \in [phase : Phases, sector : Sector \cup {NULL}] /\ Ready.phase = "idle"
  BY DEF Ready
<1>2. IdeType
  BY <1>1 DEF IdeType
<1>3. Locked
  BY DEF Locked
<1>4. Free
  BY <1>1 DEF Free, AllIdle, Quiet
<1>5. ASSUME NEW u \in User PROVE Disks(u)
  BY DEF Disks, Selecting, Issuing, OthersIdle, Reading, Fetching, Sending,
           Storing, Finished
<1> QED BY <1>2, <1>3, <1>4, <1>5 DEF IdeInv

-----------------------------------------------------------------------------
\* Only one thread is in the driver.
LEMMA OneInCall ==
  ASSUME IdeInv, NEW u \in User, ipc[u] \in InCall, NEW v \in User, v # u
  PROVE  ipc[v] \in {"idle", "lock"}
BY DEF IdeInv, IdeType, Locked

\* A step of the thread in the driver keeps what concerns the others.
LEMMA OthersOutside ==
  ASSUME IdeInv, NEW u \in User, ipc[u] \in InCall, NEW x,
         ipc' = [ipc EXCEPT ![u] = x], NEW v \in User, v # u
  PROVE  Disks(v)'
<1>1. ipc'[v] \in {"idle", "lock"}
  BY OneInCall DEF IdeInv, IdeType
<1> QED BY <1>1 DEF Disks, Selecting, Issuing, OthersIdle, Reading, Fetching, Sending,
           Storing, Finished

\* A disk that goes to another phase keeps its sector, and the others all.
LEMMA PhaseSet ==
  ASSUME IdeType, NEW d \in Drive, NEW ph \in Phases,
         drive' = [drive EXCEPT ![d].phase = ph]
  PROVE  /\ drive' \in [Drive -> [phase : Phases, sector : Sector \cup {NULL}]]
         /\ drive'[d].phase = ph /\ drive'[d].sector = drive[d].sector
         /\ \A e \in Drive : e # d => drive'[e] = drive[e]
BY DEF IdeType

\* A thread still outside the driver enters or leaves nothing there.
LEMMA CallKeeps ==
  ASSUME IdeInv, NEW u \in User, Call(u) PROVE IdeInv'
<1> USE DEF IdeInv, InCall, Transfers, Call, at
<1>1. ipc[u] = "idle" /\ ipc' = [ipc EXCEPT ![u] = "lock"]
  OBVIOUS
<1>2. PICK t \in Transfers : io' = [io EXCEPT ![u] = t]
  OBVIOUS
<1>3. IdeType'
  BY <1>1, <1>2 DEF IdeType
<1>4. Locked'
  BY <1>1, <1>2 DEF IdeType, Locked
<1>5. Free'
  BY DEF Free, AllIdle, Quiet
<1>6. ASSUME NEW v \in User PROVE Disks(v)'
  <2>1. CASE v = u
    BY <1>1, <2>1 DEF IdeType, Disks, Selecting, Issuing, OthersIdle, Reading, Fetching,
           Sending, Storing, Finished
  <2>2. CASE v # u
    <3>1. ipc'[v] = ipc[v] /\ io'[v] = io[v] /\ Disks(v)
      BY <1>1, <1>2, <2>2 DEF IdeType
    <3>2. AllIdle' = AllIdle /\ Quiet' = Quiet /\ NoneDone' = NoneDone /\ OneDone' = OneDone
      BY DEF AllIdle, Quiet, NoneDone, OneDone
    <3>3. Selecting(v)' /\ Issuing(v)' /\ OthersIdle(v)'
      BY <3>1, <3>2 DEF Disks, Selecting, Issuing, OthersIdle
    <3>4. Reading(v)' /\ Fetching(v)'
      BY <3>1, <3>2 DEF Disks, Reading, Fetching
    <3>5. Sending(v)' /\ Storing(v)' /\ Finished(v)'
      BY <3>1, <3>2 DEF Disks, Sending, Storing, Finished
    <3> QED BY <3>3, <3>4, <3>5 DEF Disks
  <2> QED BY <2>1, <2>2
<1> QED BY <1>3, <1>4, <1>5, <1>6

\* Taking the channel's lock and choosing the sector.
LEMMA SelectKeeps ==
  ASSUME NULL \notin User, IdeInv, NEW u \in User, LockChannel(u) \/ select_sector(u)
  PROVE  IdeInv'
<1> USE DEF IdeInv, InCall, at
<1>1. CASE LockChannel(u)
  <2> USE <1>1 DEF LockChannel
  <2>1. IdeType'
    BY DEF IdeType
  <2>2. \A v \in User : ipc[v] \in {"idle", "lock"}
    BY DEF IdeType, Locked
  <2>3. Locked'
    BY <2>2 DEF IdeType, Locked
  <2>4. Free'
    BY DEF Free
  <2>5. AllIdle' /\ Quiet'
    BY DEF Free, AllIdle, Quiet
  <2>6. ASSUME NEW v \in User PROVE Disks(v)'
    <3>1. ipc'[v] \in {"idle", "lock", "select"}
      BY <2>2 DEF IdeType
    <3> QED BY <2>5, <3>1
        DEF Disks, Selecting, Issuing, OthersIdle, Reading, Fetching, Sending,
           Storing, Finished
  <2> QED BY <2>1, <2>3, <2>4, <2>6
<1>2. CASE select_sector(u)
  <2> USE <1>2 DEF select_sector
  <2>1. IdeType'
    BY DEF IdeType
  <2>2. Locked' /\ Free'
    BY DEF IdeType, Locked, Free
  <2>3. AllIdle' /\ NoneDone' /\ ipc'[u] = "issue"
    BY DEF IdeType, Disks, Selecting, AllIdle, Quiet, NoneDone
  <2>4. Disks(u)'
    BY <2>3 DEF Disks, Selecting, Issuing, OthersIdle, Reading, Fetching, Sending,
           Storing, Finished
  <2>5. ASSUME NEW v \in User, v # u PROVE Disks(v)'
    BY <2>5, OthersOutside
  <2> QED BY <2>1, <2>2, <2>4, <2>5
<1> QED BY <1>1, <1>2

\* Giving the disk its command.
LEMMA IssueKeeps ==
  ASSUME NULL \notin User, IdeInv, NEW u \in User, issue_pio_command(u) PROVE IdeInv'
<1> USE DEF IdeInv, InCall, Transfers, issue_pio_command, at
<1>1. /\ io[u] \in Transfers /\ selected = <<io[u].drive, io[u].sector>>
      /\ AllIdle /\ NoneDone /\ chan_lock = u
  BY DEF Locked, Disks, Issuing
<1>2. PICK ph \in {"getting", "reading"}, x \in {"busy", "sleep"} :
        /\ IF io[u].write THEN ph = "getting" /\ x = "busy"
                          ELSE ph = "reading" /\ x = "sleep"
        /\ ipc' = [ipc EXCEPT ![u] = x]
        /\ drive' = [drive EXCEPT ![io[u].drive] = [phase |-> ph, sector |-> io[u].sector]]
  BY <1>1
<1>3. IdeType'
  <2>1. [phase |-> ph, sector |-> io[u].sector] \in
          [phase : Phases, sector : Sector \cup {NULL}]
    BY <1>1 DEF Phases
  <2>2. drive' \in [Drive -> [phase : Phases, sector : Sector \cup {NULL}]]
    BY <1>1, <1>2, <2>1 DEF IdeType
  <2>3. \A e \in Drive : drive'[e].phase # "idle" => drive'[e].sector \in Sector
    BY <1>1, <1>2 DEF IdeType
  <2> QED BY <1>2, <2>2, <2>3 DEF IdeType
<1>4. Locked' /\ Free'
  BY <1>1, <1>2 DEF IdeType, Locked, Free
<1>5. /\ drive'[io[u].drive].phase = ph /\ drive'[io[u].drive].sector = io[u].sector
      /\ \A e \in Drive : e # io[u].drive => drive'[e].phase = "idle"
      /\ ipc'[u] = x
  BY <1>1, <1>2 DEF IdeType, AllIdle
<1>6. Disks(u)'
  BY <1>1, <1>2, <1>5 DEF Disks, Selecting, Issuing, OthersIdle, Reading, Fetching, Sending,
           Storing, Finished, NoneDone
<1>7. ASSUME NEW v \in User, v # u PROVE Disks(v)'
  BY <1>2, <1>7, OthersOutside
<1> QED BY <1>3, <1>4, <1>6, <1>7

\* Returning from sema_down().
LEMMA AwaitKeeps ==
  ASSUME NULL \notin User, IdeInv, NEW u \in User, AwaitCompletion(u) PROVE IdeInv'
<1> USE DEF IdeInv, InCall, Transfers, AwaitCompletion, at
<1>1. /\ ipc[u] = "sleep" /\ io[u] \in Transfers /\ io[u].drive \in Drive
      /\ Reading(u) /\ Storing(u) /\ OthersIdle(u)
  BY DEF Locked, Disks
<1>2. PICK x \in {"done", "busy"} : /\ ipc' = [ipc EXCEPT ![u] = x] /\ ipc'[u] = x
                                  /\ IF io[u].write THEN x = "done" ELSE x = "busy"
  BY DEF IdeType
<1>3. IdeType'
  BY <1>2 DEF IdeType
<1>4. Locked' /\ Free'
  BY <1>2 DEF IdeType, Locked, Free
<1>5. ~ NoneDone
  BY DEF IdeType, NoneDone
<1>6. OneDone
  BY <1>1, <1>5 DEF Reading, Storing
<1>7. NoneDone'
  BY <1>6 DEF IdeType, OneDone, NoneDone
<1>8. Disks(u)'
  <2>1. CASE io[u].write
    <3>1. /\ drive[io[u].drive].phase = "idle"
          /\ platter[<<io[u].drive, io[u].sector>>] = io[u].data
      BY <1>1, <1>5, <2>1 DEF Storing
    <3>2. AllIdle'
      BY <1>1, <3>1 DEF OthersIdle, AllIdle
    <3> QED BY <1>2, <1>7, <2>1, <3>1, <3>2
        DEF Disks, Selecting, Issuing, OthersIdle, Reading, Fetching, Sending,
           Storing, Finished
  <2>2. CASE ~ io[u].write
    <3>1. /\ drive[io[u].drive].phase \in {"failed", "data in"}
          /\ drive[io[u].drive].phase = "data in" => port = platter[<<io[u].drive, io[u].sector>>]
      BY <1>1, <1>5, <2>2 DEF Reading
    <3>2. OthersIdle(u)'
      BY <1>1 DEF OthersIdle
    <3> QED BY <1>2, <1>7, <2>2, <3>1, <3>2
        DEF Disks, Selecting, Issuing, OthersIdle, Reading, Fetching, Sending,
           Storing, Finished
  <2> QED BY <2>1, <2>2
<1>9. ASSUME NEW v \in User, v # u PROVE Disks(v)'
  BY <1>1, <1>2, <1>9, OthersOutside
<1> QED BY <1>3, <1>4, <1>8, <1>9
\* Moving the sector between the port and memory, or the panic without data.
LEMMA BusyKeeps ==
  ASSUME NULL \notin User, IdeInv, NEW u \in User, wait_while_busy(u) PROVE IdeInv'
<1> DEFINE d == io[u].drive
<1> USE DEF IdeInv, InCall, Transfers, wait_while_busy, at
<1>1. /\ ipc[u] = "busy" /\ chan_lock = u /\ io[u] \in Transfers /\ d \in Drive
      /\ Fetching(u) /\ Sending(u) /\ OthersIdle(u)
  BY DEF Locked, Disks
<1>2. PICK x \in {"done", "sleep", "panic"} : ipc' = [ipc EXCEPT ![u] = x] /\ ipc'[u] = x
  BY DEF IdeType
<1>3. ASSUME NEW v \in User, v # u PROVE Disks(v)'
  BY <1>1, <1>2, <1>3, OthersOutside
<1>4. Locked' /\ Free'
  BY <1>1, <1>2 DEF IdeType, Locked, Free
<1>5. CASE x = "panic"
  <2>1. UNCHANGED <<got, drive, port>>
    BY <1>1, <1>2, <1>5 DEF IdeType
  <2>2. IdeType'
    BY <1>2, <2>1 DEF IdeType
  <2>3. Disks(u)'
    BY <1>2, <1>5 DEF Disks, Selecting, Issuing, OthersIdle, Reading, Fetching, Sending,
           Storing, Finished
  <2> QED BY <1>3, <1>4, <2>2, <2>3
<1>6. CASE x = "done"
  <2>1. /\ drive[d].phase = "data in" /\ ~ io[u].write
        /\ got' = [got EXCEPT ![u] = port]
        /\ drive' = [drive EXCEPT ![d] = Ready] /\ UNCHANGED port
    BY <1>1, <1>2, <1>6 DEF IdeType
  <2>2. port = platter[<<d, io[u].sector>>] /\ NoneDone
    BY <1>1, <2>1 DEF Fetching
  <2>3. port \in Word
    BY <1>1, <2>2 DEF IdeType
  <2>4. Ready \in [phase : Phases, sector : Sector \cup {NULL}] /\ Ready.phase = "idle"
    BY DEF Ready, Phases
  <2>5. IdeType'
    BY <1>2, <2>1, <2>3, <2>4 DEF IdeType
  <2>6. AllIdle'
    BY <1>1, <2>1, <2>4 DEF IdeType, OthersIdle, AllIdle
  <2>7. got'[u] = port /\ NoneDone'
    BY <2>1, <2>2 DEF IdeType, NoneDone
  <2>8. Disks(u)'
    BY <1>2, <1>6, <2>1, <2>2, <2>6, <2>7
        DEF Disks, Selecting, Issuing, OthersIdle, Reading, Fetching, Sending,
           Storing, Finished
  <2> QED BY <1>3, <1>4, <2>5, <2>8
<1>7. CASE x = "sleep"
  <2>1. /\ io[u].write /\ port' = io[u].data /\ UNCHANGED got
        /\ drive' = [drive EXCEPT ![d].phase = "writing"]
    BY <1>1, <1>2, <1>7 DEF IdeType
  <2>a. drive[d].sector = io[u].sector /\ NoneDone /\ drive[d].phase # "idle"
    BY <1>1, <2>1 DEF Sending
  <2>b. \A e \in Drive : e # d => drive[e].phase = "idle"
    BY <1>1 DEF OthersIdle
  <2>c. /\ drive' \in [Drive -> [phase : Phases, sector : Sector \cup {NULL}]]
        /\ drive'[d].phase = "writing" /\ drive'[d].sector = drive[d].sector
        /\ \A e \in Drive : e # d => drive'[e] = drive[e]
    <3> HIDE DEF wait_while_busy
    <3> QED BY <1>1, <2>1, PhaseSet DEF Phases
  <2>2. /\ drive'[d].phase = "writing" /\ drive'[d].sector = io[u].sector
        /\ \A e \in Drive : e # d => drive'[e].phase = "idle"
        /\ NoneDone'
    BY <2>a, <2>b, <2>c DEF NoneDone
  <2>3. IdeType'
    <3>1. \A e \in Drive : drive'[e].phase # "idle" => drive'[e].sector \in Sector
      BY <1>1, <2>2
    <3>2. port' \in Word
      BY <1>1, <2>1
    <3> QED BY <1>2, <2>1, <2>c, <3>1, <3>2 DEF IdeType
  <2>4. OthersIdle(u)'
    BY <1>1, <2>2 DEF OthersIdle
  <2>5. Disks(u)'
    BY <1>2, <1>7, <2>1, <2>2, <2>4
        DEF Disks, Selecting, Issuing, OthersIdle, Reading, Fetching, Sending,
           Storing, Finished
  <2> QED BY <1>3, <1>4, <2>3, <2>5
<1> QED BY <1>2, <1>5, <1>6, <1>7

\* Releasing the lock: the channel is quiet again.
LEMMA ReleaseKeeps ==
  ASSUME NULL \notin User, IdeInv, NEW u \in User, Release(u) PROVE IdeInv'
<1> USE DEF IdeInv, InCall, Release, at
<1>1. IdeType' /\ ipc'[u] = "idle"
  BY DEF IdeType
<1>2. \A v \in User : v # u => ipc[v] \in {"idle", "lock"}
  BY OneInCall
<1>3. Locked'
  BY <1>2 DEF IdeType, Locked
<1>4. Free'
  BY DEF Free, Disks, Finished, AllIdle, NoneDone, Quiet
<1>5. Disks(u)'
  BY <1>1 DEF Disks, Selecting, Issuing, OthersIdle, Reading, Fetching, Sending,
           Storing, Finished
<1>6. ASSUME NEW v \in User, v # u PROVE Disks(v)'
  BY <1>6, OthersOutside
<1> QED BY <1>1, <1>3, <1>4, <1>5, <1>6

\* The interrupt handler turns the pending completion into a counted one.
LEMMA InterruptKeeps ==
  ASSUME IdeInv, interrupt_handler PROVE IdeInv'
<1> USE DEF IdeInv, interrupt_handler
<1>1. IdeType' /\ Locked'
  <2>1. completion_wait' \in Nat
    <3>1. CASE expecting_interrupt
      BY <3>1 DEF IdeType
    <3>2. CASE ~ expecting_interrupt
      BY <3>2 DEF IdeType
    <3> QED BY <3>1, <3>2
  <2> QED BY <2>1 DEF IdeType, Locked
<1>2. AllIdle' = AllIdle /\ ~ NoneDone
  BY DEF AllIdle, NoneDone
<1>3. (Quiet => NoneDone' /\ Quiet') /\ (OneDone => OneDone')
  BY DEF IdeType, Quiet, OneDone, NoneDone
<1>4. Free'
  BY <1>2, <1>3 DEF Free
<1>5. ASSUME NEW u \in User PROVE Disks(u)'
  <2>1. Disks(u)
    OBVIOUS
  <2>2. Selecting(u)' /\ Issuing(u)' /\ OthersIdle(u)'
    BY <1>2, <1>3, <2>1 DEF Disks, Selecting, Issuing, OthersIdle
  <2>3. Reading(u)' /\ Fetching(u)'
    BY <1>2, <1>3, <2>1 DEF Disks, Reading, Fetching
  <2>4. Sending(u)' /\ Storing(u)' /\ Finished(u)'
    BY <1>2, <1>3, <2>1 DEF Disks, Sending, Storing, Finished
  <2> QED BY <2>2, <2>3, <2>4 DEF Disks
<1> QED BY <1>1, <1>4, <1>5

\* A disk works only for the thread that holds the channel's lock.
LEMMA DiskKeeps ==
  ASSUME IdeInv, NEW d \in Drive, Disk(d) PROVE IdeInv'
<1>1. IdeType /\ Locked /\ Free /\ \A u \in User : Disks(u)
  BY DEF IdeInv
<1>2. /\ DiskAcceptsWrite(d) \/ DiskReads(d) \/ DiskStores(d)
      /\ UNCHANGED <<ipc, io, got, chan_lock, completion_wait, expecting_interrupt, selected>>
  BY DEF Disk
<1>3. drive[d].phase \in {"getting", "reading", "writing"} /\ ~ AllIdle
  BY <1>2 DEF DiskAcceptsWrite, DiskReads, DiskStores, AllIdle
<1>4. Locked' /\ Free'
  BY <1>1, <1>2, <1>3 DEF Locked, Free, InCall
<1>5. ASSUME NEW u \in User, ipc[u] \in {"idle", "lock", "panic"} PROVE Disks(u)'
  BY <1>2, <1>5 DEF Disks, Selecting, Issuing, OthersIdle, Reading, Fetching,
                    Sending, Storing, Finished
<1>6. ASSUME NEW u \in User, ipc[u] \notin {"idle", "lock", "panic"}
      PROVE  /\ ipc[u] \in {"sleep", "busy"} /\ io[u] \in Transfers
             /\ d = io[u].drive /\ expecting_interrupt
             /\ \A e \in Drive : e # d => drive[e].phase = "idle"
  <2>1. Disks(u) /\ ipc[u] \in {"idle", "lock"} \cup InCall
    BY <1>1 DEF IdeType
  <2>2. ipc[u] \in {"sleep", "busy"}
    BY <1>3, <1>6, <2>1 DEF InCall, Disks, Selecting, Issuing, Finished
  <2>3. io[u] \in Transfers
    BY <1>1, <2>2 DEF Locked
  <2>4. expecting_interrupt /\ \A e \in Drive : e # io[u].drive => drive[e].phase = "idle"
    BY <2>1, <2>2 DEF Disks, OthersIdle
  <2>5. d = io[u].drive
    BY <1>3, <2>4
  <2> QED BY <2>2, <2>3, <2>4, <2>5
<1>7. ASSUME NEW u \in User, ipc[u] \notin {"idle", "lock", "panic"},
             \A e \in Drive : e # d => drive'[e] = drive[e]
      PROVE  OthersIdle(u)'
  BY <1>2, <1>6, <1>7 DEF OthersIdle
<1>8. CASE DiskAcceptsWrite(d)
  <2>1. /\ drive[d].phase = "getting" /\ drive' = [drive EXCEPT ![d].phase = "data out"]
        /\ UNCHANGED <<port, irq, platter>>
    BY <1>8 DEF DiskAcceptsWrite
  <2>2. /\ drive' \in [Drive -> [phase : Phases, sector : Sector \cup {NULL}]]
        /\ drive'[d].phase = "data out" /\ drive'[d].sector = drive[d].sector
        /\ \A e \in Drive : e # d => drive'[e] = drive[e]
    BY <1>1, <2>1, PhaseSet DEF Phases
  <2>3. IdeType'
    <3>1. \A e \in Drive : drive'[e].phase # "idle" => drive'[e].sector \in Sector
      BY <1>1, <2>1, <2>2 DEF IdeType
    <3> QED BY <1>1, <1>2, <2>1, <2>2, <3>1 DEF IdeType
  <2>4. ASSUME NEW u \in User, ipc[u] \notin {"idle", "lock", "panic"} PROVE Disks(u)'
    <3>1. ipc[u] = "busy" /\ io[u].write /\ Sending(u)
      BY <1>1, <1>6, <2>1, <2>4 DEF Disks, Reading, Fetching, Storing
    <3>2. drive[d].sector = io[u].sector /\ NoneDone /\ d = io[u].drive
      BY <1>6, <2>4, <3>1 DEF Sending
    <3>3. NoneDone'
      BY <1>2, <2>1, <3>2 DEF NoneDone
    <3>4. Sending(u)'
      BY <1>2, <2>2, <3>2, <3>3 DEF Sending
    <3>5. OthersIdle(u)'
      BY <1>7, <2>2, <2>4
    <3> QED BY <1>2, <3>1, <3>4, <3>5
        DEF Disks, Selecting, Issuing, Reading, Fetching, Storing, Finished
  <2> QED BY <1>4, <1>5, <2>3, <2>4 DEF IdeInv
<1>9. CASE DiskReads(d)
  <2>1. PICK ph \in {"data in", "failed"} :
          /\ drive' = [drive EXCEPT ![d].phase = ph]
          /\ IF ph = "data in" THEN port' = platter[<<d, drive[d].sector>>]
                               ELSE port' = port
    BY <1>9 DEF DiskReads
  <2>2. drive[d].phase = "reading" /\ irq' = TRUE /\ UNCHANGED platter
    BY <1>9 DEF DiskReads
  <2>3. /\ drive' \in [Drive -> [phase : Phases, sector : Sector \cup {NULL}]]
        /\ drive'[d].phase = ph /\ drive'[d].sector = drive[d].sector
        /\ \A e \in Drive : e # d => drive'[e] = drive[e]
    BY <1>1, <2>1, PhaseSet DEF Phases
  <2>4. IdeType'
    <3>1. \A e \in Drive : drive'[e].phase # "idle" => drive'[e].sector \in Sector
      BY <1>1, <2>2, <2>3 DEF IdeType
    <3>2. platter[<<d, drive[d].sector>>] \in Word
      BY <1>1, <2>2 DEF IdeType
    <3>3. port' \in Word
      BY <1>1, <2>1, <3>2 DEF IdeType
    <3> QED BY <1>1, <1>2, <2>2, <2>3, <3>1, <3>3 DEF IdeType
  <2>5. ASSUME NEW u \in User, ipc[u] \notin {"idle", "lock", "panic"} PROVE Disks(u)'
    <3>1. ipc[u] = "sleep" /\ ~ io[u].write /\ Reading(u)
      BY <1>1, <1>6, <2>2, <2>5 DEF Disks, Sending, Fetching, Storing
    <3>2. drive[d].sector = io[u].sector /\ NoneDone /\ d = io[u].drive
      BY <1>6, <2>2, <2>5, <3>1 DEF Reading
    <3>3. OneDone'
      BY <1>2, <1>6, <2>2, <2>5, <3>2 DEF OneDone, NoneDone
    <3>4. Reading(u)'
      <4>1. ph = "data in" => port' = platter'[<<io[u].drive, io[u].sector>>]
        BY <2>1, <2>2, <3>2
      <4>2. drive'[io[u].drive].phase = ph /\ drive'[io[u].drive].sector = io[u].sector
        BY <2>3, <3>2
      <4> QED BY <1>2, <3>3, <4>1, <4>2 DEF Reading
    <3>5. OthersIdle(u)'
      BY <1>7, <2>3, <2>5
    <3> QED BY <1>2, <3>1, <3>4, <3>5
        DEF Disks, Selecting, Issuing, Fetching, Sending, Storing, Finished
  <2> QED BY <1>4, <1>5, <2>4, <2>5 DEF IdeInv
<1>10. CASE DiskStores(d)
  <2>1. /\ drive[d].phase = "writing" /\ drive' = [drive EXCEPT ![d] = Ready]
        /\ platter' = [platter EXCEPT ![<<d, drive[d].sector>>] = port]
        /\ irq' = TRUE /\ UNCHANGED port
    BY <1>10 DEF DiskStores
  <2>2. Ready \in [phase : Phases, sector : Sector \cup {NULL}] /\ Ready.phase = "idle"
    BY DEF Ready, Phases
  <2>3. /\ drive' \in [Drive -> [phase : Phases, sector : Sector \cup {NULL}]]
        /\ drive'[d].phase = "idle"
        /\ \A e \in Drive : e # d => drive'[e] = drive[e]
    BY <1>1, <2>1, <2>2 DEF IdeType
  <2>4. IdeType'
    <3>1. \A e \in Drive : drive'[e].phase # "idle" => drive'[e].sector \in Sector
      BY <1>1, <2>3 DEF IdeType
    <3>2. platter' \in [Drive \X Sector -> Word]
      BY <1>1, <2>1 DEF IdeType
    <3> QED BY <1>1, <1>2, <2>1, <2>3, <3>1, <3>2 DEF IdeType
  <2>5. ASSUME NEW u \in User, ipc[u] \notin {"idle", "lock", "panic"} PROVE Disks(u)'
    <3>1. ipc[u] = "sleep" /\ io[u].write /\ Storing(u)
      BY <1>1, <1>6, <2>1, <2>5 DEF Disks, Sending, Fetching, Reading
    <3>2. /\ drive[d].sector = io[u].sector /\ NoneDone /\ d = io[u].drive
          /\ port = io[u].data
      BY <1>6, <2>1, <2>5, <3>1 DEF Storing
    <3>3. <<d, io[u].sector>> \in Drive \X Sector
      BY <1>6, <2>5 DEF Transfers
    <3>4. platter'[<<d, io[u].sector>>] = io[u].data
      BY <1>1, <2>1, <3>2, <3>3 DEF IdeType
    <3>5. OneDone'
      BY <1>2, <1>6, <2>1, <2>5, <3>2 DEF OneDone, NoneDone
    <3>6. Storing(u)'
      BY <1>2, <2>3, <3>2, <3>4, <3>5 DEF Storing
    <3>7. OthersIdle(u)'
      BY <1>7, <2>3, <2>5
    <3> QED BY <1>2, <3>1, <3>6, <3>7
        DEF Disks, Selecting, Issuing, Reading, Fetching, Sending, Finished
  <2> QED BY <1>4, <1>5, <2>4, <2>5 DEF IdeInv
<1> QED BY <1>2, <1>8, <1>9, <1>10

-----------------------------------------------------------------------------
\* Every step keeps the invariant.
LEMMA IdeKept ==
  ASSUME NULL \notin User, IdeInv, [IdeNext]_dvars PROVE IdeInv'
<1>1. CASE UNCHANGED dvars
  <2> USE <1>1 DEF dvars
  <2>1. IdeType' /\ Locked' /\ Free'
    BY DEF IdeInv, IdeType, Locked, Free, AllIdle, Quiet
  <2>2. AllIdle' = AllIdle /\ Quiet' = Quiet /\ NoneDone' = NoneDone /\ OneDone' = OneDone
    BY DEF AllIdle, Quiet, NoneDone, OneDone
  <2>3. ASSUME NEW u \in User PROVE Disks(u)'
    <3>1. Disks(u)
      BY DEF IdeInv
    <3>2. Selecting(u)' /\ Issuing(u)' /\ OthersIdle(u)'
      BY <2>2, <3>1 DEF Disks, Selecting, Issuing, OthersIdle
    <3>3. Reading(u)' /\ Fetching(u)'
      BY <2>2, <3>1 DEF Disks, Reading, Fetching
    <3>4. Sending(u)' /\ Storing(u)' /\ Finished(u)'
      BY <2>2, <3>1 DEF Disks, Sending, Storing, Finished
    <3> QED BY <3>2, <3>3, <3>4 DEF Disks
  <2> QED BY <2>1, <2>3 DEF IdeInv
<1>2. CASE IdeNext
  BY <1>2, CallKeeps, SelectKeeps, IssueKeeps, AwaitKeeps, BusyKeeps, ReleaseKeeps,
     InterruptKeeps, DiskKeeps DEF IdeNext
<1> QED BY <1>1, <1>2

\* ide_read() returns what its sector of its disk holds and ide_write() returns
\* after the disk has the data, for any threads and disks on the channel.
THEOREM TransfersExact ==
  ASSUME NULL \notin User
  PROVE  IdeSpec => []IdeExact
<1>1. IdeInit => IdeInv
  BY IdeStarts
<1>2. IdeInv /\ [IdeNext]_dvars => IdeInv'
  BY IdeKept
<1>3. IdeInv => IdeExact
  BY DEF IdeInv, Disks, Finished, IdeExact
<1> QED BY <1>1, <1>2, <1>3, PTL DEF IdeSpec

\* Whenever the channel's lock is free no completion is pending or counted, so
\* expecting_interrupt that is never cleared does not end the next command early.
THEOREM CompletionsFresh ==
  ASSUME NULL \notin User
  PROVE  IdeSpec => []CompletionFresh
<1>1. IdeInit => IdeInv
  BY IdeStarts
<1>2. IdeInv /\ [IdeNext]_dvars => IdeInv'
  BY IdeKept
<1>3. IdeInv => CompletionFresh
  BY DEF IdeInv, Free, Quiet, CompletionFresh
<1> QED BY <1>1, <1>2, <1>3, PTL DEF IdeSpec

-----------------------------------------------------------------------------
(***************************************************************************)
(* The disk on USB (module UsbStorage).                                    *)
(***************************************************************************)

Requests == [block : Lba, data : Data, write : BOOLEAN]
Busy == {"start", "command", "again", "data", "status", "status again"}

StorageType ==
  /\ spc \in [Client -> {"idle", "lock", "panic"} \cup Busy]
  /\ sreq \in [Client -> Requests \cup {NULL}]
  /\ buf \in [Client -> Data]
  /\ mci_lock \in Client \cup {NULL} /\ retrying \in BOOLEAN
  /\ bounce_buffer \in Data
  /\ device \in [phase : {"command", "data", "status"}, block : Lba \cup {NULL},
                 write : BOOLEAN]
  /\ medium \in [Lba -> Data]

\* A thread inside msc_io() holds the lock, and with the lock free the device
\* awaits a command and the retry is unspent.
Held ==
  /\ \A c \in Client : spc[c] \in Busy \cup {"panic"} => mci_lock = c
  /\ mci_lock = NULL => device.phase = "command" /\ ~ retrying

\* What a thread between its call and its return has: a request, and for a
\* write its data in the caller's buffer and, once started, in the bounce buffer.
Prepared(c) ==
  spc[c] # "idle" =>
    /\ sreq[c] \in Requests
    /\ sreq[c].write => buf[c] = sreq[c].data
    /\ sreq[c].write /\ spc[c] \in Busy \ {"start"} => bounce_buffer = buf[c]

\* The device never works on anything but the request of the lock's holder.
InStep(c) ==
  /\ spc[c] \in {"start", "command", "again"} => device.phase = "command"
  /\ spc[c] = "data" => device.phase = "command" \/ device = Commanded(c)
  /\ spc[c] \in {"status", "status again"} =>
       /\ device.phase = "status"
       /\ medium[sreq[c].block] = bounce_buffer

StorageInv ==
  /\ StorageType /\ Held
  /\ \A c \in Client : Prepared(c) /\ InStep(c)

-----------------------------------------------------------------------------
\* The invariant holds when the driver has attached the disk (msc_attach_iface()).
LEMMA StorageStarts == StorageInit => StorageInv
<1> SUFFICES ASSUME StorageInit PROVE StorageInv
  OBVIOUS
<1> USE DEF StorageInit, Busy
<1>1. device \in [phase : {"command", "data", "status"}, block : Lba \cup {NULL},
                 write : BOOLEAN]
  BY Zenon DEF Idle
<1>2. StorageType
  BY <1>1 DEF StorageType
<1>3. Held
  BY DEF Held, Idle
<1>4. ASSUME NEW c \in Client PROVE Prepared(c) /\ InStep(c)
  BY DEF Prepared, InStep
<1> QED BY <1>2, <1>3, <1>4 DEF StorageInv

\* Every step of msc_read(), msc_write() and msc_io() keeps it.
LEMMA StorageKept ==
  ASSUME NULL \notin Client, StorageInv, [StorageNext]_svars
  PROVE  StorageInv'
<1> USE DEF StorageInv, Busy, Requests
<1>1. ASSUME NEW c \in Client, Request(c) PROVE StorageInv'
  <2> USE <1>1 DEF Request, goto, Running
  <2>1. PICK b \in Lba, v \in Data, w \in BOOLEAN :
          /\ sreq' = [sreq EXCEPT ![c] = [block |-> b, write |-> w, data |-> v]]
          /\ buf' = IF w THEN [buf EXCEPT ![c] = v] ELSE buf
    OBVIOUS
  <2>2. StorageType'
    BY <2>1 DEF StorageType
  <2>3. Held'
    BY DEF StorageType, Held
  <2>4. ASSUME NEW e \in Client PROVE Prepared(e)' /\ InStep(e)'
    <3>1. CASE e = c
      BY <2>1, <3>1 DEF StorageType, Prepared, InStep
    <3>2. CASE e # c
      BY <2>1, <2>4, <3>2 DEF StorageType, Prepared, InStep, Commanded
    <3> QED BY <3>1, <3>2
  <2> QED BY <2>2, <2>3, <2>4
<1>2. ASSUME NEW c \in Client, Lock(c) PROVE StorageInv'
  <2> USE <1>2 DEF Lock, goto, Running
  <2>1. StorageType'
    BY DEF StorageType
  <2>2. Held'
    BY DEF StorageType, Held
  <2>3. ASSUME NEW e \in Client PROVE Prepared(e)' /\ InStep(e)'
    BY <2>3 DEF StorageType, Held, Prepared, InStep, Commanded
  <2> QED BY <2>1, <2>2, <2>3
<1>3. ASSUME NEW c \in Client, msc_io(c) PROVE StorageInv'
  <2> USE <1>3 DEF msc_io, goto, Running
  <2>1. StorageType'
    BY DEF StorageType
  <2>2. Held'
    BY DEF StorageType, Held
  <2>3. ASSUME NEW e \in Client PROVE Prepared(e)' /\ InStep(e)'
    <3>1. CASE e = c
      BY <3>1 DEF StorageType, Prepared, InStep
    <3>2. CASE e # c
      BY <2>3, <3>2 DEF StorageType, Held, Prepared, InStep, Commanded
    <3> QED BY <3>1, <3>2
  <2> QED BY <2>1, <2>2, <2>3
<1>4. ASSUME NEW c \in Client, Command(c) PROVE StorageInv'
  <2> USE <1>4 DEF Command, goto, Running
  <2>1. StorageType'
    <3>1. sreq[c] \in Requests
      BY DEF StorageType, Prepared
    <3>2. sreq[c].block \in Lba /\ sreq[c].write \in BOOLEAN
      BY <3>1
    <3>3. Commanded(c) \in [phase : {"command", "data", "status"},
                            block : Lba \cup {NULL}, write : BOOLEAN]
      BY <3>2, Zenon DEF Commanded
    <3> QED BY <3>3 DEF StorageType
  <2>2. Held'
    BY DEF StorageType, Held
  <2>3. ASSUME NEW e \in Client PROVE Prepared(e)' /\ InStep(e)'
    <3>1. CASE e = c
      BY <3>1 DEF StorageType, Prepared, InStep, Commanded
    <3>2. CASE e # c
      BY <2>3, <3>2 DEF StorageType, Held, Prepared, InStep
    <3> QED BY <3>1, <3>2
  <2> QED BY <2>1, <2>2, <2>3
<1>5. ASSUME NEW c \in Client, Transfer(c) PROVE StorageInv'
  <2> USE <1>5 DEF Transfer, goto, Running
  <2>1. sreq[c] \in Requests /\ mci_lock = c
    BY DEF StorageType, Held, Prepared
  <2>2. CASE spc' = [spc EXCEPT ![c] = "panic"]
    <3>1. UNCHANGED <<sreq, buf, mci_lock, retrying, device, bounce_buffer, medium>>
      BY <2>2 DEF StorageType
    <3>2. StorageType' /\ Held'
      BY <2>1, <2>2, <3>1 DEF StorageType, Held
    <3>3. ASSUME NEW e \in Client PROVE Prepared(e)' /\ InStep(e)'
      BY <2>2, <3>1, <3>3 DEF StorageType, Prepared, InStep, Commanded
    <3> QED BY <3>2, <3>3
  <2>3. CASE /\ spc' = [spc EXCEPT ![c] = "status"]
             /\ device.phase = "data" /\ device.write = sreq[c].write
             /\ device' = [device EXCEPT !.phase = "status"]
             /\ IF device.write
                  THEN medium' = [medium EXCEPT ![device.block] = bounce_buffer]
                       /\ UNCHANGED bounce_buffer
                  ELSE bounce_buffer' = medium[device.block] /\ UNCHANGED medium
    <3>1. device.block = sreq[c].block /\ sreq[c].block \in Lba
      <4>1. spc[c] = "data"
        OBVIOUS
      <4>2. device = Commanded(c)
        BY <2>3, <4>1 DEF InStep
      <4>3. device.block = sreq[c].block
        BY <4>2 DEF Commanded
      <4> QED BY <2>1, <4>3
    <3>2. medium' \in [Lba -> Data] /\ bounce_buffer' \in Data
      <4>1. CASE device.write
        <5>1. /\ medium' = [medium EXCEPT ![device.block] = bounce_buffer]
              /\ bounce_buffer' = bounce_buffer
          BY <2>3, <4>1
        <5> QED BY <5>1 DEF StorageType
      <4>2. CASE ~ device.write
        <5>1. bounce_buffer' = medium[sreq[c].block] /\ medium' = medium
          BY <2>3, <3>1, <4>2
        <5> QED BY <3>1, <5>1 DEF StorageType
      <4> QED BY <4>1, <4>2
    <3>3. medium'[sreq[c].block] = bounce_buffer'
      BY <2>3, <3>1 DEF StorageType
    <3>4. device' \in [phase : {"command", "data", "status"}, block : Lba \cup {NULL},
                      write : BOOLEAN]
      BY <2>3, Zenon DEF StorageType
    <3>5. device'.phase = "status"
      BY <2>3 DEF StorageType
    <3>6. StorageType'
      BY <2>1, <2>3, <3>2, <3>4 DEF StorageType
    <3>7. Held'
      BY <2>1, <2>3 DEF StorageType, Held
    <3>8. Prepared(c)' /\ InStep(c)'
      BY <2>1, <2>3, <3>3, <3>5 DEF StorageType, Prepared, InStep
    <3>9. ASSUME NEW e \in Client, e # c PROVE Prepared(e)' /\ InStep(e)'
      <4>1. spc'[e] = spc[e] /\ spc[e] \notin Busy \cup {"panic"}
        BY <2>1, <2>3, <3>9 DEF StorageType, Held
      <4> QED BY <4>1, <3>9 DEF StorageType, Prepared, InStep
    <3> QED BY <3>6, <3>7, <3>8, <3>9
  <2> QED BY <2>2, <2>3
<1>6. ASSUME NEW c \in Client, Status(c) PROVE StorageInv'
  <2> USE <1>6 DEF Status, goto, Running
  <2>1. /\ sreq[c] \in Requests /\ mci_lock = c
        /\ \A e \in Client : e # c => spc[e] \notin Busy \cup {"panic"}
    BY DEF StorageType, Held, Prepared
  <2>2. Idle \in [phase : {"command", "data", "status"}, block : Lba \cup {NULL},
                 write : BOOLEAN] /\ Idle.phase = "command"
    BY Zenon DEF Idle
  <2>3. CASE spc' = [spc EXCEPT ![c] = "idle"] /\ Done(c)
    <3>1. StorageType'
      BY <2>2, <2>3 DEF StorageType, Done
    <3>2. Held'
      BY <2>1, <2>2, <2>3 DEF StorageType, Held, Done
    <3>3. ASSUME NEW e \in Client PROVE Prepared(e)' /\ InStep(e)'
      BY <2>1, <2>3, <3>3 DEF StorageType, Prepared, InStep, Done
    <3> QED BY <3>1, <3>2, <3>3
  <2>4. CASE spc' = [spc EXCEPT ![c] = "start"] /\ Recover
    <3>1. StorageType'
      BY <2>2, <2>4 DEF StorageType, Recover
    <3>2. Held'
      BY <2>1, <2>4 DEF StorageType, Held, Recover
    <3>3. ASSUME NEW e \in Client PROVE Prepared(e)' /\ InStep(e)'
      BY <2>1, <2>2, <2>4, <3>3 DEF StorageType, Prepared, InStep, Recover
    <3> QED BY <3>1, <3>2, <3>3
  <2>5. ASSUME NEW d \in {"status again", "panic"}, spc' = [spc EXCEPT ![c] = d],
               UNCHANGED <<device, retrying, buf, mci_lock>>
        PROVE  StorageInv'
    <3>1. StorageType' /\ Held'
      BY <2>1, <2>5 DEF StorageType, Held
    <3>2. ASSUME NEW e \in Client PROVE Prepared(e)' /\ InStep(e)'
      BY <2>1, <2>5, <3>2 DEF StorageType, Prepared, InStep
    <3> QED BY <3>1, <3>2
  <2> QED BY <2>3, <2>4, <2>5
<1>7. ASSUME UNCHANGED svars PROVE StorageInv'
  BY <1>7 DEF svars, StorageType, Held, Prepared, InStep, Commanded
<1> QED
  BY <1>1, <1>2, <1>3, <1>4, <1>5, <1>6, <1>7 DEF StorageNext, Step

-----------------------------------------------------------------------------
\* msc_io() that returns has read, or written, the block its caller asked for,
\* with that block's data, whatever failed and was retried on the way and
\* whoever else uses the disk; and the next request has its own retry.
THEOREM StorageExact ==
  ASSUME NULL \notin Client
  PROVE  StorageSpec => IoExact
<1>1. StorageInv /\ [StorageNext]_svars => StorageInv'
  BY StorageKept
<1>2. StorageInv /\ [StorageNext]_svars => [ExactStep]_svars
  <2> SUFFICES ASSUME StorageInv, StorageNext PROVE ExactStep
    OBVIOUS
  <2> SUFFICES ASSUME NEW c \in Client, spc[c] \in {"status", "status again"},
                      spc'[c] = "idle"
               PROVE  /\ medium[sreq[c].block] = buf'[c]
                      /\ sreq[c].write => buf'[c] = sreq[c].data
                      /\ ~ retrying'
    BY DEF ExactStep
  <2>1. Status(c)
    BY DEF StorageInv, StorageType, StorageNext, Step, Request, Lock, msc_io, Command,
           Transfer, Status, goto
  <2>2. Done(c)
    BY <2>1 DEF StorageInv, StorageType, Status, goto
  <2> QED
    BY <2>2 DEF StorageInv, StorageType, Prepared, InStep, Done, Busy
<1> QED
  BY StorageStarts, <1>1, <1>2, PTL DEF StorageSpec, IoExact

-----------------------------------------------------------------------------
(***************************************************************************)
(* The UHCI controller.                                                    *)
(***************************************************************************)

UhciAssumption ==
  /\ NULL \notin Sender /\ NULL \notin TD /\ IsFiniteSet(Sender)
  /\ TD_ENTRIES \in Nat /\ MaxPackets \in Nat

Places == {"idle", "lock", "td", "stop", "add", "run", "asleep"}
Locking == {"td", "stop", "add", "run"}
Having == {"stop", "add", "run", "asleep"}
Queueing == {"lock", "td", "stop", "add"}
Sent == {"run", "asleep"}
Packet == [status : {"unset", "active", "done", "failed"}, async : BOOLEAN, toggle : {0, 1}]

UhciType ==
  /\ upc \in [Sender -> Places] /\ left \in [Sender -> 0..MaxPackets]
  /\ mine \in [Sender -> TD \cup {NULL}] /\ toggle \in [Sender -> {0, 1}]
  /\ td \in [TD -> Packet]
  /\ td_used \in SUBSET TD /\ td_sem \in Nat
  /\ queue \in [Sender -> Seq(TD)]
  /\ waiting \in SUBSET Sender /\ woken \in SUBSET Sender /\ raced \in SUBSET Sender
  /\ uhci_lock \in Sender \cup {NULL} /\ running \in BOOLEAN /\ usbint \in BOOLEAN

\* Where a thread is and what it has: uhci_lock, a descriptor set up for its
\* next packet, packets left to queue.
Sender1(t) ==
  /\ upc[t] \in Locking <=> uhci_lock = t
  /\ mine[t] # NULL <=> upc[t] \in Having
  /\ upc[t] # "idle" => left[t] >= 1
  /\ upc[t] \in Sent => left[t] = 1
  /\ upc[t] \in {"stop", "add"} => td[mine[t]].status = "active"
  /\ upc[t] \in Having => td[mine[t]].toggle = toggle[t]

\* A packet of a queue: only the first can have failed, and the last of a
\* transfer is the last of the queue.
Queued(t, i) ==
  /\ td[queue[t][i]].status \in {"active", "failed"}
  /\ td[queue[t][i]].status = "failed" => i = 1
  /\ \/ td[queue[t][i]].async
     \/ upc[t] \in Sent /\ queue[t][i] = mine[t] /\ i = Len(queue[t])

\* A descriptor is in one queue, once.
QueuesApart ==
  \A t, u \in Sender : \A i \in 1..Len(queue[t]), j \in 1..Len(queue[u]) :
    queue[t][i] = queue[u][j] => t = u /\ i = j

\* A thread that has queued its last packet is on the waiting list until its
\* semaphore is up; a packet that ended has left nothing before it.
Waits(t) ==
  /\ t \in waiting => t \notin woken
  /\ t \in waiting \/ t \in woken <=> upc[t] \in Sent
  /\ t \in waiting /\ td[mine[t]].status = "active" /\ t \notin raced =>
       mine[t] \in Elems(queue[t])
  /\ t \in waiting /\ td[mine[t]].status # "active" =>
       usbint /\ \A i \in 1..Len(queue[t]) : queue[t][i] = mine[t]
  /\ t \in woken => Len(queue[t]) = 0
  /\ upc[t] = "idle" => Len(queue[t]) = 0 /\ t \notin raced

\* The next packet's toggle is not that of the last one queued.
Toggles(t) ==
  t \notin raced /\ upc[t] \in Queueing /\ Len(queue[t]) > 0 =>
    td[queue[t][Len(queue[t])]].toggle # toggle[t]

Alternates(t) ==
  t \notin raced => \A i \in 1..(Len(queue[t]) - 1) :
    td[queue[t][i]].toggle # td[queue[t][i + 1]].toggle

UhciInv ==
  /\ UhciType /\ TdConserved /\ QueuesApart
  /\ \A t \in Sender : /\ Sender1(t) /\ Waits(t) /\ Toggles(t) /\ Alternates(t)
                       /\ \A i \in 1..Len(queue[t]) : Queued(t, i)

-----------------------------------------------------------------------------
\* TdConserved in parts.
PoolInv ==
  /\ \A d \in TD : d \in td_used <=> td[d].async \/ \E t \in Sender : mine[t] = d
  /\ \A t, u \in Sender : mine[t] # NULL /\ mine[t] = mine[u] => t = u
  /\ \A t \in Sender : mine[t] # NULL => ~ td[mine[t]].async
CountInv == td_sem + Cardinality(td_used) = TD_ENTRIES

LEMMA PoolParts ==
  ASSUME UhciAssumption, UhciType
  PROVE  TdConserved <=> PoolInv /\ CountInv
<1>1. \A t \in Sender : mine[t] \in TD \cup {NULL}
  BY DEF UhciType
<1>2. ASSUME TdConserved PROVE PoolInv /\ CountInv
  BY <1>1, <1>2 DEF TdConserved, PoolInv, CountInv, UhciAssumption
<1>3. ASSUME PoolInv, CountInv PROVE TdConserved
  <2>1. td_used \subseteq TD
    BY DEF UhciType
  <2>2. td_used = {mine[t] : t \in {u \in Sender : mine[u] # NULL}} \cup {d \in TD : td[d].async}
    <3>1. ASSUME NEW d \in td_used
          PROVE  d \in {mine[t] : t \in {u \in Sender : mine[u] # NULL}} \cup {e \in TD : td[e].async}
      BY <1>3, <2>1 DEF PoolInv, UhciAssumption
    <3>2. ASSUME NEW t \in Sender, mine[t] # NULL PROVE mine[t] \in td_used
      BY <1>1, <1>3, <3>2 DEF PoolInv
    <3>3. QED
      BY <1>3, <3>1, <3>2 DEF PoolInv
  <2>3. QED
    BY <1>3, <2>2 DEF TdConserved, PoolInv, CountInv
<1>4. QED
  BY <1>2, <1>3

\* The pool as a finite set.
LEMMA PoolSize ==
  ASSUME UhciAssumption, NEW S \in SUBSET TD
  PROVE  /\ IsFiniteSet(S) /\ Cardinality(S) \in Nat /\ IsFiniteSet(TD)
         /\ Cardinality(TD) = TD_ENTRIES
<1>1. IsFiniteSet(TD) /\ Cardinality(TD) = IF 1 > TD_ENTRIES THEN 0 ELSE TD_ENTRIES - 1 + 1
  BY FS_Interval DEF UhciAssumption, TD
<1>2. IsFiniteSet(S) /\ Cardinality(S) \in Nat
  BY <1>1, FS_Subset, FS_CardinalityType
<1>3. QED
  BY <1>1, <1>2 DEF UhciAssumption

LEMMA Starts ==
  ASSUME UhciAssumption, UhciInit
  PROVE  UhciInv
<1> USE DEF UhciInit
<1>1. UhciType
  <2>1. Unset \in Packet
    BY DEF Unset, Packet
  <2>2. <<>> \in Seq(TD)
    OBVIOUS
  <2>3. 0 \in 0..MaxPackets /\ TD_ENTRIES \in Nat
    BY DEF UhciAssumption
  <2>4. /\ td \in [TD -> Packet] /\ queue \in [Sender -> Seq(TD)]
        /\ left \in [Sender -> 0..MaxPackets]
    BY <2>1, <2>2, <2>3
  <2>5. upc \in [Sender -> Places]
    BY DEF Places
  <2>6. QED
    BY <2>3, <2>4, <2>5 DEF UhciType
<1>2. TdConserved
  <2>1. Cardinality(td_used) = 0
    BY FS_EmptySet
  <2>2. \A d \in TD : ~ td[d].async
    BY DEF Unset
  <2>3. QED
    BY <1>1, <2>1, <2>2, PoolParts DEF PoolInv, CountInv, UhciAssumption
<1>3. \A t \in Sender : Len(queue[t]) = 0
  OBVIOUS
<1>4. QueuesApart
  BY <1>3 DEF QueuesApart
<1>5. ASSUME NEW t \in Sender
      PROVE  Sender1(t) /\ Waits(t) /\ Toggles(t) /\ Alternates(t)
  BY <1>3 DEF Sender1, Waits, Toggles, Alternates, Locking, Having, Sent, UhciAssumption
<1>6. QED
  BY <1>1, <1>2, <1>3, <1>4, <1>5 DEF UhciInv
-----------------------------------------------------------------------------
\* What the invariant says of a queue's packets.
LEMMA QueueTypes ==
  ASSUME UhciInv, NEW t \in Sender
  PROVE  /\ Len(queue[t]) \in Nat /\ queue[t] \in Seq(TD)
         /\ \A i \in 1..Len(queue[t]) : queue[t][i] \in TD
         /\ \A d \in Elems(queue[t]) : \E i \in 1..Len(queue[t]) : queue[t][i] = d
<1>1. queue[t] \in Seq(TD)
  BY DEF UhciInv, UhciType
<1>2. QED
  BY <1>1 DEF Elems

LEMMA QueuedUsed ==
  ASSUME UhciAssumption, UhciInv, NEW t \in Sender, NEW i \in 1..Len(queue[t])
  PROVE  queue[t][i] \in TD /\ queue[t][i] \in td_used
<1>1. queue[t][i] \in TD
  BY QueueTypes
<1>2. PoolInv
  BY PoolParts DEF UhciInv
<1>3. Queued(t, i)
  BY DEF UhciInv
<1>4. QED
  BY <1>1, <1>2, <1>3 DEF PoolInv, Queued

LEMMA MineUsed ==
  ASSUME UhciAssumption, UhciInv, NEW t \in Sender, mine[t] # NULL
  PROVE  mine[t] \in TD /\ mine[t] \in td_used
<1>1. mine[t] \in TD
  BY DEF UhciInv, UhciType
<1>2. PoolInv
  BY PoolParts DEF UhciInv
<1>3. QED
  BY <1>1, <1>2 DEF PoolInv

\* Steps of one thread that leave the descriptors and queues alone.
LEMMA QuietKeeps ==
  ASSUME UhciAssumption, UhciInv, NEW t \in Sender,
         uhci_tx_pkt_bulk(t) \/ LockHost(t) \/ uhci_stop(t) \/ RunAndSleep(t)
  PROVE  UhciInv'
<1>1. /\ UNCHANGED <<mine, toggle, td, td_used, td_sem, queue, waiting, woken, usbint, raced>>
      /\ \E x : upc' = [upc EXCEPT ![t] = x]
  BY DEF uhci_tx_pkt_bulk, LockHost, uhci_stop, RunAndSleep, go
<1>2. PICK x : upc' = [upc EXCEPT ![t] = x]
  BY <1>1
<1>3. upc \in [Sender -> Places] /\ left \in [Sender -> 0..MaxPackets]
  BY DEF UhciInv, UhciType
<1>4. /\ upc'[t] = x /\ \A u \in Sender \ {t} : upc'[u] = upc[u]
      /\ <<upc[t], x>> \in {<<"idle", "lock">>, <<"lock", "td">>, <<"stop", "add">>,
                            <<"run", "asleep">>}
  BY <1>2, <1>3 DEF uhci_tx_pkt_bulk, LockHost, uhci_stop, RunAndSleep, go
<1>5. /\ left' \in [Sender -> 0..MaxPackets]
      /\ \A u \in Sender \ {t} : left'[u] = left[u]
      /\ left'[t] = left[t] \/ (upc[t] = "idle" /\ left'[t] \in 1..MaxPackets)
      /\ upc[t] = "idle" => left'[t] \in 1..MaxPackets
  <2>1. CASE uhci_tx_pkt_bulk(t)
    <3>1. PICK n \in 1..MaxPackets : left' = [left EXCEPT ![t] = n]
      BY <2>1 DEF uhci_tx_pkt_bulk
    <3>2. n \in 0..MaxPackets
      BY DEF UhciAssumption
    <3>3. upc[t] = "idle"
      BY <2>1 DEF uhci_tx_pkt_bulk, go
    <3>4. QED
      BY <1>3, <3>1, <3>2, <3>3
  <2>2. CASE LockHost(t) \/ uhci_stop(t) \/ RunAndSleep(t)
    <3>1. left' = left /\ upc[t] # "idle"
      BY <2>2 DEF LockHost, uhci_stop, RunAndSleep, go
    <3>2. QED
      BY <1>3, <3>1
  <2>3. QED
    BY <2>1, <2>2
<1>6. /\ uhci_lock' = IF upc[t] = "lock" THEN t ELSE IF upc[t] = "run" THEN NULL ELSE uhci_lock
      /\ upc[t] = "lock" => uhci_lock = NULL
  BY DEF uhci_tx_pkt_bulk, LockHost, uhci_stop, RunAndSleep, go
<1>7. UhciType'
  <2>1. upc' \in [Sender -> Places]
    BY <1>2, <1>3, <1>4 DEF Places
  <2>2. running' \in BOOLEAN
    BY DEF uhci_tx_pkt_bulk, LockHost, uhci_stop, RunAndSleep, UhciInv, UhciType
  <2>3. uhci_lock' \in Sender \cup {NULL}
    BY <1>6 DEF UhciInv, UhciType
  <2>4. QED
    BY <1>1, <1>5, <2>1, <2>2, <2>3 DEF UhciInv, UhciType
<1>8. TdConserved' /\ QueuesApart'
  BY <1>1 DEF UhciInv, TdConserved, QueuesApart
<1>9. ASSUME NEW u \in Sender
      PROVE  Sender1(u)'
  <2>1. Sender1(u) /\ Sender1(t) /\ left[u] \in 0..MaxPackets
    BY <1>3 DEF UhciInv
  <2>2. CASE u = t
    <3>1. upc'[t] \in Locking <=> uhci_lock' = t
      BY <1>4, <1>6, <2>1, <2>2 DEF Sender1, Locking, UhciAssumption
    <3>2. /\ upc'[t] \in Having <=> upc[t] \in Having
          /\ upc'[t] \in Sent <=> upc[t] \in Sent
          /\ upc'[t] \in {"stop", "add"} => upc[t] \in {"stop", "add"}
      BY <1>4 DEF Having, Sent
    <3>3. left'[t] >= 1 /\ (upc[t] # "idle" => left'[t] = left[t])
      BY <1>4, <1>5, <2>1, <2>2 DEF Sender1, UhciAssumption
    <3>4. upc[t] \in Sent => upc[t] # "idle"
      BY DEF Sent
    <3>5. QED
      BY <1>1, <2>1, <2>2, <3>1, <3>2, <3>3, <3>4 DEF Sender1
  <2>3. CASE u # t
    <3>1. uhci_lock' = u <=> uhci_lock = u
      BY <1>6, <2>1, <2>3 DEF Sender1, Locking, UhciAssumption
    <3>2. QED
      BY <1>1, <1>4, <1>5, <2>1, <2>3, <3>1 DEF Sender1
  <2>4. QED
    BY <2>2, <2>3
<1>10. ASSUME NEW u \in Sender
       PROVE  Waits(u)' /\ Toggles(u)' /\ Alternates(u)'
  <2>1. Waits(u) /\ Toggles(u) /\ Alternates(u)
    BY DEF UhciInv
  <2>2. (upc'[u] \in Sent <=> upc[u] \in Sent) /\ (upc'[u] = "idle" => upc[u] = "idle")
    BY <1>4 DEF Sent
  <2>3. Waits(u)' /\ Alternates(u)'
    BY <1>1, <2>1, <2>2 DEF Waits, Alternates, Elems
  <2>4. upc'[u] \in Queueing => upc[u] \in Queueing \/ Len(queue[u]) = 0
    BY <1>4, <2>1 DEF Queueing, Waits
  <2>5. Toggles(u)'
    <3>1. queue[u] \in Seq(TD)
      BY DEF UhciInv, UhciType
    <3>2. QED
      BY <1>1, <2>1, <2>4, <3>1 DEF Toggles
  <2>6. QED
    BY <2>3, <2>5
<1>11. ASSUME NEW u \in Sender, NEW i \in 1..Len(queue'[u])
       PROVE  Queued(u, i)'
  <2>1. Queued(u, i)
    BY <1>1 DEF UhciInv
  <2>2. upc[u] \in Sent => upc'[u] \in Sent
    BY <1>4 DEF Sent
  <2>3. QED
    BY <1>1, <2>1, <2>2 DEF Queued
<1>12. QED
  BY <1>7, <1>8, <1>9, <1>10, <1>11 DEF UhciInv

\* uhci_acquire_td() takes a descriptor that nobody uses.
LEMMA AcquireKeeps ==
  ASSUME UhciAssumption, UhciInv, NEW t \in Sender, uhci_acquire_td(t)
  PROVE  UhciInv'
<1> DEFINE d == least(TD \ td_used)
           p == [status |-> "active", async |-> FALSE, toggle |-> toggle[t]]
<1>1. UhciType /\ PoolInv /\ CountInv
  BY PoolParts DEF UhciInv
<1>2. d \in TD /\ d \notin td_used
  <2>1. TD \ td_used # {}
    <3>1. SUFFICES ASSUME td_used = TD PROVE FALSE
      BY <1>1 DEF UhciType
    <3>2. Cardinality(td_used) = TD_ENTRIES /\ TD_ENTRIES \in Nat
      BY <1>1, <3>1, PoolSize DEF UhciType, UhciAssumption
    <3>3. td_sem > 0 /\ td_sem \in Nat
      BY <1>1 DEF uhci_acquire_td, UhciType
    <3>4. QED
      BY <1>1, <3>2, <3>3 DEF CountInv
  <2>2. TD \ td_used \in SUBSET Nat
    BY DEF TD
  <2>3. d \in TD \ td_used
    BY <2>1, <2>2, LeastIn
  <2>4. QED
    BY <2>3
<1>3. /\ upc[t] = "td" /\ upc' = [upc EXCEPT ![t] = "stop"]
      /\ td_sem > 0 /\ td_sem' = td_sem - 1 /\ td_used' = td_used \cup {d}
      /\ mine' = [mine EXCEPT ![t] = d] /\ td' = [td EXCEPT ![d] = p]
      /\ UNCHANGED <<left, toggle, queue, waiting, woken, uhci_lock, running, usbint, raced>>
  BY DEF uhci_acquire_td, go
<1> HIDE DEF d
<1>4. /\ upc'[t] = "stop" /\ \A u \in Sender \ {t} : upc'[u] = upc[u]
      /\ mine'[t] = d /\ \A u \in Sender \ {t} : mine'[u] = mine[u]
      /\ td'[d] = p /\ \A e \in TD \ {d} : td'[e] = td[e]
  BY <1>1, <1>2, <1>3 DEF UhciType
<1>5. p \in Packet
  BY <1>1 DEF UhciType, Packet
<1> HIDE DEF p
<1>6. UhciType'
  <2>1. upc' \in [Sender -> Places]
    BY <1>1, <1>3 DEF UhciType, Places
  <2>2. /\ td' \in [TD -> Packet] /\ mine' \in [Sender -> TD \cup {NULL}]
        /\ td_used' \in SUBSET TD
    BY <1>1, <1>2, <1>3, <1>5 DEF UhciType
  <2>3. td_sem' \in Nat
    BY <1>1, <1>3 DEF UhciType
  <2>4. QED
    BY <1>1, <1>3, <2>1, <2>2, <2>3 DEF UhciType
<1>7. d # NULL /\ mine[t] = NULL /\ \A u \in Sender : mine[u] # d
  <2>1. Sender1(t)
    BY DEF UhciInv
  <2>2. mine[t] = NULL
    BY <1>3, <2>1 DEF Sender1, Having
  <2>3. QED
    BY <1>1, <1>2, <2>2, MineUsed DEF UhciAssumption
<1>8. PoolInv'
  <2>1. ASSUME NEW e \in TD
        PROVE  e \in td_used' <=> td'[e].async \/ \E u \in Sender : mine'[u] = e
    <3>1. CASE e = d
      BY <1>3, <1>4, <3>1
    <3>2. CASE e # d
      <4>1. (\E u \in Sender : mine'[u] = e) <=> (\E u \in Sender : mine[u] = e)
        BY <1>4, <1>7, <3>2 DEF UhciAssumption
      <4>2. e \in td_used <=> td[e].async \/ \E u \in Sender : mine[u] = e
        BY <1>1 DEF PoolInv
      <4>3. td'[e] = td[e] /\ (e \in td_used' <=> e \in td_used)
        BY <1>3, <1>4, <3>2
      <4>4. QED
        BY <4>1, <4>2, <4>3
    <3>3. QED
      BY <3>1, <3>2
  <2>2. ASSUME NEW u \in Sender, NEW v \in Sender, mine'[u] # NULL, mine'[u] = mine'[v]
        PROVE  u = v
    BY <1>1, <1>4, <1>7, <2>2 DEF PoolInv
  <2>3. ASSUME NEW u \in Sender, mine'[u] # NULL PROVE ~ td'[mine'[u]].async
    <3>1. CASE u = t
      BY <1>4, <3>1 DEF p
    <3>2. CASE u # t
      <4>1. mine'[u] = mine[u] /\ mine[u] \in TD /\ mine[u] # d
        BY <1>1, <1>4, <1>7, <2>3, <3>2 DEF UhciType
      <4>2. QED
        BY <1>1, <1>4, <2>3, <4>1 DEF PoolInv
    <3>3. QED
      BY <3>1, <3>2
  <2>4. QED
    BY <2>1, <2>2, <2>3 DEF PoolInv
<1>9. CountInv'
  <2>1. td_used \in SUBSET TD /\ td_sem \in Nat /\ TD_ENTRIES \in Nat
    BY <1>1 DEF UhciType, UhciAssumption
  <2>2. IsFiniteSet(td_used) /\ Cardinality(td_used) \in Nat
    BY <2>1, PoolSize
  <2>3. Cardinality(td_used \cup {d}) = Cardinality(td_used) + 1
    BY <1>2, <2>2, FS_AddElement
  <2>4. QED
    BY <1>1, <1>3, <2>1, <2>2, <2>3 DEF CountInv
<1>10. TdConserved'
  <2>1. (TdConserved <=> PoolInv /\ CountInv)'
    BY <1>6, PoolParts, PTL
  <2>2. QED
    BY <1>8, <1>9, <2>1
<1>11. QueuesApart'
  BY <1>3 DEF UhciInv, QueuesApart
<1>12. ASSUME NEW u \in Sender, NEW i \in 1..Len(queue[u])
       PROVE  queue[u][i] \in TD \ {d} /\ td'[queue[u][i]] = td[queue[u][i]]
  BY <1>2, <1>4, QueuedUsed
<1>13. ASSUME NEW u \in Sender
       PROVE  Sender1(u)' /\ Waits(u)'
  <2>1. Sender1(u) /\ Waits(u)
    BY DEF UhciInv
  <2>2. CASE u = t
    BY <1>3, <1>4, <1>7, <2>1, <2>2 DEF Sender1, Waits, Locking, Having, Sent, p
  <2>3. CASE u # t
    <3>1. upc[u] \in Having => td'[mine[u]] = td[mine[u]]
      BY <1>1, <1>4, <1>7, <2>1 DEF Sender1, UhciType
    <3>2. upc[u] \in Sent => upc[u] \in Having
      BY DEF Sent, Having
    <3>3. {"stop", "add"} \subseteq Having
      BY DEF Having
    <3>4. Sender1(u)'
      BY <1>3, <1>4, <2>1, <2>3, <3>1, <3>3 DEF Sender1
    <3>5. Waits(u)'
      BY <1>3, <1>4, <2>1, <2>3, <3>1, <3>2 DEF Waits, Elems
    <3>6. QED
      BY <3>4, <3>5
  <2>4. QED
    BY <2>2, <2>3
<1>14. ASSUME NEW u \in Sender
       PROVE  Toggles(u)' /\ Alternates(u)'
  <2>1. Toggles(u) /\ Alternates(u) /\ Len(queue[u]) \in Nat
    BY QueueTypes DEF UhciInv
  <2>2. \A i \in 1..Len(queue[u]) : td'[queue[u][i]] = td[queue[u][i]]
    BY <1>12
  <2>3. upc'[u] \in Queueing => upc[u] \in Queueing
    BY <1>3, <1>4 DEF Queueing
  <2>4. Len(queue[u]) > 0 => Len(queue[u]) \in 1..Len(queue[u])
    BY <2>1
  <2>5. Toggles(u)'
    BY <1>3, <2>1, <2>2, <2>3, <2>4 DEF Toggles
  <2>6. \A i \in 1..(Len(queue[u]) - 1) : i \in 1..Len(queue[u]) /\ i + 1 \in 1..Len(queue[u])
    BY <2>1
  <2>7. Alternates(u)'
    BY <1>3, <2>1, <2>2, <2>6 DEF Alternates
  <2>8. QED
    BY <2>5, <2>7
<1>15. ASSUME NEW u \in Sender, NEW i \in 1..Len(queue'[u])
       PROVE  Queued(u, i)'
  <2>1. Queued(u, i) /\ queue' = queue /\ td'[queue[u][i]] = td[queue[u][i]]
    BY <1>3, <1>12 DEF UhciInv
  <2>2. upc[u] \in Sent => u # t /\ upc'[u] \in Sent /\ mine'[u] = mine[u]
    BY <1>3, <1>4 DEF Sent
  <2>3. QED
    BY <2>1, <2>2 DEF Queued
<1>16. QED
  BY <1>6, <1>10, <1>11, <1>13, <1>14, <1>15 DEF UhciInv

\* A thread's own descriptor is in no queue but its own, once it is queued.
LEMMA MineApart ==
  ASSUME UhciAssumption, UhciInv, NEW t \in Sender, NEW u \in Sender,
         NEW i \in 1..Len(queue[u]), mine[t] # NULL, queue[u][i] = mine[t]
  PROVE  u = t /\ upc[t] \in Sent /\ i = Len(queue[t])
<1>1. PoolInv /\ Queued(u, i)
  BY PoolParts DEF UhciInv
<1>2. ~ td[queue[u][i]].async
  BY <1>1 DEF PoolInv
<1>3. QED
  BY <1>1, <1>2 DEF Queued, PoolInv

\* uhci_add_td_to_qh(): the new packet becomes the last, unless the race with the
\* controller loses it.
LEMMA AddLinks ==
  ASSUME UhciAssumption, UhciInv, NEW t \in Sender, upc[t] = "add", uhci_add_td_to_qh(t),
         td' \in [TD -> Packet], \A e \in TD : td'[e].toggle = td[e].toggle
  PROVE  /\ queue' \in [Sender -> Seq(TD)] /\ QueuesApart'
         /\ raced \subseteq raced' /\ raced' \subseteq raced \cup {t}
         /\ \A u \in Sender \ {t} : queue'[u] = queue[u]
         /\ \A u \in Sender : Alternates(u)'
         /\ \/ queue' = queue /\ t \in raced'
            \/ /\ Len(queue'[t]) = Len(queue[t]) + 1 /\ Len(queue[t]) \in Nat
               /\ \A i \in 1..Len(queue[t]) : queue'[t][i] = queue[t][i]
               /\ queue'[t][Len(queue[t]) + 1] = mine[t]
<1>1. queue \in [Sender -> Seq(TD)] /\ Len(queue[t]) \in Nat /\ queue[t] \in Seq(TD)
  BY QueueTypes DEF UhciInv, UhciType
<1>2. mine[t] \in TD /\ mine[t] # NULL
  <2>1. Sender1(t)
    BY DEF UhciInv
  <2>2. mine[t] # NULL
    BY <2>1 DEF Sender1, Having
  <2>3. QED
    BY <2>2, MineUsed
<1>3. raced \subseteq raced' /\ raced' \subseteq raced \cup {t}
  BY DEF uhci_add_td_to_qh
<1>4. CASE UNCHANGED queue /\ running
  <2>1. t \in raced'
    BY <1>4 DEF uhci_add_td_to_qh
  <2>2. QueuesApart'
    BY <1>4 DEF UhciInv, QueuesApart
  <2>3. ASSUME NEW u \in Sender PROVE Alternates(u)'
    <3>1. Alternates(u) /\ (u \in raced => u \in raced')
      BY <1>3 DEF UhciInv
    <3>2. Len(queue[u]) \in Nat /\ \A i \in 1..Len(queue[u]) : queue[u][i] \in TD
      BY QueueTypes
    <3>3. \A i \in 1..(Len(queue[u]) - 1) : queue[u][i] \in TD /\ queue[u][i + 1] \in TD
      BY <3>2
    <3>4. QED
      BY <1>4, <3>1, <3>3 DEF Alternates
  <2>4. QED
    BY <1>1, <1>3, <1>4, <2>1, <2>2, <2>3
<1>5. CASE queue' = [queue EXCEPT ![t] = Append(@, mine[t])]
  <2>1. /\ queue'[t] = Append(queue[t], mine[t])
        /\ \A u \in Sender \ {t} : queue'[u] = queue[u]
    BY <1>1, <1>5
  <2>2. /\ Len(queue'[t]) = Len(queue[t]) + 1 /\ queue'[t] \in Seq(TD)
        /\ \A i \in 1..Len(queue[t]) : queue'[t][i] = queue[t][i]
        /\ queue'[t][Len(queue[t]) + 1] = mine[t]
    BY <1>1, <1>2, <2>1
  <2>3. queue' \in [Sender -> Seq(TD)]
    BY <1>1, <1>5, <2>1, <2>2
  <2>4. ASSUME NEW u \in Sender, NEW i \in 1..Len(queue'[u])
        PROVE  \/ i \in 1..Len(queue[u]) /\ queue'[u][i] = queue[u][i]
               \/ u = t /\ i = Len(queue[t]) + 1 /\ queue'[u][i] = mine[t]
    BY <1>1, <2>1, <2>2
  <2>5. \A u \in Sender : \A i \in 1..Len(queue[u]) : queue[u][i] # mine[t]
    BY <1>2, MineApart DEF Sent
  <2>6. QueuesApart'
    <3>1. SUFFICES ASSUME NEW u \in Sender, NEW v \in Sender, NEW i \in 1..Len(queue'[u]),
                          NEW j \in 1..Len(queue'[v]), queue'[u][i] = queue'[v][j]
                   PROVE  u = v /\ i = j
      BY DEF QueuesApart
    <3>2. /\ \/ i \in 1..Len(queue[u]) /\ queue'[u][i] = queue[u][i]
             \/ u = t /\ i = Len(queue[t]) + 1 /\ queue'[u][i] = mine[t]
          /\ \/ j \in 1..Len(queue[v]) /\ queue'[v][j] = queue[v][j]
             \/ v = t /\ j = Len(queue[t]) + 1 /\ queue'[v][j] = mine[t]
      BY <2>4
    <3>3. QED
      BY <2>5, <3>1, <3>2 DEF UhciInv, QueuesApart
  <2>7. ASSUME NEW u \in Sender PROVE Alternates(u)'
    <3>1. Alternates(u) /\ (u \in raced => u \in raced')
      BY <1>3 DEF UhciInv
    <3>2. Len(queue[u]) \in Nat /\ \A i \in 1..Len(queue[u]) : queue[u][i] \in TD
      BY QueueTypes
    <3>3. SUFFICES ASSUME u \notin raced, NEW i \in 1..(Len(queue'[u]) - 1)
                   PROVE  td'[queue'[u][i]].toggle # td'[queue'[u][i + 1]].toggle
      BY <3>1 DEF Alternates
    <3>4. CASE i \in 1..(Len(queue[u]) - 1)
      <4>1. i \in 1..Len(queue[u]) /\ i + 1 \in 1..Len(queue[u])
        BY <3>2, <3>4
      <4>2. queue'[u][i] = queue[u][i] /\ queue'[u][i + 1] = queue[u][i + 1]
        BY <2>1, <2>2, <4>1
      <4>3. QED
        BY <3>1, <3>2, <3>3, <3>4, <4>1, <4>2 DEF Alternates
    <3>5. CASE ~ i \in 1..(Len(queue[u]) - 1)
      <4>1. u = t /\ i = Len(queue[t]) /\ Len(queue[t]) > 0
        BY <1>1, <2>1, <2>2, <3>2, <3>5
      <4>2. i \in 1..Len(queue[t]) /\ queue'[t][i] = queue[t][i] /\ queue'[t][i + 1] = mine[t]
        BY <1>1, <2>2, <4>1
      <4>3. td[queue[t][i]].toggle # toggle[t]
        <5>1. Toggles(t)
          BY DEF UhciInv
        <5>2. QED
          BY <3>3, <4>1, <5>1 DEF Toggles, Queueing
      <4>4. td[mine[t]].toggle = toggle[t]
        <5>1. Sender1(t)
          BY DEF UhciInv
        <5>2. QED
          BY <5>1 DEF Sender1, Having
      <4>5. queue[t][i] \in TD
        BY <3>2, <4>1, <4>2
      <4>6. QED
        BY <1>2, <4>1, <4>2, <4>3, <4>4, <4>5
    <3>6. QED
      BY <3>4, <3>5
  <2>8. QED
    BY <1>1, <1>3, <2>1, <2>2, <2>3, <2>6, <2>7
<1>6. QED
  BY <1>4, <1>5 DEF uhci_add_td_to_qh

\* uhci_tx_pkt_now(): the descriptor passes from the thread to the controller.
LEMMA AsyncKeeps ==
  ASSUME UhciAssumption, UhciInv, NEW t \in Sender, QueueAsync(t)
  PROVE  UhciInv'
<1> DEFINE d == mine[t]
<1>1. /\ UhciType /\ PoolInv /\ CountInv /\ Sender1(t) /\ Waits(t) /\ QueuesApart
  BY PoolParts DEF UhciInv
<1>2. /\ upc[t] = "add" /\ upc' = [upc EXCEPT ![t] = "lock"] /\ left[t] > 1
      /\ uhci_add_td_to_qh(t) /\ td' = [td EXCEPT ![d].async = TRUE]
      /\ uhci_lock' = NULL /\ toggle' = [toggle EXCEPT ![t] = 1 - @]
      /\ left' = [left EXCEPT ![t] = @ - 1] /\ mine' = [mine EXCEPT ![t] = NULL]
      /\ UNCHANGED <<td_used, td_sem, waiting, woken, running, usbint>>
  BY DEF QueueAsync, go
<1>3. d \in TD /\ d # NULL /\ d \in td_used
  BY <1>1, <1>2, MineUsed DEF Sender1, Having
<1>4. td[d].status = "active" /\ td[d].toggle = toggle[t]
  BY <1>1, <1>2 DEF Sender1, Having
<1> HIDE DEF d
<1>5. /\ upc'[t] = "lock" /\ \A u \in Sender \ {t} : upc'[u] = upc[u]
      /\ toggle'[t] = 1 - toggle[t] /\ \A u \in Sender \ {t} : toggle'[u] = toggle[u]
      /\ left'[t] = left[t] - 1 /\ \A u \in Sender \ {t} : left'[u] = left[u]
      /\ mine'[t] = NULL /\ \A u \in Sender \ {t} : mine'[u] = mine[u]
      /\ \A e \in TD \ {d} : td'[e] = td[e]
  BY <1>1, <1>2, <1>3 DEF UhciType
<1>6. td'[d].async /\ td'[d].status = "active" /\ td'[d].toggle = toggle[t] /\ td'[d] \in Packet
  BY <1>1, <1>2, <1>3, <1>4 DEF UhciType, Packet
<1>7. td' \in [TD -> Packet] /\ \A e \in TD : td'[e].toggle = td[e].toggle
  BY <1>1, <1>2, <1>3, <1>4, <1>5, <1>6 DEF UhciType
<1>8. /\ queue' \in [Sender -> Seq(TD)] /\ QueuesApart'
      /\ raced \subseteq raced' /\ raced' \subseteq raced \cup {t}
      /\ \A u \in Sender \ {t} : queue'[u] = queue[u]
      /\ \A u \in Sender : Alternates(u)'
      /\ \/ queue' = queue /\ t \in raced'
         \/ /\ Len(queue'[t]) = Len(queue[t]) + 1 /\ Len(queue[t]) \in Nat
            /\ \A i \in 1..Len(queue[t]) : queue'[t][i] = queue[t][i]
            /\ queue'[t][Len(queue[t]) + 1] = d
  BY <1>2, <1>7, AddLinks DEF d
<1>9. UhciType'
  <2>1. upc' \in [Sender -> Places]
    BY <1>1, <1>2 DEF UhciType, Places
  <2>2. left' \in [Sender -> 0..MaxPackets]
    <3>1. left[t] - 1 \in 0..MaxPackets
      BY <1>1, <1>2 DEF UhciType, UhciAssumption
    <3>2. QED
      BY <1>1, <1>2, <3>1 DEF UhciType
  <2>3. mine' \in [Sender -> TD \cup {NULL}] /\ toggle' \in [Sender -> {0, 1}]
    <3>1. toggle \in [Sender -> {0, 1}] /\ mine \in [Sender -> TD \cup {NULL}]
      BY <1>1 DEF UhciType
    <3>2. 1 - toggle[t] \in {0, 1}
      BY <3>1
    <3>3. QED
      BY <1>2, <3>1, <3>2
  <2>4. raced' \in SUBSET Sender
    BY <1>1, <1>8 DEF UhciType
  <2>5. QED
    BY <1>1, <1>2, <1>7, <1>8, <2>1, <2>2, <2>3, <2>4 DEF UhciType
<1>10. TdConserved'
  <2>1. ASSUME NEW e \in TD
        PROVE  e \in td_used' <=> td'[e].async \/ \E u \in Sender : mine'[u] = e
    <3>1. CASE e = d
      BY <1>2, <1>3, <1>6, <3>1
    <3>2. CASE e # d
      <4>1. (\E u \in Sender : mine'[u] = e) <=> (\E u \in Sender : mine[u] = e)
        BY <1>5, <3>2 DEF d, UhciAssumption
      <4>2. e \in td_used <=> td[e].async \/ \E u \in Sender : mine[u] = e
        BY <1>1 DEF PoolInv
      <4>3. QED
        BY <1>2, <1>5, <3>2, <4>1, <4>2
    <3>3. QED
      BY <3>1, <3>2
  <2>2. ASSUME NEW u \in Sender, mine'[u] # NULL
        PROVE  /\ u # t /\ mine'[u] = mine[u] /\ mine[u] \in TD \ {d}
    <3>1. u # t /\ mine'[u] = mine[u]
      BY <1>5, <2>2
    <3>2. QED
      BY <1>1, <1>3, <2>2, <3>1 DEF PoolInv, UhciType, d
  <2>3. PoolInv'
    BY <1>1, <1>5, <2>1, <2>2 DEF PoolInv
  <2>4. CountInv'
    BY <1>1, <1>2 DEF CountInv
  <2>5. (TdConserved <=> PoolInv /\ CountInv)'
    BY <1>9, PoolParts, PTL
  <2>6. QED
    BY <2>3, <2>4, <2>5
<1>11. ASSUME NEW u \in Sender \ {t}
       PROVE  Sender1(u)' /\ Waits(u)' /\ Toggles(u)'
  <2>1. Sender1(u) /\ Waits(u) /\ Toggles(u)
    BY DEF UhciInv
  <2>2. upc[u] \in Having => td'[mine[u]] = td[mine[u]]
    <3>1. SUFFICES ASSUME mine[u] # NULL PROVE mine[u] \in TD \ {d}
      BY <1>5, <2>1 DEF Sender1
    <3>2. QED
      BY <1>1, <1>3, <3>1 DEF PoolInv, UhciType, d
  <2>3. upc[u] \notin Locking /\ uhci_lock' # u
    BY <1>1, <1>2, <2>1 DEF Sender1, Locking, UhciAssumption
  <2>4. {"stop", "add"} \subseteq Having /\ Sent \subseteq Having
    BY DEF Having, Sent
  <2>5. Sender1(u)'
    BY <1>5, <2>1, <2>2, <2>3, <2>4 DEF Sender1
  <2>6. queue'[u] = queue[u] /\ (u \in raced' <=> u \in raced)
    BY <1>8
  <2>7. Waits(u)'
    BY <1>2, <1>5, <2>1, <2>2, <2>4, <2>6 DEF Waits, Elems
  <2>8. Len(queue[u]) > 0 => queue[u][Len(queue[u])] \in TD
    BY QueueTypes
  <2>9. Toggles(u)'
    BY <1>5, <1>7, <2>1, <2>6, <2>8 DEF Toggles
  <2>10. QED
    BY <2>5, <2>7, <2>9
<1>12. Sender1(t)'
  <2>1. left[t] - 1 >= 1
    BY <1>1, <1>2 DEF UhciType
  <2>2. t # NULL
    BY DEF UhciAssumption
  <2>3. QED
    BY <1>2, <1>5, <2>1, <2>2 DEF Sender1, Locking, Having, Sent
<1>13. Waits(t)'
  BY <1>1, <1>2, <1>5 DEF Waits, Sent
<1>14. Toggles(t)'
  <2>1. toggle[t] \in {0, 1}
    BY <1>1 DEF UhciType
  <2>2. QED
    BY <1>5, <1>6, <1>8, <2>1 DEF Toggles
<1>15. ASSUME NEW u \in Sender, NEW i \in 1..Len(queue'[u])
       PROVE  Queued(u, i)'
  <2>1. CASE i \in 1..Len(queue[u]) /\ queue'[u][i] = queue[u][i]
    <3>1. Queued(u, i) /\ queue[u][i] \in TD
      BY <2>1, QueueTypes DEF UhciInv
    <3>2. queue[u][i] # d
      BY <1>2, <1>3, <2>1, MineApart DEF d, Sent
    <3>3. td'[queue[u][i]] = td[queue[u][i]]
      BY <1>5, <3>1, <3>2
    <3>4. upc[u] \in Sent => u # t /\ upc'[u] \in Sent /\ mine'[u] = mine[u] /\ queue'[u] = queue[u]
      BY <1>2, <1>5, <1>8 DEF Sent
    <3>5. QED
      BY <2>1, <3>1, <3>3, <3>4 DEF Queued
  <2>2. CASE queue'[u][i] = d
    BY <1>6, <2>2 DEF Queued
  <2>3. (i \in 1..Len(queue[u]) /\ queue'[u][i] = queue[u][i]) \/ queue'[u][i] = d
    BY <1>8
  <2>4. QED
    BY <2>1, <2>2, <2>3
<1>16. \A u \in Sender : Sender1(u)' /\ Waits(u)' /\ Toggles(u)'
  BY <1>11, <1>12, <1>13, <1>14
<1>17. QED
  BY <1>8, <1>9, <1>10, <1>15, <1>16 DEF UhciInv

\* uhci_tx_pkt_wait() up to uhci_run(): the thread joins the waiting list with its
\* packet last in the queue.
LEMMA LastKeeps ==
  ASSUME UhciAssumption, UhciInv, NEW t \in Sender, QueueLast(t)
  PROVE  UhciInv'
<1> DEFINE d == mine[t]
<1>1. /\ UhciType /\ Sender1(t) /\ Waits(t)
  BY DEF UhciInv
<1>2. /\ upc[t] = "add" /\ upc' = [upc EXCEPT ![t] = "run"] /\ left[t] = 1
      /\ uhci_add_td_to_qh(t) /\ waiting' = waiting \cup {t}
      /\ UNCHANGED <<left, mine, toggle, td, td_used, td_sem, woken, uhci_lock, running, usbint>>
  BY DEF QueueLast, go
<1>3. d \in TD /\ d # NULL
  BY <1>1, <1>2, MineUsed DEF Sender1, Having
<1>4. td[d].status = "active"
  BY <1>1, <1>2 DEF Sender1
<1> HIDE DEF d
<1>5. upc'[t] = "run" /\ \A u \in Sender \ {t} : upc'[u] = upc[u]
  BY <1>1, <1>2 DEF UhciType
<1>6. td' \in [TD -> Packet] /\ \A e \in TD : td'[e].toggle = td[e].toggle
  BY <1>1, <1>2 DEF UhciType
<1>8. /\ queue' \in [Sender -> Seq(TD)] /\ QueuesApart'
      /\ raced \subseteq raced' /\ raced' \subseteq raced \cup {t}
      /\ \A u \in Sender \ {t} : queue'[u] = queue[u]
      /\ \A u \in Sender : Alternates(u)'
      /\ \/ queue' = queue /\ t \in raced'
         \/ /\ Len(queue'[t]) = Len(queue[t]) + 1 /\ Len(queue[t]) \in Nat
            /\ \A i \in 1..Len(queue[t]) : queue'[t][i] = queue[t][i]
            /\ queue'[t][Len(queue[t]) + 1] = d
  BY <1>2, <1>6, AddLinks DEF d
<1>9. UhciType'
  <2>1. upc' \in [Sender -> Places]
    BY <1>1, <1>2 DEF UhciType, Places
  <2>2. raced' \in SUBSET Sender /\ waiting' \in SUBSET Sender
    BY <1>1, <1>2, <1>8 DEF UhciType
  <2>3. QED
    BY <1>1, <1>2, <1>6, <1>8, <2>1, <2>2 DEF UhciType
<1>10. TdConserved'
  BY <1>2 DEF UhciInv, TdConserved
<1>11. ASSUME NEW u \in Sender \ {t}
       PROVE  Sender1(u)' /\ Waits(u)' /\ Toggles(u)'
  <2>1. Sender1(u) /\ Waits(u) /\ Toggles(u)
    BY DEF UhciInv
  <2>2. queue'[u] = queue[u] /\ (u \in raced' <=> u \in raced) /\ (u \in waiting' <=> u \in waiting)
    BY <1>2, <1>8
  <2>3. Sender1(u)'
    BY <1>2, <1>5, <2>1 DEF Sender1
  <2>4. Waits(u)' /\ Toggles(u)'
    BY <1>2, <1>5, <2>1, <2>2 DEF Waits, Toggles, Elems
  <2>5. QED
    BY <2>3, <2>4
<1>12. Sender1(t)' /\ Toggles(t)'
  BY <1>1, <1>2, <1>5 DEF Sender1, Toggles, Locking, Having, Sent, Queueing
<1>13. Waits(t)'
  <2>1. t \in waiting' /\ t \notin woken' /\ upc'[t] \in Sent /\ upc'[t] # "idle"
    BY <1>1, <1>2, <1>5 DEF Waits, Sent
  <2>2. td'[mine'[t]].status = "active"
    BY <1>2, <1>4 DEF d
  <2>3. ASSUME t \notin raced' PROVE mine'[t] \in Elems(queue'[t])
    <3>1. /\ Len(queue'[t]) = Len(queue[t]) + 1 /\ Len(queue[t]) \in Nat
          /\ queue'[t][Len(queue[t]) + 1] = mine'[t]
      BY <1>2, <1>8, <2>3 DEF d
    <3>2. Len(queue[t]) + 1 \in 1..Len(queue'[t])
      BY <3>1
    <3>3. QED
      BY <3>1, <3>2 DEF Elems
  <2>4. QED
    BY <2>1, <2>2, <2>3 DEF Waits, Elems
<1>15. ASSUME NEW u \in Sender, NEW i \in 1..Len(queue'[u])
       PROVE  Queued(u, i)'
  <2>1. CASE i \in 1..Len(queue[u]) /\ queue'[u][i] = queue[u][i]
    <3>1. Queued(u, i)
      BY <2>1 DEF UhciInv
    <3>2. upc[u] \in Sent => upc'[u] \in Sent /\ queue'[u] = queue[u]
      BY <1>2, <1>5, <1>8 DEF Sent
    <3>3. QED
      BY <1>2, <2>1, <3>1, <3>2 DEF Queued
  <2>2. CASE u = t /\ queue'[u][i] = d /\ i = Len(queue'[t])
    BY <1>2, <1>4, <1>5, <2>2 DEF Queued, Sent, d
  <2>3. \/ i \in 1..Len(queue[u]) /\ queue'[u][i] = queue[u][i]
        \/ u = t /\ queue'[u][i] = d /\ i = Len(queue'[t])
    BY <1>8
  <2>4. QED
    BY <2>1, <2>2, <2>3
<1>16. \A u \in Sender : Sender1(u)' /\ Waits(u)' /\ Toggles(u)'
  BY <1>11, <1>12, <1>13
<1>17. QED
  BY <1>8, <1>9, <1>10, <1>15, <1>16 DEF UhciInv

\* The descriptors given back leave the pool and are set up no longer.
LEMMA ReleaseFrees ==
  ASSUME UhciAssumption, UhciInv, NEW ds \in SUBSET td_used, uhci_release_td(ds)
  PROVE  /\ td_used' \in SUBSET TD /\ td_sem' \in Nat /\ td' \in [TD -> Packet] /\ CountInv'
         /\ \A e \in ds : ~ td'[e].async /\ e \notin td_used'
         /\ \A e \in TD \ ds : td'[e] = td[e] /\ (e \in td_used' <=> e \in td_used)
<1>1. UhciType /\ CountInv
  BY PoolParts DEF UhciInv
<1>2. /\ td_used' = td_used \ ds /\ td_sem' = td_sem + Cardinality(ds)
      /\ td' = [d \in TD |-> IF d \in ds THEN Unset ELSE td[d]]
  BY DEF uhci_release_td
<1>3. td_used \in SUBSET TD /\ ds \in SUBSET TD
  BY <1>1 DEF UhciType
<1>4. td' \in [TD -> Packet]
  <2>1. Unset \in Packet
    BY DEF Unset, Packet
  <2>2. QED
    BY <1>1, <1>2, <2>1 DEF UhciType
<1>5. \A e \in ds : ~ td'[e].async
  BY <1>2, <1>3 DEF Unset
<1>6. td_sem' \in Nat /\ CountInv'
  <2>1. IsFiniteSet(td_used) /\ Cardinality(td_used) \in Nat /\ Cardinality(ds) \in Nat
    BY <1>3, PoolSize
  <2>2. Cardinality(td_used \ ds) = Cardinality(td_used) - Cardinality(td_used \cap ds)
    BY <2>1, FS_Difference
  <2>3. td_used \cap ds = ds
    OBVIOUS
  <2>4. Cardinality(td_used') = Cardinality(td_used) - Cardinality(ds)
    BY <1>2, <2>2, <2>3
  <2>5. td_sem \in Nat /\ td_sem + Cardinality(td_used) = TD_ENTRIES
    BY <1>1 DEF UhciType, CountInv
  <2>6. QED
    BY <1>2, <2>1, <2>4, <2>5 DEF CountInv
<1>7. QED
  BY <1>2, <1>3, <1>4, <1>5, <1>6

\* The rest of uhci_tx_pkt_wait(): the descriptor goes back to the pool.
LEMMA FinishKeeps ==
  ASSUME UhciAssumption, UhciInv, NEW t \in Sender, Finish(t)
  PROVE  UhciInv'
<1> DEFINE d == mine[t]
           x == IF td[d].status = "done" THEN 1 - toggle[t] ELSE toggle[t]
<1>1. UhciType /\ PoolInv /\ CountInv /\ Sender1(t) /\ Waits(t)
  BY PoolParts DEF UhciInv
<1>2. /\ upc[t] = "asleep" /\ upc' = [upc EXCEPT ![t] = "idle"]
      /\ t \in woken /\ woken' = woken \ {t}
      /\ toggle' = [toggle EXCEPT ![t] = x] /\ uhci_release_td({d})
      /\ mine' = [mine EXCEPT ![t] = NULL] /\ raced' = raced \ {t}
      /\ UNCHANGED <<left, queue, waiting, uhci_lock, running, usbint>>
  BY DEF Finish, go
<1>3. d \in TD /\ d # NULL /\ d \in td_used
  BY <1>1, <1>2, MineUsed DEF Sender1, Having
<1>4. x \in {0, 1}
  BY <1>1 DEF UhciType
<1> HIDE DEF d, x
<1>5. /\ upc'[t] = "idle" /\ \A u \in Sender \ {t} : upc'[u] = upc[u]
      /\ \A u \in Sender \ {t} : toggle'[u] = toggle[u]
      /\ mine'[t] = NULL /\ \A u \in Sender \ {t} : mine'[u] = mine[u]
  BY <1>1, <1>2 DEF UhciType
<1>6. /\ td_used' \in SUBSET TD /\ td_sem' \in Nat /\ td' \in [TD -> Packet] /\ CountInv'
      /\ ~ td'[d].async /\ d \notin td_used'
      /\ \A e \in TD \ {d} : td'[e] = td[e] /\ (e \in td_used' <=> e \in td_used)
  BY <1>2, <1>3, ReleaseFrees
<1>7. Len(queue[t]) = 0
  BY <1>1, <1>2 DEF Waits
<1>8. ASSUME NEW u \in Sender, NEW i \in 1..Len(queue[u])
      PROVE  u # t /\ queue[u][i] \in TD \ {d} /\ td'[queue[u][i]] = td[queue[u][i]]
  <2>1. queue[u][i] \in TD
    BY QueueTypes
  <2>2. u # t
    BY <1>7
  <2>3. queue[u][i] # d
    BY <1>3, <2>2, MineApart DEF d
  <2>4. QED
    BY <1>6, <2>1, <2>2, <2>3
<1>9. UhciType'
  <2>1. upc' \in [Sender -> Places]
    BY <1>1, <1>2 DEF UhciType, Places
  <2>2. mine' \in [Sender -> TD \cup {NULL}] /\ toggle' \in [Sender -> {0, 1}]
    BY <1>1, <1>2, <1>4 DEF UhciType
  <2>3. raced' \in SUBSET Sender /\ woken' \in SUBSET Sender
    BY <1>1, <1>2 DEF UhciType
  <2>4. QED
    BY <1>1, <1>2, <1>6, <2>1, <2>2, <2>3 DEF UhciType
<1>10. TdConserved'
  <2>1. ASSUME NEW e \in TD
        PROVE  e \in td_used' <=> td'[e].async \/ \E u \in Sender : mine'[u] = e
    <3>1. CASE e = d
      <4>1. \A u \in Sender : mine'[u] # d
        BY <1>1, <1>3, <1>5 DEF PoolInv, d
      <4>2. QED
        BY <1>6, <3>1, <4>1
    <3>2. CASE e # d
      <4>1. (\E u \in Sender : mine'[u] = e) <=> (\E u \in Sender : mine[u] = e)
        BY <1>5, <3>2 DEF d, UhciAssumption
      <4>2. e \in td_used <=> td[e].async \/ \E u \in Sender : mine[u] = e
        BY <1>1 DEF PoolInv
      <4>3. QED
        BY <1>6, <3>2, <4>1, <4>2
    <3>3. QED
      BY <3>1, <3>2
  <2>2. ASSUME NEW u \in Sender, mine'[u] # NULL
        PROVE  /\ u # t /\ mine'[u] = mine[u] /\ mine[u] \in TD \ {d}
    <3>1. u # t /\ mine'[u] = mine[u]
      BY <1>5, <2>2
    <3>2. QED
      BY <1>1, <1>3, <2>2, <3>1 DEF PoolInv, UhciType, d
  <2>3. PoolInv'
    BY <1>1, <1>6, <2>1, <2>2 DEF PoolInv
  <2>4. (TdConserved <=> PoolInv /\ CountInv)'
    BY <1>9, PoolParts, PTL
  <2>5. QED
    BY <1>6, <2>3, <2>4
<1>11. QueuesApart'
  BY <1>2 DEF UhciInv, QueuesApart
<1>12. ASSUME NEW u \in Sender \ {t}
       PROVE  Sender1(u)' /\ Waits(u)'
  <2>1. Sender1(u) /\ Waits(u)
    BY DEF UhciInv
  <2>2. upc[u] \in Having => td'[mine[u]] = td[mine[u]]
    <3>1. SUFFICES ASSUME mine[u] # NULL PROVE mine[u] \in TD \ {d}
      BY <1>6, <2>1 DEF Sender1
    <3>2. QED
      BY <1>1, <1>3, <3>1 DEF PoolInv, UhciType, d
  <2>3. {"stop", "add"} \subseteq Having /\ Sent \subseteq Having
    BY DEF Having, Sent
  <2>4. Sender1(u)'
    BY <1>2, <1>5, <2>1, <2>2, <2>3 DEF Sender1
  <2>5. (u \in woken' <=> u \in woken) /\ (u \in raced' <=> u \in raced)
    BY <1>2
  <2>6. Waits(u)'
    BY <1>2, <1>5, <2>1, <2>2, <2>3, <2>5 DEF Waits, Elems
  <2>7. QED
    BY <2>4, <2>6
<1>13. Sender1(t)' /\ Waits(t)'
  <2>1. t \notin waiting' /\ t \notin woken' /\ t \notin raced'
    BY <1>1, <1>2 DEF Waits
  <2>2. uhci_lock # t
    BY <1>1, <1>2 DEF Sender1, Locking
  <2>3. QED
    BY <1>2, <1>5, <1>7, <2>1, <2>2 DEF Sender1, Waits, Locking, Having, Sent
<1>14. ASSUME NEW u \in Sender
       PROVE  Toggles(u)' /\ Alternates(u)'
  <2>1. CASE u = t
    BY <1>2, <1>7, <2>1 DEF Toggles, Alternates
  <2>2. CASE u # t
    <3>1. Toggles(u) /\ Alternates(u) /\ Len(queue[u]) \in Nat
      BY QueueTypes DEF UhciInv
    <3>2. \A i \in 1..Len(queue[u]) : td'[queue[u][i]] = td[queue[u][i]]
      BY <1>8
    <3>3. /\ Len(queue[u]) > 0 => Len(queue[u]) \in 1..Len(queue[u])
          /\ \A i \in 1..(Len(queue[u]) - 1) : i \in 1..Len(queue[u]) /\ i + 1 \in 1..Len(queue[u])
      BY <3>1
    <3>4. (u \in raced' <=> u \in raced) /\ upc'[u] = upc[u] /\ toggle'[u] = toggle[u]
      BY <1>2, <1>5, <2>2
    <3>5. Toggles(u)'
      BY <1>2, <3>1, <3>2, <3>3, <3>4 DEF Toggles
    <3>6. Alternates(u)'
      BY <1>2, <3>1, <3>2, <3>3, <3>4 DEF Alternates
    <3>7. QED
      BY <3>5, <3>6
  <2>3. QED
    BY <2>1, <2>2
<1>15. ASSUME NEW u \in Sender, NEW i \in 1..Len(queue'[u])
       PROVE  Queued(u, i)'
  <2>1. queue' = queue /\ i \in 1..Len(queue[u])
    BY <1>2
  <2>2. Queued(u, i) /\ u # t /\ td'[queue[u][i]] = td[queue[u][i]]
    BY <1>8, <2>1 DEF UhciInv
  <2>3. QED
    BY <1>5, <2>1, <2>2 DEF Queued
<1>16. \A u \in Sender : Sender1(u)' /\ Waits(u)'
  BY <1>12, <1>13
<1>17. QED
  BY <1>9, <1>10, <1>11, <1>14, <1>15, <1>16 DEF UhciInv

-----------------------------------------------------------------------------
\* Queues that lose at most their first packet.
Shifts(u) ==
  \E k \in {0, 1} : /\ Len(queue'[u]) = Len(queue[u]) - k
                    /\ \A i \in 1..Len(queue'[u]) : queue'[u][i] = queue[u][i + k]

\* What is left keeps its order, so it alternates as before.
LEMMA ShiftKeeps ==
  ASSUME UhciAssumption, UhciInv, UhciType', UNCHANGED <<upc, toggle, raced>>,
         \A u \in Sender : Shifts(u),
         \A u \in Sender : \A i \in 1..Len(queue'[u]) :
           td'[queue'[u][i]].toggle = td[queue'[u][i]].toggle
  PROVE  QueuesApart' /\ \A u \in Sender : Toggles(u)' /\ Alternates(u)'
<1>1. ASSUME NEW u \in Sender
      PROVE  Len(queue[u]) \in Nat /\ Len(queue'[u]) \in Nat
  BY QueueTypes DEF UhciType
<1>2. QueuesApart'
  <2>1. SUFFICES ASSUME NEW u \in Sender, NEW v \in Sender, NEW i \in 1..Len(queue'[u]),
                        NEW j \in 1..Len(queue'[v]), queue'[u][i] = queue'[v][j]
                 PROVE  u = v /\ i = j
    BY DEF QueuesApart
  <2>2. PICK k \in {0, 1} : /\ Len(queue'[u]) = Len(queue[u]) - k
                            /\ \A x \in 1..Len(queue'[u]) : queue'[u][x] = queue[u][x + k]
    BY DEF Shifts
  <2>3. PICK l \in {0, 1} : /\ Len(queue'[v]) = Len(queue[v]) - l
                            /\ \A x \in 1..Len(queue'[v]) : queue'[v][x] = queue[v][x + l]
    BY DEF Shifts
  <2>4. /\ i + k \in 1..Len(queue[u]) /\ j + l \in 1..Len(queue[v])
        /\ queue[u][i + k] = queue[v][j + l]
    <3>1. i + k \in 1..Len(queue[u])
      BY <1>1, <2>2
    <3>2. j + l \in 1..Len(queue[v])
      BY <1>1, <2>3
    <3>3. queue'[u][i] = queue[u][i + k] /\ queue'[v][j] = queue[v][j + l]
      BY <2>2, <2>3
    <3>4. QED
      BY <2>1, <3>1, <3>2, <3>3
  <2>5. u = v /\ i + k = j + l
    <3>1. QueuesApart
      BY DEF UhciInv
    <3>2. PICK a \in 1..Len(queue[u]) : a = i + k
      BY <2>4
    <3>3. PICK b \in 1..Len(queue[v]) : b = j + l
      BY <2>4
    <3>4. queue[u][a] = queue[v][b]
      BY <2>4, <3>2, <3>3
    <3>5. u = v /\ a = b
      BY <3>1, <3>4 DEF QueuesApart
    <3>6. QED
      BY <3>2, <3>3, <3>5
  <2>6. k = l
    BY <1>1, <2>2, <2>3, <2>5
  <2>7. QED
    BY <2>5, <2>6
<1>3. ASSUME NEW u \in Sender
      PROVE  Toggles(u)' /\ Alternates(u)'
  <2>1. PICK k \in {0, 1} : /\ Len(queue'[u]) = Len(queue[u]) - k
                            /\ \A x \in 1..Len(queue'[u]) : queue'[u][x] = queue[u][x + k]
    BY DEF Shifts
  <2>2. Toggles(u) /\ Alternates(u)
    BY DEF UhciInv
  <2>3. Toggles(u)'
    <3>1. SUFFICES ASSUME u \notin raced, upc[u] \in Queueing, Len(queue'[u]) > 0
                   PROVE  td'[queue'[u][Len(queue'[u])]].toggle # toggle[u]
      BY DEF Toggles
    <3>2. Len(queue'[u]) \in 1..Len(queue'[u]) /\ Len(queue[u]) > 0 /\ Len(queue'[u]) + k = Len(queue[u])
      BY <1>1, <2>1, <3>1
    <3>3. queue'[u][Len(queue'[u])] = queue[u][Len(queue[u])]
      BY <2>1, <3>2
    <3>4. td'[queue'[u][Len(queue'[u])]].toggle = td[queue'[u][Len(queue'[u])]].toggle
      BY <3>2
    <3>5. QED
      BY <2>2, <3>1, <3>2, <3>3, <3>4 DEF Toggles
  <2>4. Alternates(u)'
    <3>1. SUFFICES ASSUME u \notin raced, NEW i \in 1..(Len(queue'[u]) - 1)
                   PROVE  td'[queue'[u][i]].toggle # td'[queue'[u][i + 1]].toggle
      BY DEF Alternates
    <3>2. /\ i \in 1..Len(queue'[u]) /\ i + 1 \in 1..Len(queue'[u])
          /\ i + k \in 1..(Len(queue[u]) - 1) /\ (i + 1) + k = (i + k) + 1
      BY <1>1, <2>1
    <3>3. /\ queue'[u][i] = queue[u][i + k] /\ queue'[u][i + 1] = queue[u][(i + k) + 1]
          /\ td'[queue'[u][i]].toggle = td[queue'[u][i]].toggle
          /\ td'[queue'[u][i + 1]].toggle = td[queue'[u][i + 1]].toggle
      BY <2>1, <3>2
    <3>4. td[queue[u][i + k]].toggle # td[queue[u][(i + k) + 1]].toggle
      BY <2>2, <3>1, <3>2 DEF Alternates
    <3>5. QED
      BY <3>3, <3>4
  <2>5. QED
    BY <2>3, <2>4
<1>4. QED
  BY <1>2, <1>3

\* The controller carries out the first packet of a queue.
LEMMA ExecuteKeeps ==
  ASSUME UhciAssumption, UhciInv, NEW t \in Sender, Execute(t)
  PROVE  UhciInv'
<1> DEFINE d == queue[t][1]
<1>1. UhciType /\ PoolInv /\ CountInv /\ QueuesApart /\ Queued(t, 1) /\ Waits(t)
  <2>1. Len(queue[t]) \in Nat /\ queue[t] \in Seq(TD) /\ queue[t] # <<>>
    BY QueueTypes DEF Execute
  <2>2. 1 \in 1..Len(queue[t])
    BY <2>1
  <2>3. QED
    BY <2>2, PoolParts DEF UhciInv
<1>2. /\ queue[t] # <<>> /\ queue[t] \in Seq(TD) /\ Len(queue[t]) \in Nat /\ Len(queue[t]) >= 1
      /\ Head(queue[t]) = d /\ d \in TD
  <2>1. queue[t] # <<>> /\ queue[t] \in Seq(TD)
    BY <1>1 DEF Execute, UhciType
  <2>2. QED
    BY <2>1
<1>3. /\ running /\ td[d].status = "active"
      /\ \/ /\ td' = [td EXCEPT ![d].status = "done"] /\ queue' = [queue EXCEPT ![t] = Tail(@)]
         \/ /\ td' = [td EXCEPT ![d].status = "failed"] /\ UNCHANGED queue
      /\ usbint' = (usbint \/ ~ td[d].async)
      /\ UNCHANGED <<upc, left, mine, toggle, td_used, td_sem, waiting, woken, uhci_lock, running, raced>>
  BY <1>2 DEF Execute
<1> HIDE DEF d
<1>4. /\ \A e \in TD \ {d} : td'[e] = td[e]
      /\ td' \in [TD -> Packet] /\ td'[d].toggle = td[d].toggle /\ td'[d].async = td[d].async
      /\ td'[d].status \in {"done", "failed"}
  <2>1. PICK x \in {"done", "failed"} : td' = [td EXCEPT ![d].status = x]
    BY <1>3
  <2>2. td \in [TD -> Packet] /\ td[d] \in Packet
    BY <1>1, <1>2 DEF UhciType
  <2>3. td' = [td EXCEPT ![d] = [td[d] EXCEPT !.status = x]]
    BY <2>1
  <2>4. td'[d] = [td[d] EXCEPT !.status = x] /\ \A e \in TD \ {d} : td'[e] = td[e]
    BY <1>2, <2>2, <2>3
  <2>5. /\ td'[d] \in Packet /\ td'[d].toggle = td[d].toggle /\ td'[d].async = td[d].async
        /\ td'[d].status = x
    BY <2>2, <2>4 DEF Packet
  <2>6. td' \in [TD -> Packet]
    BY <2>2, <2>3, <2>4, <2>5
  <2>7. QED
    BY <2>4, <2>5, <2>6
<1>5. /\ queue' \in [Sender -> Seq(TD)] /\ \A u \in Sender \ {t} : queue'[u] = queue[u]
      /\ \/ queue'[t] = Tail(queue[t])
         \/ queue'[t] = queue[t] /\ td'[d].status = "failed"
  <2>1. Tail(queue[t]) \in Seq(TD)
    BY <1>2
  <2>2. CASE td' = [td EXCEPT ![d].status = "done"] /\ queue' = [queue EXCEPT ![t] = Tail(@)]
    BY <1>1, <2>1, <2>2 DEF UhciType
  <2>3. CASE td' = [td EXCEPT ![d].status = "failed"] /\ UNCHANGED queue
    BY <1>1, <1>2, <2>3 DEF UhciType
  <2>4. QED
    BY <1>3, <2>2, <2>3
<1>6. UhciType'
  BY <1>1, <1>3, <1>4, <1>5 DEF UhciType
<1>7. TdConserved'
  <2>1. \A e \in TD : td'[e].async = td[e].async
    BY <1>4
  <2>2. mine \in [Sender -> TD \cup {NULL}]
    BY <1>1 DEF UhciType
  <2>3. PoolInv' /\ CountInv'
    BY <1>1, <1>3, <2>1, <2>2 DEF PoolInv, CountInv
  <2>4. (TdConserved <=> PoolInv /\ CountInv)'
    BY <1>6, PoolParts, PTL
  <2>5. QED
    BY <2>3, <2>4
<1>8. PICK k \in {0, 1} : /\ Len(queue'[t]) = Len(queue[t]) - k
                          /\ \A i \in 1..Len(queue'[t]) : queue'[t][i] = queue[t][i + k]
                          /\ k = 0 => td'[d].status = "failed"
  <2>1. CASE queue'[t] = Tail(queue[t])
    <3>1. /\ Len(queue'[t]) = Len(queue[t]) - 1
          /\ \A i \in 1..Len(queue'[t]) : queue'[t][i] = queue[t][i + 1]
      BY <1>2, <2>1
    <3>2. QED
      BY <3>1
  <2>2. CASE queue'[t] = queue[t] /\ td'[d].status = "failed"
    <3>1. /\ Len(queue'[t]) = Len(queue[t]) - 0
          /\ \A i \in 1..Len(queue'[t]) : queue'[t][i] = queue[t][i + 0]
      BY <1>2, <2>2
    <3>2. QED
      BY <2>2, <3>1
  <2>3. QED
    BY <1>5, <2>1, <2>2
<1>9. ASSUME NEW u \in Sender PROVE Shifts(u)
  <2>1. CASE u = t
    BY <1>8, <2>1 DEF Shifts
  <2>2. CASE u # t
    <3>1. /\ Len(queue'[u]) = Len(queue[u]) - 0
          /\ \A i \in 1..Len(queue'[u]) : queue'[u][i] = queue[u][i + 0]
      BY <1>5, <2>2, QueueTypes
    <3>2. QED
      BY <3>1 DEF Shifts
  <2>3. QED
    BY <2>1, <2>2
<1>10. \A e \in TD : td'[e].toggle = td[e].toggle
  BY <1>4
<1>11. QueuesApart' /\ \A u \in Sender : Toggles(u)' /\ Alternates(u)'
  <2>1. \A u \in Sender : \A i \in 1..Len(queue'[u]) : queue'[u][i] \in TD
    BY <1>5
  <2>2. QED
    BY <1>3, <1>6, <1>9, <1>10, <2>1, ShiftKeeps
<1>12. ASSUME NEW u \in Sender, mine[u] = d
       PROVE  u = t /\ upc[t] \in Sent /\ Len(queue[t]) = 1 /\ ~ td[d].async
  <2>1. 1 \in 1..Len(queue[t]) /\ mine[u] # NULL
    BY <1>2, <1>12 DEF UhciAssumption
  <2>2. queue[t][1] = mine[u]
    BY <1>12 DEF d
  <2>3. t = u /\ upc[u] \in Sent /\ 1 = Len(queue[u])
    BY <2>1, <2>2, MineApart
  <2>4. ~ td[mine[u]].async
    BY <1>1, <2>1 DEF PoolInv
  <2>5. QED
    BY <1>12, <2>3, <2>4
<1>13. ASSUME NEW u \in Sender, mine[u] # NULL, mine[u] # d PROVE td'[mine[u]] = td[mine[u]]
  BY <1>1, <1>4, <1>13 DEF UhciType
<1>14. ASSUME NEW u \in Sender PROVE Sender1(u)'
  <2>1. Sender1(u)
    BY DEF UhciInv
  <2>2. upc[u] \in {"stop", "add"} => mine[u] # d
    BY <1>12 DEF Sent
  <2>3. upc[u] \in Having => td'[mine[u]].toggle = td[mine[u]].toggle
    BY <1>1, <1>10, <2>1 DEF Sender1, UhciType
  <2>4. upc[u] \in {"stop", "add"} => upc[u] \in Having
    BY DEF Having
  <2>5. QED
    BY <1>3, <1>13, <2>1, <2>2, <2>3, <2>4 DEF Sender1
<1>15. ASSUME NEW u \in Sender PROVE Waits(u)'
  <2>1. Waits(u) /\ (usbint => usbint')
    BY <1>3 DEF UhciInv
  <2>2. u \in waiting => mine[u] # NULL
    <3>1. Sender1(u)
      BY DEF UhciInv
    <3>2. QED
      BY <2>1, <3>1 DEF Waits, Sender1, Sent, Having
  <2>3. CASE u # t
    <3>1. queue'[u] = queue[u] /\ (u \in waiting => td'[mine[u]] = td[mine[u]])
      BY <1>5, <1>12, <1>13, <2>2, <2>3
    <3>2. QED
      BY <1>3, <2>1, <3>1 DEF Waits, Elems
  <2>4. CASE u = t
    <3>1. t \notin woken /\ upc[t] # "idle"
      BY <1>1, <1>2 DEF Waits
    <3>2. ASSUME t \in waiting, td'[mine[t]].status = "active", t \notin raced
          PROVE  mine[t] \in Elems(queue'[t])
      <4>1. mine[t] # d
        BY <1>4, <3>2
      <4>2. td[mine[t]].status = "active"
        BY <1>13, <2>2, <2>4, <3>2, <4>1
      <4>3. PICK i \in 1..Len(queue[t]) : queue[t][i] = mine[t]
        BY <1>1, <3>2, <4>2, QueueTypes DEF Waits
      <4>4. i - k \in 1..Len(queue'[t]) /\ (i - k) + k = i
        BY <1>2, <1>8, <4>1, <4>3 DEF d
      <4>5. queue'[t][i - k] = mine[t]
        BY <1>8, <4>3, <4>4
      <4>6. QED
        BY <4>4, <4>5 DEF Elems
    <3>3. ASSUME t \in waiting, td'[mine[t]].status # "active"
          PROVE  usbint' /\ \A i \in 1..Len(queue'[t]) : queue'[t][i] = mine[t]
      <4>1. CASE mine[t] = d
        <5>1. usbint' /\ Len(queue[t]) = 1
          BY <1>3, <1>12, <4>1
        <5>2. \A i \in 1..Len(queue'[t]) : i + k \in 1..Len(queue[t]) /\ i + k = 1
          BY <1>8, <5>1
        <5>3. QED
          BY <1>8, <4>1, <5>1, <5>2 DEF d
      <4>2. CASE mine[t] # d
        <5>1. td[mine[t]].status # "active"
          BY <1>13, <2>2, <2>4, <3>3, <4>2
        <5>2. 1 \in 1..Len(queue[t])
          BY <1>2
        <5>3. QED
          BY <1>1, <3>3, <4>2, <5>1, <5>2 DEF Waits, d
      <4>3. QED
        BY <4>1, <4>2
    <3>4. QED
      BY <1>3, <2>1, <2>4, <3>1, <3>2, <3>3 DEF Waits, Elems
  <2>5. QED
    BY <2>3, <2>4
<1>16. ASSUME NEW u \in Sender, NEW i \in 1..Len(queue'[u])
       PROVE  Queued(u, i)'
  <2>1. CASE u # t
    <3>1. queue'[u] = queue[u] /\ Queued(u, i) /\ queue[u][i] \in TD
      BY <1>5, <2>1, QueueTypes DEF UhciInv
    <3>2. queue[u][i] # d
      <4>1. 1 \in 1..Len(queue[t]) /\ i \in 1..Len(queue[u])
        BY <1>2, <3>1
      <4>2. QED
        BY <1>1, <2>1, <4>1 DEF QueuesApart, d
    <3>3. td'[queue[u][i]] = td[queue[u][i]]
      BY <1>4, <3>1, <3>2
    <3>4. QED
      BY <1>3, <3>1, <3>3 DEF Queued
  <2>2. CASE u = t
    <3>1. /\ i \in Nat /\ i >= 1 /\ i <= Len(queue'[t])
          /\ i + k \in 1..Len(queue[t]) /\ queue'[t][i] = queue[t][i + k]
          /\ i + k = Len(queue[t]) => i = Len(queue'[t])
      BY <1>2, <1>8, <2>2
    <3>2. Queued(t, i + k) /\ queue[t][i + k] \in TD
      BY <3>1, QueueTypes DEF UhciInv
    <3>3. CASE i + k = 1
      <4>1. i = 1 /\ k = 0 /\ queue'[t][i] = d
        BY <3>1, <3>3 DEF d
      <4>2. td'[d].status = "failed" /\ td'[d].async = td[d].async
        BY <1>4, <1>8, <4>1
      <4>3. td[d].async \/ (upc[t] \in Sent /\ d = mine[t] /\ i = Len(queue'[t]))
        BY <3>1, <3>2, <4>1 DEF Queued
      <4>4. QED
        BY <1>3, <2>2, <4>1, <4>2, <4>3 DEF Queued
    <3>4. CASE i + k # 1
      <4>1. queue[t][i + k] # d
        <5>1. 1 \in 1..Len(queue[t])
          BY <1>2
        <5>2. QED
          BY <1>1, <3>1, <3>4, <5>1 DEF QueuesApart, d
      <4>2. td'[queue[t][i + k]] = td[queue[t][i + k]]
        BY <1>4, <3>2, <4>1
      <4>3. QED
        BY <1>3, <2>2, <3>1, <3>2, <3>4, <4>2 DEF Queued
    <3>5. QED
      BY <3>3, <3>4
  <2>3. QED
    BY <2>1, <2>2
<1>17. QED
  BY <1>6, <1>7, <1>11, <1>14, <1>15, <1>16 DEF UhciInv

\* uhci_irq(): the packets that ended leave the queues; in each queue that is the
\* first one at most.
LEMMA IrqKeeps ==
  ASSUME UhciAssumption, UhciInv, uhci_irq
  PROVE  UhciInv'
<1> DEFINE ended == {t \in waiting : td[mine[t]].status # "active"}
           gone == Reclaimed(ended)
           out == gone \cup {mine[t] : t \in ended}
<1>1. UhciType /\ PoolInv /\ QueuesApart /\ waiting \subseteq Sender
  BY PoolParts DEF UhciInv, UhciType
<1>2. /\ usbint /\ usbint' = FALSE
      /\ waiting' = waiting \ ended /\ woken' = woken \cup ended
      /\ queue' = [t \in Sender |-> list_without(queue[t], out)]
      /\ uhci_release_td(gone)
      /\ running' = TRUE
      /\ UNCHANGED <<upc, left, mine, toggle, uhci_lock, raced>>
  BY DEF uhci_irq
<1>3. gone \in SUBSET td_used /\ \A e \in gone : td[e].async /\ td[e].status # "active"
  BY DEF Reclaimed
<1>4. \A u \in Sender : u \in ended <=> u \in waiting /\ td[mine[u]].status # "active"
  OBVIOUS
<1>5. /\ ended \subseteq Sender /\ \A e : e \in out <=> e \in gone \/ \E u \in ended : e = mine[u]
  BY <1>1
<1> HIDE DEF ended, gone, out
<1>6. /\ td_used' \in SUBSET TD /\ td_sem' \in Nat /\ td' \in [TD -> Packet] /\ CountInv'
      /\ \A e \in gone : ~ td'[e].async /\ e \notin td_used'
      /\ \A e \in TD \ gone : td'[e] = td[e] /\ (e \in td_used' <=> e \in td_used)
  BY <1>2, <1>3, ReleaseFrees
<1>7. ASSUME NEW u \in Sender, upc[u] \in Having
      PROVE  /\ mine[u] \in TD /\ mine[u] # NULL /\ mine[u] \notin gone
             /\ td'[mine[u]] = td[mine[u]] /\ (mine[u] \in out => u \in ended)
  <2>1. mine[u] \in TD /\ mine[u] # NULL
    <3>1. Sender1(u)
      BY DEF UhciInv
    <3>2. QED
      BY <1>7, <3>1, MineUsed DEF Sender1
  <2>2. mine[u] \notin gone
    BY <1>1, <1>3, <2>1 DEF PoolInv
  <2>3. mine[u] \in out => u \in ended
    BY <1>1, <1>5, <2>1, <2>2 DEF PoolInv
  <2>4. QED
    BY <1>6, <2>1, <2>2, <2>3
<1>8. ASSUME NEW u \in ended PROVE upc[u] \in Having
  <2>1. Waits(u) /\ u \in Sender /\ u \in waiting
    BY <1>4, <1>5 DEF UhciInv
  <2>2. QED
    BY <2>1 DEF Waits, Sent, Having
<1>9. ASSUME NEW u \in Sender, NEW i \in 2..Len(queue[u]) PROVE queue[u][i] \notin out
  <2>1. i \in 1..Len(queue[u]) /\ i # 1
    BY QueueTypes
  <2>2. Queued(u, i)
    BY <2>1 DEF UhciInv
  <2>3. td[queue[u][i]].status = "active"
    BY <2>1, <2>2 DEF Queued
  <2>4. ASSUME NEW v \in ended PROVE queue[u][i] # mine[v]
    BY <1>4, <1>5, <2>3
  <2>5. QED
    BY <1>3, <1>5, <2>3, <2>4
<1>10. ASSUME NEW u \in Sender
       PROVE  /\ queue'[u] \in Seq(TD)
              /\ \E k \in {0, 1} :
                   /\ k = 1 <=> Len(queue[u]) > 0 /\ queue[u][1] \in out
                   /\ Len(queue'[u]) = Len(queue[u]) - k
                   /\ \A i \in 1..Len(queue'[u]) : queue'[u][i] = queue[u][i + k]
  <2>1. queue[u] \in Seq(TD) /\ \A i \in 2..Len(queue[u]) : queue[u][i] \notin out
    BY <1>9, QueueTypes
  <2>2. queue'[u] = list_without(queue[u], out)
    BY <1>2
  <2>3. QED
    BY <2>1, <2>2, WithoutFirst
<1>11. queue' \in [Sender -> Seq(TD)]
  BY <1>2, <1>10
<1>12. UhciType'
  <2>1. waiting' \in SUBSET Sender /\ woken' \in SUBSET Sender
    BY <1>1, <1>2, <1>5 DEF UhciType
  <2>2. QED
    BY <1>1, <1>2, <1>6, <1>11, <2>1 DEF UhciType
<1>13. TdConserved'
  <2>1. mine \in [Sender -> TD \cup {NULL}]
    BY <1>1 DEF UhciType
  <2>2. ASSUME NEW u \in Sender, mine[u] # NULL PROVE mine[u] \in TD /\ mine[u] \notin gone
    <3>1. Sender1(u)
      BY DEF UhciInv
    <3>2. QED
      BY <1>7, <2>2, <3>1 DEF Sender1
  <2>3. ASSUME NEW e \in TD
        PROVE  e \in td_used' <=> td'[e].async \/ \E u \in Sender : mine[u] = e
    <3>1. e \in td_used <=> td[e].async \/ \E u \in Sender : mine[u] = e
      BY <1>1 DEF PoolInv
    <3>2. CASE e \in gone
      <4>1. \A u \in Sender : mine[u] # e
        BY <2>2, <3>2 DEF UhciAssumption
      <4>2. QED
        BY <1>6, <3>2, <4>1
    <3>3. CASE e \notin gone
      BY <1>6, <3>1, <3>3
    <3>4. QED
      BY <3>2, <3>3
  <2>4. PoolInv'
    BY <1>1, <1>2, <1>6, <2>2, <2>3 DEF PoolInv
  <2>5. (TdConserved <=> PoolInv /\ CountInv)'
    BY <1>12, PoolParts, PTL
  <2>6. QED
    BY <1>6, <2>4, <2>5
<1>14. ASSUME NEW u \in Sender, NEW k \in {0, 1},
              k = 1 <=> Len(queue[u]) > 0 /\ queue[u][1] \in out,
              Len(queue'[u]) = Len(queue[u]) - k,
              \A i \in 1..Len(queue'[u]) : queue'[u][i] = queue[u][i + k],
              NEW i \in 1..Len(queue'[u])
       PROVE  /\ i + k \in 1..Len(queue[u]) /\ queue'[u][i] = queue[u][i + k]
              /\ queue'[u][i] \in TD /\ td'[queue'[u][i]] = td[queue'[u][i]]
              /\ i + k = Len(queue[u]) => i = Len(queue'[u])
              /\ i + k = 1 => i = 1
  <2>1. Len(queue[u]) \in Nat
    BY QueueTypes
  <2>2. /\ i + k \in 1..Len(queue[u]) /\ queue'[u][i] = queue[u][i + k]
        /\ i + k = Len(queue[u]) => i = Len(queue'[u])
        /\ i + k = 1 => i = 1 /\ k = 0
    BY <1>14, <2>1
  <2>3. queue[u][i + k] \in TD
    BY <2>2, QueueTypes
  <2>4. queue[u][i + k] \notin out
    <3>1. CASE i + k = 1
      BY <1>14, <2>1, <2>2, <3>1
    <3>2. CASE i + k # 1
      <4>1. i + k \in 2..Len(queue[u])
        BY <2>1, <2>2, <3>2
      <4>2. QED
        BY <1>9, <4>1
    <3>3. QED
      BY <3>1, <3>2
  <2>5. QED
    BY <1>5, <1>6, <2>2, <2>3, <2>4
<1>15. QueuesApart' /\ \A u \in Sender : Toggles(u)' /\ Alternates(u)'
  <2>1. \A u \in Sender : Shifts(u)
    BY <1>10 DEF Shifts
  <2>2. \A u \in Sender : \A i \in 1..Len(queue'[u]) :
          td'[queue'[u][i]].toggle = td[queue'[u][i]].toggle
    BY <1>10, <1>14
  <2>3. QED
    BY <1>2, <1>12, <2>1, <2>2, ShiftKeeps
<1>16. ASSUME NEW u \in Sender PROVE Sender1(u)'
  <2>1. Sender1(u)
    BY DEF UhciInv
  <2>2. {"stop", "add"} \subseteq Having
    BY DEF Having
  <2>3. QED
    BY <1>2, <1>7, <2>1, <2>2 DEF Sender1
<1>17. ASSUME NEW u \in Sender PROVE Waits(u)'
  <2>1. Waits(u)
    BY DEF UhciInv
  <2>2. Len(queue[u]) \in Nat
    BY QueueTypes
  <2>3. PICK k \in {0, 1} :
          /\ k = 1 <=> Len(queue[u]) > 0 /\ queue[u][1] \in out
          /\ Len(queue'[u]) = Len(queue[u]) - k
          /\ \A i \in 1..Len(queue'[u]) : queue'[u][i] = queue[u][i + k]
    BY <1>10
  <2>4. Len(queue[u]) = 0 => Len(queue'[u]) = 0
    BY <2>3
  <2>5. ASSUME u \in ended PROVE Len(queue'[u]) = 0
    <3>1. \A i \in 1..Len(queue[u]) : queue[u][i] = mine[u]
      BY <1>4, <2>1, <2>5 DEF Waits
    <3>2. Len(queue[u]) <= 1
      <4>1. SUFFICES ASSUME Len(queue[u]) > 1 PROVE FALSE
        BY <2>2
      <4>2. 1 \in 1..Len(queue[u]) /\ 2 \in 1..Len(queue[u])
        BY <2>2, <4>1
      <4>3. queue[u][1] = queue[u][2]
        BY <3>1, <4>2
      <4>4. QED
        BY <1>1, <4>2, <4>3 DEF QueuesApart
    <3>3. CASE Len(queue[u]) = 1
      <4>1. queue[u][1] \in out
        BY <1>5, <2>5, <3>1, <3>3
      <4>2. k = 1
        BY <2>3, <3>3, <4>1
      <4>3. QED
        BY <2>3, <3>3, <4>2
    <3>4. Len(queue[u]) = 0 \/ Len(queue[u]) = 1
      <4> DEFINE l == Len(queue[u])
      <4>1. l \in Nat /\ l <= 1
        BY <2>2, <3>2
      <4> HIDE DEF l
      <4>2. l = 0 \/ l = 1
        BY <4>1
      <4>3. QED
        BY <4>2 DEF l
    <3>5. QED
      BY <2>4, <3>3, <3>4
  <2>6. ASSUME u \in waiting, u \notin ended PROVE td[mine[u]].status = "active" /\ td'[mine[u]] = td[mine[u]]
    <3>1. upc[u] \in Having
      BY <2>1, <2>6 DEF Waits, Sent, Having
    <3>2. QED
      BY <1>4, <1>7, <2>6, <3>1
  <2>7. ASSUME u \in waiting, u \notin ended, u \notin raced PROVE mine[u] \in Elems(queue'[u])
    <3>1. PICK i \in 1..Len(queue[u]) : queue[u][i] = mine[u]
      BY <2>1, <2>6, <2>7, QueueTypes DEF Waits
    <3>2. mine[u] \notin out
      <4>1. upc[u] \in Having
        BY <2>1, <2>7 DEF Waits, Sent, Having
      <4>2. QED
        BY <1>7, <2>7, <4>1
    <3>3. i - k \in 1..Len(queue'[u]) /\ (i - k) + k = i
      BY <2>2, <2>3, <3>1, <3>2
    <3>4. queue'[u][i - k] = mine[u]
      BY <2>3, <3>1, <3>3
    <3>5. QED
      BY <3>3, <3>4 DEF Elems
  <2>8. /\ u \in waiting' <=> u \in waiting /\ u \notin ended
        /\ u \in woken' <=> u \in woken \/ u \in ended
        /\ u \in ended => u \in waiting
    BY <1>2, <1>4
  <2>9. QED
    BY <1>2, <2>1, <2>4, <2>5, <2>6, <2>7, <2>8 DEF Waits, Elems
<1>18. ASSUME NEW u \in Sender, NEW i \in 1..Len(queue'[u])
       PROVE  Queued(u, i)'
  <2>1. PICK k \in {0, 1} :
          /\ k = 1 <=> Len(queue[u]) > 0 /\ queue[u][1] \in out
          /\ Len(queue'[u]) = Len(queue[u]) - k
          /\ \A x \in 1..Len(queue'[u]) : queue'[u][x] = queue[u][x + k]
    BY <1>10
  <2>2. /\ i + k \in 1..Len(queue[u]) /\ queue'[u][i] = queue[u][i + k]
        /\ queue'[u][i] \in TD /\ td'[queue'[u][i]] = td[queue'[u][i]]
        /\ i + k = Len(queue[u]) => i = Len(queue'[u])
        /\ i + k = 1 => i = 1
    BY <1>14, <2>1
  <2>3. Queued(u, i + k)
    BY <2>2 DEF UhciInv
  <2>4. QED
    BY <1>2, <2>2, <2>3 DEF Queued
<1>19. QED
  BY <1>12, <1>13, <1>15, <1>16, <1>17, <1>18 DEF UhciInv

-----------------------------------------------------------------------------
\* Each packet on its way has a place among the packets of its thread's transfer
\* that were queued already: a transfer never has more than MaxPackets of them.
Pending == {d \in TD : td[d].async} \ Lost
Slots(slot) ==
  /\ slot \in [Pending -> Sender \X (1..MaxPackets)]
  /\ \A d, e \in Pending : slot[d] = slot[e] => d = e
  /\ \A d \in Pending :
       /\ slot[d][2] > left[slot[d][1]]
       /\ upc[slot[d][1]] # "idle" /\ slot[d][1] \notin woken
       /\ td[d].status = "active" => d \in Elems(queue[slot[d][1]])
SlotInv == \E slot : Slots(slot)

LEMMA SlotStarts ==
  ASSUME UhciInit
  PROVE  SlotInv
<1>1. Pending = {}
  BY DEF UhciInit, Pending, Unset
<1>2. Slots([d \in {} |-> d])
  BY <1>1 DEF Slots
<1>3. QED
  BY <1>2 DEF SlotInv

\* A step that makes no packet asynchronous: what is pending keeps its place.
LEMMA SlotStays ==
  ASSUME UhciInv, SlotInv, Pending' \subseteq Pending, left' \in [Sender -> Nat], left \in [Sender -> Nat],
         \A t \in Sender : upc[t] # "idle" /\ t \notin woken =>
           left'[t] = left[t] /\ upc'[t] # "idle",
         \A d \in Pending', t \in Sender :
           upc[t] # "idle" /\ t \notin woken /\ (td[d].status = "active" => d \in Elems(queue[t])) =>
             /\ t \notin woken'
             /\ td'[d].status = "active" => d \in Elems(queue'[t])
  PROVE  SlotInv'
<1>1. PICK slot : Slots(slot)
  BY DEF SlotInv
<1>0. PICK new : new = [d \in Pending' |-> slot[d]]
  OBVIOUS
<1>2. /\ \A d \in Pending' : slot[d] \in Sender \X (1..MaxPackets) /\ slot[d][1] \in Sender
      /\ \A d \in Pending' : new[d] = slot[d]
  BY <1>0, <1>1 DEF Slots
<1>3. new \in [Pending' -> Sender \X (1..MaxPackets)]
  BY <1>0, <1>2
<1>4. \A d, e \in Pending' : new[d] = new[e] => d = e
  BY <1>1, <1>2 DEF Slots
<1>5. ASSUME NEW d \in Pending'
      PROVE  /\ new[d][2] > left'[new[d][1]]
             /\ upc'[new[d][1]] # "idle" /\ new[d][1] \notin woken'
             /\ td'[d].status = "active" => d \in Elems(queue'[new[d][1]])
  <2>1. PICK t \in Sender : t = slot[d][1]
    BY <1>2
  <2>2. /\ slot[d][2] > left[t] /\ upc[t] # "idle" /\ t \notin woken
        /\ td[d].status = "active" => d \in Elems(queue[t])
    BY <1>1, <2>1 DEF Slots
  <2>3. /\ left'[t] = left[t] /\ upc'[t] # "idle" /\ t \notin woken'
        /\ td'[d].status = "active" => d \in Elems(queue'[t])
    BY <2>2
  <2>4. QED
    BY <1>2, <2>1, <2>2, <2>3
<1>6. Slots(new)'
  BY <1>3, <1>4, <1>5 DEF Slots
<1>7. QED
  BY <1>6 DEF SlotInv

\* What stays of a pending packet in a step that only takes packets away.
LEMMA PendingStays ==
  ASSUME \A d \in TD : td'[d].async => td[d].async /\ (td[d].status = "active" => td'[d].status = "active" \/ \E t \in Sender : d \in Elems(queue[t])),
         \A d \in TD : td[d].async => \A t \in Sender : d \in Elems(queue'[t]) => d \in Elems(queue[t])
  PROVE  Pending' \subseteq Pending
<1>1. ASSUME NEW d \in TD, td'[d].async, d \notin Lost' PROVE td[d].async /\ d \notin Lost
  BY <1>1 DEF Lost
<1>2. QED
  BY <1>1 DEF Pending

LEMMA SlotQuiet ==
  ASSUME UhciAssumption, UhciInv, UhciType', SlotInv, NEW t \in Sender,
         \/ uhci_tx_pkt_bulk(t) \/ LockHost(t) \/ uhci_acquire_td(t)
         \/ uhci_stop(t) \/ QueueLast(t) \/ RunAndSleep(t) \/ Finish(t)
  PROVE  SlotInv'
<1>1. UhciType /\ PoolInv /\ CountInv /\ Sender1(t) /\ Waits(t)
  BY PoolParts DEF UhciInv
<1>2. left' \in [Sender -> Nat] /\ left \in [Sender -> Nat]
  <2>1. 0..MaxPackets \subseteq Nat
    OBVIOUS
  <2>2. left' \in [Sender -> 0..MaxPackets] /\ left \in [Sender -> 0..MaxPackets]
    BY <1>1 DEF UhciType
  <2>3. QED
    BY <2>1, <2>2
<1>3. woken' \subseteq woken
  BY DEF uhci_tx_pkt_bulk, LockHost, uhci_acquire_td, uhci_stop, QueueLast, RunAndSleep, Finish
<1>4. ASSUME NEW u \in Sender, upc[u] # "idle", u \notin woken
      PROVE  left'[u] = left[u] /\ upc'[u] # "idle"
  <2>1. \/ left' = left
        \/ upc[t] = "idle" /\ \E n \in Nat : left' = [left EXCEPT ![t] = n]
    BY DEF uhci_tx_pkt_bulk, LockHost, uhci_acquire_td, uhci_stop, QueueLast, RunAndSleep, Finish, go
  <2>2. left'[u] = left[u]
    BY <1>2, <1>4, <2>1
  <2>3. \E x : upc' = [upc EXCEPT ![t] = x] /\ (x = "idle" => t \in woken)
    BY DEF uhci_tx_pkt_bulk, LockHost, uhci_acquire_td, uhci_stop, QueueLast, RunAndSleep, Finish, go
  <2>4. upc \in [Sender -> Places]
    BY <1>1 DEF UhciType
  <2>5. upc'[u] # "idle"
    BY <1>4, <2>3, <2>4
  <2>6. QED
    BY <2>2, <2>5
<1>5. ASSUME NEW e \in TD, td'[e].async
      PROVE  td'[e] = td[e]
  <2>1. CASE uhci_tx_pkt_bulk(t) \/ LockHost(t) \/ uhci_stop(t) \/ QueueLast(t) \/ RunAndSleep(t)
    BY <2>1 DEF uhci_tx_pkt_bulk, LockHost, uhci_stop, QueueLast, RunAndSleep
  <2>2. CASE uhci_acquire_td(t)
    <3>1. PICK x, y : td' = [td EXCEPT ![x] = [status |-> "active", async |-> FALSE, toggle |-> y]]
      BY <2>2 DEF uhci_acquire_td
    <3>2. td \in [TD -> Packet]
      BY <1>1 DEF UhciType
    <3>3. e # x
      BY <1>5, <3>1, <3>2
    <3>4. QED
      BY <3>1, <3>2, <3>3
  <2>3. CASE Finish(t)
    <3>1. td' = [x \in TD |-> IF x \in {mine[t]} THEN Unset ELSE td[x]]
      BY <2>3 DEF Finish, uhci_release_td
    <3>2. QED
      BY <1>5, <3>1 DEF Unset
  <2>4. QED
    BY <2>1, <2>2, <2>3
<1>6. ASSUME NEW e \in TD, td[e].async, NEW u \in Sender
      PROVE  e \in Elems(queue'[u]) <=> e \in Elems(queue[u])
  <2>1. CASE queue' = queue
    BY <2>1
  <2>2. CASE QueueLast(t)
    <3>1. upc[t] = "add" /\ uhci_add_td_to_qh(t) /\ td' = td
      BY <2>2 DEF QueueLast, go
    <3>2. td' \in [TD -> Packet] /\ \A x \in TD : td'[x].toggle = td[x].toggle
      BY <1>1, <3>1 DEF UhciType
    <3>3. /\ \A x \in Sender \ {t} : queue'[x] = queue[x]
          /\ \/ queue' = queue /\ t \in raced'
             \/ /\ Len(queue'[t]) = Len(queue[t]) + 1 /\ Len(queue[t]) \in Nat
                /\ \A i \in 1..Len(queue[t]) : queue'[t][i] = queue[t][i]
                /\ queue'[t][Len(queue[t]) + 1] = mine[t]
      BY <3>1, <3>2, AddLinks
    <3>4. e # mine[t]
      <4>1. mine[t] # NULL
        BY <1>1, <3>1 DEF Sender1, Having
      <4>2. QED
        BY <1>1, <1>6, <4>1 DEF PoolInv
    <3>5. CASE u # t
      BY <3>3, <3>5
    <3>6. CASE u = t
      <4>1. ASSUME e \in Elems(queue[t]) PROVE e \in Elems(queue'[t])
        BY <2>1, <3>3, <4>1 DEF Elems
      <4>2. ASSUME e \in Elems(queue'[t]) PROVE e \in Elems(queue[t])
        <5>1. CASE queue' = queue
          BY <4>2, <5>1
        <5>2. CASE queue' # queue
          <6>1. PICK i \in 1..Len(queue'[t]) : queue'[t][i] = e
            BY <4>2 DEF Elems
          <6>2. i \in 1..Len(queue[t])
            BY <3>3, <3>4, <5>2, <6>1
          <6>3. QED
            BY <3>3, <5>2, <6>1, <6>2 DEF Elems
        <5>3. QED
          BY <5>1, <5>2
      <4>3. QED
        BY <3>6, <4>1, <4>2
    <3>7. QED
      BY <3>5, <3>6
  <2>3. QED
    BY <2>1, <2>2 DEF uhci_tx_pkt_bulk, LockHost, uhci_acquire_td, uhci_stop, RunAndSleep, Finish
<1>7. Pending' \subseteq Pending
  BY <1>5, <1>6, PendingStays
<1>8. ASSUME NEW e \in Pending', NEW u \in Sender, u \notin woken,
             td[e].status = "active" => e \in Elems(queue[u])
      PROVE  /\ u \notin woken'
             /\ td'[e].status = "active" => e \in Elems(queue'[u])
  <2>1. e \in TD /\ td'[e].async /\ td'[e] = td[e]
    BY <1>5 DEF Pending
  <2>2. QED
    BY <1>3, <1>6, <1>8, <2>1
<1>9. QED
  BY <1>2, <1>4, <1>7, <1>8, SlotStays

LEMMA SlotExecute ==
  ASSUME UhciAssumption, UhciInv, UhciType', SlotInv, NEW t \in Sender, Execute(t)
  PROVE  SlotInv'
<1> DEFINE d == queue[t][1]
<1>1. UhciType
  BY DEF UhciInv
<1>2. /\ queue[t] # <<>> /\ queue[t] \in Seq(TD) /\ Head(queue[t]) = d /\ d \in TD
      /\ d \in Elems(queue[t])
  <2>1. queue[t] # <<>> /\ queue[t] \in Seq(TD)
    BY <1>1 DEF Execute, UhciType
  <2>2. 1 \in 1..Len(queue[t]) /\ Head(queue[t]) = d /\ d \in TD
    BY <2>1
  <2>3. QED
    BY <2>1, <2>2 DEF Elems
<1>3. /\ \E x \in {"done", "failed"} : td' = [td EXCEPT ![d].status = x]
      /\ queue' = [queue EXCEPT ![t] = Tail(@)] \/ queue' = queue
      /\ UNCHANGED <<upc, left, woken>>
  BY <1>2 DEF Execute
<1> HIDE DEF d
<1>4. /\ \A e \in TD : td'[e].async = td[e].async
      /\ \A e \in TD : e # d => td'[e].status = td[e].status
      /\ td'[d].status # "active"
  <2>1. td \in [TD -> Packet]
    BY <1>1 DEF UhciType
  <2>2. QED
    BY <1>2, <1>3, <2>1 DEF Packet
<1>5. ASSUME NEW u \in Sender, NEW e \in TD
      PROVE  /\ e \in Elems(queue'[u]) => e \in Elems(queue[u])
             /\ e # d /\ e \in Elems(queue[u]) => e \in Elems(queue'[u])
  <2>1. CASE queue'[u] = queue[u]
    BY <2>1
  <2>2. CASE queue'[u] # queue[u]
    <3>1. u = t /\ queue'[t] = Tail(queue[t])
      BY <1>1, <1>3, <2>2 DEF UhciType
    <3>2. /\ Len(queue'[t]) = Len(queue[t]) - 1 /\ Len(queue[t]) \in Nat
          /\ \A i \in 1..Len(queue'[t]) : queue'[t][i] = queue[t][i + 1]
      BY <1>2, <3>1
    <3>3. ASSUME e \in Elems(queue'[t]) PROVE e \in Elems(queue[t])
      <4>1. PICK i \in 1..Len(queue'[t]) : queue'[t][i] = e
        BY <3>3 DEF Elems
      <4>2. i + 1 \in 1..Len(queue[t]) /\ queue[t][i + 1] = e
        BY <3>2, <4>1
      <4>3. QED
        BY <4>2 DEF Elems
    <3>4. ASSUME e # d, e \in Elems(queue[t]) PROVE e \in Elems(queue'[t])
      <4>1. PICK i \in 1..Len(queue[t]) : queue[t][i] = e
        BY <3>4 DEF Elems
      <4>2. i - 1 \in 1..Len(queue'[t]) /\ (i - 1) + 1 = i
        BY <3>2, <3>4, <4>1 DEF d
      <4>3. queue'[t][i - 1] = e
        BY <3>2, <4>1, <4>2
      <4>4. QED
        BY <4>2, <4>3 DEF Elems
    <3>5. QED
      BY <3>1, <3>3, <3>4
  <2>3. QED
    BY <2>1, <2>2
<1>6. Pending' \subseteq Pending
  BY <1>2, <1>4, <1>5, PendingStays
<1>7. left' \in [Sender -> Nat] /\ left \in [Sender -> Nat]
  <2>1. 0..MaxPackets \subseteq Nat
    OBVIOUS
  <2>2. left \in [Sender -> 0..MaxPackets]
    BY <1>1 DEF UhciType
  <2>3. QED
    BY <1>3, <2>1, <2>2
<1>8. ASSUME NEW e \in Pending', NEW u \in Sender, u \notin woken,
             td[e].status = "active" => e \in Elems(queue[u])
      PROVE  /\ u \notin woken'
             /\ td'[e].status = "active" => e \in Elems(queue'[u])
  <2>1. e \in TD
    BY DEF Pending
  <2>2. QED
    BY <1>3, <1>4, <1>5, <1>8, <2>1
<1>9. QED
  BY <1>3, <1>6, <1>7, <1>8, SlotStays

\* Once a thread is woken, no packet of its transfer is pending: they are given
\* back together.
LEMMA SlotIrq ==
  ASSUME UhciAssumption, UhciInv, UhciInv', SlotInv, uhci_irq
  PROVE  SlotInv'
<1> DEFINE ended == {t \in waiting : td[mine[t]].status # "active"}
           gone == Reclaimed(ended)
           out == gone \cup {mine[t] : t \in ended}
<1>1. UhciType /\ PoolInv /\ waiting \subseteq Sender
  BY PoolParts DEF UhciInv, UhciType
<1>2. /\ woken' = woken \cup ended
      /\ queue' = [t \in Sender |-> list_without(queue[t], out)]
      /\ uhci_release_td(gone)
      /\ UNCHANGED <<upc, left, mine>>
  BY DEF uhci_irq
<1>3. /\ gone \in SUBSET td_used /\ \A e \in gone : td[e].async /\ td[e].status # "active"
      /\ ended # {} => \A e \in td_used : td[e].async /\ td[e].status # "active" => e \in gone
  BY DEF Reclaimed
<1>4. /\ ended \subseteq Sender /\ \A u \in ended : u \in waiting /\ td[mine[u]].status # "active"
      /\ \A e : e \in out <=> e \in gone \/ \E u \in ended : e = mine[u]
  BY <1>1
<1> HIDE DEF ended, gone, out
<1>5. /\ \A e \in gone : ~ td'[e].async
      /\ \A e \in TD \ gone : td'[e] = td[e]
  BY <1>2, <1>3, ReleaseFrees
<1>6. ASSUME NEW e \in TD, NEW u \in Sender
      PROVE  /\ e \in Elems(queue'[u]) => e \in Elems(queue[u])
             /\ e \in Elems(queue[u]) /\ e \notin out => e \in Elems(queue'[u])
  <2>1. queue[u] \in Seq(TD) /\ queue'[u] = list_without(queue[u], out)
    BY <1>2, QueueTypes
  <2>2. PICK f \in [1..Len(queue'[u]) -> 1..Len(queue[u])] :
          /\ \A i \in 1..Len(queue'[u]) : queue'[u][i] = queue[u][f[i]]
          /\ \A j \in 1..Len(queue[u]) : queue[u][j] \notin out =>
               \E i \in 1..Len(queue'[u]) : f[i] = j
    <3>1. KeptOf(queue'[u], queue[u], out)
      BY <2>1, WithoutKeeps
    <3>2. QED
      BY <3>1 DEF KeptOf
  <2>3. ASSUME e \in Elems(queue'[u]) PROVE e \in Elems(queue[u])
    BY <2>2, <2>3 DEF Elems
  <2>4. ASSUME e \in Elems(queue[u]), e \notin out PROVE e \in Elems(queue'[u])
    <3>1. PICK j \in 1..Len(queue[u]) : queue[u][j] = e
      BY <2>4 DEF Elems
    <3>2. PICK i \in 1..Len(queue'[u]) : f[i] = j
      BY <2>2, <2>4, <3>1
    <3>3. queue'[u][i] = e
      BY <2>2, <3>1, <3>2
    <3>4. QED
      BY <3>3 DEF Elems
  <2>5. QED
    BY <2>3, <2>4
<1>7. ASSUME NEW e \in TD, td'[e].async PROVE td'[e] = td[e] /\ td[e].async /\ e \notin gone /\ e \in td_used
  BY <1>1, <1>5, <1>7 DEF PoolInv
<1>8. Pending' \subseteq Pending
  BY <1>6, <1>7, PendingStays
<1>9. left' \in [Sender -> Nat] /\ left \in [Sender -> Nat]
  <2>1. 0..MaxPackets \subseteq Nat
    OBVIOUS
  <2>2. left \in [Sender -> 0..MaxPackets]
    BY <1>1 DEF UhciType
  <2>3. QED
    BY <1>2, <2>1, <2>2
<1>10. ASSUME NEW u \in ended
       PROVE  mine[u] \in TD /\ ~ td[mine[u]].async /\ \A i \in 1..Len(queue[u]) : queue[u][i] = mine[u]
  <2>1. u \in Sender /\ u \in waiting /\ td[mine[u]].status # "active" /\ Waits(u) /\ Sender1(u)
    BY <1>4 DEF UhciInv
  <2>2. mine[u] # NULL
    BY <2>1 DEF Waits, Sender1, Sent, Having
  <2>3. QED
    BY <1>1, <2>1, <2>2, MineUsed DEF Waits, PoolInv
<1>11. ASSUME NEW e \in Pending', NEW u \in Sender, u \notin woken,
              td[e].status = "active" => e \in Elems(queue[u])
       PROVE  /\ u \notin woken'
              /\ td'[e].status = "active" => e \in Elems(queue'[u])
  <2>1. e \in TD /\ td'[e] = td[e] /\ td[e].async /\ e \notin gone /\ e \in td_used
    BY <1>7 DEF Pending
  <2>2. e \notin out
    BY <1>4, <1>10, <2>1
  <2>3. u \notin ended
    <3>1. SUFFICES ASSUME u \in ended PROVE FALSE
      OBVIOUS
    <3>2. td[e].status = "active"
      BY <1>3, <2>1, <3>1
    <3>3. PICK i \in 1..Len(queue[u]) : queue[u][i] = e
      BY <1>11, <3>2 DEF Elems
    <3>4. QED
      BY <1>10, <2>1, <3>1, <3>3
  <2>4. QED
    BY <1>2, <1>6, <1>11, <2>1, <2>2, <2>3
<1>12. QED
  BY <1>2, <1>8, <1>9, <1>11, SlotStays

\* The packet that becomes asynchronous takes the place of its number.
LEMMA SlotAsync ==
  ASSUME UhciAssumption, UhciInv, SlotInv, NEW t \in Sender, QueueAsync(t)
  PROVE  SlotInv'
<1>1. UhciType /\ PoolInv /\ Sender1(t) /\ Waits(t)
  BY PoolParts DEF UhciInv
<1>2. PICK d : d = mine[t]
  OBVIOUS
<1>3. /\ upc[t] = "add" /\ upc' = [upc EXCEPT ![t] = "lock"] /\ left[t] > 1
      /\ uhci_add_td_to_qh(t) /\ td' = [td EXCEPT ![d].async = TRUE]
      /\ left' = [left EXCEPT ![t] = @ - 1] /\ woken' = woken
  BY <1>2 DEF QueueAsync, go
<1>4. d \in TD /\ d # NULL /\ ~ td[d].async /\ td[d].status = "active"
  <2>1. mine[t] # NULL
    BY <1>1, <1>3 DEF Sender1, Having
  <2>2. QED
    BY <1>1, <1>2, <1>3, <2>1, MineUsed DEF PoolInv, Sender1
<1>5. /\ upc'[t] = "lock" /\ \A u \in Sender \ {t} : upc'[u] = upc[u]
      /\ left'[t] = left[t] - 1 /\ \A u \in Sender \ {t} : left'[u] = left[u]
      /\ left[t] \in 1..MaxPackets /\ \A u \in Sender : left[u] \in Nat
      /\ \A e \in TD \ {d} : td'[e] = td[e]
  BY <1>1, <1>3, <1>4 DEF UhciType
<1>6. td' \in [TD -> Packet] /\ \A e \in TD : td'[e].toggle = td[e].toggle
  <2>1. td \in [TD -> Packet] /\ td[d] \in Packet
    BY <1>1, <1>4 DEF UhciType
  <2>2. td'[d] \in Packet /\ td'[d].toggle = td[d].toggle
    BY <1>3, <1>4, <2>1 DEF Packet
  <2>3. QED
    BY <1>3, <1>4, <1>5, <2>1, <2>2
<1>7. /\ \A u \in Sender \ {t} : queue'[u] = queue[u]
      /\ \/ queue' = queue
         \/ /\ Len(queue'[t]) = Len(queue[t]) + 1 /\ Len(queue[t]) \in Nat
            /\ \A i \in 1..Len(queue[t]) : queue'[t][i] = queue[t][i]
            /\ queue'[t][Len(queue[t]) + 1] = d
  BY <1>2, <1>3, <1>6, AddLinks
<1>8. ASSUME NEW e \in TD, NEW u \in Sender
      PROVE  /\ e \in Elems(queue[u]) => e \in Elems(queue'[u])
             /\ e # d /\ e \in Elems(queue'[u]) => e \in Elems(queue[u])
  <2>1. CASE queue'[u] = queue[u]
    BY <2>1
  <2>2. CASE queue'[u] # queue[u]
    <3>1. u = t /\ queue' # queue
      BY <1>7, <2>2
    <3>2. ASSUME e \in Elems(queue[t]) PROVE e \in Elems(queue'[t])
      BY <1>7, <3>1, <3>2 DEF Elems
    <3>3. ASSUME e # d, e \in Elems(queue'[t]) PROVE e \in Elems(queue[t])
      <4>1. PICK i \in 1..Len(queue'[t]) : queue'[t][i] = e
        BY <3>3 DEF Elems
      <4>2. i \in 1..Len(queue[t])
        BY <1>7, <3>1, <3>3, <4>1
      <4>3. QED
        BY <1>7, <3>1, <4>1, <4>2 DEF Elems
    <3>4. QED
      BY <3>1, <3>2, <3>3
  <2>3. QED
    BY <2>1, <2>2
<1>9. d \in Pending' => d \in Elems(queue'[t])
  <2>1. SUFFICES ASSUME d \in Pending' PROVE d \in Elems(queue'[t])
    OBVIOUS
  <2>2. td'[d].status = "active" /\ td'[d].async
    <3>1. td \in [TD -> Packet] /\ td[d] \in Packet
      BY <1>1, <1>4 DEF UhciType
    <3>2. QED
      BY <1>3, <1>4, <3>1 DEF Packet
  <2>3. PICK u \in Sender : d \in Elems(queue'[u])
    BY <1>4, <2>1, <2>2 DEF Pending, Lost
  <2>4. CASE u # t
    <3>1. d \in Elems(queue[u])
      BY <1>7, <2>3, <2>4
    <3>2. PICK i \in 1..Len(queue[u]) : queue[u][i] = d
      BY <3>1 DEF Elems
    <3>3. QED
      BY <1>2, <1>4, <2>4, <3>2, MineApart
  <2>5. QED
    BY <2>3, <2>4
<1>10. \A e \in Pending' : e # d => e \in Pending /\ td'[e] = td[e]
  <2>1. SUFFICES ASSUME NEW e \in Pending', e # d PROVE e \in Pending /\ td'[e] = td[e]
    OBVIOUS
  <2>2. e \in TD /\ td'[e].async /\ e \notin Lost' /\ td'[e] = td[e]
    BY <1>5, <2>1 DEF Pending
  <2>3. e \notin Lost
    BY <1>8, <2>1, <2>2 DEF Lost
  <2>4. QED
    BY <2>2, <2>3 DEF Pending
<1>11. d \notin Pending
  BY <1>4 DEF Pending
<1>12. PICK slot : Slots(slot)
  BY DEF SlotInv
<1>13. PICK spot : spot = <<t, left[t]>>
  OBVIOUS
<1>14. spot \in Sender \X (1..MaxPackets) /\ spot[1] = t /\ spot[2] = left[t]
  BY <1>5, <1>13
<1>15. PICK new : new = [e \in Pending' |-> IF e = d THEN spot ELSE slot[e]]
  OBVIOUS
<1>16. /\ d \in Pending' => new[d] = spot
       /\ \A e \in Pending' : e # d => new[e] = slot[e]
       /\ \A e \in Pending : slot[e] \in Sender \X (1..MaxPackets)
  BY <1>12, <1>15 DEF Slots
<1>17. new \in [Pending' -> Sender \X (1..MaxPackets)]
  BY <1>10, <1>14, <1>15, <1>16
<1>18. ASSUME NEW e \in Pending PROVE slot[e] # spot
  <2>1. slot[e][2] > left[slot[e][1]]
    BY <1>12 DEF Slots
  <2>2. QED
    BY <1>5, <1>14, <2>1
<1>19. \A e, f \in Pending' : new[e] = new[f] => e = f
  BY <1>10, <1>12, <1>16, <1>18 DEF Slots
<1>20. ASSUME NEW e \in Pending'
       PROVE  /\ new[e][2] > left'[new[e][1]]
              /\ upc'[new[e][1]] # "idle" /\ new[e][1] \notin woken'
              /\ td'[e].status = "active" => e \in Elems(queue'[new[e][1]])
  <2>1. CASE e = d
    <3>1. t \notin woken
      BY <1>1, <1>3 DEF Waits, Sent
    <3>2. left[t] > left[t] - 1
      BY <1>5
    <3>3. QED
      BY <1>3, <1>5, <1>9, <1>14, <1>16, <2>1, <3>1, <3>2
  <2>2. CASE e # d
    <3>1. PICK u \in Sender : u = slot[e][1]
      BY <1>10, <1>16, <2>2
    <3>2. /\ slot[e][2] > left[u] /\ upc[u] # "idle" /\ u \notin woken
          /\ td[e].status = "active" => e \in Elems(queue[u])
      BY <1>10, <1>12, <2>2, <3>1 DEF Slots
    <3>3. upc'[u] # "idle" /\ u \notin woken'
      BY <1>3, <1>5, <3>2
    <3>4. slot[e][2] \in Nat
      <4>1. slot[e] \in Sender \X (1..MaxPackets)
        BY <1>10, <1>16, <2>2
      <4>2. QED
        BY <4>1
    <3>5. slot[e][2] > left'[u]
      BY <1>5, <3>2, <3>4
    <3>6. e \in TD
      BY DEF Pending
    <3>7. QED
      BY <1>8, <1>10, <1>16, <2>2, <3>1, <3>2, <3>3, <3>5, <3>6
  <2>3. QED
    BY <2>1, <2>2
<1>21. Slots(new)'
  BY <1>17, <1>19, <1>20 DEF Slots
<1>22. QED
  BY <1>21 DEF SlotInv

-----------------------------------------------------------------------------
\* The descriptors in use, the lost ones apart, fit in the places of the transfers
\* under way, and a thread that asks for one leaves its place free.
LEMMA SlotCount ==
  ASSUME UhciAssumption, UhciInv, SlotInv
  PROVE  TdComes
<1>1. UhciType /\ PoolInv /\ CountInv
  BY PoolParts DEF UhciInv
<1>2. SUFFICES ASSUME TD_ENTRIES >= Cardinality(Sender) * MaxPackets + Cardinality(Lost),
                      NEW t \in Sender, upc[t] = "td"
               PROVE  td_sem > 0
  BY DEF TdComes
<1>3. PICK slot : Slots(slot)
  BY DEF SlotInv
<1> DEFINE U == td_used \ Lost
           spot == <<t, left[t]>>
           P == Sender \X (1..MaxPackets)
           owner(d) == CHOOSE u \in Sender : mine[u] = d
           g == [d \in U |-> IF d \in Pending THEN slot[d] ELSE <<owner(d), left[owner(d)]>>]
<1>4. left \in [Sender -> 0..MaxPackets] /\ td_used \subseteq TD /\ Lost \subseteq td_used
  BY <1>1 DEF UhciType, PoolInv, Lost
<1>5. ASSUME NEW d \in Pending
      PROVE  slot[d] \in P /\ slot[d][1] \in Sender /\ slot[d][2] > left[slot[d][1]]
  BY <1>3 DEF Slots
<1>6. ASSUME NEW d \in U, d \notin Pending
      PROVE  /\ owner(d) \in Sender /\ mine[owner(d)] = d /\ owner(d) # t
             /\ left[owner(d)] \in 1..MaxPackets
  <2>1. \E u \in Sender : mine[u] = d
    BY <1>1, <1>4, <1>6 DEF PoolInv, Pending
  <2>2. owner(d) \in Sender /\ mine[owner(d)] = d
    BY <2>1
  <2> HIDE DEF owner
  <2>3. PICK u \in Sender : u = owner(d)
    BY <2>2
  <2>4. Sender1(u) /\ Sender1(t) /\ mine[u] # NULL
    BY <1>4, <2>2, <2>3 DEF UhciInv, UhciAssumption
  <2>5. u # t /\ upc[u] # "idle"
    BY <1>2, <2>4 DEF Sender1, Having
  <2>6. left[u] \in 1..MaxPackets
    BY <1>4, <2>4, <2>5 DEF Sender1
  <2>7. QED
    BY <2>2, <2>3, <2>5, <2>6
<1>7. spot \in P /\ spot[1] = t /\ spot[2] = left[t]
  <2>1. Sender1(t)
    BY DEF UhciInv
  <2>2. left[t] \in 1..MaxPackets
    BY <1>2, <1>4, <2>1 DEF Sender1
  <2>3. QED
    BY <2>2
<1> HIDE DEF owner, spot
<1>8. ASSUME NEW d \in U PROVE g[d] \in P \ {spot}
  <2>1. CASE d \in Pending
    <3>1. slot[d] # spot
      BY <1>4, <1>5, <1>7, <2>1
    <3>2. QED
      BY <1>5, <2>1, <3>1
  <2>2. CASE d \notin Pending
    <3>1. g[d] = <<owner(d), left[owner(d)]>>
      BY <2>2
    <3>2. g[d] \in P /\ g[d][1] = owner(d)
      BY <1>6, <2>2, <3>1
    <3>3. QED
      BY <1>6, <1>7, <2>2, <3>2
  <2>3. QED
    BY <2>1, <2>2
<1>9. ASSUME NEW d \in U, NEW e \in U, g[d] = g[e] PROVE d = e
  <2>1. ASSUME NEW x \in Pending, NEW y \in U, y \notin Pending PROVE slot[x] # <<owner(y), left[owner(y)]>>
    <3>1. PICK u \in Sender : u = owner(y)
      BY <1>6, <2>1
    <3>2. SUFFICES ASSUME slot[x] = <<u, left[u]>> PROVE FALSE
      BY <3>1
    <3>3. left[u] > left[u]
      BY <1>5, <3>2
    <3>4. QED
      BY <1>4, <3>3
  <2>2. CASE d \in Pending /\ e \in Pending
    BY <1>3, <1>9, <2>2 DEF Slots
  <2>3. CASE d \notin Pending /\ e \notin Pending
    <3>1. <<owner(d), left[owner(d)]>> = <<owner(e), left[owner(e)]>>
      BY <1>9, <2>3
    <3>2. owner(d) = owner(e)
      BY <3>1
    <3>3. QED
      BY <1>6, <2>3, <3>2
  <2>4. QED
    BY <1>9, <2>1, <2>2, <2>3
<1>10. g \in Injection(U, P \ {spot})
  <2>1. g \in [U -> P \ {spot}]
    BY <1>8
  <2>2. QED
    BY <1>9, <2>1 DEF Injection, IsInjective
<1> HIDE DEF g
<1>11. /\ IsFiniteSet(P) /\ Cardinality(P) = Cardinality(Sender) * MaxPackets
       /\ Cardinality(Sender) * MaxPackets \in Nat
  <2>1. IsFiniteSet(1..MaxPackets) /\ Cardinality(1..MaxPackets) = IF 1 > MaxPackets THEN 0 ELSE MaxPackets - 1 + 1
    BY FS_Interval DEF UhciAssumption
  <2>2. Cardinality(1..MaxPackets) = MaxPackets /\ MaxPackets \in Nat
    BY <2>1 DEF UhciAssumption
  <2>3. IsFiniteSet(P) /\ Cardinality(P) = Cardinality(Sender) * Cardinality(1..MaxPackets)
    BY <2>1, FS_Product DEF UhciAssumption
  <2>4. Cardinality(P) \in Nat
    BY <2>3, FS_CardinalityType
  <2>5. QED
    BY <2>2, <2>3, <2>4
<1> HIDE DEF P
<1>12. Cardinality(U) <= Cardinality(P) - 1
  <2>1. IsFiniteSet(P \ {spot}) /\ Cardinality(P \ {spot}) = Cardinality(P) - 1
    BY <1>7, <1>11, FS_RemoveElement
  <2>2. QED
    BY <1>10, <2>1, FS_Injection
<1>13. Cardinality(U) = Cardinality(td_used) - Cardinality(Lost)
  <2>1. IsFiniteSet(td_used)
    BY <1>4, PoolSize
  <2>2. Cardinality(U) = Cardinality(td_used) - Cardinality(td_used \cap Lost)
    BY <2>1, FS_Difference
  <2>3. td_used \cap Lost = Lost
    BY <1>4
  <2>4. QED
    BY <2>2, <2>3
<1>14. Cardinality(td_used) \in Nat /\ Cardinality(Lost) \in Nat /\ Cardinality(P) \in Nat
  <2>1. td_used \in SUBSET TD /\ Lost \in SUBSET TD
    BY <1>4
  <2>2. QED
    BY <1>11, <2>1, PoolSize
<1>15. td_sem + Cardinality(td_used) = TD_ENTRIES /\ td_sem \in Nat /\ TD_ENTRIES \in Nat
  BY <1>1 DEF CountInv, UhciType, UhciAssumption
<1>16. TD_ENTRIES >= Cardinality(P) + Cardinality(Lost)
  BY <1>2, <1>11
<1> HIDE DEF U
<1>17. QED
  BY <1>12, <1>13, <1>14, <1>15, <1>16

\* Every step keeps the invariant and the places.
LEMMA UhciKeeps ==
  ASSUME UhciAssumption, UhciInv, SlotInv, [UhciNext]_uvars
  PROVE  UhciInv' /\ SlotInv'
<1>1. ASSUME NEW t \in Sender,
             uhci_tx_pkt_bulk(t) \/ LockHost(t) \/ uhci_stop(t) \/ RunAndSleep(t)
      PROVE  UhciInv' /\ SlotInv'
  <2>1. UhciInv'
    BY <1>1, QuietKeeps
  <2>2. QED
    BY <1>1, <2>1, SlotQuiet DEF UhciInv
<1>2. ASSUME NEW t \in Sender, uhci_acquire_td(t)
      PROVE  UhciInv' /\ SlotInv'
  BY <1>2, AcquireKeeps, SlotQuiet DEF UhciInv
<1>3. ASSUME NEW t \in Sender, QueueAsync(t)
      PROVE  UhciInv' /\ SlotInv'
  BY <1>3, AsyncKeeps, SlotAsync
<1>4. ASSUME NEW t \in Sender, QueueLast(t)
      PROVE  UhciInv' /\ SlotInv'
  BY <1>4, LastKeeps, SlotQuiet DEF UhciInv
<1>5. ASSUME NEW t \in Sender, Finish(t)
      PROVE  UhciInv' /\ SlotInv'
  BY <1>5, FinishKeeps, SlotQuiet DEF UhciInv
<1>6. ASSUME NEW t \in Sender, Execute(t)
      PROVE  UhciInv' /\ SlotInv'
  BY <1>6, ExecuteKeeps, SlotExecute DEF UhciInv
<1>7. CASE uhci_irq
  BY <1>7, IrqKeeps, SlotIrq
<1>8. CASE UNCHANGED uvars
  <2>1. UhciInv'
    BY <1>8 DEF UhciInv, UhciType, TdConserved, QueuesApart, Sender1, Waits, Toggles, Alternates,
                Queued, Elems, uvars
  <2>2. SlotInv'
    <3>1. /\ td' = td /\ queue' = queue /\ upc' = upc /\ left' = left /\ woken' = woken
      BY <1>8 DEF uvars
    <3>2. Pending' = Pending
      BY <3>1 DEF Pending, Lost
    <3>3. PICK slot : Slots(slot)
      BY DEF SlotInv
    <3>4. Slots(slot)'
      BY <3>1, <3>2, <3>3 DEF Slots
    <3>5. QED
      BY <3>4 DEF SlotInv
  <2>3. QED
    BY <2>1, <2>2
<1>9. QED
  BY <1>1, <1>2, <1>3, <1>4, <1>5, <1>6, <1>7, <1>8 DEF UhciNext

\* What the invariant says of the threads that sleep and of the queues.
LEMMA UhciSound ==
  ASSUME UhciInv
  PROVE  TdConserved /\ NoLostCompletion /\ TogglesAlternate
<1>1. ASSUME NEW t \in Sender, upc[t] = "asleep", t \notin raced \cup woken
      PROVE  /\ t \in waiting
             /\ \/ td[mine[t]].status = "active" /\ mine[t] \in Elems(queue[t])
                \/ usbint
  <2>1. Waits(t)
    BY DEF UhciInv
  <2>2. QED
    BY <1>1, <2>1 DEF Waits, Sent
<1>2. NoLostCompletion
  BY <1>1 DEF NoLostCompletion
<1>3. TogglesAlternate
  BY DEF UhciInv, Alternates, TogglesAlternate
<1>4. QED
  BY <1>2, <1>3 DEF UhciInv

\* uhci_tx_pkt(), its controller and its interrupt handler, for any number of
\* threads and descriptors: td_sem counts the free descriptors and every other one
\* has one holder; no thread sleeps through the end of its packet; the packets of a
\* queue alternate their toggle bits.
THEOREM UhciSafe ==
  ASSUME UhciAssumption
  PROVE  UhciSpec => [](TdConserved /\ NoLostCompletion /\ TogglesAlternate)
<1>1. UhciInit => UhciInv /\ SlotInv
  BY Starts, SlotStarts
<1>2. UhciInv /\ SlotInv /\ [UhciNext]_uvars => (UhciInv /\ SlotInv)'
  BY UhciKeeps
<1>3. UhciInv => TdConserved /\ NoLostCompletion /\ TogglesAlternate
  BY UhciSound
<1>4. QED
  BY <1>1, <1>2, <1>3, PTL DEF UhciSpec

\* uhci_acquire_td() with uhci_lock held never waits, given a descriptor for every
\* packet of every transfer besides those that the race has lost.
THEOREM UhciTdComes ==
  ASSUME UhciAssumption
  PROVE  UhciSpec => []TdComes
<1>1. UhciInit => UhciInv /\ SlotInv
  BY Starts, SlotStarts
<1>2. UhciInv /\ SlotInv /\ [UhciNext]_uvars => (UhciInv /\ SlotInv)'
  BY UhciKeeps
<1>3. UhciInv /\ SlotInv => TdComes
  BY SlotCount
<1>4. QED
  BY <1>1, <1>2, <1>3, PTL DEF UhciSpec
-----------------------------------------------------------------------------
(***************************************************************************)
(* Finding USB devices.                                                    *)
(***************************************************************************)

\* The constants: a controller has queue heads and addresses to give out.
UsbAssumption == QH_ENTRIES \in Nat /\ ADDRS_PER_HOST \in Nat

Stages == {"boot", "scan", "head", "whole", "strings", "address", "config", "idle", "panic"}
Ifaces == UNION {[cs -> Nat] : cs \in SUBSET Class}
UsbDev == [chan : QH, addr : Nat, ifaces : Ifaces]

UsbTypes ==
  /\ frame_list \in Seq(QH) /\ Distinct(frame_list) /\ Elems(frame_list) = qh_used
  /\ chan_addr \in [QH -> Nat]
  /\ usb_dev_addrs \in SUBSET (Nat \ {0})
  /\ devs \in Seq(UsbDev) /\ class_list \in Seq(Class)
  /\ stage \in Stages /\ pending \in SUBSET Class

\* The channel being set up is the first the controller visits: it is the only
\* one that may be removed, and the only one at the default address.
Unaddressed == {q \in qh_used : chan_addr[q] = ADDR_DEFAULT}
SettingUp ==
  /\ stage \in {"head", "whole", "strings", "address"} =>
       /\ frame_list # <<>> /\ current = frame_list[1] /\ Unaddressed \subseteq {current}
  /\ stage \in {"boot", "scan", "config"} => Unaddressed = {}
  /\ \A q, r \in Unaddressed : q = r
  /\ stage = "config" => /\ current \in qh_used /\ chan_addr[current] \in usb_dev_addrs
                         /\ \A i \in 1 .. Len(devs) : devs[i].addr # chan_addr[current]

\* The devices that are set up keep clear of it and of each other.
DevsApart ==
  /\ \A i, j \in 1 .. Len(devs) : devs[i].addr = devs[j].addr \/ devs[i].chan = devs[j].chan => i = j
  /\ \A i \in 1 .. Len(devs) :
       /\ devs[i].addr \in usb_dev_addrs /\ devs[i].chan \in qh_used
       /\ chan_addr[devs[i].chan] = devs[i].addr
       /\ stage \in {"head", "whole", "strings", "address"} => devs[i].chan # current

UsbInv == UsbTypes /\ SettingUp /\ DevsApart /\ AttachedOnce

\* attached(): an interface is taken at most once more, and only by its class.
LEMMA AttachAdds ==
    ASSUME NEW g \in Ifaces, NEW cs, NEW f \in Attach(g, cs)
    PROVE  /\ f \in Ifaces /\ DOMAIN f = DOMAIN g
           /\ \A c \in DOMAIN g : g[c] \in Nat /\ (f[c] = g[c] \/ (c \in cs /\ f[c] = g[c] + 1))
<1>1. PICK ks \in SUBSET Class : g \in [ks -> Nat]
  BY DEF Ifaces
<1>2. PICK yes \in SUBSET (cs \cap DOMAIN g) :
        f = [c \in DOMAIN g |-> g[c] + IF c \in yes THEN 1 ELSE 0]
  BY DEF Attach
<1>3. DOMAIN g = ks /\ \A c \in ks : g[c] \in Nat
  BY <1>1
<1>4. f \in [ks -> Nat]
  BY <1>2, <1>3
<1>5. f \in Ifaces
  BY <1>4 DEF Ifaces
<1>6. QED
  BY <1>2, <1>3, <1>4, <1>5

LEMMA UsbInitInv ==
    ASSUME UsbAssumption, CoreInit
    PROVE  UsbInv
<1> USE DEF CoreInit
<1>1. Elems(<<>>) = {} /\ Distinct(<<>>)
  BY DEF Elems, Distinct
<1>2. UsbTypes
  BY <1>1 DEF UsbTypes, Stages, ADDR_DEFAULT
<1>3. SettingUp /\ DevsApart /\ AttachedOnce
  BY DEF SettingUp, Unaddressed, DevsApart, AttachedOnce
<1>4. QED
  BY <1>2, <1>3 DEF UsbInv

LEMMA RegisterInv ==
    ASSUME UsbInv, NEW c \in Class, usb_register_class(c)
    PROVE  UsbInv'
<1> USE DEF UsbInv
<1>1. UNCHANGED <<frame_list, qh_used, chan_addr, usb_dev_addrs, stage, current, pending>>
  BY DEF usb_register_class
<1>2. CASE Registered(c)
  <2>1. UNCHANGED <<devs, class_list>>
    BY <1>2 DEF usb_register_class
  <2>2. QED
    BY <1>1, <2>1 DEF UsbTypes, SettingUp, Unaddressed, DevsApart, AttachedOnce, Registered,
      Stages, UsbDev, Ifaces, QH, ADDR_DEFAULT
<1>3. CASE ~ Registered(c)
  <2>1. class_list' = Append(class_list, c)
    BY <1>3 DEF usb_register_class
  <2>2. class_list' \in Seq(Class) /\ Elems(class_list') = Elems(class_list) \cup {c}
    BY <2>1, ElemsAppend DEF UsbTypes
  <2>3. PICK f : /\ \A i \in DOMAIN devs : f[i] \in Attach(devs[i].ifaces, {c})
                 /\ devs' = [i \in DOMAIN devs |-> [devs[i] EXCEPT !.ifaces = f[i]]]
    BY <1>3 DEF usb_register_class
  <2>4. DOMAIN devs = 1 .. Len(devs) /\ Len(devs) \in Nat /\ \A i \in 1 .. Len(devs) : devs[i] \in UsbDev
    BY DEF UsbTypes
  <2>5. \A i \in 1 .. Len(devs) : devs[i].ifaces \in Ifaces /\ devs[i].chan \in QH /\ devs[i].addr \in Nat
    BY <2>4 DEF UsbDev
  <2>6. ASSUME NEW i \in 1 .. Len(devs)
        PROVE  /\ f[i] \in Ifaces /\ DOMAIN f[i] = DOMAIN devs[i].ifaces
               /\ \A k \in DOMAIN devs[i].ifaces :
                    /\ devs[i].ifaces[k] \in Nat
                    /\ f[i][k] = devs[i].ifaces[k] \/ (k = c /\ f[i][k] = devs[i].ifaces[k] + 1)
    <3>1. f[i] \in Attach(devs[i].ifaces, {c})
      BY <2>3, <2>4
    <3>2. QED
      BY <2>5, <3>1, AttachAdds
  <2>7. \A i \in 1 .. Len(devs) : /\ devs'[i] \in UsbDev /\ devs'[i].chan = devs[i].chan
                                  /\ devs'[i].addr = devs[i].addr /\ devs'[i].ifaces = f[i]
    BY <2>3, <2>4, <2>5, <2>6 DEF UsbDev
  <2>8. devs' \in Seq(UsbDev) /\ Len(devs') = Len(devs)
    <3>1. devs' \in [1 .. Len(devs) -> UsbDev]
      BY <2>3, <2>4, <2>7
    <3>2. QED
      BY <2>4, <3>1
  <2>9. UsbTypes'
    BY <1>1, <2>2, <2>8 DEF UsbTypes, Stages, UsbDev, Ifaces, QH
  <2>10. SettingUp' /\ DevsApart'
    BY <1>1, <2>7, <2>8 DEF SettingUp, Unaddressed, DevsApart, ADDR_DEFAULT
  <2>11. AttachedOnce'
    <3>1. SUFFICES ASSUME NEW i \in 1 .. Len(devs), NEW k \in DOMAIN f[i]
          PROVE  f[i][k] <= IF k \in Elems(class_list') THEN 1 ELSE 0
      <4>1. DOMAIN devs' = 1 .. Len(devs)
        BY <2>8
      <4>2. QED
        BY <2>7, <4>1 DEF AttachedOnce, Registered
    <3>2. k \in DOMAIN devs[i].ifaces
      BY <2>6
    <3>3. devs[i].ifaces[k] <= IF k \in Elems(class_list) THEN 1 ELSE 0
      BY <2>4, <3>2 DEF AttachedOnce, Registered
    <3>4. c \notin Elems(class_list)
      BY <1>3 DEF Registered
    <3>5. QED
      BY <2>2, <2>6, <3>2, <3>3, <3>4
  <2>12. QED
    BY <2>9, <2>10, <2>11
<1>4. QED
  BY <1>2, <1>3

\* What AttachedOnce says does not change with the channels.
LEMMA SameDevs ==
    ASSUME AttachedOnce, UNCHANGED <<devs, class_list>>
    PROVE  AttachedOnce'
  BY DEF AttachedOnce, Registered

LEMMA UhciInitInv ==
    ASSUME UsbInv, uhci_init
    PROVE  UsbInv'
<1> USE DEF UsbInv, uhci_init, to
<1>1. UsbTypes'
  BY DEF UsbTypes, Stages, UsbDev, Ifaces, QH
<1>2. SettingUp' /\ DevsApart'
  BY DEF SettingUp, Unaddressed, DevsApart, ADDR_DEFAULT
<1>3. QED
  BY <1>1, <1>2, SameDevs

LEMMA ConfigureInv ==
    ASSUME UsbAssumption, UsbInv, Configure
    PROVE  UsbInv'
<1> USE DEF UsbInv
<1>0. PICK q : q = least(QH \ qh_used)
  OBVIOUS
<1>1. /\ stage = "scan" /\ stage' = "head" /\ qh_used # QH
      /\ qh_used' = qh_used \cup {q}
      /\ frame_list' = <<q>> \o frame_list
      /\ chan_addr' = [chan_addr EXCEPT ![q] = ADDR_DEFAULT]
      /\ current' = q
      /\ UNCHANGED <<usb_dev_addrs, devs, class_list, pending>>
  BY <1>0 DEF Configure, uhci_create_chan, to
<1>2. q \in QH /\ q \notin qh_used
  <2>1. qh_used \in SUBSET QH
    BY ElemsEmpty DEF UsbTypes
  <2>2. \A x \in QH : x \in Nat
    BY DEF QH, UsbAssumption
  <2>3. QH \ qh_used \in SUBSET Nat
    BY <2>2
  <2>4. QH \ qh_used # {}
    BY <1>1, <2>1
  <2>5. QED
    BY <1>0, <2>3, <2>4, LeastIn
<1>3. /\ frame_list' \in Seq(QH) /\ Distinct(frame_list') /\ Elems(frame_list') = qh_used'
      /\ frame_list'[1] = q /\ frame_list' # <<>>
  <2>1. /\ frame_list' \in Seq(QH) /\ Distinct(frame_list')
        /\ Elems(frame_list') = Elems(frame_list) \cup {q}
    BY <1>1, <1>2, ElemsCons DEF UsbTypes
  <2>2. frame_list'[1] = q /\ frame_list' # <<>>
    BY <1>1, <1>2 DEF UsbTypes
  <2>3. QED
    BY <1>1, <2>1, <2>2 DEF UsbTypes
<1>4. chan_addr' \in [QH -> Nat] /\ chan_addr'[q] = 0 /\ \A r \in QH \ {q} : chan_addr'[r] = chan_addr[r]
  BY <1>1, <1>2 DEF UsbTypes, ADDR_DEFAULT
<1>5. qh_used \in SUBSET QH
  BY ElemsEmpty DEF UsbTypes
<1>6. UsbTypes'
  BY <1>1, <1>3, <1>4 DEF UsbTypes, Stages, UsbDev, Ifaces, QH
<1>7. SettingUp'
  <2>1. {r \in qh_used' : chan_addr'[r] = 0} = {q}
    BY <1>1, <1>2, <1>4, <1>5 DEF SettingUp, Unaddressed, ADDR_DEFAULT
  <2>2. QED
    BY <1>1, <1>3, <2>1 DEF SettingUp, Unaddressed, ADDR_DEFAULT
<1>8. DevsApart'
  <2>1. \A i \in 1 .. Len(devs) : devs[i].chan \in QH \ {q}
    BY <1>2, <1>5 DEF DevsApart
  <2>2. QED
    BY <1>1, <1>4, <2>1 DEF DevsApart
<1>9. QED
  BY <1>1, <1>6, <1>7, <1>8, SameDevs

LEMMA ExchangeInv ==
    ASSUME UsbInv, Exchange
    PROVE  UsbInv'
<1> USE DEF UsbInv
<1>1. /\ stage \in {"head", "whole"}
      /\ UNCHANGED <<usb_dev_addrs, devs, class_list, pending, chan_addr>>
  BY DEF Exchange, uhci_destroy_chan
<1>2. /\ frame_list \in Seq(QH) /\ Distinct(frame_list) /\ Elems(frame_list) = qh_used
      /\ frame_list # <<>> /\ current = frame_list[1]
  BY <1>1 DEF UsbTypes, SettingUp
<1>3. CASE /\ stage' \in {"whole", "strings"}
           /\ UNCHANGED <<frame_list, qh_used, current>>
  <2>1. UsbTypes'
    BY <1>1, <1>3 DEF UsbTypes, Stages, UsbDev, Ifaces, QH
  <2>2. SettingUp' /\ DevsApart'
    BY <1>1, <1>3 DEF SettingUp, Unaddressed, DevsApart, ADDR_DEFAULT
  <2>3. QED
    BY <1>1, <2>1, <2>2, SameDevs
<1>4. CASE uhci_destroy_chan(current) /\ stage' = "idle"
  <2>1. frame_list' = Tail(frame_list) /\ qh_used' = qh_used \ {current}
    BY <1>2, <1>4 DEF uhci_destroy_chan, uhci_remove_qh
  <2>2. Head(frame_list) = current
    BY <1>2
  <2>3. frame_list' \in Seq(QH) /\ Distinct(frame_list') /\ Elems(frame_list') = qh_used'
    BY <1>2, <2>1, <2>2, ElemsTail
  <2>4. UsbTypes'
    BY <1>1, <1>4, <2>3 DEF UsbTypes, Stages, UsbDev, Ifaces, QH
  <2>5. SettingUp'
    BY <1>1, <1>4, <2>1 DEF SettingUp, Unaddressed, ADDR_DEFAULT
  <2>6. DevsApart'
    BY <1>1, <1>4, <2>1 DEF DevsApart
  <2>7. QED
    BY <1>1, <2>4, <2>5, <2>6, SameDevs
<1>5. CASE stage' = "idle" /\ UNCHANGED <<frame_list, qh_used>>
  <2>1. UsbTypes'
    BY <1>1, <1>5 DEF UsbTypes, Stages, UsbDev, Ifaces, QH
  <2>2. SettingUp' /\ DevsApart'
    BY <1>1, <1>5 DEF SettingUp, Unaddressed, DevsApart, ADDR_DEFAULT
  <2>3. QED
    BY <1>1, <2>1, <2>2, SameDevs
<1>6. QED
  BY <1>1, <1>3, <1>4, <1>5 DEF Exchange, to

LEMMA LoadConfigInv ==
    ASSUME UsbInv, usb_load_config
    PROVE  UsbInv'
<1> USE DEF UsbInv, usb_load_config, to
<1>1. UsbTypes'
  BY DEF UsbTypes, Stages, UsbDev, Ifaces, QH
<1>2. SettingUp' /\ DevsApart'
  BY DEF SettingUp, Unaddressed, DevsApart, ADDR_DEFAULT
<1>3. QED
  BY <1>1, <1>2, SameDevs

LEMMA SetupAddrInv ==
    ASSUME UsbAssumption, UsbInv, usb_setup_dev_addr
    PROVE  UsbInv'
<1> USE DEF UsbInv
<1>0. PICK a : a = least(FreeAddrs)
  OBVIOUS
<1>1. /\ stage = "address" /\ FreeAddrs # {}
      /\ usb_dev_addrs' = usb_dev_addrs \cup {a}
      /\ UNCHANGED <<frame_list, qh_used, devs, class_list, current, pending>>
  BY <1>0 DEF usb_setup_dev_addr
<1>2. a \in Nat \ {0} /\ a \notin usb_dev_addrs
  <2>1. FreeAddrs \in SUBSET (Nat \ {0}) /\ FreeAddrs \cap usb_dev_addrs = {}
    BY DEF FreeAddrs, UsbAssumption
  <2>2. a \in FreeAddrs
    BY <1>0, <1>1, <2>1, LeastIn
  <2>3. QED
    BY <2>1, <2>2
<1>3. current \in qh_used /\ current \in QH
  BY <1>1, ElemsEmpty DEF UsbTypes, SettingUp, Elems
<1>4. CASE chan_addr' = [chan_addr EXCEPT ![current] = a] /\ stage' = "config"
  <2>1. /\ chan_addr' \in [QH -> Nat] /\ chan_addr'[current] = a
        /\ \A r \in QH \ {current} : chan_addr'[r] = chan_addr[r]
    BY <1>2, <1>3, <1>4 DEF UsbTypes
  <2>2. UsbTypes'
    BY <1>1, <1>2, <1>4, <2>1 DEF UsbTypes, Stages, UsbDev, Ifaces, QH
  <2>3. qh_used \in SUBSET QH
    BY ElemsEmpty DEF UsbTypes
  <2>4. SettingUp'
    <3>1. {r \in qh_used : chan_addr'[r] = 0} = {}
      BY <1>1, <1>2, <2>1, <2>3 DEF SettingUp, Unaddressed, ADDR_DEFAULT
    <3>2. \A i \in 1 .. Len(devs) : devs[i].addr # a
      BY <1>2 DEF DevsApart
    <3>3. QED
      BY <1>1, <1>3, <1>4, <2>1, <3>1, <3>2 DEF SettingUp, Unaddressed, ADDR_DEFAULT
  <2>5. DevsApart'
    <3>1. \A i \in 1 .. Len(devs) : devs[i].chan \in QH \ {current}
      BY <1>1, <2>3 DEF DevsApart
    <3>2. QED
      BY <1>1, <1>4, <2>1, <3>1 DEF DevsApart
  <2>6. QED
    BY <1>1, <2>2, <2>4, <2>5, SameDevs
<1>5. CASE UNCHANGED chan_addr /\ stage' = "panic"
  <2>1. UsbTypes'
    BY <1>1, <1>2, <1>5 DEF UsbTypes, Stages, UsbDev, Ifaces, QH
  <2>2. SettingUp' /\ DevsApart'
    BY <1>1, <1>5 DEF SettingUp, Unaddressed, DevsApart, ADDR_DEFAULT
  <2>3. QED
    BY <1>1, <2>1, <2>2, SameDevs
<1>6. QED
  BY <1>0, <1>4, <1>5 DEF usb_setup_dev_addr, to

LEMMA ConfigDevInv ==
    ASSUME UsbInv, usb_config_dev
    PROVE  UsbInv'
<1> USE DEF UsbInv
<1>1. /\ stage = "config"
      /\ UNCHANGED <<frame_list, qh_used, chan_addr, usb_dev_addrs, class_list>>
  BY DEF usb_config_dev
<1>2. CASE stage' = "panic" /\ UNCHANGED <<devs, current, pending>>
  <2>1. UsbTypes'
    BY <1>1, <1>2 DEF UsbTypes, Stages, UsbDev, Ifaces, QH
  <2>2. SettingUp' /\ DevsApart'
    BY <1>1, <1>2 DEF SettingUp, Unaddressed, DevsApart, ADDR_DEFAULT
  <2>3. QED
    BY <1>1, <1>2, <2>1, <2>2, SameDevs
<1>3. ASSUME NEW f \in Attach([c \in pending |-> 0], Elems(class_list)),
             devs' = Append(devs, [chan |-> current, addr |-> chan_addr[current], ifaces |-> f]),
             stage' = "scan", current' = NONE, pending' = {}
      PROVE  UsbInv'
  <2> DEFINE d == [chan |-> current, addr |-> chan_addr[current], ifaces |-> f]
             g == [c \in pending |-> 0]
             n == Len(devs)
  <2>1. g \in Ifaces
    <3>1. g \in [pending -> Nat] /\ pending \in SUBSET Class
      BY DEF UsbTypes
    <3> HIDE DEF g
    <3>2. QED
      BY <3>1 DEF Ifaces
  <2>2. DOMAIN g = pending /\ \A c \in pending : g[c] = 0
    OBVIOUS
  <2> HIDE DEF g
  <2>3. /\ f \in Ifaces /\ DOMAIN f = pending
        /\ \A c \in pending : f[c] = 0 \/ (c \in Elems(class_list) /\ f[c] = 1)
    <3>1. f \in Attach(g, Elems(class_list))
      BY <1>3 DEF g
    <3>2. QED
      BY <2>1, <2>2, <3>1, AttachAdds
  <2>4. current \in QH /\ current \in qh_used /\ chan_addr[current] \in Nat /\ chan_addr[current] \in usb_dev_addrs
    BY <1>1, ElemsEmpty DEF UsbTypes, SettingUp
  <2>5. d \in UsbDev /\ d.chan = current /\ d.addr = chan_addr[current] /\ d.ifaces = f
    BY <2>3, <2>4 DEF UsbDev
  <2> HIDE DEF d
  <2>6. devs' = Append(devs, d)
    BY <1>3 DEF d
  <2>7. /\ devs' \in Seq(UsbDev) /\ Len(devs') = n + 1 /\ n \in Nat
        /\ (\A i \in 1 .. n : devs'[i] = devs[i]) /\ devs'[n + 1] = d
    BY <2>5, <2>6, ElemsAppend DEF UsbTypes
  <2> HIDE DEF n
  <2>8. UsbTypes'
    BY <1>1, <1>3, <2>7 DEF UsbTypes, Stages, UsbDev, Ifaces, QH
  <2>9. SettingUp'
    BY <1>1, <1>3 DEF SettingUp, Unaddressed, ADDR_DEFAULT
  <2>10. \A i \in 1 .. n + 1 : i \in 1 .. n \/ i = n + 1
    BY <2>7
  <2>11. \A i \in 1 .. n : devs[i].addr # d.addr /\ devs[i].chan # d.chan
    BY <1>1, <2>5 DEF SettingUp, DevsApart, n
  <2>12. DevsApart'
    <3>1. ASSUME NEW i \in 1 .. n + 1, NEW j \in 1 .. n + 1,
                 devs'[i].addr = devs'[j].addr \/ devs'[i].chan = devs'[j].chan
          PROVE  i = j
      BY <2>7, <2>10, <2>11, <3>1 DEF DevsApart, n
    <3>2. ASSUME NEW i \in 1 .. n + 1
          PROVE  /\ devs'[i].addr \in usb_dev_addrs /\ devs'[i].chan \in qh_used
                 /\ chan_addr[devs'[i].chan] = devs'[i].addr
      BY <2>4, <2>5, <2>7, <2>10 DEF DevsApart, n
    <3>3. QED
      BY <1>1, <1>3, <2>7, <3>1, <3>2 DEF DevsApart
  <2>13. AttachedOnce'
    <3>1. SUFFICES ASSUME NEW i \in 1 .. n + 1, NEW c \in DOMAIN devs'[i].ifaces
          PROVE  devs'[i].ifaces[c] <= IF c \in Elems(class_list) THEN 1 ELSE 0
      <4>1. DOMAIN devs' = 1 .. n + 1
        BY <2>7
      <4>2. QED
        BY <1>1, <4>1 DEF AttachedOnce, Registered
    <3>2. CASE i = n + 1
      BY <2>3, <2>5, <2>7, <3>2
    <3>3. CASE i \in 1 .. n
      <4>1. i \in DOMAIN devs
        BY <3>3 DEF UsbTypes, n
      <4>2. QED
        BY <2>7, <3>3, <4>1 DEF AttachedOnce, Registered
    <3>4. QED
      BY <2>10, <3>2, <3>3
  <2>14. QED
    BY <2>8, <2>9, <2>12, <2>13
<1>4. QED
  BY <1>2, <1>3 DEF usb_config_dev, to

LEMMA UsbNextInv ==
    ASSUME UsbAssumption, UsbInv, [CoreNext]_cvars
    PROVE  UsbInv'
<1>1. CASE UNCHANGED cvars
  <2> USE <1>1 DEF UsbInv, cvars
  <2>1. UsbTypes'
    BY DEF UsbTypes, Stages, UsbDev, Ifaces, QH
  <2>2. SettingUp' /\ DevsApart'
    BY DEF SettingUp, Unaddressed, DevsApart, ADDR_DEFAULT
  <2>3. QED
    BY <2>1, <2>2, SameDevs
<1>2. QED
  BY <1>1, RegisterInv, UhciInitInv, ConfigureInv, ExchangeInv, LoadConfigInv, SetupAddrInv,
    ConfigDevInv DEF CoreNext

LEMMA CoreInvSound ==
    ASSUME UsbInv
    PROVE  CoreSound
<1> USE DEF UsbInv
<1>1. DOMAIN devs = 1 .. Len(devs)
  BY DEF UsbTypes
<1>2. IsFiniteSet(qh_used) /\ Cardinality(qh_used) = Len(frame_list)
  BY DistinctCount DEF UsbTypes
<1>3. Cardinality(Unaddressed) <= 1
  <2>1. CASE Unaddressed = {}
    BY <2>1, FS_EmptySet
  <2>2. CASE Unaddressed # {}
    <3>1. PICK q : Unaddressed = {q}
      BY <2>2 DEF SettingUp
    <3>2. Cardinality({q}) = 1
      BY FS_Singleton
    <3>3. QED
      BY <3>1, <3>2
  <2>3. QED
    BY <2>1, <2>2
<1>4. ChannelsSound
  <2>1. \A i, j \in DOMAIN devs : i # j => devs[i].addr # devs[j].addr /\ devs[i].chan # devs[j].chan
    BY <1>1 DEF DevsApart
  <2>2. \A i \in DOMAIN devs : /\ devs[i].addr \in usb_dev_addrs
                               /\ chan_addr[devs[i].chan] = devs[i].addr
                               /\ devs[i].chan \in Elems(frame_list)
    BY <1>1 DEF DevsApart, UsbTypes
  <2>3. Elems(frame_list) = qh_used
    BY DEF UsbTypes
  <2>4. QED
    BY <1>2, <1>3, <2>1, <2>2, <2>3 DEF ChannelsSound, Unaddressed
<1>5. QED
  BY <1>4 DEF CoreSound

\* usb.c and the channels of usb_uhci.c, for any classes, queue heads and
\* addresses, whichever exchange with a device fails: configured devices have
\* addresses and queue heads of their own that the controller visits, at most
\* one channel is at the default address, and an interface goes to its driver at
\* most once and only after the driver is registered.
THEOREM CoreIsSound ==
    ASSUME UsbAssumption
    PROVE  CoreSpec => []CoreSound
<1>1. CoreInit => UsbInv
  BY UsbInitInv
<1>2. UsbInv /\ [CoreNext]_cvars => UsbInv'
  BY UsbNextInv
<1>3. UsbInv => CoreSound
  BY CoreInvSound
<1>4. QED
  BY <1>1, <1>2, <1>3, PTL DEF CoreSpec

-----------------------------------------------------------------------------
(***************************************************************************)
(* Block devices and partitions.                                           *)
(***************************************************************************)

PartEntry == [type : Role \cup {"empty", "extended", "other"},
              offset : 0 .. 2 ^ W - 1, size : 0 .. 2 ^ W - 1]

\* The constants: the disk has sectors and block_sector_t can count them; a
\* table is any entries.
BlockAssumption ==
  /\ 2 ^ W \in Nat /\ DISK_SIZE \in Nat /\ 0 < DISK_SIZE /\ DISK_SIZE < 2 ^ W
  /\ PartTable \subseteq Seq(PartEntry)

PartOf == [type : Role \cup {"raw", "foreign"}, start : Nat, size : Nat]
Activation == [sector : Nat, primary : Nat, i : Nat \ {0}]

\* Partitions lie inside the disk, and so did the last access in its own.
DiskInv ==
  /\ blocks \in Seq(PartOf) /\ pt \in Seq(PartEntry) /\ calls \in Seq(Activation)
  /\ \A k \in 1 .. Len(blocks) : blocks[k].start + blocks[k].size <= DISK_SIZE
  /\ last.via \in 1 .. Len(blocks) /\ last.sector \in Nat
  /\ LET b == blocks[last.via] IN b.start <= last.sector /\ last.sector < b.start + b.size

LEMMA BlockAt ==
    ASSUME DiskInv, NEW k \in 1 .. Len(blocks)
    PROVE  /\ blocks[k].start \in Nat /\ blocks[k].size \in Nat
           /\ blocks[k].start + blocks[k].size <= DISK_SIZE
<1>1. blocks \in Seq(PartOf) /\ blocks[k].start + blocks[k].size <= DISK_SIZE
  BY DEF DiskInv
<1>2. blocks[k] \in PartOf
  BY <1>1
<1>3. QED
  BY <1>1, <1>2 DEF PartOf

LEMMA WrapsSector ==
    ASSUME BlockAssumption, NEW n \in Nat
    PROVE  /\ Wrap(n) \in Nat /\ (n < 2 ^ W => Wrap(n) = n)
           /\ n >= 2 ^ W /\ n < 2 ^ W + 2 ^ W => Wrap(n) = n - 2 ^ W
<1>1. \A s, y \in Nat : s > 0 => /\ y % s \in Nat /\ (y < s => y % s = y)
                                 /\ y >= s /\ y < s + s => y % s = y - s
  OBVIOUS
<1>2. 2 ^ W \in Nat /\ 2 ^ W > 0
  BY DEF BlockAssumption
<1>3. QED
  BY <1>1, <1>2 DEF Wrap

\* found_partition() registers what lies inside the disk, although the end of
\* the partition may wrap around.
LEMMA FoundInside ==
    ASSUME BlockAssumption, NEW e \in PartEntry, NEW start \in Nat
    PROVE  \/ found_partition(e, start) = blocks
           \/ \E p \in PartOf : /\ found_partition(e, start) = Append(blocks, p)
                                /\ p.start + p.size <= DISK_SIZE
<1>1. PICK z : z = start + e.size
  OBVIOUS
<1>2. /\ e.size \in Nat /\ e.size < 2 ^ W /\ 2 ^ W \in Nat /\ DISK_SIZE \in Nat /\ DISK_SIZE < 2 ^ W
  BY DEF PartEntry, BlockAssumption
<1>3. z \in Nat
  BY <1>1, <1>2
<1>4. SUFFICES ASSUME ~ (start >= DISK_SIZE \/ Wrap(z) < start \/ Wrap(z) > DISK_SIZE)
      PROVE  \E p \in PartOf : /\ found_partition(e, start) = Append(blocks, p)
                               /\ p.start + p.size <= DISK_SIZE
  BY <1>1 DEF found_partition
<1>5. z < 2 ^ W
  <2>1. SUFFICES ASSUME z >= 2 ^ W PROVE FALSE
    BY <1>2, <1>3
  <2>2. z < 2 ^ W + 2 ^ W
    BY <1>1, <1>2, <1>4
  <2>3. Wrap(z) = z - 2 ^ W
    BY <1>3, <2>1, <2>2, WrapsSector
  <2>4. QED
    BY <1>1, <1>2, <1>4, <2>3
<1>6. Wrap(z) = z
  BY <1>3, <1>5, WrapsSector
<1>7. start + e.size <= DISK_SIZE
  BY <1>1, <1>2, <1>3, <1>4, <1>6
<1> DEFINE p == [type |-> IF e.type \in Role THEN e.type ELSE "foreign", start |-> start, size |-> e.size]
<1>8. p \in PartOf /\ p.start + p.size <= DISK_SIZE
  <2>1. (IF e.type \in Role THEN e.type ELSE "foreign") \in Role \cup {"raw", "foreign"}
    OBVIOUS
  <2>2. QED
    BY <1>2, <1>7, <2>1 DEF PartOf
<1>9. found_partition(e, start) = Append(blocks, p)
  BY <1>1, <1>4 DEF found_partition
<1>10. QED
  BY <1>8, <1>9

LEMMA BlockInitInv == ASSUME BlockAssumption PROVE BlockInit => DiskInv
<1>1. SUFFICES ASSUME BlockInit PROVE DiskInv
  OBVIOUS
<1>2. PICK b : b = [type |-> "raw", start |-> 0, size |-> DISK_SIZE]
  OBVIOUS
<1>3. b \in PartOf /\ b.start = 0 /\ b.size = DISK_SIZE /\ DISK_SIZE \in Nat /\ DISK_SIZE > 0
  BY <1>2 DEF PartOf, BlockAssumption
<1>4. blocks = <<b>> /\ pt = <<>> /\ calls = <<>> /\ last = [via |-> 1, sector |-> 0]
  BY <1>1, <1>2 DEF BlockInit
<1>5. /\ blocks \in Seq(PartOf) /\ Len(blocks) = 1 /\ blocks[1] = b
      /\ pt \in Seq(PartEntry) /\ calls \in Seq(Activation) /\ last.via = 1 /\ last.sector = 0
  BY <1>3, <1>4
<1>6. QED
  BY <1>3, <1>5 DEF DiskInv

LEMMA CalledIsStack ==
    ASSUME BlockAssumption, NEW c \in Seq(Activation), NEW s \in Nat, NEW p \in Nat
    PROVE  Called(c, s, p) \in Seq(Activation)
<1>1. [sector |-> s, primary |-> p, i |-> 1] \in Activation
  BY DEF Activation
<1>2. QED
  BY <1>1 DEF Called

LEMMA ScanInv ==
    ASSUME BlockAssumption, DiskInv, NEW t \in PartTable, partition_scan(t)
    PROVE  DiskInv'
<1>1. pt' = t /\ calls' = Called(<<>>, 0, 0) /\ UNCHANGED <<blocks, role, last>>
  BY DEF partition_scan
<1>2. t \in Seq(PartEntry)
  BY DEF BlockAssumption
<1>3. calls' \in Seq(Activation)
  <2>1. <<>> \in Seq(Activation)
    OBVIOUS
  <2>2. QED
    BY <1>1, <2>1, CalledIsStack
<1>4. QED
  BY <1>1, <1>2, <1>3 DEF DiskInv

LEMMA TableInv ==
    ASSUME BlockAssumption, DiskInv, read_partition_table
    PROVE  DiskInv'
<1>1. PICK n : n = Len(calls)
  OBVIOUS
<1>2. PICK f : f = calls[n]
  OBVIOUS
<1>3. PICK e : e = pt[f.i]
  OBVIOUS
<1>4. PICK rest : rest = [calls EXCEPT ![n] = [f EXCEPT !.i = f.i + 1]]
  OBVIOUS
<1>5. n > 0 /\ f.i <= Len(pt) /\ UNCHANGED <<role, pt, last>>
  BY <1>1, <1>2 DEF read_partition_table
<1>6. \/ calls' = rest /\ blocks' = blocks
      \/ calls' = Called(rest, e.offset, e.offset) /\ blocks' = blocks
      \/ calls' = Called(rest, Wrap(e.offset + f.primary), f.primary) /\ blocks' = blocks
      \/ blocks' = found_partition(e, Wrap(e.offset + f.sector)) /\ calls' = rest
  BY <1>1, <1>2, <1>3, <1>4 DEF read_partition_table
<1>7. n \in 1 .. Len(calls) /\ calls \in Seq(Activation)
  BY <1>1, <1>5 DEF DiskInv
<1>8. f \in Activation
  BY <1>2, <1>7
<1>9. f.i \in 1 .. Len(pt) /\ f.i \in Nat /\ f.sector \in Nat /\ f.primary \in Nat
  <2>1. f.i \in Nat \ {0} /\ f.sector \in Nat /\ f.primary \in Nat
    BY <1>8 DEF Activation
  <2>2. Len(pt) \in Nat
    BY DEF DiskInv
  <2>3. QED
    BY <1>5, <2>1, <2>2
<1>10. e \in PartEntry
  BY <1>3, <1>9 DEF DiskInv
<1>11. e.offset \in Nat
  BY <1>10 DEF PartEntry, BlockAssumption
<1>12. rest \in Seq(Activation)
  <2>1. [f EXCEPT !.i = f.i + 1] \in Activation
    BY <1>8, <1>9 DEF Activation
  <2>2. QED
    BY <1>4, <1>7, <2>1
<1>13. Wrap(e.offset + f.primary) \in Nat /\ Wrap(e.offset + f.sector) \in Nat
  <2>1. e.offset + f.primary \in Nat /\ e.offset + f.sector \in Nat
    BY <1>9, <1>11
  <2>2. QED
    BY <2>1, WrapsSector
<1>14. calls' \in Seq(Activation)
  BY <1>6, <1>9, <1>11, <1>12, <1>13, CalledIsStack
<1>15. CASE blocks' = blocks
  BY <1>5, <1>14, <1>15 DEF DiskInv
<1>16. CASE blocks' = found_partition(e, Wrap(e.offset + f.sector)) /\ blocks' # blocks
  <2>1. PICK p \in PartOf : blocks' = Append(blocks, p) /\ p.start + p.size <= DISK_SIZE
    BY <1>10, <1>13, <1>16, FoundInside
  <2>2. /\ blocks' \in Seq(PartOf) /\ Len(blocks') = Len(blocks) + 1 /\ Len(blocks) \in Nat
        /\ \A k \in 1 .. Len(blocks) : blocks'[k] = blocks[k]
        /\ blocks'[Len(blocks) + 1] = p
    BY <2>1 DEF DiskInv
  <2>3. \A k \in 1 .. Len(blocks') : blocks'[k].start + blocks'[k].size <= DISK_SIZE
    BY <2>1, <2>2 DEF DiskInv
  <2>4. last' = last /\ last.via \in 1 .. Len(blocks') /\ blocks'[last.via] = blocks[last.via]
    BY <1>5, <2>2 DEF DiskInv
  <2>5. QED
    BY <1>5, <1>14, <2>2, <2>3, <2>4 DEF DiskInv
<1>17. QED
  BY <1>6, <1>15, <1>16

LEMMA TableDoneInv ==
    ASSUME BlockAssumption, DiskInv, TableDone
    PROVE  DiskInv'
<1>1. Len(calls) > 0 /\ calls' = SubSeq(calls, 1, Len(calls) - 1) /\ UNCHANGED <<blocks, role, pt, last>>
  BY DEF TableDone
<1>2. calls' \in Seq(Activation)
  BY <1>1 DEF DiskInv
<1>3. QED
  BY <1>1, <1>2 DEF DiskInv

LEMMA AccessInv ==
    ASSUME BlockAssumption, DiskInv, NEW k \in DOMAIN blocks, NEW s \in 0 .. DISK_SIZE,
           NEW w \in BOOLEAN, Access(k, s, w)
    PROVE  DiskInv'
<1>1. PICK b : b = blocks[k]
  OBVIOUS
<1>2. /\ UNCHANGED <<blocks, role, pt, calls>>
      /\ \/ last' = last
         \/ s < b.size /\ last' = [via |-> k, sector |-> Wrap(b.start + s)]
  <2>1. b.size \in Nat /\ s \in Nat
    <3>1. k \in 1 .. Len(blocks)
      BY DEF DiskInv
    <3>2. QED
      BY <1>1, <3>1, BlockAt DEF BlockAssumption
  <2>2. QED
    BY <1>1, <2>1 DEF Access
<1>3. CASE last' = last
  BY <1>2, <1>3 DEF DiskInv
<1>4. CASE s < b.size /\ last' = [via |-> k, sector |-> Wrap(b.start + s)]
  <2>1. k \in 1 .. Len(blocks)
    BY DEF DiskInv
  <2>2. b.start \in Nat /\ b.size \in Nat /\ b.start + b.size <= DISK_SIZE
    BY <1>1, <2>1, BlockAt
  <2>3. s \in Nat /\ b.start + s < 2 ^ W /\ b.start + s \in Nat
    BY <1>4, <2>2 DEF BlockAssumption
  <2>4. last'.via = k /\ last'.sector = b.start + s
    BY <1>4, <2>3, WrapsSector
  <2>5. b.start <= last'.sector /\ last'.sector < b.start + b.size /\ last'.sector \in Nat
    BY <1>4, <2>2, <2>3, <2>4
  <2>6. blocks'[last'.via] = b /\ last'.via \in 1 .. Len(blocks')
    BY <1>1, <1>2, <2>1, <2>4
  <2>7. QED
    BY <1>2, <2>5, <2>6 DEF DiskInv
<1>5. QED
  BY <1>2, <1>3, <1>4

LEMMA BlockNextInv == ASSUME BlockAssumption PROVE DiskInv /\ [BlockNext]_bvars => DiskInv'
<1>1. SUFFICES ASSUME DiskInv, [BlockNext]_bvars PROVE DiskInv'
  OBVIOUS
<1>2. CASE UNCHANGED bvars
  BY <1>1, <1>2 DEF bvars, DiskInv
<1>3. ASSUME NEW t \in PartTable, partition_scan(t) PROVE DiskInv'
  BY <1>1, <1>3, ScanInv
<1>4. CASE read_partition_table
  BY <1>1, <1>4, TableInv
<1>5. CASE TableDone
  BY <1>1, <1>5, TableDoneInv
<1>6. ASSUME NEW r \in Role, NEW k \in DOMAIN blocks, block_set_role(r, k) PROVE DiskInv'
  BY <1>1, <1>6 DEF block_set_role, DiskInv
<1>7. ASSUME NEW k \in DOMAIN blocks, NEW s \in 0 .. DISK_SIZE,
             block_read(k, s) \/ block_write(k, s)
      PROVE  DiskInv'
  BY <1>1, <1>7, AccessInv DEF block_read, block_write
<1>8. QED
  BY <1>1, <1>2, <1>3, <1>4, <1>5, <1>6, <1>7 DEF BlockNext

LEMMA DiskInvSound == ASSUME BlockAssumption, DiskInv PROVE InsideDisk
<1>1. DOMAIN blocks = 1 .. Len(blocks)
  BY DEF DiskInv
<1>2. PICK b : b = blocks[last.via]
  OBVIOUS
<1>3. b.start \in Nat /\ b.size \in Nat /\ last.sector \in Nat /\ b.start <= last.sector
      /\ last.sector < b.start + b.size
  <2>1. last.via \in 1 .. Len(blocks) /\ last.sector \in Nat
    BY DEF DiskInv
  <2>2. b.start \in Nat /\ b.size \in Nat
    BY <1>2, <2>1, BlockAt
  <2>3. QED
    BY <1>2, <2>1, <2>2 DEF DiskInv
<1>4. last.sector \in b.start .. b.start + b.size - 1
  BY <1>3
<1>5. QED
  BY <1>1, <1>2, <1>4 DEF DiskInv, InsideDisk

\* partition.c and block.c, for any disk and any partition table on it, with
\* sector numbers that wrap around: every registered partition lies inside the
\* disk, and an access through a block device reaches a sector of that device.
THEOREM PartitionsInside ==
    ASSUME BlockAssumption
    PROVE  BlockSpec => []InsideDisk
<1>1. BlockInit => DiskInv
  BY BlockInitInv
<1>2. DiskInv /\ [BlockNext]_bvars => DiskInv'
  BY BlockNextInv
<1>3. DiskInv => InsideDisk
  BY DiskInvSound
<1>4. QED
  BY <1>1, <1>2, <1>3, PTL DEF BlockSpec

-----------------------------------------------------------------------------
(***************************************************************************)
(* The drivers together.                                                   *)
(***************************************************************************)

\* usb_uhci.c and usb.c: descriptors are conserved and come back, completions
\* wake their sender, toggles alternate, and channels and interfaces are set up
\* once, for any number of senders, descriptors, queue heads and classes.
THEOREM UsbIsSound ==
    ASSUME UhciAssumption, UsbAssumption
    PROVE  UhciSpec /\ CoreSpec => []UsbSound
<1>1. TdConserved /\ NoLostCompletion /\ TogglesAlternate /\ TdComes /\ CoreSound => UsbSound
  BY DEF UsbSound
<1>2. QED
  BY <1>1, UhciSafe, UhciTdComes, CoreIsSound, PTL

\* ide.c, partition.c and block.c: a transfer moves its caller's data to or from
\* its sector, and no access leaves its partition or the disk.
THEOREM DisksAreSound ==
    ASSUME NULL \notin User, BlockAssumption
    PROVE  IdeSpec /\ BlockSpec => []DisksSound
<1>1. IdeExact /\ CompletionFresh /\ InsideDisk => DisksSound
  BY DEF DisksSound
<1>2. QED
  BY <1>1, TransfersExact, CompletionsFresh, PartitionsInside, PTL
=============================================================================
