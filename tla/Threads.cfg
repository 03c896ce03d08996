CONSTANTS
  NULL = NULL
  tid_lock = tid_lock
  Thread = {main, idle, t1, t2}
  initial_thread = main
  idle_thread = idle
  Lock = {tid_lock, l1}
  Sema = {s1}
  Cond = {c1}
  CondLock <- MCCondLock
  TIME_SLICE = 2
  MaxValue = 2
  MaxTid = 4
SPECIFICATION FairSpec
INVARIANTS
  TypeOK
  ElemOnOneList
  LockExclusion
  NoLostWakeup
  
  CondSignalKept
PROPERTIES
  ReadyRuns
  ImplementsMonitor
