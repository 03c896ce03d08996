------------------------------ MODULE MCThreads ------------------------------
(***************************************************************************)
(* Instances of Threads for TLC: the .cfg files choose the threads and     *)
(* which synchronization objects there are.                                *)
(***************************************************************************)
EXTENDS Threads

\* Every condition variable is used with the one lock that is not tid_lock.
MCCondLock == [c \in Cond |-> CHOOSE l \in Lock : l # tid_lock]
=============================================================================
