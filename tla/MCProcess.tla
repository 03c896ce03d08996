----------------------------- MODULE MCProcess -----------------------------
(* Three processes: the first one, and two that it or each other create.   *)
EXTENDS Process
=============================================================================
