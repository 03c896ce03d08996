------------------------------ MODULE MCFiles -------------------------------
(***************************************************************************)
(* Two processes, one free descriptor and two free inode sectors, and the  *)
(* paths /a, /a/b and "..": a process can make, enter, fill and remove     *)
(* directories under the other.                                            *)
(***************************************************************************)
EXTENDS FileSystem, TLC

MCPath == {[abs |-> TRUE, names |-> <<"a">>], [abs |-> TRUE, names |-> <<"a", "b">>],
           [abs |-> FALSE, names |-> <<"..">>]}

Symmetry == Permutations(Proc)
=============================================================================
