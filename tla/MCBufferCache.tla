---------------------------- MODULE MCBufferCache ----------------------------
(***************************************************************************)
(* Instances of BufferCache for TLC.                                       *)
(***************************************************************************)
EXTENDS BufferCache, TLC

\* No definition names a particular sector or part.
MCSymmetry == Permutations(Sector) \cup Permutations(Part)
=============================================================================
