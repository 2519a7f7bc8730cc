------------------------------ MODULE MCMalloc ------------------------------
(***************************************************************************)
(* The allocator for TLC.  The client's names are interchangeable.         *)
(***************************************************************************)
EXTENDS MMalloc

IdSymmetry == Permutations(Ids)
=============================================================================
