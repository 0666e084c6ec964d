------------------------------ MODULE MCFsCache ------------------------------
(***************************************************************************)
(* FsCache with its sectors interchangeable.                               *)
(***************************************************************************)
EXTENDS FsCache, TLC

SectorsAlike == Permutations(Sectors)
=============================================================================
