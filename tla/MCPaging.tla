------------------------------ MODULE MCPaging ------------------------------
(***************************************************************************)
(* The address of the first program for TLC.                               *)
(***************************************************************************)
EXTENDS Paging

MCCodeVa == <<0, 0>>
=============================================================================
