----------------------------- MODULE MCFatFile -----------------------------
(* A card with one file of two clusters, 4 and 5, and one file without any. *)
EXTENDS FatFile, TLC

CONSTANTS a, e

MCFirst == a :> 4 @@ e :> 0
MCSize0 == a :> 2 @@ e :> 0

\* 2 is the root directory; 3 and 6 are free.
MCFat0 == <<EOC, EOC, 0, 5, EOC, 0>> @@ 0 :> EOC
=============================================================================
