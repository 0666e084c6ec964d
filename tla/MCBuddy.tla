------------------------------ MODULE MCBuddy ------------------------------
(***************************************************************************)
(* Instances of Buddy for TLC, and the index arithmetic of Buddy compared  *)
(* with the bit operations of the code for every frame of a 32-frame range *)
(* and the five orders of the real kernel.                                 *)
(***************************************************************************)
EXTENDS Buddy

Bits == INSTANCE Bitwise

\* page_idx ^ (1 << order) and buddy_idx & page_idx, for aligned page_idx.
ASSUME IndexArithmetic ==
  \A o \in 0 .. 4 : \A k \in 0 .. (31 \div 2^o) :
    LET i == k * 2^o
        b == Bits!^^(i, 2^o)
    IN  /\ BuddyIdx(i, o) = b
        /\ CombinedIdx(i, o) = Bits!&(b, i)
=============================================================================
