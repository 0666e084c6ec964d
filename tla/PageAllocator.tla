--------------------------- MODULE PageAllocator ---------------------------
(***************************************************************************)
(* What a page allocator promises to the kernel threads that call it,      *)
(* without free lists, splitting, merging or a lock.  A caller asks for a  *)
(* block of 2^order contiguous, naturally aligned page frames.  It is      *)
(* given one that nobody else has, or it is refused, and it is refused     *)
(* only when no such block exists at all.  Module Buddy implements this    *)
(* specification.                                                          *)
(***************************************************************************)
EXTENDS Naturals

CONSTANTS
  Procs,        \* the threads of control that call the allocator
  NPages,       \* the managed frames are 0 .. NPages - 1
  MaxOrder,     \* the largest order the allocator serves
  MaxRequest    \* the largest order a caller asks for

Frames == 0 .. NPages - 1
Block  == [page : Frames, order : 0 .. MaxOrder]

\* The frames block b consists of.
Span(b) == b.page .. b.page + 2^b.order - 1

Idle       == [op |-> "idle"]
Asking(o)  == [op |-> "alloc", order |-> o]
Returning(b) == [op |-> "free", block |-> b]

VARIABLES
  held,   \* the blocks handed out and not given back
  call    \* call[p]: what p has asked for and not got an answer to

vars == <<held, call>>

\* A frame is taken while its block is held or its return is under way.
Taken == UNION ({Span(b) : b \in held}
                \cup {Span(call[p].block) : p \in {q \in Procs : call[q].op = "free"}})

\* The blocks of order o that could be handed out.
Available(o) ==
  {b \in Block : /\ b.order = o
                 /\ b.page % 2^o = 0
                 /\ Span(b) \subseteq Frames \ Taken}

\* At boot every frame is still in the hands of the boot allocator.
Init == /\ held = {[page |-> i, order |-> 0] : i \in Frames}
        /\ call = [p \in Procs |-> Idle]

Ask(p, o) == /\ call[p] = Idle
             /\ call' = [call EXCEPT ![p] = Asking(o)]
             /\ UNCHANGED held

Grant(p) == /\ call[p].op = "alloc"
            /\ \E b \in Available(call[p].order) : held' = held \cup {b}
            /\ call' = [call EXCEPT ![p] = Idle]

Refuse(p) == /\ call[p].op = "alloc"
             /\ Available(call[p].order) = {}
             /\ call' = [call EXCEPT ![p] = Idle]
             /\ UNCHANGED held

GiveBack(p, b) == /\ call[p] = Idle
                  /\ b \in held
                  /\ held' = held \ {b}
                  /\ call' = [call EXCEPT ![p] = Returning(b)]

Absorb(p) == /\ call[p].op = "free"
             /\ call' = [call EXCEPT ![p] = Idle]
             /\ UNCHANGED held

Next == \E p \in Procs :
          \/ \E o \in 0 .. MaxRequest : Ask(p, o)
          \/ Grant(p)
          \/ Refuse(p)
          \/ \E b \in held : GiveBack(p, b)
          \/ Absorb(p)

Spec == Init /\ [][Next]_vars
=============================================================================
