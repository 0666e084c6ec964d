------------------------------- MODULE Buddy -------------------------------
(***************************************************************************)
(* The buddy system of chapter 6 (Lcore-Stage6-02/kern/mm/buddy.c):        *)
(* init_buddy, free_pages and alloc_pages, with one action per iteration   *)
(* of their loops, so that several kernel threads may be inside them at    *)
(* once and meet at buddy.lock.                                            *)
(*                                                                         *)
(* A frame is named by its index from buddy.start_page, the page_idx of    *)
(* the code.  The range is aligned on both sides to 2^MAX_BUDDY_ORDER.     *)
(***************************************************************************)
EXTENDS Integers, Sequences

CONSTANTS
  Procs,             \* the threads of control that call the allocator
  Boot,              \* the one that runs init_buddy
  NoProc,            \* the value of a lock nobody holds
  NPages,            \* buddy_end_pfn - buddy_start_pfn
  MAX_BUDDY_ORDER,
  MaxRequest         \* the largest order a caller asks for

Frames == 0 .. NPages - 1
Orders == 0 .. MAX_BUDDY_ORDER
Block  == [page : Frames, order : Orders]

ASSUME ProcsAssumption == Boot \in Procs /\ NoProc \notin Procs

\* buddy_start_pfn and buddy_end_pfn are multiples of 1 << MAX_BUDDY_ORDER.
ASSUME RangeAssumption ==
  /\ MAX_BUDDY_ORDER \in Nat /\ MaxRequest \in Nat /\ NPages \in Nat
  /\ \A o \in Orders : \E n \in 0 .. NPages : NPages = n * 2^o

\* What the shifts 1 << order are: arithmetic the provers have no rule for.
ASSUME ShiftAssumption ==
  /\ 2^0 = 1
  /\ \A o \in Orders : 2^o \in Nat \ {0} /\ 2^(o + 1) = 2 * 2^o

VARIABLES
  freelist,  \* freelist[o]: the frames on buddy.freelist[o], first one first
  nr_free,   \* nr_free[o]: buddy.freelist[o].nr_free
  order,     \* order[i]: what set_order left in the page, NoOrder once cleared
  alloced,   \* the frames whose page has _PAGE_ALLOCED
  lock,      \* who holds buddy.lock
  pc,        \* where each thread is
  arg,       \* arg[p]: the block (or the order) p called with
  cur,       \* cur[p]: the block in p's hands: page_idx and order
  held,      \* the blocks handed out and not given back
  index,     \* the loop variable of init_buddy
  booted     \* init_buddy has returned

lists == <<freelist, nr_free, order>>
vars  == <<freelist, nr_free, order, alloced, lock, pc, arg, cur, held,
           index, booted>>

NoOrder == -1

-----------------------------------------------------------------------------
(* Index arithmetic and the list operations of kern/list.h.                *)

\* page_idx ^ (1 << order)
BuddyIdx(i, o) == IF (i \div 2^o) % 2 = 0 THEN i + 2^o ELSE i - 2^o

\* buddy_idx & page_idx: the two differ in bit o alone
CombinedIdx(i, o) == IF (i \div 2^o) % 2 = 0 THEN i ELSE i - 2^o

list_add(l, x) == <<x>> \o l

list_del(l, x) == LET k == CHOOSE k \in 1 .. Len(l) : l[k] = x
                  IN  SubSeq(l, 1, k - 1) \o SubSeq(l, k + 1, Len(l))

Members(l) == {l[k] : k \in 1 .. Len(l)}

\* The page is on a free list as a block of this order.
is_buddy(i, o) == order[i] = o

\* Mutants of PutFree: without ++nr_free, without set_order.
PutFreeUncounted(i, o) ==
  /\ freelist' = [freelist EXCEPT ![o] = list_add(@, i)]
  /\ order'    = [order EXCEPT ![i] = o]
  /\ UNCHANGED nr_free

PutFreeUnmarked(i, o) ==
  /\ freelist' = [freelist EXCEPT ![o] = list_add(@, i)]
  /\ nr_free'  = [nr_free EXCEPT ![o] = @ + 1]
  /\ UNCHANGED order

\* set_order, list_add and ++nr_free
PutFree(i, o) ==
  /\ freelist' = [freelist EXCEPT ![o] = list_add(@, i)]
  /\ nr_free'  = [nr_free EXCEPT ![o] = @ + 1]
  /\ order'    = [order EXCEPT ![i] = o]

\* list_del_init, --nr_free and clear_order
TakeFree(i, o) ==
  /\ freelist' = [freelist EXCEPT ![o] = list_del(@, i)]
  /\ nr_free'  = [nr_free EXCEPT ![o] = @ - 1]
  /\ order'    = [order EXCEPT ![i] = NoOrder]

-----------------------------------------------------------------------------
Init ==
  /\ freelist = [o \in Orders |-> <<>>]
  /\ nr_free  = [o \in Orders |-> 0]
  /\ order    = [i \in Frames |-> NoOrder]
  /\ alloced  = {}
  /\ lock     = NoProc
  /\ pc       = [p \in Procs |-> "idle"]
  /\ arg      = [p \in Procs |-> [page |-> 0, order |-> 0]]
  /\ cur      = [p \in Procs |-> [page |-> 0, order |-> 0]]
  /\ held     = {[page |-> i, order |-> 0] : i \in Frames}
  /\ index    = 0
  /\ booted   = FALSE

\* Mutant of EnterFree: clean_flag left out.
EnterFreeFlagged(p, b) ==
  /\ pc[p] = "idle"
  /\ b \in held
  /\ held' = held \ {b}
  /\ arg' = [arg EXCEPT ![p] = b]
  /\ cur' = [cur EXCEPT ![p] = b]
  /\ pc' = [pc EXCEPT ![p] = "free_lock"]
  /\ UNCHANGED <<lists, alloced, lock>>

\* The entry of free_pages: clean_flag comes before the lock is taken.
EnterFree(p, b) ==
  /\ pc[p] = "idle"
  /\ b \in held
  /\ held' = held \ {b}
  /\ alloced' = alloced \ {b.page}
  /\ arg' = [arg EXCEPT ![p] = b]
  /\ cur' = [cur EXCEPT ![p] = b]
  /\ pc' = [pc EXCEPT ![p] = "free_lock"]
  /\ UNCHANGED <<lists, lock>>

\* One turn of the loop of init_buddy: free_pages(pages + index, 0).
InitFree ==
  /\ ~booted /\ index < NPages
  /\ EnterFree(Boot, [page |-> index, order |-> 0])
  /\ index' = index + 1
  /\ UNCHANGED booted

InitDone ==
  /\ ~booted /\ index = NPages /\ pc[Boot] = "idle"
  /\ booted' = TRUE
  /\ UNCHANGED <<lists, alloced, lock, pc, arg, cur, held, index>>

CallFree(p, b) == booted /\ EnterFree(p, b) /\ UNCHANGED <<index, booted>>

FreeLock(p) ==
  /\ pc[p] = "free_lock" /\ lock = NoProc
  /\ lock' = p
  /\ pc' = [pc EXCEPT ![p] = "free_loop"]
  /\ UNCHANGED <<lists, alloced, arg, cur, held, index, booted>>

\* Mutant of CanMerge: the loop stops one order too early.
CanMergeEarly(b) == b.order + 1 < MAX_BUDDY_ORDER /\ is_buddy(BuddyIdx(b.page, b.order), b.order)

CanMerge(b) == b.order < MAX_BUDDY_ORDER /\ is_buddy(BuddyIdx(b.page, b.order), b.order)

\* Mutant of FreeMerge: the buddy stays listed and ++order is forgotten.
FreeMergeSpins(p) ==
  /\ pc[p] = "free_loop" /\ CanMerge(cur[p])
  /\ UNCHANGED vars

\* Mutant of FreeMerge: the page stays where it is when the buddy is below it.
FreeMergeStays(p) ==
  /\ pc[p] = "free_loop" /\ CanMerge(cur[p])
  /\ TakeFree(BuddyIdx(cur[p].page, cur[p].order), cur[p].order)
  /\ cur' = [cur EXCEPT ![p].order = @ + 1]
  /\ UNCHANGED <<alloced, lock, pc, arg, held, index, booted>>

\* One turn of the loop of free_pages: the buddy is free, take it along.
FreeMerge(p) ==
  /\ pc[p] = "free_loop" /\ CanMerge(cur[p])
  /\ TakeFree(BuddyIdx(cur[p].page, cur[p].order), cur[p].order)
  /\ cur' = [cur EXCEPT ![p] = [page  |-> CombinedIdx(cur[p].page, cur[p].order),
                                order |-> cur[p].order + 1]]
  /\ UNCHANGED <<alloced, lock, pc, arg, held, index, booted>>

FreeInsert(p) ==
  /\ pc[p] = "free_loop" /\ ~CanMerge(cur[p])
  /\ PutFree(cur[p].page, cur[p].order)
  /\ lock' = NoProc
  /\ pc' = [pc EXCEPT ![p] = "idle"]
  /\ UNCHANGED <<alloced, arg, cur, held, index, booted>>

-----------------------------------------------------------------------------
CallAlloc(p, o) ==
  /\ booted /\ pc[p] = "idle"
  /\ arg' = [arg EXCEPT ![p] = [page |-> 0, order |-> o]]
  /\ pc' = [pc EXCEPT ![p] = "alloc_lock"]
  /\ UNCHANGED <<lists, alloced, lock, cur, held, index, booted>>

\* Mutant of AllocLock: the lists are scanned without waiting for the lock.
AllocLockFree(p) ==
  /\ pc[p] = "alloc_lock"
  /\ cur' = [cur EXCEPT ![p] = arg[p]]
  /\ pc' = [pc EXCEPT ![p] = "alloc_scan"]
  /\ UNCHANGED <<lists, alloced, lock, arg, held, index, booted>>

\* lockup, then current_order = order
AllocLock(p) ==
  /\ pc[p] = "alloc_lock" /\ lock = NoProc
  /\ lock' = p
  /\ cur' = [cur EXCEPT ![p] = arg[p]]
  /\ pc' = [pc EXCEPT ![p] = "alloc_scan"]
  /\ UNCHANGED <<lists, alloced, arg, held, index, booted>>

Empty(o) == freelist[o] = <<>>

AllocScan(p) ==
  /\ pc[p] = "alloc_scan"
  /\ cur[p].order <= MAX_BUDDY_ORDER /\ Empty(cur[p].order)
  /\ cur' = [cur EXCEPT ![p].order = @ + 1]
  /\ UNCHANGED <<lists, alloced, lock, pc, arg, held, index, booted>>

\* Mutant of AllocFail: the return that forgets unlock.
AllocFailLocked(p) ==
  /\ pc[p] = "alloc_scan" /\ cur[p].order > MAX_BUDDY_ORDER
  /\ pc' = [pc EXCEPT ![p] = "idle"]
  /\ UNCHANGED <<lists, alloced, lock, arg, cur, held, index, booted>>

\* No list has a block: unlock and return 0.
AllocFail(p) ==
  /\ pc[p] = "alloc_scan" /\ cur[p].order > MAX_BUDDY_ORDER
  /\ lock' = NoProc
  /\ pc' = [pc EXCEPT ![p] = "idle"]
  /\ UNCHANGED <<lists, alloced, arg, cur, held, index, booted>>

\* found: the first block of the list is taken off it and marked.
AllocFound(p) ==
  /\ pc[p] = "alloc_scan"
  /\ cur[p].order <= MAX_BUDDY_ORDER /\ ~Empty(cur[p].order)
  /\ LET page == freelist[cur[p].order][1]
     IN  /\ TakeFree(page, cur[p].order)
         /\ alloced' = alloced \cup {page}
         /\ cur' = [cur EXCEPT ![p].page = page]
  /\ pc' = [pc EXCEPT ![p] = "alloc_split"]
  /\ UNCHANGED <<lock, arg, held, index, booted>>

\* Mutants of AllocSplit: the lower half is listed, neither half is.
AllocSplitLower(p) ==
  /\ pc[p] = "alloc_split" /\ cur[p].order > arg[p].order
  /\ PutFree(cur[p].page, cur[p].order - 1)
  /\ cur' = [cur EXCEPT ![p].order = @ - 1]
  /\ UNCHANGED <<alloced, lock, pc, arg, held, index, booted>>

AllocSplitDrops(p) ==
  /\ pc[p] = "alloc_split" /\ cur[p].order > arg[p].order
  /\ cur' = [cur EXCEPT ![p].order = @ - 1]
  /\ UNCHANGED <<lists, alloced, lock, pc, arg, held, index, booted>>

\* One turn of the splitting loop: the upper half goes to the next lower list.
AllocSplit(p) ==
  /\ pc[p] = "alloc_split" /\ cur[p].order > arg[p].order
  /\ LET lower == cur[p].order - 1
     IN  /\ PutFree(cur[p].page + 2^lower, lower)
         /\ cur' = [cur EXCEPT ![p].order = lower]
  /\ UNCHANGED <<alloced, lock, pc, arg, held, index, booted>>

AllocReturn(p) ==
  /\ pc[p] = "alloc_split" /\ cur[p].order = arg[p].order
  /\ held' = held \cup {cur[p]}
  /\ lock' = NoProc
  /\ pc' = [pc EXCEPT ![p] = "idle"]
  /\ UNCHANGED <<lists, alloced, arg, cur, index, booted>>

-----------------------------------------------------------------------------
\* What p does on its own once it is inside the allocator.
Step(p) ==
  \/ FreeLock(p) \/ FreeMerge(p) \/ FreeInsert(p)
  \/ AllocLock(p) \/ AllocScan(p) \/ AllocFail(p)
  \/ AllocFound(p) \/ AllocSplit(p) \/ AllocReturn(p)

InitStep == InitFree \/ InitDone

Next ==
  \/ InitStep
  \/ \E p \in Procs : \/ Step(p)
                      \/ \E b \in held : CallFree(p, b)
                      \/ \E o \in 0 .. MaxRequest : CallAlloc(p, o)

Spec == Init /\ [][Next]_vars

\* A thread inside the allocator keeps running: nothing in it waits except
\* on buddy.lock.  Callers need not ever call.
FairSpec == Spec /\ WF_vars(InitStep) /\ \A p \in Procs : WF_vars(Step(p))

-----------------------------------------------------------------------------
(* Where the frames are.  A place is a free list, the callers' hands, or   *)
(* the hands of one thread inside the allocator.                           *)

FreePlace == [kind |-> "free", by |-> NoProc]
HeldPlace == [kind |-> "held", by |-> NoProc]
Hand(p)   == [kind |-> "hand", by |-> p]
Places    == {FreePlace, HeldPlace} \cup {Hand(p) : p \in Procs}

InHand(p) == pc[p] \in {"free_lock", "free_loop", "alloc_split"}

FreeBlocks == UNION {{[page |-> i, order |-> o] : i \in Members(freelist[o])} : o \in Orders}

\* The blocks at a place.
At(pl) == CASE pl.kind = "free" -> FreeBlocks
            [] pl.kind = "held" -> held
            [] pl.kind = "hand" -> IF InHand(pl.by) THEN {cur[pl.by]} ELSE {}

Disjoint(b, c) == b.page + 2^b.order <= c.page \/ c.page + 2^c.order <= b.page

Covers(b, i) == b.page <= i /\ i < b.page + 2^b.order

\* The block starts at a multiple of its size and ends inside the range.
Natural(b) == /\ \E k \in 0 .. b.page : b.page = k * 2^b.order
              /\ b.page + 2^b.order <= NPages

-----------------------------------------------------------------------------
PcValues == {"idle", "free_lock", "free_loop", "alloc_lock", "alloc_scan", "alloc_split"}

\* The types of the variables.
TypeOK ==
  /\ freelist \in [Orders -> Seq(Frames)]
  /\ nr_free \in [Orders -> Nat]
  /\ order \in [Frames -> Orders \cup {NoOrder}]
  /\ alloced \in SUBSET Frames
  /\ lock \in Procs \cup {NoProc}
  /\ pc \in [Procs -> PcValues]
  /\ arg \in [Procs -> [page : Nat, order : Nat]]
  /\ cur \in [Procs -> [page : Nat, order : Nat]]
  /\ held \in SUBSET Block
  /\ index \in 0 .. NPages
  /\ booted \in BOOLEAN

\* No two blocks share a frame, be they free, handed out, or in the hands of
\* a thread inside free_pages or alloc_pages: a frame is never given to two
\* callers, and no list holds a frame somebody uses.
BlocksDisjoint ==
  \A pl, ql \in Places : \A b \in At(pl), c \in At(ql) :
    pl # ql \/ b # c => Disjoint(b, c)

\* Every frame is somewhere: splitting, merging and the early return of
\* alloc_pages lose none.
NoFrameLost ==
  \A i \in Frames : \E pl \in Places : \E b \in At(pl) : Covers(b, i)

\* The order kept in a page, which is all is_buddy looks at, is that of the
\* list the page is on, no page is on a list twice, and nr_free counts.
ListsAgree ==
  /\ \A o \in Orders : \A i \in Frames : order[i] = o <=> i \in Members(freelist[o])
  /\ \A o \in Orders : \A j, k \in 1 .. Len(freelist[o]) :
       freelist[o][j] = freelist[o][k] => j = k
  /\ \A o \in Orders : nr_free[o] = Len(freelist[o])

\* Every block is where a block of its order may be, so that the buddy that
\* free_pages computes is the other half of a block inside the range.
BlocksNatural ==
  \A pl \in Places : \A b \in At(pl) : Natural(b)

\* Merging is eager: two buddies are never both free, which is why
\* alloc_pages may give up once the lists are empty.
NoFreeBuddies ==
  \A o \in Orders \ {MAX_BUDDY_ORDER} : \A i \in Members(freelist[o]) :
    BuddyIdx(i, o) \notin Members(freelist[o])

\* _PAGE_ALLOCED marks the first page of every block a caller has got from
\* alloc_pages and of no other, although free_pages clears it before it
\* takes the lock.
AllocedExact ==
  booted => alloced = {b.page : b \in held}
                      \cup {cur[p].page : p \in {q \in Procs : pc[q] = "alloc_split"}}

\* buddy.lock is held for a bounded number of steps: every path through the
\* allocator, the failing one included, gives it back.
LockReleased == \A p \in Procs : lock = p ~> lock # p

Coalesced == /\ \A o \in Orders \ {MAX_BUDDY_ORDER} : freelist[o] = <<>>
             /\ nr_free[MAX_BUDDY_ORDER] * 2^MAX_BUDDY_ORDER = NPages

\* init_buddy comes to its end, and page by page freeing has then put the whole
\* range on the list of the largest order.
BootFinishes == ~booted ~> booted /\ Coalesced

-----------------------------------------------------------------------------
CallOf(p) ==
  CASE pc[p] = "idle" -> [op |-> "idle"]
    [] pc[p] \in {"free_lock", "free_loop"} -> [op |-> "free", block |-> arg[p]]
    [] OTHER -> [op |-> "alloc", order |-> arg[p].order]

Allocator == INSTANCE PageAllocator
             WITH MaxOrder <- MAX_BUDDY_ORDER, call <- [p \in Procs |-> CallOf(p)]

\* The buddy system is a page allocator: a block it hands out was free, and
\* it refuses an order only if no aligned block of that order is free.
ImplementsAllocator == Allocator!Spec
=============================================================================
