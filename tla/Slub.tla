-------------------------------- MODULE Slub --------------------------------
(***************************************************************************)
(* The slub allocator and kmalloc (Lcore-Stage6-03/kern/mm/slub.c) over    *)
(* the pages of the buddy system.  Paging gives them their callers.        *)
(*                                                                         *)
(* A page of a cache is a row of objects, each followed by a link, the     *)
(* address of the next object; the last link is the address of the page,   *)
(* whose first bytes are the slub_head.  Addresses in a page are offsets,  *)
(* so the link that is_bound recognises is 0.                              *)
(*                                                                         *)
(* slub_free is not modelled: line 120 moves the array of all pages.       *)
(* Without it no page gets on a partial list, every page of a cache is     *)
(* cpu.page or on the full list, and the links of a page never change.     *)
(*                                                                         *)
(* kfree(NULL) gives page 0, which is the kernel's, to the buddy system.   *)
(* kmalloc may then return page 0, which its callers take for NULL.  When  *)
(* slub makes it a page of a cache it overwrites the kernel; what happens  *)
(* from then on is not modelled.                                           *)
(***************************************************************************)
EXTENDS Integers, Sequences, FiniteSets

CONSTANTS
  NBlocks,     \* blocks of pages the buddy system has
  PAGE_SIZE,
  Sizes        \* the sizes init_slub makes a cache for

ASSUME SlubAssumption ==
  /\ NBlocks \in Nat
  /\ PAGE_SIZE \in Nat \ {0}
  /\ Sizes \subseteq 8 .. PAGE_SIZE \div 2

VARIABLES
  pool,       \* the blocks of the buddy system, the next one to be handed out first
  up,         \* FALSE when the kernel has called die, or has overwritten its page 0
  cpu,        \* cpu[c]: page and freeobj, the object whose link is the next one
  full,       \* full[c]: the list of used up pages
  slubhead,   \* slubhead[b]: the cache of page b, its nr_objs and private
  objects     \* the objects callers have

slubVars == <<cpu, full, slubhead, objects>>

Blocks == 1 .. NBlocks
NULL   == 0            \* no block, or page 0

-----------------------------------------------------------------------------
(* The buddy system as its callers here see it.  A block is of the size    *)
(* that was asked for; the last one returned is the next one handed out.   *)

NoMemory       == pool = <<>>
TakeBlocks(n)  == pool' = SubSeq(pool, n + 1, Len(pool))

die == up' = FALSE

-----------------------------------------------------------------------------
(* kmalloc of a block, and kfree of one, which has no test for NULL.       *)

ReturnsNull == ~NoMemory => Head(pool) = NULL

\* The blocks left when kmalloc returns NULL: page 0 has been taken if that is why.
Left == IF NoMemory THEN pool ELSE Tail(pool)

kfree(b, blocks) == <<b>> \o blocks

-----------------------------------------------------------------------------
WordSize == 4
HeadSize == 8          \* sizeof(struct slub_head)

objsize(c) == ((c + WordSize - 1) \div WordSize) * WordSize
size(c)    == objsize(c) + WordSize

\* The link format_slubpage writes behind object obj, which is the next object
\* if that fits into the page.
NextObj(c, obj) == IF obj + 2 * size(c) <= PAGE_SIZE THEN obj + size(c) ELSE 0

NoPage == [page |-> NULL, freeobj |-> 0]

\* What slub_alloc finds to hand out on the page of the cache.
Candidate(c) == IF cpu[c].page = NULL THEN 0 ELSE NextObj(c, cpu[c].freeobj)

\* The full list after lines 81-83: the page has nothing left and goes there.
Retired(c) == IF cpu[c].page = NULL THEN full[c] ELSE Append(full[c], cpu[c].page)

\* Mutant of HandOut: init_kmem_cpu left out.
HandOutKept(c, p, obj, nr, list) ==
  LET next == NextObj(c, obj) IN
  /\ slubhead' = [slubhead EXCEPT ![p] = [cache |-> c, nr_objs |-> nr + 1, private |-> next]]
  /\ objects' = objects \cup {[cache |-> c, page |-> p, at |-> obj]}
  /\ full' = [full EXCEPT ![c] = IF next = 0 THEN Append(list, p) ELSE list]
  /\ cpu' = [cpu EXCEPT ![c] = [page |-> p, freeobj |-> obj]]

\* Lines 92-101: object obj of page p, which has handed out nr, is taken, and
\* a page whose last object this was is put on the full list.
HandOut(c, p, obj, nr, list) ==
  LET next == NextObj(c, obj) IN
  /\ slubhead' = [slubhead EXCEPT ![p] = [cache |-> c, nr_objs |-> nr + 1, private |-> next]]
  /\ objects' = objects \cup {[cache |-> c, page |-> p, at |-> obj]}
  /\ full' = [full EXCEPT ![c] = IF next = 0 THEN Append(list, p) ELSE list]
  /\ cpu' = [cpu EXCEPT ![c] = IF next = 0 THEN NoPage ELSE [page |-> p, freeobj |-> obj]]

\* The page in use has an object.
AllocHere(c) ==
  /\ Candidate(c) # 0
  /\ HandOut(c, cpu[c].page, Candidate(c), slubhead[cpu[c].page].nr_objs, full[c])
  /\ UNCHANGED <<pool, up>>

\* A new page is formatted.
AllocNew(c) ==
  /\ Candidate(c) = 0 /\ ~ReturnsNull
  /\ NextObj(c, 0) # 0
  /\ TakeBlocks(1)
  /\ HandOut(c, Head(pool), NextObj(c, 0), 0, Retired(c))
  /\ UNCHANGED up

HasPage0 == \E k \in 1 .. Len(pool) : pool[k] = NULL

\* Page 0 is formatted, at once or when the pages before it have been used up.
AllocNull(c) ==
  /\ Candidate(c) = 0 /\ HasPage0
  /\ NextObj(c, 0) = 0 \/ Head(pool) = NULL
  /\ up' = FALSE
  /\ UNCHANGED <<pool, slubVars>>

\* Two objects do not fit into a page: its only one is where the slub_head is,
\* so each new page is found used up, until there are no more.
AllocDrains(c) ==
  /\ Candidate(c) = 0 /\ ~NoMemory /\ ~HasPage0
  /\ NextObj(c, 0) = 0
  /\ TakeBlocks(Len(pool))
  /\ slubhead' = [b \in Blocks |-> IF \E k \in 1 .. Len(pool) : pool[k] = b
                                   THEN [cache |-> c, nr_objs |-> 0, private |-> 0]
                                   ELSE slubhead[b]]
  /\ full' = [full EXCEPT ![c] = Retired(c) \o pool]
  /\ cpu' = [cpu EXCEPT ![c] = [page |-> pool[Len(pool)], freeobj |-> 0]]
  /\ die
  /\ UNCHANGED objects

AllocDies(c) ==
  /\ Candidate(c) = 0 /\ NoMemory
  /\ full' = [full EXCEPT ![c] = Retired(c)]
  /\ die
  /\ UNCHANGED <<pool, cpu, slubhead, objects>>

slub_alloc(c) == AllocHere(c) \/ AllocNew(c) \/ AllocNull(c) \/ AllocDrains(c) \/ AllocDies(c)

-----------------------------------------------------------------------------
\* init_slub, and the buddy system as init_buddy leaves it.
SlubInit ==
  /\ pool = [k \in Blocks |-> k]
  /\ up = TRUE
  /\ cpu = [c \in Sizes |-> NoPage]
  /\ full = [c \in Sizes |-> <<>>]
  /\ slubhead = [b \in Blocks |-> [cache |-> NULL, nr_objs |-> 0, private |-> 0]]
  /\ objects = {}

-----------------------------------------------------------------------------
\* The bytes of an object with its link.
Bytes(o) == o.at .. o.at + size(o.cache) - 1

\* Objects are inside their page, behind its slub_head, and apart from each
\* other; a page has handed out as many as its nr_objs says, and belongs to the
\* cache of all its objects.
ObjectsApart ==
  /\ \A o \in objects : Bytes(o) \subseteq HeadSize .. PAGE_SIZE - 1
  /\ \A o, q \in objects : o.page = q.page /\ o # q => Bytes(o) \cap Bytes(q) = {}
  /\ \A b \in Blocks : LET mine == {o \in objects : o.page = b} IN
       /\ slubhead[b].nr_objs = Cardinality(mine)
       /\ \A o \in mine : o.cache = slubhead[b].cache
=============================================================================
