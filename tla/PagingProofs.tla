---------------------------- MODULE PagingProofs ----------------------------
(***************************************************************************)
(* Theorems about Paging: a page fault changes no address of another task, *)
(* for any number of tasks, blocks and addresses.                          *)
(*                                                                         *)
(* Tasks have page tables in common, so what protects them is that         *)
(* do_one_mapping writes into none of those there are: the block it takes  *)
(* is not a table of any task.  PagingInv says so of the blocks that are   *)
(* free and of the one the kernel holds, which may become free again.      *)
(* Page 0, which kfree(NULL) puts among the free blocks, is none of them:  *)
(* it is there once at most, and no step hands it to anyone.               *)
(***************************************************************************)
EXTENDS Paging, TLAPS, SequenceTheorems, FiniteSetTheorems

Pages == Blocks \cup {NULL}

Elems(l)  == {l[k] : k \in 1 .. Len(l)}
OnceIn(l) == \A j, k \in 1 .. Len(l) : l[j] = l[k] => j = k

\* The free blocks, without page 0.
Free == Elems(pool) \ {NULL}

Once == OnceIn(pool)

Entries == {Absent, Code, Page1, Stray}

PagingTypeOK ==
  /\ pool \in Seq(Pages)
  /\ hand \in Blocks \cup {NULL}
  /\ tasks \subseteq Tasks /\ current \in tasks
  /\ pgd \in [Tasks -> [Dirs -> Blocks \cup {NULL}]]
  /\ pt \in [Blocks -> [Ptes -> Entries]]
  /\ miss \in [Tasks -> Vas \cup {NoVa}]

\* Free blocks are free once, and no table; nor is the block the kernel holds.
Fresh ==
  /\ Once
  /\ hand \notin Free
  /\ \A t \in Tasks, d \in Dirs : pgd[t][d] \notin Free /\ (pgd[t][d] = hand => hand = NULL)

\* Where the kernel is, a fault has an address and a block.
Handling ==
  /\ at \in {"new_page", "add_vmas", "map"} => miss[current] \in Vas
  /\ up /\ at \in {"add_vmas", "fork_pgd"} => hand # NULL
  /\ at \in {"init_vma", "init_map"} => current = init

PagingInv == PagingTypeOK /\ Fresh /\ Handling

-----------------------------------------------------------------------------
(* What the calls of the buddy system do to the free blocks.               *)

\* A step that neither takes nor returns a block, though perhaps page 0, and one
\* that returns the block the kernel has.
SameFree == pool' \in Seq(Pages) /\ Once' /\ Free' = Free
Returned == pool' \in Seq(Pages) /\ Once' /\ Free' = Free \cup {hand}

LEMMA FreeBlocks ==
  ASSUME pool \in Seq(Pages)
  PROVE  Free \subseteq Blocks /\ NULL \notin Free
<1>1. \A k \in 1 .. Len(pool) : pool[k] \in Pages
  OBVIOUS
<1> QED
  BY <1>1 DEF Free, Elems, Pages

\* The first element goes, which is no other.
LEMMA TailElems ==
  ASSUME NEW l \in Seq(Pages), OnceIn(l), l # <<>>
  PROVE  /\ Tail(l) \in Seq(Pages) /\ OnceIn(Tail(l)) /\ Elems(Tail(l)) = Elems(l) \ {Head(l)}
         /\ Head(l) \in Elems(l) /\ Head(l) \in Pages
<1> DEFINE r == Tail(l)
<1>1. /\ Len(l) \in Nat \ {0} /\ Head(l) = l[1]
      /\ \A k \in 1 .. Len(l) : l[k] \in Pages
  OBVIOUS
<1>2. /\ r \in Seq(Pages) /\ Len(r) = Len(l) - 1
      /\ \A k \in 1 .. Len(r) : r[k] = l[k + 1]
  BY <1>1, HeadTailProperties
<1> HIDE DEF r
<1>3. OnceIn(r)
  <2> SUFFICES ASSUME NEW j \in 1 .. Len(r), NEW k \in 1 .. Len(r), r[j] = r[k]
               PROVE  j = k
    BY DEF OnceIn
  <2>1. j + 1 \in 1 .. Len(l) /\ k + 1 \in 1 .. Len(l) /\ l[j + 1] = l[k + 1]
    BY <1>1, <1>2
  <2>2. j + 1 = k + 1
    BY <2>1 DEF OnceIn
  <2> QED
    BY <1>2, <2>2
<1>4. Elems(r) = Elems(l) \ {Head(l)}
  <2>1. ASSUME NEW b \in Elems(r) PROVE b \in Elems(l) \ {Head(l)}
    <3>1. PICK k \in 1 .. Len(r) : r[k] = b
      BY DEF Elems
    <3>2. k + 1 \in 1 .. Len(l) /\ k + 1 # 1 /\ l[k + 1] = b
      BY <1>1, <1>2, <3>1
    <3> QED
      BY <1>1, <3>2 DEF Elems, OnceIn
  <2>2. ASSUME NEW b \in Elems(l) \ {Head(l)} PROVE b \in Elems(r)
    <3>1. PICK k \in 1 .. Len(l) : l[k] = b
      BY DEF Elems
    <3>2. k - 1 \in 1 .. Len(r) /\ (k - 1) + 1 = k
      BY <1>1, <1>2, <3>1
    <3> QED
      BY <1>2, <3>1, <3>2 DEF Elems
  <2> QED
    BY <2>1, <2>2
<1>5. Head(l) \in Elems(l) /\ Head(l) \in Pages
  BY <1>1 DEF Elems
<1> QED
  BY <1>2, <1>3, <1>4, <1>5 DEF r

\* What is freed comes in front, and is there once if it was not there.
LEMMA Freed ==
  ASSUME NEW l \in Seq(Pages), OnceIn(l), NEW b \in Pages, b \notin Elems(l)
  PROVE  /\ kfree(b, l) \in Seq(Pages) /\ OnceIn(kfree(b, l))
         /\ Elems(kfree(b, l)) = Elems(l) \cup {b}
<1> DEFINE r == kfree(b, l)
<1>1. Len(l) \in Nat
  OBVIOUS
<1>2. /\ r \in Seq(Pages) /\ Len(r) = Len(l) + 1 /\ r[1] = b
      /\ \A k \in 1 .. Len(l) : r[k + 1] = l[k]
  BY DEF kfree
<1> HIDE DEF r
<1>3. \A k \in 1 .. Len(r) :
        \/ k = 1
        \/ k - 1 \in 1 .. Len(l) /\ r[k] = l[k - 1] /\ r[k] \in Elems(l)
  <2>1. ASSUME NEW k \in 1 .. Len(r), k # 1
        PROVE  k - 1 \in 1 .. Len(l) /\ (k - 1) + 1 = k
    BY <1>1, <1>2, <2>1
  <2> QED
    BY <1>2, <2>1 DEF Elems
<1>4. OnceIn(r)
  <2> SUFFICES ASSUME NEW j \in 1 .. Len(r), NEW k \in 1 .. Len(r), r[j] = r[k]
               PROVE  j = k
    BY DEF OnceIn
  <2>1. CASE j = 1 \/ k = 1
    BY <1>2, <1>3, <2>1
  <2>2. CASE j # 1 /\ k # 1
    <3>1. j - 1 = k - 1
      BY <1>3, <2>2 DEF OnceIn
    <3> QED
      BY <3>1
  <2> QED
    BY <2>1, <2>2
<1>5. Elems(r) = Elems(l) \cup {b}
  <2>1. ASSUME NEW c \in Elems(r) PROVE c \in Elems(l) \cup {b}
    <3>1. PICK k \in 1 .. Len(r) : r[k] = c
      BY DEF Elems
    <3> QED
      BY <1>2, <1>3, <3>1
  <2>2. ASSUME NEW c \in Elems(l) PROVE c \in Elems(r)
    <3>1. PICK k \in 1 .. Len(l) : l[k] = c
      BY DEF Elems
    <3>2. k + 1 \in 1 .. Len(r) /\ r[k + 1] = c
      BY <1>1, <1>2, <3>1
    <3> QED
      BY <3>2 DEF Elems
  <2>3. b \in Elems(r)
    <3>1. 1 \in 1 .. Len(r)
      BY <1>1, <1>2
    <3> QED
      BY <1>2, <3>1 DEF Elems
  <2> QED
    BY <2>1, <2>2, <2>3
<1> QED
  BY <1>2, <1>4, <1>5 DEF r

\* The block taken is free no more, and no other.
LEMMA TakeOne ==
  ASSUME pool \in Seq(Pages), Once, ~ReturnsNull, TakeBlocks(1)
  PROVE  /\ Head(pool) \in Free /\ Head(pool) \in Blocks
         /\ pool' \in Seq(Pages) /\ Once' /\ Free' = Free \ {Head(pool)}
<1>1. pool # <<>> /\ Head(pool) # NULL
  BY DEF ReturnsNull, NoMemory
<1>2. pool' = Tail(pool)
  BY <1>1, TailIsSubSeq DEF TakeBlocks
<1>3. /\ Tail(pool) \in Seq(Pages) /\ OnceIn(Tail(pool))
      /\ Elems(Tail(pool)) = Elems(pool) \ {Head(pool)}
      /\ Head(pool) \in Elems(pool) /\ Head(pool) \in Pages
  BY <1>1, TailElems DEF Once
<1> QED
  BY <1>1, <1>2, <1>3 DEF Free, Once, Pages

\* A kmalloc that returns NULL leaves the free blocks as they are.
LEMMA LeftFacts ==
  ASSUME pool \in Seq(Pages), Once, ReturnsNull
  PROVE  Left \in Seq(Pages) /\ OnceIn(Left) /\ Elems(Left) = Free
<1>1. CASE pool = <<>>
  <2>1. 1 .. Len(pool) = {}
    BY <1>1
  <2> QED
    BY <1>1, <2>1 DEF Left, NoMemory, Free, Elems, OnceIn
<1>2. CASE pool # <<>>
  <2>1. Head(pool) = NULL /\ Left = Tail(pool)
    BY <1>2 DEF ReturnsNull, Left, NoMemory
  <2> QED
    BY <1>2, <2>1, TailElems DEF Free, Once
<1> QED
  BY <1>1, <1>2

\* So it does when its result is freed.
LEMMA NullTaken ==
  ASSUME pool \in Seq(Pages), Once, ReturnsNull, pool' = Left \/ pool' = kfree(NULL, Left)
  PROVE  SameFree
<1>1. Left \in Seq(Pages) /\ OnceIn(Left) /\ Elems(Left) = Free /\ NULL \notin Free
  BY LeftFacts, FreeBlocks
<1>2. CASE pool' = Left
  BY <1>1, <1>2 DEF SameFree, Once, Free
<1>3. CASE pool' = kfree(NULL, Left)
  <2>1. /\ kfree(NULL, Left) \in Seq(Pages) /\ OnceIn(kfree(NULL, Left))
        /\ Elems(kfree(NULL, Left)) = Elems(Left) \cup {NULL}
    BY <1>1, Freed DEF Pages
  <2>2. Once' /\ Free' = Elems(kfree(NULL, Left)) \ {NULL}
    BY <1>3, <2>1 DEF Once, Free
  <2> QED
    BY <1>1, <1>3, <2>1, <2>2 DEF SameFree
<1> QED
  BY <1>2, <1>3

\* The block returned is free again, after a NULL that was freed or without one.
LEMMA GiveBack ==
  ASSUME pool \in Seq(Pages), Once, hand \in Blocks, hand \notin Free,
         \/ pool' = kfree(hand, pool)
         \/ ReturnsNull /\ pool' = kfree(hand, kfree(NULL, Left))
  PROVE  Returned
<1>1. hand # NULL /\ hand \in Pages
  BY SlubAssumption DEF Blocks, NULL, Pages
<1>2. PICK l \in Seq(Pages) : /\ OnceIn(l) /\ Elems(l) \ {NULL} = Free
                              /\ pool' = kfree(hand, l)
  <2>1. CASE pool' = kfree(hand, pool)
    BY <2>1 DEF Once, Free
  <2>2. CASE ReturnsNull /\ pool' = kfree(hand, kfree(NULL, Left))
    <3>1. Left \in Seq(Pages) /\ OnceIn(Left) /\ Elems(Left) = Free /\ NULL \notin Free
      BY <2>2, LeftFacts, FreeBlocks
    <3>2. /\ kfree(NULL, Left) \in Seq(Pages) /\ OnceIn(kfree(NULL, Left))
          /\ Elems(kfree(NULL, Left)) = Elems(Left) \cup {NULL}
      BY <3>1, Freed DEF Pages
    <3> QED
      BY <2>2, <3>1, <3>2
  <2> QED
    BY <2>1, <2>2
<1>3. hand \notin Elems(l)
  BY <1>1, <1>2
<1>4. /\ kfree(hand, l) \in Seq(Pages) /\ OnceIn(kfree(hand, l))
      /\ Elems(kfree(hand, l)) = Elems(l) \cup {hand}
  BY <1>1, <1>2, <1>3, Freed
<1>5. Once' /\ Free' = Elems(kfree(hand, l)) \ {NULL}
  BY <1>2, <1>4 DEF Once, Free
<1> QED
  BY <1>1, <1>2, <1>4, <1>5 DEF Returned

\* slub_alloc takes blocks and gives none back.
LEMMA SlubTakes ==
  ASSUME pool \in Seq(Pages), Once, NEW c \in Sizes, slub_alloc(c)
  PROVE  pool' \in Seq(Pages) /\ Once' /\ Free' \subseteq Free
<1>1. CASE AllocHere(c) \/ AllocDies(c) \/ AllocNull(c)
  BY <1>1 DEF AllocHere, AllocDies, AllocNull, Once, Free
<1>2. CASE AllocNew(c)
  BY <1>2, TakeOne DEF AllocNew
<1>3. CASE AllocDrains(c)
  <2>1. pool' = <<>>
    BY <1>3 DEF AllocDrains, TakeBlocks
  <2> QED
    BY <2>1 DEF Once, OnceIn, Free, Elems
<1> QED
  BY <1>1, <1>2, <1>3 DEF slub_alloc

-----------------------------------------------------------------------------
\* do_one_mapping leaves the tables of all tasks as they are, and takes one entry
\* of one directory from one table to another.
LEMMA MappingFacts ==
  ASSUME PagingTypeOK, Fresh, NEW t \in Tasks, NEW va \in Vas, NEW pa \in Entries,
         do_one_mapping(t, va, pa)
  PROVE  /\ pool' \in Seq(Pages) /\ Once' /\ Free' = Free \ {Head(pool)}
         /\ Head(pool) \in Free /\ Head(pool) \in Blocks
         /\ pgd' = [pgd EXCEPT ![t][va[1]] = Head(pool)]
         /\ pt' \in [Blocks -> [Ptes -> Entries]]
         /\ \A b \in Blocks \ {Head(pool)} : pt'[b] = pt[b]
<1>1. /\ pool' \in Seq(Pages) /\ Once' /\ Free' = Free \ {Head(pool)}
      /\ Head(pool) \in Free /\ Head(pool) \in Blocks
  BY TakeOne DEF PagingTypeOK, Fresh, do_one_mapping
<1>2. PICK rest \in [Ptes -> {Absent, Stray}] :
        pt' = [pt EXCEPT ![Head(pool)] = [rest EXCEPT ![va[2]] = pa]]
  BY DEF do_one_mapping
<1>3. [rest EXCEPT ![va[2]] = pa] \in [Ptes -> Entries]
  BY DEF Entries
<1> QED
  BY <1>1, <1>2, <1>3 DEF PagingTypeOK, do_one_mapping

\* Then it keeps the invariant, whether or not the kernel has used its block.
LEMMA MappingKeeps ==
  ASSUME PagingTypeOK, Fresh, NEW t \in Tasks, NEW va \in Vas, NEW pa \in Entries,
         do_one_mapping(t, va, pa), hand' \in {hand, NULL}, UNCHANGED <<tasks, current, miss>>
  PROVE  PagingTypeOK' /\ Fresh'
<1>1. /\ pool' \in Seq(Pages) /\ Once' /\ Free' = Free \ {Head(pool)}
      /\ Head(pool) \in Free /\ Head(pool) \in Blocks
      /\ pgd' = [pgd EXCEPT ![t][va[1]] = Head(pool)]
      /\ pt' \in [Blocks -> [Ptes -> Entries]]
  BY MappingFacts
<1>2. NULL \notin Free /\ va[1] \in Dirs
  BY FreeBlocks DEF PagingTypeOK, Vas
<1>3. PagingTypeOK'
  BY <1>1, <1>2 DEF PagingTypeOK
<1>4. \A u \in Tasks, d \in Dirs :
        pgd'[u][d] = IF u = t /\ d = va[1] THEN Head(pool) ELSE pgd[u][d]
  BY <1>1, <1>2 DEF PagingTypeOK
<1>5. Fresh'
  BY <1>1, <1>2, <1>4 DEF Fresh
<1> QED
  BY <1>3, <1>5

\* The kernel gets a block from kmalloc.
LEMMA BlockTaken ==
  ASSUME PagingTypeOK, Fresh, ~ReturnsNull, TakeBlocks(1), hand' = Head(pool),
         UNCHANGED <<tasks, current, pgd, pt>>
  PROVE  /\ Fresh' /\ hand' # NULL
         /\ miss' \in [Tasks -> Vas \cup {NoVa}] => PagingTypeOK'
<1>1. /\ Head(pool) \in Free /\ Head(pool) \in Blocks
      /\ pool' \in Seq(Pages) /\ Once' /\ Free' = Free \ {Head(pool)}
  BY TakeOne DEF PagingTypeOK, Fresh
<1>2. NULL \notin Free
  BY FreeBlocks DEF PagingTypeOK
<1> QED
  BY <1>1, <1>2 DEF PagingTypeOK, Fresh

\* It gives it back.
LEMMA BlockReturned ==
  ASSUME PagingTypeOK, Fresh, hand # NULL, hand' = NULL,
         \/ pool' = kfree(hand, pool)
         \/ ReturnsNull /\ pool' = kfree(hand, kfree(NULL, Left)),
         UNCHANGED <<tasks, current, pgd, pt, miss>>
  PROVE  PagingTypeOK' /\ Fresh'
<1>1. hand \in Blocks /\ hand \notin Free
  BY DEF PagingTypeOK, Fresh
<1>2. pool' \in Seq(Pages) /\ Once' /\ Free' = Free \cup {hand}
  BY <1>1, GiveBack DEF PagingTypeOK, Fresh, Returned
<1>3. NULL \notin Free
  BY FreeBlocks DEF PagingTypeOK
<1> QED
  BY <1>2, <1>3 DEF PagingTypeOK, Fresh

\* Slub takes pages.
LEMMA SlubKeeps ==
  ASSUME PagingTypeOK, Fresh, NEW c \in Sizes, slub_alloc(c),
         UNCHANGED <<hand, tasks, current, pgd, pt, miss>>
  PROVE  PagingTypeOK' /\ Fresh'
<1>1. pool' \in Seq(Pages) /\ Once' /\ Free' \subseteq Free
  BY SlubTakes DEF PagingTypeOK, Fresh
<1> QED
  BY <1>1 DEF PagingTypeOK, Fresh

-----------------------------------------------------------------------------
LEMMA PagingInitInv == Init => PagingInv
<1> SUFFICES ASSUME Init PROVE PagingInv
  OBVIOUS
<1>1. /\ pool \in Seq(Pages) /\ Len(pool) = NBlocks /\ \A k \in 1 .. NBlocks : pool[k] = k
  BY SlubAssumption DEF Init, SlubInit, Blocks, Pages
<1>2. PagingTypeOK
  BY <1>1, PagingAssumption DEF Init, PagingTypeOK, Entries
<1>3. Fresh
  <2>1. Once
    BY <1>1 DEF Once, OnceIn
  <2>2. hand = NULL /\ \A t \in Tasks, d \in Dirs : pgd[t][d] = NULL
    BY DEF Init
  <2> QED
    BY <1>1, <2>1, <2>2, FreeBlocks DEF Fresh
<1>4. Handling
  BY DEF Init, Handling
<1> QED
  BY <1>2, <1>3, <1>4 DEF PagingInv

LEMMA PoolKept ==
  ASSUME PagingInv, UNCHANGED pool
  PROVE  SameFree
<1> QED
  BY DEF PagingInv, PagingTypeOK, Fresh, Once, Free, SameFree

\* Steps that touch neither blocks nor tables.
LEMMA QuietStep ==
  ASSUME PagingInv, UNCHANGED pool \/ SameFree, UNCHANGED <<hand, tasks, pgd, pt>>,
         current' \in tasks, miss' \in [Tasks -> Vas \cup {NoVa}]
  PROVE  PagingTypeOK' /\ Fresh'
<1>1. SameFree
  BY PoolKept
<1> QED
  BY <1>1 DEF PagingInv, PagingTypeOK, Fresh, SameFree

LEMMA InitTaskStep ==
  ASSUME PagingInv, InitVma \/ InitMap
  PROVE  PagingInv'
<1>1. CASE InitVma
  <2>1. PagingTypeOK' /\ Fresh'
    BY <1>1, SlubKeeps, PagingAssumption DEF PagingInv, InitVma, taskVars, tableVars
  <2>2. Handling'
    BY <1>1 DEF PagingInv, Handling, InitVma, taskVars
  <2> QED
    BY <2>1, <2>2 DEF PagingInv
<1>2. CASE InitMap
  <2>1. PagingTypeOK' /\ Fresh'
    <3>1. init \in Tasks /\ CodeVa \in Vas /\ Code \in Entries
      BY PagingAssumption DEF Vas, Entries
    <3>2. UNCHANGED <<tasks, current, miss, hand>>
      BY <1>2 DEF InitMap, taskVars
    <3>3. CASE do_one_mapping(init, CodeVa, Code)
      BY <3>1, <3>2, <3>3, MappingKeeps DEF PagingInv
    <3>4. CASE ReturnsNull /\ pool' = Left /\ UNCHANGED <<pgd, pt>>
      <4>1. SameFree
        BY <3>4, NullTaken DEF PagingInv, PagingTypeOK, Fresh
      <4> QED
        BY <3>2, <3>4, <4>1, QuietStep DEF PagingInv, PagingTypeOK
    <3> QED
      BY <1>2, <3>3, <3>4 DEF InitMap
  <2>2. Handling'
    BY <1>2 DEF Handling, InitMap
  <2> QED
    BY <2>1, <2>2 DEF PagingInv
<1> QED
  BY <1>1, <1>2

\* What users do, except forks.
LEMMA UserStep ==
  ASSUME PagingInv,
         \/ \E va \in Vas : MissHeap(va) \/ MissCode(va) \/ do_copyonwrite(va)
         \/ Resume
         \/ \E c \in Sizes : Kmalloc(c)
         \/ \E t \in tasks : SwitchTo(t)
  PROVE  PagingInv'
<1>1. current \in Tasks /\ miss \in [Tasks -> Vas \cup {NoVa}]
  BY DEF PagingInv, PagingTypeOK
<1>2. ASSUME NEW va \in Vas, MissHeap(va) PROVE PagingInv'
  <2>1. /\ UNCHANGED <<pool, hand, tasks, pgd, pt, current>> /\ at' = "new_page"
        /\ miss' = [miss EXCEPT ![current] = va]
    BY <1>2 DEF MissHeap, taskVars, tableVars
  <2>2. miss' \in [Tasks -> Vas \cup {NoVa}] /\ miss'[current'] = va
    BY <1>1, <2>1
  <2>3. PagingTypeOK' /\ Fresh'
    BY <2>1, <2>2, QuietStep DEF PagingInv, PagingTypeOK
  <2> QED
    BY <2>1, <2>2, <2>3 DEF PagingInv, Handling
<1>3. ASSUME NEW va \in Vas, MissCode(va) \/ do_copyonwrite(va) PROVE PagingInv'
  <2>1. UNCHANGED <<pool, hand, tasks, pgd, pt, current, miss, at>> /\ up' = FALSE
    BY <1>3 DEF MissCode, do_copyonwrite, taskVars, tableVars, die
  <2>2. PagingTypeOK' /\ Fresh'
    BY <1>1, <2>1, QuietStep DEF PagingInv, PagingTypeOK
  <2> QED
    BY <2>1, <2>2 DEF PagingInv, Handling
<1>4. CASE Resume
  <2>1. /\ UNCHANGED <<pool, hand, tasks, pgd, pt, current, at>> /\ at = "user"
        /\ miss' = [miss EXCEPT ![current] = NoVa]
    BY <1>4 DEF Resume, taskVars, tableVars
  <2>2. miss' \in [Tasks -> Vas \cup {NoVa}]
    BY <1>1, <2>1
  <2>3. PagingTypeOK' /\ Fresh'
    BY <2>1, <2>2, QuietStep DEF PagingInv, PagingTypeOK
  <2> QED
    BY <2>1, <2>3 DEF PagingInv, Handling
<1>5. ASSUME NEW c \in Sizes, Kmalloc(c) PROVE PagingInv'
  <2>1. PagingTypeOK' /\ Fresh'
    BY <1>5, SlubKeeps DEF PagingInv, Kmalloc, taskVars, tableVars
  <2>2. Handling'
    BY <1>5 DEF Handling, Kmalloc
  <2> QED
    BY <2>1, <2>2 DEF PagingInv
<1>6. ASSUME NEW t \in tasks, SwitchTo(t) PROVE PagingInv'
  <2>1. UNCHANGED <<pool, hand, tasks, pgd, pt, miss, at>> /\ at = "user" /\ current' = t
    BY <1>6 DEF SwitchTo, tableVars
  <2>2. PagingTypeOK' /\ Fresh'
    BY <1>1, <2>1, QuietStep
  <2> QED
    BY <2>1, <2>2 DEF PagingInv, Handling
<1> QED
  BY <1>2, <1>3, <1>4, <1>5, <1>6

\* The parts of a page fault.
LEMMA FaultStep ==
  ASSUME PagingInv, up, Fault
  PROVE  PagingInv'
<1>1. current \in Tasks /\ current \in tasks /\ miss \in [Tasks -> Vas \cup {NoVa}]
  BY DEF PagingInv, PagingTypeOK
<1>2. CASE NewPage
  <2>1. UNCHANGED <<tasks, current, pgd, pt, miss>> /\ at = "new_page"
    BY <1>2 DEF NewPage, taskVars, tableVars
  <2>2. CASE ReturnsNull
    <3>1. pool' = Left /\ UNCHANGED <<hand, at>>
      BY <1>2, <2>2 DEF NewPage
    <3>2. PagingTypeOK' /\ Fresh'
      <4>1. SameFree
        BY <2>2, <3>1, NullTaken DEF PagingInv, PagingTypeOK, Fresh
      <4> QED
        BY <1>1, <2>1, <3>1, <4>1, QuietStep
    <3> QED
      BY <2>1, <3>1, <3>2 DEF PagingInv, Handling
  <2>3. CASE ~ReturnsNull
    <3>1. hand' = Head(pool) /\ TakeBlocks(1) /\ at' = "add_vmas"
      BY <1>2, <2>3 DEF NewPage
    <3>2. PagingTypeOK' /\ Fresh' /\ hand' # NULL
      BY <1>1, <2>1, <2>3, <3>1, BlockTaken DEF PagingInv
    <3> QED
      BY <2>1, <3>1, <3>2 DEF PagingInv, Handling
  <2> QED
    BY <2>2, <2>3
<1>3. CASE VmaFound \/ VmaEndless
  <2>1. /\ UNCHANGED <<pool, hand, tasks, pgd, pt, current, miss>>
        /\ at = "add_vmas" /\ (at' = "map" \/ at' = at)
    BY <1>3 DEF VmaFound, VmaEndless, taskVars, tableVars
  <2>2. PagingTypeOK' /\ Fresh'
    BY <1>1, <2>1, QuietStep
  <2> QED
    BY <2>1, <2>2 DEF PagingInv, Handling
<1>4. CASE VmaNew
  <2>1. PagingTypeOK' /\ Fresh'
    BY <1>4, SlubKeeps, PagingAssumption DEF PagingInv, VmaNew, taskVars, tableVars
  <2>2. Handling'
    BY <1>4 DEF PagingInv, Handling, VmaNew, taskVars
  <2> QED
    BY <2>1, <2>2 DEF PagingInv
<1>5. CASE VmaRefused
  <2>1. /\ UNCHANGED <<tasks, current, pgd, pt, miss, at>> /\ at = "add_vmas" /\ up' = FALSE
        /\ pool' = kfree(hand, pool) /\ hand' = NULL
    BY <1>5 DEF VmaRefused, taskVars, tableVars, die
  <2>2. PagingTypeOK' /\ Fresh'
    BY <2>1, BlockReturned DEF PagingInv, Handling
  <2> QED
    BY <2>1, <2>2 DEF PagingInv, Handling
<1>6. CASE MapPage
  <2>1. /\ UNCHANGED <<tasks, current, miss>> /\ hand' = NULL /\ at = "map" /\ at' = "user"
        /\ \/ do_one_mapping(current, miss[current], Page1)
           \/ ReturnsNull /\ pool' = Left /\ UNCHANGED <<pgd, pt>>
    BY <1>6 DEF MapPage, taskVars
  <2>2. miss[current] \in Vas /\ Page1 \in Entries
    BY <2>1 DEF PagingInv, Handling, Entries
  <2>3. CASE do_one_mapping(current, miss[current], Page1)
    <3>1. PagingTypeOK' /\ Fresh'
      BY <1>1, <2>1, <2>2, <2>3, MappingKeeps DEF PagingInv
    <3> QED
      BY <2>1, <3>1 DEF PagingInv, Handling
  <2>4. CASE ReturnsNull /\ pool' = Left /\ UNCHANGED <<pgd, pt>>
    <3>1. NULL \notin Free /\ SameFree
      BY <2>4, FreeBlocks, NullTaken DEF PagingInv, PagingTypeOK, Fresh
    <3>2. PagingTypeOK' /\ Fresh'
      BY <2>1, <2>4, <3>1 DEF PagingInv, PagingTypeOK, Fresh, SameFree
    <3> QED
      BY <2>1, <3>2 DEF PagingInv, Handling
  <2> QED
    BY <2>1, <2>3, <2>4
<1> QED
  BY <1>2, <1>3, <1>4, <1>5, <1>6 DEF Fault

\* The parts of a fork: the directory copied names the tables of the parent.
LEMMA PagingForkStep ==
  ASSUME PagingInv, up, ForkTask \/ ForkNoTask \/ ForkEnds
  PROVE  PagingInv'
<1>1. CASE ForkTask
  <2>1. /\ UNCHANGED <<tasks, current, pgd, pt, miss>> /\ at' = "fork_pgd"
        /\ ~ReturnsNull /\ hand' = Head(pool) /\ TakeBlocks(1)
        /\ miss \in [Tasks -> Vas \cup {NoVa}]
    BY <1>1 DEF ForkTask, taskVars, tableVars, PagingInv, PagingTypeOK
  <2>2. PagingTypeOK' /\ Fresh' /\ hand' # NULL
    BY <2>1, BlockTaken DEF PagingInv
  <2> QED
    BY <2>1, <2>2 DEF PagingInv, Handling
<1>2. CASE ForkNoPgd
  <2>1. /\ UNCHANGED <<tasks, current, pgd, pt, miss>> /\ at = "fork_pgd" /\ at' = "user"
        /\ ReturnsNull /\ pool' = kfree(hand, kfree(NULL, Left)) /\ hand' = NULL
    BY <1>2 DEF ForkNoPgd, taskVars, tableVars
  <2>2. PagingTypeOK' /\ Fresh'
    BY <2>1, BlockReturned DEF PagingInv, Handling
  <2> QED
    BY <2>1, <2>2 DEF PagingInv, Handling
<1>3. ASSUME NEW t \in Tasks \ tasks, ForkPgd(t) PROVE PagingInv'
  <2>1. /\ UNCHANGED <<current, pt, miss>> /\ at' = "user" /\ hand' = NULL
        /\ pgd' = [pgd EXCEPT ![t] = pgd[current]] /\ tasks' = tasks \cup {t}
        /\ ~ReturnsNull /\ TakeBlocks(1)
    BY <1>3 DEF ForkPgd
  <2>2. pool' \in Seq(Pages) /\ Once' /\ Free' = Free \ {Head(pool)}
    BY <2>1, TakeOne DEF PagingInv, PagingTypeOK, Fresh
  <2>3. PagingTypeOK'
    BY <2>1, <2>2 DEF PagingInv, PagingTypeOK
  <2>4. \A u \in Tasks, d \in Dirs : pgd'[u][d] \notin Free
    BY <2>1 DEF PagingInv, PagingTypeOK, Fresh
  <2>5. Fresh'
    BY <2>1, <2>2, <2>4, FreeBlocks DEF PagingInv, PagingTypeOK, Fresh
  <2> QED
    BY <2>1, <2>3, <2>5 DEF PagingInv, Handling
<1>4. CASE ForkNoTask
  <2>1. /\ UNCHANGED <<hand, tasks, current, pgd, pt, miss, at>> /\ at = "user"
        /\ ReturnsNull /\ pool' = kfree(NULL, Left)
    BY <1>4 DEF ForkNoTask, taskVars, tableVars
  <2>2. SameFree
    BY <2>1, NullTaken DEF PagingInv, PagingTypeOK, Fresh
  <2>3. PagingTypeOK' /\ Fresh'
    BY <2>1, <2>2, QuietStep DEF PagingInv, PagingTypeOK
  <2> QED
    BY <2>1, <2>3 DEF PagingInv, Handling
<1> QED
  BY <1>1, <1>2, <1>3, <1>4 DEF ForkEnds

LEMMA PagingStepInv == PagingInv /\ [Next]_vars => PagingInv'
<1> SUFFICES ASSUME PagingInv, [Next]_vars PROVE PagingInv'
  OBVIOUS
<1>1. CASE UNCHANGED vars
  BY <1>1 DEF vars, taskVars, tableVars, PagingInv, PagingTypeOK, Fresh, Handling, Once, Free
<1>2. CASE up /\ Kernel
  BY <1>2, InitTaskStep, FaultStep, PagingForkStep DEF Kernel
<1>3. CASE up /\ (User \/ \E t \in tasks : SwitchTo(t))
  BY <1>3, UserStep, PagingForkStep DEF User
<1> QED
  BY <1>1, <1>2, <1>3 DEF Next

\* Which blocks are free while faults, forks and kmalloc take and return them.
THEOREM PagingInvariant == Spec => []PagingInv
<1> QED BY PagingInitInv, PagingStepInv, PTL DEF Spec

-----------------------------------------------------------------------------
\* A mapping of the running task changes what it sees in the 4 MB of the address,
\* and nothing else.
LEMMA MappingPrivate ==
  ASSUME PagingTypeOK, Fresh, NEW u \in Tasks, NEW va \in Vas, NEW pa \in Entries,
         do_one_mapping(u, va, pa),
         NEW t \in Tasks, NEW wa \in Vas, Translation(t, wa)' # Translation(t, wa)
  PROVE  t = u /\ wa[1] = va[1]
<1>1. /\ Head(pool) \in Free
      /\ pgd' = [pgd EXCEPT ![u][va[1]] = Head(pool)]
      /\ \A b \in Blocks \ {Head(pool)} : pt'[b] = pt[b]
  BY MappingFacts
<1>2. /\ wa[1] \in Dirs /\ va[1] \in Dirs
      /\ pgd[t][wa[1]] \in Blocks \cup {NULL} /\ pgd[t][wa[1]] # Head(pool)
  BY <1>1 DEF PagingTypeOK, Fresh, Vas
<1> SUFFICES ASSUME ~(t = u /\ wa[1] = va[1]) PROVE FALSE
  OBVIOUS
<1>3. pgd'[t][wa[1]] = pgd[t][wa[1]]
  BY <1>1, <1>2 DEF PagingTypeOK
<1> QED
  BY <1>1, <1>2, <1>3 DEF Translation

\* What a task does to its memory changes no address of another task, although
\* they have tables in common, and of its own only the 4 MB of the fault
\* (do_one_mapping, do_pg_unpresent, copy_pagetables).
THEOREM FaultsArePrivate == Spec => FaultPrivate
<1> DEFINE Private == \A t \in tasks, va \in Vas :
             Translation(t, va)' # Translation(t, va) =>
               t = current /\ (at = "init_map" \/ va[1] = miss[t][1])
<1>1. ASSUME PagingInv, Next PROVE Private
  <2>1. PagingTypeOK /\ Fresh /\ tasks \subseteq Tasks /\ current \in Tasks
    BY <1>1 DEF PagingInv, PagingTypeOK
  <2>2. CASE UNCHANGED <<pgd, pt>>
    BY <2>2 DEF Translation
  <2>3. CASE InitMap
    <3>1. current = init /\ CodeVa \in Vas /\ Code \in Entries /\ at = "init_map"
      BY <1>1, <2>3, PagingAssumption DEF InitMap, PagingInv, Handling, Vas, Entries
    <3>2. CASE do_one_mapping(init, CodeVa, Code)
      BY <2>1, <3>1, <3>2, MappingPrivate
    <3> QED
      BY <2>2, <2>3, <3>2 DEF InitMap
  <2>4. CASE MapPage
    <3>1. miss[current] \in Vas /\ Page1 \in Entries
      BY <1>1, <2>4 DEF MapPage, PagingInv, Handling, Entries
    <3>2. CASE do_one_mapping(current, miss[current], Page1)
      BY <2>1, <3>1, <3>2, MappingPrivate
    <3> QED
      BY <2>2, <2>4, <3>2 DEF MapPage
  <2>5. ASSUME NEW u \in Tasks \ tasks, ForkPgd(u) PROVE Private
    <3>1. pt' = pt /\ \A t \in tasks : pgd'[t] = pgd[t]
      BY <2>1, <2>5 DEF ForkPgd, PagingTypeOK
    <3> QED
      BY <3>1 DEF Translation
  <2>6. CASE \/ InitVma \/ NewPage \/ VmaFound \/ VmaNew \/ VmaRefused \/ VmaEndless
             \/ User \/ ForkNoPgd \/ \E t \in tasks : SwitchTo(t)
    <3>1. UNCHANGED <<pgd, pt>>
      BY <2>6 DEF InitVma, NewPage, VmaFound, VmaNew, VmaRefused, VmaEndless, User, MissHeap,
                  MissCode, do_copyonwrite, Resume, ForkTask, ForkNoTask, Kmalloc, ForkNoPgd, SwitchTo,
                  tableVars
    <3> QED
      BY <2>2, <3>1
  <2> QED
    BY <1>1, <2>3, <2>4, <2>5, <2>6 DEF Next, Kernel, Fault, ForkEnds
<1>2. PagingInv /\ [Next]_vars => [Private]_vars
  BY <1>1
<1> QED
  BY PagingInvariant, <1>2, PTL DEF Spec, FaultPrivate

-----------------------------------------------------------------------------
(***************************************************************************)
(* No memory has two users.  A block in use is in one place and not free;  *)
(* every page with objects is a page of slub, so that none of them is      *)
(* given out again; and on the page a cache has in use, all objects are    *)
(* in front of the next one.                                               *)
(***************************************************************************)

\* The places of b, but for the free blocks.
Users(b) == {p \in Places(b) : p[1] # "pool"}

OneUser ==
  /\ \A b \in Blocks : \A p, q \in Users(b) : p = q
  /\ \A b \in Free : Users(b) = {}

SlubTypeOK ==
  /\ cpu \in [Sizes -> [page : Blocks \cup {NULL}, freeobj : Nat]]
  /\ full \in [Sizes -> Seq(Blocks)]
  /\ slubhead \in [Blocks -> [cache : Sizes \cup {NULL}, nr_objs : Nat, private : Nat]]
  /\ \A o \in objects : o \in [cache : Sizes, page : Blocks, at : Nat]
  /\ IsFiniteSet(objects)
  /\ taskpage \in [Tasks -> Blocks \cup {NULL}]
  /\ dirpage \in [Tasks -> Blocks \cup {NULL}]

\* Objects are on the pages of slub.
OnPages ==
  \A o \in objects : \E c \in Sizes :
    cpu[c].page = o.page \/ \E k \in 1 .. Len(full[c]) : full[c][k] = o.page

\* The page in use is a page of the cache, and freeobj is its last object.
InFront ==
  \A c \in Sizes : cpu[c].page # NULL =>
    /\ slubhead[cpu[c].page].cache = c
    /\ HeadSize <= cpu[c].freeobj
    /\ \A o \in objects : o.page = cpu[c].page => o.at <= cpu[c].freeobj

SharedInv == up => SlubTypeOK /\ OneUser /\ OnPages /\ InFront /\ ObjectsApart

LEMMA UserIs ==
  ASSUME NEW b \in Blocks, NEW p
  PROVE  p \in Users(b) <=>
           \/ \E c \in Sizes : p = <<"cpu", c>> /\ cpu[c].page = b
           \/ \E c \in Sizes : \E k \in 1 .. Len(full[c]) : p = <<"full", c, k>> /\ full[c][k] = b
           \/ \E t \in tasks : p = <<"task", t>> /\ taskpage[t] = b
           \/ \E t \in tasks : p = <<"pgd", t>> /\ dirpage[t] = b
           \/ \E d \in Dirs, t \in tasks : p = <<"table", d>> /\ pgd[t][d] = b
           \/ p = <<"hand">> /\ hand = b
<1> DEFINE Pool  == {<<"pool", k>> : k \in {j \in 1 .. Len(pool) : pool[j] = b}}
            Cpu   == {<<"cpu", c>> : c \in {s \in Sizes : cpu[s].page = b}}
            On(c) == {<<"full", c, k>> : k \in {j \in 1 .. Len(full[c]) : full[c][j] = b}}
            Full  == UNION {On(c) : c \in Sizes}
            Task  == {<<"task", t>> : t \in {u \in tasks : taskpage[u] = b}}
            Pgd   == {<<"pgd", t>> : t \in {u \in tasks : dirpage[u] = b}}
            Table == {<<"table", d>> : d \in {e \in Dirs : \E t \in tasks : pgd[t][e] = b}}
            Hand  == {<<"hand">> : k \in {j \in {hand} : j = b}}
<1>1. p \in Cpu <=> \E c \in Sizes : p = <<"cpu", c>> /\ cpu[c].page = b
  OBVIOUS
<1>2. p \in Full <=> \E c \in Sizes : \E k \in 1 .. Len(full[c]) :
                       p = <<"full", c, k>> /\ full[c][k] = b
  <2>1. \A c : p \in On(c) <=> \E k \in 1 .. Len(full[c]) :
                       p = <<"full", c, k>> /\ full[c][k] = b
    OBVIOUS
  <2>2. p \in Full <=> \E c \in Sizes : p \in On(c)
    BY Zenon
  <2> QED BY <2>1, <2>2
<1>3. p \in Task <=> \E t \in tasks : p = <<"task", t>> /\ taskpage[t] = b
  OBVIOUS
<1>4. p \in Pgd <=> \E t \in tasks : p = <<"pgd", t>> /\ dirpage[t] = b
  OBVIOUS
<1>5. p \in Table <=> \E d \in Dirs, t \in tasks : p = <<"table", d>> /\ pgd[t][d] = b
  OBVIOUS
<1>6. p \in Hand <=> p = <<"hand">> /\ hand = b
  OBVIOUS
<1>7. p \in Pool => p[1] = "pool"
  OBVIOUS
<1>8. p \in Cpu \cup Full \cup Task \cup Pgd \cup Table \cup Hand => p[1] # "pool"
  <2> HIDE DEF Cpu, Full, Task, Pgd, Table, Hand
  <2> QED BY <1>1, <1>2, <1>3, <1>4, <1>5, <1>6
<1>9. Places(b) = Pool \cup Cpu \cup Full \cup Task \cup Pgd \cup Table \cup Hand
  BY DEF Places
<1> HIDE DEF Pool, Cpu, Full, Task, Pgd, Table, Hand
<1>10. p \in Users(b) <=> p \in Cpu \cup Full \cup Task \cup Pgd \cup Table \cup Hand
  BY <1>7, <1>8, <1>9 DEF Users
<1> QED
  BY <1>1, <1>2, <1>3, <1>4, <1>5, <1>6, <1>10

LEMMA UserIsNext ==
  ASSUME NEW b \in Blocks, NEW p
  PROVE  p \in Users(b)' <=>
           \/ \E c \in Sizes : p = <<"cpu", c>> /\ cpu'[c].page = b
           \/ \E c \in Sizes : \E k \in 1 .. Len(full'[c]) : p = <<"full", c, k>> /\ full'[c][k] = b
           \/ \E t \in tasks' : p = <<"task", t>> /\ taskpage'[t] = b
           \/ \E t \in tasks' : p = <<"pgd", t>> /\ dirpage'[t] = b
           \/ \E d \in Dirs, t \in tasks' : p = <<"table", d>> /\ pgd'[t][d] = b
           \/ p = <<"hand">> /\ hand' = b
<1> DEFINE Pool  == {<<"pool", k>> : k \in {j \in 1 .. Len(pool') : pool'[j] = b}}
            Cpu   == {<<"cpu", c>> : c \in {s \in Sizes : cpu'[s].page = b}}
            On(c) == {<<"full", c, k>> : k \in {j \in 1 .. Len(full'[c]) : full'[c][j] = b}}
            Full  == UNION {On(c) : c \in Sizes}
            Task  == {<<"task", t>> : t \in {u \in tasks' : taskpage'[u] = b}}
            Pgd   == {<<"pgd", t>> : t \in {u \in tasks' : dirpage'[u] = b}}
            Table == {<<"table", d>> : d \in {e \in Dirs : \E t \in tasks' : pgd'[t][e] = b}}
            Hand  == {<<"hand">> : k \in {j \in {hand'} : j = b}}
<1>1. p \in Cpu <=> \E c \in Sizes : p = <<"cpu", c>> /\ cpu'[c].page = b
  OBVIOUS
<1>2. p \in Full <=> \E c \in Sizes : \E k \in 1 .. Len(full'[c]) :
                       p = <<"full", c, k>> /\ full'[c][k] = b
  <2>1. \A c : p \in On(c) <=> \E k \in 1 .. Len(full'[c]) :
                       p = <<"full", c, k>> /\ full'[c][k] = b
    OBVIOUS
  <2>2. p \in Full <=> \E c \in Sizes : p \in On(c)
    BY Zenon
  <2> QED BY <2>1, <2>2
<1>3. p \in Task <=> \E t \in tasks' : p = <<"task", t>> /\ taskpage'[t] = b
  OBVIOUS
<1>4. p \in Pgd <=> \E t \in tasks' : p = <<"pgd", t>> /\ dirpage'[t] = b
  OBVIOUS
<1>5. p \in Table <=> \E d \in Dirs, t \in tasks' : p = <<"table", d>> /\ pgd'[t][d] = b
  OBVIOUS
<1>6. p \in Hand <=> p = <<"hand">> /\ hand' = b
  OBVIOUS
<1>7. p \in Pool => p[1] = "pool"
  OBVIOUS
<1>8. p \in Cpu \cup Full \cup Task \cup Pgd \cup Table \cup Hand => p[1] # "pool"
  <2> HIDE DEF Cpu, Full, Task, Pgd, Table, Hand
  <2> QED BY <1>1, <1>2, <1>3, <1>4, <1>5, <1>6
<1>9. Places(b)' = Pool \cup Cpu \cup Full \cup Task \cup Pgd \cup Table \cup Hand
  BY DEF Places
<1> HIDE DEF Pool, Cpu, Full, Task, Pgd, Table, Hand
<1>10. p \in Users(b)' <=> p \in Cpu \cup Full \cup Task \cup Pgd \cup Table \cup Hand
  BY <1>7, <1>8, <1>9 DEF Users
<1> QED
  BY <1>1, <1>2, <1>3, <1>4, <1>5, <1>6, <1>10

\* A step may take places away from blocks, return a block that has none left,
\* and give a single place to a block that is not free then.
LEMMA MovesKeep ==
  ASSUME OneUser, Free' \subseteq Blocks,
         \A b \in Blocks :
           \/ Users(b)' \subseteq Users(b) /\ (b \in Free' => b \in Free \/ Users(b)' = {})
           \/ b \notin Free' /\ \A p, q \in Users(b)' : p = q
  PROVE  OneUser'
<1> QED
  BY DEF OneUser

LEMMA PoolIs ==
  ASSUME NEW b \in Blocks, NEW p \in Places(b), p[1] = "pool"
  PROVE  \E k \in 1 .. Len(pool) : p = <<"pool", k>> /\ pool[k] = b
<1> DEFINE Pool  == {<<"pool", k>> : k \in {j \in 1 .. Len(pool) : pool[j] = b}}
            Cpu   == {<<"cpu", c>> : c \in {s \in Sizes : cpu[s].page = b}}
            On(c) == {<<"full", c, k>> : k \in {j \in 1 .. Len(full[c]) : full[c][j] = b}}
            Full  == UNION {On(c) : c \in Sizes}
            Task  == {<<"task", t>> : t \in {u \in tasks : taskpage[u] = b}}
            Pgd   == {<<"pgd", t>> : t \in {u \in tasks : dirpage[u] = b}}
            Table == {<<"table", d>> : d \in {e \in Dirs : \E t \in tasks : pgd[t][e] = b}}
            Hand  == {<<"hand">> : k \in {j \in {hand} : j = b}}
<1>1. Places(b) = Pool \cup Cpu \cup Full \cup Task \cup Pgd \cup Table \cup Hand
  BY DEF Places
<1>2. \A x : x \in Cpu \cup Task \cup Pgd \cup Table \cup Hand => x[1] # "pool"
  OBVIOUS
<1>3. \A x : x \in Full => x[1] # "pool"
  <2>1. \A c, x : x \in On(c) => x[1] # "pool"
    OBVIOUS
  <2>2. \A x : x \in Full => \E c : x \in On(c)
    BY Zenon
  <2> HIDE DEF On, Full
  <2> QED BY <2>1, <2>2
<1>4. p \in Pool
  <2> HIDE DEF Pool, Cpu, Full, Task, Pgd, Table, Hand
  <2> QED BY <1>1, <1>2, <1>3
<1> QED BY <1>4

\* Without the pool there is at most one place, and none if the block is free.
LEMMA OnePlace ==
  ASSUME pool \in Seq(Pages), Once, OneUser, NEW b \in Blocks
  PROVE  Cardinality(Places(b)) <= 1
<1>1. \A p \in Places(b) : p \in Users(b) \/ \E k \in 1 .. Len(pool) : p = <<"pool", k>> /\ pool[k] = b
  BY PoolIs DEF Users
<1>2. \A p, q \in Places(b) : p = q
  <2> SUFFICES ASSUME NEW p \in Places(b), NEW q \in Places(b) PROVE p = q
    OBVIOUS
  <2>1. CASE b \in Free
    <3>1. Users(b) = {}
      BY <2>1 DEF OneUser
    <3> QED BY <1>1, <3>1 DEF Once, OnceIn
  <2>2. CASE b \notin Free
    <3>1. p \in Users(b) /\ q \in Users(b)
      <4>1. b # NULL
        BY SlubAssumption DEF Blocks, NULL
      <4> QED BY <1>1, <2>2, <4>1 DEF Free, Elems
    <3> QED BY <3>1 DEF OneUser
  <2> QED BY <2>1, <2>2
<1>3. CASE Places(b) = {}
  BY <1>3, FS_EmptySet
<1>4. CASE Places(b) # {}
  <2>1. PICK p : Places(b) = {p}
    BY <1>2, <1>4
  <2>2. Cardinality(Places(b)) = Cardinality({p})
    BY <2>1, Zenon
  <2>3. Cardinality({p}) = 1
    BY FS_Singleton, Zenon
  <2> QED BY <2>2, <2>3
<1> QED BY <1>3, <1>4

-----------------------------------------------------------------------------
\* The size of an object, with its link, is that of the head of a page at least.
LEMMA SizeFacts ==
  ASSUME NEW c \in Sizes
  PROVE  size(c) \in Nat /\ size(c) > HeadSize
<1>1. c \in Int /\ c >= 8
  BY SlubAssumption
<1> QED
  BY <1>1 DEF size, objsize, WordSize, HeadSize

\* The next object, if there is one, is behind this one and in the page.
LEMMA NextFacts ==
  ASSUME NEW c \in Sizes, NEW obj \in Nat
  PROVE  /\ NextObj(c, obj) \in Nat
         /\ NextObj(c, obj) # 0 => /\ NextObj(c, obj) = obj + size(c)
                                   /\ NextObj(c, obj) + size(c) <= PAGE_SIZE
<1>1. size(c) \in Nat /\ size(c) > 0 /\ PAGE_SIZE \in Nat
  BY SizeFacts, SlubAssumption DEF HeadSize
<1> QED
  BY <1>1 DEF NextObj

-----------------------------------------------------------------------------
\* Sharing of memory and what slub keeps do not change when slub does nothing.
LEMMA SlubIdle ==
  ASSUME SlubTypeOK, OnPages, InFront, ObjectsApart, UNCHANGED slubVars
  PROVE  /\ OnPages' /\ InFront' /\ ObjectsApart'
         /\ UNCHANGED <<taskpage, dirpage>> => SlubTypeOK'
<1>1. UNCHANGED <<cpu, full, slubhead, objects>>
  BY DEF slubVars
<1>2. OnPages'
  BY <1>1 DEF OnPages
<1>3. InFront'
  BY <1>1 DEF InFront
<1>4. ObjectsApart'
  BY <1>1 DEF ObjectsApart, Bytes, size, objsize
<1> QED
  BY <1>1, <1>2, <1>3, <1>4 DEF SlubTypeOK

-----------------------------------------------------------------------------
(* Each kind of step, on the places of the blocks.                         *)

\* The kernel changes what it has in hand, for a free block or for none.
LEMMA HandKeeps ==
  ASSUME PagingInv, OneUser,
         UNCHANGED <<cpu, full, tasks, taskpage, dirpage, pgd>>,
         \/ SameFree /\ hand' \in {hand, NULL}
         \/ ~ReturnsNull /\ TakeBlocks(1) /\ hand' = Head(pool)
         \/ hand # NULL /\ Returned /\ hand' = NULL
  PROVE  OneUser'
<1>1. /\ pool \in Seq(Pages) /\ Once /\ Free \subseteq Blocks /\ NULL \notin Blocks
      /\ hand \in Blocks \cup {NULL} /\ hand \notin Free
  BY FreeBlocks DEF PagingInv, PagingTypeOK, Fresh, Blocks, NULL
<1>2. ASSUME NEW b \in Blocks, NEW p \in Users(b)', hand' # b \/ hand' = hand PROVE p \in Users(b)
  BY <1>2, UserIs, UserIsNext
<1>3. CASE SameFree /\ hand' \in {hand, NULL}
  <2>1. Free' = Free
    BY <1>3 DEF SameFree
  <2> QED BY <1>1, <1>2, <1>3, <2>1, MovesKeep
<1>4. CASE ~ReturnsNull /\ TakeBlocks(1) /\ hand' = Head(pool)
  <2>1. PICK h \in Free : h = Head(pool) /\ Free' = Free \ {h}
    BY <1>1, <1>4, TakeOne
  <2>2. ASSUME NEW p \in Users(h)' PROVE p = <<"hand">>
    <3>1. p \notin Users(h) /\ h \in Blocks
      BY <1>1, <2>1 DEF OneUser
    <3>2. p \in Users(h) \/ p = <<"hand">>
      BY <3>1, UserIs, UserIsNext
    <3> QED BY <3>1, <3>2
  <2>3. \A b \in Blocks \ {h} : Users(b)' \subseteq Users(b)
    BY <1>2, <1>4, <2>1
  <2> QED BY <1>1, <2>1, <2>2, <2>3, MovesKeep
<1>5. CASE hand # NULL /\ Returned /\ hand' = NULL
  <2>1. PICK h \in Blocks : h = hand /\ h # hand' /\ Free' = Free \cup {h}
    BY <1>1, <1>5 DEF Returned
  <2>2. Users(h)' = {}
    <3>1. <<"hand">> \in Users(h)
      BY <2>1, UserIs
    <3>2. \A p \in Users(h)' : p \in Users(h) /\ p # <<"hand">>
      BY <2>1, UserIs, UserIsNext
    <3> QED BY <3>1, <3>2 DEF OneUser
  <2>3. \A b \in Blocks : Users(b)' \subseteq Users(b)
    BY <1>1, <1>2, <1>5
  <2> QED BY <1>1, <2>1, <2>2, <2>3, MovesKeep
<1> QED BY <1>3, <1>4, <1>5

\* A new page table is in use at its entry, and the one before it no longer.
LEMMA TableKeeps ==
  ASSUME PagingInv, OneUser, NEW t \in tasks, NEW va \in Vas, NEW pa \in Entries,
         do_one_mapping(t, va, pa), hand' \in {hand, NULL},
         UNCHANGED <<cpu, full, tasks, taskpage, dirpage>>
  PROVE  OneUser'
<1>1. /\ pool \in Seq(Pages) /\ Once /\ Free \subseteq Blocks /\ NULL \notin Blocks
      /\ tasks \subseteq Tasks /\ va[1] \in Dirs
      /\ pgd \in [Tasks -> [Dirs -> Blocks \cup {NULL}]]
  BY FreeBlocks DEF PagingInv, PagingTypeOK, Fresh, Blocks, NULL, Vas
<1>2. PICK h \in Free : /\ h = Head(pool) /\ Free' = Free \ {h}
                        /\ pgd' = [pgd EXCEPT ![t][va[1]] = h]
  BY <1>1, MappingFacts DEF PagingInv
<1>3. \A u \in tasks, d \in Dirs :
        pgd'[u][d] = IF u = t /\ d = va[1] THEN h ELSE pgd[u][d]
  BY <1>1, <1>2
<1>4. ASSUME NEW b \in Blocks, b # h, NEW p \in Users(b)' PROVE p \in Users(b)
  BY <1>1, <1>3, <1>4, UserIs, UserIsNext
<1>5. ASSUME NEW p \in Users(h)' PROVE p = <<"table", va[1]>>
  <2>1. p \notin Users(h) /\ h \in Blocks
    BY <1>1, <1>2 DEF OneUser
  <2>2. p \in Users(h) \/ p = <<"table", va[1]>>
    BY <1>1, <1>3, <2>1, UserIs, UserIsNext
  <2> QED BY <2>1, <2>2
<1> QED BY <1>1, <1>2, <1>4, <1>5, MovesKeep

\* The task a fork makes has the block in hand, a free one for its directory, and
\* the tables of its parent.
LEMMA ForkedKeeps ==
  ASSUME PagingInv, OneUser, SlubTypeOK, hand # NULL,
         NEW t \in Tasks \ tasks, ForkPgd(t), UNCHANGED <<cpu, full>>
  PROVE  OneUser'
<1>1. /\ pool \in Seq(Pages) /\ Once /\ Free \subseteq Blocks /\ NULL \notin Blocks
      /\ tasks \subseteq Tasks /\ current \in tasks
      /\ pgd \in [Tasks -> [Dirs -> Blocks \cup {NULL}]]
      /\ taskpage \in [Tasks -> Blocks \cup {NULL}] /\ dirpage \in [Tasks -> Blocks \cup {NULL}]
      /\ hand \in Blocks /\ hand \notin Free
  BY FreeBlocks DEF PagingInv, PagingTypeOK, Fresh, SlubTypeOK, Blocks, NULL
<1>2. /\ tasks' = tasks \cup {t} /\ hand' = NULL
      /\ pgd' = [pgd EXCEPT ![t] = pgd[current]]
      /\ taskpage' = [taskpage EXCEPT ![t] = hand]
      /\ dirpage' = [dirpage EXCEPT ![t] = Head(pool)]
      /\ ~ReturnsNull /\ TakeBlocks(1)
  BY DEF ForkPgd
<1>3. PICK h \in Free, g \in Blocks :
        h = Head(pool) /\ Free' = Free \ {h} /\ g = hand /\ g # h
  BY <1>1, <1>2, TakeOne
<1>4. /\ \A u \in tasks : pgd'[u] = pgd[u] /\ taskpage'[u] = taskpage[u] /\ dirpage'[u] = dirpage[u]
      /\ pgd'[t] = pgd[current] /\ taskpage'[t] = g /\ dirpage'[t] = h
  BY <1>1, <1>2, <1>3
<1>5. ASSUME NEW b \in Blocks, NEW p \in Users(b)'
      PROVE  \/ p \in Users(b) /\ p # <<"hand">>
             \/ b = g /\ p = <<"task", t>>
             \/ b = h /\ p = <<"pgd", t>>
  <2>1. \A d \in Dirs : (\E u \in tasks' : pgd'[u][d] = b) => \E u \in tasks : pgd[u][d] = b
    BY <1>1, <1>2, <1>4
  <2> QED BY <1>1, <1>2, <1>4, <2>1, UserIs, UserIsNext
<1>6. \A p \in Users(g)' : p = <<"task", t>>
  <2>1. <<"hand">> \in Users(g)
    BY <1>3, UserIs
  <2> QED BY <1>1, <1>3, <1>5, <2>1 DEF OneUser
<1>7. \A p \in Users(h)' : p = <<"pgd", t>>
  BY <1>1, <1>3, <1>5 DEF OneUser
<1>8. \A b \in Blocks \ {g, h} : Users(b)' \subseteq Users(b)
  BY <1>5
<1> QED BY <1>1, <1>3, <1>6, <1>7, <1>8, MovesKeep

-----------------------------------------------------------------------------
(* kmalloc.                                                                *)

\* An object of cache c at obj, on a page p without a place but that of the cache,
\* where all others are in front of it.
LEMMA HandsOut ==
  ASSUME SlubTypeOK, OnPages, InFront, ObjectsApart,
         NEW c \in Sizes, NEW p \in Blocks, NEW obj \in Nat, NEW nr \in Nat, NEW list \in Seq(Blocks),
         HandOut(c, p, obj, nr, list), UNCHANGED <<taskpage, dirpage>>,
         HeadSize <= obj, obj + size(c) <= PAGE_SIZE,
         nr = Cardinality({o \in objects : o.page = p}),
         \A o \in objects : o.page = p => o.cache = c /\ o.at + size(c) <= obj,
         \A e \in Sizes : cpu[e].page = p => e = c,
         \A k \in 1 .. Len(full[c]) : \E j \in 1 .. Len(list) : list[j] = full[c][k],
         cpu[c].page # NULL => \/ cpu[c].page = p
                               \/ \E j \in 1 .. Len(list) : list[j] = cpu[c].page
  PROVE  SlubTypeOK' /\ OnPages' /\ InFront' /\ ObjectsApart'
<1> DEFINE new  == [cache |-> c, page |-> p, at |-> obj]
           next == NextObj(c, obj)
           last == IF next = 0 THEN Append(list, p) ELSE list
<1>1. /\ slubhead' = [slubhead EXCEPT ![p] = [cache |-> c, nr_objs |-> nr + 1, private |-> next]]
      /\ objects' = objects \cup {new}
      /\ full' = [full EXCEPT ![c] = last]
      /\ cpu' = [cpu EXCEPT ![c] = IF next = 0 THEN NoPage ELSE [page |-> p, freeobj |-> obj]]
  BY DEF HandOut
<1>2. size(c) \in Nat /\ size(c) > 0 /\ next \in Nat /\ PAGE_SIZE \in Nat
  BY SizeFacts, NextFacts, SlubAssumption DEF HeadSize
<1>3. new \notin objects
  BY <1>2
<1>4. /\ last \in Seq(Blocks) /\ (next = 0 => \E j \in 1 .. Len(last) : last[j] = p)
      /\ \A j \in 1 .. Len(list) : j \in 1 .. Len(last) /\ last[j] = list[j]
  <2>1. CASE next = 0
    <3>1. /\ Append(list, p) \in Seq(Blocks) /\ Len(Append(list, p)) = Len(list) + 1
          /\ Append(list, p)[Len(list) + 1] = p
          /\ \A j \in 1 .. Len(list) : Append(list, p)[j] = list[j]
      BY AppendProperties
    <3> QED BY <2>1, <3>1
  <2>2. CASE next # 0
    BY <2>2
  <2> QED BY <2>1, <2>2
<1> HIDE DEF next, last
<1>5. SlubTypeOK'
  <2>1. cpu' \in [Sizes -> [page : Blocks \cup {NULL}, freeobj : Nat]]
    BY <1>1 DEF SlubTypeOK, NoPage
  <2>2. full' \in [Sizes -> Seq(Blocks)]
    BY <1>1, <1>4 DEF SlubTypeOK
  <2>3. slubhead' \in [Blocks -> [cache : Sizes \cup {NULL}, nr_objs : Nat, private : Nat]]
    <3>1. [cache |-> c, nr_objs |-> nr + 1, private |-> next]
            \in [cache : Sizes \cup {NULL}, nr_objs : Nat, private : Nat]
      BY <1>2
    <3> QED BY <1>1, <3>1 DEF SlubTypeOK
  <2>4. /\ IsFiniteSet(objects')
        /\ \A o \in objects' : o \in [cache : Sizes, page : Blocks, at : Nat]
    <3>1. IsFiniteSet(objects \cup {new})
      BY FS_AddElement DEF SlubTypeOK
    <3>2. new \in [cache : Sizes, page : Blocks, at : Nat]
      OBVIOUS
    <3> HIDE DEF new
    <3> QED BY <1>1, <3>1, <3>2 DEF SlubTypeOK
  <2> QED BY <2>1, <2>2, <2>3, <2>4 DEF SlubTypeOK
<1>6. /\ cpu'[c] = IF next = 0 THEN NoPage ELSE [page |-> p, freeobj |-> obj]
      /\ full'[c] = last
      /\ \A e \in Sizes \ {c} : cpu'[e] = cpu[e] /\ full'[e] = full[e]
      /\ slubhead'[p].cache = c /\ slubhead'[p].nr_objs = nr + 1
      /\ \A b \in Blocks \ {p} : slubhead'[b] = slubhead[b]
  BY <1>1 DEF SlubTypeOK
<1>7. OnPages'
  <2> SUFFICES ASSUME NEW o \in objects'
               PROVE  \E e \in Sizes :
                        cpu'[e].page = o.page \/ \E k \in 1 .. Len(full'[e]) : full'[e][k] = o.page
    BY DEF OnPages
  <2>1. CASE o.page = p
    BY <1>4, <1>6, <2>1
  <2>2. CASE o.page # p
    <3>1. o \in objects
      BY <1>1, <2>2
    <3>2. PICK e \in Sizes : cpu[e].page = o.page \/ \E k \in 1 .. Len(full[e]) : full[e][k] = o.page
      BY <3>1 DEF OnPages
    <3>3. CASE e # c
      BY <1>6, <3>2, <3>3
    <3>4. CASE e = c
      <4>1. o.page # NULL
        BY <3>1, SlubAssumption DEF SlubTypeOK, Blocks, NULL
      <4>2. \E j \in 1 .. Len(list) : list[j] = o.page
        BY <2>2, <3>2, <3>4, <4>1
      <4> QED BY <1>4, <1>6, <4>2
    <3> QED BY <3>3, <3>4
  <2> QED BY <2>1, <2>2
<1>8. InFront'
  <2> SUFFICES ASSUME NEW e \in Sizes, cpu'[e].page # NULL
               PROVE  /\ slubhead'[cpu'[e].page].cache = e
                      /\ HeadSize <= cpu'[e].freeobj
                      /\ \A o \in objects' : o.page = cpu'[e].page => o.at <= cpu'[e].freeobj
    BY DEF InFront
  <2>1. CASE e = c
    <3>1. cpu'[e].page = p /\ cpu'[e].freeobj = obj
      BY <1>6, <2>1 DEF NoPage
    <3>2. \A o \in objects' : o.page = p => o.at <= obj
      <4>1. ASSUME NEW o \in objects, o.page = p PROVE o.at <= obj
        <5>1. o.at \in Nat
          BY DEF SlubTypeOK
        <5>2. o.at + size(c) <= obj
          BY <4>1
        <5> QED BY <1>2, <5>1, <5>2
      <4>2. new.at <= obj
        OBVIOUS
      <4> QED BY <1>1, <4>1, <4>2
    <3> QED BY <1>6, <2>1, <3>1, <3>2
  <2>2. CASE e # c
    <3>1. cpu'[e] = cpu[e] /\ cpu[e].page # p /\ cpu[e].page \in Blocks
      BY <1>6, <2>2 DEF SlubTypeOK
    <3>2. \A o \in objects' : o.page = cpu[e].page => o \in objects
      BY <1>1, <3>1
    <3> QED BY <1>6, <3>1, <3>2 DEF InFront
  <2> QED BY <2>1, <2>2
<1>9. ObjectsApart'
  <2>1. ASSUME NEW o \in objects' PROVE Bytes(o) \subseteq HeadSize .. PAGE_SIZE - 1
    <3>1. CASE o \in objects
      BY <3>1 DEF ObjectsApart
    <3>2. CASE o = new
      BY <1>2, <3>2 DEF Bytes, HeadSize
    <3> QED BY <1>1, <3>1, <3>2
  <2>2. ASSUME NEW o \in objects', NEW q \in objects', o.page = q.page, o # q
        PROVE  Bytes(o) \cap Bytes(q) = {}
    <3>1. ASSUME NEW r \in objects, r.page = p PROVE Bytes(r) \cap Bytes(new) = {}
      <4>1. r.cache = c /\ r.at \in Nat /\ r.at + size(c) <= obj
        BY <3>1 DEF SlubTypeOK
      <4> QED BY <1>2, <4>1 DEF Bytes
    <3>2. CASE o \in objects /\ q \in objects
      BY <2>2, <3>2 DEF ObjectsApart
    <3>3. CASE o \in objects /\ q = new
      BY <2>2, <3>1, <3>3
    <3>4. CASE o = new /\ q \in objects
      BY <2>2, <3>1, <3>4
    <3> QED BY <1>1, <2>2, <3>2, <3>3, <3>4
  <2>3. ASSUME NEW b \in Blocks
        PROVE  /\ slubhead'[b].nr_objs = Cardinality({o \in objects' : o.page = b})
               /\ \A o \in objects' : o.page = b => o.cache = slubhead'[b].cache
    <3>1. CASE b = p
      <4>1. {o \in objects' : o.page = p} = {o \in objects : o.page = p} \cup {new}
        BY <1>1
      <4>2. IsFiniteSet({o \in objects : o.page = p})
        BY FS_Subset DEF SlubTypeOK
      <4>3. new \notin {o \in objects : o.page = p}
        BY <1>3
      <4>4. Cardinality({o \in objects : o.page = p} \cup {new}) = nr + 1
        BY <4>2, <4>3, FS_AddElement
      <4>5. Cardinality({o \in objects' : o.page = p}) = nr + 1
        BY <4>1, <4>4, Zenon
      <4>6. \A o \in objects' : o.page = p => o.cache = c
        BY <1>1
      <4> QED BY <1>6, <3>1, <4>5, <4>6
    <3>2. CASE b # p
      <4>1. {o \in objects' : o.page = b} = {o \in objects : o.page = b}
        BY <1>1, <3>2
      <4>2. /\ slubhead[b].nr_objs = Cardinality({o \in objects : o.page = b})
            /\ \A o \in objects : o.page = b => o.cache = slubhead[b].cache
        BY Zenon DEF ObjectsApart
      <4>3. slubhead'[b] = slubhead[b]
        BY <1>6, <3>2
      <4>4. \A o \in objects' : o.page = b => o \in objects
        BY <1>1, <3>2
      <4> QED BY <4>1, <4>2, <4>3, <4>4, Zenon
    <3> QED BY <3>1, <3>2
  <2> QED BY <2>1, <2>2, <2>3 DEF ObjectsApart, Bytes, size, objsize
<1> QED BY <1>5, <1>7, <1>8, <1>9

\* Then the page is in use by the cache or on its full list, and a page that was in
\* use before is on the full list too.
LEMMA HandsOutUses ==
  ASSUME SlubTypeOK, OneUser,
         NEW c \in Sizes, NEW p \in Blocks, NEW obj \in Nat, NEW nr \in Nat, NEW list \in Seq(Blocks),
         HandOut(c, p, obj, nr, list), UNCHANGED <<tasks, taskpage, dirpage, pgd, hand>>,
         Free' \subseteq Free \ {p}, Free \subseteq Blocks,
         \A x \in Users(p) : x = <<"cpu", c>>,
         \/ list = full[c]
         \/ cpu[c].page # NULL /\ cpu[c].page # p /\ list = Append(full[c], cpu[c].page)
  PROVE  OneUser'
<1> DEFINE q    == cpu[c].page
           n    == Len(full[c])
           next == NextObj(c, obj)
           last == IF next = 0 THEN Append(list, p) ELSE list
<1>1. /\ full' = [full EXCEPT ![c] = last]
      /\ cpu' = [cpu EXCEPT ![c] = IF next = 0 THEN NoPage ELSE [page |-> p, freeobj |-> obj]]
  BY DEF HandOut
<1>2. full[c] \in Seq(Blocks) /\ n \in Nat /\ q \in Blocks \cup {NULL}
  BY DEF SlubTypeOK
<1>3. \A k \in 1 .. Len(list) : \/ k \in 1 .. n /\ list[k] = full[c][k]
                                \/ k = n + 1 /\ list[k] = q /\ list # full[c] /\ q # NULL
  <2>1. CASE list = full[c]
    BY <2>1
  <2>2. CASE list # full[c]
    <3>1. q \in Blocks /\ list = Append(full[c], q)
      BY <1>2, <2>2
    <3>2. Len(list) = n + 1 /\ list[n + 1] = q /\ \A k \in 1 .. n : list[k] = full[c][k]
      BY <1>2, <3>1, AppendProperties
    <3>3. \A k \in 1 .. n + 1 : k \in 1 .. n \/ k = n + 1
      BY <1>2
    <3> QED BY <2>2, <3>2, <3>3
  <2> QED BY <2>1, <2>2
<1>4. \A k \in 1 .. Len(last) : \/ k \in 1 .. Len(list) /\ last[k] = list[k]
                                \/ k = Len(last) /\ last[k] = p /\ next = 0
  <2>1. CASE next = 0
    <3>1. /\ last = Append(list, p) /\ Len(last) = Len(list) + 1 /\ last[Len(list) + 1] = p
          /\ \A k \in 1 .. Len(list) : last[k] = list[k]
      BY <2>1, AppendProperties
    <3>2. Len(list) \in Nat
      OBVIOUS
    <3>3. \A k \in 1 .. Len(list) + 1 : k \in 1 .. Len(list) \/ k = Len(list) + 1
      BY <3>2
    <3> QED BY <2>1, <3>1, <3>3
  <2>2. CASE next # 0
    BY <2>2
  <2> QED BY <2>1, <2>2
<1> HIDE DEF next, last
<1>5. /\ cpu'[c].page = IF next = 0 THEN NULL ELSE p
      /\ full'[c] = last
      /\ \A e \in Sizes \ {c} : cpu'[e] = cpu[e] /\ full'[e] = full[e]
  BY <1>1 DEF SlubTypeOK, NoPage
<1>6. ASSUME NEW b \in Blocks, NEW x \in Users(b)'
      PROVE  \/ x \in Users(b) /\ x # <<"cpu", c>>
             \/ x = <<"cpu", c>> /\ b = p /\ next # 0
             \/ x = <<"full", c, n + 1>> /\ b = q /\ list # full[c] /\ q # NULL
             \/ x = <<"full", c, Len(last)>> /\ b = p /\ next = 0
  <2>1. b # NULL
    BY SlubAssumption DEF Blocks, NULL
  <2>2. ASSUME NEW e \in Sizes, x = <<"cpu", e>>, cpu'[e].page = b
        PROVE  \/ x \in Users(b) /\ x # <<"cpu", c>>
               \/ x = <<"cpu", c>> /\ b = p /\ next # 0
    <3>1. CASE e = c
      BY <1>5, <2>1, <2>2, <3>1
    <3>2. CASE e # c
      <4>1. cpu[e].page = b /\ x # <<"cpu", c>>
        BY <1>5, <2>2, <3>2
      <4>2. x \in Users(b)
        BY <2>2, <4>1, UserIs
      <4> QED BY <4>1, <4>2
    <3> QED BY <3>1, <3>2
  <2>3. ASSUME NEW e \in Sizes, NEW k \in 1 .. Len(full'[e]), x = <<"full", e, k>>, full'[e][k] = b
        PROVE  \/ x \in Users(b) /\ x # <<"cpu", c>>
               \/ x = <<"full", c, n + 1>> /\ b = q /\ list # full[c] /\ q # NULL
               \/ x = <<"full", c, Len(last)>> /\ b = p /\ next = 0
    <3>1. ASSUME k \in 1 .. Len(full[e]), full[e][k] = b PROVE x \in Users(b) /\ x # <<"cpu", c>>
      BY <2>3, <3>1, UserIs
    <3>2. CASE e # c
      BY <1>5, <3>1, <3>2, <2>3
    <3>3. CASE e = c
      <4>1. k \in 1 .. Len(last) /\ last[k] = b
        BY <1>5, <2>3, <3>3
      <4> QED BY <1>3, <1>4, <2>3, <3>1, <3>3, <4>1
    <3> QED BY <3>2, <3>3
  <2>4. ASSUME \/ \E t \in tasks : x = <<"task", t>> /\ taskpage[t] = b
               \/ \E t \in tasks : x = <<"pgd", t>> /\ dirpage[t] = b
               \/ \E d \in Dirs, t \in tasks : x = <<"table", d>> /\ pgd[t][d] = b
               \/ x = <<"hand">> /\ hand = b
        PROVE  x \in Users(b) /\ x # <<"cpu", c>>
    BY <2>4, UserIs
  <2> QED BY <2>2, <2>3, <2>4, UserIsNext
<1>7. \A x, y \in Users(p)' : x = y
  BY <1>6
<1>8. ASSUME NEW b \in Blocks, b # p, b = q, list # full[c]
      PROVE  b \notin Free' /\ \A x, y \in Users(b)' : x = y
  <2>1. <<"cpu", c>> \in Users(b)
    BY <1>8, UserIs
  <2>2. \A x \in Users(b) : x = <<"cpu", c>>
    BY <2>1 DEF OneUser
  <2>3. b \notin Free
    BY <2>1 DEF OneUser
  <2> QED BY <1>6, <1>8, <2>2, <2>3
<1>9. ASSUME NEW b \in Blocks, b # p, ~(b = q /\ list # full[c])
      PROVE  Users(b)' \subseteq Users(b)
  BY <1>6, <1>9
<1> QED BY <1>7, <1>8, <1>9, MovesKeep

\* kmalloc keeps all of it, as long as the kernel is up.
LEMMA SlubShares ==
  ASSUME PagingInv, SharedInv, up, up', NEW c \in Sizes, slub_alloc(c),
         UNCHANGED <<tasks, taskpage, dirpage, pgd, hand>>
  PROVE  SharedInv'
<1>1. /\ SlubTypeOK /\ OneUser /\ OnPages /\ InFront /\ ObjectsApart
      /\ pool \in Seq(Pages) /\ Once /\ Free \subseteq Blocks
      /\ NULL \notin Blocks /\ full[c] \in Seq(Blocks)
      /\ cpu[c].page \in Blocks \cup {NULL} /\ cpu[c].freeobj \in Nat
  BY FreeBlocks DEF SharedInv, PagingInv, PagingTypeOK, Fresh, SlubTypeOK, Blocks, NULL
<1>2. size(c) \in Nat /\ size(c) > HeadSize /\ HeadSize \in Nat
  BY SizeFacts DEF HeadSize
<1>3. CASE AllocHere(c)
  <2> DEFINE p   == cpu[c].page
             obj == Candidate(c)
             nr  == slubhead[p].nr_objs
  <2>1. /\ p # NULL /\ obj = NextObj(c, cpu[c].freeobj) /\ obj # 0
        /\ HandOut(c, p, obj, nr, full[c]) /\ pool' = pool
    BY <1>3 DEF AllocHere, Candidate
  <2>2. /\ obj \in Nat /\ obj = cpu[c].freeobj + size(c) /\ obj + size(c) <= PAGE_SIZE
    BY <1>1, <2>1, NextFacts
  <2>3. /\ p \in Blocks /\ nr \in Nat /\ nr = Cardinality({o \in objects : o.page = p})
        /\ \A o \in objects : o.page = p => o.cache = slubhead[p].cache
    BY <1>1, <2>1, Zenon DEF ObjectsApart, SlubTypeOK
  <2>4. nr \in Nat
    BY <1>1, <2>1, <2>3 DEF SlubTypeOK
  <2>5. HeadSize <= obj /\ \A o \in objects : o.page = p => o.cache = c /\ o.at + size(c) <= obj
    BY <1>1, <1>2, <2>1, <2>2, <2>3 DEF InFront, SlubTypeOK
  <2>6. <<"cpu", c>> \in Users(p)
    BY <2>3, UserIs
  <2>7. p \notin Free /\ \A x \in Users(p) : x = <<"cpu", c>>
    BY <1>1, <2>3, <2>6 DEF OneUser
  <2>8. \A e \in Sizes : cpu[e].page = p => e = c
    BY <2>3, <2>7, UserIs
  <2>9. Free' = Free
    BY <2>1 DEF Free
  <2> HIDE DEF p, obj, nr
  <2>10. SlubTypeOK' /\ OnPages' /\ InFront' /\ ObjectsApart'
    BY <1>1, <2>1, <2>2, <2>3, <2>4, <2>5, <2>8, HandsOut DEF p
  <2>11. OneUser'
    BY <1>1, <2>1, <2>2, <2>3, <2>4, <2>7, <2>9, HandsOutUses
  <2> QED BY <2>10, <2>11 DEF SharedInv
<1>4. CASE AllocNew(c)
  <2> DEFINE obj  == NextObj(c, 0)
             list == Retired(c)
  <2>1. /\ ~ReturnsNull /\ TakeBlocks(1) /\ obj # 0
        /\ HandOut(c, Head(pool), obj, 0, list)
    BY <1>4 DEF AllocNew
  <2>2. PICK p \in Free : p = Head(pool) /\ Free' = Free \ {p}
    BY <1>1, <2>1, TakeOne
  <2>3. obj \in Nat /\ obj = size(c) /\ obj + size(c) <= PAGE_SIZE
    BY <1>2, <2>1, NextFacts
  <2>4. p \in Blocks /\ Users(p) = {}
    BY <1>1, <2>2 DEF OneUser
  <2>5. \A x : x \notin Users(p)
    BY <2>4
  <2>6. /\ \A e \in Sizes : cpu[e].page # p
        /\ \A e \in Sizes : \A k \in 1 .. Len(full[e]) : full[e][k] # p
    BY <2>4, <2>5, UserIs
  <2>7. \A o \in objects : o.page # p
    BY <1>1, <2>6 DEF OnPages
  <2>8. 0 = Cardinality({o \in objects : o.page = p})
    <3>1. {o \in objects : o.page = p} = {}
      BY <2>7
    <3>2. Cardinality({o \in objects : o.page = p}) = Cardinality({})
      BY <3>1, Zenon
    <3> QED BY <3>2, FS_EmptySet
  <2>9. /\ list \in Seq(Blocks)
        /\ \/ list = full[c]
           \/ cpu[c].page # NULL /\ cpu[c].page # p /\ list = Append(full[c], cpu[c].page)
        /\ \A k \in 1 .. Len(full[c]) : \E j \in 1 .. Len(list) : list[j] = full[c][k]
        /\ cpu[c].page # NULL => \E j \in 1 .. Len(list) : list[j] = cpu[c].page
    <3>1. CASE cpu[c].page = NULL
      BY <1>1, <3>1 DEF Retired
    <3>2. CASE cpu[c].page # NULL
      <4>1. list = Append(full[c], cpu[c].page) /\ cpu[c].page \in Blocks
        BY <1>1, <3>2 DEF Retired
      <4>2. /\ list \in Seq(Blocks) /\ Len(list) = Len(full[c]) + 1
            /\ list[Len(full[c]) + 1] = cpu[c].page
            /\ \A k \in 1 .. Len(full[c]) : list[k] = full[c][k]
        BY <1>1, <4>1, AppendProperties
      <4>3. Len(full[c]) \in Nat
        BY <1>1
      <4> QED BY <2>6, <3>2, <4>1, <4>2, <4>3
    <3> QED BY <3>1, <3>2
  <2> HIDE DEF obj, list
  <2>10. SlubTypeOK' /\ OnPages' /\ InFront' /\ ObjectsApart'
    <3>1. HandOut(c, p, obj, 0, list) /\ HeadSize <= obj /\ 0 \in Nat
      BY <1>2, <2>1, <2>2, <2>3
    <3>2. \A o \in objects : o.page = p => o.cache = c /\ o.at + size(c) <= obj
      BY <2>7
    <3>3. \A e \in Sizes : cpu[e].page = p => e = c
      BY <2>6
    <3>4. cpu[c].page # NULL => \/ cpu[c].page = p
                                \/ \E j \in 1 .. Len(list) : list[j] = cpu[c].page
      BY <2>9
    <3> QED BY <1>1, <2>3, <2>4, <2>8, <2>9, <3>1, <3>2, <3>3, <3>4, HandsOut
  <2>11. OneUser'
    BY <1>1, <2>1, <2>2, <2>3, <2>4, <2>5, <2>9, HandsOutUses
  <2> QED BY <2>10, <2>11 DEF SharedInv
<1>5. CASE AllocDrains(c) \/ AllocDies(c) \/ AllocNull(c)
  BY <1>5 DEF AllocDrains, AllocDies, AllocNull, die
<1> QED BY <1>3, <1>4, <1>5 DEF slub_alloc

-----------------------------------------------------------------------------
LEMMA SharedInit == Init => SharedInv
<1> SUFFICES ASSUME Init PROVE SharedInv
  OBVIOUS
<1>1. SlubTypeOK
  BY FS_EmptySet DEF Init, SlubInit, SlubTypeOK, NoPage
<1>2. NULL \notin Blocks
  BY SlubAssumption DEF Blocks, NULL
<1>3. OneUser
  <2>1. \A c \in Sizes : cpu[c].page = NULL /\ Len(full[c]) = 0
    BY DEF Init, SlubInit, NoPage
  <2>2. /\ \A t \in tasks : taskpage[t] = NULL /\ dirpage[t] = NULL
        /\ \A t \in tasks, d \in Dirs : pgd[t][d] = NULL
        /\ hand = NULL
    BY PagingAssumption DEF Init
  <2>3. \A c \in Sizes : 1 .. Len(full[c]) = {}
    BY <2>1
  <2>4. ASSUME NEW b \in Blocks, NEW x \in Users(b) PROVE FALSE
    BY <1>2, <2>1, <2>2, <2>3, UserIs
  <2>5. Free \subseteq Blocks
    BY PagingInitInv, FreeBlocks DEF PagingInv, PagingTypeOK
  <2> QED BY <2>4, <2>5 DEF OneUser
<1>4. OnPages /\ InFront
  BY DEF Init, SlubInit, OnPages, InFront, NoPage
<1>5. ObjectsApart
  <2>1. objects = {} /\ \A b \in Blocks : slubhead[b].nr_objs = 0
    BY DEF Init, SlubInit
  <2>2. ASSUME NEW b \in Blocks PROVE Cardinality({o \in objects : o.page = b}) = 0
    <3>1. {o \in objects : o.page = b} = {}
      BY <2>1
    <3>2. Cardinality({o \in objects : o.page = b}) = Cardinality({})
      BY <3>1, Zenon
    <3> QED BY <3>2, FS_EmptySet
  <2> QED BY <2>1, <2>2 DEF ObjectsApart
<1> QED BY <1>1, <1>3, <1>4, <1>5 DEF SharedInv

LEMMA SharedStep == PagingInv /\ SharedInv /\ [Next]_vars => SharedInv'
<1> SUFFICES ASSUME PagingInv, SharedInv, [Next]_vars, up' PROVE SharedInv'
  BY DEF SharedInv
<1>1. CASE UNCHANGED vars
  <2>1. /\ up /\ UNCHANGED <<pool, hand, cpu, full, tasks, taskpage, dirpage, pgd, slubVars>>
    BY <1>1 DEF vars, slubVars, taskVars, tableVars
  <2>2. OneUser'
    BY <2>1, HandKeeps, PoolKept DEF SharedInv
  <2> QED BY <2>1, <2>2, SlubIdle DEF SharedInv
<1>2. CASE Next
  <2>1. /\ up /\ SlubTypeOK /\ OneUser /\ OnPages /\ InFront /\ ObjectsApart
        /\ current \in tasks /\ tasks \subseteq Tasks
    BY <1>2 DEF Next, SharedInv, PagingInv, PagingTypeOK
  <2>2. ASSUME UNCHANGED slubVars, UNCHANGED <<tasks, taskpage, dirpage>>, OneUser' PROVE SharedInv'
    BY <2>1, <2>2, SlubIdle DEF SharedInv
  <2>3. \/ \E c \in Sizes : slub_alloc(c) /\ UNCHANGED <<taskVars, tableVars, hand>>
        \/ InitMap \/ MapPage
        \/ \E t \in Tasks \ tasks : ForkPgd(t)
        \/ /\ UNCHANGED <<slubVars, tasks, taskpage, tableVars>>
           /\ \/ UNCHANGED <<pool, hand>>
              \/ NewPage /\ ~ReturnsNull
              \/ ForkTask \/ ForkNoTask \/ ForkNoPgd
    <3>1. CASE InitVma \/ VmaNew \/ \E c \in Sizes : Kmalloc(c)
      BY <3>1, PagingAssumption DEF InitVma, VmaNew, Kmalloc
    <3>2. CASE NewPage
      BY <3>2 DEF NewPage, die, taskVars
    <3>3. CASE ForkTask \/ ForkNoTask \/ ForkNoPgd
      BY <3>3 DEF ForkTask, ForkNoTask, ForkNoPgd, taskVars
    <3>4. CASE VmaRefused \/ VmaEndless
      BY <3>4 DEF VmaRefused, VmaEndless, die
    <3>5. CASE VmaFound \/ Resume \/ \E t \in tasks : SwitchTo(t)
      BY <3>5 DEF VmaFound, Resume, SwitchTo, taskVars
    <3>6. CASE \E va \in Vas : MissHeap(va) \/ MissCode(va) \/ do_copyonwrite(va)
      BY <3>6 DEF MissHeap, MissCode, do_copyonwrite, taskVars, die
    <3> QED BY <1>2, <3>1, <3>2, <3>3, <3>4, <3>5, <3>6 DEF Next, Kernel, Fault, User, ForkEnds
  <2>4. ASSUME NEW c \in Sizes, slub_alloc(c), UNCHANGED <<taskVars, tableVars, hand>>
        PROVE  SharedInv'
    <3>1. UNCHANGED <<tasks, taskpage, dirpage, pgd, hand>>
      BY <2>4 DEF taskVars, tableVars
    <3> QED BY <2>1, <2>4, <3>1, SlubShares
  <2>5. CASE InitMap
    <3>1. /\ UNCHANGED <<slubVars, cpu, full, tasks, taskpage, dirpage, hand>>
          /\ do_one_mapping(init, CodeVa, Code)
      BY <2>5 DEF InitMap, taskVars, die, slubVars
    <3>2. init \in tasks /\ CodeVa \in Vas /\ Code \in Entries
      BY <2>1, <2>5, PagingAssumption DEF InitMap, PagingInv, Handling, Vas, Entries
    <3> QED BY <2>1, <2>2, <3>1, <3>2, TableKeeps
  <2>6. CASE MapPage
    <3>1. /\ UNCHANGED <<slubVars, cpu, full, tasks, taskpage, dirpage>> /\ hand' = NULL
          /\ at = "map"
      BY <2>6 DEF MapPage, taskVars, slubVars
    <3>2. miss[current] \in Vas /\ Page1 \in Entries
      BY <3>1 DEF PagingInv, Handling, Entries
    <3>3. CASE do_one_mapping(current, miss[current], Page1)
      BY <2>1, <2>2, <3>1, <3>2, <3>3, TableKeeps
    <3>4. CASE ReturnsNull /\ pool' = Left /\ UNCHANGED pgd
      <4>1. SameFree
        BY <3>4, NullTaken DEF PagingInv, PagingTypeOK, Fresh
      <4> QED BY <2>1, <2>2, <3>1, <3>4, <4>1, HandKeeps
    <3> QED BY <2>6, <3>3, <3>4 DEF MapPage
  <2>7. ASSUME NEW t \in Tasks \ tasks, ForkPgd(t) PROVE SharedInv'
    <3>1. UNCHANGED <<slubVars, cpu, full>> /\ hand # NULL
      BY <2>1, <2>7 DEF ForkPgd, PagingInv, Handling, slubVars
    <3>2. OneUser'
      BY <2>1, <2>7, <3>1, ForkedKeeps
    <3>3. SlubTypeOK'
      <4>1. /\ taskpage' = [taskpage EXCEPT ![t] = hand]
            /\ dirpage' = [dirpage EXCEPT ![t] = Head(pool)]
            /\ hand \in Blocks /\ Head(pool) \in Blocks
        BY <2>7, <3>1, TakeOne DEF ForkPgd, PagingInv, PagingTypeOK, Fresh
      <4> QED BY <2>1, <3>1, <4>1 DEF SlubTypeOK, slubVars
    <3> QED BY <2>1, <3>1, <3>2, <3>3, SlubIdle DEF SharedInv
  <2>8. CASE /\ UNCHANGED <<slubVars, tasks, taskpage, tableVars>>
             /\ \/ UNCHANGED <<pool, hand>>
                \/ NewPage /\ ~ReturnsNull
                \/ ForkTask \/ ForkNoTask \/ ForkNoPgd
    <3>1. UNCHANGED <<slubVars, cpu, full, tasks, taskpage, dirpage, pgd>>
      BY <2>8 DEF slubVars, tableVars
    <3>2. \/ SameFree /\ hand' = hand
          \/ ~ReturnsNull /\ TakeBlocks(1) /\ hand' = Head(pool)
          \/ hand # NULL /\ Returned /\ hand' = NULL
      <4>1. CASE UNCHANGED <<pool, hand>>
        BY <4>1, PoolKept
      <4>2. CASE (NewPage /\ ~ReturnsNull) \/ ForkTask
        BY <4>2 DEF NewPage, ForkTask
      <4>3. CASE ForkNoTask
        BY <4>3, NullTaken DEF ForkNoTask, PagingInv, PagingTypeOK, Fresh
      <4>4. CASE ForkNoPgd
        <5>1. hand # NULL /\ hand' = NULL /\ ReturnsNull /\ pool' = kfree(hand, kfree(NULL, Left))
          BY <2>1, <4>4 DEF ForkNoPgd, PagingInv, Handling
        <5>2. hand \in Blocks /\ hand \notin Free /\ pool \in Seq(Pages) /\ Once
          BY <5>1 DEF PagingInv, PagingTypeOK, Fresh
        <5> QED BY <5>1, <5>2, GiveBack
      <4> QED BY <2>8, <4>1, <4>2, <4>3, <4>4
    <3> QED BY <2>1, <2>2, <3>1, <3>2, HandKeeps
  <2> QED BY <2>3, <2>4, <2>5, <2>6, <2>7, <2>8
<1> QED BY <1>1, <1>2

\* Where each block is, and which objects are on the pages of slub.
THEOREM SharedInvariant == Spec => []SharedInv
<1> QED BY PagingInvariant, SharedInit, SharedStep, PTL DEF Spec

\* Page 0 is among the free blocks once at most.
LEMMA OnePage0 ==
  ASSUME pool \in Seq(Pages), Once
  PROVE  Cardinality({k \in 1 .. Len(pool) : pool[k] = NULL}) <= 1
<1> DEFINE Z == {k \in 1 .. Len(pool) : pool[k] = NULL}
<1>1. \A j, k \in Z : j = k
  BY DEF Once, OnceIn
<1> HIDE DEF Z
<1>2. CASE Z = {}
  <2>1. Cardinality(Z) = Cardinality({})
    BY <1>2, Zenon
  <2>2. Cardinality({}) = 0
    BY FS_EmptySet, Zenon
  <2>3. Cardinality(Z) <= 1
    BY <2>1, <2>2
  <2> QED BY <2>3 DEF Z
<1>3. CASE Z # {}
  <2>1. PICK k : Z = {k}
    BY <1>1, <1>3
  <2>2. Cardinality(Z) = Cardinality({k})
    BY <2>1, Zenon
  <2>3. Cardinality({k}) = 1
    BY FS_Singleton, Zenon
  <2>4. Cardinality(Z) <= 1
    BY <2>2, <2>3
  <2> QED BY <2>4 DEF Z
<1> QED BY <1>2, <1>3

\* No memory has two users, as long as the kernel is up: a block is free, or in one
\* place, and objects do not overlap, also when kfree(NULL) has put page 0 among the
\* free blocks (slub_alloc, kmalloc, kfree, do_one_mapping, copy_mem,
\* do_pg_unpresent).
THEOREM MemoryNotShared == Spec => []NoSharedMemory
<1>1. PagingInv /\ SharedInv => NoSharedMemory
  BY OnePlace, OnePage0 DEF PagingInv, PagingTypeOK, Fresh, SharedInv, NoSharedMemory
<1> QED BY PagingInvariant, SharedInvariant, <1>1, PTL
=============================================================================
